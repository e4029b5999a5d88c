# p2psdk in TLA+

Models, model-checking runs and proofs for the Rust SDK under `src/sdk/`: a peer-to-peer
client that gathers addresses, exchanges them through a signalling server or by SDP over HTTP,
agrees on a path with ICE and then sends data and heartbeats over UDP; the NAPI module that puts
it under JavaScript; the STUN and TURN calls, and the DTLS library they run over.
All paths below are relative to the repository. `agent.rs` stands for
`src/sdk/crates/p2p-core/src/ice/agent.rs`, `client.rs` for
`src/sdk/crates/p2p-sdk/src/client.rs`, `connector.rs` for
`src/sdk/crates/p2p-sdk/src/connector.rs`, `ws.rs` for `src/sdk/crates/p2p-tokio/src/ws.rs`,
`client_napi.rs` for `src/sdk/crates/p2p-napi/src/client_napi.rs`; `stun/`, `turn/`, `dtls/` are
below `src/sdk/crates/p2p-core/src/`, `dtls12/` and `dtls13/` below `src/sdk/crates/dimpl/src/`.

## 1. Inventory

| Component | State it keeps | Operations | Talks to | What is hard | Correct when |
|---|---|---|---|---|---|
| Check list (`ice/check_list.rs`) | none (pure) | pair priority, build, look-ups, "all failed" | ICE agent | ties | every local x remote pair once, best first |
| ICE agent (`ice/agent.rs`) | role, state, candidates, check list, nominated index, confirmed flag | set description, add candidate, `start_checks`, `tick`, requests, answers, 487, `stop`, `send_data` | the other agent by UDP; driven by two threads | late, repeated, crossing checks and answers; last retransmission against its answer | both ends use the two ends of one path, for good; the state tells the truth |
| ICE session (two agents, `client.rs` 651-736, 1097-1212) | both agents, datagrams in flight | as above | network, NAT, signalling | all orders of two agents' steps | nomination is carried through or given up |
| P2pClient threads (`client.rs`) | agent and socket, stop flag, two join handles, callback slot, last state | `connect` and its background thread, `start/stop_ice_threads`, both loops, `fire_state_change`, `close`, `stop_ice` | application, agent | several critical sections per call, the lock dropped around callbacks and joins | `close` leaves nothing behind, nobody waits for ever, every lasting state is reported |
| Heartbeats (`client.rs` 1138-1222) | time of the last heartbeat and of the last datagram | in the tick and receive loops | the peer | two unsynchronised timers, delay, loss, reconnect | silence is reported in time, liveness never reported as silence |
| Answers by sequence id (`client.rs` 758-781, 1223-1240) | queue of ids | receive loop, `send_text`, `close` | application | repeated datagrams, texts that answer nothing, failed sends, reconnects, order | an application that answers in turn has its answers correlated; ids go out in order, once for each arrival |
| Signalling (`connector.rs`, `ws.rs`) | socket, registered flag, back-off delay, stop flag | `run_with_reconnect`, `connect`, `poll`, `disconnect` | server | lost links, a connect that fails half-way or never returns, stop at any moment | messages reach the application in order and without a gap, lost links are made again, stop ends the loop |
| NAPI client (`client_napi.rs`) | one global instance: agent, socket, stop flags, handles, registration, outgoing channel | `connectConnector`, `disconnectConnector`, `initiateIce`, `stopIce`, `close`, offers and answers of the peer | P2pClient, Connector, JavaScript | four kinds of threads and one mutex that each start and stop takes several times | every thread can be stopped, `close` leaves nothing behind, an answer finds its agent, JavaScript learns the state |
| NAPI bridge, C exports, log | thread-safe functions | register, fire, release | JavaScript engine | release while firing | nothing is told after the release |
| STUN over DTLS (`stun/client.rs`, `dtls/session.rs`), TURN (`turn/session.rs`) | handshake state, transaction id, allocation | binding, allocate, permission, close | server | late and repeated datagrams taken for the answer | an answer belongs to its request, losses are overcome, a call returns |
| DTLS 1.2 (`dtls12/`) | state of each side, receive and transmit queue, saved flight, timers, window, keys | `handle_packet`, `handle_timeout`, `poll_output`, `send_application_data`, `close` | the peer; the caller's loop | loss, repetition, reordering and fragmentation in each of some thirty states | both sides get the same keys, losses are overcome, outputs in order and once |
| DTLS 1.3 (`dtls13/`) | the same, with epochs, acknowledgements and key updates | the same | the same | selective repeats, crossing key updates, HelloRetryRequest | the same, and epochs stay in step |
| Codecs, SDP, candidates, crypto, tokens, ids, config | none | pure conversions, single HTTP calls | - | - | no behaviour over time |
| DTLS facade, cryptography, buffers; demo applications | choice of the version | - | - | - | out of scope |

How they interact. `P2pClient::connect` returns at once; a background thread gathers, exchanges
descriptions, stores agent and socket and starts a tick thread (every 50 ms) and a receive
thread. Both take the client's mutex for each handler of the agent, so a handler is atomic
with respect to the other loop; callbacks, joins and network calls happen outside of the mutex.
The agents of two clients only meet through datagrams. Independently, a signalling loop owns a
WebSocket and calls back for status and messages. The NAPI module has an agent and threads of its
own beside a `P2pClient`, and one mutex over all of them: JavaScript's thread, the connector's
thread (which handles offers and answers) and the ICE threads meet there. While gathering, a
thread makes one STUN or TURN call after the other; each drives a DTLS 1.2 client of the library
through its handshake and sends one request.

## 2. Modules

| Module | Models | State and actions |
|---|---|---|
| `IceCheckList` | `check_list.rs`, pair construction of `start_checks` | `CheckLists` (the sorted list; equal priorities in any order), `Position` (first match), `AllPairsFailed` |
| `IceAgent` | `agent.rs`, one operator per handler | an agent is a record; each operator maps the old record to the new one: `OnTick`, `OnRequest`, `OnResponse`, `OnRoleConflict`, `OnStop`, `StartChecksResults`, ... |
| `IceSession` | two agents and the network | variables `agent`, `net`, `faults`; one action per handler that can run: `Tick`, `ReceiveRequest`, `ReceiveResponse`, `AcceptDescription`, `SetRemoteDescription`, `StartChecks`, `AddRemoteCandidate`, `Stop`, and for the network `Lose`, `Duplicate`, `ReceiveRoleConflict` |
| `Nomination` | abstract specification | the controlling agent chooses one path, once; the controlled one adopts that path |
| `ClientThreads` | threads of one `P2pClient` | one action per critical section, or per step outside of it; `session` is agent and socket, which are stored and dropped together |
| `Heartbeat` | timers and frames of two connected clients | time in units: every tick loop runs once a unit; instants are kept as ages |
| `SeqCorrelation` | the queue `pending_seq_ids` | receive loop (push, then `on_data`; any frame at any time, also again), `send_text` as an answer in or out of turn or on the application's own account, failing sends, close and reconnect |
| `Connector` | `run_with_reconnect` step by step over `ws.rs` | the server, the network and whoever sets `stop` act between any two steps |
| `NapiClient` | the instance behind the NAPI module | `inner` is what the mutex guards; one action per critical section of JavaScript's calls, the connector thread, a start of a session (eleven steps) and the two ICE threads |
| `DtlsQueue` | what both record layers share | datagrams being packed, the receive queue, fragments and their reassembly, the replay window |
| `Dtls12Engine`, `Dtls12` | `dtls12/engine.rs`, `incoming.rs`, `context.rs`; `client.rs`, `server.rs` | an endpoint is a record; one action per state handler of each side (`AwaitServerHello`, `SendClientFinished`, ...); `Deliver`, `FlightTimerFires`, `ConnectTimerFires`, `SendApplicationData`, `Close` begin a call, which is `busy` until its handlers stop |
| `Dtls13Engine`, `Dtls13` | the same for `dtls13/` | with `AckTimerFires`, epochs, `CreateKeyUpdate` |
| `StunExchange` | `stun/client.rs`, `dtls/session.rs`, `turn/session.rs` | EXTENDS `Dtls12`: one thread runs a list of calls; its steps are those of the handshake loop and of the exchange, the server is a `Dtls12` server with an application that answers |
| `MCIceSession`, `MCHeartbeat`, `MCDtls12`, `MCDtls13`, `MCStun` | small instances | candidates, roles and routes; intervals; scenarios |
| `IceSessionProofs`, `ClientThreadsProofs`, `SeqCorrelationProofs`, `HeartbeatProofs`, `ConnectorProofs`, `NapiClientProofs`, `Dtls12Proofs`, `Dtls13Proofs` | theorems | see section 6 |

`IceSession` composes two `IceAgent`s; `StunExchange` composes the DTLS client with the session
that drives it; `ClientThreads` and `NapiClient` abstract what the agent does to the
state it is in; `Heartbeat` and `SeqCorrelation` start where an agent has Completed. A definition
introduced by "Mutant of X" stands before X and is a wrong X: replacing X by it
must break the property it belongs to, which shows that the property depends on the code.

Abstractions worth knowing:

* Timers of the agent: `Tick` sends any set of the pairs that could be due; so no
  property depends on the pacing of 50 ms or on the exact retransmission times.
* Transaction ids are the pair and the number of its send; the code draws them at random.
* Steps 1 to 6 of `connect_background` (gathering, HTTP) are one step that succeeds or fails.
* A candidate is an address and a priority; a frame is its type; a message is a number.
* The pair-priority formula has the base 2^32 in the code and `PRIO_BASE` here.
* DTLS: a key is what it is drawn from, a hash is the sequence hashed. Sizes are units; a
  message of n units can be cut into n fragments. A message carries the parameters the state
  machines compare; `cfg` is the scenario: both configurations and the bounds of the network.
* DTLS: a caller drains `poll_output` at the end of each call, as `lib.rs` asks; `StunExchange`
  polls as `dtls/session.rs` does, which is less.
* NAPI: what the agent and the connector's protocol do inside is in `IceSession` and
  `Connector`; a session is named after the call or the offer that starts it.

## 3. Runs

Distinct states in brackets.

| Run | Question and instance | Bounds and why they are enough |
|---|---|---|
| `ice_session` [229 k] | Both agents have two addresses; the controlling one's NAT gives each address of its peer a port of its own, so there are two ways and both work, and checks of both agents cross. Does the peer send on the other end of the way that was chosen (`PathsMirror`), is a controlling agent Completed only when its peer heard a check over it (`CompletedIsHeard`), is Completed final (`CompletedIsStable`), does the session implement `Nomination`? | 1 send: it is first and last, so its answer, its failure and the peer's check meet in every order; each of the two ways can be chosen and the other one succeed late. No repeats: with one the instance has 3.8 million states and passes as well, but in five minutes; the theorems of section 6 cover them |
| `ice_lifecycle` [2.0 M] | Restart, stop at any moment, late start of checks, a 487, a repeated datagram: is a stopped agent quiet (`ClosedIsQuiet`)? | 2 starts: the second meets datagrams of the first, also twice |
| `ice_nomination_live` [22 k] | Two pairs that both answer, no check of the peer arrives, a datagram may be lost. Does a controlling agent complete only with a peer that confirmed a pair (`NominationAgreed`), is the nomination kept (`PathIsStable`) and, if nothing is lost, carried through (`NominationCompletes`), does every agent leave Connecting (`ChecksEnd`)? | 2 pairs: a success after the nomination occurs; 2 sends: first and last |
| `ice_crossing` | violation: checks in both directions, no fault: a nomination is never carried through | one path, 2 sends |
| `client_sequential` [104 k] | An application that lets the background thread of a connect end before its next call: is everything released (`Released`), quiet (`QuietAfterClose`), every state told (`StateReported`), does every call return (`CallsReturn`)? | 2 connects (two generations of threads), 2 calls of `close`/`stop_ice`, 2 callbacks |
| `heartbeat_timeouts` [558 k] | Intervals of 3 and 7, so that A lives on B's replies; B dies and comes back. No false alarm, silence noticed in time | 9 units: longer than A's timeout of 6, shorter than B's, so only A can raise an alarm; delay up to 1 unit, 1 loss, 1 data frame |
| `seq_correlation` [1.27 M] | Requests arriving in any order and more than once, texts that answer nothing, out of turn or never come, failing sends, reconnects. Are the answers of an application that answers in turn correlated (`AnswersMatch`), do ids go out in order, once for each arrival (`IdsInOrder`)? | 3 requests, 1 message without id, 4 arrivals of requests (one is repeated), 3 texts |
| `connector_loop` [5.9 k] | Refused connects, a lost link, pings, a stop at any moment. Are the messages handed over the first ones forwarded (`MessagesInOrder`), all of them in the end (`MessagesDelivered`), does a stop end the loop (`StopEnds`)? | 1 lost link (the loop never makes another), 6 waits (the cap of 30 s is reached with the fifth), 3 messages, 2 frames that are not text |
| `dtls12_handshake` [252 k] | Thirteen scenarios: certificates on one or both sides, PSK with and without hint, cookies, data, closes, callers that leave timers alone, pairs that do not fit. Same keys, client last, outputs in order, no false failure, completion, quiet abort | up to 2 losses or 1 loss and 1 repetition in any place: each flight is lost or repeated once while the next is under way; certificates of 4 units in datagrams of 4, so messages are cut and packed; 4 places in the receive queue: with 3 a legal behaviour fails. A replay window of 4 is seldom left, so its "too old" half is hardly used |
| `dtls13_handshake` [302 k] | Seventeen scenarios with HelloRetryRequest, client certificates, cut certificates that are acknowledged in parts with and without a loss, key updates of both sides that are lost, repeated and repeated too soon, closes, callers that leave timers alone, two pairs that do not fit. Same keys with the server the last to connect, acknowledgements that tell the truth, epochs in step, no false failure, completion | as above; a limit of 2 records makes a side update its keys. The queues are far from full; 12 saved records, 16 and 32 numbers of the code are there as limits |
| `stun_exchange` [135 k] | Bindings and a TURN session of up to five calls, with servers that ask for a cookie or a certificate, refuse, or have no suite in common. Is an answer the call's own, are losses overcome, does each call return? | handshake limit of 5 waits with 2 resends, so each limit is met before the other in some behaviour; 1 or 2 faults |
| `napi_client` [168 k] | One `initiateIce`, one offer of the peer, one connector, one stop or close, in turn or a stop at any time. Can every thread be stopped, is `close` quiet, does an answer find its agent, does every call return, is the state told? | 2 sessions: one replaces the other while its threads run |

`CHECK_DEADLOCK FALSE` is set where a system really stops: an application stops calling, time
ends at `MAX_TIME`, all requests are answered, a loop ends, a handshake is over and both sides
are idle. The ICE runs leave it on: a tick with nothing due is always possible there. The
violation run keeps what the other ICE runs have, with the bounds of one counterexample.

Constants that select a class of behaviours:

* `CALLS` (`ClientThreads`): when the application makes its next call. `"any time"`: without
  regard to anything; `"informed"`: after each connect was reported; `"settled"`: after each
  background thread has ended and reported. The API offers no way to know the last; the demo
  closes after 30 s with a connect possibly still running (`src/app-test-rust/src/main.rs:122`).
* `PROGRESS` (`ClientThreads`): the states an agent gets to. `client_sequential` leaves out
  Failed, because a tick thread that reports Failed to an application which registers a new
  callback at once puts the old one back over it (`fire_state_change`, client.rs:1272).
* `STOPPABLE` (`Connector`): whether anybody sets `stop`. `connector_lost_link.cfg` has nobody who
  does, so that only the transport can keep the loop from making the link again.
* `USAGES` (`NapiClient`): `"in turn"`: a call waits until starts and messages are over;
  `"stops any time"`: a stop or close crosses one start; `"any time"`: everything crosses.
* `inTurn` (a variable of `SeqCorrelation`): whether the application has so far answered each
  call of `on_data`, in their order, with no send that failed and no other text while an id was
  queued.
* `rearms` (a scenario of `Dtls12` and `Dtls13`): whether the callers call `handle_timeout` after
  each new flight, which arms its timer. The event loop of the crate's documentation does not:
  `dtls12_documented_loop.cfg` has such callers, `dtls12_handshake` has them where nothing is lost
  and where nothing can succeed, `dtls13_handshake` where nothing is lost.

## 4. Fairness

* ICE: the tick loop runs every 50 ms and every timer is finite, the receive loop takes what the
  socket delivers, signalling delivers. Losing and repeating are never required.
* Client: every thread is scheduled; the network calls of `connect_background` have time limits
  (HTTP 10 s, DTLS 15 s); the application finishes a call it began, and owes no other.
* Signalling: the loop goes on from every step but one, its connect: the WebSocket handshake in it
  has no time limit (ws.rs:46) and need not come back. In `connector_lost_link.cfg` (`ReachableSpec`)
  the server can be reached: strong fairness of a successful connect says that a client which keeps
  trying gets through, and the server answers a registration.
* NAPI: every thread is scheduled and finishes the section it is in, but for a connector's
  connect, as above; the server and the peer owe nothing.
* DTLS: a call returns; the caller keeps the timers it is told, and with `rearms` also arms each
  new flight; what is not lost is delivered.
  `[]<>~G` stands for weak fairness of a step that always ends its own guard G. Losing, repeating,
  sending and closing are never required.
* STUN: the calling thread runs and its waits end; the server works and the network delivers.
* Heartbeats and ids: safety only; bounded reaction is stated with the time in the model.

## 5. Findings and limits of the properties

The run `ice_crossing` shows a bug that any session can meet; PROJECT.json quotes the line it
contradicts under "findings". The claim is "controlling + controlled agents complete handshake"
(agent.rs:535). A request that arrives for the nominated pair marks it Succeeded (agent.rs:388)
before USE-CANDIDATE was sent, and `tick` skips Succeeded pairs; both agents stay Connected. The
loopback test drives the two ends in an order in which this does not happen.

Ten more configurations are kept for counterexamples and are no part of the runs. Each is checked
by `tlc -config <configuration> <module>` and ends, within a minute, with TLC's violation of the one
property it names. Each shows that the code contradicts what it, its documents or its tests say.

| Configuration (module) | Property | Claim | What happens |
|---|---|---|---|
| `ice_alone.cfg` (`MCIceSession`) | `NominationAgreed` | both ends are Completed after USE-CANDIDATE (`docs/p2psdk-rust-system-design.md:328`) | `nominate_best` leaves the id of the earlier ordinary check in the pair until the next tick; the late answer to that check completes the controlling agent (agent.rs:459) |
| `client_close_crosses.cfg` (`ClientThreads`) | `Released` | "Stop ICE threads, close UDP, release all resources" (client.rs:837) | the background thread of `connect()` stores an agent after `close()` (client.rs:1061) |
| `seq_unsolicited.cfg` (`SeqCorrelation`) | `Correlated` | ids are picked up "for response correlation" (client.rs:768) | `send_text` takes the oldest id for any text |
| `connector_lost_link.cfg` (`Connector`) | `Reconnects` | "On disconnect, retries with exponential backoff" (connector.rs:133) | `try_recv` maps every read error to "nothing there" and `is_connected` looks at the socket object only (ws.rs:80, 91): the inner loop polls the dead link for ever |
| `connector_hanging.cfg` (`Connector`) | `EndsWhenTold` | "Runs until `stop` becomes true" (connector.rs:131) | the connect waits for a server that does not answer the WebSocket handshake (ws.rs:46) |
| `napi_overlapping_starts.cfg` (`NapiClient`) | `JoinsEnd` | a stop sets the flag and takes the handles under the lock, which "avoids deadlock" (client_napi.rs:422) | of two starts that overlap, one's flag replaces the other's before its handles are stored (client_napi.rs:757, 883) |
| `dtls12_early_repeat.cfg` (`MCDtls12`) | `NoDuplicates` | for epoch 1 there should be no duplicates (dtls12/engine.rs:302) | a record that waits for its keys has not met the replay window: its copy panics |
| `dtls12_documented_loop.cfg` (`MCDtls12`) | `HandshakeCompletes` | "schedule a timer and call `handle_timeout` at/after it" (`dimpl/src/lib.rs:69`) | a new flight leaves its timer unarmed, `poll_timeout` (dtls12/engine.rs:449) reports the connect timer only, and nothing is sent again |
| `dtls13_cut_certificate.cfg` (`MCDtls13`) | `CutHandshakeCompletes` | a client connects in spite of a lost fragment (`tests/dtls13/fragmentation.rs:342`) | what is left to repeat shares a datagram with the ServerHello, which the other side drops whole (dtls13/engine.rs:384) |
| `dtls13_lost_update.cfg` (`MCDtls13`) | `UpdatesComplete` | a lost KeyUpdate is repeated (`tests/dtls13/key_update.rs:432`) | the answer to the peer's update clears the flight with the endpoint's own (dtls13/client.rs:1079) |

"`close()` first stops all threads" (`docs/p2psdk-rust-system-design.md:360`) has no configuration: TLC
refutes `QuietWhenClosed` without `usage = "in turn"`, by an offer handled between
`stop_ice_threads` and `stop_connector` (client_napi.rs:393).

The following conditions are part of properties or instances because TLC finds a
counterexample without them:

* `NominationAgreed` is checked where no check of the controlled agent arrives; where they do,
  `ice_alone.cfg` refutes it. What holds there too is `CompletedIsHeard`: the peer has heard a check
  over the path and answered it, though it may not know that the path was chosen.
* `PathsMirror`, `PathIsStable` and `NominationPromise` are about one round of checks between opposed
  roles.
* A Failed agent can hold a nominated pair: the last send fails the pair at once (agent.rs:276)
  and its answer still nominates it.
* Two controlling agents whose checks cross both become controlled (agent.rs:365).
* An agent is Connected before it has a pair to send on, and may stay Connected for ever
  (`ice_crossing`): `ChecksEnd` only says that it leaves Connecting.
* `CallsReturn`, `QuietAfterClose`, `Released` and `ThreadsReachable` need `CALLS = "settled"`.
  With overlapping connects the second replaces the stop flag before the first has stored its
  handles, and a later `close()` joins threads nobody stops (client.rs:1085-1100, 1257-1260).
* An event fired while another thread holds the callback finds the slot empty and is lost
  (client.rs:1267); `StateReported` is about applications that do not connect again.
* `SilenceNoticed` is about peers that were heard: `None` never times out (client.rs:1164). That an
  alarm was raised is remembered until the next connect, so a second death of the same peer is not told from the
  first.
* `NoFalseAlarm` needs both intervals on: an end whose heartbeats are off answers none, and a
  peer that got a data frame from it reports Disconnected (client.rs:1207).
* Replies are heartbeats and are answered (client.rs:1209); the model has this echo, no property
  speaks of it.
* `AnswersMatch` ends with the first text out of turn: client.rs:771 takes an id for any text and
  before it knows whether the send succeeds, client.rs:846 keeps the queue of a closed client, and a
  repeated frame queues its id again (client.rs:1227) and is handed to the application again,
  which then owes a second answer. `IdsInOrder` holds throughout.
* `StopEnds` and the `CallsReturn` of NAPI except a connect that never returns. `MessagesDelivered`
  excepts a lost link: after it nothing more comes (`connector_lost_link.cfg`).
* `napi_client`, in turn: a call waits until starts are over and the connector it made is registered
  (`Settled`). That hides a `connector_registered` left from an earlier connector, which the code
  resets only when the next one has connected (client_napi.rs:439, 498).
* DTLS 1.2: `NoFalseFailure` and `HandshakeCompletes` except the panic of `dtls12_early_repeat.cfg`, which
  needs a repeated datagram.
* DTLS 1.3: `NoFalseFailure` and `HandshakeCompletes` except a part that cannot get through
  (`HiddenPart`, the case of `dtls13_cut_certificate.cfg`). `EpochsInStep` lets an endpoint fall one
  epoch behind while the update that tells it is at hand, saved or under way; that it always
  arrives is refuted by `dtls13_lost_update.cfg`. After the connection a client may still time out: it
  never disables its connect timer.
* STUN: `LossIsOvercome` leaves out a server whose flight takes two datagrams: when one is lost,
  a repeated one comes late and is read as the answer. `AnswerIsOwn` leaves out calls after one
  that gave up: `create_permission` never compares the id (turn/session.rs:145).

Seen while reading, outside of what the models tell apart: `parse_error_code` reads the wrong
bytes (turn/session.rs:182); a TURN session never sends its close_notify (turn/session.rs:201);
the DTLS 1.2 server panics when a packet comes before its first `handle_timeout`; a DTLS 1.2
datagram whose first handshake message is old is dropped whole (dtls12/engine.rs:260); 30
datagrams of early data fill the receive queue; the queue of sequence ids of the NAPI client is
popped before the agent is looked at and never cleared (client_napi.rs:273).

## 6. Proofs

TLAPS checks these for every value of the constants that the named assumptions of the modules
allow (they only give the constants their types and keep special values apart).

* `IceSessionProofs!TypeCorrect`: `Spec => []TypeOK`. The inductive invariant `SessionInv` adds to
  the types that every remote candidate is one a peer gathered, so that every check has an
  addressee (`NetInv`), and that a pair which may still be sent has sends left (`PairOK`).
  There is one lemma per handler of the agent.
* `IceSessionProofs`, the life of an agent: `EveryStepLives` shows that each step starts an
  agent's checks, refuses them, stops the agent or lets it go on; what "goes on" means needs the
  pairs, because only an agent with pairs leaves Closed by a datagram. Hence `StoppedStaysStopped`
  with the invariant "a stopped agent has no pair" (`StoppedInv`), and `CompletedStaysCompleted`
  with "no list before the first start, and nothing completes without one" (`BegunInv`), the
  latter under `CheckedOnce` (one check list per agent, nobody stops it), in any roles and with
  any 487 answers.
* `IceSessionProofs`, a round of checks: `NominationMirrors`, `PathNeverMoves`, `NominationRefined` (the session
  implements `Nomination`), under `OneRound` (one check list per agent, no stop, no 487) and
  `OpposedRoles`. The invariant `RoundInv` says that a controlling agent has at most one nominated
  pair, that every USE-CANDIDATE in flight was sent for it, and that the controlled agent's
  confirmed pair is its mirror. It is needed because agreement of the two ends alone says
  nothing of the datagrams still in flight. `Advance` describes what any step may do to an
  agent; every action is shown to be one.
* `IceSessionProofs!CompletionIsHeard` (`CompletedIsHeard`) under the same two assumptions and
  `AddressesKnown` (the controlled agent starts with the description, and the description names the
  addresses the other checks from), for any number of pairs and sends, with checks in both
  directions and whatever is lost, repeated or reordered. An answer says by its id which pair it is
  for, so `HeardInv` says that every answer under way was given by a peer that has marked the pair
  of the check's source, and that the peer keeps it marked (`Grows`). That the controlled agent
  has confirmed a pair by then is not provable: `ice_alone.cfg` refutes it.
* `ClientThreadsProofs!TypeCorrect` holds however the application calls. `CloseReleases`,
  `ThreadsCanBeStopped`, `ClosedIsQuiet` assume `CALLS = "settled"` (`SettledCalls`). `ClientInv` has
  six parts: types; at most one connect under way (`OneAtATime`); halting before joining
  (`JoinsInOrder`); every live thread has its handle stored, or is joined, or its connect is
  still to store it (`ThreadsAccounted`); a tick thread inside a callback is alive
  (`FiringAlive`); and `Released`. Without the accounting of handles `Released` is not inductive.
* `SeqCorrelationProofs`: `AnswersCarryTheirId` from the order of the queue: in turn it holds the ids
  of the calls of `on_data` that are still to be answered (`MatchInv`). `IdsGoOutInOrder`
  (`IdsInOrder`) whatever the application does: the queue is the rest of what was received, and every
  text carries an id of the part before it, in order (`OrderInv`). Both for any number of requests,
  repeats, texts, failed sends and reconnects: no assumption on the network is made.
* `HeartbeatProofs`: `SilenceIsNoticed` for any intervals and faults: the age of the silence and the
  age the timeout looks at are one (`SilenceInv`), and a unit ends only after each tick loop had
  its turn. `NoAlarmIsFalse` under `RoundTripShort`: twice the delay is less than an interval that
  is on, and the other end's heartbeats are on too. `CalmInv` says where the next frame for an end
  comes from: a heartbeat on its way to it, one on its way to the peer, which answers it, or
  its own first one, which is not late. Both halves of the hypothesis are needed: TLC finds a false
  alarm in `heartbeat_timeouts` with an interval of 0 at B, and with `MAX_DELAY = 2`.
* `ConnectorProofs`: `HandedOverInOrder` (`MessagesInOrder`): what was read are the first messages
  forwarded, and the inbox holds the others unless it was lost with its link (`OrderInv`);
  `RegistrationIsTold` (`ToldInv`): what the application was told agrees with the registration
  whenever the loop looks for work; `LossGoesUnnoticed`: with the repository's transport the
  branch for a lost connection (connector.rs:168-175) is never taken, whatever becomes of the link, and
  a loop that ended was told to and has closed its socket (`SocketInv`).
* `NapiClientProofs`: `TypeCorrect` for every way of calling. `StartsAreStoppable`
  (`ThreadsStoppable`) wherever starts do not overlap (`OneByOne`): `StartsInv` follows the flag and
  the handles of a session through the eleven steps of a start and through the joins of a stop.
  `ClosedIsQuiet` (`QuietWhenClosed`) for calls in turn: `QuietInv` says for each step of `close`
  which threads, connectors and registrations are gone by then. `AnswersReachTheirAgent`
  (`AnswerTaken`) for calls in turn: an answer under way belongs to the session whose agent is
  stored or about to be (`AnswersInv`). Each for any number of sessions, connectors, stops and
  messages.
* `Dtls12Proofs`: `KeysAreAgreed` (`KeysAgree`), `ClientLast` (`ClientConnectsLast`) and
  `AbortStaysQuiet` (`AbortIsQuiet`), for any scenarios, sizes of datagrams and queues, data, losses
  and repetitions. `IInv` says where the records of the whole system come from (`RecordOK`) and
  what they claim (`Claims`): data is what the sender's application sent; a ServerHello names the
  suite the server chose, a ServerKeyExchange its group; and a Finished exists only where the
  server made it, hence is connected, and carries the history it made it from. That has to hold of
  every place a record can be, the datagrams under construction, the saved flight, the network
  and both receive queues, and to be kept by all of the engine: cutting a message into
  fragments, packing them, inserting by binary search, purging, and parsing again after the keys
  change. The claims only grow (`ServerGrows`), since the server chooses each once. `ServerRules` and
  `ClientRules` say, state by state, what an endpoint has gone through: which certificate it has seen,
  that no ClientKeyExchange is in its transcript yet, or that its keys are drawn from a transcript
  that ends with the first one (`KeysOK`). So the verify data, the keys followed by the transcript,
  can be cut at the only ClientKeyExchange among the keys (`VerifyCut`): equal verify data means
  equal keys and equal transcripts, which is what the client checks last. That the code's hash
  tells histories apart is the model's abstraction of `generate_verify_data`, no result. `Phase` adds that
  an endpoint which uses its connection released its data, and that one closed before has
  nothing to send or to repeat, which is `AbortIsQuiet`. The folds of the engine are described as
  runs (`Run`, one value after each element), and what holds of every value follows by
  induction over a set of numbers (`InductTo`).
* `Dtls13Proofs!KeysAreAgreed` (`KeysAgree`: the server is connected only when the client is, and
  the two agree), for every pair of configurations, with and without a HelloRetryRequest or a
  client certificate, any sizes of datagrams, queues and windows, losses, repetitions and orders
  of arrival. The constants only get their types: `QueueAssumption`, `AckAssumption` and
  `ScenarioAssumption` (a certificate has a length, asking for one is a Boolean, there are names
  for what is sent). The argument has the shape of DTLS 1.2 and other claims: a ServerHello names
  the server's suite, and a HelloRetryRequest claims nothing; the client's Certificate says
  whether it is empty; its Finished carries the history it was made from. `RecordOK` and `Claims`
  follow these through packing, the saved flight, the network and both receive queues, and
  `Follows` says that claims only grow. A message is under way only when its sender's call has
  ended and has told the application (`Said`, `Sent`): hence the client is connected first.
  `ServerRules` and `ClientRules` give for each state the shape of the transcript (`Greeted`: how
  many hellos it begins with, a `message_hash` first after a HelloRetryRequest), where the first
  secret was drawn (`HandshakeKeyed`: after the second entry or the fourth) and where the second
  (`ApplicationKeyed`: at the only Finished of the server). At the end each side knows the shape
  of its own history, and the server has checked that the verify data of the client's is that of
  its own (`ClientDone`, `ServerDone`): equal verify data means equal first secrets and equal
  transcripts (`VerifyCut`), and these the same second secret (`ApplicationCut`). As before, that
  the hash tells histories apart belongs to the model.

Each inductive invariant was checked by TLC on the instance of the component's run before it was
proved.

Only model-checked: liveness (`ChecksEnd`, `NominationCompletes`, `CallsReturn`, `StateReported`,
`MessagesDelivered`, `StopEnds`, `HandshakeCompletes`, `CallReturns`, `StateTold`), since neither fairness nor ENABLED is in reach of the prover; `LossIsOvercome` and `AnswerIsOwn`
of STUN, which are about the calls and the server of the run; of both versions of DTLS
`NoFalseFailure`, which depends on the sizes (a queue too small for one flight does fail a
handshake), and `OutputsInOrder`, which needs the replay window; `NominationAgreed`, which holds only where no
check of the controlled agent arrives; of DTLS 1.3 also
`AcknowledgedIsThere`, which needs record numbers that no two records share and every set of
acknowledged numbers followed back to them, and `EpochsInStep`, which needs each key update
followed from the saved flight to the other queue. `TypeOK`, `ThreadsReachable` and
`QueueFollowsRequests` are parts of proofs and not of runs. No module here declares a RECURSIVE
operator.

## 7. Plan

Done, in this order: check list, agent, session, abstract nomination; client threads; heartbeats
and ids; signalling; DTLS 1.2, DTLS 1.3, STUN and TURN over DTLS 1.2; the NAPI
client; the proofs above. Next:

1. Proofs: the replay window of `DtlsQueue` (no number is taken twice) and from it a part of
   `OutputsInOrder`; the record numbers of DTLS 1.3, for `AcknowledgedIsThere`.
2. The socket of a datagram in `ClientThreads` (the receive loop reads from a clone of the
   socket, client.rs:1177).
3. The ids of `sendText` in `NapiClient` (client_napi.rs:273).

## Not modelled

Byte layouts, SDP and candidate text, cryptography, buffers and logging have no behaviour over
time that these models could tell apart. The choice between DTLS 1.2 and 1.3 by the first answer
(`auto.rs`) is never made by p2psdk, which opens DTLS 1.2 only. The IDS directory, tokens and
configuration are single HTTP calls. `sendData` and `sendText` of the NAPI client repeat what
`SeqCorrelation` models, trickled candidates what `IceSession` models. The bridge to JavaScript and
the C exports are glue; that a function is freed while another thread calls it (napi_bridge.rs:400)
lies below the grain of `NapiClient`. The demo applications are examples of use.
