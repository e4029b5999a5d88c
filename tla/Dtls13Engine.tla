---------------------------- MODULE Dtls13Engine ----------------------------
(***************************************************************************)
(* The record layer of DTLS 1.3 (dtls13/engine.rs, incoming.rs): sealed    *)
(* datagrams, acknowledgements and the selective repetition they allow,    *)
(* epochs with their keys and windows, and key updates.                    *)
(***************************************************************************)
EXTENDS DtlsQueue

CONSTANTS
    MAX_RECEIVED,   \* record numbers kept for the next acknowledgement
    MAX_RECV_EPOCHS \* application epochs that can be read

MAX_SAVED == 12     \* records of a flight kept for repetition
MAX_RECORDS == 16   \* records of a datagram
MAX_ACKED == 32     \* record numbers of an acknowledgement during the handshake

ASSUME AckAssumption == {MAX_RECEIVED, MAX_RECV_EPOCHS} \subseteq Nat \ {0}

NewEngine ==
    [err |-> "none", num0 |-> 0, hsSeq |-> 0, appSeq |-> 0, appEpoch |-> 0,
     prev |-> <<>>,         \* epoch and next number of the previous send keys
     limit |-> INFINITE,    \* records before the keys are updated
     count |-> 0, needsUpdate |-> FALSE,
     rx |-> <<>>, tx |-> <<>>, sealed |-> FALSE, saved |-> <<>>, left |-> RETRIES,
     flightTimer |-> "unarmed", connectTimer |-> "unarmed", ack |-> "none",
     peerEnc |-> FALSE, shared |-> "none", hsSecret |-> <<>>, hsRecv |-> FALSE,
     hsWin |-> NewWindow, appSecret |-> <<>>, recv |-> <<>>,
     peerSeq |-> 0, nextSeq |-> 0, transcript |-> <<>>, received |-> <<>>,
     release |-> FALSE, closeAt |-> <<>>, closeTold |-> FALSE]

Epoch(type) == IF type \in {"ClientHello", "ServerHello"} THEN 0 ELSE 2

Rec(ct, epoch, type, mseq, off, flen, len, val) ==
    [ct |-> ct, epoch |-> epoch, type |-> type, mseq |-> mseq,
     off |-> off, flen |-> flen, len |-> len, val |-> val]

Single(ct, epoch, val) == Rec(ct, epoch, "none", 0, 0, 1, 1, val)
AppData(e, d) == Single("data", e.appEpoch, Body(<<d>>, <<>>))
CloseNotify(e) == Single("alert", e.appEpoch, NoBody)
Ack(epoch, nums) == Single("ack", epoch, Joined(NoBody, [nums |-> nums]))

---------------------------------------------------------------------------
(* The key schedule. A secret is the group's shared secret and the         *)
(* transcript it is derived from; the key of an epoch is the epoch with    *)
(* its secret.                                                             *)

DeriveHandshakeSecrets(e) == << <<e.shared, 0>> >> \o e.transcript

InstallHandshakeKeys(e) ==
    [e EXCEPT !.hsSecret = DeriveHandshakeSecrets(e), !.hsSeq = 0, !.hsRecv = TRUE]

DeriveApplicationSecrets(e) == << <<e.shared, 1>> >> \o e.transcript

InstallApplicationKeys(e) ==
    [e EXCEPT !.appSecret = DeriveApplicationSecrets(e), !.appEpoch = 3, !.appSeq = 0,
              !.recv = Append(@, [epoch |-> 3, win |-> NewWindow])]

ComputeVerifyData(e, label) == << <<label, 0>> >> \o e.hsSecret \o e.transcript

Secret(e, epoch) == IF epoch = 2 THEN e.hsSecret ELSE e.appSecret

UsesPrev(e, epoch) == e.prev # <<>> /\ e.prev[1] = epoch

UpdateSendKeys(e) ==
    [e EXCEPT !.prev = <<e.appEpoch, e.appSeq>>, !.appEpoch = @ + 1, !.appSeq = 0,
              !.count = 0, !.needsUpdate = FALSE]

UpdateRecvKeys(e) ==
    LET kept == IF Len(e.recv) = MAX_RECV_EPOCHS THEN Tail(e.recv) ELSE e.recv
    IN  [e EXCEPT !.recv = Append(kept, [epoch |-> Last(e.recv).epoch + 1, win |-> NewWindow])]

\* The transcript so far is replaced by one message with its hash.
ReplaceTranscriptWithMessageHash(e, n) ==
    [e EXCEPT !.transcript =
        << <<"message_hash", n>> >> \o SubSeq(@, n + 1, Len(@))]

---------------------------------------------------------------------------
(* Sending.                                                                *)

\* The number the next record of an epoch gets.
SendSeq(e, epoch) ==
    IF epoch = 0 THEN e.num0
    ELSE IF epoch = 2 THEN e.hsSeq
    ELSE IF UsesPrev(e, epoch) THEN e.prev[2]
    ELSE e.appSeq

SendKey(e, epoch) ==
    IF epoch = 0 THEN <<>>
    ELSE LET of == IF epoch = 2 \/ UsesPrev(e, epoch) THEN epoch ELSE e.appEpoch
         IN  <<of, Secret(e, of)>>

\* An application record counts against the limit of the keys.
Numbered(e, epoch) ==
    IF epoch = 0 THEN [e EXCEPT !.num0 = @ + 1]
    ELSE IF epoch = 2 THEN [e EXCEPT !.hsSeq = @ + 1]
    ELSE IF UsesPrev(e, epoch) THEN [e EXCEPT !.prev[2] = @ + 1]
    ELSE [e EXCEPT !.appSeq = @ + 1, !.count = @ + 1,
                   !.needsUpdate = @ \/ e.count + 1 >= e.limit]

\* Put a record into the last datagram if that is not sealed and has room. The
\* flight is an array: a record too many panics.
CreateRecord(e, rec, save) ==
    LET num == SendSeq(e, rec.epoch)
        wire == Joined(rec, [num |-> num, key |-> SendKey(e, rec.epoch)])
        kept == [e EXCEPT !.saved =
                    IF save THEN Append(@, [rec |-> rec, num |-> num, acked |-> FALSE]) ELSE @]
        next == Numbered(kept, rec.epoch)
    IN  IF e.err # "none" THEN e
        ELSE IF save /\ Len(e.saved) >= MAX_SAVED THEN Fail(e, "panic")
        ELSE IF ~e.sealed /\ e.tx # <<>> /\ rec.flen <= Room(e)
        THEN [next EXCEPT !.tx = Front(@) \o << Append(Last(@), wire) >>]
        ELSE IF Len(e.tx) >= MAX_QUEUE_TX THEN Fail(kept, "TransmitQueueFull")
        ELSE [next EXCEPT !.tx = Append(@, <<wire>>), !.sealed = FALSE]

\* Cut a message of len units by the room that is left in the last datagram.
CreateHandshake(e, type, len, val) ==
    LET begun == [e EXCEPT !.nextSeq = @ + 1, !.transcript = Append(@, <<type, e.nextSeq>>)]
        Cut(acc, i) ==
            LET space == IF Room(acc.e) > 0 THEN Room(acc.e) ELSE MTU
                n == IF len - acc.off < space THEN len - acc.off ELSE space
                rec == Rec("handshake", Epoch(type), type, e.nextSeq, acc.off, n, len, val)
            IN  IF acc.off = len THEN acc
                ELSE [off |-> acc.off + n, e |-> CreateRecord(acc.e, rec, TRUE)]
    IN  FoldLeft(Cut, [off |-> 0, e |-> begun], [i \in 1..len |-> i]).e

FlightBegin(e) == [e EXCEPT !.left = RETRIES, !.saved = <<>>, !.flightTimer = "unarmed"]

FlightStopResendTimers(e) ==
    [e EXCEPT !.flightTimer = "disabled", !.connectTimer = "disabled"]

\* What is not acknowledged goes out again, under new numbers and in new datagrams.
FlightResend(e) ==
    LET Again(acc, i) ==
            IF e.saved[i].acked THEN acc
            ELSE CreateRecord([acc EXCEPT !.saved[i].num = SendSeq(acc, e.saved[i].rec.epoch)],
                              e.saved[i].rec, FALSE)
    IN  FoldLeft(Again, [e EXCEPT !.sealed = TRUE], [i \in DOMAIN e.saved |-> i])

\* Mutant of CreateKeyUpdate: it goes out under the new keys.
CreateKeyUpdateNewKeys(e, request) ==
    LET new == UpdateSendKeys([FlightBegin(e) EXCEPT !.nextSeq = @ + 1])
        rec == Rec("handshake", new.appEpoch, "KeyUpdate", e.nextSeq, 0, 1, 1, Body(<<request>>, <<>>))
    IN  CreateRecord(new, rec, TRUE)

\* Mutant of CreateKeyUpdate: it goes out once.
CreateKeyUpdateOnce(e, request) ==
    LET begun == [FlightBegin(e) EXCEPT !.nextSeq = @ + 1]
        rec == Rec("handshake", e.appEpoch, "KeyUpdate", e.nextSeq, 0, 1, 1, Body(<<request>>, <<>>))
        sent == CreateRecord(begun, rec, FALSE)
    IN  IF sent.err = "none" THEN UpdateSendKeys(sent) ELSE sent

\* A key update goes out under the old keys and is repeated until acknowledged.
CreateKeyUpdate(e, request) ==
    LET begun == [FlightBegin(e) EXCEPT !.nextSeq = @ + 1]
        rec == Rec("handshake", e.appEpoch, "KeyUpdate", e.nextSeq, 0, 1, 1, Body(<<request>>, <<>>))
        sent == CreateRecord(begun, rec, TRUE)
    IN  IF sent.err = "none" THEN UpdateSendKeys(sent) ELSE sent

CancelFlights(e) ==
    [FlightStopResendTimers(e) EXCEPT !.saved = <<>>, !.ack = "none"]

Abort(e) == [CancelFlights(e) EXCEPT !.tx = <<>>]

ReleaseApplicationData(e) == [e EXCEPT !.release = TRUE, !.hsRecv = FALSE]

AdvancePeerHandshakeSeq(e) == [e EXCEPT !.peerSeq = @ + 1]

ResetForHelloRetry(e) ==
    [e EXCEPT !.hsSeq = 0, !.ack = "none",
              !.rx = FlattenSeq([i \in DOMAIN @ |-> IF ~@[i][1].done THEN <<@[i]>> ELSE <<>>])]

---------------------------------------------------------------------------
(* Reassembly.                                                             *)

\* How far the fragments of the next message reach without a gap, and whether
\* there is one.
Assembled(hs) ==
    LET same == SelectSeq(hs, LAMBDA x : x.rec.mseq = hs[1].rec.mseq)
        Add(acc, x) ==
            IF acc.gap \/ acc.end = x.rec.len THEN acc
            ELSE IF x.rec.off > acc.end THEN [acc EXCEPT !.gap = TRUE]
            ELSE LET end == x.rec.off + x.rec.flen
                 IN  [acc EXCEPT !.end = IF end > @ THEN end ELSE @]
    IN  FoldLeft(Add, [end |-> 0, gap |-> FALSE], same)

HasCompleteHandshake(e, wanted) ==
    LET hs == Pending(e)
    IN  /\ hs # <<>>
        /\ hs[1].rec.mseq = e.peerSeq
        /\ hs[1].rec.type = wanted
        /\ Assembled(hs).end = hs[1].rec.len

\* Join the fragments up to the next type. The sequence number is advanced by
\* the handler, once it has accepted the message.
JoinedUnits(fragments) ==
    LET Join(acc, x) == LET end == x.rec.off + x.rec.flen
                            from == IF x.rec.off > acc.end THEN x.rec.off ELSE acc.end
                        IN  IF end <= from THEN acc
                            ELSE [units |-> acc.units + end - from, end |-> end]
    IN  FoldLeft(Join, [units |-> 0, end |-> 0], fragments).units

TakeFragments(e, run) ==
    LET joined == {x.rec : x \in ToSet(run)}
        taken == [e EXCEPT !.rx = MarkDone(@, LAMBDA x : x.clear /\ x.rec \in joined)]
    IN  IF JoinedUnits(run) = run[1].rec.len THEN taken ELSE Fail(taken, "ParseIncomplete")

TakeHandshake(e, wanted) ==
    LET hs == Pending(e)
        same == {n \in DOMAIN hs : \A i \in 1..n : hs[i].rec.type = wanted}
    IN  TakeFragments(e, SubSeq(hs, 1, Cardinality(same)))

NextHandshake(e, wanted) ==
    LET taken == TakeHandshake(e, wanted)
    IN  [taken EXCEPT !.transcript = Append(@, <<wanted, Pending(e)[1].rec.mseq>>)]

---------------------------------------------------------------------------
(* Acknowledgements.                                                       *)

HandshakeInProgress(e) == e.hsSecret # <<>> /\ e.appEpoch = 0 /\ ~e.release

\* A message before the first one queued is missing, or a part in the middle.
HasGapInIncomingHandshake(e) ==
    LET hs == Pending(e)
    IN  hs # <<>> /\ (hs[1].rec.mseq # e.peerSeq \/ Assembled(hs).gap)

HandshakeAckHelpNeeded(e) ==
    LET hs == Pending(e)
    IN  hs # <<>> /\ (hs[1].rec.mseq # e.peerSeq \/ Assembled(hs).end # hs[1].rec.len)

\* At once for a gap, else after a quarter of the repetition time ("later").
MaybeScheduleHandshakeAck(e) ==
    IF ~HandshakeInProgress(e) THEN [e EXCEPT !.ack = "none"]
    ELSE IF e.ack # "none" \/ ~HandshakeAckHelpNeeded(e) THEN e
    ELSE [e EXCEPT !.ack = IF HasGapInIncomingHandshake(e) THEN "now" ELSE "later"]

RecordNumber(rec) == <<rec.epoch, rec.num>>

\* Mutant of MaybeFlushHandshakeAck: it names all from the first to the last.
MaybeFlushHandshakeAckRange(e, due) ==
    LET queued == {x.rec.num : x \in {y \in ToSet(Flat(e.rx)) : y.rec.epoch = 2 /\ IsHandshake(y)}}
        done == [e EXCEPT !.ack = "none"]
    IN  IF e.ack = "none" \/ (e.ack = "later" /\ ~due) THEN e
        ELSE IF queued = {} \/ ~HandshakeInProgress(e) THEN done
        ELSE CreateRecord(done, Ack(2, {<<2, n>> : n \in Min(queued)..Max(queued)}), FALSE)

\* It names the handshake records of epoch 2 that are still queued, if not too many.
QueuedNumbers(rx) ==
    LET queued == SelectSeq(Flat(rx), LAMBDA x : x.rec.epoch = 2 /\ IsHandshake(x))
    IN  {RecordNumber(queued[i].rec) : i \in {j \in DOMAIN queued : j <= MAX_ACKED}}

MaybeFlushHandshakeAck(e, due) ==
    LET nums == QueuedNumbers(e.rx)
        done == [e EXCEPT !.ack = "none"]
    IN  IF e.ack = "none" \/ (e.ack = "later" /\ ~due) THEN e
        ELSE IF nums = {} \/ ~HandshakeInProgress(e) THEN done
        ELSE CreateRecord(done, Ack(2, nums), FALSE)

\* Every record number kept since the last acknowledgement.
SendAck(e) ==
    LET epoch == IF e.appEpoch > 0 THEN e.appEpoch ELSE 2
    IN  IF e.received = <<>> THEN e
        ELSE CreateRecord([e EXCEPT !.received = <<>>],
                          Ack(epoch, ToSet(e.received)), FALSE)

\* Mutant of ProcessAck: with a part the whole message is taken for acknowledged.
ProcessAckMessage(e, nums) ==
    LET named == {x \in ToSet(e.saved) : <<x.rec.epoch, x.num>> \in nums}
        marked == [i \in DOMAIN e.saved |->
            [e.saved[i] EXCEPT !.acked = @ \/ \E x \in named : x.rec.mseq = e.saved[i].rec.mseq]]
        Of(s, epoch) == SelectSeq(s, LAMBDA x : x.rec.epoch = epoch)
        All(s) == s # <<>> /\ \A x \in ToSet(s) : x.acked
        settled == [e EXCEPT !.saved = <<>>, !.flightTimer = "disabled"]
    IN  IF All(Of(marked, 2)) THEN settled
        ELSE IF e.prev # <<>> /\ All(marked) THEN [settled EXCEPT !.prev = <<>>]
        ELSE [e EXCEPT !.saved = marked]

ProcessAck(e, nums) ==
    LET marked == [i \in DOMAIN e.saved |->
            [e.saved[i] EXCEPT !.acked = @ \/ <<e.saved[i].rec.epoch, e.saved[i].num>> \in nums]]
        Of(s, epoch) == SelectSeq(s, LAMBDA x : x.rec.epoch = epoch)
        All(s) == s # <<>> /\ \A x \in ToSet(s) : x.acked
        settled == [e EXCEPT !.saved = <<>>, !.flightTimer = "disabled"]
    IN  IF All(Of(marked, 2)) THEN settled
        ELSE IF e.prev # <<>> /\ All(marked) THEN [settled EXCEPT !.prev = <<>>]
        ELSE [e EXCEPT !.saved = marked]

---------------------------------------------------------------------------
(* Receiving.                                                              *)

\* The records of a datagram that may be acknowledged.
Noted(e, incoming) ==
    LET nums == SelectSeq([i \in DOMAIN incoming |-> RecordNumber(incoming[i].rec)],
                          LAMBDA n : n[1] >= 2)
    IN  e.received \o nums

\* A datagram takes the place of one with the same first fragment if that is
\* handled, or is only a part of a message where the new one has all of it.
Replaces(incoming, existing) ==
    \/ existing[1].done
    \/ existing[1].rec.flen # existing[1].rec.len /\ incoming[1].rec.flen = incoming[1].rec.len

\* A repeated ClientHello makes the server repeat its flight.
DupeTriggersResend(e, incoming) ==
    LET hellos == SelectSeq(incoming, LAMBDA x : /\ IsHandshake(x)
                                                 /\ x.rec.off = 0
                                                 /\ x.rec.type = "ClientHello")
    IN  IF hellos # <<>> /\ hellos[1].rec.mseq < e.peerSeq THEN FlightResend(e) ELSE e

\* A datagram that begins with an old message is dropped whole.
InsertIncomingHandshake(told, incoming) ==
    LET first == incoming[1].rec
        at == InsertByKey(told, incoming, HandshakeKey)
        noted == Noted(told, incoming)
    IN  IF told.err # "none" \/ first.mseq < told.peerSeq THEN told
        ELSE IF told.release /\ first.type # "KeyUpdate" THEN Fail(told, "RenegotiationAttempt")
        ELSE IF ~at.found
        THEN [told EXCEPT !.rx = at.rx,
                          !.received = SubSeq(noted, 1, IF Len(noted) < MAX_RECEIVED
                                                        THEN Len(noted) ELSE MAX_RECEIVED)]
        ELSE IF ~Replaces(incoming, told.rx[at.at]) THEN told
        ELSE IF Len(noted) > MAX_RECEIVED THEN Fail(told, "panic")
        ELSE [told EXCEPT !.rx[at.at] = incoming, !.received = noted]

InsertIncoming(e, incoming) ==
    IF Len(e.rx) >= MAX_QUEUE_RX THEN Fail(e, "ReceiveQueueFull")
    ELSE IF FirstHandshake(incoming)
    THEN InsertIncomingHandshake(DupeTriggersResend(e, incoming), incoming)
    ELSE [e EXCEPT !.rx = InsertByKey(e, incoming, RecordKey).rx]

\* A record shows the two low bits of its epoch: the handshake keys come first,
\* then the newest application epoch that fits.
ResolveEpoch(e, bits) ==
    LET fits == {r \in ToSet(e.recv) : r.epoch % 4 = bits}
    IN  IF e.hsRecv /\ bits = 2 THEN 2
        ELSE IF fits # {} THEN (CHOOSE r \in fits : \A q \in fits : q.epoch <= r.epoch).epoch
        ELSE bits

\* Where the window of an epoch is in "recv"; 0 if there is none.
RecvIndex(e, epoch) ==
    LET at == {i \in DOMAIN e.recv : e.recv[i].epoch = epoch}
    IN  IF at = {} THEN 0 ELSE CHOOSE i \in at : TRUE

\* Mutant of Decrypt: the number is not remembered.
DecryptNoWindow(e, rec) ==
    LET epoch == ResolveEpoch(e, rec.epoch % 4)
        readable == IF epoch = 2 THEN e.hsRecv ELSE RecvIndex(e, epoch) # 0
    IN  [ok |-> readable /\ rec.key = <<epoch, Secret(e, epoch)>>, e |-> e]

\* What cannot be decrypted, or was before, is dropped without a word.
Decrypt(e, rec) ==
    LET epoch == ResolveEpoch(e, rec.epoch % 4)
        at == RecvIndex(e, epoch)
        win == IF epoch = 2 THEN e.hsWin ELSE e.recv[at].win
        readable == IF epoch = 2 THEN e.hsRecv ELSE at # 0
        ok == /\ readable
              /\ ReplayCheck(win, rec.num)
              /\ rec.key = <<epoch, Secret(e, epoch)>>
    IN  [ok |-> ok,
         e |-> IF ~ok THEN e
               ELSE IF epoch = 2 THEN [e EXCEPT !.hsWin = ReplayUpdate(@, rec.num)]
               ELSE [e EXCEPT !.recv[at].win = ReplayUpdate(win, rec.num)]]

ParseRecord(acc, rec) ==
    LET e == acc.e
        Keep(e2, clear) == [e |-> e2, items |-> Append(acc.items,
                               [rec |-> rec, clear |-> clear, done |-> FALSE])]
        opened == Decrypt(e, rec)
    IN  IF e.err # "none" THEN acc
        ELSE IF rec.epoch # 0 /\ e.peerEnc /\ ~opened.ok THEN acc
        ELSE IF Len(acc.items) >= MAX_RECORDS THEN [acc EXCEPT !.e = Fail(e, "TooManyRecords")]
        ELSE IF rec.epoch = 0 \/ ~e.peerEnc THEN Keep(e, rec.epoch = 0)
        ELSE Keep(opened.e, TRUE)

\* Nothing later than a close_notify counts; acknowledgements and alerts are
\* consumed here.
ClassifyRecord(acc, item) ==
    LET e == acc.e
        late == e.closeAt # <<>> /\ Lex(e.closeAt, RecordNumber(item.rec))
    IN  IF late THEN acc
        ELSE IF item.clear /\ item.rec.ct = "ack"
        THEN [acc EXCEPT !.e = ProcessAck(e, item.rec.val.nums)]
        ELSE IF item.clear /\ item.rec.ct = "alert"
        THEN [acc EXCEPT !.e.closeAt = IF e.closeAt = <<>> THEN RecordNumber(item.rec) ELSE @]
        ELSE [acc EXCEPT !.items = Append(@, item)]

ClassifyAll(parsed) == FoldLeft(ClassifyRecord, [e |-> parsed.e, items |-> <<>>], parsed.items)

InsertKept(kept) == IF kept.items = <<>> THEN kept.e ELSE InsertIncoming(kept.e, kept.items)

ParsePacket(e, datagram) ==
    LET parsed == FoldLeft(ParseRecord, [e |-> e, items |-> <<>>], datagram)
    IN  IF parsed.e.err # "none" THEN parsed.e ELSE InsertKept(ClassifyAll(parsed))

\* From now on records are decrypted. From the first datagram with an encrypted
\* record on, what is not handled yet is parsed again, record by record.
EnablePeerEncryption(e) ==
    LET early == {i \in DOMAIN e.rx : \E x \in ToSet(e.rx[i]) : x.rec.epoch >= 2}
        at == CHOOSE i \in early : \A j \in early : i <= j
        open == Unhandled(Flat(SubSeq(e.rx, at, Len(e.rx))))
        on == [e EXCEPT !.peerEnc = TRUE]
    IN  IF early = {} THEN on
        ELSE FoldLeft(LAMBDA acc, x : ParsePacket(acc, <<x.rec>>),
                      [on EXCEPT !.rx = SubSeq(@, 1, at - 1)], open)

---------------------------------------------------------------------------
(* The timers, and poll_output called until it has nothing left.           *)

\* Mutant of HandleEngineTimeout: the last repetition is not made.
HandleEngineTimeoutOneLess(e, due) ==
    LET armed == [e EXCEPT !.connectTimer = IF @ = "unarmed" THEN "armed" ELSE @,
                           !.flightTimer = IF @ = "unarmed" THEN "armed" ELSE @]
        late == "flight" \in due /\ e.flightTimer = "armed"
        sent == IF late THEN FlightResend([armed EXCEPT !.left = @ - 1]) ELSE armed
    IN  IF "connect" \in due /\ e.connectTimer = "armed" THEN Fail(armed, "Timeout")
        ELSE IF armed.flightTimer # "armed" THEN armed
        ELSE IF late /\ e.left = 1 THEN Fail(armed, "Timeout")
        ELSE IF sent.err # "none" THEN sent
        ELSE MaybeFlushHandshakeAck(MaybeScheduleHandshakeAck(sent), "ack" \in due)

\* A call with the timers in "due" expired; those not armed yet are armed. With
\* the flight timer disabled the acknowledgements are not looked at.
HandleEngineTimeout(e, due) ==
    LET armed == [e EXCEPT !.connectTimer = IF @ = "unarmed" THEN "armed" ELSE @,
                           !.flightTimer = IF @ = "unarmed" THEN "armed" ELSE @]
        late == "flight" \in due /\ e.flightTimer = "armed"
        sent == IF late THEN FlightResend([armed EXCEPT !.left = @ - 1]) ELSE armed
    IN  IF "connect" \in due /\ e.connectTimer = "armed" THEN Fail(armed, "Timeout")
        ELSE IF armed.flightTimer # "armed" THEN armed
        ELSE IF late /\ e.left = 0 THEN Fail(armed, "Timeout")
        ELSE IF sent.err # "none" THEN sent
        ELSE MaybeFlushHandshakeAck(MaybeScheduleHandshakeAck(sent), "ack" \in due)

\* The application data that can be handed out.
ReadableData(s) ==
    FlattenSeq([i \in DOMAIN s |->
        IF s[i].clear /\ s[i].rec.ct = "data" /\ ~s[i].done THEN <<s[i]>> ELSE <<>>])

Readable(e) == IF e.release THEN ReadableData(Flat(e.rx)) ELSE <<>>

Polled(e) ==
    LET read == IF e.release THEN MarkDone(e.rx, LAMBDA x : x.clear /\ x.rec.ct = "data") ELSE e.rx
    IN  [MaybeScheduleHandshakeAck([e EXCEPT !.rx = PurgeHandled(read)]) EXCEPT
            !.tx = <<>>, !.closeTold = @ \/ e.closeAt # <<>>]
=============================================================================
