---------------------------- MODULE Dtls12Engine ----------------------------
(***************************************************************************)
(* The record and retransmission layer that DTLS 1.2 client and server     *)
(* share (dtls12/engine.rs, incoming.rs, queue.rs): numbering, packing and *)
(* fragmenting of outgoing records, saved flights, the receive queue with  *)
(* reassembly, the switch to encryption and the replay window.             *)
(***************************************************************************)
EXTENDS DtlsQueue

CONSTANT
    CERT_LEN        \* units of a Certificate message

ASSUME CertAssumption == CERT_LEN \in Nat \ {0}

MAX_RECORDS == 8

\* Message types whose repetition makes the receiver resend its flight.
DupeTriggersResend ==
    {"ClientHello", "HelloVerifyRequest", "ServerHelloDone", "ClientKeyExchange"}

Length(type) == IF type = "Certificate" THEN CERT_LEN ELSE 1

Epoch(type) == IF type \in {"NewSessionTicket", "Finished"} THEN 1 ELSE 0

Rec(ct, epoch, type, mseq, off, flen, val) ==
    [ct |-> ct, epoch |-> epoch, type |-> type, mseq |-> mseq,
     off |-> off, flen |-> flen, val |-> val]

CCS == Rec("ccs", 0, "none", 0, 0, 1, NoBody)
CloseNotify == Rec("alert", 1, "none", 0, 0, 1, NoBody)
AppData(d) == Rec("data", 1, "none", 0, 0, 1, Body(<<d>>, <<>>))

NewEngine ==
    [err |-> "none", num0 |-> 0, num1 |-> 0, rx |-> <<>>, tx |-> <<>>,
     saved |-> <<>>, left |-> RETRIES, flightTimer |-> "unarmed",
     connectTimer |-> "unarmed", peerEnc |-> FALSE, keys |-> <<>>,
     peerSeq |-> 0, nextSeq |-> 0, transcript |-> <<>>,
     win |-> NewWindow, release |-> FALSE,
     closeSeen |-> FALSE, closeTold |-> FALSE,
     group |-> "none", secret |-> "none", session |-> <<>>]

---------------------------------------------------------------------------
(* The crypto context. A key is what it is drawn from: the group or the    *)
(* PSK for the pre-master secret, with the session hash for the rest.      *)

InitEcdhServer(e, group) == [e EXCEPT !.group = group]

ComputeSharedSecret(e) == [e EXCEPT !.secret = e.group]

ProcessEcdhParams(e, group) == ComputeSharedSecret([e EXCEPT !.group = group])

ComputePskPreMasterSecret(e, psk) == [e EXCEPT !.secret = psk]

DeriveExtendedMasterSecret(e) == << <<e.secret, 0>> >> \o e.session

DeriveKeys(e) == [e EXCEPT !.keys = DeriveExtendedMasterSecret(e)]

GenerateVerifyData(e, label) == << <<label, 0>> >> \o e.keys \o e.transcript

---------------------------------------------------------------------------
(* Sending.                                                                *)

Numbered(rec, num, key) ==
    [ct |-> rec.ct, epoch |-> rec.epoch, type |-> rec.type, mseq |-> rec.mseq,
     off |-> rec.off, flen |-> rec.flen, val |-> rec.val, num |-> num, key |-> key]

\* Number the record, encrypt it in epoch 1 and put it into the last datagram
\* if it fits, else into a new one.
CreateRecord(e, rec, save) ==
    LET wire == Numbered(rec, IF rec.epoch = 0 THEN e.num0 ELSE e.num1,
                              IF rec.epoch = 0 THEN <<>> ELSE e.keys)
        fits == e.tx # <<>> /\ rec.flen <= Room(e)
        kept == [e EXCEPT !.saved = IF save THEN Append(@, rec) ELSE @]
        sent == [kept EXCEPT
                    !.num0 = IF rec.epoch = 0 THEN @ + 1 ELSE @,
                    !.num1 = IF rec.epoch = 1 THEN @ + 1 ELSE @,
                    !.tx = IF fits THEN Front(@) \o << Append(Last(@), wire) >>
                                   ELSE Append(@, <<wire>>)]
    IN  IF e.err # "none" THEN e
        ELSE IF ~fits /\ Len(e.tx) >= MAX_QUEUE_TX THEN Fail(kept, "TransmitQueueFull")
        ELSE sent

\* The cuts of a message of len units when the last datagram has room units left.
Fragments(len, room) ==
    LET first == LET space == IF room > 0 THEN room ELSE MTU
                 IN  IF len < space THEN len ELSE space
        n == 1 + (len - first + MTU - 1) \div MTU
        Off(k) == IF k = 1 THEN 0 ELSE first + (k - 2) * MTU
        End(k) == IF k = n THEN len ELSE Off(k + 1)
    IN  [k \in 1..n |-> [off |-> Off(k), flen |-> End(k) - Off(k)]]

CreateHandshake(e, type, val) ==
    LET mseq == e.nextSeq
        begun == [e EXCEPT !.nextSeq = @ + 1, !.transcript = Append(@, <<type, mseq>>)]
    IN  FoldLeft(LAMBDA acc, f : CreateRecord(acc,
                     Rec("handshake", Epoch(type), type, mseq, f.off, f.flen, val), TRUE),
                 begun, Fragments(Length(type), Room(e)))

FlightBegin(e) == [e EXCEPT !.left = RETRIES, !.saved = <<>>, !.flightTimer = "unarmed"]

FlightStopResendTimers(e) ==
    [e EXCEPT !.flightTimer = "disabled", !.connectTimer = "disabled"]

\* Mutant of FlightResend: only the first record of the flight is repeated.
FlightResendFirst(e) ==
    IF e.saved = <<>> THEN e ELSE CreateRecord(e, e.saved[1], FALSE)

FlightResend(e) == FoldLeft(LAMBDA acc, r : CreateRecord(acc, r, FALSE), e, e.saved)

\* Timers: the first call arms them; a later one finds the flight timer expired
\* (the caller waits for it), the connect timer expires when "late".
HandleEngineTimeout(e, late) ==
    LET armed == [e EXCEPT !.connectTimer = IF @ = "unarmed" THEN "armed" ELSE @,
                           !.flightTimer = IF @ = "unarmed" THEN "armed" ELSE @]
    IN  IF late /\ e.connectTimer = "armed" THEN Fail(e, "Timeout")
        ELSE IF e.flightTimer # "armed" THEN armed
        ELSE IF e.left = 0 THEN Fail(armed, "Timeout")
        ELSE FlightResend([armed EXCEPT !.left = @ - 1])

\* Mutant of Abort: the flight and its timers stay.
AbortKeepsFlight(e) == [e EXCEPT !.tx = <<>>]

Abort(e) == [FlightStopResendTimers(e) EXCEPT !.tx = <<>>, !.saved = <<>>]

DiscardPendingWrites(e) == [e EXCEPT !.tx = <<>>]

ResetServerForHelloVerifyRequest(e) == [e EXCEPT !.transcript = <<>>, !.rx = <<>>]

ResetClientForHelloVerifyRequest(e) == [e EXCEPT !.transcript = <<>>]

\* Mutant of InsertIncomingHandshake: messages already handled are queued again.
InsertIncomingHandshakeOld(e, incoming) ==
    LET again == SelectSeq(incoming, LAMBDA x : /\ IsHandshake(x)
                                                /\ x.rec.off = 0
                                                /\ x.rec.type \in DupeTriggersResend)
        told == IF again # <<>> /\ again[1].rec.mseq < e.peerSeq THEN FlightResend(e) ELSE e
    IN  IF told.err # "none" THEN told
        ELSE IF e.release /\ incoming[1].rec.mseq >= e.peerSeq
             THEN Fail(told, "RenegotiationAttempt")
        ELSE [told EXCEPT !.rx = InsertByKey(told, incoming, HandshakeKey).rx]

InsertIncomingHandshake(e, incoming) ==
    LET first == incoming[1].rec
        again == SelectSeq(incoming, LAMBDA x : /\ IsHandshake(x)
                                                /\ x.rec.off = 0
                                                /\ x.rec.type \in DupeTriggersResend)
        told == IF again # <<>> /\ again[1].rec.mseq < e.peerSeq THEN FlightResend(e) ELSE e
    IN  IF told.err # "none" \/ first.mseq < e.peerSeq THEN told
        ELSE IF e.release THEN Fail(told, "RenegotiationAttempt")
        ELSE [told EXCEPT !.rx = InsertByKey(told, incoming, HandshakeKey).rx]

\* A datagram found in the queue is a repetition; the code asserts that this
\* cannot happen in epoch 1.
InsertIncomingNonHandshake(e, incoming) ==
    LET at == InsertByKey(e, incoming, RecordKey)
    IN  IF at.found /\ incoming[1].rec.epoch # 0 THEN Fail(e, "panic")
        ELSE [e EXCEPT !.rx = at.rx]

InsertIncoming(e, incoming) ==
    IF Len(e.rx) >= MAX_QUEUE_RX THEN Fail(e, "ReceiveQueueFull")
    ELSE IF FirstHandshake(incoming) THEN InsertIncomingHandshake(e, incoming)
    ELSE InsertIncomingNonHandshake(e, incoming)

\* Mutant of ParseRecord: encrypted records are not kept for later.
ParseRecordAtOnce(acc, rec) ==
    LET e == acc.e
        Keep(e2) == [e |-> e2, items |-> Append(acc.items,
                        [rec |-> rec, clear |-> TRUE, done |-> FALSE])]
    IN  IF e.err # "none" THEN acc
        ELSE IF rec.epoch = 0 THEN Keep(e)
        ELSE IF ~ReplayCheck(e.win, rec.num) THEN acc
        ELSE IF rec.key # e.keys THEN [acc EXCEPT !.e = Fail(e, "CryptoError")]
        ELSE Keep([e EXCEPT !.win = ReplayUpdate(@, rec.num)])

\* One record of a datagram: kept as it is, dropped as a replay, or decrypted.
ParseRecord(acc, rec) ==
    LET e == acc.e
        Keep(e2, clear) == [e |-> e2, items |-> Append(acc.items,
                               [rec |-> rec, clear |-> clear, done |-> FALSE])]
    IN  IF e.err # "none" THEN acc
        ELSE IF Len(acc.items) >= MAX_RECORDS THEN [acc EXCEPT !.e = Fail(e, "TooManyRecords")]
        ELSE IF rec.epoch = 0 \/ ~e.peerEnc THEN Keep(e, rec.epoch = 0)
        ELSE IF ~ReplayCheck(e.win, rec.num) THEN acc
        ELSE IF rec.key # e.keys THEN [acc EXCEPT !.e = Fail(e, "CryptoError")]
        ELSE Keep([e EXCEPT !.win = ReplayUpdate(@, rec.num)], TRUE)

\* Alerts are consumed; data after a close_notify is dropped.
ClassifyRecord(acc, item) ==
    LET e == acc.e
    IN  IF item.rec.ct = "alert" /\ item.clear
        THEN [acc EXCEPT !.e = [e EXCEPT !.closeSeen = TRUE]]
        ELSE IF item.rec.ct = "data" /\ e.closeSeen THEN acc
        ELSE [acc EXCEPT !.items = Append(@, item)]

ParsePacket(e, datagram) ==
    LET parsed == FoldLeft(ParseRecord, [e |-> e, items |-> <<>>], datagram)
        kept == FoldLeft(ClassifyRecord, [e |-> parsed.e, items |-> <<>>], parsed.items)
    IN  IF parsed.e.err # "none" THEN parsed.e
        ELSE IF kept.items = <<>> THEN kept.e
        ELSE InsertIncoming(kept.e, kept.items)

\* The next message is the wanted one and its fragments are all there, in order.
HasCompleteHandshake(e, wanted) ==
    LET hs == Pending(e)
        same == SelectSeq(hs, LAMBDA x : x.rec.mseq = hs[1].rec.mseq)
        End(i) == same[i].rec.off + same[i].rec.flen
    IN  /\ hs # <<>>
        /\ hs[1].rec.mseq = e.peerSeq
        /\ hs[1].rec.type = wanted
        /\ \E n \in DOMAIN same :
              /\ End(n) = Length(wanted)
              /\ \A i \in 1..n : same[i].rec.off = IF i = 1 THEN 0 ELSE End(i - 1)

\* Take that message: every fragment up to the next type is joined and handled.
NextHandshake(e, wanted) ==
    LET hs == Pending(e)
        run == {n \in DOMAIN hs : \A i \in 1..n : hs[i].rec.type = wanted}
        joined == {hs[n].rec : n \in run}
        units == FoldLeft(LAMBDA s, x : s + x.rec.flen, 0, SubSeq(hs, 1, Cardinality(run)))
        taken == [e EXCEPT !.rx = MarkDone(@, LAMBDA x : x.clear /\ x.rec \in joined)]
    IN  IF units # Length(wanted) THEN Fail(taken, "ParseIncomplete")
        ELSE [taken EXCEPT !.peerSeq = hs[1].rec.mseq + 1,
                           !.transcript = Append(@, <<wanted, hs[1].rec.mseq>>)]

\* The first unhandled record of all is a ChangeCipherSpec.
HasCCS(e) ==
    LET all == Flat(e.rx)
        open == {i \in DOMAIN all : ~all[i].done}
    IN  open # {} /\ all[CHOOSE i \in open : \A j \in open : i <= j].rec.ct = "ccs"

DropPendingCCS(e) == [e EXCEPT !.rx = MarkDone(@, LAMBDA x : x.rec.ct = "ccs")]

\* From now on records of epoch 1 are decrypted; those that came early are
\* taken out of the queue and parsed again.
EnablePeerEncryption(e) ==
    LET early == {i \in DOMAIN e.rx : \E x \in ToSet(e.rx[i]) : x.rec.epoch = 1}
        at == CHOOSE i \in early : \A j \in early : i <= j
        open == Unhandled(Flat(SubSeq(e.rx, at, Len(e.rx))))
        on == [e EXCEPT !.peerEnc = TRUE]
    IN  IF early = {} THEN on
        ELSE FoldLeft(LAMBDA acc, x : IF acc.err = "none" THEN ParsePacket(acc, <<x.rec>>) ELSE acc,
                      [on EXCEPT !.rx = SubSeq(@, 1, at - 1)], open)

ReleaseApplicationData(e) == [e EXCEPT !.release = TRUE]

---------------------------------------------------------------------------
(* poll_output called until it has nothing left.                           *)

\* The application data that can be handed out.
ReadableData(s) ==
    FlattenSeq([i \in DOMAIN s |->
        IF s[i].rec.ct = "data" /\ ~s[i].done THEN <<s[i]>> ELSE <<>>])

Readable(e) == IF e.release THEN ReadableData(Flat(e.rx)) ELSE <<>>

Polled(e) ==
    [e EXCEPT !.rx = PurgeHandled(IF e.release
                       THEN MarkDone(@, LAMBDA x : x.rec.ct = "data") ELSE @),
              !.tx = <<>>,
              !.closeTold = @ \/ e.closeSeen]
=============================================================================
