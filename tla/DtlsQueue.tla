------------------------------ MODULE DtlsQueue ------------------------------
(***************************************************************************)
(* What the record layers of DTLS 1.2 and DTLS 1.3 do alike (dtls12/ and   *)
(* dtls13/ engine.rs, incoming.rs; window.rs): datagrams under             *)
(* construction, the receive queue and the replay window.                  *)
(*                                                                         *)
(* An endpoint is a record; every operator maps an old endpoint to a new   *)
(* one. A call that returns an error leaves its name in "err" and the      *)
(* endpoint is not driven any further. Sizes are counted in units: a       *)
(* handshake message of n units can be cut into n fragments, everything    *)
(* else is one unit. A transcript is the sequence of the messages hashed.  *)
(***************************************************************************)
EXTENDS Integers, Sequences, FiniteSets, SequencesExt

CONSTANTS
    MTU,            \* units in a datagram
    RETRIES,        \* flight_retries
    MAX_QUEUE_RX,   \* datagrams in the receive queue
    MAX_QUEUE_TX,   \* datagrams in the transmit queue
    WINDOW          \* numbers a replay window looks back

ASSUME QueueAssumption ==
    /\ {MTU, MAX_QUEUE_RX, MAX_QUEUE_TX, WINDOW} \subseteq Nat \ {0}
    /\ RETRIES \in Nat

\* The body of a message or record: its parameters ("args") and, in the messages
\* that prove something, the hashed history ("hash").
Body(args, hash) == [args |-> args, hash |-> hash]
NoBody == Body(<<>>, <<>>)

\* Two records in one.
Joined(r, s) ==
    [f \in DOMAIN r \cup DOMAIN s |-> IF f \in DOMAIN r THEN r[f] ELSE s[f]]

Fail(e, what) == [e EXCEPT !.err = what]

---------------------------------------------------------------------------
(* Datagrams under construction.                                           *)

Used(dg) == FoldLeft(LAMBDA n, r : n + r.flen, 0, dg)

Room(e) == IF e.tx = <<>> THEN 0 ELSE MTU - Used(Last(e.tx))

---------------------------------------------------------------------------
(* The receive queue: datagrams, each a sequence of records with the flags *)
(* "clear" (readable) and "done" (handled).                                *)

IsHandshake(item) == item.rec.ct = "handshake" /\ item.clear

FirstHandshake(incoming) == IsHandshake(incoming[1])

Flat(rx) == FlattenSeq(rx)

\* The handshake messages, and the entries not handled yet, in their order.
HandshakeItems(s) == FlattenSeq([i \in DOMAIN s |-> IF IsHandshake(s[i]) THEN <<s[i]>> ELSE <<>>])
Unhandled(s) == FlattenSeq([i \in DOMAIN s |-> IF ~s[i].done THEN <<s[i]>> ELSE <<>>])

\* Binary search as the library does it: the answer is <<found, index>>.
BinarySearch(n, Less(_), Equal(_)) ==
    LET Step(s, i) == LET half == s.size \div 2
                          mid == s.base + half
                      IN  IF s.size <= 1 THEN s
                          ELSE [base |-> IF Less(mid) \/ Equal(mid) THEN mid ELSE s.base,
                                size |-> s.size - half]
        end == FoldLeft(Step, [base |-> 1, size |-> n], [i \in 1..n |-> i]).base
    IN  IF n = 0 THEN <<FALSE, 1>>
        ELSE IF Equal(end) THEN <<TRUE, end>>
        ELSE <<FALSE, IF Less(end) THEN end + 1 ELSE end>>

Lex(a, b) == a[1] < b[1] \/ (a[1] = b[1] /\ a[2] < b[2])

INFINITE == 1000
HandshakeKey(incoming) ==
    IF FirstHandshake(incoming) THEN <<incoming[1].rec.mseq, incoming[1].rec.off>>
    ELSE <<INFINITE, INFINITE>>
RecordKey(incoming) == <<incoming[1].rec.epoch, incoming[1].rec.num>>

InsertByKey(e, incoming, Key(_)) ==
    LET key == Key(incoming)
        at == BinarySearch(Len(e.rx), LAMBDA i : Lex(Key(e.rx[i]), key),
                                      LAMBDA i : Key(e.rx[i]) = key)
    IN  [found |-> at[1], at |-> at[2], rx |-> IF at[1] THEN e.rx ELSE InsertAt(e.rx, at[2], incoming)]

PurgeHandled(rx) ==
    LET Open(i) == \E x \in ToSet(rx[i]) : ~x.done
        first == IF \E i \in DOMAIN rx : Open(i)
                 THEN CHOOSE i \in DOMAIN rx : Open(i) /\ \A j \in 1..(i - 1) : ~Open(j)
                 ELSE Len(rx) + 1
    IN  SubSeq(rx, first, Len(rx))

MarkDone(rx, Which(_)) ==
    [i \in DOMAIN rx |-> [j \in DOMAIN rx[i] |->
        [rx[i][j] EXCEPT !.done = @ \/ Which(rx[i][j])]]]

\* The handshake fragments in queue order from the first unhandled one.
FromUnhandled(s) ==
    LET open == {i \in DOMAIN s : ~s[i].done}
    IN  IF open = {} THEN <<>>
        ELSE SubSeq(s, CHOOSE i \in open : \A j \in open : i <= j, Len(s))

Pending(e) == FromUnhandled(HandshakeItems(Flat(e.rx)))

MessageBody(e) == Pending(e)[1].rec.val

---------------------------------------------------------------------------
(* The replay window of one epoch.                                         *)

NewWindow == [max |-> 0, seen |-> {}]

\* Mutant of ReplayCheck: only numbers that are too old are refused.
ReplayCheckOldOnly(w, num) == num > w.max \/ w.max - num < WINDOW

ReplayCheck(w, num) == num > w.max \/ (w.max - num < WINDOW /\ num \notin w.seen)

ReplayUpdate(w, num) ==
    LET top == IF num > w.max THEN num ELSE w.max
    IN  [max |-> top, seen |-> {n \in w.seen \cup {num} : top - n < WINDOW}]
=============================================================================
