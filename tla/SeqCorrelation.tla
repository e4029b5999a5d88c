--------------------------- MODULE SeqCorrelation ---------------------------
(***************************************************************************)
(* Correlation of answers with requests by sequence id (p2p-sdk client.rs, *)
(* the receive loop and send_text).  The receive loop queues the id of     *)
(* each data frame that has one and hands the payload to on_data; send_text*)
(* takes the oldest queued id, whatever the text is about.  Frames are     *)
(* datagrams: each may arrive in any order, never, or more than once.      *)
(***************************************************************************)
EXTENDS Naturals, Sequences, FiniteSets

CONSTANTS Requests,       \* requests of the peer, each with an id of its own
          Messages,       \* data frames with id 0: no answer is expected
          MAX_ARRIVALS,   \* bound on the arrivals of requests, repeats included
          MAX_TEXTS       \* bound on the texts the application sends

NoSeq == "0"

Idle == "idle"

ASSUME CorrelationAssumption ==
    /\ Requests \cap Messages = {}
    /\ NoSeq \notin Requests /\ Idle \notin Requests \cup Messages

ASSUME BoundAssumption == MAX_ARRIVALS \in Nat /\ MAX_TEXTS \in Nat

SeqIds == Requests \cup {NoSeq}

VARIABLES calling,    \* payload between the push of its id and on_data
          pending,    \* pending_seq_ids
          todo,       \* requests on_data was called with and not answered, in order
          sent,       \* texts sent: [request, seq_id], NoSeq for one that answers nothing
          received,   \* history: the ids pushed, in order
          inTurn      \* history: the application has answered each call in its turn

vars == <<calling, pending, todo, sent, received, inTurn>>

Init ==
    /\ calling = Idle
    /\ pending = <<>>
    /\ todo = <<>>
    /\ sent = <<>>
    /\ received = <<>>
    /\ inTurn = TRUE

SeqIdOf(f) == IF f \in Requests THEN f ELSE NoSeq

\* Mutant of PushSeqId: the newest id is answered first.
PushSeqIdFront(f) == IF SeqIdOf(f) = NoSeq THEN pending ELSE <<SeqIdOf(f)>> \o pending

PushSeqId(f) == IF SeqIdOf(f) = NoSeq THEN pending ELSE Append(pending, SeqIdOf(f))

\* The receive loop takes a data frame.  Nothing tells a repeated one from a new one.
ReceiveFrame ==
    /\ calling = Idle
    /\ \E f \in Requests \cup Messages :
         /\ f \in Requests => Len(received) < MAX_ARRIVALS
         /\ pending' = PushSeqId(f)
         /\ received' = IF f \in Requests THEN Append(received, f) ELSE received
         /\ calling' = f
    /\ UNCHANGED <<todo, sent, inTurn>>

\* fire_on_data: the application notes what it has to answer.
CallOnData ==
    /\ calling # Idle
    /\ todo' = IF calling \in Requests THEN Append(todo, calling) ELSE todo
    /\ calling' = Idle
    /\ UNCHANGED <<pending, sent, received, inTurn>>

\* pop_front().unwrap_or(0)
NextSeqId == IF pending = <<>> THEN NoSeq ELSE Head(pending)

\* Mutant of SendText: the id stays in the queue.
SendTextPeeks(request, ok) ==
    /\ Len(sent) < MAX_TEXTS
    /\ sent' = IF ok THEN Append(sent, [request |-> request, seq_id |-> NextSeqId])
                     ELSE sent
    /\ UNCHANGED <<calling, pending, received>>

\* send_text with any text: the id is taken before the frame is sent.
SendText(request, ok) ==
    /\ Len(sent) < MAX_TEXTS
    /\ pending' = IF pending = <<>> THEN pending ELSE Tail(pending)
    /\ sent' = IF ok THEN Append(sent, [request |-> request, seq_id |-> NextSeqId])
                     ELSE sent
    /\ UNCHANGED <<calling, received>>

\* The application answers the oldest call of on_data it has not answered.
Answer ==
    /\ todo # <<>>
    /\ SendText(Head(todo), TRUE)
    /\ todo' = Tail(todo)
    /\ UNCHANGED inTurn

Without(i) == SubSeq(todo, 1, i - 1) \o SubSeq(todo, i + 1, Len(todo))

\* It answers a later one first.
AnswerOutOfTurn ==
    /\ \E i \in 2..Len(todo) : SendText(todo[i], TRUE) /\ todo' = Without(i)
    /\ inTurn' = FALSE

\* It leaves one without an answer: the request was itself an answer, say.
Ignore ==
    /\ \E i \in DOMAIN todo : todo' = Without(i)
    /\ inTurn' = FALSE
    /\ UNCHANGED <<calling, pending, sent, received>>

\* It sends a text that answers nothing.  Such a text is in turn while no id is
\* queued; one is queued already when on_data is about to be called.
Volunteer ==
    /\ SendText(NoSeq, TRUE)
    /\ inTurn' = (inTurn /\ pending = <<>>)
    /\ UNCHANGED todo

\* send_text returns an error (no agent, socket or nominated pair, a socket error);
\* what was to be answered still is.
SendFails ==
    /\ SendText(NoSeq, FALSE)
    /\ inTurn' = (inTurn /\ pending = <<>>)
    /\ UNCHANGED todo

\* close() and a new connect(): what was to be answered is gone with the peer,
\* the queue of ids is not.
Reopen ==
    /\ calling = Idle
    /\ todo' = <<>>
    /\ inTurn' = (inTurn /\ pending = <<>>)
    /\ UNCHANGED <<calling, pending, sent, received>>

Next ==
    \/ ReceiveFrame
    \/ CallOnData
    \/ Answer
    \/ AnswerOutOfTurn
    \/ Ignore
    \/ Volunteer
    \/ SendFails
    \/ Reopen

Spec == Init /\ [][Next]_vars

----------------------------------------------------------------------------
(* Correctness *)

\* Every variable keeps its type; in particular only ids that a frame carried are
\* queued.
TypeOK ==
    /\ calling \in Requests \cup Messages \cup {Idle}
    /\ pending \in Seq(Requests) /\ todo \in Seq(Requests) /\ received \in Seq(Requests)
    /\ sent \in Seq([request : SeqIds, seq_id : SeqIds])
    /\ inTurn \in BOOLEAN

\* Every text sent carries the id of the request it answers, 0 if it answers none
\* ("automatic request-response correlation", client.rs:83).
Correlated == \A k \in DOMAIN sent : sent[k].seq_id = sent[k].request

\* An application that answers every call of on_data, the repeated ones included,
\* in the order of the calls, with no failed send while an id is queued and no text
\* of its own in between, has its answers correlated: requests of which several are
\* under way, frames repeated or overtaken by others, and closes between them do
\* not matter.
AnswersMatch == inTurn => Correlated

\* at[k] is an arrival whose id the k-th text carries, later for later texts.
CarriesInOrder(at) ==
    \A k \in DOMAIN sent : sent[k].seq_id # NoSeq =>
        /\ at[k] # 0 /\ received[at[k]] = sent[k].seq_id
        /\ \A j \in 1..(k - 1) : sent[j].seq_id # NoSeq => at[j] < at[k]

\* Whatever the application does and whatever fails: the ids that go out are ids
\* that came in, in the same order, and each arrival's id goes out at most once.
IdsInOrder == \E at \in [DOMAIN sent -> 0..Len(received)] : CarriesInOrder(at)

\* In turn the queue holds exactly the ids that still have to be answered, in
\* the order in which the application answers them.
QueueFollowsRequests ==
    inTurn => pending = IF calling \in Requests THEN Append(todo, calling) ELSE todo
=============================================================================
