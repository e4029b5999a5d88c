------------------------ MODULE SeqCorrelationProofs ------------------------
(***************************************************************************)
(* Proofs about the correlation of answers (SeqCorrelation), for any       *)
(* number of requests and messages.                                        *)
(***************************************************************************)
EXTENDS SeqCorrelation, SequenceTheorems, TLAPS

(* Sequences *)

\* Appending and taking the head commute on a queue that is not empty.
LEMMA TailOfAppend ==
    ASSUME NEW S, NEW s \in Seq(S), s # <<>>, NEW x \in S
    PROVE  /\ Append(s, x) \in Seq(S) /\ Append(s, x) # <<>>
           /\ Head(Append(s, x)) = Head(s)
           /\ Tail(Append(s, x)) = Append(Tail(s), x)
<1>1. Len(s) \in Nat /\ Len(s) > 0
  BY EmptySeq, LenProperties
<1>2. /\ Append(s, x) \in Seq(S) /\ Len(Append(s, x)) = Len(s) + 1
      /\ Append(s, x) # <<>> /\ Append(s, x)[1] = s[1]
  BY <1>1, AppendProperties
<1>3. Head(Append(s, x)) = Head(s)
  BY <1>1, <1>2, HeadTailProperties
<1>4. Tail(s) \in Seq(S) /\ Len(Tail(s)) = Len(s) - 1
  BY <1>1, HeadTailProperties
<1>5. Tail(Append(s, x)) \in Seq(S) /\ Append(Tail(s), x) \in Seq(S)
  BY <1>2, <1>4, HeadTailProperties, AppendProperties
<1>6. Len(Tail(Append(s, x))) = Len(s) /\ Len(Append(Tail(s), x)) = Len(s)
  BY <1>1, <1>2, <1>4, HeadTailProperties, AppendProperties
<1>7. ASSUME NEW i \in 1..Len(s)
      PROVE  Tail(Append(s, x))[i] = Append(Tail(s), x)[i]
  <2>1. Tail(Append(s, x))[i] = Append(s, x)[i + 1]
    BY <1>1, <1>2, HeadTailProperties
  <2>2. CASE i = Len(s)
    BY <1>1, <1>4, <2>1, <2>2, AppendProperties
  <2>3. CASE i < Len(s)
    <3>1. i \in 1..Len(Tail(s)) /\ i + 1 \in 1..Len(s)
      BY <1>1, <1>4, <2>3
    <3>2. Append(Tail(s), x)[i] = Tail(s)[i]
      BY <1>4, <3>1, AppendProperties
    <3>3. Tail(s)[i] = s[i + 1]
      BY <1>1, <3>1, HeadTailProperties
    <3>4. Append(s, x)[i + 1] = s[i + 1]
      BY <3>1, AppendProperties
    <3> QED
      BY <2>1, <3>2, <3>3, <3>4
  <2> QED
    BY <1>1, <2>2, <2>3
<1>8. Tail(Append(s, x)) = Append(Tail(s), x)
  BY <1>5, <1>6, <1>7, SeqEqual
<1> QED
  BY <1>2, <1>3, <1>8

----------------------------------------------------------------------------
(* Types *)

\* Types hold in the beginning.
LEMMA TypeInit == Init => TypeOK
<1>1. <<>> \in Seq(Requests) /\ <<>> \in Seq([request : SeqIds, seq_id : SeqIds])
  BY EmptySeq
<1> QED
  BY <1>1 DEF Init, TypeOK

\* What send_text leaves of the queue, and what it adds to the texts sent.
LEMMA TypeSend ==
    ASSUME TypeOK, NEW request \in SeqIds, NEW ok \in BOOLEAN, SendText(request, ok)
    PROVE  /\ pending' \in Seq(Requests)
           /\ sent' \in Seq([request : SeqIds, seq_id : SeqIds])
           /\ calling' = calling /\ received' = received
<1>1. pending # <<>> => Head(pending) \in Requests /\ Tail(pending) \in Seq(Requests)
  BY HeadTailProperties DEF TypeOK
<1>2. [request |-> request, seq_id |-> NextSeqId] \in [request : SeqIds, seq_id : SeqIds]
  BY <1>1 DEF NextSeqId, SeqIds
<1>3. Append(sent, [request |-> request, seq_id |-> NextSeqId])
        \in Seq([request : SeqIds, seq_id : SeqIds])
  BY <1>2, AppendProperties DEF TypeOK
<1> QED
  BY <1>1, <1>3 DEF SendText, TypeOK

\* A sequence without one of its elements.
LEMMA TypeWithout ==
    ASSUME TypeOK, NEW i \in DOMAIN todo
    PROVE  Without(i) \in Seq(Requests)
<1>1. todo \in Seq(Requests) /\ i \in 1..Len(todo) /\ Len(todo) \in Nat
  BY LenProperties DEF TypeOK
<1>2. SubSeq(todo, 1, i - 1) \in Seq(Requests)
  BY <1>1, SubSeqProperties
<1>3. SubSeq(todo, i + 1, Len(todo)) \in Seq(Requests)
  BY <1>1, SubSeqProperties
<1> QED
  BY <1>2, <1>3, ConcatProperties DEF Without

\* And types are kept by every step.
LEMMA TypeStep == TypeOK /\ [Next]_vars => TypeOK'
<1> SUFFICES ASSUME TypeOK, [Next]_vars PROVE TypeOK'
  OBVIOUS
<1>1. CASE ReceiveFrame
  BY <1>1, AppendProperties DEF ReceiveFrame, PushSeqId, SeqIdOf, NoSeq, TypeOK
<1>2. CASE CallOnData
  BY <1>2, AppendProperties DEF CallOnData, TypeOK
<1>3. CASE Answer
  <2>1. todo \in Seq(Requests) /\ Head(todo) \in SeqIds /\ Tail(todo) \in Seq(Requests)
    BY <1>3, HeadTailProperties DEF Answer, TypeOK, SeqIds
  <2>2. SendText(Head(todo), TRUE) /\ todo' = Tail(todo) /\ inTurn' = inTurn
    BY <1>3 DEF Answer
  <2> QED
    BY <2>1, <2>2, TypeSend DEF TypeOK
<1>4. CASE AnswerOutOfTurn
  <2>1. PICK i \in 2..Len(todo) : SendText(todo[i], TRUE) /\ todo' = Without(i)
    BY <1>4 DEF AnswerOutOfTurn
  <2>2. i \in DOMAIN todo /\ todo[i] \in SeqIds
    <3>1. todo \in Seq(Requests) /\ Len(todo) \in Nat /\ DOMAIN todo = 1..Len(todo)
      BY LenProperties DEF TypeOK
    <3>2. i \in 1..Len(todo)
      BY <3>1
    <3> QED
      BY <3>1, <3>2, ElementOfSeq DEF SeqIds
  <2>3. inTurn' = FALSE
    BY <1>4 DEF AnswerOutOfTurn
  <2> QED
    BY <2>1, <2>2, <2>3, TypeSend, TypeWithout DEF TypeOK
<1>5. CASE Ignore
  BY <1>5, TypeWithout DEF Ignore, TypeOK
<1>6. ASSUME NEW ok \in BOOLEAN, SendText(NoSeq, ok), inTurn' = (inTurn /\ pending = <<>>),
             todo' = todo
      PROVE  TypeOK'
  BY <1>6, TypeSend DEF TypeOK, SeqIds
<1>7. CASE Reopen
  BY <1>7, EmptySeq DEF Reopen, TypeOK
<1>8. CASE UNCHANGED vars
  BY <1>8 DEF vars, TypeOK
<1> QED
  BY <1>1, <1>2, <1>3, <1>4, <1>5, <1>6, <1>7, <1>8 DEF Next, Volunteer, SendFails

----------------------------------------------------------------------------
(* Answers carry the id of their request *)

\* Nothing but the order of the queue makes answers match, so the two facts are
\* one inductive invariant.
MatchInv == TypeOK /\ QueueFollowsRequests /\ AnswersMatch

\* The invariant holds in the beginning.
LEMMA MatchInit == Init => MatchInv
  BY TypeInit, CorrelationAssumption
  DEF Init, MatchInv, QueueFollowsRequests, AnswersMatch, Correlated

\* A text that carries the id of its request keeps what was sent correlated.
LEMMA SentMatches ==
    ASSUME TypeOK, Correlated, NEW request \in SeqIds, NEW ok \in BOOLEAN,
           SendText(request, ok), NextSeqId = request
    PROVE  Correlated'
<1> DEFINE new == [request |-> request, seq_id |-> NextSeqId]
<1>1. sent \in Seq([request : SeqIds, seq_id : SeqIds]) /\ new \in [request : SeqIds, seq_id : SeqIds]
  BY DEF TypeOK
<1>2. CASE sent' = sent
  BY <1>2 DEF Correlated
<1>3. CASE sent' = Append(sent, new)
  <2>1. /\ Len(sent) \in Nat /\ DOMAIN sent = 1..Len(sent)
        /\ DOMAIN sent' = 1..(Len(sent) + 1)
        /\ sent'[Len(sent) + 1] = new
        /\ \A k \in 1..Len(sent) : sent'[k] = sent[k]
    BY <1>1, <1>3, AppendProperties, LenProperties
  <2> HIDE DEF new
  <2>2. \A k \in DOMAIN sent' :
          \/ sent'[k] = new
          \/ k \in DOMAIN sent /\ sent'[k] = sent[k]
    BY <2>1
  <2>3. new.seq_id = new.request
    BY DEF new
  <2> QED
    BY <2>2, <2>3 DEF Correlated
<1> QED
  BY <1>2, <1>3 DEF SendText

\* And is kept by every step; a step out of turn ends its claim.
LEMMA MatchStep ==
    ASSUME MatchInv, [Next]_vars
    PROVE  MatchInv'
<1> USE DEF MatchInv
<1>1. TypeOK'
  BY TypeStep
<1>2. CASE ReceiveFrame
  BY <1>1, <1>2, CorrelationAssumption
  DEF ReceiveFrame, PushSeqId, SeqIdOf, QueueFollowsRequests, AnswersMatch, Correlated, TypeOK
<1>3. CASE CallOnData
  BY <1>1, <1>3, CorrelationAssumption
  DEF CallOnData, QueueFollowsRequests, AnswersMatch, Correlated
<1>4. CASE Answer
  <2>1. /\ todo \in Seq(Requests) /\ todo # <<>> /\ todo' = Tail(todo)
        /\ SendText(Head(todo), TRUE) /\ calling' = calling /\ inTurn' = inTurn
        /\ pending' = IF pending = <<>> THEN pending ELSE Tail(pending)
    BY <1>4 DEF Answer, SendText, TypeOK
  <2>2. Head(todo) \in SeqIds
    BY <2>1, HeadTailProperties DEF SeqIds
  <2>3. ASSUME inTurn'
        PROVE  /\ NextSeqId = Head(todo)
               /\ pending' = IF calling \in Requests THEN Append(Tail(todo), calling)
                                                     ELSE Tail(todo)
    <3>1. CASE calling \in Requests
      <4>1. pending = Append(todo, calling)
        BY <2>1, <2>3, <3>1 DEF QueueFollowsRequests
      <4>2. /\ pending # <<>> /\ Head(pending) = Head(todo)
            /\ Tail(pending) = Append(Tail(todo), calling)
        BY <2>1, <3>1, <4>1, TailOfAppend
      <4> QED
        BY <2>1, <3>1, <4>2 DEF NextSeqId
    <3>2. CASE calling \notin Requests
      BY <2>1, <2>3, <3>2 DEF QueueFollowsRequests, NextSeqId
    <3> QED
      BY <3>1, <3>2
  <2>4. inTurn' => Correlated'
    BY <2>1, <2>2, <2>3, SentMatches DEF AnswersMatch
  <2> QED
    BY <1>1, <2>1, <2>3, <2>4 DEF QueueFollowsRequests, AnswersMatch
<1>5. CASE AnswerOutOfTurn \/ Ignore
  BY <1>1, <1>5 DEF AnswerOutOfTurn, Ignore, QueueFollowsRequests, AnswersMatch
<1>6. ASSUME NEW ok \in BOOLEAN, SendText(NoSeq, ok), inTurn' = (inTurn /\ pending = <<>>),
             todo' = todo
      PROVE  MatchInv'
  <2>1. inTurn' => NextSeqId = NoSeq
    BY <1>6 DEF NextSeqId
  <2>2. inTurn' => Correlated'
    BY <1>6, <2>1, SentMatches DEF AnswersMatch, SeqIds
  <2>3. QueueFollowsRequests'
    BY <1>6 DEF QueueFollowsRequests, SendText
  <2> QED
    BY <1>1, <2>2, <2>3 DEF AnswersMatch
<1>7. CASE Reopen
  BY <1>1, <1>7, CorrelationAssumption
  DEF Reopen, QueueFollowsRequests, AnswersMatch, Correlated
<1>8. CASE UNCHANGED vars
  BY <1>1, <1>8 DEF vars, QueueFollowsRequests, AnswersMatch, Correlated
<1> QED
  BY <1>2, <1>3, <1>4, <1>5, <1>6, <1>7, <1>8 DEF Next, Volunteer, SendFails

\* As long as the application answers in turn every text carries the id of the
\* request it answers (client.rs, send_text), whatever is lost, repeated or
\* reordered on the way, and however requests and answers interleave.
THEOREM AnswersCarryTheirId == Spec => []AnswersMatch
<1>1. MatchInv => AnswersMatch
  BY DEF MatchInv
<1> QED
  BY <1>1, MatchInit, MatchStep, PTL DEF Spec

----------------------------------------------------------------------------
(* Ids go out in the order they came in *)

\* How many of the ids that came in have left the queue.
Taken == Len(received) - Len(pending)

\* The queue is what is left of them, and the texts carry ids that have left it.
QueueIsRest ==
    /\ Len(pending) <= Len(received)
    /\ \A i \in 1..Len(pending) : pending[i] = received[Taken + i]

TakenWereSent == \E at \in [DOMAIN sent -> 0..Taken] : CarriesInOrder(at)

OrderInv == TypeOK /\ QueueIsRest /\ TakenWereSent

\* Lengths are numbers and domains start at one.
LEMMA Lengths ==
    ASSUME TypeOK
    PROVE  /\ Len(pending) \in Nat /\ Len(received) \in Nat /\ Len(sent) \in Nat
           /\ DOMAIN sent = 1..Len(sent)
  BY LenProperties DEF TypeOK

\* The invariant holds in the beginning.
LEMMA OrderInit == Init => OrderInv
<1> SUFFICES ASSUME Init PROVE OrderInv
  OBVIOUS
<1>1. Len(pending) = 0 /\ Len(received) = 0 /\ DOMAIN sent = {} /\ Taken = 0
  BY EmptySeq DEF Init, Taken
<1>2. QueueIsRest
  BY <1>1 DEF QueueIsRest
<1> DEFINE at == [k \in DOMAIN sent |-> 0]
<1>3. at \in [DOMAIN sent -> 0..Taken]
  BY <1>1
<1>4. CarriesInOrder(at)
  BY <1>1 DEF CarriesInOrder
<1>5. TakenWereSent
  BY <1>3, <1>4 DEF TakenWereSent
<1> QED
  BY <1>2, <1>5, TypeInit DEF OrderInv

\* Both outcomes of send_text: the oldest id leaves the queue, with the text or not.
LEMMA SendKeepsOrder ==
    ASSUME OrderInv, NEW request \in SeqIds, NEW ok \in BOOLEAN, SendText(request, ok)
    PROVE  QueueIsRest' /\ TakenWereSent'
<1>1. TypeOK /\ QueueIsRest /\ TakenWereSent
  BY DEF OrderInv
<1>2. /\ Len(pending) \in Nat /\ Len(received) \in Nat /\ Len(sent) \in Nat
      /\ DOMAIN sent = 1..Len(sent) /\ received' = received
  BY <1>1, Lengths DEF SendText
<1>3. /\ pending \in Seq(Requests) /\ received \in Seq(Requests)
      /\ sent \in Seq([request : SeqIds, seq_id : SeqIds])
  BY <1>1 DEF TypeOK
<1>4. PICK at \in [DOMAIN sent -> 0..Taken] : CarriesInOrder(at)
  BY <1>1 DEF TakenWereSent
<1>5. /\ Taken \in Nat /\ Taken' \in Nat /\ Taken <= Taken'
      /\ QueueIsRest'
      /\ NextSeqId # NoSeq => Taken' = Taken + 1 /\ received[Taken'] = NextSeqId
  <2>1. CASE pending = <<>>
    BY <1>1, <1>2, <2>1 DEF SendText, Taken, QueueIsRest, NextSeqId
  <2>2. CASE pending # <<>>
    <3>1. /\ pending' = Tail(pending) /\ NextSeqId = pending[1] /\ Len(pending) > 0
      BY <1>2, <1>3, <2>2, HeadTailProperties, EmptySeq, LenProperties
      DEF SendText, NextSeqId
    <3>2. /\ Len(pending') = Len(pending) - 1
          /\ \A i \in 1..Len(pending') : pending'[i] = pending[i + 1]
      BY <1>3, <2>2, <3>1, HeadTailProperties
    <3>3. Taken \in Nat /\ Taken' = Taken + 1
      <4>1. Len(received') = Len(received)
        BY <1>2
      <4>2. Len(pending) <= Len(received)
        BY <1>1 DEF QueueIsRest
      <4>3. Taken \in Nat
        BY <1>2, <4>2 DEF Taken
      <4>4. Taken' = Len(received) - (Len(pending) - 1)
        BY <3>2, <4>1 DEF Taken
      <4>5. Taken' = Taken + 1
        BY <1>2, <4>4 DEF Taken
      <4> QED
        BY <4>3, <4>5
    <3>4. Len(pending') <= Len(received')
      BY <1>1, <1>2, <3>2 DEF QueueIsRest
    <3>5. ASSUME NEW i \in 1..Len(pending')
          PROVE  pending'[i] = received'[Taken' + i]
      <4>1. i + 1 \in 1..Len(pending) /\ Taken' + i = Taken + (i + 1)
        BY <1>2, <3>1, <3>2, <3>3
      <4> QED
        BY <1>1, <1>2, <3>2, <4>1 DEF QueueIsRest
    <3>6. received[Taken + 1] = pending[1]
      BY <1>1, <1>2, <3>1 DEF QueueIsRest
    <3> QED
      BY <3>1, <3>3, <3>4, <3>5, <3>6 DEF QueueIsRest
  <2> QED
    BY <2>1, <2>2
<1>6. CASE sent' = sent
  <2>1. at \in [DOMAIN sent' -> 0..Taken']
    BY <1>2, <1>4, <1>5, <1>6
  <2>2. CarriesInOrder(at)'
    BY <1>2, <1>4, <1>6 DEF CarriesInOrder
  <2> QED
    BY <1>5, <2>1, <2>2 DEF TakenWereSent
<1>7. CASE sent' = Append(sent, [request |-> request, seq_id |-> NextSeqId])
  <2> DEFINE new == [request |-> request, seq_id |-> NextSeqId]
  <2>1. new \in [request : SeqIds, seq_id : SeqIds]
    BY <1>3, HeadTailProperties DEF NextSeqId, SeqIds
  <2>2. /\ DOMAIN sent' = 1..(Len(sent) + 1)
        /\ sent'[Len(sent) + 1] = new
        /\ \A k \in 1..Len(sent) : sent'[k] = sent[k]
    BY <1>2, <1>3, <1>7, <2>1, AppendProperties, LenProperties
  <2>3. new.seq_id = NextSeqId
    OBVIOUS
  <2>4. PICK later \in [DOMAIN sent' -> 0..Taken'] :
          /\ \A k \in DOMAIN sent : later[k] = at[k] /\ at[k] \in 0..Taken
          /\ later[Len(sent) + 1] = Taken'
    <3> DEFINE f == [k \in DOMAIN sent' |-> IF k \in DOMAIN sent THEN at[k] ELSE Taken']
    <3>1. \A k \in DOMAIN sent : at[k] \in 0..Taken /\ k \in DOMAIN sent'
      BY <1>2, <1>4, <2>2
    <3>2. f \in [DOMAIN sent' -> 0..Taken']
      BY <1>5, <3>1
    <3>3. Len(sent) + 1 \in DOMAIN sent' /\ Len(sent) + 1 \notin DOMAIN sent
      BY <1>2, <2>2
    <3>4. /\ \A k \in DOMAIN sent : f[k] = at[k] /\ at[k] \in 0..Taken
          /\ f[Len(sent) + 1] = Taken'
      BY <3>1, <3>3
    <3> HIDE DEF f
    <3> QED
      BY <3>2, <3>4
  <2> HIDE DEF new
  <2>5. ASSUME NEW k \in DOMAIN sent', sent'[k].seq_id # NoSeq
        PROVE  /\ later[k] # 0 /\ received'[later[k]] = sent'[k].seq_id
               /\ \A j \in 1..(k - 1) : sent'[j].seq_id # NoSeq => later[j] < later[k]
    <3>1. CASE k \in DOMAIN sent
      <4>1. \A j \in 1..(k - 1) : j \in DOMAIN sent
        BY <1>2, <3>1
      <4> QED
        BY <1>2, <1>4, <2>2, <2>4, <2>5, <3>1, <4>1 DEF CarriesInOrder
    <3>2. CASE k = Len(sent) + 1
      <4>1. NextSeqId # NoSeq /\ sent'[k].seq_id = NextSeqId
        BY <2>2, <2>3, <2>5, <3>2
      <4>2. later[k] = Taken' /\ Taken' = Taken + 1 /\ received'[Taken'] = NextSeqId
        BY <1>2, <1>5, <2>4, <3>2, <4>1
      <4>3. ASSUME NEW j \in 1..(k - 1) PROVE later[j] < later[k]
        <5>1. j \in DOMAIN sent
          BY <1>2, <3>2
        <5>2. later[j] \in 0..Taken
          BY <1>4, <2>4, <5>1
        <5> QED
          BY <1>5, <4>2, <5>2
      <4> QED
        BY <1>5, <4>1, <4>2, <4>3
    <3> QED
      BY <1>2, <2>2, <3>1, <3>2
  <2>6. CarriesInOrder(later)'
    BY <2>5 DEF CarriesInOrder
  <2> QED
    BY <1>5, <2>4, <2>6 DEF TakenWereSent
<1> QED
  BY <1>5, <1>6, <1>7 DEF SendText

\* And is kept by every step.
LEMMA OrderStep == OrderInv /\ [Next]_vars => OrderInv'
<1> SUFFICES ASSUME OrderInv, [Next]_vars PROVE QueueIsRest' /\ TakenWereSent'
  BY TypeStep DEF OrderInv
<1>0. TypeOK /\ QueueIsRest /\ TakenWereSent
  BY DEF OrderInv
<1>1. CASE ReceiveFrame
  <2>1. PICK f \in Requests \cup Messages :
          /\ pending' = PushSeqId(f) /\ sent' = sent
          /\ received' = IF f \in Requests THEN Append(received, f) ELSE received
    BY <1>1 DEF ReceiveFrame
  <2>2. CASE f \notin Requests
    <3>1. pending' = pending /\ received' = received
      BY <2>1, <2>2 DEF PushSeqId, SeqIdOf
    <3> QED
      BY <1>0, <2>1, <3>1 DEF QueueIsRest, TakenWereSent, Taken, CarriesInOrder
  <2>3. CASE f \in Requests
    <3>1. pending' = Append(pending, f) /\ received' = Append(received, f)
      BY <2>1, <2>3, CorrelationAssumption DEF PushSeqId, SeqIdOf
    <3>2. /\ Len(pending) \in Nat /\ Len(received) \in Nat
          /\ pending \in Seq(Requests) /\ received \in Seq(Requests)
      BY <1>0, Lengths DEF TypeOK
    <3>3. /\ Len(pending') = Len(pending) + 1 /\ Len(received') = Len(received) + 1
          /\ pending'[Len(pending) + 1] = f /\ received'[Len(received) + 1] = f
          /\ \A i \in 1..Len(pending) : pending'[i] = pending[i]
          /\ \A i \in 1..Len(received) : received'[i] = received[i]
      BY <2>3, <3>1, <3>2, AppendProperties
    <3>4. Taken' = Taken /\ Taken \in Nat /\ Taken <= Len(received)
      BY <1>0, <3>2, <3>3 DEF Taken, QueueIsRest
    <3>5. ASSUME NEW i \in 1..Len(pending') PROVE pending'[i] = received'[Taken' + i]
      <4>1. CASE i = Len(pending) + 1
        <5>1. Taken + i = Len(received) + 1
          BY <3>2, <4>1 DEF Taken
        <5> QED
          BY <3>3, <3>4, <4>1, <5>1
      <4>2. CASE i \in 1..Len(pending)
        <5>1. Taken + i \in 1..Len(received)
          BY <1>0, <3>2, <3>4, <4>2 DEF Taken, QueueIsRest
        <5>2. pending[i] = received[Taken + i]
          BY <1>0, <4>2 DEF QueueIsRest
        <5> QED
          BY <3>3, <3>4, <4>2, <5>1, <5>2
      <4> QED
        BY <3>2, <3>3, <4>1, <4>2
    <3>6. QueueIsRest'
      BY <1>0, <3>2, <3>3, <3>5 DEF QueueIsRest
    <3>7. PICK at \in [DOMAIN sent -> 0..Taken] : CarriesInOrder(at)
      BY <1>0 DEF TakenWereSent
    <3>8. CarriesInOrder(at)'
      <4>1. \A k \in DOMAIN sent : at[k] # 0 => at[k] \in 1..Len(received)
        BY <3>2, <3>4, <3>7
      <4> QED
        BY <2>1, <3>3, <3>7, <4>1 DEF CarriesInOrder
    <3>9. at \in [DOMAIN sent' -> 0..Taken']
      BY <2>1, <3>4, <3>7
    <3> QED
      BY <3>6, <3>8, <3>9 DEF TakenWereSent
  <2> QED
    BY <2>2, <2>3
<1>2. ASSUME pending' = pending, received' = received, sent' = sent
      PROVE  QueueIsRest' /\ TakenWereSent'
  BY <1>0, <1>2 DEF QueueIsRest, TakenWereSent, Taken, CarriesInOrder
<1>3. CASE Answer
  <2>1. todo # <<>> /\ todo \in Seq(Requests) /\ SendText(Head(todo), TRUE)
    BY <1>0, <1>3 DEF Answer, TypeOK
  <2>2. Head(todo) \in SeqIds
    BY <2>1, HeadTailProperties DEF SeqIds
  <2> QED
    BY <2>1, <2>2, SendKeepsOrder
<1>4. CASE AnswerOutOfTurn
  <2>1. PICK i \in 2..Len(todo) : SendText(todo[i], TRUE)
    BY <1>4 DEF AnswerOutOfTurn
  <2>2. todo \in Seq(Requests) /\ Len(todo) \in Nat
    BY <1>0, LenProperties DEF TypeOK
  <2>3. todo[i] \in SeqIds
    BY <2>2, ElementOfSeq DEF SeqIds
  <2> QED
    BY <2>1, <2>3, SendKeepsOrder
<1>5. CASE Volunteer \/ SendFails
  BY <1>5, SendKeepsOrder DEF Volunteer, SendFails, SeqIds
<1>6. CASE CallOnData \/ Ignore \/ Reopen \/ UNCHANGED vars
  BY <1>2, <1>6 DEF CallOnData, Ignore, Reopen, vars
<1> QED
  BY <1>1, <1>3, <1>4, <1>5, <1>6 DEF Next

\* Whatever the application does, whatever fails and however often it reconnects,
\* ids go out in the order of the frames that brought them and once for each
\* (client.rs, the queue pending_seq_ids).
THEOREM IdsGoOutInOrder == Spec => []IdsInOrder
<1>1. OrderInv => IdsInOrder
  <2> SUFFICES ASSUME OrderInv PROVE IdsInOrder
    OBVIOUS
  <2>1. PICK at \in [DOMAIN sent -> 0..Taken] : CarriesInOrder(at)
    BY DEF OrderInv, TakenWereSent
  <2>2. Len(pending) \in Nat /\ Len(received) \in Nat
    BY Lengths DEF OrderInv
  <2>3. \A k \in DOMAIN sent : at[k] \in 0..Len(received)
    BY <2>1, <2>2 DEF Taken
  <2>4. at \in [DOMAIN sent -> 0..Len(received)]
    BY <2>1, <2>3
  <2> QED
    BY <2>1, <2>4 DEF IdsInOrder
<1> QED
  BY <1>1, OrderInit, OrderStep, PTL DEF Spec
=============================================================================
