--------------------------- MODULE ConnectorProofs ---------------------------
(***************************************************************************)
(* Proofs about the loop of the signalling client (Connector), for any     *)
(* number of messages, pings, lost links and waits.                        *)
(***************************************************************************)
EXTENDS Connector, TLAPS

Steps == {"outer", "connect", "inner", "poll", "dispatch", "ended"}

\* The loop is between the two tests of is_connected(): `incoming` is its own.
Polling == pc \in {"poll", "dispatch"}

Typed ==
    /\ pc \in Steps
    /\ socket \in BOOLEAN /\ link \in BOOLEAN
    /\ registered \in BOOLEAN /\ was_registered \in BOOLEAN
    /\ stop \in BOOLEAN /\ told \in BOOLEAN
    /\ inbox \in Seq(Frames)
    /\ incoming \in Seq(Nat) /\ seen \in Seq(Nat)
    /\ server \in {"unknown", "registering", "registered"}
    /\ sent \in Nat /\ pings \in Nat /\ drops \in Nat

----------------------------------------------------------------------------
(* Types *)

\* A frame of any kind has its type.
LEMMA FrameTypes ==
    /\ Frame("register_ok", 0) \in Frames /\ Frame("ping", 0) \in Frames
    /\ \A n \in Messages : Frame("message", n) \in Frames
    /\ \A f \in Frames : /\ f.type \in {"register_ok", "ping", "message"}
                         /\ f.number \in Nat
<1>1. /\ Frame("register_ok", 0) \in Frames /\ Frame("ping", 0) \in Frames
      /\ \A n \in Messages : Frame("message", n) \in Frames
  BY DEF Frames
<1>2. \A f \in Frames : \/ f = Frame("register_ok", 0) \/ f = Frame("ping", 0)
                         \/ \E n \in Messages : f = Frame("message", n)
  BY DEF Frames
<1>3. \A n \in Messages : n \in Nat
  BY ConnectorAssumption DEF Messages
<1>4. \A f \in Frames : /\ f.type \in {"register_ok", "ping", "message"}
                        /\ f.number \in Nat
  BY <1>2, <1>3 DEF Frame
<1> QED
  BY <1>1, <1>4

\* An empty sequence has every type.
LEMMA EmptyTyped == <<>> \in Seq(Frames) /\ <<>> \in Seq(Nat)
  OBVIOUS

\* Only the frame at the head of the inbox is read.
LEMMA CollectedTyped ==
    ASSUME Typed, inbox # <<>>
    PROVE  /\ Head(inbox) \in Frames /\ Tail(inbox) \in Seq(Frames)
           /\ Collected(Head(inbox)) \in Seq(Nat)
<1>1. Head(inbox) \in Frames /\ Tail(inbox) \in Seq(Frames)
  BY DEF Typed
<1>2. Head(inbox).number \in Nat
  BY <1>1, FrameTypes
<1> QED
  BY <1>1, <1>2 DEF Collected, Typed

\* Steps of the loop keep the types.
LEMMA LoopTyped == ASSUME Typed, LoopStep PROVE Typed'
<1> USE DEF Typed, Steps, serverVars
<1>1. CASE OuterTest
  BY <1>1, EmptyTyped DEF OuterTest
<1>2. CASE ConnectSucceeds
  BY <1>2, EmptyTyped DEF ConnectSucceeds
<1>3. CASE ConnectFails
  BY <1>3 DEF ConnectFails
<1>4. CASE RegisterFails
  BY <1>4, EmptyTyped DEF RegisterFails
<1>5. CASE InnerTest
  BY <1>5, EmptyTyped DEF InnerTest
<1>6. CASE PollFrame
  BY <1>6, CollectedTyped DEF PollFrame
<1>7. CASE PollEmpty
  BY <1>7 DEF PollEmpty
<1>8. CASE Dispatch
  <2>1. seen' \in Seq(Nat)
    <3>1. seen \o incoming \in Seq(Nat)
      OBVIOUS
    <3> QED
      BY <1>8, <3>1 DEF Dispatch, HandOver, BreakOff
  <2> QED
    BY <1>8, <2>1 DEF Dispatch, HandOver, BreakOff
<1> QED
  BY <1>1, <1>2, <1>3, <1>4, <1>5, <1>6, <1>7, <1>8 DEF LoopStep

\* So do steps of the server, the network and whoever sets `stop`.
LEMMA EnvironmentTyped ==
    ASSUME Typed, RegisterOk \/ Forward \/ Ping \/ LoseLink \/ SetStop
    PROVE  Typed'
<1> USE DEF Typed, serverVars, loopVars
<1>1. CASE RegisterOk
  BY <1>1, FrameTypes DEF RegisterOk
<1>2. CASE Forward
  <2>1. sent + 1 \in Messages
    BY <1>2, ConnectorAssumption DEF Forward, Messages
  <2> QED
    BY <1>2, <2>1, FrameTypes DEF Forward
<1>3. CASE Ping
  BY <1>3, FrameTypes DEF Ping
<1>4. CASE LoseLink
  <2>1. inbox' \in Seq(Frames)
    BY <1>4, EmptyTyped DEF LoseLink
  <2>2. drops' \in Nat /\ UNCHANGED <<loopVars, sent, pings>>
    BY <1>4 DEF LoseLink
  <2> QED
    BY <1>4, <2>1, <2>2 DEF LoseLink
<1>5. CASE SetStop
  BY <1>5 DEF SetStop
<1> QED
  BY <1>1, <1>2, <1>3, <1>4, <1>5

\* Type correctness: what is received and handed over is numbers of messages,
\* whatever the link does.
THEOREM TypeCorrect == Spec => []Typed
<1>1. Init => Typed
  <2>1. Init => inbox \in Seq(Frames) /\ incoming \in Seq(Nat) /\ seen \in Seq(Nat)
    BY EmptyTyped DEF Init
  <2>2. Init => pc \in Steps /\ socket \in BOOLEAN /\ link \in BOOLEAN
    BY DEF Init, Steps
  <2>3. Init => sent \in Nat /\ pings \in Nat /\ drops \in Nat
    BY DEF Init
  <2> QED
    BY <2>1, <2>2, <2>3 DEF Init, Typed
<1>2. Typed /\ [Next]_vars => Typed'
  <2> SUFFICES ASSUME Typed, [Next]_vars PROVE Typed'
    OBVIOUS
  <2>1. CASE LoopStep
    BY <2>1, LoopTyped
  <2>2. CASE RegisterOk \/ Forward \/ Ping \/ LoseLink \/ SetStop
    BY <2>2, EnvironmentTyped
  <2>3. CASE UNCHANGED vars
    BY <2>3 DEF vars, serverVars, Typed
  <2> QED
    BY <2>1, <2>2, <2>3 DEF Next
<1> QED
  BY <1>1, <1>2, PTL DEF Spec

----------------------------------------------------------------------------
(* What the loop knows of its socket *)

\* Inductive: the inner loop has a socket, a link has one too, and the server knows
\* of the client only over a link; nothing is forwarded before the inner loop.
SocketInv ==
    /\ pc \in {"inner", "poll", "dispatch"} => IsConnected
    /\ pc = "ended" => stop /\ ~socket /\ ~registered
    /\ link => socket
    /\ server # "unknown" => link
    /\ pc = "connect" => sent = 0
    /\ pc = "outer" /\ ~stop => sent = 0
    /\ pc \in {"outer", "connect"} /\ ~stop => server = "unknown"
    /\ pc = "connect" => server = "unknown"

\* The invariant holds in the beginning.
LEMMA SocketInit == Init => SocketInv
  BY DEF Init, SocketInv

\* And is kept by every step.
LEMMA SocketStep == ASSUME Typed, SocketInv, [Next]_vars PROVE SocketInv'
<1> USE DEF Typed, Steps, SocketInv, IsConnected, serverVars
<1>1. CASE OuterTest
  BY <1>1 DEF OuterTest
<1>2. CASE ConnectSucceeds
  BY <1>2 DEF ConnectSucceeds
<1>3. CASE ConnectFails
  BY <1>3 DEF ConnectFails
<1>4. CASE RegisterFails
  BY <1>4 DEF RegisterFails
<1>5. CASE InnerTest
  BY <1>5 DEF InnerTest
<1>6. CASE PollFrame
  BY <1>6 DEF PollFrame
<1>7. CASE PollEmpty
  BY <1>7 DEF PollEmpty
<1>8. CASE Dispatch
  BY <1>8 DEF Dispatch, HandOver, BreakOff
<1>9. CASE RegisterOk \/ Ping
  BY <1>9 DEF RegisterOk, Ping, loopVars
<1>10. CASE Forward
  BY <1>10 DEF Forward, loopVars
<1>11. CASE LoseLink
  BY <1>11 DEF LoseLink, loopVars
<1>12. CASE SetStop
  BY <1>12 DEF SetStop, loopVars
<1>13. CASE UNCHANGED vars
  BY <1>13 DEF vars
<1> QED
  BY <1>1, <1>2, <1>3, <1>4, <1>5, <1>6, <1>7, <1>8, <1>9, <1>10, <1>11, <1>12, <1>13
  DEF Next, LoopStep

\* The branch for a lost connection (connector.rs:168-175) is never taken: whatever
\* became of the link, the inner loop's transport says that it is connected. And a
\* loop that has ended was told to, has closed its socket and given up its
\* registration, which is the safety half of StopEnds.
THEOREM LossGoesUnnoticed ==
    Spec => /\ [](pc = "dispatch" => IsConnected)
            /\ [](pc = "ended" => stop /\ Ended)
<1>1. SocketInv => (pc = "dispatch" => IsConnected) /\ (pc = "ended" => stop /\ Ended)
  BY DEF SocketInv, Ended
<1> QED
  BY <1>1, SocketInit, SocketStep, TypeCorrect, PTL DEF Spec

----------------------------------------------------------------------------
(* The messages *)

\* box holds the messages n + 1 to m in their order, among other frames.
Holds(box, n, m) ==
    /\ n \in Nat /\ m \in Nat /\ n <= m
    /\ \A j \in DOMAIN box : box[j].type = "message" => box[j].number \in (n + 1)..m
    /\ \A i, j \in DOMAIN box :
          i < j /\ box[i].type = "message" /\ box[j].type = "message"
            => box[i].number < box[j].number
    /\ \A k \in (n + 1)..m :
          \E j \in DOMAIN box : box[j].type = "message" /\ box[j].number = k

\* The numbers n + 1, n + 2, ...
Counts(s, n) == \A i \in DOMAIN s : s[i] = n + i

\* A frame that arrives last: the next message, or something without a number.
LEMMA Arrival ==
    ASSUME NEW box \in Seq(Frames), NEW n, NEW m, Holds(box, n, m), NEW f \in Frames
    PROVE  /\ f.type # "message" => Holds(Append(box, f), n, m)
           /\ f.type = "message" /\ f.number = m + 1 => Holds(Append(box, f), n, m + 1)
<1> DEFINE new == Append(box, f)
<1>1. /\ new[Len(box) + 1] = f /\ Len(box) \in Nat
      /\ \A i \in DOMAIN box : i \in Nat /\ i < Len(box) + 1 /\ new[i] = box[i]
      /\ DOMAIN new = DOMAIN box \cup {Len(box) + 1}
  OBVIOUS
<1> HIDE DEF new
<1>2. CASE f.type # "message"
  BY <1>1, <1>2 DEF Holds, new
<1>3. CASE f.type = "message" /\ f.number = m + 1
  <2>1. n \in Nat /\ m \in Nat /\ n <= m + 1
    BY DEF Holds
  <2>2. ASSUME NEW j \in DOMAIN new, new[j].type = "message"
        PROVE  new[j].number \in (n + 1)..(m + 1)
    BY <1>1, <1>3, <2>1, <2>2 DEF Holds
  <2>3. ASSUME NEW i \in DOMAIN new, NEW j \in DOMAIN new, i < j,
               new[i].type = "message", new[j].type = "message"
        PROVE  new[i].number < new[j].number
    <3>1. i \in DOMAIN box
      BY <1>1, <2>3
    <3>2. CASE j \in DOMAIN box
      BY <1>1, <2>3, <3>1, <3>2 DEF Holds
    <3>3. CASE j = Len(box) + 1
      <4>1. new[i].number \in (n + 1)..m
        BY <1>1, <2>3, <3>1 DEF Holds
      <4> QED
        BY <1>1, <1>3, <2>1, <3>3, <4>1
    <3> QED
      BY <1>1, <3>2, <3>3
  <2>4. ASSUME NEW k \in (n + 1)..(m + 1)
        PROVE  \E j \in DOMAIN new : new[j].type = "message" /\ new[j].number = k
    <3>1. CASE k = m + 1
      BY <1>1, <1>3, <3>1
    <3>2. CASE k \in (n + 1)..m
      BY <1>1, <3>2 DEF Holds
    <3> QED
      BY <2>1, <3>1, <3>2
  <2>5. Holds(new, n, m + 1)
    BY <2>1, <2>2, <2>3, <2>4 DEF Holds
  <2> QED
    BY <1>3, <2>5 DEF new
<1> QED
  BY <1>2, <1>3

\* The frame at the head is read: a message is the next one.
LEMMA Departure ==
    ASSUME NEW box \in Seq(Frames), NEW n, NEW m, Holds(box, n, m), box # <<>>
    PROVE  /\ Head(box).type # "message" => Holds(Tail(box), n, m)
           /\ Head(box).type = "message" =>
                 Head(box).number = n + 1 /\ Holds(Tail(box), n + 1, m)
<1> DEFINE rest == Tail(box)
<1>1. /\ 1 \in DOMAIN box /\ Head(box) = box[1] /\ box[1] \in Frames
      /\ \A j \in DOMAIN box : j # 1 =>
            1 < j /\ j - 1 \in DOMAIN rest /\ rest[j - 1] = box[j]
      /\ \A j \in DOMAIN rest :
            j \in Nat /\ 1 < j + 1 /\ j + 1 \in DOMAIN box /\ rest[j] = box[j + 1]
  OBVIOUS
<1>2. n \in Nat /\ m \in Nat /\ n <= m
  BY DEF Holds
<1> HIDE DEF rest
<1>3. \A i, j \in DOMAIN rest :
         i < j /\ rest[i].type = "message" /\ rest[j].type = "message"
           => rest[i].number < rest[j].number
  <2>1. \A i, j \in DOMAIN rest : i < j => i + 1 < j + 1
    BY <1>1
  <2> QED
    BY <1>1, <2>1 DEF Holds
<1>4. \A j \in DOMAIN rest : rest[j].type = "message" => rest[j].number \in (n + 1)..m
  BY <1>1 DEF Holds
<1>5. CASE box[1].type # "message"
  <2>1. \A k \in (n + 1)..m :
          \E j \in DOMAIN rest : rest[j].type = "message" /\ rest[j].number = k
    <3> TAKE k \in (n + 1)..m
    <3>1. PICK j \in DOMAIN box : box[j].type = "message" /\ box[j].number = k
      BY DEF Holds
    <3> QED
      BY <1>1, <1>5, <3>1
  <2>2. Holds(rest, n, m)
    BY <1>2, <1>3, <1>4, <2>1 DEF Holds
  <2> QED
    BY <1>1, <1>5, <2>2 DEF rest
<1>6. CASE box[1].type = "message"
  <2>1. box[1].number \in (n + 1)..m
    BY <1>1, <1>6 DEF Holds
  <2>2. \A j \in DOMAIN rest :
          rest[j].type = "message" => box[1].number < rest[j].number
    BY <1>1, <1>6 DEF Holds
  <2>3. box[1].number = n + 1
    <3>1. PICK j \in DOMAIN box : box[j].type = "message" /\ box[j].number = n + 1
      <4>1. n + 1 \in (n + 1)..m
        BY <1>2, <2>1
      <4> QED
        BY <4>1 DEF Holds
    <3>2. j # 1 => box[1].number < n + 1
      BY <1>1, <2>2, <3>1
    <3> QED
      BY <1>2, <2>1, <3>1, <3>2
  <2>4. \A k \in (n + 2)..m :
          \E j \in DOMAIN rest : rest[j].type = "message" /\ rest[j].number = k
    <3> TAKE k \in (n + 2)..m
    <3>1. k \in (n + 1)..m /\ k # n + 1
      BY <1>2
    <3>2. PICK j \in DOMAIN box : box[j].type = "message" /\ box[j].number = k
      BY <3>1 DEF Holds
    <3>3. j # 1
      BY <2>3, <3>1, <3>2
    <3> QED
      BY <1>1, <3>2, <3>3
  <2>5. \A j \in DOMAIN rest : rest[j].type = "message" => rest[j].number \in (n + 2)..m
    BY <1>2, <1>4, <2>2, <2>3
  <2>6. n + 1 \in Nat /\ n + 1 <= m /\ (n + 1) + 1 = n + 2
    BY <1>2, <2>1
  <2>7. Holds(rest, n + 1, m)
    BY <1>2, <1>3, <2>4, <2>5, <2>6 DEF Holds
  <2> QED
    BY <1>1, <1>6, <2>3, <2>7 DEF rest
<1> QED
  BY <1>1, <1>5, <1>6

\* How many messages have been handed over or collected by the poll under way.
Read == Len(seen) + IF Polling THEN Len(incoming) ELSE 0

\* Inductive: what was read are the first messages, and the inbox holds the others,
\* unless the link was lost and the inbox with it.
OrderInv ==
    /\ Counts(seen, 0)
    /\ Polling => Counts(incoming, Len(seen))
    /\ Read <= sent
    /\ \/ Holds(inbox, Read, sent)
       \/ ~link /\ inbox = <<>>

\* The empty inbox holds no message.
LEMMA NothingHeld ==
    /\ \A n \in Nat : Holds(<<>>, n, n)
    /\ \A n \in Nat : Counts(<<>>, n)
  BY DEF Holds, Counts

\* Steps of the loop keep the order.
LEMMA LoopInOrder == ASSUME Typed, SocketInv, OrderInv, LoopStep PROVE OrderInv'
<1>0. /\ inbox \in Seq(Frames) /\ sent \in Nat /\ seen \in Seq(Nat) /\ incoming \in Seq(Nat)
      /\ Len(seen) \in Nat /\ Len(incoming) \in Nat
  BY DEF Typed
<1>1. CASE OuterTest
  <2>1. seen' = seen /\ sent' = sent /\ ~Polling /\ ~Polling'
    BY <1>1 DEF OuterTest, Polling, serverVars
  <2>2. UNCHANGED <<inbox, link>> \/ (~link' /\ inbox' = <<>>)
    BY <1>1 DEF OuterTest
  <2> QED
    BY <2>1, <2>2 DEF OrderInv, Read
\* Nothing was forwarded yet.
<1>2. CASE ConnectSucceeds \/ ConnectFails \/ RegisterFails
  <2>1. /\ seen' = seen /\ sent' = sent /\ sent = 0 /\ ~Polling /\ ~Polling'
        /\ UNCHANGED <<inbox, link>> \/ inbox' = <<>>
    BY <1>2 DEF ConnectSucceeds, ConnectFails, RegisterFails, Polling, serverVars, SocketInv
  <2>2. CASE UNCHANGED <<inbox, link>>
    BY <2>1, <2>2 DEF OrderInv, Read
  <2>3. CASE inbox' = <<>>
    <3>1. Len(seen) = 0
      BY <1>0, <2>1 DEF OrderInv, Read
    <3>2. Read' = 0 /\ Counts(seen, 0)'
      BY <2>1, <3>1 DEF Read, OrderInv, Counts
    <3> QED
      BY <2>1, <2>3, <3>2, NothingHeld DEF OrderInv
  <2> QED
    BY <2>1, <2>2, <2>3
<1>3. CASE InnerTest
  <2>1. UNCHANGED <<seen, sent, inbox, link>> /\ (Polling' => incoming' = <<>>) /\ ~Polling
    BY <1>3 DEF InnerTest, Polling, serverVars
  <2>2. Read' = Read
    BY <1>0, <2>1 DEF Read
  <2> QED
    BY <1>0, <2>1, <2>2, NothingHeld DEF OrderInv
<1>4. CASE PollFrame
  <2>1. /\ inbox # <<>> /\ inbox' = Tail(inbox) /\ UNCHANGED <<seen, sent, link>>
        /\ Polling /\ Polling'
    BY <1>4 DEF PollFrame, Polling, serverVars
  <2>2. Holds(inbox, Read, sent) /\ Counts(incoming, Len(seen)) /\ Counts(seen, 0)
    BY <2>1 DEF OrderInv
  <2>3. Read = Len(seen) + Len(incoming)
    BY <2>1 DEF Read
  <2>4. CASE Head(inbox).type = "message"
    <3>1. incoming' = Append(incoming, Head(inbox).number)
      BY <1>4, <2>4 DEF PollFrame, Collected
    <3>2. Head(inbox).number = Read + 1 /\ Holds(inbox', Read + 1, sent)
      BY <1>0, <2>1, <2>2, <2>4, Departure
    <3>3. Len(incoming') = Len(incoming) + 1
      BY <1>0, <3>1
    <3>4. Read' = Read + 1
      BY <1>0, <2>1, <2>3, <3>3 DEF Read
    <3>5. Counts(incoming, Len(seen))'
      <4>1. Len(seen') = Len(seen) /\ Head(inbox).number = Len(seen) + (Len(incoming) + 1)
        BY <1>0, <2>1, <2>3, <3>2
      <4>2. \A i \in DOMAIN incoming' :
              \/ i \in DOMAIN incoming /\ incoming'[i] = incoming[i]
              \/ i = Len(incoming) + 1 /\ incoming'[i] = Head(inbox).number
        BY <1>0, <3>1
      <4>3. \A i \in DOMAIN incoming' : incoming'[i] = Len(seen) + i
        BY <2>2, <4>1, <4>2 DEF Counts
      <4> QED
        BY <4>1, <4>3 DEF Counts
    <3>6. Read' <= sent'
      BY <2>1, <3>2, <3>4 DEF Holds
    <3> QED
      BY <2>1, <2>2, <3>2, <3>4, <3>5, <3>6 DEF OrderInv
  <2>5. CASE Head(inbox).type # "message"
    <3>1. incoming' = incoming
      BY <1>4, <2>5 DEF PollFrame, Collected
    <3>2. Read' = Read
      BY <2>1, <3>1 DEF Read
    <3>3. Holds(inbox', Read, sent)
      BY <1>0, <2>1, <2>2, <2>5, Departure
    <3> QED
      BY <2>1, <3>1, <3>2, <3>3 DEF OrderInv
  <2> QED
    BY <2>4, <2>5
<1>5. CASE PollEmpty
  <2>1. UNCHANGED <<seen, sent, inbox, link, incoming>> /\ Polling /\ Polling'
    BY <1>5 DEF PollEmpty, Polling, serverVars
  <2> QED
    BY <2>1 DEF OrderInv, Read
\* The socket is there, so what was collected is handed over.
<1>6. CASE Dispatch
  <2>1. /\ seen' = seen \o incoming /\ UNCHANGED <<inbox, sent, link>>
        /\ Polling /\ ~Polling'
    BY <1>6 DEF Dispatch, HandOver, SocketInv, Polling, serverVars
  <2>2. Counts(incoming, Len(seen)) /\ Counts(seen, 0)
    BY <2>1 DEF OrderInv
  <2>3. Len(seen') = Len(seen) + Len(incoming)
    BY <1>0, <2>1
  <2>4. Read' = Read
    BY <2>1, <2>3 DEF Read
  <2>5. ASSUME NEW i \in DOMAIN seen' PROVE seen'[i] = i
    <3>1. CASE i <= Len(seen)
      BY <1>0, <2>1, <2>2, <3>1 DEF Counts
    <3>2. CASE i > Len(seen)
      <4>1. /\ i - Len(seen) \in DOMAIN incoming /\ seen'[i] = incoming[i - Len(seen)]
            /\ i \in Nat
        BY <1>0, <2>1, <3>2
      <4> QED
        BY <1>0, <2>2, <4>1 DEF Counts
    <3> QED
      BY <1>0, <2>1, <3>1, <3>2
  <2>6. Counts(seen, 0)'
    BY <1>0, <2>1, <2>5 DEF Counts
  <2> QED
    BY <2>1, <2>4, <2>6 DEF OrderInv
<1> QED
  BY <1>1, <1>2, <1>3, <1>4, <1>5, <1>6 DEF LoopStep

\* So do steps of the server, the network and whoever sets `stop`.
LEMMA EnvironmentInOrder ==
    ASSUME Typed, SocketInv, OrderInv, RegisterOk \/ Forward \/ Ping \/ LoseLink \/ SetStop
    PROVE  OrderInv'
<1>0. inbox \in Seq(Frames) /\ sent \in Nat /\ Len(seen) \in Nat /\ Len(incoming) \in Nat
  BY DEF Typed
<1>1. UNCHANGED <<pc, seen, incoming>>
  BY DEF RegisterOk, Forward, Ping, LoseLink, SetStop, loopVars
<1>2. Read' = Read /\ Polling' = Polling /\ Read \in Nat
  BY <1>0, <1>1 DEF Read, Polling
<1>3. CASE RegisterOk \/ Ping
  <2>1. PICK f \in Frames : inbox' = Append(inbox, f) /\ f.type # "message"
    BY <1>3, FrameTypes DEF RegisterOk, Ping, Frame
  <2>2. sent' = sent /\ link
    BY <1>3 DEF RegisterOk, Ping, serverVars
  <2>3. Holds(inbox, Read, sent)
    BY <2>2 DEF OrderInv
  <2>4. Holds(inbox', Read, sent)
    BY <1>0, <2>1, <2>3, Arrival
  <2> QED
    BY <1>1, <1>2, <2>2, <2>4 DEF OrderInv
<1>4. CASE Forward
  <2> DEFINE f == Frame("message", sent + 1)
  <2>1. f \in Frames /\ f.type = "message" /\ f.number = sent + 1
    <3>1. sent + 1 \in Messages
      BY <1>0, <1>4, ConnectorAssumption DEF Forward, Messages
    <3> QED
      BY <3>1, FrameTypes DEF Frame
  <2>2. sent' = sent + 1 /\ inbox' = Append(inbox, f) /\ link
    BY <1>4 DEF Forward
  <2> HIDE DEF f
  <2>3. Holds(inbox, Read, sent)
    BY <2>2 DEF OrderInv
  <2>4. Holds(inbox', Read, sent + 1)
    BY <1>0, <2>1, <2>2, <2>3, Arrival
  <2>5. Read <= sent'
    BY <1>0, <1>2, <2>2 DEF OrderInv
  <2> QED
    BY <1>1, <1>2, <2>2, <2>4, <2>5 DEF OrderInv
<1>5. CASE LoseLink
  <2>1. sent' = sent /\ inbox' \in {inbox, <<>>} /\ ~link'
    BY <1>5 DEF LoseLink
  <2> QED
    BY <1>1, <1>2, <2>1 DEF OrderInv
<1>6. CASE SetStop
  BY <1>1, <1>2, <1>6 DEF SetStop, serverVars, OrderInv
<1> QED
  BY <1>3, <1>4, <1>5, <1>6

\* The messages handed over are the first ones forwarded, in their order and
\* without a gap, for any number of messages and however the polls cut them.
THEOREM HandedOverInOrder == Spec => []MessagesInOrder
<1>1. Init => OrderInv
  BY NothingHeld DEF Init, OrderInv, Read, Polling
<1>2. Typed /\ SocketInv /\ OrderInv /\ [Next]_vars => OrderInv'
  <2> SUFFICES ASSUME Typed, SocketInv, OrderInv, [Next]_vars PROVE OrderInv'
    OBVIOUS
  <2>1. CASE LoopStep
    BY <2>1, LoopInOrder
  <2>2. CASE RegisterOk \/ Forward \/ Ping \/ LoseLink \/ SetStop
    BY <2>2, EnvironmentInOrder
  <2>3. CASE UNCHANGED vars
    BY <2>3 DEF vars, serverVars, OrderInv, Read, Polling
  <2> QED
    BY <2>1, <2>2, <2>3 DEF Next
<1>3. Typed /\ OrderInv => MessagesInOrder
  <2> SUFFICES ASSUME Typed, OrderInv, NEW i \in DOMAIN seen PROVE seen[i] = i
    BY DEF MessagesInOrder
  <2> QED
    BY DEF Typed, OrderInv, Counts
<1> QED
  BY <1>1, <1>2, <1>3, SocketInit, SocketStep, TypeCorrect, PTL DEF Spec

----------------------------------------------------------------------------
(* What the application is told *)

\* Inductive: at the top of the inner loop the application has been told of the
\* registration there is; while a poll runs, of the one there was before it; and
\* until the first connection stands of none.
ToldInv ==
    /\ pc = "inner" => told = registered
    /\ Polling => told = was_registered /\ (was_registered => registered)
    /\ pc = "connect" => ~told
    /\ pc \in {"outer", "ended"} /\ ~stop => ~told

\* The loop reports what it knows at every turn.
LEMMA ReportsStep == ASSUME Typed, SocketInv, ToldInv, [Next]_vars PROVE ToldInv'
<1> USE DEF Typed, Steps, ToldInv, Polling, serverVars
<1>1. CASE OuterTest
  BY <1>1 DEF OuterTest
<1>2. CASE ConnectSucceeds
  BY <1>2 DEF ConnectSucceeds
<1>3. CASE ConnectFails
  BY <1>3 DEF ConnectFails
<1>4. CASE RegisterFails
  BY <1>4 DEF RegisterFails
<1>5. CASE InnerTest
  BY <1>5 DEF InnerTest
<1>6. CASE PollFrame
  BY <1>6 DEF PollFrame
<1>7. CASE PollEmpty
  BY <1>7 DEF PollEmpty
<1>8. CASE Dispatch
  BY <1>8 DEF Dispatch, HandOver, SocketInv
<1>9. CASE RegisterOk \/ Forward \/ Ping \/ LoseLink \/ SetStop
  BY <1>9 DEF RegisterOk, Forward, Ping, LoseLink, SetStop, loopVars
<1>10. CASE UNCHANGED vars
  BY <1>10 DEF vars
<1> QED
  BY <1>1, <1>2, <1>3, <1>4, <1>5, <1>6, <1>7, <1>8, <1>9, <1>10 DEF Next, LoopStep

\* The application knows of its registration: whenever the loop looks for work it
\* has told it of one exactly if the server has confirmed one.
THEOREM RegistrationIsTold == Spec => []ToldInv
<1>1. Init => ToldInv
  BY DEF Init, ToldInv, Polling
<1>2. Typed /\ SocketInv /\ ToldInv /\ [Next]_vars => ToldInv'
  BY ReportsStep
<1> QED
  BY <1>1, <1>2, SocketInit, SocketStep, TypeCorrect, PTL DEF Spec
=============================================================================
