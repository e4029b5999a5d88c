--------------------------- MODULE HeartbeatProofs ---------------------------
(***************************************************************************)
(* The heartbeats, for any intervals, any delay and any bounds of a run: a *)
(* silent peer is reported in time, and while the round trip is shorter    *)
(* than the interval nobody reports a peer that is there.                  *)
(*                                                                         *)
(* The second needs to know where the next frame for an end comes from: a  *)
(* heartbeat is on its way to it, one of its own is on its way to the      *)
(* peer, or it has not sent one yet and will before it is too late.        *)
(***************************************************************************)
EXTENDS Heartbeat, TLAPS

Ages == Nat \cup {Never}

FramesBag(b) == IsABag(b) /\ BagToSet(b) \subseteq Frames

Typed ==
    /\ up \in [Ends -> BOOLEAN]
    /\ elapsed \in [Ends -> Nat] /\ uptime \in [Ends -> Nat]
    /\ last_recv \in [Ends -> Ages] /\ heard \in [Ends -> Ages]
    /\ ticked \subseteq Ends /\ fired \subseteq Ends
    /\ FramesBag(net)
    /\ now \in Nat /\ lost \in Nat /\ data \in Nat

\* Of a connection in which something was heard the two ages are one, and the
\* tick that finds it too old reports it.
SilenceOK(e) ==
    /\ heard[e] # Never => last_recv[e] = heard[e]
    /\ up[e] /\ e \in ticked /\ Interval[e] > 0 /\ heard[e] >= 2 * Interval[e]
         => e \in fired

SilenceInv == \A e \in Ends : SilenceOK(e)

\* Nothing was received before the start, a tick leaves no heartbeat due, and
\* nothing is too old in the first unit.
ClockInv ==
    /\ \A e \in Ends : last_recv[e] <= now
    /\ \A e \in ticked : Interval[e] > 0 => elapsed[e] < Interval[e]
    /\ now = 0 => fired = {}

----------------------------------------------------------------------------
(* The two ends *)

\* Each of the two is the other of the other.
LEMMA TwoEnds ==
    ASSUME NEW e \in Ends
    PROVE  /\ Other(e) \in Ends /\ Other(e) # e
           /\ Other(Other(e)) = e
           /\ \A o \in Ends : o = e \/ o = Other(e)
<1>1. PICK a \in Ends, b \in Ends : a # b /\ Ends = {a, b}
  BY HeartbeatAssumption
<1>2. Other(a) = b
  <2>1. \E o \in Ends : o # a
    BY <1>1
  <2>2. Other(a) \in Ends /\ Other(a) # a
    BY <2>1 DEF Other
  <2> QED
    BY <1>1, <2>2
<1>3. Other(b) = a
  <2>1. \E o \in Ends : o # b
    BY <1>1
  <2>2. Other(b) \in Ends /\ Other(b) # b
    BY <2>1 DEF Other
  <2> QED
    BY <1>1, <2>2
<1> QED
  BY <1>1, <1>2, <1>3

----------------------------------------------------------------------------
(* Bags of frames *)

\* The union of two bags has the elements of both.
LEMMA PlusOK ==
    ASSUME NEW A, NEW B, FramesBag(A), FramesBag(B)
    PROVE  /\ FramesBag(A (+) B)
           /\ BagToSet(A (+) B) = BagToSet(A) \cup BagToSet(B)
<1> DEFINE D == (DOMAIN A) \cup (DOMAIN B)
           C == [x \in D |-> (IF x \in DOMAIN A THEN A[x] ELSE 0)
                             + (IF x \in DOMAIN B THEN B[x] ELSE 0)]
<1>1. A (+) B = C
  BY DEF (+)
<1>2. ASSUME NEW x \in D PROVE C[x] \in {n \in Nat : n > 0}
  <2>1. x \in DOMAIN A => A[x] \in Nat /\ A[x] > 0
    BY DEF FramesBag, IsABag
  <2>2. x \in DOMAIN B => B[x] \in Nat /\ B[x] > 0
    BY DEF FramesBag, IsABag
  <2> QED
    BY <2>1, <2>2
<1>3. DOMAIN C = D /\ C \in [D -> {n \in Nat : n > 0}]
  BY <1>2
<1> HIDE DEF C
<1> QED
  BY <1>1, <1>3 DEF FramesBag, IsABag, BagToSet

\* What is left of a bag are elements of it, all of them but those taken.
LEMMA MinusOK ==
    ASSUME NEW A, NEW B, FramesBag(A), IsABag(B)
    PROVE  /\ FramesBag(A (-) B)
           /\ BagToSet(A (-) B) \subseteq BagToSet(A)
           /\ \A x \in BagToSet(A) : x \notin BagToSet(B) => x \in BagToSet(A (-) B)
<1> DEFINE R == [x \in DOMAIN A |-> IF x \in DOMAIN B THEN A[x] - B[x] ELSE A[x]]
           S == {d \in DOMAIN R : R[d] > 0}
           C == [x \in S |-> R[x]]
<1>1. A (-) B = C
  BY DEF (-)
<1>2. ASSUME NEW x \in DOMAIN A
      PROVE  R[x] \in Int /\ (x \notin DOMAIN B => R[x] = A[x] /\ R[x] > 0)
  <2>1. A[x] \in Nat /\ A[x] > 0
    BY DEF FramesBag, IsABag
  <2>2. x \in DOMAIN B => B[x] \in Nat
    BY DEF IsABag
  <2> QED
    BY <2>1, <2>2
<1>3. DOMAIN R = DOMAIN A
  OBVIOUS
<1> HIDE DEF R
<1>4. S \subseteq DOMAIN A /\ \A x \in DOMAIN A : x \notin DOMAIN B => x \in S
  BY <1>2, <1>3
<1>5. \A x \in S : R[x] \in {n \in Nat : n > 0}
  BY <1>2, <1>3
<1>6. DOMAIN C = S /\ C \in [S -> {n \in Nat : n > 0}]
  BY <1>5
<1> HIDE DEF C, S
<1> QED
  BY <1>1, <1>4, <1>6 DEF FramesBag, IsABag, BagToSet

\* One frame, or none.
LEMMA OneOK ==
    /\ \A f \in Frames : FramesBag(SetToBag({f})) /\ BagToSet(SetToBag({f})) = {f}
    /\ FramesBag(EmptyBag) /\ BagToSet(EmptyBag) = {}
  BY DEF FramesBag, IsABag, SetToBag, BagToSet, EmptyBag

\* A frame that is sent is one that an end awaits, if it is up.
LEMMA SentOK ==
    ASSUME NEW e \in Ends, NEW type \in FrameTypes
    PROVE  /\ FramesBag(Sent(e, type))
           /\ up[Other(e)] =>
                BagToSet(Sent(e, type)) = {[type |-> type, to |-> Other(e), age |-> 0]}
<1> DEFINE f == [type |-> type, to |-> Other(e), age |-> 0]
<1>1. f \in Frames
  BY TwoEnds, HeartbeatAssumption DEF Frames
<1> HIDE DEF f
<1>2. Sent(e, type) = IF up[Other(e)] THEN SetToBag({f}) ELSE EmptyBag
  BY DEF Sent, f
<1>3. FramesBag(Sent(e, type))
      /\ (up[Other(e)] => BagToSet(Sent(e, type)) = {f})
  BY <1>1, <1>2, OneOK
<1> QED
  BY <1>3 DEF f

----------------------------------------------------------------------------
(* Types *)

\* An age stays an age.
LEMMA OlderOK ==
    /\ \A n \in Nat : Older(n) \in Nat /\ Older(n) = n + 1
    /\ \A g \in Ages : Older(g) \in Ages
    /\ Older(Never) = Never
  BY DEF Older, Ages, Never

\* A frame and itself one unit younger.
Aged(g) == [g EXCEPT !.age = @ + 1]

\* Every frame in flight grows one unit older.
LEMMA AgedOK ==
    ASSUME Typed, Advance
    PROVE  /\ FramesBag(net')
           /\ \A g \in BagToSet(net) :
                /\ Aged(g) \in BagToSet(net')
                /\ Aged(g).type = g.type /\ Aged(g).to = g.to
                /\ Aged(g).age = g.age + 1
                /\ g.age \in 0..MAX_DELAY /\ g.age < MAX_DELAY
<1> DEFINE D == {Aged(g) : g \in BagToSet(net)}
           C == [f \in D |-> net[[f EXCEPT !.age = @ - 1]]]
<1>1. net' = C /\ \A g \in BagToSet(net) : g.age < MAX_DELAY
  BY DEF Advance, Aged
<1>2. ASSUME NEW g \in BagToSet(net)
      PROVE  /\ Aged(g) \in Frames /\ [Aged(g) EXCEPT !.age = @ - 1] = g
             /\ Aged(g).type = g.type /\ Aged(g).to = g.to
             /\ Aged(g).age = g.age + 1
             /\ g.age \in 0..MAX_DELAY
             /\ net[g] \in {n \in Nat : n > 0}
  <2>1. g \in Frames /\ net[g] \in {n \in Nat : n > 0}
    BY DEF Typed, FramesBag, IsABag, BagToSet
  <2>2. g.age \in 0..MAX_DELAY /\ g.age < MAX_DELAY /\ g.age \in Nat
    BY <1>1, <2>1, HeartbeatAssumption DEF Frames
  <2>3. Aged(g) = [type |-> g.type, to |-> g.to, age |-> g.age + 1]
    BY <2>1 DEF Aged, Frames
  <2>4. [Aged(g) EXCEPT !.age = @ - 1]
           = [type |-> g.type, to |-> g.to, age |-> (g.age + 1) - 1]
    BY <2>3
  <2>5. g = [type |-> g.type, to |-> g.to, age |-> g.age] /\ (g.age + 1) - 1 = g.age
    BY <2>1, <2>2 DEF Frames
  <2>6. g.age + 1 \in 0..MAX_DELAY
    BY <2>2, HeartbeatAssumption
  <2> QED
    BY <2>1, <2>2, <2>3, <2>4, <2>5, <2>6 DEF Frames
<1>3. \A f \in D : f \in Frames /\ C[f] \in {n \in Nat : n > 0}
  BY <1>2
<1>4. DOMAIN C = D /\ C \in [D -> {n \in Nat : n > 0}]
  BY <1>3
<1> HIDE DEF C
<1>5. FramesBag(C)
  BY <1>3, <1>4 DEF FramesBag, IsABag, BagToSet
<1>6. \A g \in BagToSet(net) : Aged(g) \in BagToSet(C)
  BY <1>4 DEF BagToSet
<1> QED
  BY <1>1, <1>2, <1>5, <1>6

\* Every step keeps the types.
LEMMA TypedStep == Typed /\ [Next]_vars => Typed'
<1> SUFFICES ASSUME Typed, [Next]_vars PROVE Typed'
  OBVIOUS
<1>0. 0 \in Nat /\ 0 \in Ages /\ Never \in Ages
  BY DEF Ages
<1>1. ASSUME NEW e \in Ends, Tick(e) PROVE Typed'
  <2>1. "heartbeat" \in FrameTypes
    BY DEF FrameTypes
  <2>2. FramesBag(net')
    BY <1>1, <2>1, SentOK, PlusOK DEF Tick, Typed
  <2> QED
    BY <1>0, <1>1, <2>2 DEF Tick, Typed, ghosts
<1>2. ASSUME NEW e \in Ends, Receive(e) PROVE Typed'
  <2>1. PICK f \in BagToSet(net) :
          net' = (net (-) SetToBag({f})) (+)
                 IF f.type = "heartbeat" /\ Interval[e] > 0
                 THEN Sent(e, "heartbeat") ELSE EmptyBag
    BY <1>2 DEF Receive
  <2>2. f \in Frames /\ "heartbeat" \in FrameTypes
    BY DEF Typed, FramesBag, FrameTypes
  <2>3. FramesBag(net (-) SetToBag({f}))
    BY <2>2, OneOK, MinusOK DEF Typed, FramesBag
  <2>4. FramesBag(net')
    BY <2>1, <2>2, <2>3, SentOK, OneOK, PlusOK
  <2> QED
    BY <1>0, <1>2, <2>4 DEF Receive, Typed
<1>3. ASSUME NEW e \in Ends, SendData(e) PROVE Typed'
  <2>1. "data" \in FrameTypes
    BY DEF FrameTypes
  <2>2. FramesBag(net')
    BY <1>3, <2>1, SentOK, PlusOK DEF SendData, Typed
  <2> QED
    BY <1>3, <2>2 DEF SendData, Typed, ghosts
<1>4. ASSUME NEW e \in Ends, Close(e) PROVE Typed'
  <2>1. IsABag(InFlightTo(e))
    BY DEF InFlightTo, IsABag, Typed, FramesBag, BagToSet
  <2>2. FramesBag(net')
    BY <1>4, <2>1, MinusOK DEF Close, Typed
  <2> QED
    BY <1>4, <2>2 DEF Close, Typed, ghosts
<1>5. ASSUME NEW e \in Ends, Open(e) PROVE Typed'
  BY <1>0, <1>5 DEF Open, Typed
<1>6. CASE Lose
  <2>1. PICK f \in BagToSet(net) : net' = net (-) SetToBag({f})
    BY <1>6 DEF Lose
  <2>2. FramesBag(net')
    BY <2>1, OneOK, MinusOK DEF Typed, FramesBag
  <2> QED
    BY <1>6, <2>2 DEF Lose, Typed, ghosts
<1>7. CASE Advance
  <2>1. FramesBag(net')
    BY <1>7, AgedOK
  <2>2. elapsed' \in [Ends -> Nat] /\ uptime' \in [Ends -> Nat]
    BY <1>7, OlderOK DEF Advance, AllOlder, Typed
  <2>3. last_recv' \in [Ends -> Ages] /\ heard' \in [Ends -> Ages]
    BY <1>7, OlderOK DEF Advance, AllOlder, Typed
  <2> QED
    BY <1>7, <2>1, <2>2, <2>3 DEF Advance, Typed
<1>8. CASE UNCHANGED vars
  BY <1>8 DEF vars, Typed
<1> QED
  BY <1>1, <1>2, <1>3, <1>4, <1>5, <1>6, <1>7, <1>8 DEF Next

\* Ages are units or Never, and a frame in flight is not older than MAX_DELAY.
THEOREM TypeCorrect == Spec => []Typed
<1>1. Init => Typed
  <2> SUFFICES ASSUME Init PROVE Typed
    OBVIOUS
  <2>1. 0 \in Nat /\ Never \in Ages
    BY DEF Ages
  <2> QED
    BY <2>1, OneOK, HeartbeatAssumption DEF Init, Typed
<1> QED
  BY <1>1, TypedStep, PTL DEF Spec

----------------------------------------------------------------------------
(* A silent peer is reported *)

\* No step lets an age of silence pass unreported.
LEMMA SilenceStep == Typed /\ SilenceInv /\ [Next]_vars => SilenceInv'
<1> SUFFICES ASSUME Typed, SilenceInv, [Next]_vars, NEW o \in Ends
             PROVE  SilenceOK(o)'
  BY DEF SilenceInv
<1>0. /\ SilenceOK(o) /\ up[o] \in BOOLEAN
      /\ heard[o] \in Ages /\ last_recv[o] \in Ages /\ Interval[o] \in Nat
  BY HeartbeatAssumption DEF SilenceInv, Typed
<1>1. ASSUME NEW e \in Ends, Tick(e) PROVE SilenceOK(o)'
  <2>1. /\ heard' = heard /\ last_recv' = last_recv /\ up' = up
        /\ ticked' = ticked \cup {e}
        /\ fired' = IF TimedOut(e) THEN fired \cup {e} ELSE fired
    BY <1>1 DEF Tick, ghosts
  <2>2. Interval[o] > 0 /\ heard[o] >= 2 * Interval[o] /\ o = e => TimedOut(e)
    BY <1>0 DEF SilenceOK, TimedOut, Never, Ages
  <2> QED
    BY <1>0, <2>1, <2>2 DEF SilenceOK
<1>2. ASSUME NEW e \in Ends, Receive(e) PROVE SilenceOK(o)'
  <2>1. /\ heard' = [heard EXCEPT ![e] = 0] /\ last_recv' = [last_recv EXCEPT ![e] = 0]
        /\ up' = up /\ ticked' = ticked /\ fired' = fired
    BY <1>2 DEF Receive
  <2>2. CASE o = e
    <3>1. heard'[o] = 0 /\ last_recv'[o] = 0
      BY <2>1, <2>2 DEF Typed
    <3> QED
      BY <1>0, <3>1 DEF SilenceOK
  <2>3. CASE o # e
    <3>1. heard'[o] = heard[o] /\ last_recv'[o] = last_recv[o]
      BY <2>1, <2>3 DEF Typed
    <3> QED
      BY <1>0, <2>1, <3>1 DEF SilenceOK
  <2> QED
    BY <2>2, <2>3
<1>3. ASSUME NEW e \in Ends, SendData(e) PROVE SilenceOK(o)'
  BY <1>0, <1>3 DEF SendData, SilenceOK, ghosts
<1>4. ASSUME NEW e \in Ends, Close(e) PROVE SilenceOK(o)'
  BY <1>0, <1>4 DEF Close, SilenceOK, Typed, ghosts
<1>5. ASSUME NEW e \in Ends, Open(e) PROVE SilenceOK(o)'
  <2>1. /\ heard' = [heard EXCEPT ![e] = Never] /\ up' = [up EXCEPT ![e] = TRUE]
        /\ last_recv' = last_recv /\ ticked' = ticked /\ fired' = fired
    BY <1>5 DEF Open
  <2>2. CASE o = e
    <3>1. heard'[o] = Never
      BY <2>1, <2>2 DEF Typed
    <3> QED
      BY <1>0, <3>1 DEF SilenceOK, Never
  <2>3. CASE o # e
    <3>1. heard'[o] = heard[o] /\ up'[o] = up[o]
      BY <2>1, <2>3 DEF Typed
    <3> QED
      BY <1>0, <2>1, <3>1 DEF SilenceOK
  <2> QED
    BY <2>2, <2>3
<1>6. CASE Lose
  BY <1>0, <1>6 DEF Lose, SilenceOK, ghosts
<1>7. CASE Advance
  <2>1. heard'[o] = Older(heard[o]) /\ last_recv'[o] = Older(last_recv[o])
        /\ ticked' = {}
    BY <1>7 DEF Advance, AllOlder
  <2>2. heard'[o] # Never => heard[o] # Never
    BY <2>1, OlderOK
  <2> QED
    BY <1>0, <2>1, <2>2 DEF SilenceOK
<1>8. CASE UNCHANGED vars
  BY <1>0, <1>8 DEF vars, SilenceOK
<1> QED
  BY <1>1, <1>2, <1>3, <1>4, <1>5, <1>6, <1>7, <1>8 DEF Next

\* An end is overdue: its peer was heard, and not for twice the interval.
Overdue(e) == up[e] /\ Interval[e] > 0 /\ heard[e] > 2 * Interval[e]

\* No step makes an end overdue that has not fired.
LEMMA NoticedStep ==
    Typed /\ SilenceInv /\ SilenceNoticed /\ [Next]_vars => SilenceNoticed'
<1> SUFFICES ASSUME Typed, SilenceInv, SilenceNoticed, [Next]_vars, NEW o \in Ends,
                    Overdue(o)'
             PROVE  o \in fired'
  BY DEF SilenceNoticed, Overdue
<1>0. /\ SilenceOK(o) /\ up[o] \in BOOLEAN
      /\ heard[o] \in Ages /\ last_recv[o] \in Ages /\ Interval[o] \in Nat
      /\ Overdue(o) => o \in fired
  BY HeartbeatAssumption DEF SilenceInv, Typed, SilenceNoticed, Overdue
<1>1. ASSUME NEW e \in Ends, Tick(e) PROVE o \in fired'
  BY <1>0, <1>1 DEF Tick, Overdue, ghosts
<1>2. ASSUME NEW e \in Ends, Receive(e) PROVE o \in fired'
  <2>1. heard' = [heard EXCEPT ![e] = 0] /\ up' = up /\ fired' = fired
    BY <1>2 DEF Receive
  <2>2. CASE o = e
    <3>1. heard'[o] = 0
      BY <2>1, <2>2 DEF Typed
    <3> QED
      BY <1>0, <3>1 DEF Overdue
  <2>3. CASE o # e
    <3>1. heard'[o] = heard[o]
      BY <2>1, <2>3 DEF Typed
    <3> QED
      BY <1>0, <2>1, <3>1 DEF Overdue
  <2> QED
    BY <2>2, <2>3
<1>3. ASSUME NEW e \in Ends, SendData(e) PROVE o \in fired'
  BY <1>0, <1>3 DEF SendData, Overdue, ghosts
<1>4. ASSUME NEW e \in Ends, Close(e) PROVE o \in fired'
  BY <1>0, <1>4 DEF Close, Overdue, Typed, ghosts
<1>5. ASSUME NEW e \in Ends, Open(e) PROVE o \in fired'
  <2>1. /\ heard' = [heard EXCEPT ![e] = Never] /\ up' = [up EXCEPT ![e] = TRUE]
        /\ fired' = fired
    BY <1>5 DEF Open
  <2>2. CASE o = e
    <3>1. heard'[o] = Never
      BY <2>1, <2>2 DEF Typed
    <3> QED
      BY <1>0, <3>1 DEF Overdue, Never
  <2>3. CASE o # e
    <3>1. heard'[o] = heard[o] /\ up'[o] = up[o]
      BY <2>1, <2>3 DEF Typed
    <3> QED
      BY <1>0, <2>1, <3>1 DEF Overdue
  <2> QED
    BY <2>2, <2>3
<1>6. CASE Lose
  BY <1>0, <1>6 DEF Lose, Overdue, ghosts
<1>7. CASE Advance
  <2>1. /\ heard'[o] = Older(heard[o]) /\ up' = up /\ fired' = fired
        /\ (up[o] => o \in ticked)
    BY <1>7 DEF Advance, AllOlder
  <2>2. up[o] /\ Interval[o] > 0 /\ Older(heard[o]) > 2 * Interval[o]
    BY <2>1 DEF Overdue
  <2>3. heard[o] >= 2 * Interval[o]
    BY <1>0, <2>2 DEF Older, Ages, Never
  <2> QED
    BY <1>0, <2>1, <2>2, <2>3 DEF SilenceOK
<1>8. CASE UNCHANGED vars
  BY <1>0, <1>8 DEF vars, Overdue
<1> QED
  BY <1>1, <1>2, <1>3, <1>4, <1>5, <1>6, <1>7, <1>8 DEF Next

\* An end whose peer fell silent after it was heard reports it in time
\* (client.rs, the timeout of the tick loop), whatever was lost, and after any
\* number of closes and connects.
THEOREM SilenceIsNoticed == Spec => []SilenceNoticed
<1>1. Init => SilenceInv /\ SilenceNoticed
  <2> SUFFICES ASSUME Init, NEW e \in Ends
               PROVE  SilenceOK(e) /\ ~Overdue(e)
    BY DEF SilenceInv, SilenceNoticed, Overdue
  <2>1. heard[e] = Never /\ e \notin ticked /\ Interval[e] \in Nat
    BY HeartbeatAssumption DEF Init
  <2> QED
    BY <2>1 DEF SilenceOK, Overdue, Never
<1> QED
  BY <1>1, TypeCorrect, SilenceStep, NoticedStep, PTL DEF Spec

----------------------------------------------------------------------------
(* A peer that is there is not reported *)

\* A heartbeat and its answer take less than an interval, and the peer's
\* heartbeats are on: an end that has them off does not answer.
RoundTripShort ==
    \A e \in Ends : Interval[e] > 0 =>
        2 * MAX_DELAY < Interval[e] /\ Interval[Other(e)] > 0

\* Both ends have been up since the start and no frame was lost.
Calm == lost = 0 /\ \A e \in Ends : up[e] /\ uptime[e] = now

\* A heartbeat in flight that brings e a frame before its timeout: one for e, or
\* one for the peer, which answers it.
Answering(e, f) ==
    /\ f.type = "heartbeat"
    /\ IF f.to = e
       THEN last_recv[e] + MAX_DELAY - f.age < 2 * Interval[e]
       ELSE last_recv[e] + 2 * MAX_DELAY - f.age < 2 * Interval[e]

\* e has sent no heartbeat yet, and its first is not too late.
Fresh(e) == last_recv[e] <= elapsed[e] /\ last_recv[e] <= Interval[e]

Reassured(e) == Fresh(e) \/ \E f \in BagToSet(net) : Answering(e, f)

CalmInv ==
    Calm => fired = {} /\ \A e \in Ends : Interval[e] > 0 => Reassured(e)

\* The clocks of an end and the bound, as numbers.
LEMMA Numbers ==
    ASSUME Typed, NEW e \in Ends
    PROVE  /\ last_recv[e] \in Int /\ last_recv[e] >= Never
           /\ elapsed[e] \in Nat /\ uptime[e] \in Nat
           /\ Interval[e] \in Nat /\ MAX_DELAY \in Nat /\ now \in Nat
           /\ \A f \in BagToSet(net) : f \in Frames /\ f.age \in Nat /\ f.age <= MAX_DELAY
<1>1. last_recv[e] \in Ages /\ elapsed[e] \in Nat /\ uptime[e] \in Nat /\ now \in Nat
  BY DEF Typed
<1>2. Interval[e] \in Nat /\ MAX_DELAY \in Nat
  BY HeartbeatAssumption
<1>3. ASSUME NEW f \in BagToSet(net)
      PROVE  f \in Frames /\ f.age \in Nat /\ f.age <= MAX_DELAY
  <2>1. f \in Frames
    BY DEF Typed, FramesBag
  <2>2. f.age \in 0..MAX_DELAY
    BY <2>1 DEF Frames
  <2> QED
    BY <1>2, <2>1, <2>2
<1> QED
  BY <1>1, <1>2, <1>3 DEF Ages, Never

\* A reassured end has not timed out.
LEMMA ReassuredInTime ==
    ASSUME Typed, RoundTripShort, NEW e \in Ends, Interval[e] > 0 => Reassured(e)
    PROVE  ~TimedOut(e)
<1> SUFFICES ASSUME Interval[e] > 0
             PROVE  last_recv[e] < 2 * Interval[e]
  BY Numbers DEF TimedOut
<1>1. CASE Fresh(e)
  BY <1>1, Numbers DEF Fresh
<1>2. ASSUME NEW f \in BagToSet(net), Answering(e, f)
      PROVE  last_recv[e] < 2 * Interval[e]
  BY <1>2, Numbers DEF Answering
<1> QED
  BY <1>1, <1>2 DEF Reassured

\* Whatever frames are added, an end whose clocks stand still stays reassured.
LEMMA StillReassured ==
    ASSUME NEW e \in Ends, Reassured(e), last_recv'[e] = last_recv[e],
           elapsed'[e] = elapsed[e], BagToSet(net) \subseteq BagToSet(net')
    PROVE  Reassured(e)'
  BY DEF Reassured, Fresh, Answering

\* No step sets a clock ahead of the time, or leaves a heartbeat due.
LEMMA ClockStep == Typed /\ ClockInv /\ [Next]_vars => ClockInv'
<1> SUFFICES ASSUME Typed, ClockInv, [Next]_vars PROVE ClockInv'
  OBVIOUS
<1>0. \A e \in Ends : /\ last_recv[e] \in Ages /\ elapsed[e] \in Nat
                      /\ Interval[e] \in Nat
  BY HeartbeatAssumption DEF Typed
<1>00. now \in Nat /\ ticked \subseteq Ends
  BY DEF Typed
<1>1. ASSUME NEW e \in Ends, Tick(e) PROVE ClockInv'
  <2>1. /\ last_recv' = last_recv /\ now' = now /\ ticked' = ticked \cup {e}
        /\ elapsed' = IF HeartbeatDue(e) THEN [elapsed EXCEPT ![e] = 0] ELSE elapsed
        /\ fired' = IF TimedOut(e) THEN fired \cup {e} ELSE fired
    BY <1>1 DEF Tick, ghosts
  <2>2. \A o \in ticked' : Interval[o] > 0 => elapsed'[o] < Interval[o]
    <3> SUFFICES ASSUME NEW o \in ticked', Interval[o] > 0
                 PROVE  elapsed'[o] < Interval[o]
      OBVIOUS
    <3>1. CASE HeartbeatDue(e)
      <4>1. elapsed'[o] = IF o = e THEN 0 ELSE elapsed[o]
        BY <2>1, <3>1, <1>00 DEF Typed
      <4> QED
        BY <1>0, <1>00, <2>1, <4>1 DEF ClockInv
    <3>2. CASE ~HeartbeatDue(e)
      BY <1>0, <1>00, <2>1, <3>2 DEF ClockInv, HeartbeatDue
    <3> QED
      BY <3>1, <3>2
  <2>3. now = 0 => ~TimedOut(e)
    BY <1>0 DEF ClockInv, TimedOut, Ages, Never
  <2> QED
    BY <2>1, <2>2, <2>3 DEF ClockInv
<1>2. ASSUME NEW e \in Ends, Receive(e) PROVE ClockInv'
  <2>1. /\ last_recv' = [last_recv EXCEPT ![e] = 0]
        /\ UNCHANGED <<elapsed, ticked, fired, now>>
    BY <1>2 DEF Receive
  <2>2. \A o \in Ends : last_recv'[o] <= now
    BY <1>00, <2>1 DEF ClockInv, Typed
  <2> QED
    BY <2>1, <2>2 DEF ClockInv
<1>3. ASSUME NEW e \in Ends, SendData(e) PROVE ClockInv'
  BY <1>3 DEF SendData, ClockInv
<1>4. ASSUME NEW e \in Ends, Close(e) PROVE ClockInv'
  BY <1>4 DEF Close, ClockInv
<1>5. ASSUME NEW e \in Ends, Open(e) PROVE ClockInv'
  <2>1. /\ elapsed' = [elapsed EXCEPT ![e] = 0]
        /\ UNCHANGED <<last_recv, ticked, fired, now>>
    BY <1>5 DEF Open
  <2>2. \A o \in ticked : Interval[o] > 0 => elapsed'[o] < Interval[o]
    BY <1>0, <1>00, <2>1 DEF ClockInv, Typed
  <2> QED
    BY <2>1, <2>2 DEF ClockInv
<1>6. CASE Lose
  BY <1>6 DEF Lose, ClockInv
<1>7. CASE Advance
  <2>1. /\ now' = now + 1 /\ ticked' = {}
        /\ \A o \in Ends : last_recv'[o] = Older(last_recv[o])
    BY <1>7 DEF Advance, AllOlder
  <2>2. ASSUME NEW o \in Ends PROVE last_recv'[o] <= now + 1
    <3>1. last_recv[o] <= now /\ last_recv[o] \in Ages
      BY <1>0 DEF ClockInv
    <3>2. Older(last_recv[o]) <= now + 1
      BY <3>1, <1>00 DEF Older, Ages, Never
    <3> QED
      BY <2>1, <3>2
  <2> QED
    BY <1>00, <2>1, <2>2 DEF ClockInv
<1>8. CASE UNCHANGED vars
  BY <1>8 DEF vars, ClockInv
<1> QED
  BY <1>1, <1>2, <1>3, <1>4, <1>5, <1>6, <1>7, <1>8 DEF Next

\* A tick sends the heartbeat that is due, and reports nobody.
LEMMA CalmTick ==
    ASSUME RoundTripShort, Typed, CalmInv, Calm, NEW e \in Ends, Tick(e)
    PROVE  fired' = {} /\ \A o \in Ends : Interval[o] > 0 => Reassured(o)'
<1>1. /\ last_recv' = last_recv /\ ticked' = ticked \cup {e}
      /\ IF HeartbeatDue(e)
         THEN /\ elapsed' = [elapsed EXCEPT ![e] = 0]
              /\ net' = net (+) Sent(e, "heartbeat")
         ELSE UNCHANGED <<elapsed, net>>
      /\ fired' = IF TimedOut(e) THEN fired \cup {e} ELSE fired
  BY DEF Tick, ghosts
<1>2. fired = {} /\ \A o \in Ends : Interval[o] > 0 => Reassured(o)
  BY DEF CalmInv
<1>3. fired' = {}
  BY <1>1, <1>2, ReassuredInTime
<1>4. CASE ~HeartbeatDue(e)
  BY <1>1, <1>2, <1>3, <1>4, StillReassured
<1>5. CASE HeartbeatDue(e)
  <2> DEFINE f == [type |-> "heartbeat", to |-> Other(e), age |-> 0]
  <2>1. "heartbeat" \in FrameTypes /\ up[Other(e)]
    BY TwoEnds DEF FrameTypes, Calm
  <2>2. BagToSet(net') = BagToSet(net) \cup {f}
    BY <1>1, <1>5, <2>1, SentOK, PlusOK DEF Typed
  <2>3. ASSUME NEW o \in Ends, o # e, Interval[o] > 0 PROVE Reassured(o)'
    <3>1. elapsed'[o] = elapsed[o]
      BY <1>1, <1>5, <2>3 DEF Typed
    <3> QED
      BY <1>1, <1>2, <2>2, <2>3, <3>1, StillReassured
  <2>4. Interval[e] > 0 => Reassured(e)'
    <3> SUFFICES ASSUME Interval[e] > 0 PROVE Reassured(e)'
      OBVIOUS
    <3>1. CASE \E g \in BagToSet(net) : Answering(e, g)
      BY <1>1, <2>2, <3>1 DEF Reassured, Answering
    <3>2. CASE Fresh(e)
      <4>1. f.type = "heartbeat" /\ f.to # e /\ f.age = 0
        BY TwoEnds
      <4> HIDE DEF f
      <4>2. last_recv[e] + 2 * MAX_DELAY - f.age < 2 * Interval[e]
        BY <3>2, <4>1, Numbers DEF Fresh, RoundTripShort
      <4>3. Answering(e, f)'
        BY <1>1, <4>1, <4>2 DEF Answering
      <4> QED
        BY <2>2, <4>3 DEF Reassured
    <3> QED
      BY <1>2, <3>1, <3>2 DEF Reassured
  <2> QED
    BY <1>3, <2>3, <2>4
<1> QED
  BY <1>4, <1>5

\* A frame that is received reassures its receiver; a heartbeat is answered, and
\* the answer does for the sender what the heartbeat did.
LEMMA CalmReceive ==
    ASSUME RoundTripShort, Typed, ClockInv, CalmInv, Calm, NEW e \in Ends, Receive(e)
    PROVE  fired' = {} /\ \A o \in Ends : Interval[o] > 0 => Reassured(o)'
<1>1. PICK f \in BagToSet(net) :
        /\ f.to = e
        /\ last_recv' = [last_recv EXCEPT ![e] = 0]
        /\ net' = (net (-) SetToBag({f})) (+)
                  IF f.type = "heartbeat" /\ Interval[e] > 0
                  THEN Sent(e, "heartbeat") ELSE EmptyBag
        /\ UNCHANGED <<elapsed, fired>>
  BY DEF Receive
<1>2. fired' = {} /\ \A o \in Ends : Interval[o] > 0 => Reassured(o)
  BY <1>1 DEF CalmInv
<1> DEFINE left == net (-) SetToBag({f})
           a == [type |-> "heartbeat", to |-> Other(e), age |-> 0]
<1>3. f \in Frames /\ "heartbeat" \in FrameTypes /\ up[Other(e)]
  BY TwoEnds DEF Typed, FramesBag, FrameTypes, Calm
<1>4. /\ FramesBag(left)
      /\ \A g \in BagToSet(net) : g # f => g \in BagToSet(left)
  BY <1>3, OneOK, MinusOK DEF Typed, FramesBag
<1> HIDE DEF left
<1>5. /\ BagToSet(left) \subseteq BagToSet(net')
      /\ f.type = "heartbeat" /\ Interval[e] > 0 => a \in BagToSet(net')
  BY <1>1, <1>3, <1>4, SentOK, OneOK, PlusOK DEF left
<1>6. a.type = "heartbeat" /\ a.to = Other(e) /\ a.age = 0
  OBVIOUS
<1> HIDE DEF a
<1>7. Interval[e] > 0 => Reassured(e)'
  <2>1. last_recv'[e] = 0 /\ elapsed'[e] \in Nat /\ Interval[e] \in Nat
    BY <1>1, HeartbeatAssumption DEF Typed
  <2>2. Interval[e] > 0 => Fresh(e)'
    BY <2>1 DEF Fresh
  <2> QED
    BY <2>2 DEF Reassured
<1>8. ASSUME NEW o \in Ends, o # e, Interval[o] > 0 PROVE Reassured(o)'
  <2>1. /\ o = Other(e) /\ e = Other(o) /\ Interval[e] > 0
        /\ last_recv'[o] = last_recv[o] /\ elapsed'[o] = elapsed[o]
    BY <1>1, <1>8, TwoEnds DEF Typed, RoundTripShort
  <2>2. CASE Fresh(o)
    BY <2>1, <2>2 DEF Reassured, Fresh
  <2>3. ASSUME NEW g \in BagToSet(net), Answering(o, g), g # f
        PROVE  Reassured(o)'
    <3>1. g \in BagToSet(net') /\ Answering(o, g)'
      BY <1>4, <1>5, <2>1, <2>3 DEF Answering
    <3> QED
      BY <3>1 DEF Reassured
  <2>4. CASE Answering(o, f)
    <3>1. last_recv[o] + 2 * MAX_DELAY - f.age < 2 * Interval[o]
          /\ f.type = "heartbeat"
      BY <1>1, <1>8, <2>4 DEF Answering
    <3>2. last_recv[o] + MAX_DELAY - 0 < 2 * Interval[o]
      BY <3>1, Numbers
    <3>3. Answering(o, a)' /\ a \in BagToSet(net')
      BY <1>5, <1>6, <2>1, <3>1, <3>2 DEF Answering
    <3> QED
      BY <3>3 DEF Reassured
  <2> QED
    BY <1>2, <1>8, <2>2, <2>3, <2>4 DEF Reassured
<1> QED
  BY <1>2, <1>7, <1>8

\* A unit of time makes an end and the frame it waits for older alike; an end
\* that waits for its own first heartbeat had none due.
LEMMA CalmAdvance ==
    ASSUME RoundTripShort, Typed, ClockInv, CalmInv, Calm, Advance
    PROVE  fired' = {} /\ \A o \in Ends : Interval[o] > 0 => Reassured(o)'
<1>1. fired' = {} /\ \A o \in Ends : Interval[o] > 0 => Reassured(o)
  BY DEF CalmInv, Advance
<1>2. ASSUME NEW o \in Ends, Interval[o] > 0 PROVE Reassured(o)'
  <2>1. /\ last_recv'[o] = Older(last_recv[o]) /\ elapsed'[o] = Older(elapsed[o])
        /\ o \in ticked
    BY DEF Advance, AllOlder, Calm
  <2>2. /\ elapsed[o] \in Nat /\ last_recv[o] \in Ages /\ Interval[o] \in Nat
        /\ MAX_DELAY \in Nat
    BY HeartbeatAssumption DEF Typed
  <2>3. /\ last_recv'[o] \in Int /\ last_recv'[o] <= last_recv[o] + 1
        /\ last_recv[o] \in Int
        /\ elapsed'[o] = elapsed[o] + 1
    BY <2>1, <2>2 DEF Older, Ages, Never
  <2>4. elapsed[o] < Interval[o]
    BY <1>2, <2>1 DEF ClockInv
  <2>5. CASE Fresh(o)
    <3>1. Fresh(o)'
      BY <2>2, <2>3, <2>4, <2>5 DEF Fresh
    <3> QED
      BY <3>1 DEF Reassured
  <2>6. ASSUME NEW f \in BagToSet(net), Answering(o, f) PROVE Reassured(o)'
    <3>1. /\ Aged(f) \in BagToSet(net') /\ Aged(f).type = f.type
          /\ Aged(f).to = f.to /\ Aged(f).age = f.age + 1 /\ f.age \in Nat
      BY AgedOK, Numbers
    <3>2. Answering(o, Aged(f))'
      BY <2>2, <2>3, <2>6, <3>1 DEF Answering
    <3> QED
      BY <3>1, <3>2 DEF Reassured
  <2> QED
    BY <1>1, <1>2, <2>5, <2>6 DEF Reassured
<1> QED
  BY <1>1, <1>2

\* A connection made in the first unit: nothing is old yet.
LEMMA CalmOpen ==
    ASSUME Typed, ClockInv, NEW e \in Ends, Open(e), Calm'
    PROVE  fired' = {} /\ \A o \in Ends : Interval[o] > 0 => Reassured(o)'
<1>1. /\ elapsed' = [elapsed EXCEPT ![e] = 0] /\ uptime' = [uptime EXCEPT ![e] = 0]
      /\ UNCHANGED <<last_recv, fired, now>>
  BY DEF Open
<1>2. now = 0
  BY <1>1 DEF Calm, Typed
<1>3. fired' = {}
  BY <1>1, <1>2 DEF ClockInv
<1>4. ASSUME NEW o \in Ends, Interval[o] > 0 PROVE Fresh(o)'
  <2>1. elapsed'[o] \in Nat
    BY <1>1 DEF Typed
  <2>2. last_recv'[o] <= 0 /\ last_recv'[o] \in Int /\ Interval[o] \in Nat
    BY <1>1, <1>2, Numbers DEF ClockInv
  <2> QED
    BY <1>4, <2>1, <2>2 DEF Fresh
<1> QED
  BY <1>3, <1>4 DEF Reassured

\* Every step that leads to a calm state leaves both ends reassured.
LEMMA CalmStep ==
    ASSUME RoundTripShort, Typed, ClockInv, CalmInv, [Next]_vars
    PROVE  CalmInv'
<1> DEFINE Fine == fired' = {} /\ \A o \in Ends : Interval[o] > 0 => Reassured(o)'
<1> SUFFICES ASSUME Calm' PROVE Fine
  BY DEF CalmInv
<1>1. ASSUME NEW e \in Ends, Tick(e) PROVE Fine
  <2>1. Calm
    BY <1>1 DEF Tick, ghosts, Calm
  <2> QED
    BY <1>1, <2>1, CalmTick
<1>2. ASSUME NEW e \in Ends, Receive(e) PROVE Fine
  <2>1. Calm
    BY <1>2 DEF Receive, Calm
  <2> QED
    BY <1>2, <2>1, CalmReceive
<1>3. ASSUME NEW e \in Ends, SendData(e) PROVE Fine
  <2>1. Calm /\ fired' = fired /\ last_recv' = last_recv /\ elapsed' = elapsed
    BY <1>3 DEF SendData, ghosts, Calm
  <2>2. "data" \in FrameTypes
    BY DEF FrameTypes
  <2>3. BagToSet(net) \subseteq BagToSet(net')
    BY <1>3, <2>2, SentOK, PlusOK DEF SendData, Typed
  <2> QED
    BY <2>1, <2>3, StillReassured DEF CalmInv
<1>4. ASSUME NEW e \in Ends, Close(e) PROVE Fine
  <2>1. ~up'[e]
    BY <1>4 DEF Close, Typed
  <2> QED
    BY <2>1 DEF Calm
<1>5. ASSUME NEW e \in Ends, Open(e) PROVE Fine
  BY <1>5, CalmOpen
<1>6. CASE Lose
  <2>1. lost' # 0
    BY <1>6 DEF Lose, Typed
  <2> QED
    BY <2>1 DEF Calm
<1>7. CASE Advance
  <2>1. /\ lost' = lost /\ up' = up /\ now' = now + 1 /\ now \in Nat
        /\ \A o \in Ends : uptime'[o] = uptime[o] + 1 /\ uptime[o] \in Nat
    BY <1>7, OlderOK DEF Advance, AllOlder, Typed
  <2>2. Calm
    BY <2>1 DEF Calm
  <2> QED
    BY <1>7, <2>2, CalmAdvance
<1>8. CASE UNCHANGED vars
  <2>1. Calm /\ fired' = fired /\ last_recv' = last_recv /\ elapsed' = elapsed
        /\ net' = net
    BY <1>8 DEF vars, Calm
  <2> QED
    BY <2>1, StillReassured DEF CalmInv
<1> QED
  BY <1>1, <1>2, <1>3, <1>4, <1>5, <1>6, <1>7, <1>8 DEF Next

\* While both ends live and stay connected and no frame is lost, no end reports
\* Disconnected (client.rs, the timeout of the tick loop against the answers of
\* the receive loop), if a round trip takes less than the interval of either end
\* and the heartbeats of neither are off while the other's are on.
THEOREM NoAlarmIsFalse ==
    ASSUME RoundTripShort
    PROVE  Spec => []NoFalseAlarm
<1>1. Init => ClockInv /\ CalmInv
  <2> SUFFICES ASSUME Init PROVE ClockInv /\ CalmInv
    OBVIOUS
  <2>1. /\ fired = {} /\ ticked = {} /\ now = 0
        /\ \A e \in Ends : last_recv[e] = Never /\ elapsed[e] \in Nat /\ Interval[e] \in Nat
    BY HeartbeatAssumption DEF Init
  <2> QED
    BY <2>1 DEF ClockInv, CalmInv, Reassured, Fresh, Never
<1>2. Typed /\ ClockInv /\ CalmInv /\ [Next]_vars => CalmInv'
  BY CalmStep
<1>3. CalmInv => NoFalseAlarm
  BY DEF CalmInv, Calm, NoFalseAlarm
<1> QED
  BY <1>1, <1>2, <1>3, TypeCorrect, ClockStep, PTL DEF Spec
=============================================================================
