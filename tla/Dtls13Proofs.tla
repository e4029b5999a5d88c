---------------------------- MODULE Dtls13Proofs ----------------------------
(***************************************************************************)
(* What a DTLS 1.3 handshake guarantees for every value of the constants:  *)
(* two endpoints that are connected have the same secrets, drawn from the  *)
(* same handshake. The proof follows each record from the endpoint that    *)
(* made it, over the network and the queue, to the one that takes it.      *)
(***************************************************************************)
EXTENDS Dtls13, WellFoundedInduction, TLAPS


----------------------------------------------------------------------------
(* Sequences, as sequences of the elements they have.                      *)

IsSeq(s) == s \in Seq(ToSet(s))

LEMMA SeqIs ==
    ASSUME NEW S, NEW s \in Seq(S)
    PROVE  /\ IsSeq(s) /\ ToSet(s) \subseteq S
           /\ Len(s) \in Nat /\ DOMAIN s = 1..Len(s)
           /\ \A i \in DOMAIN s : s[i] \in ToSet(s)
  BY DEF IsSeq, ToSet

LEMMA SeqHas ==
    ASSUME NEW s, IsSeq(s)
    PROVE  /\ Len(s) \in Nat /\ DOMAIN s = 1..Len(s)
           /\ \A i \in DOMAIN s : s[i] \in ToSet(s)
           /\ \A x \in ToSet(s) : \E i \in DOMAIN s : s[i] = x
  BY DEF IsSeq, ToSet

LEMMA SeqInto ==
    ASSUME NEW s, IsSeq(s), NEW S, ToSet(s) \subseteq S
    PROVE  s \in Seq(S)
  BY DEF IsSeq, ToSet

LEMMA EmptyIs == IsSeq(<<>>) /\ ToSet(<<>>) = {}
  BY DEF IsSeq, ToSet

LEMMA OneIs ==
    ASSUME NEW x
    PROVE  IsSeq(<<x>>) /\ ToSet(<<x>>) = {x}
  BY DEF IsSeq, ToSet

LEMMA FunctionIs ==
    ASSUME NEW n \in Nat, NEW s, s = [i \in 1..n |-> s[i]]
    PROVE  IsSeq(s) /\ ToSet(s) = {s[i] : i \in 1..n} /\ Len(s) = n
  BY DEF IsSeq, ToSet

LEMMA AppendIs ==
    ASSUME NEW s, IsSeq(s), NEW x
    PROVE  IsSeq(Append(s, x)) /\ ToSet(Append(s, x)) = ToSet(s) \cup {x}
<1> DEFINE S == ToSet(s) \cup {x}
<1>1. s \in Seq(S) /\ x \in S
  BY SeqInto
<1>2. Append(s, x) \in Seq(S)
  BY <1>1
<1>3. \A i \in 1..Len(s) : Append(s, x)[i] = s[i]
  BY <1>1
<1>4. Append(s, x)[Len(s) + 1] = x /\ DOMAIN Append(s, x) = 1..(Len(s) + 1) /\ Len(s) \in Nat
  BY <1>1
<1>5. DOMAIN s = 1..Len(s)
  BY <1>1
<1>6. ToSet(s) \subseteq ToSet(Append(s, x)) /\ x \in ToSet(Append(s, x))
  BY <1>3, <1>4, <1>5 DEF ToSet
<1> QED
  BY <1>2, <1>6, SeqIs

LEMMA ConcatIs ==
    ASSUME NEW s, IsSeq(s), NEW t, IsSeq(t)
    PROVE  IsSeq(s \o t) /\ ToSet(s \o t) = ToSet(s) \cup ToSet(t)
<1> DEFINE S == ToSet(s) \cup ToSet(t)
<1>1. s \in Seq(S) /\ t \in Seq(S)
  BY SeqInto
<1>2. s \o t \in Seq(S)
  BY <1>1
<1>3. DOMAIN s = 1..Len(s) /\ DOMAIN t = 1..Len(t) /\ Len(s) \in Nat /\ Len(t) \in Nat
  BY <1>1
<1>4. DOMAIN (s \o t) = 1..(Len(s) + Len(t))
  BY <1>1
<1>5. \A i \in 1..Len(s) : i \in DOMAIN (s \o t) /\ (s \o t)[i] = s[i]
  BY <1>1, <1>3, <1>4
<1>6. \A i \in 1..Len(t) : i + Len(s) \in DOMAIN (s \o t) /\ (s \o t)[i + Len(s)] = t[i]
  BY <1>1, <1>3, <1>4
<1>7. ToSet(s) \subseteq ToSet(s \o t) /\ ToSet(t) \subseteq ToSet(s \o t)
  BY <1>3, <1>5, <1>6 DEF ToSet
<1> QED
  BY <1>2, <1>7, SeqIs

LEMMA SubSeqIs ==
    ASSUME NEW s, IsSeq(s), NEW m, NEW n, m \in 1..(Len(s) + 1), n \in 0..Len(s)
    PROVE  IsSeq(SubSeq(s, m, n)) /\ ToSet(SubSeq(s, m, n)) \subseteq ToSet(s)
<1> DEFINE S == ToSet(s)
<1>1. s \in Seq(S) /\ Len(s) \in Nat
  BY SeqInto
<1>2. SubSeq(s, m, n) \in Seq(S)
  BY <1>1
<1> QED
  BY <1>2, SeqIs

LEMMA InsertIs ==
    ASSUME NEW s, IsSeq(s), NEW at \in 1..(Len(s) + 1), NEW x
    PROVE  IsSeq(InsertAt(s, at, x)) /\ ToSet(InsertAt(s, at, x)) \subseteq ToSet(s) \cup {x}
<1>0. Len(s) \in Nat
  BY SeqHas
<1>1. IsSeq(SubSeq(s, 1, at - 1)) /\ ToSet(SubSeq(s, 1, at - 1)) \subseteq ToSet(s)
  <2>1. 1 \in 1..(Len(s) + 1) /\ at - 1 \in 0..Len(s)
    BY <1>0
  <2> QED
    BY <2>1, SubSeqIs
<1>2. IsSeq(SubSeq(s, at, Len(s))) /\ ToSet(SubSeq(s, at, Len(s))) \subseteq ToSet(s)
  <2>1. Len(s) \in 0..Len(s)
    BY <1>0
  <2> QED
    BY <2>1, SubSeqIs
<1>3. IsSeq(SubSeq(s, 1, at - 1) \o <<x>>)
      /\ ToSet(SubSeq(s, 1, at - 1) \o <<x>>) \subseteq ToSet(s) \cup {x}
  BY <1>1, ConcatIs, OneIs
<1> QED
  BY <1>2, <1>3, ConcatIs DEF InsertAt

LEMMA LastIs ==
    ASSUME NEW s, IsSeq(s), s # <<>>
    PROVE  /\ Last(s) \in ToSet(s)
           /\ IsSeq(Front(s)) /\ ToSet(Front(s)) \subseteq ToSet(s)
<1> DEFINE S == ToSet(s)
<1>1. s \in Seq(S) /\ Len(s) \in Nat /\ Len(s) # 0
  BY SeqInto
<1>2. Len(s) \in DOMAIN s
  BY <1>1
<1>3. 1 \in 1..(Len(s) + 1) /\ Len(s) - 1 \in 0..Len(s)
  BY <1>1
<1> QED
  BY <1>2, <1>3, SeqHas, SubSeqIs DEF Last, Front

LEMMA UpdateIs ==
    ASSUME NEW s, IsSeq(s), NEW i, NEW x
    PROVE  IsSeq([s EXCEPT ![i] = x]) /\ ToSet([s EXCEPT ![i] = x]) \subseteq ToSet(s) \cup {x}
<1> DEFINE S == ToSet(s) \cup {x}
           t == [s EXCEPT ![i] = x]
<1>1. Len(s) \in Nat /\ DOMAIN s = 1..Len(s) /\ \A j \in DOMAIN s : s[j] \in ToSet(s)
  BY SeqHas
<1>2. t = [j \in 1..Len(s) |-> t[j]] /\ \A j \in 1..Len(s) : t[j] \in S
  BY <1>1
<1> HIDE DEF t
<1>3. IsSeq(t) /\ ToSet(t) = {t[j] : j \in 1..Len(s)}
  BY <1>1, <1>2, FunctionIs
<1>4. ToSet(t) \subseteq S
  BY <1>2, <1>3
<1> QED
  BY <1>3, <1>4 DEF t

----------------------------------------------------------------------------
(* Induction, over a set of numbers.                                       *)

LEMMA Least ==
    ASSUME NEW T, T \subseteq Nat, T # {}
    PROVE  \E m \in T : \A j \in T : m <= j
<1>1. PICK m \in T : \A j \in T : ~(<<j, m>> \in OpToRel(<, Nat))
  BY WFMin, NatLessThanWellFounded
<1>2. ASSUME NEW j \in T, j < m PROVE FALSE
  <2>1. <<j, m>> \in OpToRel(<, Nat)
    BY <1>2 DEF OpToRel
  <2> QED
    BY <1>1, <2>1
<1>3. \A j \in T : m <= j
  BY <1>2
<1> QED
  BY <1>3

LEMMA Induct ==
    ASSUME NEW T, 0 \in T, \A k \in Nat : k \in T => k + 1 \in T
    PROVE  Nat \subseteq T
<1> SUFFICES ASSUME Nat \ T # {} PROVE FALSE
  OBVIOUS
<1>1. PICK k \in Nat \ T : \A j \in Nat \ T : k <= j
  BY Least
<1>2. k # 0 /\ k - 1 \in Nat /\ k - 1 < k /\ (k - 1) + 1 = k
  OBVIOUS
<1>3. k - 1 \in T
  BY <1>1, <1>2
<1>4. (k - 1) + 1 \in T
  BY <1>2, <1>3
<1> QED
  BY <1>1, <1>2, <1>4

LEMMA InductTo ==
    ASSUME NEW n \in Nat, NEW T, 0 \in T, \A k \in 0..(n - 1) : k \in T => k + 1 \in T
    PROVE  n \in T
<1> DEFINE U == {k \in Nat : k <= n => k \in T}
<1>1. 0 \in U
  OBVIOUS
<1>2. ASSUME NEW k \in Nat, k \in U PROVE k + 1 \in U
  <2> SUFFICES ASSUME k + 1 <= n PROVE k + 1 \in T
    OBVIOUS
  <2>1. k \in T /\ k \in 0..(n - 1)
    BY <1>2
  <2> QED
    BY <2>1
<1>3. n \in U
  <2> HIDE DEF U
  <2> QED
    BY <1>1, <1>2, Induct
<1> QED
  BY <1>3

----------------------------------------------------------------------------
(* Flattened and filtered sequences.                                       *)

\* The parts of ss up to the k-th, joined.
Joins(ss, n, f) == f = [i \in 1..n |-> IF i = 1 THEN ss[i] ELSE f[i - 1] \o ss[i]]

LEMMA JoinsExists ==
    ASSUME NEW ss, NEW n \in Nat
    PROVE  \E f : Joins(ss, n, f)
<1> DEFINE T == {k \in Nat : \E f : Joins(ss, k, f)}
<1>1. 0 \in T
  <2>1. 1..0 = {}
    OBVIOUS
  <2>2. Joins(ss, 0, [i \in 1..0 |-> ss])
    BY <2>1 DEF Joins
  <2> QED
    BY <2>2
<1>2. ASSUME NEW k \in Nat, k \in T PROVE k + 1 \in T
  <2>1. PICK f : Joins(ss, k, f)
    BY <1>2
  <2> DEFINE g == [i \in 1..(k + 1) |-> IF i \in 1..k THEN f[i]
                                      ELSE IF i = 1 THEN ss[i] ELSE f[i - 1] \o ss[i]]
  <2>2. ASSUME NEW i \in 1..(k + 1)
        PROVE  g[i] = IF i = 1 THEN ss[i] ELSE g[i - 1] \o ss[i]
    <3>1. i # 1 => i - 1 \in 1..k /\ g[i - 1] = f[i - 1]
      OBVIOUS
    <3>2. CASE i \in 1..k
      <4>1. f[i] = IF i = 1 THEN ss[i] ELSE f[i - 1] \o ss[i]
        BY <2>1, <3>2 DEF Joins
      <4> QED
        BY <3>1, <3>2, <4>1
    <3>3. CASE i \notin 1..k
      BY <3>1, <3>3
    <3> QED
      BY <3>2, <3>3
  <2>3. g = [i \in 1..(k + 1) |-> g[i]]
    OBVIOUS
  <2>4. Joins(ss, k + 1, g)
    <3> HIDE DEF g
    <3> QED
      BY <2>2, <2>3 DEF Joins
  <2> QED
    BY <2>4
<1>3. n \in T
  <2> HIDE DEF T
  <2> QED
    BY <1>1, <1>2, Induct
<1> QED
  BY <1>3

LEMMA FlattenIs ==
    ASSUME NEW ss, IsSeq(ss), NEW S, \A s \in ToSet(ss) : IsSeq(s) /\ ToSet(s) \subseteq S
    PROVE  IsSeq(FlattenSeq(ss)) /\ ToSet(FlattenSeq(ss)) \subseteq S
<1> DEFINE n == Len(ss)
<1>1. n \in Nat /\ DOMAIN ss = 1..n
  BY SeqHas
<1>2. CASE n = 0
  <2>1. FlattenSeq(ss) = ss
    BY <1>2 DEF FlattenSeq
  <2>2. ToSet(ss) = {}
    BY <1>1, <1>2 DEF ToSet
  <2> QED
    BY <2>1, <2>2
<1>3. CASE n # 0
  <2> DEFINE f == CHOOSE h : Joins(ss, n, h)
  <2>1. Joins(ss, n, f)
    <3>1. \E h : Joins(ss, n, h)
      BY <1>1, JoinsExists
    <3> QED
      BY <3>1
  <2>2. FlattenSeq(ss) = f[n]
    BY <1>3 DEF FlattenSeq, Joins
  <2> DEFINE T == {k \in 0..n : k # 0 => IsSeq(f[k]) /\ ToSet(f[k]) \subseteq S}
  <2>3. 0 \in T
    BY <1>1
  <2>4. ASSUME NEW k \in 0..(n - 1), k \in T PROVE k + 1 \in T
    <3>1. k + 1 \in 1..n /\ (k + 1) - 1 = k /\ (k + 1 = 1 <=> k = 0)
      BY <1>1
    <3>2. f[k + 1] = IF k = 0 THEN ss[k + 1] ELSE f[k] \o ss[k + 1]
      <4> HIDE DEF f, n
      <4> QED
        BY <2>1, <3>1 DEF Joins
    <3>3. IsSeq(ss[k + 1]) /\ ToSet(ss[k + 1]) \subseteq S
      <4>1. ss[k + 1] \in ToSet(ss)
        BY <1>1, <3>1, SeqHas
      <4> QED
        BY <4>1
    <3>4. IsSeq(f[k + 1]) /\ ToSet(f[k + 1]) \subseteq S
      <4>1. CASE k = 0
        BY <4>1, <3>2, <3>3
      <4>2. CASE k # 0
        <5>1. IsSeq(f[k]) /\ ToSet(f[k]) \subseteq S
          BY <2>4, <4>2
        <5> HIDE DEF f
        <5> QED
          BY <4>2, <3>2, <3>3, <5>1, ConcatIs
      <4> QED
        BY <4>1, <4>2
    <3> QED
      BY <3>1, <3>4
  <2>5. n \in T
    <3> HIDE DEF T
    <3> QED
      BY <1>1, <2>3, <2>4, InductTo
  <2> QED
    BY <1>3, <2>2, <2>5
<1> QED
  BY <1>2, <1>3

LEMMA FilterIs ==
    ASSUME NEW n \in Nat, NEW ss, ss = [i \in 1..n |-> ss[i]], NEW S,
           \A i \in 1..n : ss[i] = <<>> \/ \E x \in S : ss[i] = <<x>>
    PROVE  IsSeq(FlattenSeq(ss)) /\ ToSet(FlattenSeq(ss)) \subseteq S
<1>1. IsSeq(ss) /\ ToSet(ss) = {ss[i] : i \in 1..n}
  BY FunctionIs
<1>2. ASSUME NEW i \in 1..n PROVE IsSeq(ss[i]) /\ ToSet(ss[i]) \subseteq S
  <2>1. CASE ss[i] = <<>>
    <3> DEFINE s == ss[i]
    <3>1. s = <<>>
      BY <2>1
    <3> HIDE DEF s
    <3>2. IsSeq(s) /\ ToSet(s) \subseteq S
      BY ONLY <3>1, EmptyIs
    <3> QED
      BY <3>2 DEF s
  <2>2. CASE \E x \in S : ss[i] = <<x>>
    <3> DEFINE s == ss[i]
    <3>1. PICK x \in S : s = <<x>>
      BY <2>2
    <3> HIDE DEF s
    <3>2. IsSeq(s) /\ ToSet(s) \subseteq S
      BY <3>1, OneIs
    <3> QED
      BY <3>2 DEF s
  <2> QED
    BY <2>1, <2>2
<1> QED
  BY <1>1, <1>2, FlattenIs

----------------------------------------------------------------------------
(* The folds of the engine, as one: the step of the fold "kind".           *)

KeyOf(handshake, incoming) ==
    IF handshake THEN HandshakeKey(incoming) ELSE RecordKey(incoming)

\* The next part of a message, and an entry of the flight that is repeated.
CutOne(type, mseq, len, val, acc) ==
    LET space == IF Room(acc.e) > 0 THEN Room(acc.e) ELSE MTU
        n == IF len - acc.off < space THEN len - acc.off ELSE space
        rec == Rec("handshake", Epoch(type), type, mseq, acc.off, n, len, val)
    IN  IF acc.off = len THEN acc
        ELSE [off |-> acc.off + n, e |-> CreateRecord(acc.e, rec, TRUE)]

SendAgain(saved, acc, i) ==
    IF saved[i].acked THEN acc
    ELSE CreateRecord([acc EXCEPT !.saved[i].num = SendSeq(acc, saved[i].rec.epoch)],
                      saved[i].rec, FALSE)

FoldStep(kind, c, acc, x) ==
    CASE kind = "find" ->
            LET half == acc.size \div 2
                mid == acc.base + half
            IN  IF acc.size <= 1 THEN acc
                ELSE [base |-> IF \/ Lex(KeyOf(c.handshake, c.rx[mid]), c.key)
                                  \/ KeyOf(c.handshake, c.rx[mid]) = c.key
                               THEN mid ELSE acc.base,
                      size |-> acc.size - half]
      [] kind = "fragment" -> CutOne(c.type, c.mseq, c.len, c.val, acc)
      [] kind = "resend" -> SendAgain(c, acc, x)
      [] kind = "send" -> CreateRecord(acc, AppData(c, x), FALSE)
      [] kind = "parse" -> ParseRecord(acc, x)
      [] kind = "classify" -> ClassifyRecord(acc, x)
      [] kind = "early" -> ParsePacket(acc, <<x.rec>>)

Folds(kind, c, base, s, h) ==
    h = [t \in SUBSET (DOMAIN s) |->
            IF t = {} THEN base ELSE FoldStep(kind, c, h[t \ {Max(t)}], s[Max(t)])]

LEMMA MaxIs ==
    ASSUME NEW k \in Nat, NEW t \in SUBSET (1..(k + 1)), k + 1 \in t
    PROVE  Max(t) = k + 1
<1>1. \A y \in t : k + 1 >= y
  OBVIOUS
<1>2. \A x \in t : (\A y \in t : x >= y) => x = k + 1
  OBVIOUS
<1> QED
  BY <1>1, <1>2 DEF Max

LEMMA MaxIn ==
    ASSUME NEW k \in Nat, NEW t \in SUBSET (1..k), t # {}
    PROVE  Max(t) \in t
<1> DEFINE T == {j \in Nat : \A u \in SUBSET (1..j) : u # {} => Max(u) \in u}
<1>1. 0 \in T
  <2>1. 1..0 = {}
    OBVIOUS
  <2> QED
    BY <2>1
<1>2. ASSUME NEW j \in Nat, j \in T PROVE j + 1 \in T
  <2> SUFFICES ASSUME NEW u \in SUBSET (1..(j + 1)), u # {} PROVE Max(u) \in u
    OBVIOUS
  <2>1. CASE j + 1 \in u
    BY <2>1, MaxIs
  <2>2. CASE j + 1 \notin u
    <3>1. u \in SUBSET (1..j)
      BY <2>2
    <3> QED
      BY <3>1, <1>2
  <2> QED
    BY <2>1, <2>2
<1>3. Nat \subseteq T
  <2> HIDE DEF T
  <2> QED
    BY <1>1, <1>2, Induct
<1> QED
  BY <1>3

LEMMA FoldExists ==
    ASSUME NEW kind, NEW c, NEW base, NEW n \in Nat, NEW s, DOMAIN s = 1..n
    PROVE  \E h : Folds(kind, c, base, s, h)
<1> DEFINE Value(h, t) ==
               IF t = {} THEN base ELSE FoldStep(kind, c, h[t \ {Max(t)}], s[Max(t)])
           It(k, h) == h = [t \in SUBSET (1..k) |-> Value(h, t)]
           T == {k \in Nat : \E h : It(k, h)}
<1>1. 0 \in T
  <2>1. SUBSET (1..0) = {{}}
    OBVIOUS
  <2>2. It(0, [t \in SUBSET (1..0) |-> base])
    BY <2>1
  <2> QED
    BY <2>2
<1>2. ASSUME NEW k \in Nat, k \in T PROVE k + 1 \in T
  <2>1. PICK h : It(k, h)
    BY <1>2
  <2> DEFINE g == [t \in SUBSET (1..(k + 1)) |->
                      IF k + 1 \in t THEN FoldStep(kind, c, h[t \ {k + 1}], s[k + 1]) ELSE h[t]]
  <2>2. \A t \in SUBSET (1..(k + 1)) : k + 1 \notin t => t \in SUBSET (1..k)
    OBVIOUS
  <2>3. ASSUME NEW t \in SUBSET (1..(k + 1)) PROVE g[t] = Value(g, t)
    <3>1. CASE k + 1 \in t
      <4>1. Max(t) = k + 1
        BY <3>1, MaxIs
      <4>2. t \ {k + 1} \in SUBSET (1..(k + 1)) /\ k + 1 \notin t \ {k + 1}
        OBVIOUS
      <4>3. g[t \ {k + 1}] = h[t \ {k + 1}]
        BY <4>2
      <4> QED
        BY <3>1, <4>1, <4>3
    <3>2. CASE t = {}
      BY <3>2, <2>1, <2>2
    <3>3. CASE k + 1 \notin t /\ t # {}
      <4>1. t \in SUBSET (1..k)
        BY <3>3, <2>2
      <4>2. Max(t) \in t
        BY <3>3, <4>1, MaxIn
      <4>3. t \ {Max(t)} \in SUBSET (1..(k + 1)) /\ k + 1 \notin t \ {Max(t)}
        BY <3>3
      <4>4. g[t \ {Max(t)}] = h[t \ {Max(t)}]
        BY <4>3
      <4>5. h[t] = Value(h, t)
        BY <2>1, <4>1
      <4> QED
        BY <3>3, <4>4, <4>5
    <3> QED
      BY <3>1, <3>2, <3>3
  <2>4. It(k + 1, g)
    <3>1. g = [t \in SUBSET (1..(k + 1)) |-> g[t]]
      OBVIOUS
    <3> HIDE DEF Value, g
    <3> QED
      BY <2>3, <3>1
  <2> HIDE DEF It
  <2> QED
    BY <2>4
<1>3. n \in T
  <2> HIDE DEF T
  <2> QED
    BY <1>1, <1>2, Induct
<1> QED
  BY <1>3 DEF Folds

\* The values of a fold, one after the other.
Run(kind, c, base, s, n, g) ==
    g[0] = base /\ \A k \in 0..(n - 1) : g[k + 1] = FoldStep(kind, c, g[k], s[k + 1])

LEMMA FoldRuns ==
    ASSUME NEW kind, NEW c, NEW base, NEW n \in Nat, NEW s, DOMAIN s = 1..n,
           NEW h, Folds(kind, c, base, s, h)
    PROVE  \E g : Run(kind, c, base, s, n, g) /\ g[n] = h[DOMAIN s]
<1> DEFINE g == [k \in 0..n |-> h[1..k]]
<1>1. g[0] = base
  <2>1. 1..0 = {} /\ {} \in SUBSET (DOMAIN s)
    OBVIOUS
  <2>2. h[{}] = base
    BY <2>1 DEF Folds
  <2> QED
    BY <2>1, <2>2
<1>2. ASSUME NEW k \in 0..(n - 1) PROVE g[k + 1] = FoldStep(kind, c, g[k], s[k + 1])
  <2>1. (1..(k + 1)) \in SUBSET (DOMAIN s) /\ k + 1 \in 1..(k + 1) /\ k \in Nat
        /\ (1..(k + 1)) \ {k + 1} = 1..k
    OBVIOUS
  <2>2. Max(1..(k + 1)) = k + 1
    BY <2>1, MaxIs
  <2>3. h[1..(k + 1)] = FoldStep(kind, c, h[1..k], s[k + 1])
    BY <2>1, <2>2 DEF Folds
  <2> QED
    BY <2>3
<1>3. g[n] = h[DOMAIN s]
  OBVIOUS
<1> HIDE DEF g
<1> QED
  BY <1>1, <1>2, <1>3 DEF Run

\* The folds of the engine by name, and that each of them is one of these runs.
Fragmented(type, mseq, len, val, e, s) ==
    FoldLeft(LAMBDA acc, i : CutOne(type, mseq, len, val, acc), e, s)
Resent(c, e, s) ==
    FoldLeft(LAMBDA acc, i : SendAgain(c, acc, i), e, s)
SentAll(c, e, s) ==
    FoldLeft(LAMBDA acc, d : CreateRecord(acc, AppData(c, d), FALSE), e, s)
Parsed(e, s) ==
    FoldLeft(ParseRecord, e, s)
Classified(e, s) ==
    FoldLeft(ClassifyRecord, e, s)
ParsedEarly(e, s) ==
    FoldLeft(LAMBDA acc, x : ParsePacket(acc, <<x.rec>>), e, s)

LEMMA FragmentFold ==
    ASSUME NEW c, NEW e, NEW k \in Nat, NEW s, DOMAIN s = 1..k
    PROVE  \E g : /\ Run("fragment", c, e, s, k, g)
                 /\ g[k] = Fragmented(c.type, c.mseq, c.len, c.val, e, s)
<1> DEFINE It(h) == h = [t \in SUBSET (DOMAIN s) |->
                        IF t = {} THEN e ELSE CutOne(c.type, c.mseq, c.len, c.val, h[t \ {Max(t)}])]
           it == CHOOSE h : It(h)
<1>1. \A h : Folds("fragment", c, e, s, h) <=> It(h)
  BY DEF Folds, FoldStep
<1>2. It(it)
  <2>1. \E h : It(h)
    BY <1>1, FoldExists
  <2> QED
    BY <2>1
<1>3. Fragmented(c.type, c.mseq, c.len, c.val, e, s) = it[DOMAIN s]
  BY DEF Fragmented, FoldLeft, MapThenFoldSet
<1> HIDE DEF it, It
<1> QED
  BY <1>1, <1>2, <1>3, FoldRuns

LEMMA ResendFold ==
    ASSUME NEW c, NEW e, NEW k \in Nat, NEW s, DOMAIN s = 1..k
    PROVE  \E g : Run("resend", c, e, s, k, g) /\ g[k] = Resent(c, e, s)
<1> DEFINE It(h) == h = [t \in SUBSET (DOMAIN s) |->
                        IF t = {} THEN e ELSE SendAgain(c, h[t \ {Max(t)}], s[Max(t)])]
           it == CHOOSE h : It(h)
<1>1. \A h : Folds("resend", c, e, s, h) <=> It(h)
  BY DEF Folds, FoldStep
<1>2. It(it)
  <2>1. \E h : It(h)
    BY <1>1, FoldExists
  <2> QED
    BY <2>1
<1>3. Resent(c, e, s) = it[DOMAIN s]
  BY DEF Resent, FoldLeft, MapThenFoldSet
<1> HIDE DEF it, It
<1> QED
  BY <1>1, <1>2, <1>3, FoldRuns

LEMMA SendFold ==
    ASSUME NEW c, NEW e, NEW k \in Nat, NEW s, DOMAIN s = 1..k
    PROVE  \E g : Run("send", c, e, s, k, g) /\ g[k] = SentAll(c, e, s)
<1> DEFINE It(h) == h = [t \in SUBSET (DOMAIN s) |->
                        IF t = {} THEN e ELSE CreateRecord(h[t \ {Max(t)}], AppData(c, s[Max(t)]), FALSE)]
           it == CHOOSE h : It(h)
<1>1. \A h : Folds("send", c, e, s, h) <=> It(h)
  BY DEF Folds, FoldStep
<1>2. It(it)
  <2>1. \E h : It(h)
    BY <1>1, FoldExists
  <2> QED
    BY <2>1
<1>3. SentAll(c, e, s) = it[DOMAIN s]
  BY DEF SentAll, FoldLeft, MapThenFoldSet
<1> HIDE DEF it, It
<1> QED
  BY <1>1, <1>2, <1>3, FoldRuns

LEMMA ParseFold ==
    ASSUME NEW e, NEW k \in Nat, NEW s, DOMAIN s = 1..k
    PROVE  \E g : Run("parse", <<>>, e, s, k, g) /\ g[k] = Parsed(e, s)
<1> DEFINE It(h) == h = [t \in SUBSET (DOMAIN s) |->
                        IF t = {} THEN e ELSE ParseRecord(h[t \ {Max(t)}], s[Max(t)])]
           it == CHOOSE h : It(h)
<1>1. \A h : Folds("parse", <<>>, e, s, h) <=> It(h)
  BY DEF Folds, FoldStep
<1>2. It(it)
  <2>1. \E h : It(h)
    BY <1>1, FoldExists
  <2> QED
    BY <2>1
<1>3. Parsed(e, s) = it[DOMAIN s]
  BY DEF Parsed, FoldLeft, MapThenFoldSet
<1> HIDE DEF it, It
<1> QED
  BY <1>1, <1>2, <1>3, FoldRuns

LEMMA ClassifyFold ==
    ASSUME NEW e, NEW k \in Nat, NEW s, DOMAIN s = 1..k
    PROVE  \E g : Run("classify", <<>>, e, s, k, g) /\ g[k] = Classified(e, s)
<1> DEFINE It(h) == h = [t \in SUBSET (DOMAIN s) |->
                        IF t = {} THEN e ELSE ClassifyRecord(h[t \ {Max(t)}], s[Max(t)])]
           it == CHOOSE h : It(h)
<1>1. \A h : Folds("classify", <<>>, e, s, h) <=> It(h)
  BY DEF Folds, FoldStep
<1>2. It(it)
  <2>1. \E h : It(h)
    BY <1>1, FoldExists
  <2> QED
    BY <2>1
<1>3. Classified(e, s) = it[DOMAIN s]
  BY DEF Classified, FoldLeft, MapThenFoldSet
<1> HIDE DEF it, It
<1> QED
  BY <1>1, <1>2, <1>3, FoldRuns

LEMMA EarlyFold ==
    ASSUME NEW e, NEW k \in Nat, NEW s, DOMAIN s = 1..k
    PROVE  \E g : Run("early", <<>>, e, s, k, g) /\ g[k] = ParsedEarly(e, s)
<1> DEFINE It(h) == h = [t \in SUBSET (DOMAIN s) |->
                        IF t = {} THEN e ELSE ParsePacket(h[t \ {Max(t)}], <<s[Max(t)].rec>>)]
           it == CHOOSE h : It(h)
<1>1. \A h : Folds("early", <<>>, e, s, h) <=> It(h)
  BY DEF Folds, FoldStep
<1>2. It(it)
  <2>1. \E h : It(h)
    BY <1>1, FoldExists
  <2> QED
    BY <2>1
<1>3. ParsedEarly(e, s) = it[DOMAIN s]
  BY DEF ParsedEarly, FoldLeft, MapThenFoldSet
<1> HIDE DEF it, It
<1> QED
  BY <1>1, <1>2, <1>3, FoldRuns

\* The search stays inside the queue.
LEMMA FindStays ==
    ASSUME NEW c, NEW n \in Nat \ {0}, NEW s, DOMAIN s = 1..n,
           NEW g, Run("find", c, [base |-> 1, size |-> n], s, n, g)
    PROVE  g[n].base \in 1..n
<1> DEFINE T == {k \in 0..n : /\ g[k].base \in 1..n /\ g[k].size \in 1..n
                              /\ g[k].base + g[k].size <= n + 1}
<1>1. 0 \in T
  BY DEF Run
<1>2. ASSUME NEW k \in 0..(n - 1), k \in T PROVE k + 1 \in T
  <2>1. k + 1 \in 0..n
    OBVIOUS
  <2> DEFINE a == g[k]
             half == a.size \div 2
             b == g[k + 1]
  <2>2. \/ b = a
        \/ /\ a.size > 1
           /\ b = [base |-> a.base + half, size |-> a.size - half]
              \/ b = [base |-> a.base, size |-> a.size - half]
    <3>1. b = FoldStep("find", c, a, s[k + 1])
      BY DEF Run
    <3>2. a.size \in Int
      BY <1>2
    <3> QED
      BY <3>1, <3>2 DEF FoldStep
  <2>3. /\ a.base \in 1..n /\ a.size \in 1..n /\ a.base + a.size <= n + 1
    BY <1>2
  <2>4. a.size > 1 => half \in 1..(a.size - 1)
    BY <2>3
  <2>5. b.base \in 1..n /\ b.size \in 1..n /\ b.base + b.size <= n + 1
    <3> HIDE DEF a, b, half
    <3>1. CASE b = a
      BY <2>3, <3>1
    <3>2. CASE a.size > 1 /\ b = [base |-> a.base + half, size |-> a.size - half]
      BY <2>3, <2>4, <3>2
    <3>3. CASE a.size > 1 /\ b = [base |-> a.base, size |-> a.size - half]
      BY <2>3, <2>4, <3>3
    <3> QED
      BY <2>2, <3>1, <3>2, <3>3
  <2> QED
    BY <2>1, <2>5
<1>3. n \in T
  <2> HIDE DEF T
  <2> QED
    BY <1>1, <1>2, InductTo
<1> QED
  BY <1>3

\* A datagram is put between those of the queue, or found there.
InsertHandshake(e, incoming) == InsertByKey(e, incoming, HandshakeKey)
InsertRecord(e, incoming) == InsertByKey(e, incoming, RecordKey)

LEMMA InsertHandshakeIs ==
    ASSUME NEW e, IsSeq(e.rx), NEW incoming
    PROVE  LET rx == InsertHandshake(e, incoming).rx
           IN  IsSeq(rx) /\ ToSet(rx) \subseteq ToSet(e.rx) \cup {incoming}
<1> DEFINE n == Len(e.rx)
           key == HandshakeKey(incoming)
           s == [i \in 1..n |-> i]
           c == [handshake |-> TRUE, rx |-> e.rx, key |-> key]
           base == [base |-> 1, size |-> n]
           Next1(acc) == LET half == acc.size \div 2
                             mid == acc.base + half
                         IN  IF acc.size <= 1 THEN acc
                             ELSE [base |-> IF Lex(HandshakeKey(e.rx[mid]), key) \/ HandshakeKey(e.rx[mid]) = key
                                            THEN mid ELSE acc.base,
                                   size |-> acc.size - half]
           It(h) == h = [t \in SUBSET (DOMAIN s) |->
                            IF t = {} THEN base ELSE Next1(h[t \ {Max(t)}])]
           it == CHOOSE h : It(h)
           end == it[DOMAIN s].base
<1>1. n \in Nat /\ DOMAIN s = 1..n
  BY SeqHas
<1>2. \A h : Folds("find", c, base, s, h) <=> It(h)
  BY DEF Folds, FoldStep, KeyOf
<1>3. It(it)
  <2>1. \E h : It(h)
    <3> HIDE DEF s, c, base, It, n
    <3> QED
      BY <1>1, <1>2, FoldExists
  <2> QED
    BY <2>1
<1>4. \/ InsertHandshake(e, incoming).rx = e.rx
      \/ n = 0 /\ InsertHandshake(e, incoming).rx = InsertAt(e.rx, 1, incoming)
      \/ n # 0 /\ InsertHandshake(e, incoming).rx = InsertAt(e.rx, end, incoming)
      \/ n # 0 /\ InsertHandshake(e, incoming).rx = InsertAt(e.rx, end + 1, incoming)
  BY DEF InsertHandshake, InsertByKey, BinarySearch, FoldLeft, MapThenFoldSet
<1>5. n # 0 => end \in 1..n
  <2> SUFFICES ASSUME n # 0 PROVE end \in 1..n
    OBVIOUS
  <2>1. Folds("find", c, base, s, it)
    BY <1>2, <1>3
  <2>2. PICK g : Run("find", c, base, s, n, g) /\ g[n] = it[DOMAIN s]
    <3> HIDE DEF s, c, base, it, n
    <3> QED
      BY <1>1, <2>1, FoldRuns
  <2> HIDE DEF s, c, n, it
  <2> QED
    BY <1>1, <2>2, FindStays
<1> HIDE DEF end, n, s, c
<1>6. IsSeq(e.rx) /\ ToSet(e.rx) \subseteq ToSet(e.rx) \cup {incoming}
  OBVIOUS
<1>7. n # 0 => end \in 1..(n + 1) /\ end + 1 \in 1..(n + 1)
  BY <1>1, <1>5
<1>8. n = 0 => 1 \in 1..(n + 1)
  BY <1>1
<1> QED
  BY <1>4, <1>6, <1>7, <1>8, InsertIs DEF n

LEMMA InsertRecordIs ==
    ASSUME NEW e, IsSeq(e.rx), NEW incoming
    PROVE  LET rx == InsertRecord(e, incoming).rx
           IN  IsSeq(rx) /\ ToSet(rx) \subseteq ToSet(e.rx) \cup {incoming}
<1> DEFINE n == Len(e.rx)
           key == RecordKey(incoming)
           s == [i \in 1..n |-> i]
           c == [handshake |-> FALSE, rx |-> e.rx, key |-> key]
           base == [base |-> 1, size |-> n]
           Next1(acc) == LET half == acc.size \div 2
                             mid == acc.base + half
                         IN  IF acc.size <= 1 THEN acc
                             ELSE [base |-> IF Lex(RecordKey(e.rx[mid]), key) \/ RecordKey(e.rx[mid]) = key
                                            THEN mid ELSE acc.base,
                                   size |-> acc.size - half]
           It(h) == h = [t \in SUBSET (DOMAIN s) |->
                            IF t = {} THEN base ELSE Next1(h[t \ {Max(t)}])]
           it == CHOOSE h : It(h)
           end == it[DOMAIN s].base
<1>1. n \in Nat /\ DOMAIN s = 1..n
  BY SeqHas
<1>2. \A h : Folds("find", c, base, s, h) <=> It(h)
  BY DEF Folds, FoldStep, KeyOf
<1>3. It(it)
  <2>1. \E h : It(h)
    <3> HIDE DEF s, c, base, It, n
    <3> QED
      BY <1>1, <1>2, FoldExists
  <2> QED
    BY <2>1
<1>4. \/ InsertRecord(e, incoming).rx = e.rx
      \/ n = 0 /\ InsertRecord(e, incoming).rx = InsertAt(e.rx, 1, incoming)
      \/ n # 0 /\ InsertRecord(e, incoming).rx = InsertAt(e.rx, end, incoming)
      \/ n # 0 /\ InsertRecord(e, incoming).rx = InsertAt(e.rx, end + 1, incoming)
  BY DEF InsertRecord, InsertByKey, BinarySearch, FoldLeft, MapThenFoldSet
<1>5. n # 0 => end \in 1..n
  <2> SUFFICES ASSUME n # 0 PROVE end \in 1..n
    OBVIOUS
  <2>1. Folds("find", c, base, s, it)
    BY <1>2, <1>3
  <2>2. PICK g : Run("find", c, base, s, n, g) /\ g[n] = it[DOMAIN s]
    <3> HIDE DEF s, c, base, it, n
    <3> QED
      BY <1>1, <2>1, FoldRuns
  <2> HIDE DEF s, c, n, it
  <2> QED
    BY <1>1, <2>2, FindStays
<1> HIDE DEF end, n, s, c
<1>6. IsSeq(e.rx) /\ ToSet(e.rx) \subseteq ToSet(e.rx) \cup {incoming}
  OBVIOUS
<1>7. n # 0 => end \in 1..(n + 1) /\ end + 1 \in 1..(n + 1)
  BY <1>1, <1>5
<1>8. n = 0 => 1 \in 1..(n + 1)
  BY <1>1
<1> QED
  BY <1>4, <1>6, <1>7, <1>8, InsertIs DEF n

----------------------------------------------------------------------------
(* Records, and an endpoint whose own records and queued records are of    *)
(* the kinds in "w": "own" and "peer" are the payloads of the two          *)
(* applications; "said" and "heard" are what its own messages and those of *)
(* its peer claim, as functions from types of messages.                    *)

\* The suite, whether there is a certificate, or the history with the Finished
\* itself. The first word of a ServerHello tells it from a HelloRetryRequest.
Claim(type, mseq, val) ==
    CASE type = "ServerHello" -> IF val.args[1] = "retry" THEN <<>> ELSE <<val.args[2]>>
      [] type = "Certificate" -> val.args[1] = "empty"
      [] type = "Finished" -> Append(val.hash, <<type, mseq>>)

RecordOK(r, data, said) ==
    /\ {"ct", "type", "mseq", "val"} \subseteq DOMAIN r
    /\ r.ct = "data" => r.val.args[1] \in data
    /\ r.ct = "handshake" /\ r.type \in DOMAIN said =>
          Claim(r.type, r.mseq, r.val) \in said[r.type]

RecordsOK(s, data, said) == IsSeq(s) /\ \A r \in ToSet(s) : RecordOK(r, data, said)

DatagramsOK(ds, data, said) == IsSeq(ds) /\ \A d \in ToSet(ds) : RecordsOK(d, data, said)

\* The flight that is repeated: records with their last numbers.
EntryOK(x, data, said) ==
    {"rec", "num", "acked"} \subseteq DOMAIN x /\ RecordOK(x.rec, data, said)

FlightOK(s, data, said) == IsSeq(s) /\ \A x \in ToSet(s) : EntryOK(x, data, said)

ItemOK(x, data, said) ==
    {"rec", "clear", "done"} \subseteq DOMAIN x /\ RecordOK(x.rec, data, said)

ItemsOK(s, data, said) == IsSeq(s) /\ \A x \in ToSet(s) : ItemOK(x, data, said)

QueueOK(rx, data, said) == IsSeq(rx) /\ \A s \in ToSet(rx) : ItemsOK(s, data, said)

Fields ==
    {"err", "tx", "saved", "rx", "state", "queued", "accepted", "events", "told",
     "suite", "group", "shared", "hsSecret", "appSecret", "transcript",
     "helloRetry", "authRequested", "peerCert"}

EngineOK(e, w) ==
    /\ Fields \subseteq DOMAIN e
    /\ DatagramsOK(e.tx, w.own, w.said)
    /\ FlightOK(e.saved, w.own, w.said)
    /\ QueueOK(e.rx, w.peer, w.heard)
    /\ IsSeq(e.queued) /\ ToSet(e.queued) \subseteq w.own
    /\ IsSeq(e.accepted) /\ IsSeq(e.events) /\ IsSeq(e.told) /\ IsSeq(e.transcript)

\* What the handshake has come to.
SameKeys(e, f) ==
    /\ f.suite = e.suite /\ f.group = e.group /\ f.shared = e.shared
    /\ f.hsSecret = e.hsSecret /\ f.appSecret = e.appSecret /\ f.transcript = e.transcript
    /\ f.helloRetry = e.helloRetry /\ f.authRequested = e.authRequested
    /\ f.peerCert = e.peerCert

\* What the engine leaves to its client or server.
Keeps(e, f) ==
    /\ f.state = e.state /\ f.queued = e.queued /\ f.accepted = e.accepted
    /\ f.events = e.events /\ f.told = e.told
    /\ SameKeys(e, f)

\* A message more in the transcript.
Hashed(e, type, mseq) == [e EXCEPT !.transcript = Append(@, <<type, mseq>>)]

Becomes(e, f, w) == EngineOK(f, w) /\ Keeps(e, f)

LEMMA FlightAppend ==
    ASSUME NEW data, NEW said, NEW s, FlightOK(s, data, said), NEW x, EntryOK(x, data, said)
    PROVE  FlightOK(Append(s, x), data, said)
  BY AppendIs DEF FlightOK

LEMMA FlightUpdate ==
    ASSUME NEW data, NEW said, NEW s, FlightOK(s, data, said), NEW i, NEW x, EntryOK(x, data, said)
    PROVE  FlightOK([s EXCEPT ![i] = x], data, said)
<1> DEFINE t == [s EXCEPT ![i] = x]
<1>1. IsSeq(t) /\ ToSet(t) \subseteq ToSet(s) \cup {x}
  BY UpdateIs DEF FlightOK
<1> HIDE DEF t
<1>2. FlightOK(t, data, said)
  BY <1>1 DEF FlightOK
<1> QED
  BY <1>2 DEF t

LEMMA Chain ==
    ASSUME NEW w, NEW e, NEW f, NEW g, Keeps(e, f), Becomes(f, g, w)
    PROVE  Becomes(e, g, w)
  BY DEF Becomes, Keeps, SameKeys

LEMMA FailOK ==
    ASSUME NEW w, NEW e, EngineOK(e, w), NEW what
    PROVE  Becomes(e, Fail(e, what), w) /\ Fail(e, what).err = what
  BY DEF Becomes, Keeps, SameKeys, EngineOK, Fields, Fail

LEMMA NumberedOK ==
    ASSUME NEW w, NEW e, EngineOK(e, w), NEW epoch
    PROVE  Becomes(e, Numbered(e, epoch), w)
           /\ Numbered(e, epoch).tx = e.tx /\ Numbered(e, epoch).saved = e.saved
<1>1. Numbered(e, epoch) \in
         {[e EXCEPT !.num0 = @ + 1], [e EXCEPT !.hsSeq = @ + 1], [e EXCEPT !.prev[2] = @ + 1],
          [e EXCEPT !.appSeq = @ + 1, !.count = @ + 1,
                    !.needsUpdate = @ \/ e.count + 1 >= e.limit]}
  BY DEF Numbered
<1> QED
  BY <1>1 DEF Becomes, Keeps, SameKeys, EngineOK, Fields

LEMMA CreateRecordOK ==
    ASSUME NEW w, NEW e, EngineOK(e, w), NEW rec, RecordOK(rec, w.own, w.said), NEW save
    PROVE  Becomes(e, CreateRecord(e, rec, save), w)
<1> DEFINE num == SendSeq(e, rec.epoch)
           wire == Joined(rec, [num |-> num, key |-> SendKey(e, rec.epoch)])
           saved == IF save THEN Append(e.saved, [rec |-> rec, num |-> num, acked |-> FALSE])
                    ELSE e.saved
           kept == [e EXCEPT !.saved = saved]
           next == Numbered(kept, rec.epoch)
           full == Append(Last(e.tx), wire)
           filled == Front(e.tx) \o << full >>
           more == Append(e.tx, <<wire>>)
<1>1. Becomes(e, e, w)
  BY DEF Becomes, Keeps, SameKeys
<1>2. RecordOK(wire, w.own, w.said)
  BY DEF RecordOK, Joined
<1>3. EntryOK([rec |-> rec, num |-> num, acked |-> FALSE], w.own, w.said)
  BY DEF EntryOK
<1> HIDE DEF wire, num
<1>4. FlightOK(saved, w.own, w.said)
  BY <1>3, FlightAppend DEF EngineOK
<1>5. Becomes(e, kept, w) /\ kept.tx = e.tx
  <2> HIDE DEF saved
  <2> QED
    BY <1>4 DEF Becomes, Keeps, SameKeys, EngineOK, Fields
<1> HIDE DEF kept
<1>6. Becomes(e, next, w) /\ next.tx = e.tx
  BY <1>5, NumberedOK, Chain DEF Becomes
<1> HIDE DEF next
<1>7. e.tx # <<>> => DatagramsOK(filled, w.own, w.said)
  <2> SUFFICES ASSUME e.tx # <<>> PROVE DatagramsOK(filled, w.own, w.said)
    OBVIOUS
  <2>1. RecordsOK(Last(e.tx), w.own, w.said) /\ IsSeq(Front(e.tx))
        /\ \A d \in ToSet(Front(e.tx)) : RecordsOK(d, w.own, w.said)
    BY LastIs DEF EngineOK, DatagramsOK
  <2>2. RecordsOK(full, w.own, w.said)
    BY <1>2, <2>1, AppendIs DEF RecordsOK
  <2> HIDE DEF full
  <2>3. IsSeq(<<full>>) /\ ToSet(<<full>>) = {full}
    BY OneIs
  <2> QED
    BY <2>1, <2>2, <2>3, ConcatIs DEF DatagramsOK
<1>8. DatagramsOK(more, w.own, w.said)
  <2>1. RecordsOK(<<wire>>, w.own, w.said)
    BY <1>2, OneIs DEF RecordsOK
  <2> QED
    BY <2>1, AppendIs DEF EngineOK, DatagramsOK
<1>9. ASSUME NEW tx, DatagramsOK(tx, w.own, w.said)
      PROVE  /\ Becomes(e, [next EXCEPT !.tx = tx], w)
             /\ Becomes(e, [next EXCEPT !.tx = tx, !.sealed = FALSE], w)
  BY <1>6, <1>9 DEF Becomes, Keeps, SameKeys, EngineOK, Fields
<1>10. Becomes(e, Fail(kept, "TransmitQueueFull"), w)
  BY <1>5, FailOK, Chain DEF Becomes
<1>11. \/ CreateRecord(e, rec, save) = e
       \/ CreateRecord(e, rec, save) = Fail(e, "panic")
       \/ CreateRecord(e, rec, save) = Fail(kept, "TransmitQueueFull")
       \/ e.tx # <<>> /\ CreateRecord(e, rec, save) = [next EXCEPT !.tx = filled]
       \/ CreateRecord(e, rec, save) = [next EXCEPT !.tx = more, !.sealed = FALSE]
  <2>1. /\ [next EXCEPT !.tx = Front(@) \o << Append(Last(@), wire) >>] = [next EXCEPT !.tx = filled]
        /\ [next EXCEPT !.tx = Append(@, <<wire>>), !.sealed = FALSE]
              = [next EXCEPT !.tx = more, !.sealed = FALSE]
    BY <1>6 DEF filled, more, full
  <2> QED
    BY <2>1 DEF CreateRecord, next, kept, saved, wire, num
<1> HIDE DEF filled, more
<1>12. Becomes(e, Fail(e, "panic"), w)
  BY FailOK
<1> QED
  BY <1>1, <1>7, <1>8, <1>9, <1>10, <1>11, <1>12

\* A message is made only where it may claim what it does.
LEMMA CreateHandshakeOK ==
    ASSUME NEW w, NEW e, EngineOK(e, w), NEW type, NEW len \in Nat, NEW val,
           type \in DOMAIN w.said => Claim(type, e.nextSeq, val) \in w.said[type]
    PROVE  Becomes(Hashed(e, type, e.nextSeq), CreateHandshake(e, type, len, val), w)
<1> DEFINE c == [type |-> type, mseq |-> e.nextSeq, len |-> len, val |-> val]
           begun == [e EXCEPT !.nextSeq = @ + 1, !.transcript = Append(@, <<type, e.nextSeq>>)]
           s == [i \in 1..len |-> i]
           base == [off |-> 0, e |-> begun]
           Part(off, n) == Rec("handshake", Epoch(type), type, e.nextSeq, off, n, len, val)
           h == Hashed(e, type, e.nextSeq)
<1>1. Becomes(h, begun, w)
  BY AppendIs DEF Becomes, Keeps, SameKeys, EngineOK, Fields, Hashed
<1> DEFINE all == Fragmented(type, e.nextSeq, len, val, base, s)
<1>2. CreateHandshake(e, type, len, val) = all.e
  BY DEF CreateHandshake, Fragmented, CutOne
<1>3. \A off, n : RecordOK(Part(off, n), w.own, w.said)
  BY DEF RecordOK, Rec
<1> HIDE DEF begun, h
<1>4. DOMAIN s = 1..len
  OBVIOUS
<1>5. c.type = type /\ c.mseq = e.nextSeq /\ c.len = len /\ c.val = val
  OBVIOUS
<1> HIDE DEF s, c
<1>6. PICK g : Run("fragment", c, base, s, len, g) /\ g[len] = all
  <2> HIDE DEF base
  <2>1. PICK g : /\ Run("fragment", c, base, s, len, g)
                 /\ g[len] = Fragmented(c.type, c.mseq, c.len, c.val, base, s)
    BY <1>4, FragmentFold
  <2> QED
    BY <1>5, <2>1
<1> DEFINE T == {k \in 0..len : Becomes(h, g[k].e, w)}
<1>7. 0 \in T
  BY <1>1, <1>6 DEF Run
<1>8. ASSUME NEW k \in 0..(len - 1), k \in T PROVE k + 1 \in T
  <2>1. k + 1 \in 0..len /\ Becomes(h, g[k].e, w)
    BY <1>8
  <2> DEFINE a == g[k]
             space == IF Room(a.e) > 0 THEN Room(a.e) ELSE MTU
             n == IF len - a.off < space THEN len - a.off ELSE space
             rec == Part(a.off, n)
             sent == CreateRecord(a.e, rec, TRUE)
  <2>2. g[k + 1] = CutOne(type, e.nextSeq, len, val, a)
    BY <1>5, <1>6 DEF Run, FoldStep
  <2>3. CutOne(type, e.nextSeq, len, val, a) = IF a.off = len THEN a ELSE [off |-> a.off + n, e |-> sent]
    BY DEF CutOne
  <2>4. RecordOK(rec, w.own, w.said)
    <3> HIDE DEF Part, n
    <3> QED
      BY <1>3
  <2> HIDE DEF rec, n
  <2>5. Becomes(a.e, sent, w)
    BY <2>1, <2>4, CreateRecordOK DEF Becomes
  <2> HIDE DEF sent
  <2>6. Becomes(h, sent, w)
    BY <2>1, <2>5, Chain DEF Becomes
  <2>7. g[k + 1] = a \/ g[k + 1].e = sent
    BY <2>2, <2>3
  <2> QED
    BY <2>1, <2>6, <2>7
<1>9. len \in T
  <2> HIDE DEF T
  <2> QED
    BY <1>7, <1>8, InductTo
<1> QED
  BY <1>2, <1>6, <1>9 DEF h

LEMMA FlightResendOK ==
    ASSUME NEW w, NEW e, EngineOK(e, w)
    PROVE  Becomes(e, FlightResend(e), w)
<1> DEFINE c == e.saved
           n == Len(c)
           s == [i \in 1..n |-> i]
           base == [e EXCEPT !.sealed = TRUE]
<1>1. FlightOK(c, w.own, w.said)
  BY DEF EngineOK
<1>2. n \in Nat /\ DOMAIN c = 1..n /\ \A i \in 1..n : EntryOK(c[i], w.own, w.said)
  BY <1>1, SeqHas DEF FlightOK
<1>3. Becomes(e, base, w)
  BY DEF Becomes, Keeps, SameKeys, EngineOK, Fields
<1>4. FlightResend(e) = Resent(c, base, s)
  <2>1. [i \in DOMAIN c |-> i] = s
    BY <1>2
  <2> HIDE DEF s
  <2> QED
    BY <2>1 DEF FlightResend, Resent, SendAgain
<1>5. DOMAIN s = 1..n /\ \A i \in 1..n : s[i] = i
  OBVIOUS
<1> HIDE DEF n, c, s, base
<1>6. PICK g : Run("resend", c, base, s, n, g) /\ g[n] = Resent(c, base, s)
  BY <1>2, <1>5, ResendFold
<1> DEFINE T == {k \in 0..n : Becomes(e, g[k], w)}
<1>7. 0 \in T
  BY <1>2, <1>3, <1>6 DEF Run
<1>8. ASSUME NEW k \in 0..(n - 1), k \in T PROVE k + 1 \in T
  <2>1. k + 1 \in 1..n /\ Becomes(e, g[k], w)
    BY <1>2, <1>8
  <2> DEFINE a == g[k]
             i == k + 1
             v == [a.saved[i] EXCEPT !.num = SendSeq(a, c[i].rec.epoch)]
             new == [a.saved EXCEPT ![i] = v]
             b == [a EXCEPT !.saved = new]
  <2>2. g[i] = SendAgain(c, a, i)
    BY <1>5, <1>6, <2>1 DEF Run, FoldStep
  <2>3. FlightOK(new, w.own, w.said)
    <3>1. FlightOK(a.saved, w.own, w.said)
      BY <2>1 DEF Becomes, EngineOK
    <3>2. CASE i \in DOMAIN a.saved
      <4>1. EntryOK(a.saved[i], w.own, w.said)
        BY <3>1, <3>2, SeqHas DEF FlightOK
      <4>2. EntryOK(v, w.own, w.said)
        BY <4>1 DEF EntryOK
      <4> HIDE DEF v
      <4> QED
        BY <3>1, <4>2, FlightUpdate
    <3>3. CASE i \notin DOMAIN a.saved
      <4>1. a.saved = [j \in DOMAIN a.saved |-> a.saved[j]]
        <5>1. a.saved \in Seq(ToSet(a.saved))
          BY <3>1 DEF FlightOK, IsSeq
        <5> QED
          BY <5>1
      <4>2. new = a.saved
        BY <3>3, <4>1
      <4> QED
        BY <3>1, <4>2
    <3> QED
      BY <3>2, <3>3
  <2>4. b = [a EXCEPT !.saved[i].num = SendSeq(a, c[i].rec.epoch)]
    OBVIOUS
  <2>5. Becomes(e, b, w)
    <3> HIDE DEF new
    <3> QED
      BY <2>1, <2>3 DEF Becomes, Keeps, SameKeys, EngineOK, Fields
  <2>6. g[i] \in {a, CreateRecord(b, c[i].rec, FALSE)}
    BY <2>2, <2>4 DEF SendAgain
  <2>7. RecordOK(c[i].rec, w.own, w.said)
    BY <1>2, <2>1 DEF EntryOK
  <2> HIDE DEF b, i
  <2>8. Becomes(e, CreateRecord(b, c[i].rec, FALSE), w)
    <3>1. EngineOK(b, w) /\ Keeps(e, b)
      BY <2>5 DEF Becomes
    <3>2. Becomes(b, CreateRecord(b, c[i].rec, FALSE), w)
      BY <2>7, <3>1, CreateRecordOK
    <3> QED
      BY <3>1, <3>2, Chain
  <2>9. Becomes(e, g[i], w)
    BY <2>1, <2>6, <2>8
  <2> QED
    BY <2>1, <2>9 DEF i
<1>9. n \in T
  <2> HIDE DEF T
  <2> QED
    BY <1>2, <1>7, <1>8, InductTo
<1> QED
  BY <1>4, <1>6, <1>9

----------------------------------------------------------------------------
(* Acknowledgements and timers.                                            *)

LEMMA SingleOK ==
    ASSUME NEW data, NEW said, NEW ct, ct \notin {"data", "handshake"}, NEW epoch, NEW val
    PROVE  RecordOK(Single(ct, epoch, val), data, said)
  BY DEF RecordOK, Single, Rec

LEMMA SendAckOK ==
    ASSUME NEW w, NEW e, EngineOK(e, w)
    PROVE  Becomes(e, SendAck(e), w)
<1> DEFINE f == [e EXCEPT !.received = <<>>]
           rec(epoch) == Ack(epoch, ToSet(e.received))
<1>1. Becomes(e, e, w) /\ Becomes(e, f, w)
  BY DEF Becomes, Keeps, SameKeys, EngineOK, Fields
<1>2. \A epoch : RecordOK(rec(epoch), w.own, w.said)
  BY SingleOK DEF Ack
<1>3. SendAck(e) = e \/ \E epoch : SendAck(e) = CreateRecord(f, rec(epoch), FALSE)
  BY DEF SendAck
<1> HIDE DEF f, rec
<1>4. ASSUME NEW epoch PROVE Becomes(e, CreateRecord(f, rec(epoch), FALSE), w)
  <2>1. EngineOK(f, w) /\ Keeps(e, f)
    BY <1>1 DEF Becomes
  <2>2. Becomes(f, CreateRecord(f, rec(epoch), FALSE), w)
    BY <1>2, <2>1, CreateRecordOK
  <2> QED
    BY <2>1, <2>2, Chain
<1> QED
  BY <1>1, <1>3, <1>4

LEMMA MaybeFlushHandshakeAckOK ==
    ASSUME NEW w, NEW e, EngineOK(e, w), NEW due
    PROVE  Becomes(e, MaybeFlushHandshakeAck(e, due), w)
<1> DEFINE f == [e EXCEPT !.ack = "none"]
           rec == Ack(2, QueuedNumbers(e.rx))
<1>1. Becomes(e, e, w) /\ Becomes(e, f, w)
  BY DEF Becomes, Keeps, SameKeys, EngineOK, Fields
<1>2. RecordOK(rec, w.own, w.said)
  BY SingleOK DEF Ack
<1>3. MaybeFlushHandshakeAck(e, due) \in {e, f, CreateRecord(f, rec, FALSE)}
  BY DEF MaybeFlushHandshakeAck
<1> HIDE DEF f, rec
<1>4. Becomes(f, CreateRecord(f, rec, FALSE), w)
  BY <1>1, <1>2, CreateRecordOK DEF Becomes
<1>5. Becomes(e, CreateRecord(f, rec, FALSE), w)
  BY <1>1, <1>4, Chain DEF Becomes
<1> QED
  BY <1>1, <1>3, <1>5

LEMMA MaybeScheduleHandshakeAckOK ==
    ASSUME NEW w, NEW e, EngineOK(e, w)
    PROVE  /\ Becomes(e, MaybeScheduleHandshakeAck(e), w)
           /\ MaybeScheduleHandshakeAck(e).tx = e.tx
           /\ MaybeScheduleHandshakeAck(e).err = e.err
<1>1. MaybeScheduleHandshakeAck(e) \in
         {e, [e EXCEPT !.ack = "none"], [e EXCEPT !.ack = "now"], [e EXCEPT !.ack = "later"]}
  BY DEF MaybeScheduleHandshakeAck
<1> QED
  BY <1>1 DEF Becomes, Keeps, SameKeys, EngineOK, Fields

LEMMA HandleEngineTimeoutOK ==
    ASSUME NEW w, NEW e, EngineOK(e, w), NEW due
    PROVE  Becomes(e, HandleEngineTimeout(e, due), w)
<1> DEFINE armed == [e EXCEPT !.connectTimer = IF @ = "unarmed" THEN "armed" ELSE @,
                              !.flightTimer = IF @ = "unarmed" THEN "armed" ELSE @]
           less == [armed EXCEPT !.left = @ - 1]
           again == FlightResend(less)
           Acked(f) == MaybeFlushHandshakeAck(MaybeScheduleHandshakeAck(f), "ack" \in due)
<1>1. Becomes(e, armed, w) /\ Becomes(e, less, w)
  BY DEF Becomes, Keeps, SameKeys, EngineOK, Fields
<1>2. HandleEngineTimeout(e, due) \in
         {armed, Fail(armed, "Timeout"), again, Acked(armed), Acked(again)}
  BY DEF HandleEngineTimeout
<1> HIDE DEF armed, less
<1>3. Becomes(e, Fail(armed, "Timeout"), w)
  BY <1>1, FailOK, Chain DEF Becomes
<1>4. Becomes(e, again, w)
  BY <1>1, FlightResendOK, Chain DEF Becomes
<1> HIDE DEF again
<1>5. ASSUME NEW f, Becomes(e, f, w) PROVE Becomes(e, Acked(f), w)
  <2> DEFINE g == MaybeScheduleHandshakeAck(f)
             h == MaybeFlushHandshakeAck(g, "ack" \in due)
  <2>1. Becomes(f, g, w)
    BY <1>5, MaybeScheduleHandshakeAckOK DEF Becomes
  <2> HIDE DEF g
  <2>2. Becomes(e, g, w)
    BY <1>5, <2>1, Chain DEF Becomes
  <2>3. Becomes(g, h, w)
    BY <2>1, MaybeFlushHandshakeAckOK DEF Becomes
  <2> HIDE DEF h
  <2>4. Becomes(e, h, w)
    BY <2>2, <2>3, Chain DEF Becomes
  <2> QED
    BY <2>4 DEF g, h
<1>6. Becomes(e, Acked(armed), w) /\ Becomes(e, Acked(again), w)
  BY <1>1, <1>4, <1>5
<1> HIDE DEF Acked
<1> QED
  BY <1>1, <1>2, <1>3, <1>4, <1>6

LEMMA ProcessAckOK ==
    ASSUME NEW w, NEW e, EngineOK(e, w), NEW nums
    PROVE  Becomes(e, ProcessAck(e, nums), w)
<1> DEFINE s == e.saved
           marked == [i \in DOMAIN s |->
                         [s[i] EXCEPT !.acked = @ \/ <<s[i].rec.epoch, s[i].num>> \in nums]]
           settled == [e EXCEPT !.saved = <<>>, !.flightTimer = "disabled"]
<1>1. FlightOK(<<>>, w.own, w.said)
  BY EmptyIs DEF FlightOK
<1>2. FlightOK(marked, w.own, w.said)
  <2>1. FlightOK(s, w.own, w.said)
    BY DEF EngineOK
  <2> HIDE DEF s
  <2>2. Len(s) \in Nat /\ DOMAIN s = 1..Len(s) /\ \A i \in 1..Len(s) : EntryOK(s[i], w.own, w.said)
    BY <2>1, SeqHas DEF FlightOK
  <2>3. marked = [i \in 1..Len(s) |-> marked[i]]
    BY <2>2
  <2>4. \A i \in 1..Len(s) : EntryOK(marked[i], w.own, w.said)
    BY <2>2 DEF EntryOK
  <2> HIDE DEF marked
  <2>5. IsSeq(marked) /\ ToSet(marked) = {marked[i] : i \in 1..Len(s)}
    BY <2>2, <2>3, FunctionIs
  <2> QED
    BY <2>4, <2>5 DEF FlightOK
<1>3. ProcessAck(e, nums) \in
         {settled, [settled EXCEPT !.prev = <<>>], [e EXCEPT !.saved = marked]}
  BY DEF ProcessAck
<1> HIDE DEF marked, s
<1> QED
  BY <1>1, <1>2, <1>3 DEF Becomes, Keeps, SameKeys, EngineOK, Fields

----------------------------------------------------------------------------
(* Receiving.                                                              *)

LEMMA QueueWith ==
    ASSUME NEW data, NEW said, NEW rx, QueueOK(rx, data, said), NEW s, ItemsOK(s, data, said),
           NEW new, IsSeq(new), ToSet(new) \subseteq ToSet(rx) \cup {s}
    PROVE  QueueOK(new, data, said)
  BY DEF QueueOK

LEMMA InsertIncomingHandshakeOK ==
    ASSUME NEW w, NEW e, EngineOK(e, w), NEW incoming, ItemsOK(incoming, w.peer, w.heard)
    PROVE  Becomes(e, InsertIncomingHandshake(e, incoming), w)
<1> DEFINE at == InsertHandshake(e, incoming).at
           rx == InsertHandshake(e, incoming).rx
           over == [e.rx EXCEPT ![at] = incoming]
           noted == Noted(e, incoming)
           cut == SubSeq(noted, 1, IF Len(noted) < MAX_RECEIVED THEN Len(noted) ELSE MAX_RECEIVED)
<1>1. QueueOK(e.rx, w.peer, w.heard)
  BY DEF EngineOK
<1>2. QueueOK(rx, w.peer, w.heard)
  <2>1. IsSeq(rx) /\ ToSet(rx) \subseteq ToSet(e.rx) \cup {incoming}
    BY <1>1, InsertHandshakeIs DEF QueueOK
  <2> HIDE DEF rx
  <2> QED
    BY <1>1, <2>1, QueueWith
<1>3. QueueOK(over, w.peer, w.heard)
  <2>1. IsSeq(over) /\ ToSet(over) \subseteq ToSet(e.rx) \cup {incoming}
    BY <1>1, UpdateIs DEF QueueOK
  <2> HIDE DEF over
  <2> QED
    BY <1>1, <2>1, QueueWith
<1>4. InsertIncomingHandshake(e, incoming) \in
         {e, Fail(e, "RenegotiationAttempt"), Fail(e, "panic"),
          [e EXCEPT !.rx = rx, !.received = cut], [e EXCEPT !.rx = over, !.received = noted]}
  BY DEF InsertIncomingHandshake, InsertHandshake
<1> HIDE DEF rx, over, cut, noted
<1>5. Becomes(e, [e EXCEPT !.rx = rx, !.received = cut], w)
  BY <1>2 DEF Becomes, Keeps, SameKeys, EngineOK, Fields
<1>6. Becomes(e, [e EXCEPT !.rx = over, !.received = noted], w)
  BY <1>3 DEF Becomes, Keeps, SameKeys, EngineOK, Fields
<1>7. Becomes(e, e, w)
  BY DEF Becomes, Keeps, SameKeys
<1> QED
  BY <1>4, <1>5, <1>6, <1>7, FailOK

LEMMA InsertIncomingOK ==
    ASSUME NEW w, NEW e, EngineOK(e, w), NEW incoming, ItemsOK(incoming, w.peer, w.heard)
    PROVE  Becomes(e, InsertIncoming(e, incoming), w)
<1> DEFINE told == DupeTriggersResend(e, incoming)
           rx == InsertRecord(e, incoming).rx
<1>1. Becomes(e, e, w)
  BY DEF Becomes, Keeps, SameKeys
<1>2. Becomes(e, told, w)
  <2>1. told \in {e, FlightResend(e)}
    BY DEF DupeTriggersResend
  <2> HIDE DEF told
  <2> QED
    BY <1>1, <2>1, FlightResendOK
<1>3. InsertIncoming(e, incoming) \in
         {Fail(e, "ReceiveQueueFull"), InsertIncomingHandshake(told, incoming), [e EXCEPT !.rx = rx]}
  BY DEF InsertIncoming, InsertRecord
<1>4. QueueOK(rx, w.peer, w.heard)
  <2>1. QueueOK(e.rx, w.peer, w.heard)
    BY DEF EngineOK
  <2>2. IsSeq(rx) /\ ToSet(rx) \subseteq ToSet(e.rx) \cup {incoming}
    BY <2>1, InsertRecordIs DEF QueueOK
  <2> HIDE DEF rx
  <2> QED
    BY <2>1, <2>2, QueueWith
<1> HIDE DEF told, rx
<1>5. Becomes(told, InsertIncomingHandshake(told, incoming), w)
  BY <1>2, InsertIncomingHandshakeOK DEF Becomes
<1>6. Becomes(e, InsertIncomingHandshake(told, incoming), w)
  BY <1>2, <1>5, Chain DEF Becomes
<1>7. Becomes(e, [e EXCEPT !.rx = rx], w)
  BY <1>4 DEF Becomes, Keeps, SameKeys, EngineOK, Fields
<1> QED
  BY <1>3, <1>6, <1>7, FailOK

\* What is parsed so far: the endpoint and the items kept.
ParsedOK(e, acc, w) ==
    /\ acc = [e |-> acc.e, items |-> acc.items]
    /\ Becomes(e, acc.e, w)
    /\ ItemsOK(acc.items, w.peer, w.heard)

LEMMA ItemsAppend ==
    ASSUME NEW data, NEW said, NEW items, ItemsOK(items, data, said), NEW x, ItemOK(x, data, said)
    PROVE  ItemsOK(Append(items, x), data, said)
  BY AppendIs DEF ItemsOK

LEMMA DecryptOK ==
    ASSUME NEW w, NEW e, EngineOK(e, w), NEW rec
    PROVE  Becomes(e, Decrypt(e, rec).e, w)
<1> DEFINE epoch == ResolveEpoch(e, rec.epoch % 4)
           at == RecvIndex(e, epoch)
           win == IF epoch = 2 THEN e.hsWin ELSE e.recv[at].win
           hs == [e EXCEPT !.hsWin = ReplayUpdate(@, rec.num)]
           app == [e EXCEPT !.recv[at].win = ReplayUpdate(win, rec.num)]
<1>1. Decrypt(e, rec).e \in {e, hs, app}
  BY DEF Decrypt
<1>2. Becomes(e, e, w)
  BY DEF Becomes, Keeps, SameKeys
<1>3. Becomes(e, hs, w)
  BY DEF Becomes, Keeps, SameKeys, EngineOK, Fields
<1> DEFINE recv == [e.recv EXCEPT ![at].win = ReplayUpdate(win, rec.num)]
<1>4. app = [e EXCEPT !.recv = recv]
  OBVIOUS
<1> HIDE DEF recv
<1>5. Becomes(e, [e EXCEPT !.recv = recv], w)
  BY DEF Becomes, Keeps, SameKeys, EngineOK, Fields
<1> HIDE DEF hs, app
<1> QED
  BY <1>1, <1>2, <1>3, <1>4, <1>5

LEMMA ParseRecordOK ==
    ASSUME NEW w, NEW e, NEW acc, ParsedOK(e, acc, w),
           NEW rec, RecordOK(rec, w.peer, w.heard)
    PROVE  ParsedOK(e, ParseRecord(acc, rec), w)
<1> DEFINE x(clear) == [rec |-> rec, clear |-> clear, done |-> FALSE]
           Kept(f, clear) == [e |-> f, items |-> Append(acc.items, x(clear))]
           opened == Decrypt(acc.e, rec).e
           full == [acc EXCEPT !.e = Fail(acc.e, "TooManyRecords")]
<1>1. \A clear : ItemsOK(Append(acc.items, x(clear)), w.peer, w.heard)
  <2> TAKE clear
  <2>1. ItemOK(x(clear), w.peer, w.heard)
    BY DEF ItemOK
  <2> HIDE DEF x
  <2> QED
    BY <2>1, ItemsAppend DEF ParsedOK
<1>2. ASSUME NEW f, Becomes(e, f, w), NEW clear
      PROVE  ParsedOK(e, Kept(f, clear), w)
  <2> HIDE DEF x
  <2> QED
    BY <1>1, <1>2 DEF ParsedOK
<1>3. Becomes(e, opened, w)
  <2>1. Becomes(acc.e, opened, w)
    BY DecryptOK DEF ParsedOK, Becomes
  <2> HIDE DEF opened
  <2> QED
    BY <2>1, Chain DEF ParsedOK, Becomes
<1>4. ParseRecord(acc, rec) \in
         {acc, full, Kept(acc.e, rec.epoch = 0), Kept(opened, TRUE)}
  BY DEF ParseRecord
<1>5. ParsedOK(e, Kept(acc.e, rec.epoch = 0), w)
  BY <1>2 DEF ParsedOK
<1> HIDE DEF Kept, opened
<1>6. ParsedOK(e, Kept(opened, TRUE), w)
  BY <1>2, <1>3
<1>7. ParsedOK(e, full, w)
  <2> DEFINE f == Fail(acc.e, "TooManyRecords")
  <2>1. Becomes(e, f, w)
    <3>1. Becomes(acc.e, f, w)
      BY FailOK DEF ParsedOK, Becomes
    <3> HIDE DEF f
    <3> QED
      BY <3>1, Chain DEF ParsedOK, Becomes
  <2> HIDE DEF f
  <2>2. [acc EXCEPT !.e = f] = [e |-> f, items |-> acc.items]
    BY DEF ParsedOK
  <2> QED
    BY <2>1, <2>2 DEF ParsedOK, f
<1> HIDE DEF full
<1> QED
  BY <1>4, <1>5, <1>6, <1>7

LEMMA ClassifyRecordOK ==
    ASSUME NEW w, NEW e, NEW acc, ParsedOK(e, acc, w), NEW x, ItemOK(x, w.peer, w.heard)
    PROVE  ParsedOK(e, ClassifyRecord(acc, x), w)
<1> DEFINE acked == ProcessAck(acc.e, x.rec.val.nums)
           at == IF acc.e.closeAt = <<>> THEN RecordNumber(x.rec) ELSE acc.e.closeAt
           closed == [acc.e EXCEPT !.closeAt = at]
<1>1. ASSUME NEW f, Becomes(e, f, w) PROVE ParsedOK(e, [acc EXCEPT !.e = f], w)
  <2>1. [acc EXCEPT !.e = f] = [e |-> f, items |-> acc.items]
    BY DEF ParsedOK
  <2> QED
    BY <1>1, <2>1 DEF ParsedOK
<1>2. Becomes(e, acked, w)
  <2>1. Becomes(acc.e, acked, w)
    BY ProcessAckOK DEF ParsedOK, Becomes
  <2> HIDE DEF acked
  <2> QED
    BY <2>1, Chain DEF ParsedOK, Becomes
<1>3. Becomes(e, closed, w)
  <2> HIDE DEF at
  <2> QED
    BY DEF ParsedOK, Becomes, Keeps, SameKeys, EngineOK, Fields
<1>4. ParsedOK(e, [acc EXCEPT !.items = Append(@, x)], w)
  <2>1. [acc EXCEPT !.items = Append(@, x)] = [e |-> acc.e, items |-> Append(acc.items, x)]
    BY DEF ParsedOK
  <2>2. ItemsOK(Append(acc.items, x), w.peer, w.heard)
    BY ItemsAppend DEF ParsedOK
  <2> QED
    BY <2>1, <2>2 DEF ParsedOK
<1>5. ClassifyRecord(acc, x) \in
         {acc, [acc EXCEPT !.e = acked], [acc EXCEPT !.e = closed],
          [acc EXCEPT !.items = Append(@, x)]}
  <2>1. [acc EXCEPT !.e.closeAt = at] = [acc EXCEPT !.e = closed]
    OBVIOUS
  <2> QED
    BY <2>1 DEF ClassifyRecord
<1> HIDE DEF acked, closed
<1> QED
  BY <1>1, <1>2, <1>3, <1>4, <1>5

LEMMA ParsePacketOK ==
    ASSUME NEW w, NEW e, EngineOK(e, w),
           NEW datagram, RecordsOK(datagram, w.peer, w.heard)
    PROVE  Becomes(e, ParsePacket(e, datagram), w)
<1> DEFINE parsed == Parsed([e |-> e, items |-> <<>>], datagram)
           kept == Classified([e |-> parsed.e, items |-> <<>>], parsed.items)
<1>1. ASSUME NEW f, Becomes(e, f, w)
      PROVE  ParsedOK(e, [e |-> f, items |-> <<>>], w)
  BY <1>1, EmptyIs DEF ParsedOK, ItemsOK
<1>2. ParsedOK(e, parsed, w)
  <2> DEFINE n == Len(datagram)
             base == [e |-> e, items |-> <<>>]
  <2>1. n \in Nat /\ DOMAIN datagram = 1..n
        /\ \A i \in 1..n : RecordOK(datagram[i], w.peer, w.heard)
    BY SeqHas DEF RecordsOK
  <2> HIDE DEF n
  <2>2. PICK g : Run("parse", <<>>, base, datagram, n, g) /\ g[n] = Parsed(base, datagram)
    <3> HIDE DEF base
    <3> QED
      BY <2>1, ParseFold
  <2> DEFINE T == {k \in 0..n : ParsedOK(e, g[k], w)}
  <2>3. 0 \in T
    <3>1. Becomes(e, e, w)
      BY DEF Becomes, Keeps, SameKeys
    <3> QED
      BY <1>1, <2>1, <2>2, <3>1 DEF Run
  <2>4. ASSUME NEW k \in 0..(n - 1), k \in T PROVE k + 1 \in T
    <3>1. k + 1 \in 1..n /\ ParsedOK(e, g[k], w)
      BY <2>1, <2>4
    <3>2. g[k + 1] = ParseRecord(g[k], datagram[k + 1])
      BY <2>2 DEF Run, FoldStep
    <3> QED
      BY <2>1, <3>1, <3>2, ParseRecordOK
  <2>5. n \in T
    <3> HIDE DEF T
    <3> QED
      BY <2>1, <2>3, <2>4, InductTo
  <2> QED
    BY <2>2, <2>5
<1>3. ParsedOK(e, kept, w)
  <2> DEFINE s == parsed.items
             n == Len(s)
             base == [e |-> parsed.e, items |-> <<>>]
  <2>1. n \in Nat /\ DOMAIN s = 1..n /\ \A i \in 1..n : ItemOK(s[i], w.peer, w.heard)
    BY <1>2, SeqHas DEF ParsedOK, ItemsOK
  <2>2. ParsedOK(e, base, w)
    BY <1>1, <1>2 DEF ParsedOK
  <2> HIDE DEF n, s, base, parsed
  <2>3. PICK g : Run("classify", <<>>, base, s, n, g) /\ g[n] = Classified(base, s)
    BY <2>1, ClassifyFold
  <2> DEFINE T == {k \in 0..n : ParsedOK(e, g[k], w)}
  <2>4. 0 \in T
    BY <2>1, <2>2, <2>3 DEF Run
  <2>5. ASSUME NEW k \in 0..(n - 1), k \in T PROVE k + 1 \in T
    <3>1. k + 1 \in 1..n /\ ParsedOK(e, g[k], w)
      BY <2>1, <2>5
    <3>2. g[k + 1] = ClassifyRecord(g[k], s[k + 1])
      BY <2>3 DEF Run, FoldStep
    <3> QED
      BY <2>1, <3>1, <3>2, ClassifyRecordOK
  <2>6. n \in T
    <3> HIDE DEF T
    <3> QED
      BY <2>1, <2>4, <2>5, InductTo
  <2> QED
    BY <2>3, <2>6 DEF base, s
<1>4. ParsePacket(e, datagram) \in {parsed.e, kept.e, InsertIncoming(kept.e, kept.items)}
  BY DEF ParsePacket, InsertKept, ClassifyAll, Parsed, Classified
<1> HIDE DEF parsed, kept
<1>5. Becomes(e, parsed.e, w)
  BY <1>2 DEF ParsedOK
<1>6. Becomes(e, InsertIncoming(kept.e, kept.items), w)
  <2>1. EngineOK(kept.e, w) /\ ItemsOK(kept.items, w.peer, w.heard) /\ Keeps(e, kept.e)
    BY <1>3 DEF ParsedOK, Becomes
  <2>2. Becomes(kept.e, InsertIncoming(kept.e, kept.items), w)
    BY <2>1, InsertIncomingOK
  <2> QED
    BY <2>1, <2>2, Chain
<1> QED
  BY <1>3, <1>4, <1>5, <1>6 DEF ParsedOK

\* The queue as one sequence, and what is taken from it.
LEMMA FlatOK ==
    ASSUME NEW data, NEW said, NEW rx, QueueOK(rx, data, said)
    PROVE  ItemsOK(Flat(rx), data, said)
<1> DEFINE S == UNION {ToSet(s) : s \in ToSet(rx)}
<1>1. IsSeq(rx) /\ \A s \in ToSet(rx) : IsSeq(s) /\ ToSet(s) \subseteq S
  BY DEF QueueOK, ItemsOK
<1>2. \A x \in S : ItemOK(x, data, said)
  BY DEF QueueOK, ItemsOK
<1> HIDE DEF S
<1> QED
  BY <1>1, <1>2, FlattenIs DEF Flat, ItemsOK

LEMMA PendingOK ==
    ASSUME NEW w, NEW e, EngineOK(e, w)
    PROVE  ItemsOK(Pending(e), w.peer, w.heard) /\ \A x \in ToSet(Pending(e)) : IsHandshake(x)
<1> DEFINE all == Flat(e.rx)
           ss == [i \in DOMAIN all |-> IF IsHandshake(all[i]) THEN <<all[i]>> ELSE <<>>]
           hs == FlattenSeq(ss)
           open == {i \in DOMAIN hs : ~hs[i].done}
           first == CHOOSE i \in open : \A j \in open : i <= j
<1>1. ItemsOK(all, w.peer, w.heard)
  BY FlatOK DEF EngineOK
<1>2. ItemsOK(hs, w.peer, w.heard) /\ \A x \in ToSet(hs) : IsHandshake(x)
  <2>1. Len(all) \in Nat /\ DOMAIN all = 1..Len(all)
        /\ \A i \in DOMAIN all : all[i] \in ToSet(all)
    BY <1>1, SeqHas DEF ItemsOK
  <2> DEFINE S == {x \in ToSet(all) : IsHandshake(x)}
  <2>2. \A i \in DOMAIN all : ss[i] = <<>> \/ \E x \in S : ss[i] = <<x>>
    BY <2>1
  <2>3. ss = [i \in DOMAIN all |-> ss[i]]
    OBVIOUS
  <2> HIDE DEF ss, all, S
  <2>4. IsSeq(hs) /\ ToSet(hs) \subseteq S
    BY <2>1, <2>2, <2>3, FilterIs
  <2> QED
    BY <1>1, <2>4 DEF ItemsOK, S
<1>3. Pending(e) = IF open = {} THEN <<>> ELSE SubSeq(hs, first, Len(hs))
  BY DEF Pending, HandshakeItems, FromUnhandled
<1> HIDE DEF hs
<1>4. Len(hs) \in Nat /\ DOMAIN hs = 1..Len(hs)
  BY <1>2, SeqHas DEF ItemsOK
<1>5. CASE open = {}
  BY <1>3, <1>5, EmptyIs DEF ItemsOK
<1>6. CASE open # {}
  <2>1. first \in 1..(Len(hs) + 1) /\ Len(hs) \in 0..Len(hs)
    <3>1. open \subseteq Nat
      BY <1>4
    <3>2. \E m \in open : \A j \in open : m <= j
      <4> HIDE DEF open
      <4> QED
        BY <1>6, <3>1, Least
    <3>3. first \in open
      BY <3>2
    <3> QED
      BY <1>4, <3>3
  <2> HIDE DEF first
  <2>2. IsSeq(SubSeq(hs, first, Len(hs))) /\ ToSet(SubSeq(hs, first, Len(hs))) \subseteq ToSet(hs)
    BY <1>2, <2>1, SubSeqIs DEF ItemsOK
  <2> QED
    BY <1>2, <1>3, <1>6, <2>2 DEF ItemsOK
<1> QED
  BY <1>5, <1>6

\* A complete message claims what the peer may claim.
LEMMA MessageIsPeers ==
    ASSUME NEW w, NEW e, EngineOK(e, w), NEW type \in DOMAIN w.heard,
           HasCompleteHandshake(e, type)
    PROVE  Claim(type, Pending(e)[1].rec.mseq, MessageBody(e)) \in w.heard[type]
<1> DEFINE hs == Pending(e)
<1>1. hs # <<>> /\ hs[1].rec.type = type
  BY DEF HasCompleteHandshake
<1>2. ItemsOK(hs, w.peer, w.heard) /\ \A x \in ToSet(hs) : IsHandshake(x)
  BY PendingOK
<1>3. MessageBody(e) = hs[1].rec.val
  BY DEF MessageBody
<1> HIDE DEF hs
<1>4. 1 \in DOMAIN hs
  <2>1. hs \in Seq(ToSet(hs)) /\ hs # <<>>
    BY <1>1, <1>2 DEF ItemsOK, IsSeq
  <2> QED
    BY <2>1
<1>5. ItemOK(hs[1], w.peer, w.heard) /\ IsHandshake(hs[1])
  BY <1>2, <1>4, SeqHas DEF ItemsOK
<1> QED
  BY <1>1, <1>3, <1>5 DEF hs, ItemOK, RecordOK, IsHandshake

\* Handled or not, an item has the record that came.
Marked(rx, done) ==
    [i \in DOMAIN rx |-> [j \in DOMAIN rx[i] |-> [rx[i][j] EXCEPT !.done = done[i][j]]]]

LEMMA MarkedOK ==
    ASSUME NEW data, NEW said, NEW rx, QueueOK(rx, data, said), NEW done
    PROVE  QueueOK(Marked(rx, done), data, said)
<1> DEFINE new == Marked(rx, done)
<1>1. Len(rx) \in Nat /\ DOMAIN rx = 1..Len(rx)
  BY SeqHas DEF QueueOK
<1>2. ASSUME NEW i \in DOMAIN rx PROVE ItemsOK(new[i], data, said)
  <2> DEFINE s == rx[i]
             t == new[i]
  <2>1. ItemsOK(s, data, said)
    BY SeqHas DEF QueueOK
  <2>2. t = [j \in DOMAIN s |-> [s[j] EXCEPT !.done = done[i][j]]]
    BY DEF Marked
  <2> HIDE DEF s, t
  <2>3. Len(s) \in Nat /\ DOMAIN s = 1..Len(s)
    BY <2>1, SeqHas DEF ItemsOK
  <2>4. t = [j \in 1..Len(s) |-> t[j]]
    BY <2>2, <2>3
  <2>5. IsSeq(t) /\ ToSet(t) = {t[j] : j \in 1..Len(s)}
    BY <2>3, <2>4, FunctionIs
  <2>6. ASSUME NEW j \in DOMAIN s PROVE ItemOK(t[j], data, said)
    <3>1. ItemOK(s[j], data, said)
      BY <2>1, SeqHas DEF ItemsOK
    <3>2. t[j] = [s[j] EXCEPT !.done = done[i][j]]
      BY <2>2
    <3> QED
      BY <3>1, <3>2 DEF ItemOK
  <2>7. ItemsOK(t, data, said)
    BY <2>3, <2>5, <2>6 DEF ItemsOK
  <2> QED
    BY <2>7 DEF t
<1>3. new = [i \in 1..Len(rx) |-> new[i]]
  BY <1>1 DEF Marked
<1> HIDE DEF new
<1>4. IsSeq(new) /\ ToSet(new) = {new[i] : i \in 1..Len(rx)}
  BY <1>1, <1>3, FunctionIs
<1>5. QueueOK(new, data, said)
  BY <1>1, <1>2, <1>4 DEF QueueOK
<1> QED
  BY <1>5 DEF new

\* The end of a queue.
LEMMA PurgedOK ==
    ASSUME NEW data, NEW said, NEW rx, QueueOK(rx, data, said)
    PROVE  QueueOK(PurgeHandled(rx), data, said)
<1> DEFINE Open(i) == \E x \in ToSet(rx[i]) : ~x.done
           first == IF \E i \in DOMAIN rx : Open(i)
                    THEN CHOOSE i \in DOMAIN rx : Open(i) /\ \A j \in 1..(i - 1) : ~Open(j)
                    ELSE Len(rx) + 1
<1>1. Len(rx) \in Nat /\ DOMAIN rx = 1..Len(rx) /\ IsSeq(rx)
  BY SeqHas DEF QueueOK
<1>2. first \in 1..(Len(rx) + 1)
  <2> HIDE DEF Open
  <2>1. CASE \E i \in DOMAIN rx : Open(i)
    <3> DEFINE T == {i \in DOMAIN rx : Open(i)}
    <3>1. PICK m \in T : \A j \in T : m <= j
      <4>1. T \subseteq Nat /\ T # {}
        BY <1>1, <2>1
      <4> HIDE DEF T
      <4> QED
        BY <4>1, Least
    <3>2. Open(m) /\ \A j \in 1..(m - 1) : ~Open(j)
      BY <1>1, <3>1
    <3> QED
      BY <1>1, <2>1, <3>2
  <2> QED
    BY <1>1, <2>1
<1>3. PurgeHandled(rx) = SubSeq(rx, first, Len(rx))
  BY DEF PurgeHandled
<1> HIDE DEF first
<1>4. Len(rx) \in 0..Len(rx)
  BY <1>1
<1> QED
  BY <1>1, <1>2, <1>3, <1>4, SubSeqIs DEF QueueOK

----------------------------------------------------------------------------
(* What the handlers do with what came.                                    *)

LEMMA TakeHandshakeOK ==
    ASSUME NEW w, NEW e, EngineOK(e, w), NEW wanted
    PROVE  /\ Becomes(e, TakeHandshake(e, wanted), w)
           /\ TakeHandshake(e, wanted).err \in {e.err, "ParseIncomplete"}
<1> DEFINE hs == Pending(e)
           same == {n \in DOMAIN hs : \A i \in 1..n : hs[i].rec.type = wanted}
           run == SubSeq(hs, 1, Cardinality(same))
           joined == {x.rec : x \in ToSet(run)}
           rx == e.rx
           done == [i \in DOMAIN rx |-> [j \in DOMAIN rx[i] |->
                      rx[i][j].done \/ (rx[i][j].clear /\ rx[i][j].rec \in joined)]]
           new == Marked(rx, done)
           taken == [e EXCEPT !.rx = new]
<1>1. QueueOK(new, w.peer, w.heard)
  <2>1. QueueOK(rx, w.peer, w.heard)
    BY DEF EngineOK
  <2> HIDE DEF rx, done
  <2> QED
    BY <2>1, MarkedOK
<1>2. MarkDone(rx, LAMBDA x : x.clear /\ x.rec \in joined) = new
  <2> HIDE DEF rx, joined
  <2> QED
    BY DEF MarkDone, Marked
<1>3. TakeHandshake(e, wanted) \in {taken, Fail(taken, "ParseIncomplete")}
  BY <1>2 DEF TakeHandshake, TakeFragments
<1> HIDE DEF new
<1>4. Becomes(e, taken, w) /\ taken.err = e.err
  BY <1>1 DEF Becomes, Keeps, SameKeys, EngineOK, Fields
<1> HIDE DEF taken
<1>5. Becomes(e, Fail(taken, "ParseIncomplete"), w)
      /\ Fail(taken, "ParseIncomplete").err = "ParseIncomplete"
  BY <1>4, FailOK, Chain DEF Becomes
<1> QED
  BY <1>3, <1>4, <1>5

LEMMA HashedOK ==
    ASSUME NEW w, NEW e, EngineOK(e, w), NEW type, NEW mseq
    PROVE  EngineOK(Hashed(e, type, mseq), w)
  BY AppendIs DEF EngineOK, Fields, Hashed

LEMMA NextHandshakeOK ==
    ASSUME NEW w, NEW e, EngineOK(e, w), NEW wanted
    PROVE  LET n == NextHandshake(e, wanted)
           IN  /\ Becomes(Hashed(e, wanted, Pending(e)[1].rec.mseq), n, w)
               /\ n.err \in {e.err, "ParseIncomplete"}
<1> DEFINE m == Pending(e)[1].rec.mseq
           taken == TakeHandshake(e, wanted)
           n == [taken EXCEPT !.transcript = Append(@, <<wanted, m>>)]
<1>1. NextHandshake(e, wanted) = n
  BY DEF NextHandshake
<1>2. Becomes(e, taken, w) /\ taken.err \in {e.err, "ParseIncomplete"}
  BY TakeHandshakeOK
<1> HIDE DEF taken, m
<1>3. n.err = taken.err
  BY <1>2 DEF Becomes, EngineOK, Fields
<1>4. Becomes(Hashed(e, wanted, m), n, w)
  <2>1. n = Hashed(taken, wanted, m)
    BY DEF Hashed
  <2>2. EngineOK(n, w)
    BY <1>2, <2>1, HashedOK DEF Becomes
  <2>3. Keeps(Hashed(e, wanted, m), n)
    BY <1>2, HashedOK DEF Becomes, Keeps, SameKeys, EngineOK, Fields, Hashed
  <2> QED
    BY <2>2, <2>3 DEF Becomes
<1> QED
  BY <1>1, <1>2, <1>3, <1>4 DEF m

LEMMA EnablePeerEncryptionOK ==
    ASSUME NEW w, NEW e, EngineOK(e, w)
    PROVE  Becomes(e, EnablePeerEncryption(e), w)
<1> DEFINE early == {i \in DOMAIN e.rx : \E x \in ToSet(e.rx[i]) : x.rec.epoch >= 2}
           at == CHOOSE i \in early : \A j \in early : i <= j
           all == Flat(SubSeq(e.rx, at, Len(e.rx)))
           ss == [i \in DOMAIN all |-> IF ~all[i].done THEN <<all[i]>> ELSE <<>>]
           open == FlattenSeq(ss)
           n == Len(open)
           on == [e EXCEPT !.peerEnc = TRUE]
           base == [on EXCEPT !.rx = SubSeq(@, 1, at - 1)]
<1>1. Becomes(e, on, w) /\ on.rx = e.rx
  BY DEF Becomes, Keeps, SameKeys, EngineOK, Fields
<1>2. EnablePeerEncryption(e) = IF early = {} THEN on ELSE ParsedEarly(base, open)
  BY DEF EnablePeerEncryption, Unhandled, ParsedEarly
<1>3. Len(e.rx) \in Nat /\ DOMAIN e.rx = 1..Len(e.rx) /\ IsSeq(e.rx)
  BY SeqHas DEF EngineOK, QueueOK
<1>4. CASE early = {}
  BY <1>1, <1>2, <1>4
<1>5. CASE early # {}
  <2>1. at \in 1..Len(e.rx)
    <3>1. early \subseteq Nat /\ early \subseteq 1..Len(e.rx)
      BY <1>3
    <3>2. \E m \in early : \A j \in early : m <= j
      <4> HIDE DEF early
      <4> QED
        BY <1>5, <3>1, Least
    <3> HIDE DEF early
    <3> QED
      BY <3>1, <3>2
  <2> HIDE DEF at
  <2>2. 1 \in 1..(Len(e.rx) + 1) /\ at - 1 \in 0..Len(e.rx)
        /\ at \in 1..(Len(e.rx) + 1) /\ Len(e.rx) \in 0..Len(e.rx)
    BY <1>3, <2>1
  <2>3. QueueOK(SubSeq(e.rx, 1, at - 1), w.peer, w.heard)
    BY <1>3, <2>2, SubSeqIs DEF EngineOK, QueueOK
  <2>4. QueueOK(SubSeq(e.rx, at, Len(e.rx)), w.peer, w.heard)
    BY <1>3, <2>2, SubSeqIs DEF EngineOK, QueueOK
  <2>5. ItemsOK(all, w.peer, w.heard)
    BY <2>4, FlatOK
  <2> HIDE DEF all
  <2>6. ItemsOK(open, w.peer, w.heard)
    <3>1. Len(all) \in Nat /\ DOMAIN all = 1..Len(all)
          /\ \A i \in DOMAIN all : all[i] \in ToSet(all)
      BY <2>5, SeqHas DEF ItemsOK
    <3>2. \A i \in DOMAIN all : ss[i] = <<>> \/ \E x \in ToSet(all) : ss[i] = <<x>>
      BY <3>1
    <3>3. ss = [i \in DOMAIN all |-> ss[i]]
      OBVIOUS
    <3> HIDE DEF ss
    <3>4. IsSeq(open) /\ ToSet(open) \subseteq ToSet(all)
      BY <3>1, <3>2, <3>3, FilterIs
    <3> QED
      BY <2>5, <3>4 DEF ItemsOK
  <2>7. Becomes(e, base, w)
    BY <1>1, <2>3 DEF Becomes, Keeps, SameKeys, EngineOK, Fields
  <2> HIDE DEF open
  <2>8. n \in Nat /\ DOMAIN open = 1..n /\ \A i \in 1..n : ItemOK(open[i], w.peer, w.heard)
    BY <2>6, SeqHas DEF ItemsOK
  <2> HIDE DEF base, n, on
  <2>9. PICK g : Run("early", <<>>, base, open, n, g) /\ g[n] = ParsedEarly(base, open)
    BY <2>8, EarlyFold
  <2> DEFINE T == {k \in 0..n : Becomes(e, g[k], w)}
  <2>10. 0 \in T
    BY <2>7, <2>8, <2>9 DEF Run
  <2>11. ASSUME NEW k \in 0..(n - 1), k \in T PROVE k + 1 \in T
    <3>1. k + 1 \in 1..n /\ Becomes(e, g[k], w)
      BY <2>8, <2>11
    <3> DEFINE dg == <<open[k + 1].rec>>
    <3>2. g[k + 1] = ParsePacket(g[k], dg)
      BY <2>9 DEF Run, FoldStep
    <3>3. RecordsOK(dg, w.peer, w.heard)
      BY <2>8, <3>1, OneIs DEF RecordsOK, ItemOK
    <3> HIDE DEF dg
    <3>4. Becomes(g[k], ParsePacket(g[k], dg), w)
      BY <3>1, <3>3, ParsePacketOK DEF Becomes
    <3> QED
      BY <3>1, <3>2, <3>4, Chain DEF Becomes
  <2>12. n \in T
    <3> HIDE DEF T
    <3> QED
      BY <2>8, <2>10, <2>11, InductTo
  <2> QED
    BY <1>2, <1>5, <2>9, <2>12
<1> QED
  BY <1>4, <1>5

\* What the application gets as data came from the peer's application.
LEMMA ReadableOK ==
    ASSUME NEW w, NEW e, EngineOK(e, w)
    PROVE  /\ IsSeq(Readable(e))
           /\ \A x \in ToSet(Readable(e)) : x.rec.val.args[1] \in w.peer
<1> DEFINE all == Flat(e.rx)
           ss == [i \in DOMAIN all |->
                     IF all[i].clear /\ all[i].rec.ct = "data" /\ ~all[i].done THEN <<all[i]>> ELSE <<>>]
           S == {x \in ToSet(all) : x.rec.ct = "data"}
<1>1. ItemsOK(all, w.peer, w.heard)
  BY FlatOK DEF EngineOK
<1>2. \A x \in S : x.rec.val.args[1] \in w.peer
  <2> HIDE DEF all
  <2> QED
    BY <1>1 DEF ItemsOK, ItemOK, RecordOK
<1>3. IsSeq(FlattenSeq(ss)) /\ ToSet(FlattenSeq(ss)) \subseteq S
  <2> HIDE DEF all
  <2>1. Len(all) \in Nat /\ DOMAIN all = 1..Len(all)
        /\ \A i \in DOMAIN all : all[i] \in ToSet(all)
    BY <1>1, SeqHas DEF ItemsOK
  <2>2. \A i \in DOMAIN all : ss[i] = <<>> \/ \E x \in S : ss[i] = <<x>>
    BY <2>1
  <2>3. ss = [i \in DOMAIN all |-> ss[i]]
    OBVIOUS
  <2> HIDE DEF ss, S
  <2> QED
    BY <2>1, <2>2, <2>3, FilterIs
<1>4. Readable(e) = IF ~e.release THEN <<>> ELSE FlattenSeq(ss)
  BY DEF Readable, ReadableData
<1> HIDE DEF ss, S
<1>5. CASE e.release
  BY <1>2, <1>3, <1>4, <1>5
<1>6. CASE ~e.release
  <2>1. IsSeq(Readable(e)) /\ ToSet(Readable(e)) = {}
    BY <1>4, <1>6, EmptyIs
  <2> QED
    BY <2>1
<1> QED
  BY <1>5, <1>6

\* The caller hears of all events, of data and at the end of the close_notify.
LEMMA DrainedOK ==
    ASSUME NEW w, NEW e, EngineOK(e, w)
    PROVE  LET f == Drained(e)
           IN  /\ EngineOK(f, w)
               /\ f.err = e.err /\ f.state = e.state /\ SameKeys(e, f)
               /\ ToSet(f.events) = {}
               /\ ToSet(e.told) \cup ToSet(e.events) \subseteq ToSet(f.told)
               /\ ToSet(f.told) \subseteq
                     ToSet(e.told) \cup ToSet(e.events) \cup w.peer \cup {"CloseNotify"}
<1> DEFINE readable == Readable(e)
           data == [i \in DOMAIN readable |-> readable[i].rec.val.args[1]]
           closed == IF e.closeAt # <<>> /\ ~e.closeTold THEN <<"CloseNotify">> ELSE <<>>
           told == e.told \o e.events \o data \o closed
           rx == e.rx
           done == [i \in DOMAIN rx |-> [j \in DOMAIN rx[i] |->
                      rx[i][j].done \/ (rx[i][j].clear /\ rx[i][j].rec.ct = "data")]]
           left == PurgeHandled(IF e.release THEN Marked(rx, done) ELSE rx)
           before == [e EXCEPT !.rx = left]
           acked == MaybeScheduleHandshakeAck(before)
           polled == [acked EXCEPT !.tx = <<>>, !.closeTold = @ \/ e.closeAt # <<>>]
           drained == [polled EXCEPT !.told = told, !.events = <<>>]
<1>1. IsSeq(data) /\ ToSet(data) \subseteq w.peer
  <2>1. IsSeq(readable) /\ \A x \in ToSet(readable) : x.rec.val.args[1] \in w.peer
    BY ReadableOK
  <2> HIDE DEF readable
  <2>2. Len(readable) \in Nat /\ DOMAIN readable = 1..Len(readable)
        /\ \A i \in DOMAIN readable : readable[i] \in ToSet(readable)
    BY <2>1, SeqHas
  <2>3. data = [i \in 1..Len(readable) |-> data[i]]
    BY <2>2
  <2>4. \A i \in 1..Len(readable) : data[i] \in w.peer
    BY <2>1, <2>2
  <2> HIDE DEF data
  <2>5. IsSeq(data) /\ ToSet(data) = {data[i] : i \in 1..Len(readable)}
    BY <2>2, <2>3, FunctionIs
  <2> QED
    BY <2>4, <2>5
<1>2. IsSeq(closed) /\ ToSet(closed) \subseteq {"CloseNotify"}
  <2>1. CASE e.closeAt # <<>> /\ ~e.closeTold
    BY <2>1, OneIs
  <2>2. CASE ~(e.closeAt # <<>> /\ ~e.closeTold)
    <3>1. IsSeq(closed) /\ ToSet(closed) = {}
      BY <2>2, EmptyIs
    <3> QED
      BY <3>1
  <2> QED
    BY <2>1, <2>2
<1>3. IsSeq(e.told) /\ IsSeq(e.events)
  BY DEF EngineOK
<1> HIDE DEF data, closed
<1>4. /\ IsSeq(told)
      /\ ToSet(told) = ToSet(e.told) \cup ToSet(e.events) \cup ToSet(data) \cup ToSet(closed)
  <2> DEFINE a == e.told
             b == e.events
             ab == a \o b
             abc == ab \o data
  <2>1. IsSeq(ab) /\ ToSet(ab) = ToSet(a) \cup ToSet(b)
    <3> HIDE DEF a, b
    <3>1. IsSeq(a) /\ IsSeq(b)
      BY <1>3 DEF a, b
    <3> QED
      BY <3>1, ConcatIs
  <2> HIDE DEF ab
  <2>2. IsSeq(abc) /\ ToSet(abc) = ToSet(ab) \cup ToSet(data)
    BY <1>1, <2>1, ConcatIs
  <2> HIDE DEF abc
  <2>3. IsSeq(abc \o closed) /\ ToSet(abc \o closed) = ToSet(abc) \cup ToSet(closed)
    BY <1>2, <2>2, ConcatIs
  <2>4. told = abc \o closed
    BY DEF abc, ab, a, b
  <2> HIDE DEF told
  <2> QED
    BY <2>1, <2>2, <2>3, <2>4
<1>5. QueueOK(left, w.peer, w.heard)
  <2>1. QueueOK(rx, w.peer, w.heard)
    BY DEF EngineOK
  <2> HIDE DEF rx, done
  <2> QED
    BY <2>1, MarkedOK, PurgedOK
<1>6. Polled(e) = polled
  <2>1. MarkDone(rx, LAMBDA x : x.clear /\ x.rec.ct = "data") = Marked(rx, done)
    <3> HIDE DEF rx
    <3> QED
      BY DEF MarkDone, Marked
  <2> QED
    BY <2>1 DEF Polled
<1> HIDE DEF left, told
<1>7. Becomes(e, before, w) /\ before.err = e.err
  BY <1>5 DEF Becomes, Keeps, SameKeys, EngineOK, Fields
<1> HIDE DEF before
<1>8. Becomes(before, acked, w) /\ acked.err = before.err
  BY <1>7, MaybeScheduleHandshakeAckOK DEF Becomes
<1>9. Becomes(e, acked, w) /\ acked.err = e.err
  BY <1>7, <1>8, Chain DEF Becomes
<1> HIDE DEF acked
<1>10. DatagramsOK(<<>>, w.own, w.said)
  BY EmptyIs DEF DatagramsOK
<1>11. Becomes(e, polled, w) /\ polled.err = e.err
  BY <1>9, <1>10 DEF Becomes, Keeps, SameKeys, EngineOK, Fields
<1>12. Drained(e) = drained
  <2>1. polled.told = e.told
    BY <1>11 DEF Becomes, Keeps
  <2> HIDE DEF polled
  <2> QED
    BY <1>6, <2>1 DEF Drained, told, data, closed
<1> HIDE DEF polled
<1>13. EngineOK(drained, w)
  BY <1>4, <1>11, EmptyIs DEF Becomes, EngineOK, Fields
<1>14. /\ drained.told = told /\ drained.events = <<>> /\ drained.err = e.err
       /\ drained.state = e.state /\ SameKeys(e, drained)
  BY <1>11 DEF Becomes, Keeps, EngineOK, Fields, SameKeys
<1> HIDE DEF drained
<1> QED
  BY <1>1, <1>2, <1>4, <1>12, <1>13, <1>14, EmptyIs

\* The endpoint has told of the connection; or is about to.
Told(e) == "Connected" \in ToSet(e.told)
Reported(e) == "Connected" \in ToSet(e.told) \/ "Connected" \in ToSet(e.events)

\* What leaves the handshake where it is, but may report other events.
Reports(e, f) == (Reported(f) <=> Reported(e)) /\ (Told(e) => Told(f))

Steady(e, f) == f.state = e.state /\ SameKeys(e, f) /\ Reports(e, f)

Goes(e, f, w) == EngineOK(f, w) /\ Steady(e, f)

LEMMA BecomesGoes ==
    ASSUME NEW w, NEW e, NEW f, Becomes(e, f, w)
    PROVE  Goes(e, f, w)
  BY DEF Becomes, Keeps, Goes, Steady, Reports, Reported, Told

LEMMA GoesOn ==
    ASSUME NEW w, NEW e, NEW f, NEW g, Goes(e, f, w), Goes(f, g, w)
    PROVE  Goes(e, g, w)
  BY DEF Goes, Steady, Reports, SameKeys

LEMMA DrainedGoes ==
    ASSUME NEW w, NEW e, EngineOK(e, w), "Connected" \notin w.peer
    PROVE  /\ Goes(e, Drained(e), w) /\ Drained(e).err = e.err
           /\ Reported(e) => Told(Drained(e))
<1> DEFINE f == Drained(e)
<1>1. /\ EngineOK(f, w)
      /\ f.err = e.err /\ f.state = e.state /\ SameKeys(e, f)
      /\ ToSet(f.events) = {}
      /\ ToSet(e.told) \cup ToSet(e.events) \subseteq ToSet(f.told)
      /\ ToSet(f.told) \subseteq
            ToSet(e.told) \cup ToSet(e.events) \cup w.peer \cup {"CloseNotify"}
  BY DrainedOK
<1> HIDE DEF f
<1>2. Reports(e, f) /\ (Reported(e) => Told(f))
  BY <1>1 DEF Reports, Reported, Told
<1>3. Goes(e, f, w) /\ f.err = e.err
  BY <1>1, <1>2 DEF Goes, Steady
<1> QED
  BY <1>2, <1>3 DEF f

LEMMA FlightBeginOK ==
    ASSUME NEW w, NEW e, EngineOK(e, w)
    PROVE  Becomes(e, FlightBegin(e), w) /\ FlightBegin(e).err = e.err
           /\ FlightBegin(e).nextSeq = e.nextSeq
<1>1. FlightOK(<<>>, w.own, w.said)
  BY EmptyIs DEF FlightOK
<1> QED
  BY <1>1 DEF FlightBegin, Becomes, Keeps, SameKeys, EngineOK, Fields

LEMMA FlightStopOK ==
    ASSUME NEW w, NEW e, EngineOK(e, w)
    PROVE  Becomes(e, FlightStopResendTimers(e), w) /\ FlightStopResendTimers(e).err = e.err
  BY DEF FlightStopResendTimers, Becomes, Keeps, SameKeys, EngineOK, Fields

LEMMA CancelFlightsOK ==
    ASSUME NEW w, NEW e, EngineOK(e, w)
    PROVE  Becomes(e, CancelFlights(e), w) /\ Becomes(e, Abort(e), w)
<1>1. FlightOK(<<>>, w.own, w.said) /\ DatagramsOK(<<>>, w.own, w.said)
  BY EmptyIs DEF FlightOK, DatagramsOK
<1> QED
  BY <1>1 DEF Abort, CancelFlights, FlightStopResendTimers, Becomes, Keeps, SameKeys, EngineOK, Fields

LEMMA AdvanceOK ==
    ASSUME NEW w, NEW e, EngineOK(e, w)
    PROVE  Becomes(e, AdvancePeerHandshakeSeq(e), w) /\ AdvancePeerHandshakeSeq(e).err = e.err
  BY DEF AdvancePeerHandshakeSeq, Becomes, Keeps, SameKeys, EngineOK, Fields

LEMMA ReleaseOK ==
    ASSUME NEW w, NEW e, EngineOK(e, w)
    PROVE  Becomes(e, ReleaseApplicationData(e), w) /\ ReleaseApplicationData(e).err = e.err
  BY DEF ReleaseApplicationData, Becomes, Keeps, SameKeys, EngineOK, Fields

LEMMA ResetForHelloRetryOK ==
    ASSUME NEW w, NEW e, EngineOK(e, w)
    PROVE  Becomes(e, ResetForHelloRetry(e), w) /\ ResetForHelloRetry(e).err = e.err
<1> DEFINE rx == e.rx
           ss == [i \in DOMAIN rx |-> IF ~rx[i][1].done THEN <<rx[i]>> ELSE <<>>]
           new == FlattenSeq(ss)
<1>1. QueueOK(rx, w.peer, w.heard)
  BY DEF EngineOK
<1>2. ResetForHelloRetry(e) = [e EXCEPT !.hsSeq = 0, !.ack = "none", !.rx = new]
  BY DEF ResetForHelloRetry, EngineOK, Fields
<1> HIDE DEF rx
<1>3. Len(rx) \in Nat /\ DOMAIN rx = 1..Len(rx) /\ \A i \in DOMAIN rx : rx[i] \in ToSet(rx)
  BY <1>1, SeqHas DEF QueueOK
<1>4. \A i \in 1..Len(rx) : ss[i] = <<>> \/ \E x \in ToSet(rx) : ss[i] = <<x>>
  BY <1>3
<1>5. ss = [i \in 1..Len(rx) |-> ss[i]]
  BY <1>3
<1> HIDE DEF ss
<1>6. IsSeq(new) /\ ToSet(new) \subseteq ToSet(rx)
  BY <1>3, <1>4, <1>5, FilterIs
<1> HIDE DEF new
<1>7. QueueOK(new, w.peer, w.heard)
  BY <1>1, <1>6 DEF QueueOK
<1> QED
  BY <1>2, <1>7 DEF Becomes, Keeps, SameKeys, EngineOK, Fields

LEMMA UpdateSendKeysOK ==
    ASSUME NEW w, NEW e, EngineOK(e, w)
    PROVE  Becomes(e, UpdateSendKeys(e), w)
  BY DEF UpdateSendKeys, Becomes, Keeps, SameKeys, EngineOK, Fields

LEMMA UpdateRecvKeysOK ==
    ASSUME NEW w, NEW e, EngineOK(e, w)
    PROVE  Becomes(e, UpdateRecvKeys(e), w)
<1> DEFINE kept == IF Len(e.recv) = MAX_RECV_EPOCHS THEN Tail(e.recv) ELSE e.recv
           recv == Append(kept, [epoch |-> Last(e.recv).epoch + 1, win |-> NewWindow])
<1>1. UpdateRecvKeys(e) = [e EXCEPT !.recv = recv]
  BY DEF UpdateRecvKeys
<1> HIDE DEF recv
<1> QED
  BY <1>1 DEF Becomes, Keeps, SameKeys, EngineOK, Fields

\* A message type without claims.
LEMMA CreateKeyUpdateOK ==
    ASSUME NEW w, NEW e, EngineOK(e, w), "KeyUpdate" \notin DOMAIN w.said, NEW request
    PROVE  Becomes(e, CreateKeyUpdate(e, request), w)
<1> DEFINE b == FlightBegin(e)
           begun == [b EXCEPT !.nextSeq = @ + 1]
           rec == Rec("handshake", e.appEpoch, "KeyUpdate", e.nextSeq, 0, 1, 1, Body(<<request>>, <<>>))
           sent == CreateRecord(begun, rec, TRUE)
<1>1. Becomes(e, b, w)
  BY FlightBeginOK
<1>2. CreateKeyUpdate(e, request) \in {sent, UpdateSendKeys(sent)}
  BY DEF CreateKeyUpdate
<1>3. RecordOK(rec, w.own, w.said)
  BY DEF RecordOK, Rec
<1> HIDE DEF b, rec
<1>4. Becomes(e, begun, w)
  BY <1>1 DEF Becomes, Keeps, SameKeys, EngineOK, Fields
<1> HIDE DEF begun
<1>5. Becomes(begun, sent, w)
  BY <1>3, <1>4, CreateRecordOK DEF Becomes
<1>6. Becomes(e, sent, w)
  BY <1>4, <1>5, Chain DEF Becomes
<1> HIDE DEF sent
<1>7. Becomes(e, UpdateSendKeys(sent), w)
  BY <1>6, UpdateSendKeysOK, Chain DEF Becomes
<1> QED
  BY <1>2, <1>6, <1>7

LEMMA InitiateKeyUpdateOK ==
    ASSUME NEW w, NEW e, EngineOK(e, w), "KeyUpdate" \notin DOMAIN w.said
    PROVE  Becomes(e, InitiateKeyUpdate(e), w)
<1> DEFINE asked == [e EXCEPT !.needsUpdate = FALSE]
<1>1. Becomes(e, e, w) /\ Becomes(e, asked, w)
  BY DEF Becomes, Keeps, SameKeys, EngineOK, Fields
<1>2. InitiateKeyUpdate(e) \in {e, asked, CreateKeyUpdate(asked, "requested")}
  BY DEF InitiateKeyUpdate
<1> HIDE DEF asked
<1>3. Becomes(asked, CreateKeyUpdate(asked, "requested"), w)
  BY <1>1, CreateKeyUpdateOK DEF Becomes
<1>4. Becomes(e, CreateKeyUpdate(asked, "requested"), w)
  BY <1>1, <1>3, Chain DEF Becomes
<1> QED
  BY <1>1, <1>2, <1>4

LEMMA AnswerKeyUpdateOK ==
    ASSUME NEW w, NEW e, EngineOK(e, w), "KeyUpdate" \notin DOMAIN w.said
    PROVE  Becomes(e, AnswerKeyUpdate(e), w)
<1> DEFINE f == CreateKeyUpdate(e, "notRequested")
<1>1. Becomes(e, f, w)
  BY CreateKeyUpdateOK
<1>2. AnswerKeyUpdate(e) \in {e, [f EXCEPT !.pendingResponse = FALSE]}
  BY DEF AnswerKeyUpdate
<1> HIDE DEF f
<1> QED
  BY <1>1, <1>2 DEF Becomes, Keeps, SameKeys, EngineOK, Fields

LEMMA TakeKeyUpdateOK ==
    ASSUME NEW w, NEW e, EngineOK(e, w), NEW acked
    PROVE  Becomes(e, TakeKeyUpdate(e, acked), w)
<1> DEFINE t == TakeHandshake(e, "KeyUpdate")
           taken == UpdateRecvKeys(t)
           sent == SendAck(taken)
           request == MessageBody(e).args[1]
           told == [sent EXCEPT !.pendingResponse = @ \/ request = "requested"]
<1>1. Becomes(e, t, w)
  BY TakeHandshakeOK
<1>2. TakeKeyUpdate(e, acked) \in {e, AdvancePeerHandshakeSeq(told), AdvancePeerHandshakeSeq(taken)}
  BY DEF TakeKeyUpdate
<1> HIDE DEF t
<1>3. Becomes(e, taken, w)
  BY <1>1, UpdateRecvKeysOK, Chain DEF Becomes
<1> HIDE DEF taken
<1>4. Becomes(e, sent, w)
  BY <1>3, SendAckOK, Chain DEF Becomes
<1> HIDE DEF sent
<1>5. Becomes(e, told, w)
  BY <1>4 DEF Becomes, Keeps, SameKeys, EngineOK, Fields
<1> HIDE DEF told
<1>6. Becomes(e, AdvancePeerHandshakeSeq(told), w) /\ Becomes(e, AdvancePeerHandshakeSeq(taken), w)
  BY <1>3, <1>5, AdvanceOK, Chain DEF Becomes
<1>7. Becomes(e, e, w)
  BY DEF Becomes, Keeps, SameKeys
<1> QED
  BY <1>2, <1>6, <1>7

LEMMA AppDataOK ==
    ASSUME NEW w, NEW e, NEW d \in w.own
    PROVE  RecordOK(AppData(e, d), w.own, w.said)
  BY DEF RecordOK, AppData, Single, Rec, Body

LEMMA SendQueuedOK ==
    ASSUME NEW w, NEW e, EngineOK(e, w)
    PROVE  Goes(e, SendQueued(e), w)
<1> DEFINE s == e.queued
           n == Len(s)
           base == [e EXCEPT !.queued = <<>>]
<1>1. Goes(e, base, w)
  BY EmptyIs DEF EngineOK, Fields, Goes, Steady, SameKeys, Reports, Reported, Told
<1>2. n \in Nat /\ DOMAIN s = 1..n /\ \A i \in 1..n : s[i] \in w.own
  BY SeqHas DEF EngineOK
<1>3. SendQueued(e) = SentAll(e, base, s)
  BY DEF SendQueued, SentAll
<1> HIDE DEF s, n, base
<1>4. PICK g : Run("send", e, base, s, n, g) /\ g[n] = SentAll(e, base, s)
  BY <1>2, SendFold
<1> DEFINE T == {k \in 0..n : Becomes(base, g[k], w)}
<1>5. 0 \in T
  BY <1>1, <1>2, <1>4 DEF Run, Becomes, Keeps, SameKeys, Goes
<1>6. ASSUME NEW k \in 0..(n - 1), k \in T PROVE k + 1 \in T
  <2>1. k + 1 \in 1..n /\ Becomes(base, g[k], w)
    BY <1>2, <1>6
  <2>2. g[k + 1] = CreateRecord(g[k], AppData(e, s[k + 1]), FALSE)
    BY <1>4 DEF Run, FoldStep
  <2>3. RecordOK(AppData(e, s[k + 1]), w.own, w.said)
    BY <1>2, <2>1, AppDataOK
  <2>4. Becomes(g[k], g[k + 1], w)
    BY <2>1, <2>2, <2>3, CreateRecordOK DEF Becomes
  <2> QED
    BY <2>1, <2>4, Chain DEF Becomes
<1>7. n \in T
  <2> HIDE DEF T
  <2> QED
    BY <1>2, <1>5, <1>6, InductTo
<1>8. Goes(base, SendQueued(e), w)
  BY <1>3, <1>4, <1>7, BecomesGoes
<1> QED
  BY <1>1, <1>8, GoesOn

\* The connection, and another event.
LEMMA ReportConnectedOK ==
    ASSUME NEW w, NEW e, EngineOK(e, w)
    PROVE  LET f == ReportConnected(e)
           IN  EngineOK(f, w) /\ f.err = e.err /\ f.state = e.state /\ SameKeys(e, f) /\ Reported(f)
<1> DEFINE two == <<"Connected", "KeyingMaterial">>
           events == e.events \o two
<1>1. IsSeq(events) /\ "Connected" \in ToSet(events)
  <2>1. IsSeq(two) /\ "Connected" \in ToSet(two)
    BY DEF IsSeq, ToSet
  <2>2. IsSeq(e.events)
    BY DEF EngineOK
  <2> HIDE DEF two
  <2> QED
    BY <2>1, <2>2, ConcatIs
<1>2. ReportConnected(e) = [e EXCEPT !.events = events]
  BY DEF ReportConnected
<1> HIDE DEF events
<1> QED
  BY <1>1, <1>2 DEF EngineOK, Fields, SameKeys, Reported

LEMMA PeerCertOK ==
    ASSUME NEW w, NEW e, EngineOK(e, w)
    PROVE  LET f == [e EXCEPT !.peerCert = TRUE, !.events = Append(@, "PeerCert")]
           IN  /\ EngineOK(f, w) /\ f.err = e.err /\ f.state = e.state
               /\ (Reported(f) <=> Reported(e))
               /\ f.peerCert = TRUE
               /\ SameKeys([e EXCEPT !.peerCert = TRUE], f)
<1> DEFINE events == Append(e.events, "PeerCert")
           f == [e EXCEPT !.peerCert = TRUE, !.events = events]
<1>1. IsSeq(events) /\ ToSet(events) = ToSet(e.events) \cup {"PeerCert"}
  BY AppendIs DEF EngineOK
<1> HIDE DEF events
<1>2. EngineOK(f, w)
  BY <1>1 DEF EngineOK, Fields
<1>3. f.err = e.err /\ f.state = e.state /\ f.peerCert = TRUE /\ f.told = e.told /\ f.events = events
      /\ SameKeys([e EXCEPT !.peerCert = TRUE], f)
  BY DEF EngineOK, Fields, SameKeys
<1>4. f = [e EXCEPT !.peerCert = TRUE, !.events = Append(@, "PeerCert")]
  BY DEF events
<1> HIDE DEF f
<1>5. Reported(f) <=> Reported(e)
  BY <1>1, <1>3 DEF Reported
<1> QED
  BY <1>2, <1>3, <1>4, <1>5

\* A newly made endpoint.
LEMMA NewEndpointOK ==
    ASSUME NEW w, NEW p, NEW limit
    PROVE  LET e == NewEndpoint(p, limit)
           IN  /\ EngineOK(e, w) /\ ~Reported(e)
               /\ e.err = "none" /\ e.transcript = <<>>
               /\ e.helloRetry = FALSE /\ e.authRequested = FALSE /\ e.peerCert = FALSE
               /\ e.state = (IF p = "client" THEN "SendClientHello" ELSE "AwaitClientHello")
<1> DEFINE e == NewEndpoint(p, limit)
<1>1. Fields \subseteq DOMAIN e
  BY DEF NewEndpoint, Joined, NewEngine, Fields
<1>2. /\ e.err = "none" /\ e.tx = <<>> /\ e.saved = <<>> /\ e.rx = <<>>
      /\ e.queued = <<>> /\ e.accepted = <<>> /\ e.events = <<>> /\ e.told = <<>>
      /\ e.transcript = <<>>
      /\ e.helloRetry = FALSE /\ e.authRequested = FALSE /\ e.peerCert = FALSE
      /\ e.state = (IF p = "client" THEN "SendClientHello" ELSE "AwaitClientHello")
  BY DEF NewEndpoint, Joined, NewEngine
<1>3. /\ DatagramsOK(<<>>, w.own, w.said) /\ FlightOK(<<>>, w.own, w.said)
      /\ QueueOK(<<>>, w.peer, w.heard) /\ IsSeq(<<>>) /\ ToSet(<<>>) = {}
  BY EmptyIs DEF DatagramsOK, FlightOK, QueueOK
<1> HIDE DEF e
<1>4. EngineOK(e, w) /\ ~Reported(e)
  BY <1>1, <1>2, <1>3 DEF EngineOK, Reported
<1> QED
  BY <1>2, <1>4 DEF e

----------------------------------------------------------------------------
(* The inductive invariant. A message of one endpoint claims what that     *)
(* endpoint holds and never changes again: the server in its ServerHello   *)
(* the suite, the client in its Finished the secret of the handshake and   *)
(* all that was said. The transcript tells where in it each secret was     *)
(* drawn: after the second or, with a HelloRetryRequest, the fourth entry, *)
(* and at the only Finished of the server.                                 *)

Unfinished(t) == \A i \in DOMAIN t : t[i][1] # "Finished"

\* Of the handshake there are n messages since its last beginning.
Greeted(e, n) ==
    /\ Unfinished(e.transcript)
    /\ Len(e.transcript) = IF e.helloRetry THEN n + 2 ELSE n
    /\ e.transcript # <<>> =>
          e.transcript[1][1] = IF e.helloRetry THEN "message_hash" ELSE "ClientHello"

Hellos(t) == IF t[1][1] = "ClientHello" THEN 2 ELSE 4

HandshakeKeyed(e) ==
    /\ e.group = e.shared
    /\ Hellos(e.transcript) \in 1..Len(e.transcript)
    /\ e.hsSecret = << <<e.shared, 0>> >> \o SubSeq(e.transcript, 1, Hellos(e.transcript))

\* The server's Finished is the only one among the first n messages.
ApplicationKeyed(e, n) ==
    \E k \in 1..n :
        /\ \A i \in 1..n : e.transcript[i][1] = "Finished" <=> i = k
        /\ e.appSecret = << <<e.shared, 1>> >> \o SubSeq(e.transcript, 1, k)

\* What the messages of an endpoint claim; "history" is what its Finished may be
\* made from and "length" that of the client's certificate. Before the server has
\* chosen the suite it only asks for another hello.
Suites(s) == {<<>>} \cup IF s.state = "AwaitClientHello" THEN {} ELSE {<<s.suite>>}

VerifyData(c) == << <<"client", 0>> >> \o (c.hsSecret \o c.transcript)

Claims(p, e, history, length) ==
    IF p = "server" THEN [t \in {"ServerHello"} |-> Suites(e)]
    ELSE [t \in {"Certificate", "Finished"} |->
             IF t = "Certificate" THEN {length = 0} ELSE history]

Said(p, e, length) ==
    Claims(p, e, IF Reported(e) THEN {VerifyData(e)} ELSE {}, length)

\* What has left it: when its call ended it had told its application.
Sent(p, e, length) ==
    Claims(p, e, IF Told(e) THEN {VerifyData(e)} ELSE {}, length)

World(p, es, length) ==
    [own |-> ToSet(DATA[p]), said |-> Said(p, es[p], length),
     peer |-> ToSet(DATA[Peer(p)]), heard |-> Sent(Peer(p), es[Peer(p)], length)]

\* The states an endpoint can be in once it is connected.
Over == {"AwaitApplicationData", "HalfClosedLocal", "Closed"}

\* The server in a state of the handshake; "required" is whether it asks for a
\* certificate.
ServerRules(s, state, required, length) ==
    /\ state = "AwaitClientHello" => Greeted(s, 0)
    /\ state = "SendServerHello" => Greeted(s, 1) /\ s.group = s.shared
    /\ state \in {"SendEncryptedExtensions", "SendCertificateRequest", "SendCertificate",
                  "SendCertificateVerify", "SendFinished"} =>
          HandshakeKeyed(s) /\ Unfinished(s.transcript)
    /\ state \in {"AwaitCertificate", "AwaitCertificateVerify", "AwaitFinished"} =>
          HandshakeKeyed(s) /\ ApplicationKeyed(s, Len(s.transcript))
    /\ state \in {"AwaitClientHello", "SendServerHello", "SendEncryptedExtensions",
                  "SendCertificateRequest"} => s.authRequested = FALSE
    /\ state \in {"SendCertificateRequest", "AwaitCertificate"} => required
    /\ state \in {"SendCertificate", "SendCertificateVerify", "SendFinished"} =>
          s.authRequested = required
    /\ state \in {"AwaitClientHello", "SendServerHello", "SendEncryptedExtensions",
                  "SendCertificateRequest", "SendCertificate", "SendCertificateVerify",
                  "SendFinished", "AwaitCertificate"} => s.peerCert = FALSE
    /\ state \in {"AwaitCertificateVerify", "AwaitFinished"} =>
          s.peerCert = (required /\ length > 0)

\* The client's Finished has told the server what the client holds.
ServerDone(s, c, required, length) ==
    /\ s.peerCert = (required /\ length > 0)
    /\ HandshakeKeyed(s) /\ ApplicationKeyed(s, Len(s.transcript) - 1)
    /\ Told(c) /\ VerifyData(c) = VerifyData(s)

ServerOK(s, c, required, length) ==
    /\ s.err = "none" => ServerRules(s, s.state, required, length)
    /\ Reported(s) => ServerDone(s, c, required, length)

\* The client in a state of the handshake.
SuiteAgreed(c, s) == s.state # "AwaitClientHello" /\ c.suite = s.suite

ClientRules(c, state, s) ==
    /\ state = "SendClientHello" => Greeted(c, 0)
    /\ state = "AwaitServerHello" => Greeted(c, 1)
    /\ state \in {"AwaitEncryptedExtensions", "AwaitCertificateRequest", "AwaitCertificate",
                  "AwaitCertificateVerify", "AwaitFinished"} =>
          HandshakeKeyed(c) /\ Unfinished(c.transcript) /\ SuiteAgreed(c, s)
    /\ state \in {"SendCertificate", "SendCertificateVerify", "SendFinished"} =>
          HandshakeKeyed(c) /\ ApplicationKeyed(c, Len(c.transcript)) /\ SuiteAgreed(c, s)
    /\ state \in {"AwaitCertificateVerify", "AwaitFinished", "SendCertificate",
                  "SendCertificateVerify", "SendFinished"} => c.peerCert = TRUE

ClientDone(c, s) ==
    /\ HandshakeKeyed(c) /\ ApplicationKeyed(c, Len(c.transcript) - 1)
    /\ SuiteAgreed(c, s) /\ c.peerCert = TRUE

ClientOK(c, s) ==
    /\ c.err = "none" => ClientRules(c, c.state, s)
    /\ Reported(c) => ClientDone(c, s)

\* Its messages are in order, and a connected endpoint is past the handshake.
EndpointOK(p, es, length) ==
    /\ EngineOK(es[p], World(p, es, length))
    /\ Reported(es[p]) /\ es[p].err = "none" => es[p].state \in Over

MessageOK(m, es, length) ==
    /\ m.to \in P
    /\ RecordsOK(m.records, World(m.to, es, length).peer, World(m.to, es, length).heard)

Length == cfg.client.certLen
Required == cfg.server.requireCert

IInv ==
    /\ cfg \in SCENARIOS
    /\ ep = [p \in P |-> ep[p]]
    /\ busy \in P \cup {"nobody"}
    /\ busy \in P => ep[busy].err = "none"
    /\ \A p \in P : EndpointOK(p, ep, Length)
    /\ \A m \in net : MessageOK(m, ep, Length)
    /\ ServerOK(ep["server"], ep["client"], Required, Length)
    /\ ClientOK(ep["client"], ep["server"])


----------------------------------------------------------------------------
(* The claims grow as the two go on.                                       *)

\* Every claim is kept.
Grows(a, b) == DOMAIN b = DOMAIN a /\ \A t \in DOMAIN b : a[t] \subseteq b[t]

\* Endpoint p goes from e to f: the server keeps the suite it has chosen, and a
\* connected client what its Finished told.
Follows(p, e, f) ==
    IF p = "server"
    THEN e.state # "AwaitClientHello" => f.state # "AwaitClientHello" /\ f.suite = e.suite
    ELSE /\ Reported(e) => Reported(f) /\ VerifyData(f) = VerifyData(e)
         /\ Told(e) => Told(f)

LEMMA WorldIs ==
    ASSUME NEW p, NEW es, NEW length
    PROVE  LET w == World(p, es, length)
           IN  /\ w.own = ToSet(DATA[p]) /\ w.peer = ToSet(DATA[Peer(p)])
               /\ w.said = Said(p, es[p], length)
               /\ w.heard = Sent(Peer(p), es[Peer(p)], length)
  BY DEF World

LEMMA ClaimsAre ==
    ASSUME NEW e, NEW history, NEW length
    PROVE  LET s == Claims("server", e, history, length)
               c == Claims("client", e, history, length)
           IN  /\ DOMAIN s = {"ServerHello"} /\ s["ServerHello"] = Suites(e)
               /\ DOMAIN c = {"Certificate", "Finished"}
               /\ c["Certificate"] = {length = 0} /\ c["Finished"] = history
<1> DEFINE Value(t) == IF t = "Certificate" THEN {length = 0} ELSE history
<1>1. Value("Certificate") = {length = 0} /\ Value("Finished") = history
  OBVIOUS
<1>2. Claims("client", e, history, length) = [t \in {"Certificate", "Finished"} |-> Value(t)]
      /\ Claims("server", e, history, length) = [t \in {"ServerHello"} |-> Suites(e)]
  BY DEF Claims
<1> HIDE DEF Value
<1> QED
  BY <1>1, <1>2

LEMMA SaidClaims ==
    ASSUME NEW e, NEW length
    PROVE  LET s == Said("server", e, length)
               c == Said("client", e, length)
           IN  /\ DOMAIN s = {"ServerHello"} /\ s["ServerHello"] = Suites(e)
               /\ DOMAIN c = {"Certificate", "Finished"} /\ c["Certificate"] = {length = 0}
               /\ c["Finished"] = IF Reported(e) THEN {VerifyData(e)} ELSE {}
<1> DEFINE history == IF Reported(e) THEN {VerifyData(e)} ELSE {}
<1>1. /\ Said("server", e, length) = Claims("server", e, history, length)
      /\ Said("client", e, length) = Claims("client", e, history, length)
  BY DEF Said
<1> HIDE DEF history
<1>2. LET s == Said("server", e, length)
          c == Said("client", e, length)
      IN  /\ DOMAIN s = {"ServerHello"} /\ s["ServerHello"] = Suites(e)
          /\ DOMAIN c = {"Certificate", "Finished"} /\ c["Certificate"] = {length = 0}
          /\ c["Finished"] = history
  BY <1>1, ClaimsAre
<1> QED
  BY <1>2 DEF history

LEMMA SentClaims ==
    ASSUME NEW e, NEW length
    PROVE  LET s == Sent("server", e, length)
               c == Sent("client", e, length)
           IN  /\ DOMAIN s = {"ServerHello"} /\ s["ServerHello"] = Suites(e)
               /\ DOMAIN c = {"Certificate", "Finished"} /\ c["Certificate"] = {length = 0}
               /\ c["Finished"] = IF Told(e) THEN {VerifyData(e)} ELSE {}
<1> DEFINE history == IF Told(e) THEN {VerifyData(e)} ELSE {}
<1>1. /\ Sent("server", e, length) = Claims("server", e, history, length)
      /\ Sent("client", e, length) = Claims("client", e, history, length)
  BY DEF Sent
<1> HIDE DEF history
<1>2. LET s == Sent("server", e, length)
          c == Sent("client", e, length)
      IN  /\ DOMAIN s = {"ServerHello"} /\ s["ServerHello"] = Suites(e)
          /\ DOMAIN c = {"Certificate", "Finished"} /\ c["Certificate"] = {length = 0}
          /\ c["Finished"] = history
  BY <1>1, ClaimsAre
<1> QED
  BY <1>2 DEF history

LEMMA PeerIs ==
    ASSUME NEW p \in P
    PROVE  /\ Peer(p) \in P /\ Peer(Peer(p)) = p /\ Peer(p) # p
           /\ Peer("client") = "server" /\ Peer("server") = "client"
  BY DEF P, Peer

LEMMA ClaimsGrow ==
    ASSUME NEW p \in P, NEW e, NEW f, Follows(p, e, f), NEW length,
           NEW history, NEW longer, p = "client" => history \subseteq longer
    PROVE  Grows(Claims(p, e, history, length), Claims(p, f, longer, length))
<1>1. CASE p = "server"
  <2>1. Suites(e) \subseteq Suites(f)
    BY <1>1 DEF Follows, Suites
  <2> DEFINE a == Claims("server", e, history, length)
             b == Claims("server", f, longer, length)
  <2>2. /\ DOMAIN a = {"ServerHello"} /\ a["ServerHello"] = Suites(e)
        /\ DOMAIN b = {"ServerHello"} /\ b["ServerHello"] = Suites(f)
    BY ClaimsAre
  <2> HIDE DEF a, b
  <2>3. Grows(a, b)
    BY <2>1, <2>2 DEF Grows
  <2> QED
    BY <1>1, <2>3 DEF a, b
<1>2. CASE p = "client"
  <2> DEFINE a == Claims("client", e, history, length)
             b == Claims("client", f, longer, length)
  <2>1. /\ DOMAIN a = {"Certificate", "Finished"} /\ a["Certificate"] = {length = 0}
        /\ a["Finished"] = history
        /\ DOMAIN b = {"Certificate", "Finished"} /\ b["Certificate"] = {length = 0}
        /\ b["Finished"] = longer
    BY ClaimsAre
  <2> HIDE DEF a, b
  <2>2. Grows(a, b)
    BY <1>2, <2>1 DEF Grows
  <2> QED
    BY <1>2, <2>2 DEF a, b
<1> QED
  BY <1>1, <1>2 DEF P

LEMMA ToldReported == ASSUME NEW e, Told(e) PROVE Reported(e)
  BY DEF Told, Reported

\* What an endpoint says it goes on saying, and what it sent it has sent; and
\* when a call ends what was said is sent.
LEMMA SayingGrows ==
    ASSUME NEW p \in P, NEW e, NEW f, Follows(p, e, f), NEW length
    PROVE  /\ Grows(Said(p, e, length), Said(p, f, length))
           /\ Grows(Sent(p, e, length), Sent(p, f, length))
           /\ (p = "client" /\ Reported(e) => Told(f)) =>
                  Grows(Said(p, e, length), Sent(p, f, length))
<1> DEFINE said(h) == IF Reported(h) THEN {VerifyData(h)} ELSE {}
           sent(h) == IF Told(h) THEN {VerifyData(h)} ELSE {}
<1>1. p = "client" => said(e) \subseteq said(f) /\ sent(e) \subseteq sent(f)
  BY ToldReported DEF Follows
<1>2. (p = "client" /\ Reported(e) => Told(f)) => (p = "client" => said(e) \subseteq sent(f))
  BY DEF Follows
<1>3. /\ Said(p, e, length) = Claims(p, e, said(e), length)
      /\ Said(p, f, length) = Claims(p, f, said(f), length)
      /\ Sent(p, e, length) = Claims(p, e, sent(e), length)
      /\ Sent(p, f, length) = Claims(p, f, sent(f), length)
  BY DEF Said, Sent
<1> HIDE DEF said, sent
<1> QED
  BY <1>1, <1>2, <1>3, ClaimsGrow

LEMMA WorldGrows ==
    ASSUME NEW p \in P, NEW es, NEW fs, NEW length,
           Follows(p, es[p], fs[p]), Follows(Peer(p), es[Peer(p)], fs[Peer(p)])
    PROVE  LET w == World(p, es, length)
               v == World(p, fs, length)
           IN  v.own = w.own /\ v.peer = w.peer /\ Grows(w.said, v.said) /\ Grows(w.heard, v.heard)
<1>1. /\ Grows(Said(p, es[p], length), Said(p, fs[p], length))
      /\ Grows(Sent(Peer(p), es[Peer(p)], length), Sent(Peer(p), fs[Peer(p)], length))
  BY PeerIs, SayingGrows
<1> QED
  BY <1>1, WorldIs

LEMMA RecordsGrow ==
    ASSUME NEW a, NEW b, Grows(a, b), NEW data, NEW s, RecordsOK(s, data, a)
    PROVE  RecordsOK(s, data, b)
  BY DEF RecordsOK, RecordOK, Grows

\* More may be sent as the two go on.
LEMMA EngineGrows ==
    ASSUME NEW w, NEW v, v.own = w.own, v.peer = w.peer,
           Grows(w.said, v.said), Grows(w.heard, v.heard), NEW e, EngineOK(e, w)
    PROVE  EngineOK(e, v)
<1>1. DatagramsOK(e.tx, v.own, v.said)
  BY RecordsGrow DEF EngineOK, DatagramsOK
<1>2. FlightOK(e.saved, v.own, v.said)
  BY DEF EngineOK, FlightOK, EntryOK, RecordOK, Grows
<1>3. QueueOK(e.rx, v.peer, v.heard)
  BY DEF EngineOK, QueueOK, ItemsOK, ItemOK, RecordOK, Grows
<1> QED
  BY <1>1, <1>2, <1>3 DEF EngineOK

\* All that is asked of the two in a state rests on what the handshake came to.
LEMMA SameRules ==
    ASSUME NEW e, NEW f, SameKeys(e, f)
    PROVE  /\ VerifyData(f) = VerifyData(e)
           /\ HandshakeKeyed(f) <=> HandshakeKeyed(e)
           /\ \A n : ApplicationKeyed(f, n) <=> ApplicationKeyed(e, n)
           /\ \A state, required, length :
                 ServerRules(f, state, required, length) <=> ServerRules(e, state, required, length)
           /\ \A c, required, length :
                 ServerDone(f, c, required, length) <=> ServerDone(e, c, required, length)
           /\ \A state, s : ClientRules(f, state, s) <=> ClientRules(e, state, s)
           /\ \A s : ClientDone(f, s) <=> ClientDone(e, s)
<1>1. /\ f.transcript = e.transcript /\ f.suite = e.suite /\ f.peerCert = e.peerCert
      /\ f.authRequested = e.authRequested /\ f.group = e.group /\ f.shared = e.shared
  BY DEF SameKeys
<1>2. VerifyData(f) = VerifyData(e)
  BY DEF SameKeys, VerifyData
<1>3. HandshakeKeyed(f) <=> HandshakeKeyed(e)
  BY DEF SameKeys, HandshakeKeyed
<1>4. \A n : ApplicationKeyed(f, n) <=> ApplicationKeyed(e, n)
  BY DEF SameKeys, ApplicationKeyed
<1>5. \A n : Greeted(f, n) <=> Greeted(e, n)
  BY DEF SameKeys, Greeted
<1>6. \A s : SuiteAgreed(f, s) <=> SuiteAgreed(e, s)
  BY <1>1 DEF SuiteAgreed
<1>7. ASSUME NEW state, NEW required, NEW length
      PROVE  ServerRules(f, state, required, length) <=> ServerRules(e, state, required, length)
  BY <1>1, <1>3, <1>4, <1>5 DEF ServerRules
<1>8. ASSUME NEW state, NEW s PROVE ClientRules(f, state, s) <=> ClientRules(e, state, s)
  BY <1>1, <1>3, <1>4, <1>5, <1>6 DEF ClientRules
<1>9. ASSUME NEW c, NEW required, NEW length
      PROVE  ServerDone(f, c, required, length) <=> ServerDone(e, c, required, length)
  BY <1>1, <1>2, <1>3, <1>4 DEF ServerDone
<1>10. ASSUME NEW s PROVE ClientDone(f, s) <=> ClientDone(e, s)
  BY <1>1, <1>3, <1>4, <1>6 DEF ClientDone
<1> QED
  BY <1>2, <1>3, <1>4, <1>7, <1>8, <1>9, <1>10

----------------------------------------------------------------------------
(* Steps of one endpoint.                                                  *)

LEMMA EndpointStep ==
    ASSUME IInv, NEW p \in P, NEW f, ep' = [ep EXCEPT ![p] = f], cfg' = cfg,
           busy' = "nobody" \/ (busy' = p /\ f.err = "none"),
           \A m \in net' : m \in net \/ MessageOK(m, ep', Length),
           EngineOK(f, World(p, ep, Length)) \/ EngineOK(f, World(p, ep', Length)),
           Reported(f) /\ f.err = "none" => f.state \in Over,
           Follows(p, ep[p], f),
           p = "server" => ServerOK(f, ep["client"], Required, Length),
           p = "client" => ClientOK(f, ep["server"])
    PROVE  IInv'
<1> DEFINE c == ep["client"]
           s == ep["server"]
<1>1. /\ ep'[p] = f /\ (\A q \in P : q # p => ep'[q] = ep[q]) /\ ep' = [q \in P |-> ep'[q]]
  BY DEF IInv
<1>2. Length' = Length /\ Required' = Required /\ cfg' \in SCENARIOS
  BY DEF IInv, Length, Required
<1>3. busy' \in P \cup {"nobody"} /\ (busy' \in P => ep'[busy'].err = "none")
  BY <1>1 DEF P
<1>4. \A q \in P : Follows(q, ep[q], ep'[q])
  <2>1. ASSUME NEW q \in P, q # p PROVE Follows(q, ep[q], ep'[q])
    BY <1>1, <2>1 DEF Follows
  <2> QED
    BY <1>1, <2>1
<1>5. ASSUME NEW q \in P
      PROVE  LET w == World(q, ep, Length)
                 v == World(q, ep', Length)
             IN  v.own = w.own /\ v.peer = w.peer /\ Grows(w.said, v.said) /\ Grows(w.heard, v.heard)
  <2> DEFINE es == ep
             fs == ep'
  <2>1. Follows(q, es[q], fs[q]) /\ Follows(Peer(q), es[Peer(q)], fs[Peer(q)])
    BY <1>4, PeerIs
  <2> HIDE DEF es, fs
  <2>2. LET w == World(q, es, Length)
            v == World(q, fs, Length)
        IN  v.own = w.own /\ v.peer = w.peer /\ Grows(w.said, v.said) /\ Grows(w.heard, v.heard)
    BY <2>1, WorldGrows
  <2> QED
    BY <2>2 DEF es, fs
<1>6. \A q \in P : EngineOK(ep[q], World(q, ep, Length)) => EngineOK(ep[q], World(q, ep', Length))
  BY <1>5, EngineGrows
<1>7. EngineOK(f, World(p, ep', Length))
  BY <1>5, EngineGrows
<1>8. \A q \in P : EndpointOK(q, ep', Length)
  <2>1. ASSUME NEW q \in P, q # p PROVE EndpointOK(q, ep', Length)
    BY <1>1, <1>6, <2>1 DEF EndpointOK, IInv
  <2>2. EndpointOK(p, ep', Length)
    BY <1>1, <1>7 DEF EndpointOK
  <2> QED
    BY <2>1, <2>2
<1>9. \A m \in net' : MessageOK(m, ep', Length)
  <2> SUFFICES ASSUME NEW m \in net', m \in net PROVE MessageOK(m, ep', Length)
    OBVIOUS
  <2>1. MessageOK(m, ep, Length)
    BY DEF IInv
  <2> DEFINE w == World(m.to, ep, Length)
             v == World(m.to, ep', Length)
  <2>2. m.to \in P /\ RecordsOK(m.records, w.peer, w.heard)
    BY <2>1 DEF MessageOK
  <2>3. v.peer = w.peer /\ Grows(w.heard, v.heard)
    BY <1>5, <2>2
  <2> HIDE DEF w, v
  <2>4. RecordsOK(m.records, v.peer, v.heard)
    BY <2>2, <2>3, RecordsGrow
  <2> QED
    BY <2>2, <2>4 DEF MessageOK, v
<1>10. ServerOK(ep'["server"], ep'["client"], Required, Length)
  <2>1. CASE p = "server"
    BY <1>1, <2>1 DEF P
  <2>2. CASE p = "client"
    <3>1. ServerOK(s, c, Required, Length) /\ ep'["server"] = s /\ ep'["client"] = f
      BY <1>1, <2>2 DEF IInv, P
    <3>2. Told(c) => Told(f) /\ VerifyData(f) = VerifyData(c)
      BY <2>2, ToldReported DEF Follows
    <3> HIDE DEF c, s
    <3> QED
      BY <3>1, <3>2 DEF ServerOK, ServerDone
  <2> QED
    BY <2>1, <2>2 DEF P
<1>11. ClientOK(ep'["client"], ep'["server"])
  <2>1. CASE p = "client"
    BY <1>1, <2>1 DEF P
  <2>2. CASE p = "server"
    <3>1. ClientOK(c, s) /\ ep'["client"] = c /\ ep'["server"] = f
      BY <1>1, <2>2 DEF IInv, P
    <3>2. SuiteAgreed(c, s) => SuiteAgreed(c, f)
      BY <2>2 DEF Follows, SuiteAgreed
    <3> HIDE DEF c, s
    <3> QED
      BY <3>1, <3>2 DEF ClientOK, ClientRules, ClientDone
  <2> QED
    BY <2>1, <2>2 DEF P
<1> QED
  BY <1>1, <1>2, <1>3, <1>8, <1>9, <1>10, <1>11 DEF IInv

\* A step that leaves the handshake where it is, or ends the use of the connection.
LEMMA KeptStep ==
    ASSUME IInv, NEW p \in P, NEW f, ep' = [ep EXCEPT ![p] = f], cfg' = cfg,
           busy' = "nobody" \/ (busy' = p /\ f.err = "none"),
           \A m \in net' : m \in net \/ MessageOK(m, ep', Length),
           ep[p].err = "none", EngineOK(f, World(p, ep, Length)),
           SameKeys(ep[p], f), Reports(ep[p], f),
           f.state = ep[p].state \/ f.state \in Over
    PROVE  IInv'
<1> DEFINE e == ep[p]
<1>1. /\ VerifyData(f) = VerifyData(e)
      /\ \A state : ServerRules(f, state, Required, Length) <=> ServerRules(e, state, Required, Length)
      /\ \A c : ServerDone(f, c, Required, Length) <=> ServerDone(e, c, Required, Length)
      /\ \A state, s : ClientRules(f, state, s) <=> ClientRules(e, state, s)
      /\ \A s : ClientDone(f, s) <=> ClientDone(e, s)
  BY SameRules
<1>2. f.suite = e.suite
  BY DEF SameKeys
<1>3. Follows(p, e, f)
  BY <1>1, <1>2 DEF Follows, Over, Reports
<1>4. Reported(f) /\ f.err = "none" => f.state \in Over
  BY DEF IInv, EndpointOK, Reports
<1>5. ASSUME p = "server" PROVE ServerOK(f, ep["client"], Required, Length)
  <2>1. ServerOK(e, ep["client"], Required, Length)
    BY <1>5 DEF IInv
  <2>2. \A state \in Over : ServerRules(f, state, Required, Length)
    BY DEF ServerRules, Over
  <2> QED
    BY <1>1, <2>1, <2>2 DEF ServerOK, Reports
<1>6. ASSUME p = "client" PROVE ClientOK(f, ep["server"])
  <2>1. ClientOK(e, ep["server"])
    BY <1>6 DEF IInv
  <2>2. \A state \in Over : \A s : ClientRules(f, state, s)
    BY DEF ClientRules, Over
  <2> QED
    BY <1>1, <2>1, <2>2 DEF ClientOK, Reports
<1> QED
  BY <1>3, <1>4, <1>5, <1>6, EndpointStep

LEMMA DataIs ==
    ASSUME NEW p \in P
    PROVE  IsSeq(DATA[p]) /\ "Connected" \notin ToSet(DATA[p])
<1>1. DATA["client"] = <<"c1", "c2", "c3", "c4">> /\ DATA["server"] = <<"s1", "s2", "s3", "s4">>
  BY DEF DATA
<1>2. PICK a, b, c, d : DATA[p] = <<a, b, c, d>> /\ "Connected" \notin {a, b, c, d}
  BY <1>1 DEF P
<1>3. ToSet(<<a, b, c, d>>) = {a, b, c, d} /\ IsSeq(<<a, b, c, d>>)
  BY DEF ToSet, IsSeq
<1> QED
  BY <1>2, <1>3

\* What an endpoint sends is what its peer may receive, once the call has told of it.
LEMMA SentOK ==
    ASSUME NEW p \in P, NEW e, EngineOK(e, World(p, ep, Length)), NEW i \in DOMAIN e.tx,
           Follows(p, ep[p], ep'[p]), p = "client" /\ Reported(ep[p]) => Told(ep'[p])
    PROVE  MessageOK([to |-> Peer(p), records |-> e.tx[i]], ep', Length)
<1> DEFINE f == ep'[p]
           w == World(p, ep, Length)
           fs == ep'
           u == World(Peer(p), fs, Length)
<1>1. RecordsOK(e.tx[i], w.own, w.said)
  BY SeqHas DEF EngineOK, DatagramsOK
<1>2. u.peer = w.own /\ u.heard = Sent(p, f, Length) /\ w.said = Said(p, ep[p], Length)
  BY WorldIs, PeerIs
<1>3. Grows(Said(p, ep[p], Length), Sent(p, f, Length))
  BY SayingGrows
<1> HIDE DEF w, u
<1>4. RecordsOK(e.tx[i], u.peer, u.heard)
  BY <1>1, <1>2, <1>3, RecordsGrow
<1> QED
  BY <1>4, PeerIs DEF MessageOK, u

LEMMA ReturnIs ==
    ASSUME IInv, NEW p \in P, NEW e, EngineOK(e, World(p, ep, Length)), Return(p, e),
           Follows(p, ep[p], e)
    PROVE  \E f : /\ ep' = [ep EXCEPT ![p] = f] /\ busy' = "nobody" /\ cfg' = cfg
                  /\ Goes(e, f, World(p, ep, Length)) /\ f.err = e.err
                  /\ \A m \in net' : m \in net \/ MessageOK(m, ep', Length)
<1> DEFINE w == World(p, ep, Length)
           f == IF e.err = "none" THEN Drained(e) ELSE e
<1>1. "Connected" \notin w.peer
  BY WorldIs, PeerIs, DataIs
<1>2. /\ Goes(e, Drained(e), w) /\ Drained(e).err = e.err
      /\ Reported(e) => Told(Drained(e))
  BY <1>1, DrainedGoes
<1>3. Goes(e, e, w)
  BY DEF Goes, Steady, Reports, SameKeys
<1>5. ep' = [ep EXCEPT ![p] = f] /\ busy' = "nobody" /\ cfg' = cfg
  BY DEF Return
<1>6. Goes(e, f, w) /\ f.err = e.err /\ (e.err = "none" /\ Reported(e) => Told(f))
  BY <1>2, <1>3
<1> HIDE DEF f, w
<1>7. Follows(p, ep[p], f)
  BY <1>6, SameRules DEF Follows, Goes, Steady, Reports, SameKeys
<1>8. \A m \in net' : m \in net \/ MessageOK(m, ep', Length)
  <2>1. ep'[p] = f
    BY <1>5 DEF IInv
  <2>2. e.err = "none" => (p = "client" /\ Reported(ep[p]) => Told(f))
    BY <1>6 DEF Follows
  <2> QED
    BY <1>7, <2>1, <2>2, SentOK DEF Return
<1> QED
  BY <1>5, <1>6, <1>8 DEF w

\* A call that ends with the handshake where it is.
LEMMA ReturnStep ==
    ASSUME IInv, NEW p \in P, NEW e, Return(p, e), ep[p].err = "none",
           EngineOK(e, World(p, ep, Length)), SameKeys(ep[p], e), Reports(ep[p], e),
           e.state = ep[p].state \/ e.state \in Over
    PROVE  IInv'
<1>1. Follows(p, ep[p], e)
  BY SameRules DEF Follows, Over, Reports, SameKeys
<1>2. PICK f : /\ ep' = [ep EXCEPT ![p] = f] /\ busy' = "nobody" /\ cfg' = cfg
               /\ Goes(e, f, World(p, ep, Length)) /\ f.err = e.err
               /\ \A m \in net' : m \in net \/ MessageOK(m, ep', Length)
  BY <1>1, ReturnIs
<1>3. /\ EngineOK(f, World(p, ep, Length)) /\ SameKeys(ep[p], f)
      /\ Reports(ep[p], f)
      /\ f.state = ep[p].state \/ f.state \in Over
  BY <1>2 DEF Goes, Steady, Reports, SameKeys
<1> QED
  BY <1>2, <1>3, KeptStep

LEMMA MoveStep ==
    ASSUME IInv, NEW p \in P, NEW e, Move(p, e), cfg' = cfg, \A m \in net' : m \in net,
           ep[p].err = "none", Goes(ep[p], e, World(p, ep, Length))
    PROVE  IInv'
  BY KeptStep DEF Move, Goes, Steady

----------------------------------------------------------------------------
(* The connection in use, the calls, the timers and the network.           *)

LEMMA NoKeyUpdateSaid ==
    ASSUME NEW p \in P, NEW es, NEW length
    PROVE  "KeyUpdate" \notin DOMAIN World(p, es, length).said
  BY DEF World, Said, Claims, P

LEMMA BusyIs ==
    ASSUME IInv, NEW p \in P, busy = p
    PROVE  /\ ep[p].err = "none" /\ EngineOK(ep[p], World(p, ep, Length))
           /\ Reported(ep[p]) => ep[p].state \in Over
  BY DEF IInv, EndpointOK

LEMMA IdleIs ==
    ASSUME IInv, NEW p \in P, Idle(p)
    PROVE  ep[p].err = "none" /\ EngineOK(ep[p], World(p, ep, Length))
  BY DEF IInv, EndpointOK, Idle

LEMMA StayOK ==
    ASSUME IInv, NEW p \in P, Stay(p)
    PROVE  IInv'
<1>1. busy = p /\ Return(p, ep[p])
  BY DEF Stay
<1>2. SameKeys(ep[p], ep[p]) /\ Reports(ep[p], ep[p])
  BY DEF SameKeys, Reports
<1> QED
  BY <1>1, <1>2, BusyIs, ReturnStep

LEMMA AwaitApplicationDataOK ==
    ASSUME IInv, NEW p \in P, AwaitApplicationData(p)
    PROVE  IInv'
<1> DEFINE e == ep[p]
           w == World(p, ep, Length)
           asked == InitiateKeyUpdate(e)
           sent == SendQueued(asked)
           answered == AnswerKeyUpdate(sent)
           f == TakeKeyUpdate(answered, TRUE)
<1>1. busy = p /\ Return(p, f)
  BY DEF AwaitApplicationData, At
<1>2. e.err = "none" /\ EngineOK(e, w) /\ "KeyUpdate" \notin DOMAIN w.said
  BY <1>1, BusyIs, NoKeyUpdateSaid
<1> HIDE DEF w
<1>3. Goes(e, asked, w)
  BY <1>2, InitiateKeyUpdateOK, BecomesGoes
<1> HIDE DEF asked
<1>4. Goes(e, sent, w)
  BY <1>3, SendQueuedOK, GoesOn DEF Goes
<1> HIDE DEF sent
<1>5. Goes(sent, answered, w)
  BY <1>2, <1>4, AnswerKeyUpdateOK, BecomesGoes DEF Goes
<1> HIDE DEF answered
<1>6. Goes(answered, f, w)
  BY <1>5, TakeKeyUpdateOK, BecomesGoes DEF Goes
<1> HIDE DEF f
<1>7. Goes(e, f, w)
  BY <1>4, <1>5, <1>6, GoesOn
<1> QED
  BY <1>1, <1>2, <1>7, ReturnStep DEF Goes, Steady, w

\* The state "Closed", if there is no error.
LEMMA OverIs ==
    ASSUME NEW w, NEW e, EngineOK(e, w), NEW state \in Over
    PROVE  LET f == [e EXCEPT !.state = state]
           IN  /\ EngineOK(f, w) /\ SameKeys(e, f) /\ Reports(e, f)
               /\ f.state = state /\ f.err = e.err
  BY DEF EngineOK, Fields, SameKeys, Reports, Reported, Told

LEMMA HalfClosedLocalOK ==
    ASSUME IInv, NEW p \in P, HalfClosedLocal(p)
    PROVE  IInv'
<1> DEFINE e == ep[p]
           w == World(p, ep, Length)
           f == TakeKeyUpdate(e, FALSE)
           g == [f EXCEPT !.state = "Closed"]
           x == IF f.err = "none" THEN g ELSE f
<1>1. busy = p /\ (Return(p, f) \/ Go(p, f, "Closed"))
  BY DEF HalfClosedLocal, At
<1>2. e.err = "none" /\ EngineOK(e, w)
  BY <1>1, BusyIs
<1>3. Goes(e, f, w)
  BY <1>2, TakeKeyUpdateOK, BecomesGoes
<1> HIDE DEF f
<1>4. CASE Return(p, f)
  BY <1>2, <1>3, <1>4, ReturnStep DEF Goes, Steady
<1>5. CASE Go(p, f, "Closed")
  <2>1. /\ EngineOK(g, w) /\ SameKeys(f, g) /\ Reports(f, g)
        /\ g.state \in Over /\ g.err = f.err
    BY <1>3, OverIs DEF Goes, Over
  <2> HIDE DEF g
  <2>2. /\ EngineOK(x, w) /\ SameKeys(e, x) /\ Reports(e, x)
        /\ x.state = e.state \/ x.state \in Over
    BY <1>3, <2>1 DEF Goes, Steady, Reports, SameKeys
  <2>3. Move(p, x) /\ cfg' = cfg /\ net' = net
    BY <1>5 DEF Go, g
  <2> HIDE DEF x
  <2> QED
    BY <1>2, <2>2, <2>3, KeptStep DEF Move
<1> QED
  BY <1>1, <1>4, <1>5

LEMMA TimersOK ==
    ASSUME IInv, Timers
    PROVE  IInv'
<1>1. ASSUME NEW p \in P, Arm(p) PROVE IInv'
  <2> DEFINE e == ep[p]
             w == World(p, ep, Length)
             f == HandleEngineTimeout(e, {})
             g == [f EXCEPT !.ready = TRUE]
  <2>1. EngineOK(e, w) /\ e.err = "none" /\ Move(p, g) /\ net' = net /\ cfg' = cfg
    BY <1>1, IdleIs DEF Arm
  <2>2. Becomes(e, f, w)
    BY <2>1, HandleEngineTimeoutOK
  <2> HIDE DEF f, e, w
  <2>3. Becomes(e, g, w)
    BY <2>2 DEF Becomes, Keeps, SameKeys, EngineOK, Fields
  <2> HIDE DEF g
  <2> QED
    BY <2>1, <2>3, BecomesGoes, MoveStep DEF e, w
<1>2. ASSUME NEW p \in P, NEW due, Idle(p), Move(p, HandleEngineTimeout(ep[p], due)),
             net' = net, cfg' = cfg
      PROVE  IInv'
  <2>1. EngineOK(ep[p], World(p, ep, Length)) /\ ep[p].err = "none"
    BY <1>2, IdleIs
  <2>2. Goes(ep[p], HandleEngineTimeout(ep[p], due), World(p, ep, Length))
    BY <2>1, HandleEngineTimeoutOK, BecomesGoes
  <2> QED
    BY <1>2, <2>1, <2>2, MoveStep
<1> QED
  BY <1>1, <1>2 DEF Timers, AckTimerFires, MayAck, FlightTimerFires, MayFire, ConnectTimerFires

LEMMA NetworkOK ==
    ASSUME IInv, NEW m \in net, Deliver(m) \/ Repeat(m) \/ Lose(m)
    PROVE  IInv'
<1>1. CASE Deliver(m) \/ Repeat(m)
  <2> DEFINE p == m.to
             w == World(p, ep, Length)
             f == ParsePacket(ep[p], m.records)
  <2>1. Idle(p) /\ Move(p, f) /\ (\A x \in net' : x \in net) /\ cfg' = cfg
    BY <1>1 DEF Deliver, Repeat
  <2>2. p \in P /\ RecordsOK(m.records, w.peer, w.heard)
    BY DEF IInv, MessageOK
  <2>3. EngineOK(ep[p], w) /\ ep[p].err = "none"
    BY <2>1, <2>2, IdleIs
  <2> HIDE DEF w
  <2>4. Goes(ep[p], f, w)
    BY <2>2, <2>3, ParsePacketOK, BecomesGoes
  <2> HIDE DEF p, f
  <2> QED
    BY <2>1, <2>2, <2>3, <2>4, MoveStep DEF w
<1>2. CASE Lose(m)
  BY <1>2 DEF Lose, IInv, Required, Length
<1> QED
  BY <1>1, <1>2

\* What an application sends is its own, and waits until the handshake is over.
LEMMA SendApplicationDataOK ==
    ASSUME IInv, NEW p \in P, SendApplicationData(p)
    PROVE  IInv'
<1> DEFINE e == ep[p]
           w == World(p, ep, Length)
           d == DATA[p][Len(e.accepted) + 1]
           taken == [e EXCEPT !.accepted = Append(@, d)]
           sent == CreateRecord(taken, AppData(e, d), FALSE)
           waiting == [taken EXCEPT !.queued = Append(@, d)]
<1>1. Idle(p) /\ Len(e.accepted) < cfg.sends[p] /\ (Return(p, sent) \/ Return(p, waiting))
  BY DEF SendApplicationData
<1>2. EngineOK(e, w) /\ e.err = "none"
  BY <1>1, IdleIs
<1>3. d \in w.own
  <2>1. Len(e.accepted) \in Nat
    BY <1>2, SeqHas DEF EngineOK
  <2>2. IsSeq(DATA[p]) /\ DOMAIN DATA[p] = 1..Len(DATA[p]) /\ Len(DATA[p]) \in Nat
    BY DataIs, SeqHas
  <2>3. cfg.sends[p] \in 0..Len(DATA[p])
    BY ScenarioAssumption DEF IInv
  <2>4. Len(e.accepted) + 1 \in DOMAIN DATA[p]
    BY <1>1, <2>1, <2>2, <2>3
  <2>5. d \in ToSet(DATA[p])
    BY <2>4 DEF ToSet
  <2> QED
    BY <2>5, WorldIs
<1> HIDE DEF d, w
<1>4. Goes(e, taken, w)
  <2>1. IsSeq(Append(e.accepted, d))
    BY <1>2, AppendIs DEF EngineOK
  <2> QED
    BY <1>2, <2>1 DEF EngineOK, Fields, SameKeys, Goes, Steady, Reports, Reported, Told
<1> HIDE DEF taken
<1>5. Goes(taken, sent, w)
  BY <1>3, <1>4, AppDataOK, CreateRecordOK, BecomesGoes DEF Goes
<1>6. Goes(taken, waiting, w)
  <2>1. IsSeq(Append(taken.queued, d)) /\ ToSet(Append(taken.queued, d)) \subseteq w.own
    <3>1. IsSeq(taken.queued) /\ ToSet(taken.queued) \subseteq w.own
      BY <1>4 DEF Goes, EngineOK
    <3>2. IsSeq(Append(taken.queued, d))
          /\ ToSet(Append(taken.queued, d)) = ToSet(taken.queued) \cup {d}
      BY <3>1, AppendIs
    <3> QED
      BY <1>3, <3>1, <3>2
  <2> QED
    BY <1>4, <2>1 DEF EngineOK, Fields, SameKeys, Goes, Steady, Reports, Reported, Told
<1> HIDE DEF sent, waiting
<1>7. Goes(e, sent, w) /\ Goes(e, waiting, w)
  BY <1>4, <1>5, <1>6, GoesOn
<1> QED
  BY <1>1, <1>2, <1>7, ReturnStep DEF Goes, Steady, w

LEMMA CloseOK ==
    ASSUME IInv, NEW p \in P, Close(p)
    PROVE  IInv'
<1> DEFINE e == ep[p]
           w == World(p, ep, Length)
           sent == CreateRecord(e, CloseNotify(e), FALSE)
           told == CancelFlights(sent)
           half == [told EXCEPT !.state = "HalfClosedLocal"]
           ended == [Abort(e) EXCEPT !.state = "Closed"]
<1>1. Idle(p) /\ (Return(p, half) \/ Return(p, ended))
  BY DEF Close
<1>2. EngineOK(e, w) /\ e.err = "none"
  BY <1>1, IdleIs
<1> HIDE DEF w
<1>3. Becomes(e, sent, w)
  BY <1>2, SingleOK, CreateRecordOK DEF CloseNotify
<1> HIDE DEF sent
<1>4. Becomes(e, told, w) /\ Becomes(e, Abort(e), w)
  BY <1>2, <1>3, CancelFlightsOK, Chain DEF Becomes
<1> HIDE DEF told
<1>5. /\ EngineOK(half, w) /\ SameKeys(e, half) /\ Reports(e, half)
      /\ half.state \in Over
  <2>1. Goes(e, told, w)
    BY <1>4, BecomesGoes
  <2>2. /\ EngineOK(half, w) /\ SameKeys(told, half)
        /\ Reports(told, half) /\ half.state \in Over
    BY <2>1, OverIs DEF Goes, Over
  <2> HIDE DEF half
  <2> QED
    BY <2>1, <2>2 DEF Goes, Steady, Reports, SameKeys
<1>6. /\ EngineOK(ended, w) /\ SameKeys(e, ended) /\ Reports(e, ended)
      /\ ended.state \in Over
  <2>1. Goes(e, Abort(e), w)
    BY <1>4, BecomesGoes
  <2>2. /\ EngineOK(ended, w) /\ SameKeys(Abort(e), ended)
        /\ Reports(Abort(e), ended) /\ ended.state \in Over
    BY <2>1, OverIs DEF Goes, Over
  <2> HIDE DEF ended
  <2> QED
    BY <2>1, <2>2 DEF Goes, Steady, Reports, SameKeys
<1> HIDE DEF half, ended
<1> QED
  BY <1>1, <1>2, <1>5, <1>6, ReturnStep DEF w

----------------------------------------------------------------------------
(* What a message sent or taken does to what the invariant asks.           *)

LEMMA LongerIs ==
    ASSUME NEW t, IsSeq(t), NEW x
    PROVE  LET n == Len(t)
               u == Append(t, x)
           IN  /\ IsSeq(u) /\ n \in Nat /\ Len(u) = n + 1
               /\ DOMAIN t = 1..n /\ DOMAIN u = 1..(n + 1)
               /\ u[n + 1] = x /\ \A i \in 1..n : u[i] = t[i]
               /\ \A k \in 0..n : SubSeq(u, 1, k) = SubSeq(t, 1, k)
               /\ SubSeq(u, 1, n + 1) = u /\ SubSeq(u, n + 1, n + 1) = <<x>>
<1> DEFINE S == ToSet(t) \cup {x}
           n == Len(t)
           u == Append(t, x)
<1>1. t \in Seq(S) /\ x \in S
  BY SeqInto
<1>2. IsSeq(u)
  BY AppendIs
<1> HIDE DEF S
<1>3. /\ n \in Nat /\ Len(u) = n + 1 /\ DOMAIN t = 1..n /\ DOMAIN u = 1..(n + 1)
      /\ u[n + 1] = x /\ \A i \in 1..n : u[i] = t[i]
      /\ u \in Seq(S)
  BY <1>1
<1> HIDE DEF u, n
<1>4. \A k \in 0..n : SubSeq(u, 1, k) = SubSeq(t, 1, k)
  BY <1>1, <1>3
<1>5. SubSeq(u, 1, n + 1) = u
  BY <1>3
<1>6. SubSeq(u, n + 1, n + 1) = <<x>>
  <2> DEFINE v == SubSeq(u, n + 1, n + 1)
  <2>1. v \in Seq(S) /\ Len(v) = 1 /\ v[1] = x
    BY <1>3
  <2> HIDE DEF v
  <2>2. v = <<x>>
    BY <2>1
  <2> QED
    BY <2>2 DEF v
<1> QED
  BY <1>2, <1>3, <1>4, <1>5, <1>6 DEF u, n

\* A message more, and nothing else of what the handshake came to.
Adds(e, f, x) ==
    /\ f.transcript = Append(e.transcript, x)
    /\ f.suite = e.suite /\ f.group = e.group /\ f.shared = e.shared
    /\ f.hsSecret = e.hsSecret /\ f.appSecret = e.appSecret
    /\ f.helloRetry = e.helloRetry /\ f.authRequested = e.authRequested
    /\ f.peerCert = e.peerCert

LEMMA AddsSame ==
    ASSUME NEW e, NEW f, NEW g, NEW x, Adds(e, f, x), SameKeys(f, g)
    PROVE  Adds(e, g, x)
  BY DEF Adds, SameKeys

LEMMA HashedIs ==
    ASSUME NEW w, NEW e, EngineOK(e, w), NEW type, NEW mseq, NEW f,
           Becomes(Hashed(e, type, mseq), f, w)
    PROVE  EngineOK(f, w) /\ f.state = e.state /\ (Reported(f) <=> Reported(e))
           /\ Adds(e, f, <<type, mseq>>)
<1> DEFINE h == Hashed(e, type, mseq)
<1>1. /\ h.state = e.state /\ h.events = e.events /\ h.told = e.told
      /\ Adds(e, h, <<type, mseq>>)
  BY DEF Hashed, EngineOK, Fields, Adds
<1> HIDE DEF h
<1>2. EngineOK(f, w) /\ f.state = h.state /\ f.events = h.events /\ f.told = h.told /\ SameKeys(h, f)
  BY DEF Becomes, Keeps, h
<1>3. Adds(e, f, <<type, mseq>>)
  BY <1>1, <1>2, AddsSame
<1> QED
  BY <1>1, <1>2, <1>3 DEF Reported

LEMMA TakenIs ==
    ASSUME NEW w, NEW e, EngineOK(e, w), NEW type
    PROVE  LET n == NextHandshake(e, type)
           IN  /\ EngineOK(n, w) /\ n.state = e.state /\ (Reported(n) <=> Reported(e))
               /\ Adds(e, n, <<type, Pending(e)[1].rec.mseq>>)
  BY NextHandshakeOK, HashedIs

LEMMA SentIs ==
    ASSUME NEW w, NEW e, EngineOK(e, w), NEW type, NEW len \in Nat, NEW val,
           type \in DOMAIN w.said => Claim(type, e.nextSeq, val) \in w.said[type]
    PROVE  LET f == CreateHandshake(e, type, len, val)
           IN  /\ EngineOK(f, w) /\ f.state = e.state /\ (Reported(f) <=> Reported(e))
               /\ Adds(e, f, <<type, e.nextSeq>>)
  BY CreateHandshakeOK, HashedIs

LEMMA UnfinishedAppend ==
    ASSUME NEW t, IsSeq(t), Unfinished(t), NEW x, x[1] # "Finished"
    PROVE  Unfinished(Append(t, x))
<1> DEFINE n == Len(t)
           u == Append(t, x)
<1>1. n \in Nat /\ DOMAIN t = 1..n /\ DOMAIN u = 1..(n + 1)
      /\ u[n + 1] = x /\ \A i \in 1..n : u[i] = t[i]
  BY LongerIs
<1> HIDE DEF n, u
<1>2. ASSUME NEW i \in 1..(n + 1) PROVE u[i][1] # "Finished"
  <2>1. CASE i = n + 1
    BY <1>1, <2>1
  <2>2. CASE i # n + 1
    <3>1. i \in 1..n
      BY <1>1, <2>2
    <3> QED
      BY <1>1, <3>1 DEF Unfinished
  <2> QED
    BY <2>1, <2>2
<1> QED
  BY <1>1, <1>2 DEF Unfinished, u

LEMMA KeyedAdds ==
    ASSUME NEW e, IsSeq(e.transcript), NEW f, NEW x, Adds(e, f, x), HandshakeKeyed(e)
    PROVE  HandshakeKeyed(f)
<1> DEFINE t == e.transcript
           u == f.transcript
           n == Len(t)
           h == Hellos(t)
<1>1. u = Append(t, x) /\ f.group = e.group /\ f.shared = e.shared /\ f.hsSecret = e.hsSecret
  BY DEF Adds
<1>2. /\ n \in Nat /\ Len(u) = n + 1 /\ (\A i \in 1..n : u[i] = t[i])
      /\ \A k \in 0..n : SubSeq(u, 1, k) = SubSeq(t, 1, k)
  BY <1>1, LongerIs
<1>3. h \in 1..n /\ e.group = e.shared /\ e.hsSecret = << <<e.shared, 0>> >> \o SubSeq(t, 1, h)
  BY DEF HandshakeKeyed
<1> HIDE DEF t, u, n
<1>4. 1 \in 1..n
  BY <1>2, <1>3 DEF Hellos
<1>5. Hellos(u) = h
  BY <1>2, <1>4 DEF Hellos
<1> HIDE DEF h
<1>6. h \in 1..Len(u) /\ SubSeq(u, 1, h) = SubSeq(t, 1, h)
  BY <1>2, <1>3
<1> QED
  BY <1>1, <1>3, <1>5, <1>6 DEF HandshakeKeyed, u

\* The secrets of the application are drawn once.
LEMMA ApplicationAdds ==
    ASSUME NEW e, IsSeq(e.transcript), NEW f, NEW x, Adds(e, f, x),
           ApplicationKeyed(e, Len(e.transcript))
    PROVE  /\ ApplicationKeyed(f, Len(f.transcript) - 1)
           /\ x[1] # "Finished" => ApplicationKeyed(f, Len(f.transcript))
<1> DEFINE t == e.transcript
           u == f.transcript
           n == Len(t)
<1>1. u = Append(t, x) /\ f.shared = e.shared /\ f.appSecret = e.appSecret
  BY DEF Adds
<1>2. /\ n \in Nat /\ Len(u) = n + 1 /\ (\A i \in 1..n : u[i] = t[i]) /\ u[n + 1] = x
      /\ \A k \in 0..n : SubSeq(u, 1, k) = SubSeq(t, 1, k)
  BY <1>1, LongerIs
<1>3. PICK k \in 1..n : /\ \A i \in 1..n : t[i][1] = "Finished" <=> i = k
                        /\ e.appSecret = << <<e.shared, 1>> >> \o SubSeq(t, 1, k)
  BY DEF ApplicationKeyed
<1> HIDE DEF t, u, n
<1>4. f.appSecret = << <<f.shared, 1>> >> \o SubSeq(u, 1, k)
  <2>1. k \in 0..n
    BY <1>2
  <2> QED
    BY <1>1, <1>2, <1>3, <2>1
<1>5. \A i \in 1..n : u[i][1] = "Finished" <=> i = k
  BY <1>2, <1>3
<1>6. ApplicationKeyed(f, n)
  BY <1>4, <1>5 DEF ApplicationKeyed, u
<1>7. ASSUME x[1] # "Finished" PROVE ApplicationKeyed(f, n + 1)
  <2>1. k \in 1..(n + 1) /\ k # n + 1
    BY <1>2
  <2>2. ASSUME NEW i \in 1..(n + 1) PROVE u[i][1] = "Finished" <=> i = k
    <3>1. CASE i = n + 1
      BY <1>2, <1>7, <2>1, <3>1
    <3>2. CASE i # n + 1
      <4>1. i \in 1..n
        BY <1>2, <3>2
      <4> QED
        BY <1>5, <4>1
    <3> QED
      BY <3>1, <3>2
  <2> QED
    BY <1>4, <2>1, <2>2 DEF ApplicationKeyed, u
<1>8. Len(u) - 1 = n
  BY <1>2
<1> QED
  BY <1>2, <1>6, <1>7, <1>8 DEF u

LEMMA GreetedAdds ==
    ASSUME NEW e, IsSeq(e.transcript), NEW f, NEW x, Adds(e, f, x), NEW n \in Nat, Greeted(e, n),
           x[1] # "Finished",
           e.helloRetry \/ n # 0 \/ x[1] = "ClientHello"
    PROVE  Greeted(f, n + 1)
<1> DEFINE t == e.transcript
           u == f.transcript
           m == Len(t)
           begin == IF e.helloRetry THEN "message_hash" ELSE "ClientHello"
<1>1. u = Append(t, x) /\ f.helloRetry = e.helloRetry
  BY DEF Adds
<1>2. /\ m \in Nat /\ Len(u) = m + 1 /\ (\A i \in 1..m : u[i] = t[i]) /\ u[m + 1] = x
      /\ DOMAIN t = 1..m
  BY <1>1, LongerIs
<1>3. Unfinished(t) /\ m = (IF e.helloRetry THEN n + 2 ELSE n) /\ (t # <<>> => t[1][1] = begin)
  BY DEF Greeted
<1>4. Unfinished(u)
  BY <1>1, <1>3, UnfinishedAppend
<1> HIDE DEF t, u, m
<1>5. Len(u) = IF f.helloRetry THEN (n + 1) + 2 ELSE n + 1
  BY <1>1, <1>2, <1>3
<1>6. u[1][1] = begin
  <2>1. CASE m = 0
    BY <1>2, <1>3, <2>1
  <2>2. CASE m # 0
    <3>1. 1 \in 1..m /\ t # <<>>
      BY <1>2, <2>2, EmptyIs, SeqHas
    <3> QED
      BY <1>2, <1>3, <3>1
  <2> QED
    BY <2>1, <2>2
<1> QED
  BY <1>1, <1>4, <1>5, <1>6 DEF Greeted, u

\* The ServerHello is the message with which the first secret is drawn.
LEMMA HandshakeKeysDrawn ==
    ASSUME NEW e, IsSeq(e.transcript), Greeted(e, 2), e.group = e.shared,
           e.hsSecret = DeriveHandshakeSecrets(e)
    PROVE  HandshakeKeyed(e) /\ Unfinished(e.transcript)
<1> DEFINE t == e.transcript
<1>1. Len(t) = (IF e.helloRetry THEN 4 ELSE 2) /\ Unfinished(t)
      /\ (t # <<>> => t[1][1] = IF e.helloRetry THEN "message_hash" ELSE "ClientHello")
  BY DEF Greeted
<1>2. t # <<>>
  BY <1>1
<1>3. Hellos(t) = Len(t)
  BY <1>1, <1>2 DEF Hellos
<1>4. SubSeq(t, 1, Len(t)) = t
  <2>1. t \in Seq(ToSet(t))
    BY DEF IsSeq
  <2> HIDE DEF t
  <2> QED
    BY <2>1
<1>5. Hellos(t) \in 1..Len(t)
  BY <1>1, <1>3
<1>6. e.hsSecret = << <<e.shared, 0>> >> \o SubSeq(t, 1, Hellos(t))
  BY <1>3, <1>4 DEF DeriveHandshakeSecrets
<1> QED
  BY <1>1, <1>5, <1>6 DEF HandshakeKeyed

\* The server's Finished is the one with which the second is drawn.
LEMMA ApplicationKeysDrawn ==
    ASSUME NEW e, IsSeq(e.transcript), Unfinished(e.transcript), NEW f, NEW mseq,
           Adds(e, f, <<"Finished", mseq>>), NEW g, g.transcript = f.transcript, g.shared = f.shared,
           g.appSecret = DeriveApplicationSecrets(f)
    PROVE  ApplicationKeyed(g, Len(g.transcript))
<1> DEFINE t == e.transcript
           u == g.transcript
           n == Len(t)
           x == <<"Finished", mseq>>
<1>1. u = Append(t, x)
  BY DEF Adds
<1>2. /\ n \in Nat /\ Len(u) = n + 1 /\ (\A i \in 1..n : u[i] = t[i]) /\ u[n + 1] = x
      /\ DOMAIN t = 1..n /\ SubSeq(u, 1, n + 1) = u
  BY <1>1, LongerIs
<1>3. \A i \in 1..n : t[i][1] # "Finished"
  BY <1>2 DEF Unfinished
<1>4. g.appSecret = << <<g.shared, 1>> >> \o u
  BY DEF DeriveApplicationSecrets
<1> HIDE DEF t, u, n
<1>5. ASSUME NEW i \in 1..(n + 1) PROVE u[i][1] = "Finished" <=> i = n + 1
  <2>1. CASE i = n + 1
    BY <1>2, <2>1
  <2>2. CASE i # n + 1
    <3>1. i \in 1..n
      BY <1>2, <2>2
    <3> QED
      BY <1>2, <1>3, <2>2, <3>1
  <2> QED
    BY <2>1, <2>2
<1>6. n + 1 \in 1..(n + 1)
  BY <1>2
<1> QED
  BY <1>2, <1>4, <1>5, <1>6 DEF ApplicationKeyed, u

----------------------------------------------------------------------------
(* From one state of the handshake to another.                             *)

LEMMA GoneIs ==
    ASSUME NEW p, NEW e, NEW to, Go(p, e, to), NEW w, EngineOK(e, w)
    PROVE  LET f == IF e.err = "none" THEN [e EXCEPT !.state = to] ELSE e
           IN  /\ ep' = [ep EXCEPT ![p] = f] /\ cfg' = cfg /\ net' = net
               /\ busy' = "nobody" \/ (busy' = p /\ f.err = "none")
               /\ EngineOK(f, w) /\ SameKeys(e, f) /\ f.err = e.err
               /\ f.state = (IF e.err = "none" THEN to ELSE e.state)
               /\ (Reported(f) <=> Reported(e))
<1> DEFINE g == [e EXCEPT !.state = to]
           f == IF e.err = "none" THEN g ELSE e
<1>1. Move(p, f) /\ cfg' = cfg /\ net' = net
  BY DEF Go
<1>2. /\ EngineOK(g, w) /\ SameKeys(e, g) /\ g.err = e.err /\ g.state = to
      /\ (Reported(g) <=> Reported(e))
  BY DEF EngineOK, Fields, SameKeys, Reported
<1> HIDE DEF g
<1>3. /\ EngineOK(f, w) /\ SameKeys(e, f) /\ f.err = e.err
      /\ f.state = (IF e.err = "none" THEN to ELSE e.state)
      /\ (Reported(f) <=> Reported(e))
  BY <1>2 DEF SameKeys
<1> HIDE DEF f
<1>4. ep' = [ep EXCEPT ![p] = f] /\ (busy' = "nobody" \/ (busy' = p /\ f.err = "none"))
  BY <1>1 DEF Move
<1> QED
  BY <1>1, <1>3, <1>4 DEF f, g

LEMMA ServerGo ==
    ASSUME IInv, busy = "server", ep["server"].state \notin Over, NEW to,
           NEW e, Go("server", e, to), EngineOK(e, World("server", ep, Length)),
           ep["server"].state # "AwaitClientHello" =>
               e.state # "AwaitClientHello" /\ e.suite = ep["server"].suite,
           e.err = "none" => to # "AwaitClientHello" /\ ServerRules(e, to, Required, Length),
           Reported(e) => /\ ServerDone(e, ep["client"], Required, Length)
                          /\ e.err = "none" => to \in Over
    PROVE  IInv'
<1> DEFINE s == ep["server"]
           w == World("server", ep, Length)
           f == IF e.err = "none" THEN [e EXCEPT !.state = to] ELSE e
<1>1. "server" \in P
  BY DEF P
<1>2. /\ ep' = [ep EXCEPT !["server"] = f] /\ cfg' = cfg /\ net' = net
      /\ busy' = "nobody" \/ (busy' = "server" /\ f.err = "none")
      /\ EngineOK(f, w) /\ SameKeys(e, f) /\ f.err = e.err
      /\ f.state = (IF e.err = "none" THEN to ELSE e.state)
      /\ (Reported(f) <=> Reported(e))
  BY GoneIs
<1> HIDE DEF f
<1>3. /\ ServerRules(f, to, Required, Length) <=> ServerRules(e, to, Required, Length)
      /\ ServerDone(f, ep["client"], Required, Length)
            <=> ServerDone(e, ep["client"], Required, Length)
  BY <1>2, SameRules
<1>4. ServerOK(f, ep["client"], Required, Length)
  BY <1>2, <1>3 DEF ServerOK
<1>5. Follows("server", s, f)
  BY <1>2 DEF Follows, SameKeys
<1>6. Reported(f) /\ f.err = "none" => f.state \in Over
  BY <1>2
<1> QED
  BY <1>1, <1>2, <1>4, <1>5, <1>6, EndpointStep

LEMMA ClientGo ==
    ASSUME IInv, busy = "client", ep["client"].state \notin Over, NEW to,
           NEW e, Go("client", e, to),
           EngineOK(e, World("client", ep, Length)) \/ EngineOK(e, World("client", ep', Length)),
           e.err = "none" => ClientRules(e, to, ep["server"]),
           Reported(e) => ClientDone(e, ep["server"]) /\ (e.err = "none" => to \in Over)
    PROVE  IInv'
<1> DEFINE c == ep["client"]
           f == IF e.err = "none" THEN [e EXCEPT !.state = to] ELSE e
<1>1. "client" \in P
  BY DEF P
<1>2. PICK w \in {World("client", ep, Length), World("client", ep', Length)} : EngineOK(e, w)
  OBVIOUS
<1>3. /\ ep' = [ep EXCEPT !["client"] = f] /\ cfg' = cfg /\ net' = net
      /\ busy' = "nobody" \/ (busy' = "client" /\ f.err = "none")
      /\ EngineOK(f, w) /\ SameKeys(e, f) /\ f.err = e.err
      /\ f.state = (IF e.err = "none" THEN to ELSE e.state)
      /\ (Reported(f) <=> Reported(e))
  BY <1>2, GoneIs
<1> HIDE DEF f
<1>4. /\ ClientRules(f, to, ep["server"]) <=> ClientRules(e, to, ep["server"])
      /\ ClientDone(f, ep["server"]) <=> ClientDone(e, ep["server"])
  BY <1>3, SameRules
<1>5. ClientOK(f, ep["server"])
  BY <1>3, <1>4 DEF ClientOK
<1>6. ~Reported(c) /\ ~Told(c)
  BY <1>1, BusyIs, ToldReported
<1>7. Follows("client", c, f)
  BY <1>6 DEF Follows
<1>8. Reported(f) /\ f.err = "none" => f.state \in Over
  BY <1>3
<1>9. EngineOK(f, World("client", ep, Length)) \/ EngineOK(f, World("client", ep', Length))
  BY <1>3
<1> QED
  BY <1>1, <1>3, <1>5, <1>7, <1>8, <1>9, EndpointStep

\* A message is taken, the handler makes g of the endpoint and goes on.
LEMMA AcceptedIs ==
    ASSUME NEW w, NEW e, EngineOK(e, w)
    PROVE  Becomes(e, Accepted(e), w) /\ Accepted(e).err = e.err
<1>1. Becomes(e, e, w)
  BY DEF Becomes, Keeps, SameKeys
<1> QED
  BY <1>1, AdvanceOK DEF Accepted

LEMMA ClientTake ==
    ASSUME IInv, busy = "client", ep["client"].state \notin Over, NEW to, NEW type,
           NEW n, n = NextHandshake(ep["client"], type),
           NEW g, Go("client", Accepted(IF n.err = "none" THEN g ELSE n), to),
           n.err = "none" =>
               /\ EngineOK(g, World("client", ep, Length)) /\ ~Reported(g)
               /\ g.err = "none" => ClientRules(g, to, ep["server"])
    PROVE  IInv'
<1> DEFINE c == ep["client"]
           w == World("client", ep, Length)
           x == IF n.err = "none" THEN g ELSE n
<1>1. EngineOK(c, w) /\ ~Reported(c)
  BY BusyIs DEF P
<1> HIDE DEF w
<1>2. EngineOK(n, w) /\ (Reported(n) <=> Reported(c))
  BY <1>1, TakenIs
<1>3. EngineOK(x, w) /\ ~Reported(x)
      /\ (x.err = "none" => ClientRules(x, to, ep["server"]))
  BY <1>1, <1>2 DEF w
<1>4. Go("client", Accepted(x), to)
  OBVIOUS
<1> HIDE DEF x
<1>5. Becomes(x, Accepted(x), w) /\ Accepted(x).err = x.err
  BY <1>3, AcceptedIs
<1>6. SameKeys(x, Accepted(x))
  BY <1>5 DEF Becomes, Keeps
<1>7. ~Reported(Accepted(x))
  BY <1>3, <1>5 DEF Becomes, Keeps, Reported
<1>8. Accepted(x).err = "none" => ClientRules(Accepted(x), to, ep["server"])
  BY <1>3, <1>5, <1>6, SameRules
<1> QED
  BY <1>4, <1>5, <1>7, <1>8, ClientGo DEF Becomes, w

LEMMA ServerTake ==
    ASSUME IInv, busy = "server", ep["server"].state \notin Over \cup {"AwaitClientHello"},
           NEW to, to # "AwaitClientHello", NEW type,
           NEW n, n = NextHandshake(ep["server"], type),
           NEW g, Go("server", Accepted(IF n.err = "none" THEN g ELSE n), to),
           n.err = "none" =>
               /\ EngineOK(g, World("server", ep, Length))
               /\ g.state = n.state /\ g.suite = n.suite
               /\ g.err = "none" => ServerRules(g, to, Required, Length)
               /\ Reported(g) => /\ ServerDone(g, ep["client"], Required, Length)
                                 /\ g.err = "none" => to \in Over
    PROVE  IInv'
<1> DEFINE s == ep["server"]
           w == World("server", ep, Length)
           x == IF n.err = "none" THEN g ELSE n
           c == ep["client"]
<1>1. EngineOK(s, w) /\ ~Reported(s)
  BY BusyIs DEF P
<1> HIDE DEF w
<1>2. EngineOK(n, w) /\ (Reported(n) <=> Reported(s)) /\ n.state = s.state /\ n.suite = s.suite
  BY <1>1, TakenIs DEF Adds
<1>3. EngineOK(x, w) /\ x.state = s.state /\ x.suite = s.suite
      /\ (x.err = "none" => ServerRules(x, to, Required, Length))
      /\ (Reported(x) => /\ ServerDone(x, c, Required, Length)
                         /\ x.err = "none" => to \in Over)
  BY <1>1, <1>2 DEF w
<1>4. Go("server", Accepted(x), to)
  OBVIOUS
<1> HIDE DEF x
<1> DEFINE y == Accepted(x)
<1>5. Becomes(x, y, w) /\ y.err = x.err
  BY <1>3, AcceptedIs
<1> HIDE DEF y
<1>6. SameKeys(x, y) /\ y.state = x.state /\ y.suite = x.suite
  BY <1>5 DEF Becomes, Keeps, SameKeys
<1>7. Reported(y) <=> Reported(x)
  BY <1>5 DEF Becomes, Keeps, Reported
<1>8. /\ ServerRules(y, to, Required, Length) <=> ServerRules(x, to, Required, Length)
      /\ ServerDone(y, c, Required, Length) <=> ServerDone(x, c, Required, Length)
  BY <1>6, SameRules
<1>9. Go("server", y, to)
  BY <1>4 DEF y
<1>10. EngineOK(y, World("server", ep, Length))
  BY <1>5 DEF Becomes, w
<1>11. y.state # "AwaitClientHello" /\ y.suite = s.suite
  BY <1>3, <1>6
<1>12. y.err = "none" => to # "AwaitClientHello" /\ ServerRules(y, to, Required, Length)
  BY <1>3, <1>5, <1>8
<1>13. Reported(y) => ServerDone(y, c, Required, Length) /\ (y.err = "none" => to \in Over)
  BY <1>3, <1>5, <1>7, <1>8
<1> HIDE DEF c
<1>14. s.state \notin Over
  OBVIOUS
<1> QED
  BY <1>9, <1>10, <1>11, <1>12, <1>13, <1>14, ServerGo DEF c

----------------------------------------------------------------------------
(* The handlers of the client.                                             *)

LEMMA ClientAt ==
    ASSUME IInv, NEW state, At("client", state), state \notin Over
    PROVE  LET c == ep["client"]
               w == World("client", ep, Length)
           IN  /\ busy = "client" /\ c.state = state /\ c.state \notin Over /\ c.err = "none"
               /\ EngineOK(c, w) /\ ~Reported(c) /\ IsSeq(c.transcript)
               /\ ClientRules(c, state, ep["server"])
               /\ DOMAIN w.said = {"Certificate", "Finished"}
               /\ w.said["Certificate"] = {Length = 0} /\ w.said["Finished"] = {}
               /\ DOMAIN w.heard = {"ServerHello"} /\ w.heard["ServerHello"] = Suites(ep["server"])
<1> DEFINE c == ep["client"]
           w == World("client", ep, Length)
<1>1. busy = "client" /\ c.state = state /\ "client" \in P
  BY DEF At, P
<1>2. c.err = "none" /\ EngineOK(c, w) /\ ~Reported(c)
  BY <1>1, BusyIs
<1>3. ClientRules(c, state, ep["server"])
  BY <1>1, <1>2 DEF IInv, ClientOK
<1>4. w.said = Said("client", c, Length) /\ w.heard = Sent("server", ep["server"], Length)
  BY DEF World, Peer
<1> HIDE DEF c, w
<1>5. /\ DOMAIN w.said = {"Certificate", "Finished"}
      /\ w.said["Certificate"] = {Length = 0} /\ w.said["Finished"] = {}
      /\ DOMAIN w.heard = {"ServerHello"} /\ w.heard["ServerHello"] = Suites(ep["server"])
  <2> DEFINE a == Said("client", c, Length)
             b == Sent("server", ep["server"], Length)
  <2>1. /\ DOMAIN a = {"Certificate", "Finished"} /\ a["Certificate"] = {Length = 0}
        /\ a["Finished"] = {}
    BY <1>2, SaidClaims
  <2>2. DOMAIN b = {"ServerHello"} /\ b["ServerHello"] = Suites(ep["server"])
    BY SentClaims
  <2>3. w.said = a /\ w.heard = b
    BY <1>4
  <2> HIDE DEF a, b
  <2> QED
    BY <2>1, <2>2, <2>3
<1> QED
  BY <1>1, <1>2, <1>3, <1>5 DEF EngineOK, c, w

LEMMA SendClientHelloOK ==
    ASSUME IInv, SendClientHello
    PROVE  IInv'
<1> DEFINE e == ep["client"]
           w == World("client", ep, Length)
           group == IF e.hrrGroup # "none" THEN e.hrrGroup ELSE cfg.client.groups[1]
           begun == [FlightBegin(e) EXCEPT !.group = group]
           f == CreateHandshake(begun, "ClientHello", 1, CreateClientHello(begun))
<1>1. At("client", "SendClientHello") /\ Go("client", f, "AwaitServerHello")
  BY DEF SendClientHello
<1>2. /\ busy = "client" /\ e.state \notin Over /\ EngineOK(e, w) /\ ~Reported(e)
      /\ Greeted(e, 0) /\ DOMAIN w.said = {"Certificate", "Finished"}
  BY <1>1, ClientAt DEF Over, ClientRules
<1> HIDE DEF w
<1>3. /\ EngineOK(begun, w) /\ ~Reported(begun) /\ Greeted(begun, 0)
  <2>1. Becomes(e, FlightBegin(e), w)
    BY <1>2, FlightBeginOK
  <2> HIDE DEF e, group
  <2>2. /\ EngineOK(begun, w) /\ begun.events = e.events /\ begun.told = e.told
        /\ begun.transcript = e.transcript /\ begun.helloRetry = e.helloRetry
    BY <2>1 DEF Becomes, Keeps, SameKeys, EngineOK, Fields
  <2> HIDE DEF begun
  <2> QED
    BY <1>2, <2>2 DEF Reported, Greeted
<1> HIDE DEF begun
<1>4. EngineOK(f, w) /\ ~Reported(f) /\ Adds(begun, f, <<"ClientHello", begun.nextSeq>>)
  BY <1>2, <1>3, SentIs
<1> HIDE DEF f
<1>5. Greeted(f, 1)
  <2>1. IsSeq(begun.transcript)
    BY <1>3 DEF EngineOK
  <2> DEFINE x == <<"ClientHello", begun.nextSeq>>
  <2>2. x[1] = "ClientHello"
    OBVIOUS
  <2> HIDE DEF x
  <2>3. Greeted(f, 0 + 1)
    BY <1>3, <1>4, <2>1, <2>2, GreetedAdds DEF x
  <2> QED
    BY <2>3
<1>6. ClientRules(f, "AwaitServerHello", ep["server"])
  BY <1>5 DEF ClientRules
<1> QED
  BY <1>1, <1>2, <1>4, <1>6, ClientGo DEF w

\* A HelloRetryRequest leaves its hash and itself of the handshake.
LEMMA HelloReplaced ==
    ASSUME NEW e, {"transcript", "helloRetry"} \subseteq DOMAIN e, NEW t, IsSeq(t), NEW mseq,
           e.transcript = Append(t, <<"ServerHello", mseq>>), e.helloRetry = TRUE
    PROVE  LET f == ReplaceTranscriptWithMessageHash(e, Len(t))
           IN  f.transcript = << <<"message_hash", Len(t)>>, <<"ServerHello", mseq>> >>
<1> DEFINE n == Len(t)
           x == <<"ServerHello", mseq>>
           u == Append(t, x)
           y == <<"message_hash", n>>
<1>1. Len(u) = n + 1 /\ SubSeq(u, n + 1, n + 1) = <<x>>
  BY LongerIs
<1>2. ReplaceTranscriptWithMessageHash(e, n)
          = [e EXCEPT !.transcript = <<y>> \o SubSeq(u, n + 1, Len(u))]
  BY DEF ReplaceTranscriptWithMessageHash
<1> HIDE DEF u, x, y
<1>3. <<y>> \o <<x>> = <<y, x>>
  <2> DEFINE v == <<y>> \o <<x>>
  <2>1. v \in Seq({x, y}) /\ Len(v) = 2 /\ v[1] = y /\ v[2] = x
    OBVIOUS
  <2> HIDE DEF v
  <2>2. v = <<y, x>>
    BY <2>1
  <2> QED
    BY <2>2 DEF v
<1> QED
  BY <1>1, <1>2, <1>3 DEF u, x, y, n

LEMMA AwaitHelloRetryRequestOK ==
    ASSUME IInv, AwaitHelloRetryRequest
    PROVE  IInv'
<1> DEFINE e == ep["client"]
           w == World("client", ep, Length)
           hello == Arg("client")
           k == Len(e.transcript)
           m == Pending(e)[1].rec.mseq
           n == NextHandshake(e, "ServerHello")
           a == [n EXCEPT !.cookie = hello[4], !.helloRetry = TRUE,
                          !.hrrGroup = IF hello[3] # "none" THEN hello[3] ELSE @]
           r == ReplaceTranscriptWithMessageHash(a, k)
           b == AdvancePeerHandshakeSeq(r)
           d == ResetForHelloRetry(b)
           f == FailUnless(hello[2] \in ToSet(cfg.client.suites), d, "SecurityError")
<1>1. /\ At("client", "AwaitServerHello")
      /\ Return("client", TakeHandshake(e, "ServerHello")) \/ Go("client", f, "SendClientHello")
  BY DEF AwaitHelloRetryRequest
<1>2. /\ busy = "client" /\ e.state \notin Over /\ e.err = "none" /\ EngineOK(e, w) /\ ~Reported(e)
      /\ "client" \in P /\ IsSeq(e.transcript)
  BY <1>1, ClientAt DEF Over, P
<1>3. CASE Return("client", TakeHandshake(e, "ServerHello"))
  <2>1. Goes(e, TakeHandshake(e, "ServerHello"), w)
    BY <1>2, TakeHandshakeOK, BecomesGoes
  <2> QED
    BY <1>2, <1>3, <2>1, ReturnStep DEF Goes, Steady
<1>4. CASE Go("client", f, "SendClientHello")
  <2> HIDE DEF w, m, k, hello
  <2>1. EngineOK(n, w) /\ ~Reported(n) /\ n.transcript = Append(e.transcript, <<"ServerHello", m>>)
    BY <1>2, TakenIs DEF Adds, m
  <2> HIDE DEF n
  <2>2. /\ EngineOK(a, w) /\ a.events = n.events /\ a.told = n.told /\ a.transcript = n.transcript
        /\ a.helloRetry = TRUE
    BY <2>1 DEF EngineOK, Fields
  <2> HIDE DEF a
  <2>3. r.transcript = << <<"message_hash", k>>, <<"ServerHello", m>> >>
    BY <1>2, <2>1, <2>2, HelloReplaced DEF EngineOK, Fields, k
  <2>4. /\ EngineOK(r, w) /\ r.events = n.events /\ r.told = n.told /\ r.helloRetry = TRUE
    <3>1. IsSeq(r.transcript)
      BY <2>3 DEF IsSeq, ToSet
    <3>2. /\ Fields \subseteq DOMAIN r
          /\ \A x \in Fields \ {"transcript"} : r[x] = a[x]
      BY <2>2 DEF ReplaceTranscriptWithMessageHash, EngineOK, Fields
    <3> HIDE DEF r
    <3> QED
      BY <2>2, <3>1, <3>2 DEF EngineOK, Fields
  <2>5. Greeted(r, 0)
    <3> DEFINE y == <<"message_hash", k>>
               z == <<"ServerHello", m>>
               t == <<y, z>>
    <3>1. y[1] = "message_hash" /\ z[1] = "ServerHello"
      OBVIOUS
    <3> HIDE DEF y, z
    <3>2. Len(t) = 2 /\ t[1] = y /\ t[2] = z /\ DOMAIN t = {1, 2}
      OBVIOUS
    <3> HIDE DEF t
    <3>3. Unfinished(t) /\ t[1][1] = "message_hash"
      BY <3>1, <3>2 DEF Unfinished
    <3>4. r.transcript = t
      BY <2>3 DEF t, y, z
    <3> QED
      BY <2>4, <3>2, <3>3, <3>4 DEF Greeted
  <2> HIDE DEF r
  <2>6. Becomes(r, b, w)
    BY <2>4, AdvanceOK
  <2> HIDE DEF b
  <2>7. Becomes(r, d, w)
    BY <2>6, ResetForHelloRetryOK, Chain DEF Becomes
  <2> HIDE DEF d
  <2>8. Becomes(r, f, w)
    <3>1. f = d \/ f = Fail(d, "SecurityError")
      BY DEF FailUnless
    <3> QED
      BY <2>7, <3>1, FailOK, Chain DEF Becomes
  <2> HIDE DEF f
  <2>9. EngineOK(f, w) /\ ~Reported(f) /\ Greeted(f, 0)
    BY <2>1, <2>4, <2>5, <2>8 DEF Becomes, Keeps, SameKeys, Reported, Greeted
  <2>10. ClientRules(f, "SendClientHello", ep["server"])
    BY <2>9 DEF ClientRules
  <2> QED
    BY <1>2, <1>4, <2>9, <2>10, ClientGo DEF w
<1> QED
  BY <1>1, <1>3, <1>4

LEMMA AwaitServerHelloOK ==
    ASSUME IInv, AwaitServerHello
    PROVE  IInv'
<1> DEFINE c == ep["client"]
           s == ep["server"]
           w == World("client", ep, Length)
           hello == Arg("client")
           fits == hello[2] \in ToSet(cfg.client.suites) /\ hello[3] = c.group
           n == NextHandshake(c, "ServerHello")
           a == [n EXCEPT !.suite = hello[2], !.shared = hello[3]]
           k == InstallHandshakeKeys(a)
           g == IF fits THEN EnablePeerEncryption(k) ELSE Fail(n, "SecurityError")
           m == Pending(c)[1].rec.mseq
           x == <<"ServerHello", m>>
<1>0. n = NextHandshake(c, "ServerHello")
  OBVIOUS
<1>1. /\ At("client", "AwaitServerHello") /\ HasCompleteHandshake(c, "ServerHello")
      /\ hello[1] # "retry"
      /\ Go("client", Accepted(IF n.err = "none" THEN g ELSE n), "AwaitEncryptedExtensions")
  BY DEF AwaitServerHello, Got, IsHelloRetryRequest, Take, OnSuccess
<1>2. /\ busy = "client" /\ c.state \notin Over /\ EngineOK(c, w) /\ ~Reported(c)
      /\ IsSeq(c.transcript) /\ Greeted(c, 1)
      /\ DOMAIN w.heard = {"ServerHello"} /\ w.heard["ServerHello"] = Suites(s)
  BY <1>1, ClientAt DEF Over, ClientRules
<1>3. s.state # "AwaitClientHello" /\ hello[2] = s.suite
  <2>1. Claim("ServerHello", m, MessageBody(c)) \in Suites(s)
    BY <1>1, <1>2, MessageIsPeers
  <2>2. Claim("ServerHello", m, MessageBody(c)) = <<hello[2]>>
    BY <1>1 DEF Claim, Arg
  <2> DEFINE claimed == <<hello[2]>>
             chosen == <<s.suite>>
  <2>3. claimed # <<>> /\ claimed[1] = hello[2] /\ chosen[1] = s.suite
    OBVIOUS
  <2>4. claimed \in {<<>>} \cup IF s.state = "AwaitClientHello" THEN {} ELSE {chosen}
    BY <2>1, <2>2 DEF Suites
  <2> HIDE DEF claimed, chosen, s, hello
  <2> QED
    BY <2>3, <2>4
<1> HIDE DEF w, m, hello
<1>4. EngineOK(n, w) /\ ~Reported(n) /\ Adds(c, n, x) /\ x[1] = "ServerHello"
  BY <1>2, TakenIs DEF m
<1> HIDE DEF n, x
<1>5. CASE fits
  <2>1. Greeted(n, 2)
    <3>1. Greeted(n, 1 + 1)
      BY <1>2, <1>4, GreetedAdds
    <3> QED
      BY <3>1
  <2>2. n.group = hello[3]
    BY <1>4, <1>5 DEF Adds
  <2>3. /\ EngineOK(a, w) /\ a.transcript = n.transcript /\ a.helloRetry = n.helloRetry
        /\ a.suite = s.suite /\ a.shared = hello[3] /\ a.group = hello[3]
        /\ a.events = n.events /\ a.told = n.told
    BY <1>3, <1>4, <2>2 DEF EngineOK, Fields
  <2> HIDE DEF a
  <2>4. /\ EngineOK(k, w) /\ k.transcript = n.transcript /\ k.helloRetry = n.helloRetry
        /\ k.suite = s.suite /\ k.shared = hello[3] /\ k.group = hello[3]
        /\ k.hsSecret = DeriveHandshakeSecrets(a)
        /\ k.events = n.events /\ k.told = n.told
    BY <2>3 DEF EngineOK, Fields, InstallHandshakeKeys
  <2> HIDE DEF k
  <2>5. HandshakeKeyed(k) /\ Unfinished(k.transcript)
    <3>1. DeriveHandshakeSecrets(k) = DeriveHandshakeSecrets(a)
      BY <2>3, <2>4 DEF DeriveHandshakeSecrets
    <3>2. Greeted(k, 2) /\ IsSeq(k.transcript)
      BY <2>1, <2>4 DEF Greeted, EngineOK
    <3> QED
      BY <2>4, <3>1, <3>2, HandshakeKeysDrawn
  <2>6. Becomes(k, g, w)
    BY <1>5, <2>4, EnablePeerEncryptionOK
  <2> HIDE DEF g
  <2>7. SuiteAgreed(k, s)
    BY <1>3, <2>4 DEF SuiteAgreed
  <2>8. ClientRules(k, "AwaitEncryptedExtensions", s)
    BY <2>5, <2>7 DEF ClientRules
  <2>9. EngineOK(g, w) /\ ~Reported(g) /\ ClientRules(g, "AwaitEncryptedExtensions", s)
    BY <1>4, <2>4, <2>6, <2>8, SameRules DEF Becomes, Keeps, Reported
  <2> QED
    BY <1>0, <1>1, <1>2, <2>9, ClientTake DEF w
<1>6. CASE ~fits
  <2>1. g = Fail(n, "SecurityError")
    BY <1>6
  <2>2. EngineOK(g, w) /\ ~Reported(g) /\ g.err # "none"
    BY <1>4, <2>1, FailOK DEF Becomes, Keeps, Reported
  <2> HIDE DEF g
  <2> QED
    BY <1>0, <1>1, <1>2, <2>2, ClientTake DEF w
<1> QED
  BY <1>5, <1>6

\* A message between the two secrets, or after them.
LEMMA MoreAdds ==
    ASSUME NEW e, IsSeq(e.transcript), NEW type, type # "Finished", NEW mseq, NEW f,
           Adds(e, f, <<type, mseq>>)
    PROVE  /\ HandshakeKeyed(e) => HandshakeKeyed(f)
           /\ Unfinished(e.transcript) => Unfinished(f.transcript)
           /\ ApplicationKeyed(e, Len(e.transcript)) => ApplicationKeyed(f, Len(f.transcript))
           /\ \A s : SuiteAgreed(e, s) => SuiteAgreed(f, s)
<1> DEFINE x == <<type, mseq>>
<1>1. x[1] # "Finished"
  OBVIOUS
<1>2. Adds(e, f, x)
  OBVIOUS
<1> HIDE DEF x
<1>3. HandshakeKeyed(e) => HandshakeKeyed(f)
  BY <1>2, KeyedAdds
<1>4. Unfinished(e.transcript) => Unfinished(f.transcript)
  BY <1>1, <1>2, UnfinishedAppend DEF Adds
<1>5. ApplicationKeyed(e, Len(e.transcript)) => ApplicationKeyed(f, Len(f.transcript))
  BY <1>1, <1>2, ApplicationAdds
<1>6. \A s : SuiteAgreed(e, s) => SuiteAgreed(f, s)
  BY <1>2 DEF Adds, SuiteAgreed
<1> QED
  BY <1>3, <1>4, <1>5, <1>6

\* What holds of an endpoint between the secrets, or after them, is kept.
Like(e, f) ==
    /\ f.state = e.state /\ (Reported(f) <=> Reported(e))
    /\ f.suite = e.suite /\ f.authRequested = e.authRequested /\ f.peerCert = e.peerCert
    /\ HandshakeKeyed(e) => HandshakeKeyed(f)
    /\ Unfinished(e.transcript) => Unfinished(f.transcript)
    /\ ApplicationKeyed(e, Len(e.transcript)) => ApplicationKeyed(f, Len(f.transcript))
    /\ \A s : SuiteAgreed(e, s) => SuiteAgreed(f, s)

LEMMA TakenMore ==
    ASSUME NEW w, NEW e, EngineOK(e, w), NEW type, type # "Finished"
    PROVE  LET n == NextHandshake(e, type)
           IN  EngineOK(n, w) /\ Like(e, n)
<1> DEFINE n == NextHandshake(e, type)
           m == Pending(e)[1].rec.mseq
<1>1. EngineOK(n, w) /\ n.state = e.state /\ (Reported(n) <=> Reported(e))
      /\ Adds(e, n, <<type, m>>) /\ IsSeq(e.transcript)
  BY TakenIs DEF EngineOK
<1> HIDE DEF n, m
<1>2. n.suite = e.suite /\ n.authRequested = e.authRequested /\ n.peerCert = e.peerCert
  BY <1>1 DEF Adds
<1>3. EngineOK(n, w) /\ Like(e, n)
  BY <1>1, <1>2, MoreAdds DEF Like
<1> QED
  BY <1>3 DEF n

LEMMA SentMore ==
    ASSUME NEW w, NEW e, EngineOK(e, w), NEW type, type # "Finished", NEW len \in Nat, NEW val,
           type \in DOMAIN w.said => Claim(type, e.nextSeq, val) \in w.said[type]
    PROVE  LET f == CreateHandshake(e, type, len, val)
           IN  EngineOK(f, w) /\ Like(e, f)
<1> DEFINE f == CreateHandshake(e, type, len, val)
           m == e.nextSeq
<1>1. EngineOK(f, w) /\ f.state = e.state /\ (Reported(f) <=> Reported(e))
      /\ Adds(e, f, <<type, m>>) /\ IsSeq(e.transcript)
  BY SentIs DEF EngineOK
<1> HIDE DEF f, m
<1>2. f.suite = e.suite /\ f.authRequested = e.authRequested /\ f.peerCert = e.peerCert
  BY <1>1 DEF Adds
<1>3. EngineOK(f, w) /\ Like(e, f)
  BY <1>1, <1>2, MoreAdds DEF Like
<1> QED
  BY <1>3 DEF f

LEMMA AwaitEncryptedExtensionsOK ==
    ASSUME IInv, AwaitEncryptedExtensions
    PROVE  IInv'
<1> DEFINE c == ep["client"]
           s == ep["server"]
           w == World("client", ep, Length)
           n == NextHandshake(c, "EncryptedExtensions")
<1>0. n = NextHandshake(c, "EncryptedExtensions")
  OBVIOUS
<1>1. /\ At("client", "AwaitEncryptedExtensions")
      /\ Go("client", Accepted(IF n.err = "none" THEN n ELSE n), "AwaitCertificateRequest")
  BY DEF AwaitEncryptedExtensions, Take, OnSuccess, Same
<1>2. /\ busy = "client" /\ c.state \notin Over /\ EngineOK(c, w) /\ ~Reported(c)
      /\ IsSeq(c.transcript)
      /\ HandshakeKeyed(c) /\ Unfinished(c.transcript) /\ SuiteAgreed(c, s)
  BY <1>1, ClientAt DEF Over, ClientRules
<1> HIDE DEF w
<1>3. EngineOK(n, w) /\ ~Reported(n) /\ HandshakeKeyed(n) /\ Unfinished(n.transcript) /\ SuiteAgreed(n, s)
  BY <1>2, TakenMore DEF Like
<1> HIDE DEF n
<1>4. ClientRules(n, "AwaitCertificateRequest", s)
  BY <1>3 DEF ClientRules
<1> QED
  BY <1>0, <1>1, <1>2, <1>3, <1>4, ClientTake DEF w

LEMMA AwaitCertificateRequestOK ==
    ASSUME IInv, AwaitCertificateRequest
    PROVE  IInv'
<1> DEFINE c == ep["client"]
           s == ep["server"]
           w == World("client", ep, Length)
           n == NextHandshake(c, "CertificateRequest")
           g == [n EXCEPT !.authRequested = TRUE]
<1>0. n = NextHandshake(c, "CertificateRequest")
  OBVIOUS
<1>1. /\ At("client", "AwaitCertificateRequest")
      /\ \/ Go("client", c, "AwaitCertificate")
         \/ Go("client", Accepted(IF n.err = "none" THEN g ELSE n), "AwaitCertificate")
  BY DEF AwaitCertificateRequest, Take, OnSuccess
<1>2. /\ busy = "client" /\ c.state \notin Over /\ EngineOK(c, w) /\ ~Reported(c)
      /\ IsSeq(c.transcript)
      /\ HandshakeKeyed(c) /\ Unfinished(c.transcript) /\ SuiteAgreed(c, s)
  BY <1>1, ClientAt DEF Over, ClientRules
<1> HIDE DEF w
<1>3. CASE Go("client", c, "AwaitCertificate")
  <2>1. ClientRules(c, "AwaitCertificate", s)
    BY <1>2 DEF ClientRules
  <2> QED
    BY <1>2, <1>3, <2>1, ClientGo DEF w
<1>4. CASE Go("client", Accepted(IF n.err = "none" THEN g ELSE n), "AwaitCertificate")
  <2>1. EngineOK(n, w) /\ ~Reported(n) /\ HandshakeKeyed(n) /\ Unfinished(n.transcript) /\ SuiteAgreed(n, s)
    BY <1>2, TakenMore DEF Like
  <2> HIDE DEF n
  <2>2. EngineOK(g, w) /\ g.events = n.events /\ g.told = n.told /\ g.transcript = n.transcript
        /\ g.group = n.group /\ g.shared = n.shared /\ g.hsSecret = n.hsSecret /\ g.suite = n.suite
    BY <2>1 DEF EngineOK, Fields
  <2> HIDE DEF g
  <2>3. ~Reported(g) /\ HandshakeKeyed(g) /\ Unfinished(g.transcript) /\ SuiteAgreed(g, s)
    BY <2>1, <2>2 DEF Reported, HandshakeKeyed, SuiteAgreed
  <2>4. ClientRules(g, "AwaitCertificate", s)
    BY <2>3 DEF ClientRules
  <2> QED
    BY <1>0, <1>2, <1>4, <2>2, <2>3, <2>4, ClientTake DEF w
<1> QED
  BY <1>1, <1>3, <1>4

LEMMA AwaitServerCertificateOK ==
    ASSUME IInv, AwaitServerCertificate
    PROVE  IInv'
<1> DEFINE c == ep["client"]
           s == ep["server"]
           w == World("client", ep, Length)
           n == NextHandshake(c, "Certificate")
           g == [n EXCEPT !.peerCert = TRUE, !.events = Append(@, "PeerCert")]
<1>0. n = NextHandshake(c, "Certificate")
  OBVIOUS
<1>1. /\ At("client", "AwaitCertificate")
      /\ Go("client", Accepted(IF n.err = "none" THEN g ELSE n), "AwaitCertificateVerify")
  BY DEF AwaitServerCertificate, Take, OnSuccess
<1>2. /\ busy = "client" /\ c.state \notin Over /\ EngineOK(c, w) /\ ~Reported(c)
      /\ IsSeq(c.transcript)
      /\ HandshakeKeyed(c) /\ Unfinished(c.transcript) /\ SuiteAgreed(c, s)
  BY <1>1, ClientAt DEF Over, ClientRules
<1> HIDE DEF w
<1>3. EngineOK(n, w) /\ ~Reported(n) /\ HandshakeKeyed(n) /\ Unfinished(n.transcript) /\ SuiteAgreed(n, s)
  BY <1>2, TakenMore DEF Like
<1> HIDE DEF n
<1> DEFINE shown == [n EXCEPT !.peerCert = TRUE]
<1>4. EngineOK(g, w) /\ ~Reported(g) /\ g.peerCert = TRUE /\ SameKeys(shown, g)
  BY <1>3, PeerCertOK
<1>5. /\ shown.transcript = n.transcript /\ shown.suite = n.suite
      /\ shown.group = n.group /\ shown.shared = n.shared /\ shown.hsSecret = n.hsSecret
  BY <1>3 DEF EngineOK, Fields
<1> HIDE DEF g, shown
<1>6. HandshakeKeyed(g) /\ Unfinished(g.transcript) /\ SuiteAgreed(g, s)
  BY <1>3, <1>4, <1>5 DEF SameKeys, HandshakeKeyed, SuiteAgreed
<1>7. ClientRules(g, "AwaitCertificateVerify", s)
  BY <1>4, <1>6 DEF ClientRules
<1> QED
  BY <1>0, <1>1, <1>2, <1>4, <1>7, ClientTake DEF w

LEMMA AwaitServerCertificateVerifyOK ==
    ASSUME IInv, AwaitServerCertificateVerify
    PROVE  IInv'
<1> DEFINE c == ep["client"]
           s == ep["server"]
           w == World("client", ep, Length)
           right == MessageBody(c).hash = c.transcript
           n == NextHandshake(c, "CertificateVerify")
           g == FailUnless(right, n, "CryptoError")
<1>0. n = NextHandshake(c, "CertificateVerify")
  OBVIOUS
<1>1. /\ At("client", "AwaitCertificateVerify")
      /\ Go("client", Accepted(IF n.err = "none" THEN g ELSE n), "AwaitFinished")
  BY DEF AwaitServerCertificateVerify, Take, OnSuccess
<1>2. /\ busy = "client" /\ c.state \notin Over /\ EngineOK(c, w) /\ ~Reported(c)
      /\ IsSeq(c.transcript) /\ c.peerCert = TRUE
      /\ HandshakeKeyed(c) /\ Unfinished(c.transcript) /\ SuiteAgreed(c, s)
  BY <1>1, ClientAt DEF Over, ClientRules
<1> HIDE DEF w
<1>3. EngineOK(n, w) /\ ~Reported(n) /\ HandshakeKeyed(n) /\ Unfinished(n.transcript) /\ SuiteAgreed(n, s)
      /\ n.peerCert = TRUE
  BY <1>2, TakenMore DEF Like
<1> HIDE DEF n, right
<1>4. Becomes(n, g, w)
  <2>1. Becomes(n, n, w)
    BY <1>3 DEF Becomes, Keeps, SameKeys
  <2> QED
    BY <1>3, <2>1, FailOK DEF FailUnless
<1> HIDE DEF g
<1>5. ClientRules(n, "AwaitFinished", s)
  BY <1>3 DEF ClientRules
<1>6. EngineOK(g, w) /\ ~Reported(g) /\ ClientRules(g, "AwaitFinished", s)
  BY <1>3, <1>4, <1>5, SameRules DEF Becomes, Keeps, Reported
<1> QED
  BY <1>0, <1>1, <1>2, <1>6, ClientTake DEF w

LEMMA InstallApplicationKeysOK ==
    ASSUME NEW w, NEW e, EngineOK(e, w)
    PROVE  LET f == InstallApplicationKeys(e)
           IN  /\ EngineOK(f, w) /\ f.state = e.state /\ f.err = e.err
               /\ f.events = e.events /\ f.told = e.told
               /\ f.transcript = e.transcript /\ f.suite = e.suite /\ f.group = e.group
               /\ f.shared = e.shared /\ f.hsSecret = e.hsSecret
               /\ f.authRequested = e.authRequested /\ f.peerCert = e.peerCert
               /\ f.appSecret = DeriveApplicationSecrets(e)
  BY DEF EngineOK, Fields, InstallApplicationKeys

\* With the Finished of the server the second secret is drawn.
LEMMA FinishedAdds ==
    ASSUME NEW w, NEW e, IsSeq(e.transcript), HandshakeKeyed(e), Unfinished(e.transcript),
           NEW n, EngineOK(n, w), NEW mseq, Adds(e, n, <<"Finished", mseq>>)
    PROVE  LET g == InstallApplicationKeys(n)
           IN  /\ EngineOK(g, w) /\ g.state = n.state /\ (Reported(g) <=> Reported(n))
               /\ HandshakeKeyed(g) /\ ApplicationKeyed(g, Len(g.transcript))
               /\ g.suite = e.suite /\ g.peerCert = e.peerCert /\ g.authRequested = e.authRequested
<1> DEFINE g == InstallApplicationKeys(n)
<1>1. /\ EngineOK(g, w) /\ g.state = n.state /\ g.events = n.events /\ g.told = n.told
      /\ g.transcript = n.transcript /\ g.suite = n.suite /\ g.group = n.group
      /\ g.shared = n.shared /\ g.hsSecret = n.hsSecret
      /\ g.authRequested = n.authRequested /\ g.peerCert = n.peerCert
      /\ g.appSecret = DeriveApplicationSecrets(n)
  BY InstallApplicationKeysOK
<1> HIDE DEF g
<1>2. HandshakeKeyed(n)
  BY KeyedAdds
<1>3. HandshakeKeyed(g)
  BY <1>1, <1>2 DEF HandshakeKeyed
<1>4. ApplicationKeyed(g, Len(g.transcript))
  BY <1>1, ApplicationKeysDrawn
<1>5. n.suite = e.suite /\ n.peerCert = e.peerCert /\ n.authRequested = e.authRequested
  BY DEF Adds
<1>6. Reported(g) <=> Reported(n)
  BY <1>1 DEF Reported
<1> QED
  BY <1>1, <1>3, <1>4, <1>5, <1>6 DEF g

LEMMA AwaitServerFinishedOK ==
    ASSUME IInv, AwaitServerFinished
    PROVE  IInv'
<1> DEFINE c == ep["client"]
           s == ep["server"]
           w == World("client", ep, Length)
           right == MessageBody(c).hash = ComputeVerifyData(c, "server")
           m == Pending(c)[1].rec.mseq
           n == NextHandshake(c, "Finished")
           g == IF right THEN InstallApplicationKeys(n) ELSE Fail(n, "SecurityError")
           to == IF c.authRequested THEN "SendCertificate" ELSE "SendFinished"
<1>0. n = NextHandshake(c, "Finished")
  OBVIOUS
<1>1. /\ At("client", "AwaitFinished")
      /\ Go("client", Accepted(IF n.err = "none" THEN g ELSE n), to)
  BY DEF AwaitServerFinished, Take, OnSuccess
<1>2. /\ busy = "client" /\ c.state \notin Over /\ EngineOK(c, w) /\ ~Reported(c)
      /\ IsSeq(c.transcript) /\ c.peerCert = TRUE
      /\ HandshakeKeyed(c) /\ Unfinished(c.transcript) /\ SuiteAgreed(c, s)
  BY <1>1, ClientAt DEF Over, ClientRules
<1>3. to \in {"SendCertificate", "SendFinished"}
  OBVIOUS
<1> HIDE DEF w, to
<1>4. EngineOK(n, w) /\ ~Reported(n) /\ Adds(c, n, <<"Finished", m>>)
  BY <1>2, TakenIs
<1> HIDE DEF n, right, m
<1>5. CASE right
  <2>1. g = InstallApplicationKeys(n)
    BY <1>5
  <2> HIDE DEF g
  <2>2. /\ EngineOK(g, w) /\ ~Reported(g) /\ HandshakeKeyed(g)
        /\ ApplicationKeyed(g, Len(g.transcript)) /\ g.suite = c.suite /\ g.peerCert = TRUE
    <3> HIDE DEF c
    <3> QED
      BY <1>2, <1>4, <2>1, FinishedAdds
  <2>3. SuiteAgreed(g, s)
    BY <1>2, <2>2 DEF SuiteAgreed
  <2>4. ClientRules(g, to, s)
    BY <1>3, <2>2, <2>3 DEF ClientRules
  <2> QED
    BY <1>0, <1>1, <1>2, <2>2, <2>4, ClientTake DEF w
<1>6. CASE ~right
  <2>1. g = Fail(n, "SecurityError")
    BY <1>6
  <2> HIDE DEF g
  <2>2. EngineOK(g, w) /\ ~Reported(g) /\ g.err # "none"
    BY <1>4, <2>1, FailOK DEF Becomes, Keeps, Reported
  <2> QED
    BY <1>0, <1>1, <1>2, <2>2, ClientTake DEF w
<1> QED
  BY <1>5, <1>6

LEMMA BecomesLike ==
    ASSUME NEW w, NEW e, NEW f, Becomes(e, f, w)
    PROVE  EngineOK(f, w) /\ Like(e, f) /\ f.transcript = e.transcript
<1>1. EngineOK(f, w) /\ SameKeys(e, f) /\ f.state = e.state /\ (Reported(f) <=> Reported(e))
  BY DEF Becomes, Keeps, Reported
<1>2. f.transcript = e.transcript /\ f.suite = e.suite /\ f.authRequested = e.authRequested
      /\ f.peerCert = e.peerCert
  BY <1>1 DEF SameKeys
<1>3. \A s : SuiteAgreed(e, s) => SuiteAgreed(f, s)
  BY <1>2 DEF SuiteAgreed
<1> QED
  BY <1>1, <1>2, <1>3, SameRules DEF Like

LEMMA LikeOn ==
    ASSUME NEW e, NEW f, NEW g, Like(e, f), Like(f, g)
    PROVE  Like(e, g)
  BY DEF Like

LEMMA SendClientCertificateOK ==
    ASSUME IInv, SendClientCertificate
    PROVE  IInv'
<1> DEFINE c == ep["client"]
           s == ep["server"]
           w == World("client", ep, Length)
           len == cfg.client.certLen
           n == IF len = 0 THEN 1 ELSE len
           val == CreateCertificate(len)
           b == FlightBegin(c)
           f == CreateHandshake(b, "Certificate", n, val)
           to == IF len = 0 THEN "SendFinished" ELSE "SendCertificateVerify"
<1>1. At("client", "SendCertificate") /\ Go("client", f, to)
  BY DEF SendClientCertificate
<1>2. /\ busy = "client" /\ c.state \notin Over /\ EngineOK(c, w) /\ ~Reported(c)
      /\ c.peerCert = TRUE
      /\ HandshakeKeyed(c) /\ ApplicationKeyed(c, Len(c.transcript)) /\ SuiteAgreed(c, s)
      /\ DOMAIN w.said = {"Certificate", "Finished"} /\ w.said["Certificate"] = {Length = 0}
  BY <1>1, ClientAt DEF Over, ClientRules
<1>3. n \in Nat /\ len = Length
  BY ScenarioAssumption DEF IInv, Length
<1>4. Claim("Certificate", b.nextSeq, val) \in w.said["Certificate"]
  <2>1. (val.args[1] = "empty") = (len = 0)
    BY DEF CreateCertificate, Body
  <2> HIDE DEF val, w, b
  <2>2. Claim("Certificate", b.nextSeq, val) = (val.args[1] = "empty")
    BY DEF Claim
  <2> QED
    BY <1>2, <1>3, <2>1, <2>2
<1>5. to \in {"SendFinished", "SendCertificateVerify"}
  OBVIOUS
<1> HIDE DEF w, len, n, val, to
<1>6. EngineOK(b, w) /\ Like(c, b)
  BY <1>2, FlightBeginOK, BecomesLike
<1> HIDE DEF b
<1>7. EngineOK(f, w) /\ Like(b, f)
  BY <1>3, <1>4, <1>6, SentMore
<1> HIDE DEF f
<1>8. /\ ~Reported(f) /\ f.peerCert = TRUE
      /\ HandshakeKeyed(f) /\ ApplicationKeyed(f, Len(f.transcript)) /\ SuiteAgreed(f, s)
  BY <1>2, <1>6, <1>7 DEF Like
<1>9. ClientRules(f, to, s)
  BY <1>5, <1>8 DEF ClientRules
<1> QED
  BY <1>1, <1>2, <1>7, <1>8, <1>9, ClientGo DEF w

LEMMA SendClientCertificateVerifyOK ==
    ASSUME IInv, SendClientCertificateVerify
    PROVE  IInv'
<1> DEFINE c == ep["client"]
           s == ep["server"]
           w == World("client", ep, Length)
           f == CreateHandshake(c, "CertificateVerify", 1, CreateCertificateVerify(c))
<1>1. At("client", "SendCertificateVerify") /\ Go("client", f, "SendFinished")
  BY DEF SendClientCertificateVerify
<1>2. /\ busy = "client" /\ c.state \notin Over /\ EngineOK(c, w) /\ ~Reported(c)
      /\ c.peerCert = TRUE
      /\ HandshakeKeyed(c) /\ ApplicationKeyed(c, Len(c.transcript)) /\ SuiteAgreed(c, s)
      /\ DOMAIN w.said = {"Certificate", "Finished"}
  BY <1>1, ClientAt DEF Over, ClientRules
<1> HIDE DEF w
<1>3. EngineOK(f, w) /\ Like(c, f)
  BY <1>2, SentMore
<1> HIDE DEF f
<1>4. /\ ~Reported(f) /\ f.peerCert = TRUE
      /\ HandshakeKeyed(f) /\ ApplicationKeyed(f, Len(f.transcript)) /\ SuiteAgreed(f, s)
  BY <1>2, <1>3 DEF Like
<1>5. ClientRules(f, "SendFinished", s)
  BY <1>4 DEF ClientRules
<1> QED
  BY <1>1, <1>2, <1>3, <1>4, <1>5, ClientGo DEF w

\* The first secret, entry by entry.
LEMMA SecretIs ==
    ASSUME NEW e, IsSeq(e.transcript), HandshakeKeyed(e)
    PROVE  LET h == e.hsSecret
               t == e.transcript
               k == Hellos(t)
           IN  /\ IsSeq(h) /\ k \in 1..Len(t) /\ Len(t) \in Nat /\ Len(h) = k + 1
               /\ h[1] = <<e.shared, 0>> /\ \A i \in 1..k : h[i + 1] = t[i]
<1> DEFINE t == e.transcript
           n == Len(t)
           k == Hellos(t)
           y == <<e.shared, 0>>
           S == ToSet(t) \cup {y}
           h == <<y>> \o SubSeq(t, 1, k)
<1>1. e.hsSecret = h /\ k \in 1..n
  BY DEF HandshakeKeyed
<1>2. t \in Seq(S) /\ y \in S /\ n \in Nat
  BY SeqInto, SeqHas
<1> HIDE DEF t, y, k, S
<1>3. k \in Nat /\ k <= n
  BY <1>1, <1>2
<1> DEFINE v == SubSeq(t, 1, k)
<1>4. v \in Seq(S) /\ Len(v) = k /\ \A i \in 1..k : v[i] = t[i]
  BY <1>2, <1>3
<1> HIDE DEF v, n
<1> DEFINE g == <<y>> \o v
<1>5. g \in Seq(S) /\ Len(g) = k + 1 /\ g[1] = y /\ \A i \in 1..k : g[i + 1] = v[i]
  BY <1>2, <1>3, <1>4
<1>6. g = h
  BY DEF v
<1> HIDE DEF g, h
<1>7. IsSeq(g)
  BY <1>5, SeqIs
<1> QED
  BY <1>1, <1>2, <1>4, <1>5, <1>6, <1>7 DEF t, n, y, k

\* The Finished of the client is the last of what it says it has verified.
LEMMA VerifyAppend ==
    ASSUME NEW e, IsSeq(e.transcript), HandshakeKeyed(e), NEW f, NEW x, Adds(e, f, x)
    PROVE  VerifyData(f) = Append(ComputeVerifyData(e, "client"), x)
<1> DEFINE a == << <<"client", 0>> >>
           b == e.hsSecret
           c == e.transcript
           S == ToSet(a) \cup ToSet(b) \cup ToSet(c) \cup {x}
<1>1. IsSeq(a) /\ IsSeq(b)
  BY OneIs, SecretIs
<1>2. f.hsSecret = b /\ f.transcript = Append(c, x)
  BY DEF Adds
<1> HIDE DEF a
<1>3. a \in Seq(S) /\ b \in Seq(S) /\ c \in Seq(S) /\ x \in S
  BY <1>1, SeqInto
<1> HIDE DEF b, c, S
<1>4. b \o Append(c, x) = Append(b \o c, x) /\ b \o c \in Seq(S)
  BY <1>3
<1>5. a \o Append(b \o c, x) = Append(a \o (b \o c), x)
  <2> DEFINE d == b \o c
  <2>1. d \in Seq(S)
    BY <1>4
  <2> HIDE DEF d
  <2>2. a \o Append(d, x) = Append(a \o d, x)
    BY <1>3, <2>1
  <2> QED
    BY <2>2 DEF d
<1>6. a \o (b \o c) = a \o b \o c
  BY <1>3
<1> QED
  BY <1>2, <1>4, <1>5, <1>6 DEF VerifyData, ComputeVerifyData, a, b, c

\* The client's Finished is sent when the client has told of the connection: what
\* it claims is what the client then holds.
LEMMA SendClientFinishedOK ==
    ASSUME IInv, SendClientFinished
    PROVE  IInv'
<1> DEFINE c == ep["client"]
           s == ep["server"]
           w == World("client", ep, Length)
           e == IF c.authRequested THEN c ELSE FlightBegin(c)
           x == <<"Finished", c.nextSeq>>
           v == Append(ComputeVerifyData(c, "client"), x)
           said == [t \in {"Certificate", "Finished"} |->
                       IF t = "Certificate" THEN {Length = 0} ELSE {v}]
           u == [own |-> w.own, peer |-> w.peer, said |-> said, heard |-> w.heard]
           val == Body(<<>>, ComputeVerifyData(e, "client"))
           sent == CreateHandshake(e, "Finished", 1, val)
           connected == ReportConnected(sent)
           f == ReleaseApplicationData(connected)
<1>1. At("client", "SendFinished") /\ Go("client", f, "AwaitApplicationData")
  BY DEF SendClientFinished
<1>2. /\ busy = "client" /\ c.state \notin Over /\ EngineOK(c, w) /\ ~Reported(c)
      /\ IsSeq(c.transcript) /\ c.peerCert = TRUE
      /\ HandshakeKeyed(c) /\ ApplicationKeyed(c, Len(c.transcript)) /\ SuiteAgreed(c, s)
      /\ DOMAIN w.said = {"Certificate", "Finished"}
      /\ w.said["Certificate"] = {Length = 0} /\ w.said["Finished"] = {}
  BY <1>1, ClientAt DEF Over, ClientRules
<1>3. /\ DOMAIN said = {"Certificate", "Finished"} /\ said["Certificate"] = {Length = 0}
      /\ said["Finished"] = {v}
  <2> HIDE DEF v
  <2> QED
    OBVIOUS
<1>4. u.own = w.own /\ u.peer = w.peer /\ u.said = said /\ u.heard = w.heard
  OBVIOUS
<1>5. ComputeVerifyData(e, "client") = ComputeVerifyData(c, "client") /\ e.nextSeq = c.nextSeq
  <2>1. e = c \/ e = FlightBegin(c)
    OBVIOUS
  <2>2. Becomes(c, FlightBegin(c), w) /\ FlightBegin(c).nextSeq = c.nextSeq
    BY <1>2, FlightBeginOK
  <2> HIDE DEF e
  <2> QED
    BY <2>1, <2>2 DEF Becomes, Keeps, SameKeys, ComputeVerifyData
<1>6. Claim("Finished", e.nextSeq, val) = v
  <2>1. val.hash = ComputeVerifyData(c, "client")
    BY <1>5 DEF Body
  <2> HIDE DEF val
  <2> QED
    BY <1>5, <2>1 DEF Claim
<1>7. x[1] = "Finished"
  OBVIOUS
<1>8. <<"Finished", e.nextSeq>> = x
  BY <1>5
<1> HIDE DEF w, u, said, v, val, x
<1>9. EngineOK(c, u)
  <2>1. Grows(w.said, u.said) /\ Grows(w.heard, u.heard)
    BY <1>2, <1>3, <1>4 DEF Grows
  <2> QED
    BY <1>2, <1>4, <2>1, EngineGrows
<1>10. Becomes(c, e, u)
  <2>1. Becomes(c, c, u)
    BY <1>9 DEF Becomes, Keeps, SameKeys
  <2> QED
    BY <1>9, <2>1, FlightBeginOK
<1> HIDE DEF e
<1>11. EngineOK(sent, u) /\ Adds(e, sent, x)
  BY <1>3, <1>4, <1>6, <1>8, <1>10, SentIs DEF Becomes
<1> HIDE DEF sent
<1>12. EngineOK(connected, u) /\ SameKeys(sent, connected) /\ Reported(connected)
  BY <1>11, ReportConnectedOK
<1> HIDE DEF connected
<1>13. Becomes(connected, f, u)
  BY <1>12, ReleaseOK
<1> HIDE DEF f
<1>14. EngineOK(f, u) /\ Reported(f) /\ SameKeys(connected, f)
  BY <1>12, <1>13 DEF Becomes, Keeps, Reported
<1>15. Adds(c, f, x)
  <2>1. Adds(e, f, x)
    BY <1>11, <1>12, <1>14, AddsSame
  <2>2. SameKeys(c, e)
    BY <1>10 DEF Becomes, Keeps
  <2> QED
    BY <2>1, <2>2 DEF Adds, SameKeys
<1>16. VerifyData(f) = v
  BY <1>2, <1>15, VerifyAppend DEF v
<1>17. ClientDone(f, s)
  <2>1. HandshakeKeyed(f) /\ ApplicationKeyed(f, Len(f.transcript) - 1)
    BY <1>2, <1>15, KeyedAdds, ApplicationAdds
  <2>2. SuiteAgreed(f, s) /\ f.peerCert = TRUE
    BY <1>2, <1>15 DEF SuiteAgreed, Adds
  <2> QED
    BY <2>1, <2>2 DEF ClientDone
<1>18. PICK g : ep' = [ep EXCEPT !["client"] = g] /\ SameKeys(f, g) /\ Reported(g)
  BY <1>1, <1>14, GoneIs
<1>19. EngineOK(f, World("client", ep', Length))
  <2> DEFINE z == World("client", ep', Length)
             b == Said("client", g, Length)
  <2>1. ep'["client"] = g /\ ep'["server"] = s
    BY <1>18 DEF IInv, P
  <2>2. z.own = w.own /\ z.peer = w.peer /\ z.said = b /\ z.heard = w.heard
    BY <2>1 DEF World, Peer, w
  <2>3. VerifyData(g) = v
    BY <1>16, <1>18, SameRules
  <2>4. DOMAIN b = {"Certificate", "Finished"} /\ b["Certificate"] = {Length = 0}
        /\ b["Finished"] = {v}
    BY <1>18, <2>3, SaidClaims
  <2> HIDE DEF z, b
  <2>5. Grows(u.said, z.said) /\ Grows(u.heard, z.heard)
    BY <1>3, <1>4, <2>2, <2>4 DEF Grows
  <2>6. EngineOK(f, z)
    BY <1>4, <1>14, <2>2, <2>5, EngineGrows
  <2> QED
    BY <2>6 DEF z
<1>20. ClientRules(f, "AwaitApplicationData", s)
  BY DEF ClientRules
<1> QED
  BY <1>1, <1>2, <1>17, <1>19, <1>20, ClientGo DEF Over

LEMMA ClientStepsOK ==
    ASSUME IInv, Client
    PROVE  IInv'
  BY SendClientHelloOK, AwaitHelloRetryRequestOK, AwaitServerHelloOK,
     AwaitEncryptedExtensionsOK, AwaitCertificateRequestOK, AwaitServerCertificateOK,
     AwaitServerCertificateVerifyOK, AwaitServerFinishedOK, SendClientCertificateOK,
     SendClientCertificateVerifyOK, SendClientFinishedOK DEF Client

----------------------------------------------------------------------------
(* The handlers of the server.                                             *)

LEMMA ServerAt ==
    ASSUME IInv, NEW state, At("server", state), state \notin Over
    PROVE  LET s == ep["server"]
               c == ep["client"]
               w == World("server", ep, Length)
           IN  /\ busy = "server" /\ s.state = state /\ s.state \notin Over /\ s.err = "none"
               /\ EngineOK(s, w) /\ ~Reported(s) /\ IsSeq(s.transcript)
               /\ ServerRules(s, state, Required, Length)
               /\ DOMAIN w.said = {"ServerHello"} /\ w.said["ServerHello"] = Suites(s)
               /\ DOMAIN w.heard = {"Certificate", "Finished"}
               /\ w.heard["Certificate"] = {Length = 0}
               /\ w.heard["Finished"] = IF Told(c) THEN {VerifyData(c)} ELSE {}
<1> DEFINE s == ep["server"]
           c == ep["client"]
           w == World("server", ep, Length)
<1>1. busy = "server" /\ s.state = state /\ "server" \in P
  BY DEF At, P
<1>2. s.err = "none" /\ EngineOK(s, w) /\ ~Reported(s)
  BY <1>1, BusyIs
<1>3. ServerRules(s, state, Required, Length)
  BY <1>1, <1>2 DEF IInv, ServerOK
<1>4. w.said = Said("server", s, Length) /\ w.heard = Sent("client", c, Length)
  BY DEF World, Peer
<1> HIDE DEF c, s, w
<1>5. /\ DOMAIN w.said = {"ServerHello"} /\ w.said["ServerHello"] = Suites(s)
      /\ DOMAIN w.heard = {"Certificate", "Finished"}
      /\ w.heard["Certificate"] = {Length = 0}
      /\ w.heard["Finished"] = IF Told(c) THEN {VerifyData(c)} ELSE {}
  <2> DEFINE a == Sent("client", c, Length)
             b == Said("server", s, Length)
  <2>1. /\ DOMAIN a = {"Certificate", "Finished"} /\ a["Certificate"] = {Length = 0}
        /\ a["Finished"] = IF Told(c) THEN {VerifyData(c)} ELSE {}
    BY SentClaims
  <2>2. DOMAIN b = {"ServerHello"} /\ b["ServerHello"] = Suites(s)
    BY SaidClaims
  <2>3. w.heard = a /\ w.said = b
    BY <1>4
  <2> HIDE DEF a, b
  <2> QED
    BY <2>1, <2>2, <2>3
<1> QED
  BY <1>1, <1>2, <1>3, <1>5 DEF EngineOK, c, s, w

\* A HelloRetryRequest leaves of the handshake the hash of the first hello and
\* itself.
LEMMA AskedIs ==
    ASSUME NEW w, NEW n, EngineOK(n, w), DOMAIN w.said = {"ServerHello"},
           <<>> \in w.said["ServerHello"], NEW suite, NEW groups
    PROVE  LET f == SendHelloRetryRequest(n, suite, groups)
           IN  /\ EngineOK(f, w) /\ f.state = n.state /\ (Reported(f) <=> Reported(n))
               /\ Greeted(f, 0) /\ f.authRequested = n.authRequested /\ f.peerCert = n.peerCert
<1> DEFINE k == Len(n.transcript)
           y == <<"message_hash", k>>
           r == ReplaceTranscriptWithMessageHash(n, k)
           b == FlightBegin(r)
           group == IF groups = <<>> THEN "none" ELSE groups[1]
           hello == Body(<<"retry", suite, group, "cookie">>, <<>>)
           asked == CreateHandshake(b, "ServerHello", 1, hello)
           m == b.nextSeq
           x == <<"ServerHello", m>>
           d == AdvancePeerHandshakeSeq(asked)
           g == ResetForHelloRetry(d)
           f == [g EXCEPT !.helloRetry = TRUE]
<1>1. SendHelloRetryRequest(n, suite, groups) = f
  BY DEF SendHelloRetryRequest
<1>2. r.transcript = <<y>> /\ EngineOK(r, w) /\ r.state = n.state /\ r.events = n.events
      /\ r.told = n.told /\ r.authRequested = n.authRequested /\ r.peerCert = n.peerCert
  <2> DEFINE t == n.transcript
  <2>1. IsSeq(t)
    BY DEF EngineOK
  <2>2. <<y>> \o SubSeq(t, Len(t) + 1, Len(t)) = <<y>>
    <3>1. t \in Seq(ToSet(t))
      BY <2>1 DEF IsSeq
    <3> HIDE DEF t, y
    <3>2. SubSeq(t, Len(t) + 1, Len(t)) = <<>>
      BY <3>1
    <3>3. <<y>> \o <<>> = <<y>>
      <4> DEFINE v == <<y>> \o <<>>
      <4>1. v \in Seq({y}) /\ Len(v) = 1 /\ v[1] = y
        OBVIOUS
      <4> HIDE DEF v
      <4>2. v = <<y>>
        BY <4>1
      <4> QED
        BY <4>2 DEF v
    <3> QED
      BY <3>2, <3>3
  <2>3. r = [n EXCEPT !.transcript = <<y>> \o SubSeq(t, Len(t) + 1, Len(t))]
    BY DEF ReplaceTranscriptWithMessageHash, EngineOK, Fields
  <2>4. r = [n EXCEPT !.transcript = <<y>>] /\ IsSeq(<<y>>)
    BY <2>2, <2>3, OneIs
  <2> HIDE DEF r, y
  <2> QED
    BY <2>4 DEF EngineOK, Fields
<1>3. y[1] = "message_hash" /\ x[1] = "ServerHello"
  OBVIOUS
<1>4. x = <<"ServerHello", b.nextSeq>>
  OBVIOUS
<1>5. Claim("ServerHello", m, hello) = <<>>
  <2>1. hello.args[1] = "retry"
    BY DEF Body
  <2> HIDE DEF hello, m
  <2> QED
    BY <2>1 DEF Claim
<1> HIDE DEF r, y, hello
<1>6. Becomes(r, b, w)
  BY <1>2, FlightBeginOK
<1> HIDE DEF b, x
<1>7. EngineOK(asked, w) /\ asked.state = b.state /\ (Reported(asked) <=> Reported(b))
      /\ Adds(b, asked, x)
  BY <1>4, <1>5, <1>6, SentIs DEF Becomes
<1> HIDE DEF asked
<1>8. Becomes(asked, g, w)
  <2>1. Becomes(asked, d, w)
    BY <1>7, AdvanceOK
  <2> HIDE DEF d
  <2> QED
    BY <2>1, ResetForHelloRetryOK, Chain DEF Becomes
<1> HIDE DEF g
<1>9. SameKeys(asked, g) /\ EngineOK(g, w) /\ g.state = asked.state
      /\ (Reported(g) <=> Reported(asked))
  BY <1>8 DEF Becomes, Keeps, Reported
<1>10. /\ EngineOK(f, w) /\ f.state = g.state /\ (Reported(f) <=> Reported(g))
       /\ f.helloRetry = TRUE /\ f.transcript = g.transcript
       /\ f.authRequested = g.authRequested /\ f.peerCert = g.peerCert
  BY <1>9 DEF EngineOK, Fields, Reported
<1> HIDE DEF f
<1>11. f.transcript = Append(<<y>>, x) /\ f.authRequested = n.authRequested
       /\ f.peerCert = n.peerCert
  BY <1>2, <1>6, <1>7, <1>9, <1>10 DEF Becomes, Keeps, SameKeys, Adds
<1>12. Greeted(f, 0)
  <2> DEFINE t == Append(<<y>>, x)
  <2>1. Len(t) = 2 /\ t[1] = y /\ t[2] = x /\ DOMAIN t = {1, 2}
    OBVIOUS
  <2> HIDE DEF t
  <2>2. Unfinished(t) /\ t[1][1] = "message_hash"
    BY <1>3, <2>1 DEF Unfinished
  <2>3. f.transcript = t
    BY <1>11 DEF t
  <2> QED
    BY <1>10, <2>1, <2>2, <2>3 DEF Greeted
<1>13. f.state = n.state /\ (Reported(f) <=> Reported(n))
  BY <1>2, <1>6, <1>7, <1>9, <1>10 DEF Becomes, Keeps, Reported
<1> QED
  BY <1>1, <1>10, <1>11, <1>12, <1>13

\* A call that ends with the server waiting for another hello, or failed.
LEMMA HelloReturned ==
    ASSUME IInv, At("server", "AwaitClientHello"), NEW e, Return("server", e),
           EngineOK(e, World("server", ep, Length)), ~Reported(e),
           e.err = "none" => /\ e.state = "AwaitClientHello"
                             /\ ServerRules(e, "AwaitClientHello", Required, Length)
    PROVE  IInv'
<1> DEFINE s == ep["server"]
<1>1. "server" \in P /\ s.state = "AwaitClientHello"
  BY DEF At, P
<1>0. Follows("server", s, e)
  BY <1>1 DEF Follows
<1>2. PICK f : /\ ep' = [ep EXCEPT !["server"] = f] /\ busy' = "nobody" /\ cfg' = cfg
               /\ Goes(e, f, World("server", ep, Length)) /\ f.err = e.err
               /\ \A m \in net' : m \in net \/ MessageOK(m, ep', Length)
  BY <1>0, <1>1, ReturnIs
<1>3. /\ EngineOK(f, World("server", ep, Length)) /\ ~Reported(f)
      /\ f.state = e.state /\ SameKeys(e, f)
  BY <1>2 DEF Goes, Steady, Reports
<1>4. ServerRules(f, "AwaitClientHello", Required, Length)
          <=> ServerRules(e, "AwaitClientHello", Required, Length)
  BY <1>3, SameRules
<1>5. ServerOK(f, ep["client"], Required, Length)
  BY <1>2, <1>3, <1>4 DEF ServerOK
<1>6. Follows("server", s, f)
  BY <1>1 DEF Follows
<1> QED
  BY <1>1, <1>2, <1>3, <1>5, <1>6, EndpointStep

LEMMA AwaitClientHelloOK ==
    ASSUME IInv, AwaitClientHello
    PROVE  IInv'
<1> DEFINE s == ep["server"]
           w == World("server", ep, Length)
           n == NextHandshake(s, "ClientHello")
           offer == Offer(Arg("server"))
           asked == SendHelloRetryRequest(n, offer.suites[1], offer.retry)
           taken == TakeHandshake(s, "ClientHello")
           failed == Fail(n, "SecurityError")
           chosen == AcceptClientHello(n, offer.suites[1], offer.share)
           x == <<"ClientHello", Pending(s)[1].rec.mseq>>
<1>1. /\ At("server", "AwaitClientHello")
      /\ \/ Go("server", failed, "AwaitClientHello")
         \/ Return("server", taken) \/ Return("server", asked) \/ Return("server", failed)
         \/ Go("server", chosen, "SendServerHello")
  BY DEF AwaitClientHello
<1>2. /\ busy = "server" /\ s.state = "AwaitClientHello" /\ s.state \notin Over /\ s.err = "none"
      /\ EngineOK(s, w) /\ ~Reported(s) /\ IsSeq(s.transcript)
      /\ ServerRules(s, "AwaitClientHello", Required, Length)
      /\ DOMAIN w.said = {"ServerHello"} /\ w.said["ServerHello"] = Suites(s)
  BY <1>1, ServerAt DEF Over
<1>3. Greeted(s, 0) /\ s.authRequested = FALSE /\ s.peerCert = FALSE
  BY <1>2 DEF ServerRules
<1>4. x[1] = "ClientHello"
  OBVIOUS
<1> HIDE DEF w
<1>5. EngineOK(n, w) /\ n.state = s.state /\ ~Reported(n) /\ Adds(s, n, x)
  BY <1>2, TakenIs
<1> HIDE DEF offer, x
<1>6. n.authRequested = FALSE /\ n.peerCert = FALSE
  BY <1>3, <1>5 DEF Adds
<1>7. CASE Return("server", taken)
  <2>1. Goes(s, taken, w) /\ "server" \in P
    BY <1>2, TakeHandshakeOK, BecomesGoes DEF P
  <2> HIDE DEF taken
  <2> QED
    BY <1>2, <1>7, <2>1, ReturnStep DEF Goes, Steady, w
<1>8. EngineOK(failed, w) /\ ~Reported(failed) /\ failed.err # "none"
  BY <1>5, FailOK DEF Becomes, Keeps, Reported
<1>9. CASE Return("server", asked)
  <2>1. <<>> \in w.said["ServerHello"]
    BY <1>2 DEF Suites
  <2> HIDE DEF n
  <2>2. EngineOK(asked, w) /\ asked.state = n.state /\ ~Reported(asked) /\ Greeted(asked, 0)
        /\ asked.authRequested = FALSE /\ asked.peerCert = FALSE
    BY <1>2, <1>5, <1>6, <2>1, AskedIs
  <2> HIDE DEF asked
  <2>3. ServerRules(asked, "AwaitClientHello", Required, Length)
    BY <2>2 DEF ServerRules
  <2> QED
    BY <1>1, <1>2, <1>5, <1>9, <2>2, <2>3, HelloReturned DEF w
<1>10. CASE Go("server", failed, "AwaitClientHello")
  <2> HIDE DEF failed
  <2> QED
    BY <1>2, <1>8, <1>10, ServerGo DEF w
<1>11. CASE Return("server", failed)
  <2> HIDE DEF failed
  <2> QED
    BY <1>1, <1>8, <1>11, HelloReturned DEF w
<1>12. CASE Go("server", chosen, "SendServerHello")
  <2> DEFINE a == [n EXCEPT !.suite = offer.suites[1], !.group = offer.share,
                            !.shared = offer.share]
  <2>1. chosen = AdvancePeerHandshakeSeq(a)
    BY DEF AcceptClientHello
  <2>2. Greeted(n, 1)
    <3>1. Greeted(n, 0 + 1)
      BY <1>2, <1>3, <1>4, <1>5, GreetedAdds
    <3> QED
      BY <3>1
  <2> HIDE DEF n
  <2>3. /\ EngineOK(a, w) /\ ~Reported(a) /\ a.transcript = n.transcript
        /\ a.helloRetry = n.helloRetry /\ a.group = offer.share /\ a.shared = offer.share
        /\ a.authRequested = FALSE /\ a.peerCert = FALSE
    BY <1>5, <1>6 DEF EngineOK, Fields, Reported
  <2>4. Greeted(a, 1)
    BY <2>2, <2>3 DEF Greeted
  <2> HIDE DEF a, chosen
  <2>5. Becomes(a, chosen, w)
    BY <2>1, <2>3, AdvanceOK
  <2>6. ServerRules(a, "SendServerHello", Required, Length)
    BY <2>3, <2>4 DEF ServerRules
  <2>7. EngineOK(chosen, w) /\ ~Reported(chosen)
        /\ ServerRules(chosen, "SendServerHello", Required, Length)
    BY <2>3, <2>5, <2>6, SameRules DEF Becomes, Keeps, Reported
  <2> QED
    BY <1>2, <1>12, <2>7, ServerGo DEF w
<1> QED
  BY <1>1, <1>7, <1>9, <1>10, <1>11, <1>12

LEMMA InstallHandshakeKeysOK ==
    ASSUME NEW w, NEW e, EngineOK(e, w)
    PROVE  LET f == InstallHandshakeKeys(e)
           IN  /\ EngineOK(f, w) /\ f.state = e.state /\ f.err = e.err
               /\ f.events = e.events /\ f.told = e.told
               /\ f.transcript = e.transcript /\ f.suite = e.suite /\ f.group = e.group
               /\ f.shared = e.shared /\ f.helloRetry = e.helloRetry
               /\ f.authRequested = e.authRequested /\ f.peerCert = e.peerCert
               /\ f.hsSecret = DeriveHandshakeSecrets(e)
  BY DEF EngineOK, Fields, InstallHandshakeKeys

\* The ServerHello claims the suite that the server has chosen and keeps.
LEMMA SendServerHelloOK ==
    ASSUME IInv, SendServerHello
    PROVE  IInv'
<1> DEFINE s == ep["server"]
           w == World("server", ep, Length)
           b == FlightBegin(s)
           val == CreateServerHello(s)
           sent == CreateHandshake(b, "ServerHello", 1, val)
           m == b.nextSeq
           x == <<"ServerHello", m>>
           f == InstallHandshakeKeys(sent)
<1>1. At("server", "SendServerHello") /\ Go("server", f, "SendEncryptedExtensions")
  BY DEF SendServerHello
<1>2. /\ busy = "server" /\ s.state = "SendServerHello" /\ s.state \notin Over
      /\ EngineOK(s, w) /\ ~Reported(s) /\ IsSeq(s.transcript)
      /\ ServerRules(s, "SendServerHello", Required, Length)
      /\ DOMAIN w.said = {"ServerHello"} /\ w.said["ServerHello"] = Suites(s)
  BY <1>1, ServerAt DEF Over
<1>3. Greeted(s, 1) /\ s.group = s.shared /\ s.authRequested = FALSE /\ s.peerCert = FALSE
  BY <1>2 DEF ServerRules
<1>4. Claim("ServerHello", m, val) \in w.said["ServerHello"]
  <2>1. val.args[1] = "hello" /\ val.args[2] = s.suite
    BY DEF CreateServerHello, Body
  <2> HIDE DEF val, m, w
  <2>2. Claim("ServerHello", m, val) = <<s.suite>>
    BY <2>1 DEF Claim
  <2> QED
    BY <1>2, <2>2 DEF Suites
<1> HIDE DEF w, val
<1>5. Becomes(s, b, w)
  BY <1>2, FlightBeginOK
<1>6. x[1] = "ServerHello" /\ x = <<"ServerHello", b.nextSeq>>
  OBVIOUS
<1> HIDE DEF b, x
<1>7. EngineOK(sent, w) /\ sent.state = b.state /\ (Reported(sent) <=> Reported(b))
      /\ Adds(b, sent, x)
  BY <1>4, <1>5, <1>6, SentIs DEF Becomes
<1> HIDE DEF sent
<1>8. sent.state = s.state /\ ~Reported(sent) /\ Adds(s, sent, x)
  BY <1>2, <1>5, <1>7 DEF Becomes, Keeps, SameKeys, Reported, Adds
<1>9. Greeted(sent, 2)
  <2>1. Greeted(sent, 1 + 1)
    BY <1>2, <1>3, <1>6, <1>8, GreetedAdds
  <2> QED
    BY <2>1
<1>10. /\ EngineOK(f, w) /\ f.state = sent.state /\ f.events = sent.events /\ f.told = sent.told
       /\ f.transcript = sent.transcript /\ f.suite = sent.suite /\ f.group = sent.group
       /\ f.shared = sent.shared /\ f.helloRetry = sent.helloRetry
       /\ f.authRequested = sent.authRequested /\ f.peerCert = sent.peerCert
       /\ f.hsSecret = DeriveHandshakeSecrets(sent)
  BY <1>7, InstallHandshakeKeysOK
<1> HIDE DEF f
<1>11. ~Reported(f) /\ f.state = "SendServerHello" /\ f.suite = s.suite /\ f.group = f.shared
       /\ f.authRequested = FALSE /\ f.peerCert = FALSE
  BY <1>2, <1>3, <1>8, <1>10 DEF Adds, Reported
<1>12. HandshakeKeyed(f) /\ Unfinished(f.transcript)
  <2>1. f.hsSecret = DeriveHandshakeSecrets(f)
    BY <1>10 DEF DeriveHandshakeSecrets
  <2>2. Greeted(f, 2) /\ IsSeq(f.transcript)
    BY <1>9, <1>10 DEF Greeted, EngineOK
  <2> QED
    BY <1>11, <2>1, <2>2, HandshakeKeysDrawn
<1>13. ServerRules(f, "SendEncryptedExtensions", Required, Length)
  BY <1>11, <1>12 DEF ServerRules
<1> QED
  BY <1>1, <1>2, <1>10, <1>11, <1>13, ServerGo DEF w

\* Between the hellos and the Finished the server only sends.
ServerSends ==
    {"SendEncryptedExtensions", "SendCertificateRequest", "SendCertificate",
     "SendCertificateVerify", "SendFinished"}

LEMMA ServerSending ==
    ASSUME IInv, NEW state \in ServerSends, At("server", state)
    PROVE  LET s == ep["server"]
               w == World("server", ep, Length)
           IN  /\ busy = "server" /\ s.state = state /\ s.state \notin Over \cup {"AwaitClientHello"}
               /\ EngineOK(s, w) /\ ~Reported(s) /\ IsSeq(s.transcript)
               /\ HandshakeKeyed(s) /\ Unfinished(s.transcript) /\ s.peerCert = FALSE
               /\ DOMAIN w.said = {"ServerHello"}
<1> DEFINE s == ep["server"]
           w == World("server", ep, Length)
<1>1. state \notin Over \cup {"AwaitClientHello"}
  BY DEF ServerSends, Over
<1>2. /\ busy = "server" /\ s.state = state
      /\ EngineOK(s, w) /\ ~Reported(s) /\ IsSeq(s.transcript)
      /\ ServerRules(s, state, Required, Length) /\ DOMAIN w.said = {"ServerHello"}
  BY <1>1, ServerAt
<1>3. HandshakeKeyed(s) /\ Unfinished(s.transcript) /\ s.peerCert = FALSE
  BY <1>2 DEF ServerRules, ServerSends
<1> QED
  BY <1>1, <1>2, <1>3

LEMMA RequiredIs ==
    ASSUME IInv
    PROVE  Required \in BOOLEAN /\ Length \in Nat /\ cfg.server.certLen \in Nat
  BY ScenarioAssumption DEF IInv, Required, Length

LEMMA SendEncryptedExtensionsOK ==
    ASSUME IInv, SendEncryptedExtensions
    PROVE  IInv'
<1> DEFINE s == ep["server"]
           w == World("server", ep, Length)
           f == CreateHandshake(s, "EncryptedExtensions", 1, CreateEncryptedExtensions)
           to == IF Required THEN "SendCertificateRequest" ELSE "SendCertificate"
<1>1. At("server", "SendEncryptedExtensions") /\ Go("server", f, to)
  BY DEF SendEncryptedExtensions, Required
<1>2. /\ busy = "server" /\ s.state = "SendEncryptedExtensions" /\ s.state \notin Over
      /\ EngineOK(s, w) /\ ~Reported(s) /\ HandshakeKeyed(s) /\ Unfinished(s.transcript)
      /\ s.peerCert = FALSE /\ DOMAIN w.said = {"ServerHello"} /\ s.authRequested = FALSE
  <2>1. ServerRules(s, "SendEncryptedExtensions", Required, Length)
    BY <1>1, ServerAt DEF Over
  <2>2. s.authRequested = FALSE
    BY <2>1 DEF ServerRules
  <2> QED
    BY <1>1, <2>2, ServerSending DEF ServerSends
<1> HIDE DEF w
<1>3. EngineOK(f, w) /\ Like(s, f)
  BY <1>2, SentMore
<1> HIDE DEF f
<1>4. /\ ~Reported(f) /\ f.state = s.state /\ f.suite = s.suite
      /\ HandshakeKeyed(f) /\ Unfinished(f.transcript)
      /\ f.peerCert = FALSE /\ f.authRequested = FALSE
  BY <1>2, <1>3 DEF Like
<1>5. /\ to \in {"SendCertificateRequest", "SendCertificate"}
      /\ to = "SendCertificateRequest" => Required
      /\ to = "SendCertificate" => FALSE = Required
  BY RequiredIs
<1> HIDE DEF to
<1>6. ServerRules(f, to, Required, Length)
  BY <1>4, <1>5 DEF ServerRules
<1> QED
  BY <1>1, <1>2, <1>3, <1>4, <1>5, <1>6, ServerGo DEF w

LEMMA SendCertificateRequestOK ==
    ASSUME IInv, SendCertificateRequest
    PROVE  IInv'
<1> DEFINE s == ep["server"]
           w == World("server", ep, Length)
           sent == CreateHandshake(s, "CertificateRequest", 1, CreateCertificateRequest)
           f == [sent EXCEPT !.authRequested = TRUE]
<1>1. At("server", "SendCertificateRequest") /\ Go("server", f, "SendCertificate")
  BY DEF SendCertificateRequest
<1>2. /\ busy = "server" /\ s.state = "SendCertificateRequest" /\ s.state \notin Over
      /\ EngineOK(s, w) /\ ~Reported(s) /\ HandshakeKeyed(s) /\ Unfinished(s.transcript)
      /\ s.peerCert = FALSE /\ DOMAIN w.said = {"ServerHello"} /\ Required = TRUE
  <2>1. ServerRules(s, "SendCertificateRequest", Required, Length)
    BY <1>1, ServerAt DEF Over
  <2>2. Required = TRUE
    BY <2>1, RequiredIs DEF ServerRules
  <2> QED
    BY <1>1, <2>2, ServerSending DEF ServerSends
<1> HIDE DEF w
<1>3. EngineOK(sent, w) /\ Like(s, sent)
  BY <1>2, SentMore
<1> HIDE DEF sent
<1>4. /\ ~Reported(sent) /\ sent.state = s.state /\ sent.suite = s.suite
      /\ HandshakeKeyed(sent) /\ Unfinished(sent.transcript) /\ sent.peerCert = FALSE
  BY <1>2, <1>3 DEF Like
<1>5. /\ EngineOK(f, w) /\ f.state = sent.state /\ f.suite = sent.suite /\ f.authRequested = TRUE
      /\ f.transcript = sent.transcript /\ f.group = sent.group /\ f.shared = sent.shared
      /\ f.hsSecret = sent.hsSecret /\ f.events = sent.events /\ f.told = sent.told
      /\ f.peerCert = FALSE
  BY <1>3, <1>4 DEF EngineOK, Fields
<1> HIDE DEF f
<1>6. ~Reported(f) /\ HandshakeKeyed(f) /\ Unfinished(f.transcript)
  BY <1>4, <1>5 DEF Reported, HandshakeKeyed
<1>7. ServerRules(f, "SendCertificate", Required, Length)
  BY <1>2, <1>5, <1>6 DEF ServerRules
<1> QED
  BY <1>1, <1>2, <1>4, <1>5, <1>6, <1>7, ServerGo DEF w

LEMMA SendServerCertificateOK ==
    ASSUME IInv, SendServerCertificate
    PROVE  IInv'
<1> DEFINE s == ep["server"]
           w == World("server", ep, Length)
           len == cfg.server.certLen
           f == CreateHandshake(s, "Certificate", len, CreateCertificate(len))
<1>1. At("server", "SendCertificate") /\ Go("server", f, "SendCertificateVerify")
  BY DEF SendServerCertificate
<1>2. /\ busy = "server" /\ s.state = "SendCertificate" /\ s.state \notin Over
      /\ EngineOK(s, w) /\ ~Reported(s) /\ HandshakeKeyed(s) /\ Unfinished(s.transcript)
      /\ s.peerCert = FALSE /\ DOMAIN w.said = {"ServerHello"} /\ s.authRequested = Required
  <2>1. ServerRules(s, "SendCertificate", Required, Length)
    BY <1>1, ServerAt DEF Over
  <2>2. s.authRequested = Required
    BY <2>1 DEF ServerRules
  <2> QED
    BY <1>1, <2>2, ServerSending DEF ServerSends
<1>3. len \in Nat
  BY RequiredIs
<1> HIDE DEF w, len
<1>4. EngineOK(f, w) /\ Like(s, f)
  BY <1>2, <1>3, SentMore
<1> HIDE DEF f
<1>5. /\ ~Reported(f) /\ f.state = s.state /\ f.suite = s.suite
      /\ HandshakeKeyed(f) /\ Unfinished(f.transcript)
      /\ f.peerCert = FALSE /\ f.authRequested = Required
  BY <1>2, <1>4 DEF Like
<1>6. ServerRules(f, "SendCertificateVerify", Required, Length)
  BY <1>5 DEF ServerRules
<1> QED
  BY <1>1, <1>2, <1>4, <1>5, <1>6, ServerGo DEF w

LEMMA SendServerCertificateVerifyOK ==
    ASSUME IInv, SendServerCertificateVerify
    PROVE  IInv'
<1> DEFINE s == ep["server"]
           w == World("server", ep, Length)
           f == CreateHandshake(s, "CertificateVerify", 1, CreateCertificateVerify(s))
<1>1. At("server", "SendCertificateVerify") /\ Go("server", f, "SendFinished")
  BY DEF SendServerCertificateVerify
<1>2. /\ busy = "server" /\ s.state = "SendCertificateVerify" /\ s.state \notin Over
      /\ EngineOK(s, w) /\ ~Reported(s) /\ HandshakeKeyed(s) /\ Unfinished(s.transcript)
      /\ s.peerCert = FALSE /\ DOMAIN w.said = {"ServerHello"} /\ s.authRequested = Required
  <2>1. ServerRules(s, "SendCertificateVerify", Required, Length)
    BY <1>1, ServerAt DEF Over
  <2>2. s.authRequested = Required
    BY <2>1 DEF ServerRules
  <2> QED
    BY <1>1, <2>2, ServerSending DEF ServerSends
<1> HIDE DEF w
<1>3. EngineOK(f, w) /\ Like(s, f)
  BY <1>2, SentMore
<1> HIDE DEF f
<1>4. /\ ~Reported(f) /\ f.state = s.state /\ f.suite = s.suite
      /\ HandshakeKeyed(f) /\ Unfinished(f.transcript)
      /\ f.peerCert = FALSE /\ f.authRequested = Required
  BY <1>2, <1>3 DEF Like
<1>5. ServerRules(f, "SendFinished", Required, Length)
  BY <1>4 DEF ServerRules
<1> QED
  BY <1>1, <1>2, <1>3, <1>4, <1>5, ServerGo DEF w

LEMMA SendServerFinishedOK ==
    ASSUME IInv, SendServerFinished
    PROVE  IInv'
<1> DEFINE s == ep["server"]
           w == World("server", ep, Length)
           m == s.nextSeq
           sent == CreateHandshake(s, "Finished", 1, Body(<<>>, ComputeVerifyData(s, "server")))
           keyed == InstallApplicationKeys(sent)
           f == EnablePeerEncryption(keyed)
           to == IF s.authRequested THEN "AwaitCertificate" ELSE "AwaitFinished"
<1>1. At("server", "SendFinished") /\ Go("server", f, to)
  BY DEF SendServerFinished
<1>2. /\ busy = "server" /\ s.state = "SendFinished" /\ s.state \notin Over
      /\ EngineOK(s, w) /\ ~Reported(s) /\ HandshakeKeyed(s) /\ Unfinished(s.transcript)
      /\ IsSeq(s.transcript)
      /\ s.peerCert = FALSE /\ DOMAIN w.said = {"ServerHello"} /\ s.authRequested = Required
  <2>1. ServerRules(s, "SendFinished", Required, Length)
    BY <1>1, ServerAt DEF Over
  <2>2. s.authRequested = Required
    BY <2>1 DEF ServerRules
  <2> QED
    BY <1>1, <2>2, ServerSending DEF ServerSends
<1> HIDE DEF w
<1>3. EngineOK(sent, w) /\ sent.state = s.state /\ (Reported(sent) <=> Reported(s))
      /\ Adds(s, sent, <<"Finished", m>>)
  BY <1>2, SentIs
<1> HIDE DEF sent, m
<1>4. /\ EngineOK(keyed, w) /\ keyed.state = s.state /\ ~Reported(keyed)
      /\ HandshakeKeyed(keyed) /\ ApplicationKeyed(keyed, Len(keyed.transcript))
      /\ keyed.suite = s.suite /\ keyed.peerCert = FALSE
  BY <1>2, <1>3, FinishedAdds
<1> HIDE DEF keyed
<1>5. Becomes(keyed, f, w)
  BY <1>4, EnablePeerEncryptionOK
<1> HIDE DEF f
<1>6. EngineOK(f, w) /\ f.state = s.state /\ ~Reported(f) /\ f.suite = s.suite
  BY <1>4, <1>5 DEF Becomes, Keeps, SameKeys, Reported
<1>7. ServerRules(keyed, to, Required, Length)
  <2>1. \/ to = "AwaitCertificate" /\ Required
        \/ to = "AwaitFinished" /\ Required = FALSE
    BY <1>2, RequiredIs
  <2> HIDE DEF to
  <2>2. to = "AwaitFinished" => FALSE = (Required /\ Length > 0)
    BY <2>1
  <2>3. to \in {"AwaitCertificate", "AwaitFinished"} /\ (to = "AwaitCertificate" => Required)
    BY <2>1
  <2>4. keyed.peerCert = FALSE
    BY <1>4
  <2>5. to = "AwaitFinished" => keyed.peerCert = (Required /\ Length > 0)
    BY <2>2, <2>4
  <2> HIDE DEF keyed
  <2> QED
    BY <1>4, <2>3, <2>4, <2>5 DEF ServerRules
<1>8. ServerRules(f, to, Required, Length)
  <2>1. SameKeys(keyed, f)
    BY <1>5 DEF Becomes, Keeps
  <2> QED
    BY <1>7, <2>1, SameRules
<1>9. to # "AwaitClientHello"
  OBVIOUS
<1> HIDE DEF to
<1> QED
  BY <1>1, <1>2, <1>6, <1>8, <1>9, ServerGo DEF w

LEMMA AwaitClientCertificateOK ==
    ASSUME IInv, AwaitClientCertificate
    PROVE  IInv'
<1> DEFINE s == ep["server"]
           w == World("server", ep, Length)
           empty == Arg("server")[1] = "empty"
           n == NextHandshake(s, "Certificate")
           r == FlightStopResendTimers(n)
           shown == [r EXCEPT !.peerCert = TRUE]
           told == [r EXCEPT !.peerCert = TRUE, !.events = Append(@, "PeerCert")]
           g == IF empty THEN r ELSE told
           to == IF empty THEN "AwaitFinished" ELSE "AwaitCertificateVerify"
           m == Pending(s)[1].rec.mseq
<1>0. n = NextHandshake(s, "Certificate")
  OBVIOUS
<1>1. /\ At("server", "AwaitCertificate") /\ HasCompleteHandshake(s, "Certificate")
      /\ Go("server", Accepted(IF n.err = "none" THEN g ELSE n), to)
  BY DEF AwaitClientCertificate, Take, OnSuccess, Got
<1>2. /\ busy = "server" /\ s.state = "AwaitCertificate"
      /\ s.state \notin Over \cup {"AwaitClientHello"}
      /\ EngineOK(s, w) /\ ~Reported(s) /\ IsSeq(s.transcript)
      /\ ServerRules(s, "AwaitCertificate", Required, Length)
      /\ DOMAIN w.heard = {"Certificate", "Finished"} /\ w.heard["Certificate"] = {Length = 0}
  BY <1>1, ServerAt DEF Over
<1>3. /\ HandshakeKeyed(s) /\ ApplicationKeyed(s, Len(s.transcript)) /\ s.peerCert = FALSE
      /\ Required
  BY <1>2 DEF ServerRules
<1>4. empty <=> Length = 0
  <2>1. Claim("Certificate", m, MessageBody(s)) \in w.heard["Certificate"]
    BY <1>1, <1>2, MessageIsPeers
  <2>2. Claim("Certificate", m, MessageBody(s)) = (MessageBody(s).args[1] = "empty")
    BY DEF Claim
  <2> QED
    BY <1>2, <2>1, <2>2 DEF Arg
<1>5. to # "AwaitClientHello" /\ to = (IF empty THEN "AwaitFinished" ELSE "AwaitCertificateVerify")
  OBVIOUS
<1> HIDE DEF w, m, empty, to
<1>6. EngineOK(n, w) /\ Like(s, n)
  BY <1>2, TakenMore
<1> HIDE DEF n
<1>7. Becomes(n, r, w)
  BY <1>6, FlightStopOK
<1> HIDE DEF r
<1>8. EngineOK(r, w) /\ Like(n, r)
  BY <1>7, BecomesLike
<1>9. /\ ~Reported(r) /\ r.state = n.state /\ r.suite = n.suite /\ r.peerCert = FALSE
      /\ HandshakeKeyed(r) /\ ApplicationKeyed(r, Len(r.transcript))
  BY <1>2, <1>3, <1>6, <1>8 DEF Like
<1>10. /\ EngineOK(told, w) /\ ~Reported(told) /\ told.state = r.state /\ told.peerCert = TRUE
       /\ SameKeys(shown, told)
  BY <1>8, <1>9, PeerCertOK
<1>11. told.suite = r.suite /\ HandshakeKeyed(told) /\ ApplicationKeyed(told, Len(told.transcript))
  <2>1. /\ shown.transcript = r.transcript /\ shown.suite = r.suite /\ shown.group = r.group
        /\ shown.shared = r.shared /\ shown.hsSecret = r.hsSecret
        /\ shown.appSecret = r.appSecret
    BY <1>8 DEF EngineOK, Fields
  <2> HIDE DEF shown, told
  <2> QED
    BY <1>9, <1>10, <2>1 DEF SameKeys, HandshakeKeyed, ApplicationKeyed
<1> HIDE DEF told
<1>12. /\ EngineOK(g, w) /\ ~Reported(g) /\ g.state = n.state /\ g.suite = n.suite
       /\ HandshakeKeyed(g) /\ ApplicationKeyed(g, Len(g.transcript))
       /\ g.peerCert = ~empty
  BY <1>8, <1>9, <1>10, <1>11 DEF empty
<1> HIDE DEF g
<1>13. ServerRules(g, to, Required, Length)
  <2>1. (Required /\ Length > 0) = ~empty
    BY <1>3, <1>4, RequiredIs DEF empty
  <2>2. to \in {"AwaitFinished", "AwaitCertificateVerify"}
        /\ g.peerCert = (Required /\ Length > 0)
    BY <1>5, <1>12, <2>1
  <2> QED
    BY <1>12, <2>2 DEF ServerRules
<1> QED
  BY <1>0, <1>1, <1>2, <1>5, <1>12, <1>13, ServerTake DEF w

LEMMA AwaitClientCertificateVerifyOK ==
    ASSUME IInv, AwaitClientCertificateVerify
    PROVE  IInv'
<1> DEFINE s == ep["server"]
           w == World("server", ep, Length)
           right == MessageBody(s).hash = s.transcript
           n == NextHandshake(s, "CertificateVerify")
           g == FailUnless(right, n, "CryptoError")
<1>0. n = NextHandshake(s, "CertificateVerify")
  OBVIOUS
<1>1. /\ At("server", "AwaitCertificateVerify")
      /\ Go("server", Accepted(IF n.err = "none" THEN g ELSE n), "AwaitFinished")
  BY DEF AwaitClientCertificateVerify, Take, OnSuccess
<1>2. /\ busy = "server" /\ s.state \notin Over \cup {"AwaitClientHello"}
      /\ EngineOK(s, w) /\ ~Reported(s)
      /\ ServerRules(s, "AwaitCertificateVerify", Required, Length)
  BY <1>1, ServerAt DEF Over
<1>3. /\ HandshakeKeyed(s) /\ ApplicationKeyed(s, Len(s.transcript))
      /\ s.peerCert = (Required /\ Length > 0)
  BY <1>2 DEF ServerRules
<1> HIDE DEF w, right
<1>4. EngineOK(n, w) /\ Like(s, n)
  BY <1>2, TakenMore
<1> HIDE DEF n
<1>5. /\ ~Reported(n) /\ HandshakeKeyed(n) /\ ApplicationKeyed(n, Len(n.transcript))
      /\ n.peerCert = s.peerCert
  BY <1>2, <1>3, <1>4 DEF Like
<1>6. ServerRules(n, "AwaitFinished", Required, Length)
  BY <1>3, <1>5 DEF ServerRules
<1>7. Becomes(n, g, w)
  <2>1. Becomes(n, n, w)
    BY <1>4 DEF Becomes, Keeps, SameKeys
  <2> QED
    BY <1>4, <2>1, FailOK DEF FailUnless
<1> HIDE DEF g
<1>8. /\ EngineOK(g, w) /\ ~Reported(g) /\ g.state = n.state /\ g.suite = n.suite
      /\ SameKeys(n, g)
  BY <1>5, <1>7 DEF Becomes, Keeps, SameKeys, Reported
<1>9. ServerRules(g, "AwaitFinished", Required, Length)
  BY <1>6, <1>8, SameRules
<1> QED
  BY <1>0, <1>1, <1>2, <1>8, <1>9, ServerTake DEF w

\* What the client's Finished claims is what the server holds: the two have the
\* same history.
LEMMA AwaitClientFinishedOK ==
    ASSUME IInv, AwaitClientFinished
    PROVE  IInv'
<1> DEFINE s == ep["server"]
           c == ep["client"]
           w == World("server", ep, Length)
           right == MessageBody(s).hash = ComputeVerifyData(s, "client")
           m == Pending(s)[1].rec.mseq
           x == <<"Finished", m>>
           n == NextHandshake(s, "Finished")
           acked == SendAck(n)
           r == FlightStopResendTimers(acked)
           connected == ReportConnected(r)
           f == ReleaseApplicationData(connected)
           g == IF right THEN f ELSE Fail(n, "SecurityError")
<1>0. n = NextHandshake(s, "Finished")
  OBVIOUS
<1>1. /\ At("server", "AwaitFinished") /\ HasCompleteHandshake(s, "Finished")
      /\ Go("server", Accepted(IF n.err = "none" THEN g ELSE n), "AwaitApplicationData")
  BY DEF AwaitClientFinished, Take, OnSuccess, Got
<1>2. /\ busy = "server" /\ s.state \notin Over \cup {"AwaitClientHello"}
      /\ EngineOK(s, w) /\ ~Reported(s) /\ IsSeq(s.transcript)
      /\ ServerRules(s, "AwaitFinished", Required, Length)
      /\ DOMAIN w.heard = {"Certificate", "Finished"}
      /\ w.heard["Finished"] = IF Told(c) THEN {VerifyData(c)} ELSE {}
  BY <1>1, ServerAt DEF Over
<1>3. /\ HandshakeKeyed(s) /\ ApplicationKeyed(s, Len(s.transcript))
      /\ s.peerCert = (Required /\ Length > 0)
  BY <1>2 DEF ServerRules
<1>4. right => Told(c) /\ VerifyData(c) = Append(ComputeVerifyData(s, "client"), x)
  <2>1. Claim("Finished", m, MessageBody(s)) \in w.heard["Finished"]
    BY <1>1, <1>2, MessageIsPeers
  <2>2. Claim("Finished", m, MessageBody(s)) = Append(MessageBody(s).hash, x)
    <3> HIDE DEF m
    <3> QED
      BY DEF Claim
  <2> HIDE DEF x, m, w, c
  <2>3. Told(c) /\ Append(MessageBody(s).hash, x) = VerifyData(c)
    BY <1>2, <2>1, <2>2
  <2> QED
    BY <2>3
<1> HIDE DEF w
<1>5. EngineOK(n, w) /\ n.state = s.state /\ (Reported(n) <=> Reported(s)) /\ Adds(s, n, x)
  BY <1>2, TakenIs
<1> HIDE DEF n, x, m
<1>6. Becomes(n, r, w)
  <2>1. Becomes(n, acked, w)
    BY <1>5, SendAckOK
  <2> HIDE DEF acked
  <2> QED
    BY <2>1, FlightStopOK, Chain DEF Becomes
<1> HIDE DEF r
<1>7. EngineOK(r, w) /\ SameKeys(n, r) /\ r.state = n.state
  BY <1>6 DEF Becomes, Keeps
<1>8. EngineOK(connected, w) /\ SameKeys(r, connected) /\ Reported(connected)
      /\ connected.state = r.state
  BY <1>7, ReportConnectedOK
<1> HIDE DEF connected
<1>9. Becomes(connected, f, w)
  BY <1>8, ReleaseOK
<1> HIDE DEF f
<1>10. EngineOK(f, w) /\ SameKeys(connected, f) /\ f.state = connected.state
  BY <1>9 DEF Becomes, Keeps
<1>11. Adds(s, f, x) /\ f.state = n.state /\ f.suite = n.suite
  <2>1. Adds(s, r, x)
    BY <1>5, <1>7, AddsSame
  <2>2. Adds(s, connected, x)
    BY <1>8, <2>1, AddsSame
  <2>3. Adds(s, f, x)
    BY <1>10, <2>2, AddsSame
  <2> QED
    BY <1>5, <1>7, <1>8, <1>10, <2>3 DEF Adds
<1>12. CASE right
  <2>1. HandshakeKeyed(f) /\ ApplicationKeyed(f, Len(f.transcript) - 1)
    BY <1>2, <1>3, <1>11, KeyedAdds, ApplicationAdds
  <2>2. VerifyData(f) = VerifyData(c)
    BY <1>2, <1>3, <1>4, <1>11, <1>12, VerifyAppend
  <2>3. f.peerCert = (Required /\ Length > 0)
    BY <1>3, <1>11 DEF Adds
  <2>4. ServerDone(f, c, Required, Length)
    BY <1>4, <1>12, <2>1, <2>2, <2>3 DEF ServerDone
  <2>5. ServerRules(f, "AwaitApplicationData", Required, Length)
    BY DEF ServerRules
  <2>6. g = f
    BY <1>12
  <2> HIDE DEF g
  <2> QED
    BY <1>0, <1>1, <1>2, <1>10, <1>11, <2>4, <2>5, <2>6, ServerTake DEF w, Over
<1>13. CASE ~right
  <2>1. g = Fail(n, "SecurityError")
    BY <1>13
  <2> HIDE DEF g
  <2>2. EngineOK(g, w) /\ ~Reported(g) /\ g.err # "none" /\ g.state = n.state /\ g.suite = n.suite
    BY <1>2, <1>5, <2>1, FailOK DEF Becomes, Keeps, SameKeys, Reported
  <2> QED
    BY <1>0, <1>1, <1>2, <2>2, ServerTake DEF w
<1> QED
  BY <1>12, <1>13

LEMMA ServerStepsOK ==
    ASSUME IInv, Server
    PROVE  IInv'
  BY AwaitClientHelloOK, SendServerHelloOK, SendEncryptedExtensionsOK,
     SendCertificateRequestOK, SendServerCertificateOK, SendServerCertificateVerifyOK,
     SendServerFinishedOK, AwaitClientCertificateOK, AwaitClientCertificateVerifyOK,
     AwaitClientFinishedOK DEF Server

----------------------------------------------------------------------------
(* The invariant holds.                                                    *)

LEMMA InitOK == Init => IInv
<1> SUFFICES ASSUME Init PROVE IInv
  OBVIOUS
<1> DEFINE c == ep["client"]
           s == ep["server"]
<1>1. cfg \in SCENARIOS /\ ep = [p \in P |-> NewEndpoint(p, cfg.limit)] /\ net = {} /\ busy = "nobody"
  BY DEF Init
<1>2. \A p \in P : ep[p] = NewEndpoint(p, cfg.limit)
  BY <1>1
<1>3. ASSUME NEW p \in P
      PROVE  /\ EngineOK(ep[p], World(p, ep, Length)) /\ ~Reported(ep[p])
             /\ ep[p].transcript = <<>> /\ ep[p].helloRetry = FALSE
             /\ ep[p].authRequested = FALSE /\ ep[p].peerCert = FALSE
             /\ ep[p].state = (IF p = "client" THEN "SendClientHello" ELSE "AwaitClientHello")
  <2> DEFINE w == World(p, ep, Length)
             limit == cfg.limit
             e == NewEndpoint(p, limit)
  <2>1. ep[p] = e
    BY <1>2
  <2> HIDE DEF w, limit
  <2>2. /\ EngineOK(e, w) /\ ~Reported(e) /\ e.transcript = <<>> /\ e.helloRetry = FALSE
        /\ e.authRequested = FALSE /\ e.peerCert = FALSE
        /\ e.state = (IF p = "client" THEN "SendClientHello" ELSE "AwaitClientHello")
    BY NewEndpointOK
  <2> HIDE DEF e
  <2> QED
    BY <2>1, <2>2 DEF w
<1>4. /\ ~Reported(c) /\ c.transcript = <<>> /\ c.helloRetry = FALSE /\ c.state = "SendClientHello"
      /\ ~Reported(s) /\ s.transcript = <<>> /\ s.helloRetry = FALSE /\ s.state = "AwaitClientHello"
      /\ s.authRequested = FALSE /\ s.peerCert = FALSE
  BY <1>3 DEF P
<1>5. \A p \in P : EndpointOK(p, ep, Length)
  BY <1>3 DEF EndpointOK
<1> HIDE DEF c, s
<1>6. Greeted(c, 0) /\ Greeted(s, 0)
  BY <1>4 DEF Greeted, Unfinished
<1>7. ClientOK(c, s)
  BY <1>4, <1>6 DEF ClientOK, ClientRules
<1>8. ServerOK(s, c, Required, Length)
  BY <1>4, <1>6 DEF ServerOK, ServerRules
<1>9. ep = [p \in P |-> ep[p]]
  BY <1>1, <1>2
<1> QED
  BY <1>1, <1>5, <1>7, <1>8, <1>9 DEF IInv, P, c, s

LEMMA NextOK == IInv /\ [Next]_vars => IInv'
<1> SUFFICES ASSUME IInv, [Next]_vars PROVE IInv'
  OBVIOUS
<1>1. CASE Client
  BY <1>1, ClientStepsOK
<1>2. CASE Server
  BY <1>2, ServerStepsOK
<1>3. CASE \E p \in P : Stay(p) \/ AwaitApplicationData(p) \/ HalfClosedLocal(p)
  BY <1>3, StayOK, AwaitApplicationDataOK, HalfClosedLocalOK
<1>4. CASE Timers
  BY <1>4, TimersOK
<1>5. CASE \E m \in net : Deliver(m) \/ Repeat(m) \/ Lose(m)
  BY <1>5, NetworkOK
<1>6. CASE \E p \in P : SendApplicationData(p) \/ Close(p)
  BY <1>6, SendApplicationDataOK, CloseOK
<1>7. CASE UNCHANGED vars
  BY <1>7 DEF vars, IInv, Required, Length
<1> QED
  BY <1>1, <1>2, <1>3, <1>4, <1>5, <1>6, <1>7 DEF Next, Runs

LEMMA Inductive == Spec => []IInv
  BY InitOK, NextOK, PTL DEF Spec

----------------------------------------------------------------------------
(* The theorem.                                                            *)

LEMMA ConcatAt ==
    ASSUME NEW S, NEW s \in Seq(S), NEW t \in Seq(S)
    PROVE  /\ s \o t \in Seq(S) /\ Len(s \o t) = Len(s) + Len(t)
           /\ \A i \in 1..Len(s) : (s \o t)[i] = s[i]
           /\ \A i \in 1..Len(t) : (s \o t)[i + Len(s)] = t[i]
<1>1. \A i \in 1..Len(t) : (s \o t)[i + Len(s)] = t[i]
  <2> SUFFICES ASSUME NEW i \in 1..Len(t) PROVE (s \o t)[i + Len(s)] = t[i]
    OBVIOUS
  <2>1. i + Len(s) \in 1..(Len(s) + Len(t)) /\ i + Len(s) > Len(s) /\ i + Len(s) - Len(s) = i
    OBVIOUS
  <2> QED
    BY <2>1
<1> QED
  BY <1>1

\* What the client says it has verified can be read back: the third entry is the
\* first of the transcript and tells how many more the first secret has.
LEMMA VerifyIs ==
    ASSUME NEW e, IsSeq(e.transcript), HandshakeKeyed(e)
    PROVE  LET g == VerifyData(e)
               k == Hellos(e.transcript)
               m == Len(e.transcript)
           IN  /\ k \in Nat /\ m \in Nat /\ Len(g) = k + m + 2
               /\ g[2] = <<e.shared, 0>> /\ k = IF g[3][1] = "ClientHello" THEN 2 ELSE 4
               /\ e.hsSecret = [i \in 1..(k + 1) |-> g[i + 1]]
               /\ e.transcript = [i \in 1..m |-> g[i + k + 2]]
<1> DEFINE a == << <<"client", 0>> >>
           h == e.hsSecret
           t == e.transcript
           k == Hellos(t)
           m == Len(t)
           S == ToSet(a) \cup ToSet(h) \cup ToSet(t)
<1>1. /\ IsSeq(h) /\ k \in 1..m /\ m \in Nat /\ Len(h) = k + 1
      /\ h[1] = <<e.shared, 0>> /\ \A i \in 1..k : h[i + 1] = t[i]
  BY SecretIs
<1>2. IsSeq(a) /\ Len(a) = 1
  BY OneIs
<1>3. k = IF t[1][1] = "ClientHello" THEN 2 ELSE 4
  BY DEF Hellos
<1> DEFINE d == h \o t
           g == a \o d
<1>4. VerifyData(e) = g
  BY DEF VerifyData
<1> HIDE DEF a
<1>5. a \in Seq(S) /\ h \in Seq(S) /\ t \in Seq(S)
  BY <1>1, <1>2, SeqInto
<1>6. k \in Nat /\ k >= 1 /\ k <= m
  BY <1>1
<1>7. m = Len(t)
  OBVIOUS
<1> HIDE DEF h, t, S, k, m
<1>8. /\ d \in Seq(S) /\ Len(d) = k + 1 + m
      /\ (\A i \in 1..(k + 1) : d[i] = h[i]) /\ \A i \in 1..m : d[i + (k + 1)] = t[i]
  <2>1. /\ d \in Seq(S) /\ Len(d) = Len(h) + Len(t)
        /\ (\A i \in 1..Len(h) : d[i] = h[i]) /\ \A i \in 1..Len(t) : d[i + Len(h)] = t[i]
    BY <1>5, ConcatAt
  <2> HIDE DEF d
  <2> QED
    BY <1>1, <1>7, <2>1
<1> HIDE DEF d
<1>9. Len(g) = k + m + 2 /\ \A i \in 1..(k + 1 + m) : g[i + 1] = d[i]
  <2>0. a \in Seq(S) /\ d \in Seq(S)
    BY <1>5, <1>8
  <2>1. Len(g) = Len(a) + Len(d) /\ \A i \in 1..Len(d) : g[i + Len(a)] = d[i]
    BY <2>0, ConcatAt
  <2> HIDE DEF g
  <2>2. Len(a) = 1 /\ Len(d) = k + 1 + m /\ k + 1 + m \in Nat
    BY <1>1, <1>2, <1>6, <1>8
  <2> HIDE DEF d
  <2>3. Len(g) = k + m + 2
    BY <1>1, <1>6, <2>1, <2>2
  <2>4. \A i \in 1..(k + 1 + m) : g[i + 1] = d[i]
    BY <2>1, <2>2
  <2> QED
    BY <2>3, <2>4
<1> HIDE DEF g
<1>10. \A i \in 1..(k + 1) : g[i + 1] = h[i]
  BY <1>1, <1>6, <1>8, <1>9
<1>11. \A i \in 1..m : g[i + k + 2] = t[i]
  <2> SUFFICES ASSUME NEW i \in 1..m PROVE g[i + k + 2] = t[i]
    OBVIOUS
  <2>1. i + (k + 1) \in 1..(k + 1 + m) /\ i + (k + 1) + 1 = i + k + 2
    BY <1>1, <1>6
  <2> QED
    BY <1>8, <1>9, <2>1
<1>12. g[2] = <<e.shared, 0>> /\ g[3] = t[1]
  <2>1. 1 \in 1..(k + 1) /\ 2 \in 1..(k + 1) /\ 1 \in 1..k
    BY <1>6
  <2>2. g[1 + 1] = h[1] /\ g[2 + 1] = h[2] /\ h[1 + 1] = t[1]
    BY <1>1, <1>10, <2>1
  <2> QED
    BY <1>1, <2>2
<1>13. h = [i \in 1..(k + 1) |-> g[i + 1]]
  BY <1>1, <1>5, <1>10
<1>14. t = [i \in 1..m |-> g[i + k + 2]]
  BY <1>5, <1>7, <1>11
<1> QED
  BY <1>1, <1>3, <1>4, <1>6, <1>9, <1>12, <1>13, <1>14 DEF h, t, k, m

LEMMA VerifyCut ==
    ASSUME NEW e, IsSeq(e.transcript), HandshakeKeyed(e),
           NEW f, IsSeq(f.transcript), HandshakeKeyed(f), VerifyData(e) = VerifyData(f)
    PROVE  e.shared = f.shared /\ e.hsSecret = f.hsSecret /\ e.transcript = f.transcript
<1> DEFINE g == VerifyData(e)
           k == Hellos(e.transcript)
           m == Len(e.transcript)
           l == Hellos(f.transcript)
           n == Len(f.transcript)
<1>1. /\ k \in Nat /\ m \in Nat /\ Len(g) = k + m + 2
      /\ g[2] = <<e.shared, 0>> /\ k = IF g[3][1] = "ClientHello" THEN 2 ELSE 4
      /\ e.hsSecret = [i \in 1..(k + 1) |-> g[i + 1]]
      /\ e.transcript = [i \in 1..m |-> g[i + k + 2]]
  BY VerifyIs
<1>2. /\ l \in Nat /\ n \in Nat /\ Len(g) = l + n + 2
      /\ g[2] = <<f.shared, 0>> /\ l = IF g[3][1] = "ClientHello" THEN 2 ELSE 4
      /\ f.hsSecret = [i \in 1..(l + 1) |-> g[i + 1]]
      /\ f.transcript = [i \in 1..n |-> g[i + l + 2]]
  BY VerifyIs
<1> HIDE DEF g, k, m, l, n
<1>3. k = l
  BY <1>1, <1>2
<1>4. m = n
  BY <1>1, <1>2, <1>3
<1>5. e.shared = f.shared
  <2> DEFINE x == <<e.shared, 0>>
             y == <<f.shared, 0>>
  <2>1. x[1] = e.shared /\ y[1] = f.shared
    OBVIOUS
  <2>2. x = y
    BY <1>1, <1>2
  <2> HIDE DEF x, y
  <2> QED
    BY <2>1, <2>2
<1> QED
  BY <1>1, <1>2, <1>3, <1>4, <1>5

\* There is one Finished before the client's, so one second secret.
LEMMA ApplicationCut ==
    ASSUME NEW e, NEW f, NEW n, e.transcript = f.transcript, e.shared = f.shared,
           ApplicationKeyed(e, n), ApplicationKeyed(f, n)
    PROVE  e.appSecret = f.appSecret
<1> DEFINE t == e.transcript
<1>1. PICK k \in 1..n : /\ \A i \in 1..n : t[i][1] = "Finished" <=> i = k
                        /\ e.appSecret = << <<e.shared, 1>> >> \o SubSeq(t, 1, k)
  BY DEF ApplicationKeyed
<1>2. PICK l \in 1..n : /\ \A i \in 1..n : t[i][1] = "Finished" <=> i = l
                        /\ f.appSecret = << <<e.shared, 1>> >> \o SubSeq(t, 1, l)
  BY DEF ApplicationKeyed
<1> HIDE DEF t
<1>3. k = l
  BY <1>1, <1>2
<1> QED
  BY <1>1, <1>2, <1>3

LEMMA ToldIs ==
    ASSUME NEW p \in P, Connected(ep[p])
    PROVE  Reported(ep[p])
  BY DEF Connected, Reported, ToSet

\* KeysAgree: whatever is lost, repeated or reordered, with or without a
\* HelloRetryRequest and a client certificate, a server is connected only when the
\* client is, and the two hold the same secrets of the handshake and of the
\* application, drawn from the same messages, use the same suite and group, and
\* have shown each other the certificates that are asked for; for every
\* configuration of the two and every size of datagrams, queues and windows
\* (dtls13/client.rs SendFinished, dtls13/server.rs AwaitFinished).
THEOREM KeysAreAgreed == Spec => []KeysAgree
<1>1. IInv => KeysAgree
  <2> SUFFICES ASSUME IInv, Connected(ep["server"]) PROVE KeysAgree
    BY DEF KeysAgree
  <2> DEFINE c == ep["client"]
             s == ep["server"]
  <2>0. Reported(s)
    BY ToldIs DEF P
  <2>1. Connected(c) /\ Reported(c)
    BY <2>0, ToldReported DEF IInv, ServerOK, ServerDone, Told, Connected, ToSet
  <2>2. /\ ClientDone(c, s) /\ ServerDone(s, c, Required, Length)
    BY <2>0, <2>1 DEF IInv, ClientOK, ServerOK
  <2>3. IsSeq(c.transcript) /\ IsSeq(s.transcript)
    BY DEF IInv, EndpointOK, EngineOK, P
  <2>4. KeysAgree <=>
            /\ c.hsSecret = s.hsSecret /\ c.appSecret = s.appSecret
            /\ c.transcript = s.transcript
            /\ c.suite = s.suite /\ c.group = s.group /\ c.peerCert
            /\ s.peerCert = (Required /\ Length > 0)
    BY <2>1 DEF KeysAgree, Required, Length
  <2> HIDE DEF c, s
  <2>5. /\ HandshakeKeyed(c) /\ HandshakeKeyed(s) /\ VerifyData(c) = VerifyData(s)
        /\ ApplicationKeyed(c, Len(c.transcript) - 1) /\ ApplicationKeyed(s, Len(s.transcript) - 1)
        /\ c.suite = s.suite /\ c.peerCert = TRUE /\ s.peerCert = (Required /\ Length > 0)
    BY <2>2 DEF ClientDone, ServerDone, SuiteAgreed
  <2>6. c.shared = s.shared /\ c.hsSecret = s.hsSecret /\ c.transcript = s.transcript
    BY <2>3, <2>5, VerifyCut
  <2>7. c.appSecret = s.appSecret
    BY <2>5, <2>6, ApplicationCut
  <2>8. c.group = s.group
    BY <2>5, <2>6 DEF HandshakeKeyed
  <2> QED
    BY <2>4, <2>5, <2>6, <2>7, <2>8
<1> QED
  BY <1>1, Inductive, PTL
=============================================================================
