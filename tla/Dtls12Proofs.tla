---------------------------- MODULE Dtls12Proofs ----------------------------
(***************************************************************************)
(* What a DTLS 1.2 handshake guarantees for every value of the constants:  *)
(* whoever is connected has the keys of the other, the client is the last  *)
(* to report the connection, and an endpoint closed before it sends        *)
(* nothing more. The proof follows each record from the endpoint that made *)
(* it, over the network and the queue, to the one that takes it.           *)
(***************************************************************************)
EXTENDS Dtls12, WellFoundedInduction, TLAPS

----------------------------------------------------------------------------
(* Sequences, as sequences of the elements they have.                      *)

IsSeq(s) == s \in Seq(ToSet(s))

LEMMA SeqIs ==
    ASSUME NEW S, NEW s \in Seq(S)
    PROVE  /\ IsSeq(s) /\ ToSet(s) \subseteq S
           /\ Len(s) \in Nat /\ DOMAIN s = 1..Len(s)
           /\ \A i \in DOMAIN s : s[i] \in ToSet(s)
  BY DEF IsSeq, ToSet

LEMMA SeqHas ==
    ASSUME NEW s, IsSeq(s)
    PROVE  /\ Len(s) \in Nat /\ DOMAIN s = 1..Len(s)
           /\ \A i \in DOMAIN s : s[i] \in ToSet(s)
           /\ \A x \in ToSet(s) : \E i \in DOMAIN s : s[i] = x
  BY DEF IsSeq, ToSet

LEMMA SeqInto ==
    ASSUME NEW s, IsSeq(s), NEW S, ToSet(s) \subseteq S
    PROVE  s \in Seq(S)
  BY DEF IsSeq, ToSet

LEMMA EmptyIs == IsSeq(<<>>) /\ ToSet(<<>>) = {}
  BY DEF IsSeq, ToSet

LEMMA OneIs ==
    ASSUME NEW x
    PROVE  IsSeq(<<x>>) /\ ToSet(<<x>>) = {x}
  BY DEF IsSeq, ToSet

LEMMA FunctionIs ==
    ASSUME NEW n \in Nat, NEW s, s = [i \in 1..n |-> s[i]]
    PROVE  IsSeq(s) /\ ToSet(s) = {s[i] : i \in 1..n} /\ Len(s) = n
  BY DEF IsSeq, ToSet

LEMMA AppendIs ==
    ASSUME NEW s, IsSeq(s), NEW x
    PROVE  IsSeq(Append(s, x)) /\ ToSet(Append(s, x)) = ToSet(s) \cup {x}
<1> DEFINE S == ToSet(s) \cup {x}
<1>1. s \in Seq(S) /\ x \in S
  BY SeqInto
<1>2. Append(s, x) \in Seq(S)
  BY <1>1
<1>3. \A i \in 1..Len(s) : Append(s, x)[i] = s[i]
  BY <1>1
<1>4. Append(s, x)[Len(s) + 1] = x /\ DOMAIN Append(s, x) = 1..(Len(s) + 1) /\ Len(s) \in Nat
  BY <1>1
<1>5. DOMAIN s = 1..Len(s)
  BY <1>1
<1>6. ToSet(s) \subseteq ToSet(Append(s, x)) /\ x \in ToSet(Append(s, x))
  BY <1>3, <1>4, <1>5 DEF ToSet
<1> QED
  BY <1>2, <1>6, SeqIs

LEMMA ConcatIs ==
    ASSUME NEW s, IsSeq(s), NEW t, IsSeq(t)
    PROVE  IsSeq(s \o t) /\ ToSet(s \o t) = ToSet(s) \cup ToSet(t)
<1> DEFINE S == ToSet(s) \cup ToSet(t)
<1>1. s \in Seq(S) /\ t \in Seq(S)
  BY SeqInto
<1>2. s \o t \in Seq(S)
  BY <1>1
<1>3. DOMAIN s = 1..Len(s) /\ DOMAIN t = 1..Len(t) /\ Len(s) \in Nat /\ Len(t) \in Nat
  BY <1>1
<1>4. DOMAIN (s \o t) = 1..(Len(s) + Len(t))
  BY <1>1
<1>5. \A i \in 1..Len(s) : i \in DOMAIN (s \o t) /\ (s \o t)[i] = s[i]
  BY <1>1, <1>3, <1>4
<1>6. \A i \in 1..Len(t) : i + Len(s) \in DOMAIN (s \o t) /\ (s \o t)[i + Len(s)] = t[i]
  BY <1>1, <1>3, <1>4
<1>7. ToSet(s) \subseteq ToSet(s \o t) /\ ToSet(t) \subseteq ToSet(s \o t)
  BY <1>3, <1>5, <1>6 DEF ToSet
<1> QED
  BY <1>2, <1>7, SeqIs

LEMMA SubSeqIs ==
    ASSUME NEW s, IsSeq(s), NEW m, NEW n, m \in 1..(Len(s) + 1), n \in 0..Len(s)
    PROVE  IsSeq(SubSeq(s, m, n)) /\ ToSet(SubSeq(s, m, n)) \subseteq ToSet(s)
<1> DEFINE S == ToSet(s)
<1>1. s \in Seq(S) /\ Len(s) \in Nat
  BY SeqInto
<1>2. SubSeq(s, m, n) \in Seq(S)
  BY <1>1
<1> QED
  BY <1>2, SeqIs

LEMMA InsertIs ==
    ASSUME NEW s, IsSeq(s), NEW at \in 1..(Len(s) + 1), NEW x
    PROVE  IsSeq(InsertAt(s, at, x)) /\ ToSet(InsertAt(s, at, x)) \subseteq ToSet(s) \cup {x}
<1>0. Len(s) \in Nat
  BY SeqHas
<1>1. IsSeq(SubSeq(s, 1, at - 1)) /\ ToSet(SubSeq(s, 1, at - 1)) \subseteq ToSet(s)
  <2>1. 1 \in 1..(Len(s) + 1) /\ at - 1 \in 0..Len(s)
    BY <1>0
  <2> QED
    BY <2>1, SubSeqIs
<1>2. IsSeq(SubSeq(s, at, Len(s))) /\ ToSet(SubSeq(s, at, Len(s))) \subseteq ToSet(s)
  <2>1. Len(s) \in 0..Len(s)
    BY <1>0
  <2> QED
    BY <2>1, SubSeqIs
<1>3. IsSeq(SubSeq(s, 1, at - 1) \o <<x>>)
      /\ ToSet(SubSeq(s, 1, at - 1) \o <<x>>) \subseteq ToSet(s) \cup {x}
  BY <1>1, ConcatIs, OneIs
<1> QED
  BY <1>2, <1>3, ConcatIs DEF InsertAt

LEMMA LastIs ==
    ASSUME NEW s, IsSeq(s), s # <<>>
    PROVE  /\ Last(s) \in ToSet(s)
           /\ IsSeq(Front(s)) /\ ToSet(Front(s)) \subseteq ToSet(s)
<1> DEFINE S == ToSet(s)
<1>1. s \in Seq(S) /\ Len(s) \in Nat /\ Len(s) # 0
  BY SeqInto
<1>2. Len(s) \in DOMAIN s
  BY <1>1
<1>3. 1 \in 1..(Len(s) + 1) /\ Len(s) - 1 \in 0..Len(s)
  BY <1>1
<1> QED
  BY <1>2, <1>3, SeqHas, SubSeqIs DEF Last, Front

----------------------------------------------------------------------------
(* Induction, over a set of numbers.                                       *)

LEMMA Least ==
    ASSUME NEW T, T \subseteq Nat, T # {}
    PROVE  \E m \in T : \A j \in T : m <= j
<1>1. PICK m \in T : \A j \in T : ~(<<j, m>> \in OpToRel(<, Nat))
  BY WFMin, NatLessThanWellFounded
<1>2. ASSUME NEW j \in T, j < m PROVE FALSE
  <2>1. <<j, m>> \in OpToRel(<, Nat)
    BY <1>2 DEF OpToRel
  <2> QED
    BY <1>1, <2>1
<1>3. \A j \in T : m <= j
  BY <1>2
<1> QED
  BY <1>3

LEMMA Induct ==
    ASSUME NEW T, 0 \in T, \A k \in Nat : k \in T => k + 1 \in T
    PROVE  Nat \subseteq T
<1> SUFFICES ASSUME Nat \ T # {} PROVE FALSE
  OBVIOUS
<1>1. PICK k \in Nat \ T : \A j \in Nat \ T : k <= j
  BY Least
<1>2. k # 0 /\ k - 1 \in Nat /\ k - 1 < k /\ (k - 1) + 1 = k
  OBVIOUS
<1>3. k - 1 \in T
  BY <1>1, <1>2
<1>4. (k - 1) + 1 \in T
  BY <1>2, <1>3
<1> QED
  BY <1>1, <1>2, <1>4

LEMMA InductTo ==
    ASSUME NEW n \in Nat, NEW T, 0 \in T, \A k \in 0..(n - 1) : k \in T => k + 1 \in T
    PROVE  n \in T
<1> DEFINE U == {k \in Nat : k <= n => k \in T}
<1>1. 0 \in U
  OBVIOUS
<1>2. ASSUME NEW k \in Nat, k \in U PROVE k + 1 \in U
  <2> SUFFICES ASSUME k + 1 <= n PROVE k + 1 \in T
    OBVIOUS
  <2>1. k \in T /\ k \in 0..(n - 1)
    BY <1>2
  <2> QED
    BY <2>1
<1>3. n \in U
  <2> HIDE DEF U
  <2> QED
    BY <1>1, <1>2, Induct
<1> QED
  BY <1>3

----------------------------------------------------------------------------
(* Flattened and filtered sequences.                                       *)

\* The parts of ss up to the k-th, joined.
Joins(ss, n, f) == f = [i \in 1..n |-> IF i = 1 THEN ss[i] ELSE f[i - 1] \o ss[i]]

LEMMA JoinsExists ==
    ASSUME NEW ss, NEW n \in Nat
    PROVE  \E f : Joins(ss, n, f)
<1> DEFINE T == {k \in Nat : \E f : Joins(ss, k, f)}
<1>1. 0 \in T
  <2>1. 1..0 = {}
    OBVIOUS
  <2>2. Joins(ss, 0, [i \in 1..0 |-> ss])
    BY <2>1 DEF Joins
  <2> QED
    BY <2>2
<1>2. ASSUME NEW k \in Nat, k \in T PROVE k + 1 \in T
  <2>1. PICK f : Joins(ss, k, f)
    BY <1>2
  <2> DEFINE g == [i \in 1..(k + 1) |-> IF i \in 1..k THEN f[i]
                                      ELSE IF i = 1 THEN ss[i] ELSE f[i - 1] \o ss[i]]
  <2>2. ASSUME NEW i \in 1..(k + 1)
        PROVE  g[i] = IF i = 1 THEN ss[i] ELSE g[i - 1] \o ss[i]
    <3>1. i # 1 => i - 1 \in 1..k /\ g[i - 1] = f[i - 1]
      OBVIOUS
    <3>2. CASE i \in 1..k
      <4>1. f[i] = IF i = 1 THEN ss[i] ELSE f[i - 1] \o ss[i]
        BY <2>1, <3>2 DEF Joins
      <4> QED
        BY <3>1, <3>2, <4>1
    <3>3. CASE i \notin 1..k
      BY <3>1, <3>3
    <3> QED
      BY <3>2, <3>3
  <2>3. g = [i \in 1..(k + 1) |-> g[i]]
    OBVIOUS
  <2>4. Joins(ss, k + 1, g)
    <3> HIDE DEF g
    <3> QED
      BY <2>2, <2>3 DEF Joins
  <2> QED
    BY <2>4
<1>3. n \in T
  <2> HIDE DEF T
  <2> QED
    BY <1>1, <1>2, Induct
<1> QED
  BY <1>3

LEMMA FlattenIs ==
    ASSUME NEW ss, IsSeq(ss), NEW S, \A s \in ToSet(ss) : IsSeq(s) /\ ToSet(s) \subseteq S
    PROVE  IsSeq(FlattenSeq(ss)) /\ ToSet(FlattenSeq(ss)) \subseteq S
<1> DEFINE n == Len(ss)
<1>1. n \in Nat /\ DOMAIN ss = 1..n
  BY SeqHas
<1>2. CASE n = 0
  <2>1. FlattenSeq(ss) = ss
    BY <1>2 DEF FlattenSeq
  <2>2. ToSet(ss) = {}
    BY <1>1, <1>2 DEF ToSet
  <2> QED
    BY <2>1, <2>2
<1>3. CASE n # 0
  <2> DEFINE f == CHOOSE h : Joins(ss, n, h)
  <2>1. Joins(ss, n, f)
    <3>1. \E h : Joins(ss, n, h)
      BY <1>1, JoinsExists
    <3> QED
      BY <3>1
  <2>2. FlattenSeq(ss) = f[n]
    BY <1>3 DEF FlattenSeq, Joins
  <2> DEFINE T == {k \in 0..n : k # 0 => IsSeq(f[k]) /\ ToSet(f[k]) \subseteq S}
  <2>3. 0 \in T
    BY <1>1
  <2>4. ASSUME NEW k \in 0..(n - 1), k \in T PROVE k + 1 \in T
    <3>1. k + 1 \in 1..n /\ (k + 1) - 1 = k /\ (k + 1 = 1 <=> k = 0)
      BY <1>1
    <3>2. f[k + 1] = IF k = 0 THEN ss[k + 1] ELSE f[k] \o ss[k + 1]
      <4> HIDE DEF f, n
      <4> QED
        BY <2>1, <3>1 DEF Joins
    <3>3. IsSeq(ss[k + 1]) /\ ToSet(ss[k + 1]) \subseteq S
      <4>1. ss[k + 1] \in ToSet(ss)
        BY <1>1, <3>1, SeqHas
      <4> QED
        BY <4>1
    <3>4. IsSeq(f[k + 1]) /\ ToSet(f[k + 1]) \subseteq S
      <4>1. CASE k = 0
        BY <4>1, <3>2, <3>3
      <4>2. CASE k # 0
        <5>1. IsSeq(f[k]) /\ ToSet(f[k]) \subseteq S
          BY <2>4, <4>2
        <5> HIDE DEF f
        <5> QED
          BY <4>2, <3>2, <3>3, <5>1, ConcatIs
      <4> QED
        BY <4>1, <4>2
    <3> QED
      BY <3>1, <3>4
  <2>5. n \in T
    <3> HIDE DEF T
    <3> QED
      BY <1>1, <2>3, <2>4, InductTo
  <2> QED
    BY <1>3, <2>2, <2>5
<1> QED
  BY <1>2, <1>3

LEMMA FilterIs ==
    ASSUME NEW n \in Nat, NEW ss, ss = [i \in 1..n |-> ss[i]], NEW S,
           \A i \in 1..n : ss[i] = <<>> \/ \E x \in S : ss[i] = <<x>>
    PROVE  IsSeq(FlattenSeq(ss)) /\ ToSet(FlattenSeq(ss)) \subseteq S
<1>1. IsSeq(ss) /\ ToSet(ss) = {ss[i] : i \in 1..n}
  BY FunctionIs
<1>2. ASSUME NEW i \in 1..n PROVE IsSeq(ss[i]) /\ ToSet(ss[i]) \subseteq S
  <2>1. CASE ss[i] = <<>>
    <3> DEFINE s == ss[i]
    <3>1. s = <<>>
      BY <2>1
    <3> HIDE DEF s
    <3>2. IsSeq(s) /\ ToSet(s) \subseteq S
      BY ONLY <3>1, EmptyIs
    <3> QED
      BY <3>2 DEF s
  <2>2. CASE \E x \in S : ss[i] = <<x>>
    <3> DEFINE s == ss[i]
    <3>1. PICK x \in S : s = <<x>>
      BY <2>2
    <3> HIDE DEF s
    <3>2. IsSeq(s) /\ ToSet(s) \subseteq S
      BY <3>1, OneIs
    <3> QED
      BY <3>2 DEF s
  <2> QED
    BY <2>1, <2>2
<1> QED
  BY <1>1, <1>2, FlattenIs

----------------------------------------------------------------------------
(* The folds of the engine, as one: the step of the fold "kind".           *)

KeyOf(handshake, incoming) ==
    IF handshake THEN HandshakeKey(incoming) ELSE RecordKey(incoming)

FoldStep(kind, c, acc, x) ==
    CASE kind = "size" -> acc + x.flen
      [] kind = "find" ->
            LET half == acc.size \div 2
                mid == acc.base + half
            IN  IF acc.size <= 1 THEN acc
                ELSE [base |-> IF \/ Lex(KeyOf(c.handshake, c.rx[mid]), c.key)
                                  \/ KeyOf(c.handshake, c.rx[mid]) = c.key
                               THEN mid ELSE acc.base,
                      size |-> acc.size - half]
      [] kind = "fragment" ->
            CreateRecord(acc, Rec("handshake", Epoch(c.type), c.type, c.mseq,
                                  x.off, x.flen, c.val), TRUE)
      [] kind = "resend" -> CreateRecord(acc, x, FALSE)
      [] kind = "send" -> CreateRecord(acc, AppData(x), FALSE)
      [] kind = "parse" -> ParseRecord(acc, x)
      [] kind = "classify" -> ClassifyRecord(acc, x)
      [] kind = "early" -> IF acc.err = "none" THEN ParsePacket(acc, <<x.rec>>) ELSE acc

Folds(kind, c, base, s, h) ==
    h = [t \in SUBSET (DOMAIN s) |->
            IF t = {} THEN base ELSE FoldStep(kind, c, h[t \ {Max(t)}], s[Max(t)])]

LEMMA MaxIs ==
    ASSUME NEW k \in Nat, NEW t \in SUBSET (1..(k + 1)), k + 1 \in t
    PROVE  Max(t) = k + 1
<1>1. \A y \in t : k + 1 >= y
  OBVIOUS
<1>2. \A x \in t : (\A y \in t : x >= y) => x = k + 1
  OBVIOUS
<1> QED
  BY <1>1, <1>2 DEF Max

LEMMA MaxIn ==
    ASSUME NEW k \in Nat, NEW t \in SUBSET (1..k), t # {}
    PROVE  Max(t) \in t
<1> DEFINE T == {j \in Nat : \A u \in SUBSET (1..j) : u # {} => Max(u) \in u}
<1>1. 0 \in T
  <2>1. 1..0 = {}
    OBVIOUS
  <2> QED
    BY <2>1
<1>2. ASSUME NEW j \in Nat, j \in T PROVE j + 1 \in T
  <2> SUFFICES ASSUME NEW u \in SUBSET (1..(j + 1)), u # {} PROVE Max(u) \in u
    OBVIOUS
  <2>1. CASE j + 1 \in u
    BY <2>1, MaxIs
  <2>2. CASE j + 1 \notin u
    <3>1. u \in SUBSET (1..j)
      BY <2>2
    <3> QED
      BY <3>1, <1>2
  <2> QED
    BY <2>1, <2>2
<1>3. Nat \subseteq T
  <2> HIDE DEF T
  <2> QED
    BY <1>1, <1>2, Induct
<1> QED
  BY <1>3

LEMMA FoldExists ==
    ASSUME NEW kind, NEW c, NEW base, NEW n \in Nat, NEW s, DOMAIN s = 1..n
    PROVE  \E h : Folds(kind, c, base, s, h)
<1> DEFINE Value(h, t) ==
               IF t = {} THEN base ELSE FoldStep(kind, c, h[t \ {Max(t)}], s[Max(t)])
           It(k, h) == h = [t \in SUBSET (1..k) |-> Value(h, t)]
           T == {k \in Nat : \E h : It(k, h)}
<1>1. 0 \in T
  <2>1. SUBSET (1..0) = {{}}
    OBVIOUS
  <2>2. It(0, [t \in SUBSET (1..0) |-> base])
    BY <2>1
  <2> QED
    BY <2>2
<1>2. ASSUME NEW k \in Nat, k \in T PROVE k + 1 \in T
  <2>1. PICK h : It(k, h)
    BY <1>2
  <2> DEFINE g == [t \in SUBSET (1..(k + 1)) |->
                      IF k + 1 \in t THEN FoldStep(kind, c, h[t \ {k + 1}], s[k + 1]) ELSE h[t]]
  <2>2. \A t \in SUBSET (1..(k + 1)) : k + 1 \notin t => t \in SUBSET (1..k)
    OBVIOUS
  <2>3. ASSUME NEW t \in SUBSET (1..(k + 1)) PROVE g[t] = Value(g, t)
    <3>1. CASE k + 1 \in t
      <4>1. Max(t) = k + 1
        BY <3>1, MaxIs
      <4>2. t \ {k + 1} \in SUBSET (1..(k + 1)) /\ k + 1 \notin t \ {k + 1}
        OBVIOUS
      <4>3. g[t \ {k + 1}] = h[t \ {k + 1}]
        BY <4>2
      <4> QED
        BY <3>1, <4>1, <4>3
    <3>2. CASE t = {}
      BY <3>2, <2>1, <2>2
    <3>3. CASE k + 1 \notin t /\ t # {}
      <4>1. t \in SUBSET (1..k)
        BY <3>3, <2>2
      <4>2. Max(t) \in t
        BY <3>3, <4>1, MaxIn
      <4>3. t \ {Max(t)} \in SUBSET (1..(k + 1)) /\ k + 1 \notin t \ {Max(t)}
        BY <3>3
      <4>4. g[t \ {Max(t)}] = h[t \ {Max(t)}]
        BY <4>3
      <4>5. h[t] = Value(h, t)
        BY <2>1, <4>1
      <4> QED
        BY <3>3, <4>4, <4>5
    <3> QED
      BY <3>1, <3>2, <3>3
  <2>4. It(k + 1, g)
    <3>1. g = [t \in SUBSET (1..(k + 1)) |-> g[t]]
      OBVIOUS
    <3> HIDE DEF Value, g
    <3> QED
      BY <2>3, <3>1
  <2> HIDE DEF It
  <2> QED
    BY <2>4
<1>3. n \in T
  <2> HIDE DEF T
  <2> QED
    BY <1>1, <1>2, Induct
<1> QED
  BY <1>3 DEF Folds

\* The values of a fold, one after the other.
Run(kind, c, base, s, n, g) ==
    g[0] = base /\ \A k \in 0..(n - 1) : g[k + 1] = FoldStep(kind, c, g[k], s[k + 1])

LEMMA FoldRuns ==
    ASSUME NEW kind, NEW c, NEW base, NEW n \in Nat, NEW s, DOMAIN s = 1..n,
           NEW h, Folds(kind, c, base, s, h)
    PROVE  \E g : Run(kind, c, base, s, n, g) /\ g[n] = h[DOMAIN s]
<1> DEFINE g == [k \in 0..n |-> h[1..k]]
<1>1. g[0] = base
  <2>1. 1..0 = {} /\ {} \in SUBSET (DOMAIN s)
    OBVIOUS
  <2>2. h[{}] = base
    BY <2>1 DEF Folds
  <2> QED
    BY <2>1, <2>2
<1>2. ASSUME NEW k \in 0..(n - 1) PROVE g[k + 1] = FoldStep(kind, c, g[k], s[k + 1])
  <2>1. (1..(k + 1)) \in SUBSET (DOMAIN s) /\ k + 1 \in 1..(k + 1) /\ k \in Nat
        /\ (1..(k + 1)) \ {k + 1} = 1..k
    OBVIOUS
  <2>2. Max(1..(k + 1)) = k + 1
    BY <2>1, MaxIs
  <2>3. h[1..(k + 1)] = FoldStep(kind, c, h[1..k], s[k + 1])
    BY <2>1, <2>2 DEF Folds
  <2> QED
    BY <2>3
<1>3. g[n] = h[DOMAIN s]
  OBVIOUS
<1> HIDE DEF g
<1> QED
  BY <1>1, <1>2, <1>3 DEF Run

\* The folds of the engine by name, and that each of them is one of these runs.
SizeOf(s) ==
    FoldLeft(LAMBDA n, r : n + r.flen, 0, s)
Fragmented(c, e, s) ==
    FoldLeft(LAMBDA acc, f : CreateRecord(acc,
                 Rec("handshake", Epoch(c.type), c.type, c.mseq, f.off, f.flen, c.val), TRUE), e, s)
Resent(e, s) ==
    FoldLeft(LAMBDA acc, r : CreateRecord(acc, r, FALSE), e, s)
SentAll(e, s) ==
    FoldLeft(LAMBDA acc, d : CreateRecord(acc, AppData(d), FALSE), e, s)
Parsed(e, s) ==
    FoldLeft(ParseRecord, e, s)
Classified(e, s) ==
    FoldLeft(ClassifyRecord, e, s)
ParsedEarly(e, s) ==
    FoldLeft(LAMBDA acc, x : IF acc.err = "none" THEN ParsePacket(acc, <<x.rec>>) ELSE acc, e, s)

LEMMA SizeFold ==
    ASSUME NEW k \in Nat, NEW s, DOMAIN s = 1..k
    PROVE  \E g : Run("size", <<>>, 0, s, k, g) /\ g[k] = SizeOf(s)
<1> DEFINE It(h) == h = [t \in SUBSET (DOMAIN s) |->
                        IF t = {} THEN 0 ELSE h[t \ {Max(t)}] + s[Max(t)].flen]
           it == CHOOSE h : It(h)
<1>1. \A h : Folds("size", <<>>, 0, s, h) <=> It(h)
  BY DEF Folds, FoldStep
<1>2. It(it)
  <2>1. \E h : It(h)
    BY <1>1, FoldExists
  <2> QED
    BY <2>1
<1>3. SizeOf(s) = it[DOMAIN s]
  BY DEF SizeOf, FoldLeft, MapThenFoldSet
<1> HIDE DEF it, It
<1> QED
  BY <1>1, <1>2, <1>3, FoldRuns

LEMMA FragmentFold ==
    ASSUME NEW c, NEW e, NEW k \in Nat, NEW s, DOMAIN s = 1..k
    PROVE  \E g : Run("fragment", c, e, s, k, g) /\ g[k] = Fragmented(c, e, s)
<1> DEFINE It(h) == h = [t \in SUBSET (DOMAIN s) |->
                        IF t = {} THEN e ELSE CreateRecord(h[t \ {Max(t)}], Rec("handshake", Epoch(c.type), c.type, c.mseq,
                             s[Max(t)].off, s[Max(t)].flen, c.val), TRUE)]
           it == CHOOSE h : It(h)
<1>1. \A h : Folds("fragment", c, e, s, h) <=> It(h)
  BY DEF Folds, FoldStep
<1>2. It(it)
  <2>1. \E h : It(h)
    BY <1>1, FoldExists
  <2> QED
    BY <2>1
<1>3. Fragmented(c, e, s) = it[DOMAIN s]
  BY DEF Fragmented, FoldLeft, MapThenFoldSet
<1> HIDE DEF it, It
<1> QED
  BY <1>1, <1>2, <1>3, FoldRuns

LEMMA ResendFold ==
    ASSUME NEW e, NEW k \in Nat, NEW s, DOMAIN s = 1..k
    PROVE  \E g : Run("resend", <<>>, e, s, k, g) /\ g[k] = Resent(e, s)
<1> DEFINE It(h) == h = [t \in SUBSET (DOMAIN s) |->
                        IF t = {} THEN e ELSE CreateRecord(h[t \ {Max(t)}], s[Max(t)], FALSE)]
           it == CHOOSE h : It(h)
<1>1. \A h : Folds("resend", <<>>, e, s, h) <=> It(h)
  BY DEF Folds, FoldStep
<1>2. It(it)
  <2>1. \E h : It(h)
    BY <1>1, FoldExists
  <2> QED
    BY <2>1
<1>3. Resent(e, s) = it[DOMAIN s]
  BY DEF Resent, FoldLeft, MapThenFoldSet
<1> HIDE DEF it, It
<1> QED
  BY <1>1, <1>2, <1>3, FoldRuns

LEMMA SendFold ==
    ASSUME NEW e, NEW k \in Nat, NEW s, DOMAIN s = 1..k
    PROVE  \E g : Run("send", <<>>, e, s, k, g) /\ g[k] = SentAll(e, s)
<1> DEFINE It(h) == h = [t \in SUBSET (DOMAIN s) |->
                        IF t = {} THEN e ELSE CreateRecord(h[t \ {Max(t)}], AppData(s[Max(t)]), FALSE)]
           it == CHOOSE h : It(h)
<1>1. \A h : Folds("send", <<>>, e, s, h) <=> It(h)
  BY DEF Folds, FoldStep
<1>2. It(it)
  <2>1. \E h : It(h)
    BY <1>1, FoldExists
  <2> QED
    BY <2>1
<1>3. SentAll(e, s) = it[DOMAIN s]
  BY DEF SentAll, FoldLeft, MapThenFoldSet
<1> HIDE DEF it, It
<1> QED
  BY <1>1, <1>2, <1>3, FoldRuns

LEMMA ParseFold ==
    ASSUME NEW e, NEW k \in Nat, NEW s, DOMAIN s = 1..k
    PROVE  \E g : Run("parse", <<>>, e, s, k, g) /\ g[k] = Parsed(e, s)
<1> DEFINE It(h) == h = [t \in SUBSET (DOMAIN s) |->
                        IF t = {} THEN e ELSE ParseRecord(h[t \ {Max(t)}], s[Max(t)])]
           it == CHOOSE h : It(h)
<1>1. \A h : Folds("parse", <<>>, e, s, h) <=> It(h)
  BY DEF Folds, FoldStep
<1>2. It(it)
  <2>1. \E h : It(h)
    BY <1>1, FoldExists
  <2> QED
    BY <2>1
<1>3. Parsed(e, s) = it[DOMAIN s]
  BY DEF Parsed, FoldLeft, MapThenFoldSet
<1> HIDE DEF it, It
<1> QED
  BY <1>1, <1>2, <1>3, FoldRuns

LEMMA ClassifyFold ==
    ASSUME NEW e, NEW k \in Nat, NEW s, DOMAIN s = 1..k
    PROVE  \E g : Run("classify", <<>>, e, s, k, g) /\ g[k] = Classified(e, s)
<1> DEFINE It(h) == h = [t \in SUBSET (DOMAIN s) |->
                        IF t = {} THEN e ELSE ClassifyRecord(h[t \ {Max(t)}], s[Max(t)])]
           it == CHOOSE h : It(h)
<1>1. \A h : Folds("classify", <<>>, e, s, h) <=> It(h)
  BY DEF Folds, FoldStep
<1>2. It(it)
  <2>1. \E h : It(h)
    BY <1>1, FoldExists
  <2> QED
    BY <2>1
<1>3. Classified(e, s) = it[DOMAIN s]
  BY DEF Classified, FoldLeft, MapThenFoldSet
<1> HIDE DEF it, It
<1> QED
  BY <1>1, <1>2, <1>3, FoldRuns

LEMMA EarlyFold ==
    ASSUME NEW e, NEW k \in Nat, NEW s, DOMAIN s = 1..k
    PROVE  \E g : Run("early", <<>>, e, s, k, g) /\ g[k] = ParsedEarly(e, s)
<1> DEFINE It(h) == h = [t \in SUBSET (DOMAIN s) |->
                        IF t = {} THEN e ELSE IF h[t \ {Max(t)}].err = "none"
                             THEN ParsePacket(h[t \ {Max(t)}], <<s[Max(t)].rec>>)
                             ELSE h[t \ {Max(t)}]]
           it == CHOOSE h : It(h)
<1>1. \A h : Folds("early", <<>>, e, s, h) <=> It(h)
  BY DEF Folds, FoldStep
<1>2. It(it)
  <2>1. \E h : It(h)
    BY <1>1, FoldExists
  <2> QED
    BY <2>1
<1>3. ParsedEarly(e, s) = it[DOMAIN s]
  BY DEF ParsedEarly, FoldLeft, MapThenFoldSet
<1> HIDE DEF it, It
<1> QED
  BY <1>1, <1>2, <1>3, FoldRuns

\* The search stays inside the queue.
LEMMA FindStays ==
    ASSUME NEW c, NEW n \in Nat \ {0}, NEW s, DOMAIN s = 1..n,
           NEW g, Run("find", c, [base |-> 1, size |-> n], s, n, g)
    PROVE  g[n].base \in 1..n
<1> DEFINE T == {k \in 0..n : /\ g[k].base \in 1..n /\ g[k].size \in 1..n
                              /\ g[k].base + g[k].size <= n + 1}
<1>1. 0 \in T
  BY DEF Run
<1>2. ASSUME NEW k \in 0..(n - 1), k \in T PROVE k + 1 \in T
  <2>1. k + 1 \in 0..n
    OBVIOUS
  <2> DEFINE a == g[k]
             half == a.size \div 2
             b == g[k + 1]
  <2>2. \/ b = a
        \/ /\ a.size > 1
           /\ b = [base |-> a.base + half, size |-> a.size - half]
              \/ b = [base |-> a.base, size |-> a.size - half]
    <3>1. b = FoldStep("find", c, a, s[k + 1])
      BY DEF Run
    <3>2. a.size \in Int
      BY <1>2
    <3> QED
      BY <3>1, <3>2 DEF FoldStep
  <2>3. /\ a.base \in 1..n /\ a.size \in 1..n /\ a.base + a.size <= n + 1
    BY <1>2
  <2>4. a.size > 1 => half \in 1..(a.size - 1)
    BY <2>3
  <2>5. b.base \in 1..n /\ b.size \in 1..n /\ b.base + b.size <= n + 1
    <3> HIDE DEF a, b, half
    <3>1. CASE b = a
      BY <2>3, <3>1
    <3>2. CASE a.size > 1 /\ b = [base |-> a.base + half, size |-> a.size - half]
      BY <2>3, <2>4, <3>2
    <3>3. CASE a.size > 1 /\ b = [base |-> a.base, size |-> a.size - half]
      BY <2>3, <2>4, <3>3
    <3> QED
      BY <2>2, <3>1, <3>2, <3>3
  <2> QED
    BY <2>1, <2>5
<1>3. n \in T
  <2> HIDE DEF T
  <2> QED
    BY <1>1, <1>2, InductTo
<1> QED
  BY <1>3

\* A datagram is put between those of the queue, or found there.
InsertHandshake(e, incoming) == InsertByKey(e, incoming, HandshakeKey)
InsertRecord(e, incoming) == InsertByKey(e, incoming, RecordKey)

LEMMA InsertHandshakeIs ==
    ASSUME NEW e, IsSeq(e.rx), NEW incoming
    PROVE  LET rx == InsertHandshake(e, incoming).rx
           IN  IsSeq(rx) /\ ToSet(rx) \subseteq ToSet(e.rx) \cup {incoming}
<1> DEFINE n == Len(e.rx)
           key == HandshakeKey(incoming)
           s == [i \in 1..n |-> i]
           c == [handshake |-> TRUE, rx |-> e.rx, key |-> key]
           base == [base |-> 1, size |-> n]
           Next1(acc) == LET half == acc.size \div 2
                             mid == acc.base + half
                         IN  IF acc.size <= 1 THEN acc
                             ELSE [base |-> IF Lex(HandshakeKey(e.rx[mid]), key) \/ HandshakeKey(e.rx[mid]) = key
                                            THEN mid ELSE acc.base,
                                   size |-> acc.size - half]
           It(h) == h = [t \in SUBSET (DOMAIN s) |->
                            IF t = {} THEN base ELSE Next1(h[t \ {Max(t)}])]
           it == CHOOSE h : It(h)
           end == it[DOMAIN s].base
<1>1. n \in Nat /\ DOMAIN s = 1..n
  BY SeqHas
<1>2. \A h : Folds("find", c, base, s, h) <=> It(h)
  BY DEF Folds, FoldStep, KeyOf
<1>3. It(it)
  <2>1. \E h : It(h)
    <3> HIDE DEF s, c, base, It, n
    <3> QED
      BY <1>1, <1>2, FoldExists
  <2> QED
    BY <2>1
<1>4. \/ InsertHandshake(e, incoming).rx = e.rx
      \/ n = 0 /\ InsertHandshake(e, incoming).rx = InsertAt(e.rx, 1, incoming)
      \/ n # 0 /\ InsertHandshake(e, incoming).rx = InsertAt(e.rx, end, incoming)
      \/ n # 0 /\ InsertHandshake(e, incoming).rx = InsertAt(e.rx, end + 1, incoming)
  BY DEF InsertHandshake, InsertByKey, BinarySearch, FoldLeft, MapThenFoldSet
<1>5. n # 0 => end \in 1..n
  <2> SUFFICES ASSUME n # 0 PROVE end \in 1..n
    OBVIOUS
  <2>1. Folds("find", c, base, s, it)
    BY <1>2, <1>3
  <2>2. PICK g : Run("find", c, base, s, n, g) /\ g[n] = it[DOMAIN s]
    <3> HIDE DEF s, c, base, it, n
    <3> QED
      BY <1>1, <2>1, FoldRuns
  <2> HIDE DEF s, c, n, it
  <2> QED
    BY <1>1, <2>2, FindStays
<1> HIDE DEF end, n, s, c
<1>6. IsSeq(e.rx) /\ ToSet(e.rx) \subseteq ToSet(e.rx) \cup {incoming}
  OBVIOUS
<1>7. n # 0 => end \in 1..(n + 1) /\ end + 1 \in 1..(n + 1)
  BY <1>1, <1>5
<1>8. n = 0 => 1 \in 1..(n + 1)
  BY <1>1
<1> QED
  BY <1>4, <1>6, <1>7, <1>8, InsertIs DEF n

LEMMA InsertRecordIs ==
    ASSUME NEW e, IsSeq(e.rx), NEW incoming
    PROVE  LET rx == InsertRecord(e, incoming).rx
           IN  IsSeq(rx) /\ ToSet(rx) \subseteq ToSet(e.rx) \cup {incoming}
<1> DEFINE n == Len(e.rx)
           key == RecordKey(incoming)
           s == [i \in 1..n |-> i]
           c == [handshake |-> FALSE, rx |-> e.rx, key |-> key]
           base == [base |-> 1, size |-> n]
           Next1(acc) == LET half == acc.size \div 2
                             mid == acc.base + half
                         IN  IF acc.size <= 1 THEN acc
                             ELSE [base |-> IF Lex(RecordKey(e.rx[mid]), key) \/ RecordKey(e.rx[mid]) = key
                                            THEN mid ELSE acc.base,
                                   size |-> acc.size - half]
           It(h) == h = [t \in SUBSET (DOMAIN s) |->
                            IF t = {} THEN base ELSE Next1(h[t \ {Max(t)}])]
           it == CHOOSE h : It(h)
           end == it[DOMAIN s].base
<1>1. n \in Nat /\ DOMAIN s = 1..n
  BY SeqHas
<1>2. \A h : Folds("find", c, base, s, h) <=> It(h)
  BY DEF Folds, FoldStep, KeyOf
<1>3. It(it)
  <2>1. \E h : It(h)
    <3> HIDE DEF s, c, base, It, n
    <3> QED
      BY <1>1, <1>2, FoldExists
  <2> QED
    BY <2>1
<1>4. \/ InsertRecord(e, incoming).rx = e.rx
      \/ n = 0 /\ InsertRecord(e, incoming).rx = InsertAt(e.rx, 1, incoming)
      \/ n # 0 /\ InsertRecord(e, incoming).rx = InsertAt(e.rx, end, incoming)
      \/ n # 0 /\ InsertRecord(e, incoming).rx = InsertAt(e.rx, end + 1, incoming)
  BY DEF InsertRecord, InsertByKey, BinarySearch, FoldLeft, MapThenFoldSet
<1>5. n # 0 => end \in 1..n
  <2> SUFFICES ASSUME n # 0 PROVE end \in 1..n
    OBVIOUS
  <2>1. Folds("find", c, base, s, it)
    BY <1>2, <1>3
  <2>2. PICK g : Run("find", c, base, s, n, g) /\ g[n] = it[DOMAIN s]
    <3> HIDE DEF s, c, base, it, n
    <3> QED
      BY <1>1, <2>1, FoldRuns
  <2> HIDE DEF s, c, n, it
  <2> QED
    BY <1>1, <2>2, FindStays
<1> HIDE DEF end, n, s, c
<1>6. IsSeq(e.rx) /\ ToSet(e.rx) \subseteq ToSet(e.rx) \cup {incoming}
  OBVIOUS
<1>7. n # 0 => end \in 1..(n + 1) /\ end + 1 \in 1..(n + 1)
  BY <1>1, <1>5
<1>8. n = 0 => 1 \in 1..(n + 1)
  BY <1>1
<1> QED
  BY <1>4, <1>6, <1>7, <1>8, InsertIs DEF n

----------------------------------------------------------------------------
(* Records, and an endpoint whose own records and queued records are of    *)
(* the kinds in "w": "own" and "peer" are the payloads of the two          *)
(* applications; "said" and "heard" are what its own messages and those of *)
(* its peer claim, as functions from types of messages.                    *)

\* The suite, the group, or the history with the Finished itself.
Claim(type, mseq, val) ==
    IF type = "Finished" THEN Append(val.hash, <<type, mseq>>) ELSE val.args[1]

RecordOK(r, data, said) ==
    /\ r.flen \in Int
    /\ r.ct = "data" => r.val.args[1] \in data
    /\ r.ct = "handshake" /\ r.type \in DOMAIN said =>
          Claim(r.type, r.mseq, r.val) \in said[r.type]

RecordsOK(s, data, said) == IsSeq(s) /\ \A r \in ToSet(s) : RecordOK(r, data, said)

DatagramsOK(ds, data, said) == IsSeq(ds) /\ \A d \in ToSet(ds) : RecordsOK(d, data, said)

ItemOK(x, data, said) ==
    {"rec", "clear", "done"} \subseteq DOMAIN x /\ RecordOK(x.rec, data, said)

ItemsOK(s, data, said) == IsSeq(s) /\ \A x \in ToSet(s) : ItemOK(x, data, said)

QueueOK(rx, data, said) == IsSeq(rx) /\ \A s \in ToSet(rx) : ItemsOK(s, data, said)

Fields ==
    {"err", "tx", "saved", "rx", "state", "release", "queued", "accepted", "events", "told",
     "suite", "group", "secret", "session", "keys", "peerCert", "transcript"}

EngineOK(e, w) ==
    /\ Fields \subseteq DOMAIN e
    /\ DatagramsOK(e.tx, w.own, w.said)
    /\ RecordsOK(e.saved, w.own, w.said)
    /\ QueueOK(e.rx, w.peer, w.heard)
    /\ IsSeq(e.queued) /\ ToSet(e.queued) \subseteq w.own
    /\ IsSeq(e.accepted) /\ IsSeq(e.events) /\ IsSeq(e.told)

\* What the engine leaves to its client or server.
Keeps(e, f) ==
    /\ f.state = e.state /\ f.release = e.release
    /\ f.queued = e.queued /\ f.accepted = e.accepted
    /\ f.events = e.events /\ f.told = e.told
    /\ f.suite = e.suite /\ f.group = e.group /\ f.secret = e.secret
    /\ f.session = e.session /\ f.keys = e.keys /\ f.peerCert = e.peerCert
    /\ f.transcript = e.transcript

\* What the handshake has come to.
SameKeys(e, f) ==
    /\ f.suite = e.suite /\ f.group = e.group /\ f.secret = e.secret
    /\ f.session = e.session /\ f.keys = e.keys /\ f.peerCert = e.peerCert
    /\ f.transcript = e.transcript

\* A message more in the transcript.
Hashed(e, type, mseq) == [e EXCEPT !.transcript = Append(@, <<type, mseq>>)]

\* An endpoint that has nothing to repeat sends nothing.
Quiet(e, f) == e.saved = <<>> => f.saved = <<>> /\ f.tx = e.tx

Becomes(e, f, w) == EngineOK(f, w) /\ Keeps(e, f)

LEMMA CreateRecordOK ==
    ASSUME NEW w, NEW e, EngineOK(e, w), NEW rec, RecordOK(rec, w.own, w.said), NEW save
    PROVE  Becomes(e, CreateRecord(e, rec, save), w)
<1> DEFINE wire == Numbered(rec, IF rec.epoch = 0 THEN e.num0 ELSE e.num1,
                                 IF rec.epoch = 0 THEN <<>> ELSE e.keys)
           saved == IF save THEN Append(e.saved, rec) ELSE e.saved
           kept == [e EXCEPT !.saved = saved]
           fits == e.tx # <<>> /\ rec.flen <= Room(e)
           tx == IF fits THEN Front(e.tx) \o << Append(Last(e.tx), wire) >>
                         ELSE Append(e.tx, <<wire>>)
           sent == [kept EXCEPT !.num0 = IF rec.epoch = 0 THEN @ + 1 ELSE @,
                                !.num1 = IF rec.epoch = 1 THEN @ + 1 ELSE @,
                                !.tx = tx]
<1>1. RecordOK(wire, w.own, w.said)
  BY DEF RecordOK, Numbered
<1> HIDE DEF wire
<1>2. RecordsOK(saved, w.own, w.said)
  BY AppendIs DEF EngineOK, RecordsOK
<1>3. DatagramsOK(tx, w.own, w.said)
  <2>1. CASE fits
    <3>1. RecordsOK(Last(e.tx), w.own, w.said) /\ IsSeq(Front(e.tx))
          /\ \A d \in ToSet(Front(e.tx)) : RecordsOK(d, w.own, w.said)
      BY <2>1, LastIs DEF EngineOK, DatagramsOK
    <3> DEFINE last == Append(Last(e.tx), wire)
    <3>2. RecordsOK(last, w.own, w.said)
      BY <1>1, <3>1, AppendIs DEF RecordsOK
    <3> HIDE DEF last
    <3>3. IsSeq(<<last>>) /\ ToSet(<<last>>) = {last}
      BY OneIs
    <3>4. DatagramsOK(Front(e.tx) \o <<last>>, w.own, w.said)
      BY <3>1, <3>2, <3>3, ConcatIs DEF DatagramsOK
    <3> QED
      BY <2>1, <3>4 DEF last
  <2>2. CASE ~fits
    <3>1. RecordsOK(<<wire>>, w.own, w.said)
      BY <1>1, OneIs DEF RecordsOK
    <3>2. DatagramsOK(Append(e.tx, <<wire>>), w.own, w.said)
      BY <3>1, AppendIs DEF EngineOK, DatagramsOK
    <3> QED
      BY <2>2, <3>2
  <2> QED
    BY <2>1, <2>2
<1>4. CreateRecord(e, rec, save) \in {e, Fail(kept, "TransmitQueueFull"), sent}
  BY DEF CreateRecord, wire
<1> HIDE DEF saved, tx
<1>5. Becomes(e, e, w)
  BY DEF Becomes, Keeps
<1>6. Becomes(e, Fail(kept, "TransmitQueueFull"), w)
  BY <1>2 DEF Becomes, Keeps, EngineOK, Fields, Fail
<1>7. Becomes(e, sent, w)
  BY <1>2, <1>3 DEF Becomes, Keeps, EngineOK, Fields
<1> QED
  BY <1>4, <1>5, <1>6, <1>7

\* There is a number of units left in the last datagram.
LEMMA RoomIsInt ==
    ASSUME NEW w, NEW e, EngineOK(e, w)
    PROVE  Room(e) \in Int
<1>1. CASE e.tx = <<>>
  BY <1>1 DEF Room
<1>2. CASE e.tx # <<>>
  <2> DEFINE dg == Last(e.tx)
             n == Len(dg)
  <2>1. RecordsOK(dg, w.own, w.said)
    BY <1>2, LastIs DEF EngineOK, DatagramsOK
  <2>2. n \in Nat /\ DOMAIN dg = 1..n /\ \A i \in 1..n : dg[i].flen \in Int
    BY <2>1, SeqHas DEF RecordsOK, RecordOK
  <2> HIDE DEF dg, n
  <2>3. PICK g : Run("size", <<>>, 0, dg, n, g) /\ g[n] = SizeOf(dg)
    BY <2>2, SizeFold
  <2> DEFINE T == {k \in 0..n : g[k] \in Int}
  <2>4. 0 \in T
    BY <2>2, <2>3 DEF Run
  <2>5. ASSUME NEW k \in 0..(n - 1), k \in T PROVE k + 1 \in T
    <3>1. k + 1 \in 1..n /\ g[k] \in Int
      BY <2>2, <2>5
    <3>2. g[k + 1] = g[k] + dg[k + 1].flen
      BY <2>3 DEF Run, FoldStep
    <3> QED
      BY <2>2, <3>1, <3>2
  <2>6. n \in T
    <3> HIDE DEF T
    <3> QED
      BY <2>2, <2>4, <2>5, InductTo
  <2>7. Used(dg) \in Int
    <3>1. Used(dg) = SizeOf(dg)
      BY DEF Used, SizeOf
    <3> QED
      BY <2>3, <2>6, <3>1
  <2>8. Room(e) = MTU - Used(dg)
    BY <1>2 DEF Room, dg
  <2> QED
    BY <2>7, <2>8, QueueAssumption
<1> QED
  BY <1>1, <1>2

LEMMA FragmentsAre ==
    ASSUME NEW len \in Int, NEW room \in Int
    PROVE  /\ IsSeq(Fragments(len, room))
           /\ \A f \in ToSet(Fragments(len, room)) : f.flen \in Int
<1> DEFINE first == LET space == IF room > 0 THEN room ELSE MTU
                    IN  IF len < space THEN len ELSE space
           n == 1 + (len - first + MTU - 1) \div MTU
           Off(k) == IF k = 1 THEN 0 ELSE first + (k - 2) * MTU
           End(k) == IF k = n THEN len ELSE Off(k + 1)
           fs == [k \in 1..n |-> [off |-> Off(k), flen |-> End(k) - Off(k)]]
<1>1. MTU \in Nat /\ MTU # 0
  BY QueueAssumption
<1>2. first \in Int
  BY <1>1
<1> HIDE DEF first
<1>3. n \in Int
  <2>1. len - first + MTU - 1 \in Int
    BY <1>1, <1>2
  <2> QED
    BY <1>1, <2>1
<1> HIDE DEF n
<1>4. \A k \in Int : Off(k) \in Int
  BY <1>1, <1>2
<1>5. \A k \in Int : End(k) - Off(k) \in Int
  <2> HIDE DEF Off
  <2> QED
    BY <1>4
<1>6. PICK m \in Nat : 1..n = 1..m
  <2>1. CASE n < 0
    BY <1>3, <2>1, 1..n = 1..0
  <2>2. CASE n >= 0
    BY <1>3, <2>2
  <2> QED
    BY <1>3, <2>1, <2>2
<1> HIDE DEF Off, End
<1>7. IsSeq(fs) /\ ToSet(fs) = {fs[k] : k \in 1..m}
  <2>1. fs = [k \in 1..m |-> fs[k]]
    BY <1>6
  <2> HIDE DEF fs
  <2> QED
    BY <2>1, FunctionIs
<1>8. \A k \in 1..m : fs[k].flen \in Int
  BY <1>3, <1>5, <1>6
<1>9. Fragments(len, room) = fs
  BY DEF Fragments, first, n, Off, End
<1> HIDE DEF fs
<1> QED
  BY <1>7, <1>8, <1>9

\* A message is made only where it may claim what it does.
LEMMA CreateHandshakeOK ==
    ASSUME NEW w, NEW e, EngineOK(e, w), NEW type, NEW val,
           type \in DOMAIN w.said => Claim(type, e.nextSeq, val) \in w.said[type]
    PROVE  Becomes(Hashed(e, type, e.nextSeq), CreateHandshake(e, type, val), w)
<1> DEFINE c == [type |-> type, mseq |-> e.nextSeq, val |-> val]
           begun == [e EXCEPT !.nextSeq = @ + 1, !.transcript = Append(@, <<type, e.nextSeq>>)]
           s == Fragments(Length(type), Room(e))
           n == Len(s)
           MakeRec(f) == Rec("handshake", Epoch(c.type), c.type, c.mseq, f.off, f.flen, c.val)
           h == Hashed(e, type, e.nextSeq)
<1>1. Becomes(h, begun, w)
  BY DEF Becomes, Keeps, EngineOK, Fields, Hashed
<1>2. Length(type) \in Int
  BY CertAssumption DEF Length
<1>3. IsSeq(s) /\ \A f \in ToSet(s) : f.flen \in Int
  BY <1>2, RoomIsInt, FragmentsAre
<1>4. CreateHandshake(e, type, val) = Fragmented(c, begun, s)
  BY DEF CreateHandshake, Fragmented
<1>5. \A f \in ToSet(s) : RecordOK(MakeRec(f), w.own, w.said)
  BY <1>3 DEF RecordOK, Rec
<1> HIDE DEF begun, s, h
<1>6. n \in Nat /\ DOMAIN s = 1..n /\ \A i \in 1..n : s[i] \in ToSet(s)
  BY <1>3, SeqHas
<1> HIDE DEF n, c
<1>7. PICK g : Run("fragment", c, begun, s, n, g) /\ g[n] = Fragmented(c, begun, s)
  BY <1>6, FragmentFold
<1> DEFINE T == {k \in 0..n : Becomes(h, g[k], w)}
<1>8. 0 \in T
  BY <1>1, <1>6, <1>7 DEF Run
<1>9. ASSUME NEW k \in 0..(n - 1), k \in T PROVE k + 1 \in T
  <2>1. k + 1 \in 1..n /\ Becomes(h, g[k], w)
    BY <1>6, <1>9
  <2>2. g[k + 1] = CreateRecord(g[k], MakeRec(s[k + 1]), TRUE)
    BY <1>7 DEF Run, FoldStep
  <2> HIDE DEF MakeRec
  <2>3. Becomes(g[k], g[k + 1], w)
    BY <1>5, <1>6, <2>1, <2>2, CreateRecordOK DEF Becomes
  <2> QED
    BY <2>1, <2>3 DEF Becomes, Keeps
<1>10. n \in T
  <2> HIDE DEF T
  <2> QED
    BY <1>6, <1>8, <1>9, InductTo
<1> QED
  BY <1>4, <1>7, <1>10 DEF h

LEMMA FlightResendOK ==
    ASSUME NEW w, NEW e, EngineOK(e, w)
    PROVE  Becomes(e, FlightResend(e), w) /\ Quiet(e, FlightResend(e))
<1> DEFINE s == e.saved
           n == Len(s)
<1>1. RecordsOK(s, w.own, w.said)
  BY DEF EngineOK
<1>2. n \in Nat /\ DOMAIN s = 1..n /\ \A i \in 1..n : RecordOK(s[i], w.own, w.said)
  BY <1>1, SeqHas DEF RecordsOK
<1>3. FlightResend(e) = Resent(e, s)
  BY DEF FlightResend, Resent
<1>4. s = <<>> => n = 0
  OBVIOUS
<1> HIDE DEF n
<1>5. PICK g : Run("resend", <<>>, e, s, n, g) /\ g[n] = Resent(e, s)
  <2> HIDE DEF s
  <2> QED
    BY <1>2, ResendFold
<1> DEFINE T == {k \in 0..n : Becomes(e, g[k], w)}
<1>6. 0 \in T
  BY <1>2, <1>5 DEF Run, Becomes, Keeps
<1>7. ASSUME NEW k \in 0..(n - 1), k \in T PROVE k + 1 \in T
  <2>1. k + 1 \in 1..n /\ Becomes(e, g[k], w)
    BY <1>2, <1>7
  <2>2. g[k + 1] = CreateRecord(g[k], s[k + 1], FALSE)
    BY <1>5 DEF Run, FoldStep
  <2>3. Becomes(g[k], g[k + 1], w)
    BY <1>2, <2>1, <2>2, CreateRecordOK DEF Becomes
  <2> QED
    BY <2>1, <2>3 DEF Becomes, Keeps
<1>8. n \in T
  <2> HIDE DEF T
  <2> QED
    BY <1>2, <1>6, <1>7, InductTo
<1>9. s = <<>> => FlightResend(e) = e
  BY <1>3, <1>4, <1>5 DEF Run
<1> QED
  BY <1>3, <1>5, <1>8, <1>9 DEF Quiet

LEMMA HandleEngineTimeoutOK ==
    ASSUME NEW w, NEW e, EngineOK(e, w), NEW late
    PROVE  /\ Becomes(e, HandleEngineTimeout(e, late), w)
           /\ Quiet(e, HandleEngineTimeout(e, late))
<1> DEFINE armed == [e EXCEPT !.connectTimer = IF @ = "unarmed" THEN "armed" ELSE @,
                              !.flightTimer = IF @ = "unarmed" THEN "armed" ELSE @]
           less == [armed EXCEPT !.left = @ - 1]
<1>1. Becomes(e, armed, w) /\ Quiet(e, armed)
  BY DEF Becomes, Keeps, EngineOK, Fields, Quiet
<1>2. Becomes(e, Fail(e, "Timeout"), w) /\ Quiet(e, Fail(e, "Timeout"))
  BY DEF Becomes, Keeps, EngineOK, Fields, Quiet, Fail
<1>3. Becomes(e, Fail(armed, "Timeout"), w) /\ Quiet(e, Fail(armed, "Timeout"))
  BY DEF Becomes, Keeps, EngineOK, Fields, Quiet, Fail
<1>4. Becomes(e, less, w) /\ Quiet(e, less) /\ less.saved = e.saved /\ less.tx = e.tx
  BY DEF Becomes, Keeps, EngineOK, Fields, Quiet
<1>5. Becomes(e, FlightResend(less), w) /\ Quiet(e, FlightResend(less))
  <2> HIDE DEF armed, less
  <2>1. EngineOK(less, w)
    BY <1>4 DEF Becomes
  <2>2. Becomes(less, FlightResend(less), w) /\ Quiet(less, FlightResend(less))
    BY <2>1, FlightResendOK
  <2> QED
    BY <1>4, <2>2 DEF Becomes, Keeps, Quiet
<1>6. HandleEngineTimeout(e, late) \in
         {armed, Fail(e, "Timeout"), Fail(armed, "Timeout"), FlightResend(less)}
  BY DEF HandleEngineTimeout
<1> HIDE DEF armed, less
<1> QED
  BY <1>1, <1>2, <1>3, <1>5, <1>6

----------------------------------------------------------------------------
(* Receiving.                                                              *)

LEMMA InsertIncomingOK ==
    ASSUME NEW w, NEW e, EngineOK(e, w), NEW incoming, ItemsOK(incoming, w.peer, w.heard)
    PROVE  /\ Becomes(e, InsertIncoming(e, incoming), w)
           /\ Quiet(e, InsertIncoming(e, incoming))
<1>1. ASSUME NEW f, Becomes(e, f, w), NEW rx, IsSeq(rx), ToSet(rx) \subseteq ToSet(f.rx) \cup {incoming}
      PROVE  Becomes(e, [f EXCEPT !.rx = rx], w)
  <2>1. QueueOK(rx, w.peer, w.heard)
    BY <1>1 DEF Becomes, EngineOK, QueueOK
  <2> QED
    BY <1>1, <2>1 DEF Becomes, Keeps, EngineOK, Fields
<1>2. ASSUME NEW f, Becomes(e, f, w), NEW what
      PROVE  Becomes(e, Fail(f, what), w)
  BY <1>2 DEF Becomes, Keeps, EngineOK, Fields, Fail
<1>3. Becomes(e, e, w) /\ Quiet(e, e)
  BY DEF Becomes, Keeps, Quiet
<1>4. Becomes(e, FlightResend(e), w) /\ Quiet(e, FlightResend(e))
  BY FlightResendOK
<1>5. \E told \in {e, FlightResend(e)} :
         InsertIncomingHandshake(e, incoming) \in
            {told, Fail(told, "RenegotiationAttempt"),
             [told EXCEPT !.rx = InsertHandshake(told, incoming).rx]}
  BY DEF InsertIncomingHandshake, InsertHandshake
<1>6. ASSUME NEW told \in {e, FlightResend(e)}
      PROVE  LET f == [told EXCEPT !.rx = InsertHandshake(told, incoming).rx]
             IN  Becomes(e, f, w) /\ Quiet(e, f)
  <2>1. Becomes(e, told, w) /\ Quiet(e, told)
    BY <1>3, <1>4
  <2>2. IsSeq(told.rx) /\ Fields \subseteq DOMAIN told
    BY <2>1 DEF Becomes, EngineOK, QueueOK
  <2>3. Becomes(e, [told EXCEPT !.rx = InsertHandshake(told, incoming).rx], w)
    BY <1>1, <2>1, <2>2, InsertHandshakeIs
  <2> QED
    BY <2>1, <2>2, <2>3 DEF Quiet, Fields
<1>7. \A told \in {e, FlightResend(e)} :
         Becomes(e, Fail(told, "RenegotiationAttempt"), w)
         /\ Quiet(e, Fail(told, "RenegotiationAttempt"))
  BY <1>2, <1>3, <1>4 DEF Quiet, Fail, Becomes, EngineOK, Fields
<1>8. Becomes(e, InsertIncomingHandshake(e, incoming), w)
      /\ Quiet(e, InsertIncomingHandshake(e, incoming))
  BY <1>3, <1>4, <1>5, <1>6, <1>7
<1>9. InsertIncomingNonHandshake(e, incoming) \in
         {Fail(e, "panic"), [e EXCEPT !.rx = InsertRecord(e, incoming).rx]}
  BY DEF InsertIncomingNonHandshake, InsertRecord
<1>10. Becomes(e, [e EXCEPT !.rx = InsertRecord(e, incoming).rx], w)
       /\ Quiet(e, [e EXCEPT !.rx = InsertRecord(e, incoming).rx])
  <2>1. IsSeq(e.rx) /\ Fields \subseteq DOMAIN e
    BY DEF EngineOK, QueueOK
  <2> QED
    BY <1>1, <1>3, <2>1, InsertRecordIs DEF Quiet, Fields
<1>11. \A what : Becomes(e, Fail(e, what), w) /\ Quiet(e, Fail(e, what))
  BY <1>2, <1>3 DEF Quiet, Fail, EngineOK, Fields
<1> QED
  BY <1>8, <1>9, <1>10, <1>11 DEF InsertIncoming

\* What is parsed so far: the endpoint and the items kept.
ParsedOK(e, acc, w) ==
    /\ acc = [e |-> acc.e, items |-> acc.items]
    /\ Becomes(e, acc.e, w) /\ acc.e.saved = e.saved /\ acc.e.tx = e.tx
    /\ ItemsOK(acc.items, w.peer, w.heard)

LEMMA ItemsAppend ==
    ASSUME NEW data, NEW said, NEW items, ItemsOK(items, data, said), NEW x, ItemOK(x, data, said)
    PROVE  ItemsOK(Append(items, x), data, said)
  BY AppendIs DEF ItemsOK

LEMMA ParseRecordOK ==
    ASSUME NEW w, NEW e, NEW acc, ParsedOK(e, acc, w),
           NEW rec, RecordOK(rec, w.peer, w.heard)
    PROVE  ParsedOK(e, ParseRecord(acc, rec), w)
<1> DEFINE x(clear) == [rec |-> rec, clear |-> clear, done |-> FALSE]
           Kept(f, clear) == [e |-> f, items |-> Append(acc.items, x(clear))]
           win == [acc.e EXCEPT !.win = ReplayUpdate(@, rec.num)]
<1>1. \A clear : ItemsOK(Append(acc.items, x(clear)), w.peer, w.heard)
  <2> TAKE clear
  <2>1. ItemOK(x(clear), w.peer, w.heard)
    BY DEF ItemOK
  <2> HIDE DEF x
  <2> QED
    BY <2>1, ItemsAppend DEF ParsedOK
<1>2. ASSUME NEW f, Becomes(e, f, w), f.saved = e.saved, f.tx = e.tx, NEW clear
      PROVE  ParsedOK(e, Kept(f, clear), w)
  <2> HIDE DEF x
  <2> QED
    BY <1>1, <1>2 DEF ParsedOK
<1>3. Becomes(e, win, w) /\ win.saved = e.saved /\ win.tx = e.tx
  BY DEF ParsedOK, Becomes, Keeps, EngineOK, Fields
<1>4. ASSUME NEW what PROVE ParsedOK(e, [acc EXCEPT !.e = Fail(acc.e, what)], w)
  <2>1. Becomes(e, Fail(acc.e, what), w) /\ Fail(acc.e, what).saved = e.saved
        /\ Fail(acc.e, what).tx = e.tx
    BY DEF ParsedOK, Becomes, Keeps, EngineOK, Fields, Fail
  <2>2. [acc EXCEPT !.e = Fail(acc.e, what)] = [e |-> Fail(acc.e, what), items |-> acc.items]
    BY DEF ParsedOK
  <2> QED
    BY <2>1, <2>2 DEF ParsedOK
<1>5. ParseRecord(acc, rec) \in
         {acc, [acc EXCEPT !.e = Fail(acc.e, "TooManyRecords")],
          [acc EXCEPT !.e = Fail(acc.e, "CryptoError")],
          Kept(acc.e, rec.epoch = 0), Kept(win, TRUE)}
  BY DEF ParseRecord
<1>6. ParsedOK(e, Kept(acc.e, rec.epoch = 0), w)
  BY <1>2 DEF ParsedOK
<1> HIDE DEF Kept, win
<1>7. ParsedOK(e, Kept(win, TRUE), w)
  BY <1>2, <1>3
<1> QED
  BY <1>4, <1>5, <1>6, <1>7

LEMMA ClassifyRecordOK ==
    ASSUME NEW w, NEW e, NEW acc, ParsedOK(e, acc, w), NEW x, ItemOK(x, w.peer, w.heard)
    PROVE  ParsedOK(e, ClassifyRecord(acc, x), w)
<1> DEFINE seen == [acc.e EXCEPT !.closeSeen = TRUE]
<1>1. Becomes(e, seen, w) /\ seen.saved = e.saved /\ seen.tx = e.tx
  BY DEF ParsedOK, Becomes, Keeps, EngineOK, Fields
<1>2. ParsedOK(e, [acc EXCEPT !.e = seen], w)
  <2> HIDE DEF seen
  <2>1. [acc EXCEPT !.e = seen] = [e |-> seen, items |-> acc.items]
    BY DEF ParsedOK
  <2> QED
    BY <1>1, <2>1 DEF ParsedOK
<1>3. ParsedOK(e, [acc EXCEPT !.items = Append(@, x)], w)
  <2>1. [acc EXCEPT !.items = Append(@, x)] = [e |-> acc.e, items |-> Append(acc.items, x)]
    BY DEF ParsedOK
  <2>2. ItemsOK(Append(acc.items, x), w.peer, w.heard)
    BY ItemsAppend DEF ParsedOK
  <2> QED
    BY <2>1, <2>2 DEF ParsedOK
<1>4. ClassifyRecord(acc, x) \in
         {acc, [acc EXCEPT !.e = seen], [acc EXCEPT !.items = Append(@, x)]}
  BY DEF ClassifyRecord
<1> QED
  BY <1>2, <1>3, <1>4

LEMMA ParsePacketOK ==
    ASSUME NEW w, NEW e, EngineOK(e, w),
           NEW datagram, RecordsOK(datagram, w.peer, w.heard)
    PROVE  Becomes(e, ParsePacket(e, datagram), w) /\ Quiet(e, ParsePacket(e, datagram))
<1> DEFINE parsed == Parsed([e |-> e, items |-> <<>>], datagram)
           kept == Classified([e |-> parsed.e, items |-> <<>>], parsed.items)
<1>1. ASSUME NEW f, Becomes(e, f, w), f.saved = e.saved, f.tx = e.tx
      PROVE  ParsedOK(e, [e |-> f, items |-> <<>>], w)
  BY <1>1, EmptyIs DEF ParsedOK, ItemsOK
<1>2. ParsedOK(e, parsed, w)
  <2> DEFINE n == Len(datagram)
             base == [e |-> e, items |-> <<>>]
  <2>1. n \in Nat /\ DOMAIN datagram = 1..n
        /\ \A i \in 1..n : RecordOK(datagram[i], w.peer, w.heard)
    BY SeqHas DEF RecordsOK
  <2> HIDE DEF n
  <2>2. PICK g : Run("parse", <<>>, base, datagram, n, g) /\ g[n] = Parsed(base, datagram)
    <3> HIDE DEF base
    <3> QED
      BY <2>1, ParseFold
  <2> DEFINE T == {k \in 0..n : ParsedOK(e, g[k], w)}
  <2>3. 0 \in T
    <3>1. Becomes(e, e, w)
      BY DEF Becomes, Keeps
    <3> QED
      BY <1>1, <2>1, <2>2, <3>1 DEF Run
  <2>4. ASSUME NEW k \in 0..(n - 1), k \in T PROVE k + 1 \in T
    <3>1. k + 1 \in 1..n /\ ParsedOK(e, g[k], w)
      BY <2>1, <2>4
    <3>2. g[k + 1] = ParseRecord(g[k], datagram[k + 1])
      BY <2>2 DEF Run, FoldStep
    <3> QED
      BY <2>1, <3>1, <3>2, ParseRecordOK
  <2>5. n \in T
    <3> HIDE DEF T
    <3> QED
      BY <2>1, <2>3, <2>4, InductTo
  <2> QED
    BY <2>2, <2>5
<1>3. ParsedOK(e, kept, w)
  <2> DEFINE s == parsed.items
             n == Len(s)
             base == [e |-> parsed.e, items |-> <<>>]
  <2>1. n \in Nat /\ DOMAIN s = 1..n /\ \A i \in 1..n : ItemOK(s[i], w.peer, w.heard)
    BY <1>2, SeqHas DEF ParsedOK, ItemsOK
  <2>2. ParsedOK(e, base, w)
    BY <1>1, <1>2 DEF ParsedOK
  <2> HIDE DEF n, s, base, parsed
  <2>3. PICK g : Run("classify", <<>>, base, s, n, g) /\ g[n] = Classified(base, s)
    BY <2>1, ClassifyFold
  <2> DEFINE T == {k \in 0..n : ParsedOK(e, g[k], w)}
  <2>4. 0 \in T
    BY <2>1, <2>2, <2>3 DEF Run
  <2>5. ASSUME NEW k \in 0..(n - 1), k \in T PROVE k + 1 \in T
    <3>1. k + 1 \in 1..n /\ ParsedOK(e, g[k], w)
      BY <2>1, <2>5
    <3>2. g[k + 1] = ClassifyRecord(g[k], s[k + 1])
      BY <2>3 DEF Run, FoldStep
    <3> QED
      BY <2>1, <3>1, <3>2, ClassifyRecordOK
  <2>6. n \in T
    <3> HIDE DEF T
    <3> QED
      BY <2>1, <2>4, <2>5, InductTo
  <2> QED
    BY <2>3, <2>6 DEF base, s
<1>4. ParsePacket(e, datagram) \in {parsed.e, kept.e, InsertIncoming(kept.e, kept.items)}
  BY DEF ParsePacket, Parsed, Classified
<1> HIDE DEF parsed, kept
<1>5. Becomes(e, parsed.e, w) /\ Quiet(e, parsed.e) /\ Becomes(e, kept.e, w) /\ Quiet(e, kept.e)
  BY <1>2, <1>3 DEF ParsedOK, Quiet
<1>6. Becomes(e, InsertIncoming(kept.e, kept.items), w)
      /\ Quiet(e, InsertIncoming(kept.e, kept.items))
  <2>1. EngineOK(kept.e, w) /\ ItemsOK(kept.items, w.peer, w.heard)
    BY <1>3 DEF ParsedOK, Becomes
  <2>2. Becomes(kept.e, InsertIncoming(kept.e, kept.items), w)
        /\ Quiet(kept.e, InsertIncoming(kept.e, kept.items))
    BY <2>1, InsertIncomingOK
  <2> QED
    BY <1>3, <2>2 DEF ParsedOK, Becomes, Keeps, Quiet
<1> QED
  BY <1>4, <1>5, <1>6

\* The queue as one sequence, and what is taken from it.
LEMMA FlatOK ==
    ASSUME NEW data, NEW said, NEW rx, QueueOK(rx, data, said)
    PROVE  ItemsOK(Flat(rx), data, said)
<1> DEFINE S == UNION {ToSet(s) : s \in ToSet(rx)}
<1>1. IsSeq(rx) /\ \A s \in ToSet(rx) : IsSeq(s) /\ ToSet(s) \subseteq S
  BY DEF QueueOK, ItemsOK
<1>2. \A x \in S : ItemOK(x, data, said)
  BY DEF QueueOK, ItemsOK
<1> HIDE DEF S
<1> QED
  BY <1>1, <1>2, FlattenIs DEF Flat, ItemsOK

LEMMA PendingOK ==
    ASSUME NEW w, NEW e, EngineOK(e, w)
    PROVE  ItemsOK(Pending(e), w.peer, w.heard) /\ \A x \in ToSet(Pending(e)) : IsHandshake(x)
<1> DEFINE all == Flat(e.rx)
           ss == [i \in DOMAIN all |-> IF IsHandshake(all[i]) THEN <<all[i]>> ELSE <<>>]
           hs == FlattenSeq(ss)
           open == {i \in DOMAIN hs : ~hs[i].done}
           first == CHOOSE i \in open : \A j \in open : i <= j
<1>1. ItemsOK(all, w.peer, w.heard)
  BY FlatOK DEF EngineOK
<1>2. ItemsOK(hs, w.peer, w.heard) /\ \A x \in ToSet(hs) : IsHandshake(x)
  <2>1. Len(all) \in Nat /\ DOMAIN all = 1..Len(all)
        /\ \A i \in DOMAIN all : all[i] \in ToSet(all)
    BY <1>1, SeqHas DEF ItemsOK
  <2> DEFINE S == {x \in ToSet(all) : IsHandshake(x)}
  <2>2. \A i \in DOMAIN all : ss[i] = <<>> \/ \E x \in S : ss[i] = <<x>>
    BY <2>1
  <2>3. ss = [i \in DOMAIN all |-> ss[i]]
    OBVIOUS
  <2> HIDE DEF ss, all, S
  <2>4. IsSeq(hs) /\ ToSet(hs) \subseteq S
    BY <2>1, <2>2, <2>3, FilterIs
  <2> QED
    BY <1>1, <2>4 DEF ItemsOK, S
<1>3. Pending(e) = IF open = {} THEN <<>> ELSE SubSeq(hs, first, Len(hs))
  BY DEF Pending, HandshakeItems, FromUnhandled
<1> HIDE DEF hs
<1>4. Len(hs) \in Nat /\ DOMAIN hs = 1..Len(hs)
  BY <1>2, SeqHas DEF ItemsOK
<1>5. CASE open = {}
  BY <1>3, <1>5, EmptyIs DEF ItemsOK
<1>6. CASE open # {}
  <2>1. first \in 1..(Len(hs) + 1) /\ Len(hs) \in 0..Len(hs)
    <3>1. open \subseteq Nat
      BY <1>4
    <3>2. \E m \in open : \A j \in open : m <= j
      <4> HIDE DEF open
      <4> QED
        BY <1>6, <3>1, Least
    <3>3. first \in open
      BY <3>2
    <3> QED
      BY <1>4, <3>3
  <2> HIDE DEF first
  <2>2. IsSeq(SubSeq(hs, first, Len(hs))) /\ ToSet(SubSeq(hs, first, Len(hs))) \subseteq ToSet(hs)
    BY <1>2, <2>1, SubSeqIs DEF ItemsOK
  <2> QED
    BY <1>2, <1>3, <1>6, <2>2 DEF ItemsOK
<1> QED
  BY <1>5, <1>6

\* A complete message claims what the peer may claim.
LEMMA MessageIsPeers ==
    ASSUME NEW w, NEW e, EngineOK(e, w), NEW type \in DOMAIN w.heard,
           HasCompleteHandshake(e, type)
    PROVE  Claim(type, Pending(e)[1].rec.mseq, MessageBody(e)) \in w.heard[type]
<1> DEFINE hs == Pending(e)
<1>1. hs # <<>> /\ hs[1].rec.type = type
  BY DEF HasCompleteHandshake
<1>2. ItemsOK(hs, w.peer, w.heard) /\ \A x \in ToSet(hs) : IsHandshake(x)
  BY PendingOK
<1>3. MessageBody(e) = hs[1].rec.val
  BY DEF MessageBody
<1> HIDE DEF hs
<1>4. 1 \in DOMAIN hs
  <2>1. hs \in Seq(ToSet(hs)) /\ hs # <<>>
    BY <1>1, <1>2 DEF ItemsOK, IsSeq
  <2> QED
    BY <2>1
<1>5. ItemOK(hs[1], w.peer, w.heard) /\ IsHandshake(hs[1])
  BY <1>2, <1>4, SeqHas DEF ItemsOK
<1> QED
  BY <1>1, <1>3, <1>5 DEF hs, ItemOK, RecordOK, IsHandshake

\* Handled or not, an item has the record that came.
Marked(rx, done) ==
    [i \in DOMAIN rx |-> [j \in DOMAIN rx[i] |-> [rx[i][j] EXCEPT !.done = done[i][j]]]]

LEMMA MarkedOK ==
    ASSUME NEW data, NEW said, NEW rx, QueueOK(rx, data, said), NEW done
    PROVE  QueueOK(Marked(rx, done), data, said)
<1> DEFINE new == Marked(rx, done)
<1>1. Len(rx) \in Nat /\ DOMAIN rx = 1..Len(rx)
  BY SeqHas DEF QueueOK
<1>2. ASSUME NEW i \in DOMAIN rx PROVE ItemsOK(new[i], data, said)
  <2> DEFINE s == rx[i]
             t == new[i]
  <2>1. ItemsOK(s, data, said)
    BY SeqHas DEF QueueOK
  <2>2. t = [j \in DOMAIN s |-> [s[j] EXCEPT !.done = done[i][j]]]
    BY DEF Marked
  <2> HIDE DEF s, t
  <2>3. Len(s) \in Nat /\ DOMAIN s = 1..Len(s)
    BY <2>1, SeqHas DEF ItemsOK
  <2>4. t = [j \in 1..Len(s) |-> t[j]]
    BY <2>2, <2>3
  <2>5. IsSeq(t) /\ ToSet(t) = {t[j] : j \in 1..Len(s)}
    BY <2>3, <2>4, FunctionIs
  <2>6. ASSUME NEW j \in DOMAIN s PROVE ItemOK(t[j], data, said)
    <3>1. ItemOK(s[j], data, said)
      BY <2>1, SeqHas DEF ItemsOK
    <3>2. t[j] = [s[j] EXCEPT !.done = done[i][j]]
      BY <2>2
    <3> QED
      BY <3>1, <3>2 DEF ItemOK
  <2>7. ItemsOK(t, data, said)
    BY <2>3, <2>5, <2>6 DEF ItemsOK
  <2> QED
    BY <2>7 DEF t
<1>3. new = [i \in 1..Len(rx) |-> new[i]]
  BY <1>1 DEF Marked
<1> HIDE DEF new
<1>4. IsSeq(new) /\ ToSet(new) = {new[i] : i \in 1..Len(rx)}
  BY <1>1, <1>3, FunctionIs
<1>5. QueueOK(new, data, said)
  BY <1>1, <1>2, <1>4 DEF QueueOK
<1> QED
  BY <1>5 DEF new

\* The end of a queue.
LEMMA PurgedOK ==
    ASSUME NEW data, NEW said, NEW rx, QueueOK(rx, data, said)
    PROVE  QueueOK(PurgeHandled(rx), data, said)
<1> DEFINE Open(i) == \E x \in ToSet(rx[i]) : ~x.done
           first == IF \E i \in DOMAIN rx : Open(i)
                    THEN CHOOSE i \in DOMAIN rx : Open(i) /\ \A j \in 1..(i - 1) : ~Open(j)
                    ELSE Len(rx) + 1
<1>1. Len(rx) \in Nat /\ DOMAIN rx = 1..Len(rx) /\ IsSeq(rx)
  BY SeqHas DEF QueueOK
<1>2. first \in 1..(Len(rx) + 1)
  <2> HIDE DEF Open
  <2>1. CASE \E i \in DOMAIN rx : Open(i)
    <3> DEFINE T == {i \in DOMAIN rx : Open(i)}
    <3>1. PICK m \in T : \A j \in T : m <= j
      <4>1. T \subseteq Nat /\ T # {}
        BY <1>1, <2>1
      <4> HIDE DEF T
      <4> QED
        BY <4>1, Least
    <3>2. Open(m) /\ \A j \in 1..(m - 1) : ~Open(j)
      BY <1>1, <3>1
    <3> QED
      BY <1>1, <2>1, <3>2
  <2> QED
    BY <1>1, <2>1
<1>3. PurgeHandled(rx) = SubSeq(rx, first, Len(rx))
  BY DEF PurgeHandled
<1> HIDE DEF first
<1>4. Len(rx) \in 0..Len(rx)
  BY <1>1
<1> QED
  BY <1>1, <1>2, <1>3, <1>4, SubSeqIs DEF QueueOK

----------------------------------------------------------------------------
(* What the handlers do with what came.                                    *)

LEMMA NextHandshakeOK ==
    ASSUME NEW w, NEW e, EngineOK(e, w), NEW wanted
    PROVE  LET n == NextHandshake(e, wanted)
           IN  \/ n.err # "none" /\ Becomes(e, n, w)
               \/ n.err = e.err /\ Becomes(Hashed(e, wanted, Pending(e)[1].rec.mseq), n, w)
<1> DEFINE hs == Pending(e)
           run == {n \in DOMAIN hs : \A i \in 1..n : hs[i].rec.type = wanted}
           joined == {hs[n].rec : n \in run}
           rx == e.rx
           done == [i \in DOMAIN rx |-> [j \in DOMAIN rx[i] |->
                      rx[i][j].done \/ (rx[i][j].clear /\ rx[i][j].rec \in joined)]]
           taken == [e EXCEPT !.rx = Marked(rx, done)]
           next == [taken EXCEPT !.peerSeq = hs[1].rec.mseq + 1,
                                 !.transcript = Append(@, <<wanted, hs[1].rec.mseq>>)]
<1>1. QueueOK(Marked(rx, done), w.peer, w.heard)
  <2>1. QueueOK(rx, w.peer, w.heard)
    BY DEF EngineOK
  <2> HIDE DEF rx, done
  <2> QED
    BY <2>1, MarkedOK
<1>2. MarkDone(rx, LAMBDA x : x.clear /\ x.rec \in joined) = Marked(rx, done)
  <2> HIDE DEF rx, joined
  <2> QED
    BY DEF MarkDone, Marked
<1>3. NextHandshake(e, wanted) \in {Fail(taken, "ParseIncomplete"), next}
  BY <1>2 DEF NextHandshake
<1> DEFINE new == Marked(rx, done)
<1>4. taken = [e EXCEPT !.rx = new]
  OBVIOUS
<1> HIDE DEF done, new
<1>5. Becomes(e, Fail(taken, "ParseIncomplete"), w)
      /\ Fail(taken, "ParseIncomplete").err # "none"
  BY <1>1, <1>4 DEF Becomes, Keeps, EngineOK, Fields, Fail
<1>6. Becomes(Hashed(e, wanted, hs[1].rec.mseq), next, w) /\ next.err = e.err
  <2> HIDE DEF hs
  <2> QED
    BY <1>1, <1>4 DEF Becomes, Keeps, EngineOK, Fields, Hashed
<1> HIDE DEF taken, next
<1> QED
  BY <1>3, <1>5, <1>6

LEMMA DropPendingCCSOK ==
    ASSUME NEW w, NEW e, EngineOK(e, w)
    PROVE  Becomes(e, DropPendingCCS(e), w)
<1> DEFINE rx == e.rx
           done == [i \in DOMAIN rx |-> [j \in DOMAIN rx[i] |->
                      rx[i][j].done \/ (rx[i][j].rec.ct = "ccs")]]
<1>1. QueueOK(Marked(rx, done), w.peer, w.heard)
  <2>1. QueueOK(rx, w.peer, w.heard)
    BY DEF EngineOK
  <2> HIDE DEF rx, done
  <2> QED
    BY <2>1, MarkedOK
<1>2. MarkDone(rx, LAMBDA x : x.rec.ct = "ccs") = Marked(rx, done)
  <2> HIDE DEF rx
  <2> QED
    BY DEF MarkDone, Marked
<1>3. DropPendingCCS(e) = [e EXCEPT !.rx = Marked(rx, done)]
  BY <1>2 DEF DropPendingCCS
<1> HIDE DEF rx, done
<1> QED
  BY <1>1, <1>3 DEF Becomes, Keeps, EngineOK, Fields

LEMMA EnablePeerEncryptionOK ==
    ASSUME NEW w, NEW e, EngineOK(e, w)
    PROVE  Becomes(e, EnablePeerEncryption(e), w)
<1> DEFINE early == {i \in DOMAIN e.rx : \E x \in ToSet(e.rx[i]) : x.rec.epoch = 1}
           at == CHOOSE i \in early : \A j \in early : i <= j
           all == Flat(SubSeq(e.rx, at, Len(e.rx)))
           ss == [i \in DOMAIN all |-> IF ~all[i].done THEN <<all[i]>> ELSE <<>>]
           open == FlattenSeq(ss)
           n == Len(open)
           on == [e EXCEPT !.peerEnc = TRUE]
           base == [on EXCEPT !.rx = SubSeq(@, 1, at - 1)]
<1>1. Becomes(e, on, w) /\ on.rx = e.rx
  BY DEF Becomes, Keeps, EngineOK, Fields
<1>2. EnablePeerEncryption(e) = IF early = {} THEN on ELSE ParsedEarly(base, open)
  BY DEF EnablePeerEncryption, Unhandled, ParsedEarly
<1>3. Len(e.rx) \in Nat /\ DOMAIN e.rx = 1..Len(e.rx) /\ IsSeq(e.rx)
  BY SeqHas DEF EngineOK, QueueOK
<1>4. CASE early = {}
  BY <1>1, <1>2, <1>4
<1>5. CASE early # {}
  <2>1. at \in 1..Len(e.rx)
    <3>1. early \subseteq Nat /\ early \subseteq 1..Len(e.rx)
      BY <1>3
    <3>2. \E m \in early : \A j \in early : m <= j
      <4> HIDE DEF early
      <4> QED
        BY <1>5, <3>1, Least
    <3> HIDE DEF early
    <3> QED
      BY <3>1, <3>2
  <2> HIDE DEF at
  <2>2. 1 \in 1..(Len(e.rx) + 1) /\ at - 1 \in 0..Len(e.rx)
        /\ at \in 1..(Len(e.rx) + 1) /\ Len(e.rx) \in 0..Len(e.rx)
    BY <1>3, <2>1
  <2>3. QueueOK(SubSeq(e.rx, 1, at - 1), w.peer, w.heard)
    BY <1>3, <2>2, SubSeqIs DEF EngineOK, QueueOK
  <2>4. QueueOK(SubSeq(e.rx, at, Len(e.rx)), w.peer, w.heard)
    BY <1>3, <2>2, SubSeqIs DEF EngineOK, QueueOK
  <2>5. ItemsOK(all, w.peer, w.heard)
    BY <2>4, FlatOK
  <2> HIDE DEF all
  <2>6. ItemsOK(open, w.peer, w.heard)
    <3>1. Len(all) \in Nat /\ DOMAIN all = 1..Len(all)
          /\ \A i \in DOMAIN all : all[i] \in ToSet(all)
      BY <2>5, SeqHas DEF ItemsOK
    <3>2. \A i \in DOMAIN all : ss[i] = <<>> \/ \E x \in ToSet(all) : ss[i] = <<x>>
      BY <3>1
    <3>3. ss = [i \in DOMAIN all |-> ss[i]]
      OBVIOUS
    <3> HIDE DEF ss
    <3>4. IsSeq(open) /\ ToSet(open) \subseteq ToSet(all)
      BY <3>1, <3>2, <3>3, FilterIs
    <3> QED
      BY <2>5, <3>4 DEF ItemsOK
  <2>7. Becomes(e, base, w)
    BY <1>1, <2>3 DEF Becomes, Keeps, EngineOK, Fields
  <2> HIDE DEF open
  <2>8. n \in Nat /\ DOMAIN open = 1..n /\ \A i \in 1..n : ItemOK(open[i], w.peer, w.heard)
    BY <2>6, SeqHas DEF ItemsOK
  <2> HIDE DEF base, n, on
  <2>9. PICK g : Run("early", <<>>, base, open, n, g) /\ g[n] = ParsedEarly(base, open)
    BY <2>8, EarlyFold
  <2> DEFINE T == {k \in 0..n : Becomes(e, g[k], w)}
  <2>10. 0 \in T
    BY <2>7, <2>8, <2>9 DEF Run
  <2>11. ASSUME NEW k \in 0..(n - 1), k \in T PROVE k + 1 \in T
    <3>1. k + 1 \in 1..n /\ Becomes(e, g[k], w)
      BY <2>8, <2>11
    <3> DEFINE dg == <<open[k + 1].rec>>
    <3>2. g[k + 1] = IF g[k].err = "none" THEN ParsePacket(g[k], dg) ELSE g[k]
      BY <2>9 DEF Run, FoldStep
    <3>3. RecordsOK(dg, w.peer, w.heard)
      BY <2>8, <3>1, OneIs DEF RecordsOK, ItemOK
    <3> HIDE DEF dg
    <3>4. Becomes(g[k], ParsePacket(g[k], dg), w)
      BY <3>1, <3>3, ParsePacketOK DEF Becomes
    <3> QED
      BY <3>1, <3>2, <3>4 DEF Becomes, Keeps
  <2>12. n \in T
    <3> HIDE DEF T
    <3> QED
      BY <2>8, <2>10, <2>11, InductTo
  <2> QED
    BY <1>2, <1>5, <2>9, <2>12
<1> QED
  BY <1>4, <1>5

\* What the application gets as data came from the peer's application.
LEMMA ReadableOK ==
    ASSUME NEW w, NEW e, EngineOK(e, w)
    PROVE  /\ IsSeq(Readable(e))
           /\ \A x \in ToSet(Readable(e)) : x.rec.val.args[1] \in w.peer
<1> DEFINE all == Flat(e.rx)
           ss == [i \in DOMAIN all |->
                     IF all[i].rec.ct = "data" /\ ~all[i].done THEN <<all[i]>> ELSE <<>>]
           S == {x \in ToSet(all) : x.rec.ct = "data"}
<1>1. ItemsOK(all, w.peer, w.heard)
  BY FlatOK DEF EngineOK
<1>2. \A x \in S : x.rec.val.args[1] \in w.peer
  <2> HIDE DEF all
  <2> QED
    BY <1>1 DEF ItemsOK, ItemOK, RecordOK
<1>3. IsSeq(FlattenSeq(ss)) /\ ToSet(FlattenSeq(ss)) \subseteq S
  <2> HIDE DEF all
  <2>1. Len(all) \in Nat /\ DOMAIN all = 1..Len(all)
        /\ \A i \in DOMAIN all : all[i] \in ToSet(all)
    BY <1>1, SeqHas DEF ItemsOK
  <2>2. \A i \in DOMAIN all : ss[i] = <<>> \/ \E x \in S : ss[i] = <<x>>
    BY <2>1
  <2>3. ss = [i \in DOMAIN all |-> ss[i]]
    OBVIOUS
  <2> HIDE DEF ss, S
  <2> QED
    BY <2>1, <2>2, <2>3, FilterIs
<1>4. Readable(e) = IF ~e.release THEN <<>> ELSE FlattenSeq(ss)
  BY DEF Readable, ReadableData
<1> HIDE DEF ss, S
<1>5. CASE e.release
  BY <1>2, <1>3, <1>4, <1>5
<1>6. CASE ~e.release
  <2>1. IsSeq(Readable(e)) /\ ToSet(Readable(e)) = {}
    BY <1>4, <1>6, EmptyIs
  <2> QED
    BY <2>1
<1> QED
  BY <1>5, <1>6

\* The caller hears of all events, of data and at the end of the close_notify.
LEMMA DrainedOK ==
    ASSUME NEW w, NEW e, EngineOK(e, w)
    PROVE  LET f == Drained(e)
           IN  /\ EngineOK(f, w)
               /\ f.tx = <<>> /\ f.saved = e.saved /\ f.err = e.err
               /\ f.state = e.state /\ f.release = e.release /\ SameKeys(e, f)
               /\ ToSet(f.events) = {}
               /\ ToSet(e.told) \cup ToSet(e.events) \subseteq ToSet(f.told)
               /\ ToSet(f.told) \subseteq
                     ToSet(e.told) \cup ToSet(e.events) \cup w.peer \cup {"CloseNotify"}
<1> DEFINE readable == Readable(e)
           data == [i \in DOMAIN readable |-> readable[i].rec.val.args[1]]
           closed == IF e.closeSeen /\ ~e.closeTold THEN <<"CloseNotify">> ELSE <<>>
           told == e.told \o e.events \o data \o closed
           rx == e.rx
           done == [i \in DOMAIN rx |-> [j \in DOMAIN rx[i] |->
                      rx[i][j].done \/ (rx[i][j].rec.ct = "data")]]
           left == PurgeHandled(IF e.release THEN Marked(rx, done) ELSE rx)
           polled == [e EXCEPT !.rx = left, !.tx = <<>>, !.closeTold = @ \/ e.closeSeen]
<1>1. IsSeq(data) /\ ToSet(data) \subseteq w.peer
  <2>1. IsSeq(readable) /\ \A x \in ToSet(readable) : x.rec.val.args[1] \in w.peer
    BY ReadableOK
  <2> HIDE DEF readable
  <2>2. Len(readable) \in Nat /\ DOMAIN readable = 1..Len(readable)
        /\ \A i \in DOMAIN readable : readable[i] \in ToSet(readable)
    BY <2>1, SeqHas
  <2>3. data = [i \in 1..Len(readable) |-> data[i]]
    BY <2>2
  <2>4. \A i \in 1..Len(readable) : data[i] \in w.peer
    BY <2>1, <2>2
  <2> HIDE DEF data
  <2>5. IsSeq(data) /\ ToSet(data) = {data[i] : i \in 1..Len(readable)}
    BY <2>2, <2>3, FunctionIs
  <2> QED
    BY <2>4, <2>5
<1>2. IsSeq(closed) /\ ToSet(closed) \subseteq {"CloseNotify"}
  <2>1. CASE e.closeSeen /\ ~e.closeTold
    BY <2>1, OneIs
  <2>2. CASE ~(e.closeSeen /\ ~e.closeTold)
    <3>1. IsSeq(closed) /\ ToSet(closed) = {}
      BY <2>2, EmptyIs
    <3> QED
      BY <3>1
  <2> QED
    BY <2>1, <2>2
<1>3. IsSeq(e.told) /\ IsSeq(e.events)
  BY DEF EngineOK
<1> HIDE DEF data, closed
<1>4. /\ IsSeq(told)
      /\ ToSet(told) = ToSet(e.told) \cup ToSet(e.events) \cup ToSet(data) \cup ToSet(closed)
  <2> DEFINE a == e.told
             b == e.events
             ab == a \o b
             abc == ab \o data
  <2>1. IsSeq(ab) /\ ToSet(ab) = ToSet(a) \cup ToSet(b)
    <3> HIDE DEF a, b
    <3>1. IsSeq(a) /\ IsSeq(b)
      BY <1>3 DEF a, b
    <3> QED
      BY <3>1, ConcatIs
  <2> HIDE DEF ab
  <2>2. IsSeq(abc) /\ ToSet(abc) = ToSet(ab) \cup ToSet(data)
    BY <1>1, <2>1, ConcatIs
  <2> HIDE DEF abc
  <2>3. IsSeq(abc \o closed) /\ ToSet(abc \o closed) = ToSet(abc) \cup ToSet(closed)
    BY <1>2, <2>2, ConcatIs
  <2>4. told = abc \o closed
    BY DEF abc, ab, a, b
  <2> HIDE DEF told
  <2> QED
    BY <2>1, <2>2, <2>3, <2>4
<1>5. QueueOK(left, w.peer, w.heard)
  <2>1. QueueOK(rx, w.peer, w.heard)
    BY DEF EngineOK
  <2> HIDE DEF rx, done
  <2> QED
    BY <2>1, MarkedOK, PurgedOK
<1>6. Polled(e) = polled
  <2>1. MarkDone(rx, LAMBDA x : x.rec.ct = "data") = Marked(rx, done)
    <3> HIDE DEF rx
    <3> QED
      BY DEF MarkDone, Marked
  <2> QED
    BY <2>1 DEF Polled
<1> HIDE DEF left, told
<1>7. Drained(e) = [polled EXCEPT !.told = told, !.events = <<>>]
  <2>1. polled.told = e.told
    OBVIOUS
  <2> HIDE DEF polled
  <2> QED
    BY <1>6, <2>1 DEF Drained, told, data, closed
<1>8. DatagramsOK(<<>>, w.own, w.said)
  BY EmptyIs DEF DatagramsOK
<1>9. EngineOK([polled EXCEPT !.told = told, !.events = <<>>], w)
  BY <1>4, <1>5, <1>8, EmptyIs DEF EngineOK, Fields
<1>10. /\ [polled EXCEPT !.told = told, !.events = <<>>].told = told
       /\ [polled EXCEPT !.told = told, !.events = <<>>].events = <<>>
       /\ [polled EXCEPT !.told = told, !.events = <<>>].tx = <<>>
       /\ [polled EXCEPT !.told = told, !.events = <<>>].saved = e.saved
       /\ [polled EXCEPT !.told = told, !.events = <<>>].err = e.err
       /\ [polled EXCEPT !.told = told, !.events = <<>>].state = e.state
       /\ [polled EXCEPT !.told = told, !.events = <<>>].release = e.release
       /\ SameKeys(e, [polled EXCEPT !.told = told, !.events = <<>>])
  BY DEF EngineOK, Fields, SameKeys
<1> QED
  BY <1>1, <1>2, <1>4, <1>7, <1>9, <1>10, EmptyIs

\* What leaves the state of the connection alone but may report events.
Steady(e, f) ==
    /\ f.state = e.state /\ f.release = e.release /\ f.told = e.told
    /\ "Connected" \in ToSet(f.events) <=> "Connected" \in ToSet(e.events)

LEMMA SendQueuedOK ==
    ASSUME NEW w, NEW e, EngineOK(e, w)
    PROVE  EngineOK(SendQueued(e), w) /\ Steady(e, SendQueued(e)) /\ SameKeys(e, SendQueued(e))
<1> DEFINE s == e.queued
           n == Len(s)
           base == [e EXCEPT !.queued = <<>>]
<1>1. EngineOK(base, w) /\ Steady(e, base) /\ SameKeys(e, base)
  <2>1. ToSet(<<>>) \subseteq w.own /\ IsSeq(<<>>)
    <3>1. ToSet(<<>>) = {} /\ IsSeq(<<>>)
      BY EmptyIs
    <3> QED
      BY <3>1
  <2> QED
    BY <2>1 DEF EngineOK, Fields, Steady, SameKeys
<1>2. n \in Nat /\ DOMAIN s = 1..n /\ \A i \in 1..n : s[i] \in w.own
  BY SeqHas DEF EngineOK
<1>3. SendQueued(e) = SentAll(base, s)
  BY DEF SendQueued, SentAll
<1> HIDE DEF s, n, base
<1>4. PICK g : Run("send", <<>>, base, s, n, g) /\ g[n] = SentAll(base, s)
  BY <1>2, SendFold
<1> DEFINE T == {k \in 0..n : Becomes(base, g[k], w)}
<1>5. 0 \in T
  BY <1>1, <1>2, <1>4 DEF Run, Becomes, Keeps
<1>6. ASSUME NEW k \in 0..(n - 1), k \in T PROVE k + 1 \in T
  <2>1. k + 1 \in 1..n /\ Becomes(base, g[k], w)
    BY <1>2, <1>6
  <2>2. g[k + 1] = CreateRecord(g[k], AppData(s[k + 1]), FALSE)
    BY <1>4 DEF Run, FoldStep
  <2>3. RecordOK(AppData(s[k + 1]), w.own, w.said)
    BY <1>2, <2>1 DEF RecordOK, AppData, Rec, Body
  <2>4. Becomes(g[k], g[k + 1], w)
    BY <2>1, <2>2, <2>3, CreateRecordOK DEF Becomes
  <2> QED
    BY <2>1, <2>4 DEF Becomes, Keeps
<1>7. n \in T
  <2> HIDE DEF T
  <2> QED
    BY <1>2, <1>5, <1>6, InductTo
<1> QED
  BY <1>1, <1>3, <1>4, <1>7 DEF Becomes, Keeps, Steady, SameKeys

LEMMA AnswerCloseOK ==
    ASSUME NEW w, NEW e, EngineOK(e, w)
    PROVE  /\ EngineOK(AnswerClose(e), w) /\ Steady(e, AnswerClose(e))
           /\ SameKeys(e, AnswerClose(e))
<1> DEFINE f == DiscardPendingWrites(e)
<1>1. Becomes(e, f, w)
  <2>1. DatagramsOK(<<>>, w.own, w.said)
    BY EmptyIs DEF DatagramsOK
  <2> QED
    BY <2>1 DEF DiscardPendingWrites, Becomes, Keeps, EngineOK, Fields
<1>2. RecordOK(CloseNotify, w.own, w.said)
  BY DEF RecordOK, CloseNotify, Rec
<1> HIDE DEF f
<1>3. Becomes(f, CreateRecord(f, CloseNotify, FALSE), w)
  BY <1>1, <1>2, CreateRecordOK DEF Becomes
<1>4. AnswerClose(e) = CreateRecord(f, CloseNotify, FALSE)
  BY DEF AnswerClose, f
<1> QED
  BY <1>1, <1>3, <1>4 DEF Becomes, Keeps, Steady, SameKeys

LEMMA FlightBeginOK ==
    ASSUME NEW w, NEW e, EngineOK(e, w)
    PROVE  Becomes(e, FlightBegin(e), w)
<1>1. RecordsOK(<<>>, w.own, w.said)
  BY EmptyIs DEF RecordsOK
<1> QED
  BY <1>1 DEF FlightBegin, Becomes, Keeps, EngineOK, Fields

LEMMA AbortOK ==
    ASSUME NEW w, NEW e, EngineOK(e, w)
    PROVE  Becomes(e, Abort(e), w) /\ Abort(e).tx = <<>> /\ Abort(e).saved = <<>>
<1>1. RecordsOK(<<>>, w.own, w.said) /\ DatagramsOK(<<>>, w.own, w.said)
  BY EmptyIs DEF RecordsOK, DatagramsOK
<1> QED
  BY <1>1 DEF Abort, FlightStopResendTimers, Becomes, Keeps, EngineOK, Fields

LEMMA FinishOK ==
    ASSUME NEW w, NEW e, EngineOK(e, w)
    PROVE  LET f == Finish(e)
           IN  /\ EngineOK(f, w)
               /\ f.err = e.err /\ f.state = e.state /\ f.told = e.told /\ f.release
               /\ SameKeys(e, f) /\ "Connected" \in ToSet(f.events)
<1> DEFINE events == e.events \o <<"Connected", "KeyingMaterial">>
<1>1. IsSeq(events) /\ "Connected" \in ToSet(events)
  <2> DEFINE two == <<"Connected", "KeyingMaterial">>
  <2>1. IsSeq(two) /\ "Connected" \in ToSet(two)
    BY DEF IsSeq, ToSet
  <2>2. IsSeq(e.events)
    BY DEF EngineOK
  <2> HIDE DEF two
  <2>3. IsSeq(e.events \o two) /\ "Connected" \in ToSet(e.events \o two)
    BY <2>1, <2>2, ConcatIs
  <2> QED
    BY <2>3 DEF two
<1>2. Finish(e) = [e EXCEPT !.flightTimer = "disabled", !.connectTimer = "disabled",
                            !.events = events, !.release = TRUE]
  BY DEF Finish, FlightStopResendTimers, ReleaseApplicationData, EngineOK, Fields
<1> HIDE DEF events
<1> QED
  BY <1>1, <1>2 DEF EngineOK, Fields, SameKeys

\* Another event than the connection.
LEMMA EventOK ==
    ASSUME NEW w, NEW e, EngineOK(e, w)
    PROVE  LET f == [e EXCEPT !.events = Append(@, "PeerCert")]
           IN  EngineOK(f, w) /\ Steady(e, f) /\ SameKeys(e, f) /\ f.err = e.err
<1> DEFINE events == Append(e.events, "PeerCert")
<1>1. IsSeq(events) /\ ToSet(events) = ToSet(e.events) \cup {"PeerCert"}
  BY AppendIs DEF EngineOK
<1> HIDE DEF events
<1>2. LET f == [e EXCEPT !.events = events]
      IN  EngineOK(f, w) /\ Steady(e, f) /\ SameKeys(e, f) /\ f.err = e.err
  BY <1>1 DEF EngineOK, Fields, Steady, SameKeys
<1> QED
  BY <1>2 DEF events

\* A newly made endpoint.
LEMMA NewEndpointOK ==
    ASSUME NEW w, NEW p
    PROVE  LET e == NewEndpoint(p)
           IN  /\ EngineOK(e, w)
               /\ e.err = "none" /\ ToSet(e.events) = {} /\ ToSet(e.told) = {}
               /\ e.suite = "none" /\ e.group = "none" /\ e.peerCert = FALSE
               /\ e.transcript = <<>>
               /\ e.state = (IF p = "client" THEN "SendClientHello" ELSE "AwaitClientHello")
<1> DEFINE e == NewEndpoint(p)
<1>1. Fields \subseteq DOMAIN e
  BY DEF NewEndpoint, Joined, NewEngine, Fields
<1>2. /\ e.err = "none" /\ e.tx = <<>> /\ e.saved = <<>> /\ e.rx = <<>>
      /\ e.queued = <<>> /\ e.accepted = <<>> /\ e.events = <<>> /\ e.told = <<>>
      /\ e.suite = "none" /\ e.group = "none" /\ e.peerCert = FALSE
      /\ e.transcript = <<>>
      /\ e.state = (IF p = "client" THEN "SendClientHello" ELSE "AwaitClientHello")
  BY DEF NewEndpoint, Joined, NewEngine
<1>3. /\ DatagramsOK(<<>>, w.own, w.said) /\ RecordsOK(<<>>, w.own, w.said)
      /\ QueueOK(<<>>, w.peer, w.heard) /\ IsSeq(<<>>) /\ ToSet(<<>>) = {}
  BY EmptyIs DEF DatagramsOK, RecordsOK, QueueOK
<1> HIDE DEF e
<1>4. EngineOK(e, w)
  BY <1>1, <1>2, <1>3 DEF EngineOK
<1> QED
  BY <1>2, <1>3, <1>4 DEF e

----------------------------------------------------------------------------
(* The inductive invariant. What the server says of the suite, of the      *)
(* group and, in its Finished, of the whole handshake is what it holds     *)
(* itself and never changes again. It makes its Finished when it takes the *)
(* connection for made, and the caller hears of that before it gets the    *)
(* datagrams.                                                              *)

\* The endpoint has told of the connection, or is about to.
Told(e) == "Connected" \in ToSet(e.told)
Made(e) == Told(e) \/ "Connected" \in ToSet(e.events)

\* The server has chosen the suite, and the group.
SuiteChosen(s) == s.state # "AwaitClientHello"
GroupChosen(s) ==
    \/ s.err # "none"
    \/ s.state \notin {"AwaitClientHello", "SendServerHello", "SendCertificate",
                       "SendServerKeyExchange"}

\* What the messages of the server claim; with a PSK there is no group.
Claims(s, finished) ==
    [t \in {"ServerHello", "Finished"} \cup
           (IF IsPsk(s.suite) THEN {} ELSE {"ServerKeyExchange"}) |->
        CASE t = "ServerHello" -> IF SuiteChosen(s) THEN {s.suite} ELSE {}
          [] t = "ServerKeyExchange" -> IF GroupChosen(s) THEN {s.group} ELSE {}
          [] t = "Finished" -> IF finished THEN {GenerateVerifyData(s, "server")} ELSE {}]

NoClaims == [t \in {} |-> {}]

\* What the two have to do with each other, as the server is.
World(p, s) ==
    [own |-> ToSet(DATA[p]), said |-> IF p = "server" THEN Claims(s, Made(s)) ELSE NoClaims,
     peer |-> ToSet(DATA[Peer(p)]),
     heard |-> IF p = "client" THEN Claims(s, Told(s)) ELSE NoClaims]

\* The handshake released the data before the application can use the connection,
\* an endpoint that was closed before has nothing to send or to repeat, and the
\* handshake is over with the connection.
Phase(e) ==
    /\ e.err = "none" /\ e.state = "AwaitApplicationData" => e.release
    /\ e.state = "Closed" /\ ~e.release => e.tx = <<>> /\ e.saved = <<>>
    /\ Made(e) /\ e.err = "none" => e.state \in {"AwaitApplicationData", "Closed"}
    /\ IsSeq(e.transcript)

\* The keys are drawn from the handshake up to the only ClientKeyExchange.
NoKeyExchange(t) == \A i \in DOMAIN t : t[i][1] # "ClientKeyExchange"

SessionOK(e) ==
    \E t : /\ IsSeq(t) /\ NoKeyExchange(t)
           /\ \E m : e.session = Append(t, <<"ClientKeyExchange", m>>)

KeysOK(e) == SessionOK(e) /\ e.keys = DeriveExtendedMasterSecret(e)

\* The server in a state of the handshake, and with the connection; "required" is
\* whether it asks for a certificate.
CertNeeded(s, required) == ~IsPsk(s.suite) /\ required

ServerRules(s, state, required) ==
    /\ state = "AwaitClientHello" => s.suite = "none"
    /\ IsPsk(s.suite) \/ state \in {"AwaitClientHello", "SendServerHello", "SendCertificate",
                                    "SendServerKeyExchange"} => s.group = "none"
    /\ state \in {"AwaitClientHello", "SendServerHello", "SendCertificate",
                  "SendServerKeyExchange", "SendCertificateRequest", "SendServerHelloDone"} =>
          s.peerCert = FALSE
    /\ state = "AwaitCertificate" => CertNeeded(s, required)
    /\ state \in {"AwaitClientHello", "SendServerHello", "SendCertificate",
                  "SendServerKeyExchange", "SendCertificateRequest", "SendServerHelloDone",
                  "AwaitCertificate", "AwaitClientKeyExchange"} => NoKeyExchange(s.transcript)
    /\ state \in {"AwaitClientKeyExchange", "AwaitCertificateVerify", "AwaitChangeCipherSpec",
                  "AwaitFinished", "SendChangeCipherSpec", "SendFinished"} =>
          s.peerCert = CertNeeded(s, required)
    /\ state \in {"AwaitCertificateVerify", "AwaitChangeCipherSpec", "AwaitFinished",
                  "SendChangeCipherSpec", "SendFinished"} => KeysOK(s)

ServerDone(s, required) ==
    s.peerCert = CertNeeded(s, required) /\ KeysOK(s) /\ (IsPsk(s.suite) => s.group = "none")

ServerOK(s, required) ==
    /\ s.err = "none" => ServerRules(s, s.state, required)
    /\ Made(s) => ServerDone(s, required)

\* The client in a state of the handshake, and with the connection, as it heard.
GroupHeard(c, heard) ==
    IF IsPsk(c.suite) THEN c.group = "none" ELSE c.group \in heard["ServerKeyExchange"]

ClientRules(c, state, heard) ==
    /\ state \in {"SendClientHello", "AwaitHelloVerifyRequest", "AwaitServerHello"} =>
          c.peerCert = FALSE /\ c.group = "none"
    /\ state = "AwaitCertificate" => ~IsPsk(c.suite) /\ c.peerCert = FALSE /\ c.group = "none"
    /\ state = "AwaitServerKeyExchange" => c.peerCert = ~IsPsk(c.suite) /\ c.group = "none"
    /\ state \in {"AwaitCertificate", "AwaitServerKeyExchange", "AwaitCertificateRequest",
                  "AwaitServerHelloDone", "SendCertificate", "SendClientKeyExchange",
                  "SendCertificateVerify", "SendChangeCipherSpec", "SendFinished",
                  "AwaitChangeCipherSpec", "AwaitNewSessionTicket", "AwaitFinished"} =>
          c.suite \in heard["ServerHello"]
    /\ state \in {"AwaitCertificateRequest", "AwaitServerHelloDone", "SendCertificate",
                  "SendClientKeyExchange", "SendCertificateVerify", "SendChangeCipherSpec",
                  "SendFinished", "AwaitChangeCipherSpec", "AwaitNewSessionTicket",
                  "AwaitFinished"} =>
          c.peerCert = ~IsPsk(c.suite) /\ GroupHeard(c, heard)
    /\ state \in {"SendClientHello", "AwaitHelloVerifyRequest", "AwaitServerHello",
                  "AwaitCertificate", "AwaitServerKeyExchange", "AwaitCertificateRequest",
                  "AwaitServerHelloDone", "SendCertificate", "SendClientKeyExchange"} =>
          NoKeyExchange(c.transcript)
    /\ state \in {"SendCertificateVerify", "SendChangeCipherSpec"} => SessionOK(c)
    /\ state \in {"SendFinished", "AwaitChangeCipherSpec", "AwaitNewSessionTicket",
                  "AwaitFinished"} => KeysOK(c)

ClientDone(c, heard) ==
    /\ c.suite \in heard["ServerHello"]
    /\ c.peerCert = ~IsPsk(c.suite) /\ GroupHeard(c, heard)
    /\ KeysOK(c)
    /\ GenerateVerifyData(c, "server") \in heard["Finished"]

ClientOK(c, heard) ==
    /\ c.err = "none" => ClientRules(c, c.state, heard)
    /\ Made(c) => ClientDone(c, heard)

MessageOK(m, server) ==
    /\ m.to \in P
    /\ RecordsOK(m.records, World(m.to, server).peer, World(m.to, server).heard)

Heard == World("client", ep["server"]).heard
Required == cfg.server.requireCert

IInv ==
    /\ ep = [p \in P |-> ep[p]]
    /\ busy \in P \cup {"nobody"}
    /\ busy \in P => ep[busy].err = "none"
    /\ \A p \in P : EngineOK(ep[p], World(p, ep["server"])) /\ Phase(ep[p])
    /\ \A m \in net : MessageOK(m, ep["server"])
    /\ ServerOK(ep["server"], Required)
    /\ ClientOK(ep["client"], Heard)

----------------------------------------------------------------------------
(* The claims grow as the server goes on.                                  *)

LEMMA WorldIs ==
    ASSUME NEW p, NEW s
    PROVE  /\ World(p, s).own = ToSet(DATA[p]) /\ World(p, s).peer = ToSet(DATA[Peer(p)])
           /\ World(p, s).said = IF p = "server" THEN Claims(s, Made(s)) ELSE NoClaims
           /\ World(p, s).heard = IF p = "client" THEN Claims(s, Told(s)) ELSE NoClaims
  BY DEF World

LEMMA ClaimsAre ==
    ASSUME NEW s, NEW finished
    PROVE  LET c == Claims(s, finished)
           IN  /\ "ServerHello" \in DOMAIN c /\ "Finished" \in DOMAIN c
               /\ "ServerKeyExchange" \in DOMAIN c <=> ~IsPsk(s.suite)
               /\ DOMAIN c \subseteq {"ServerHello", "ServerKeyExchange", "Finished"}
               /\ c["ServerHello"] = IF SuiteChosen(s) THEN {s.suite} ELSE {}
               /\ ~IsPsk(s.suite) =>
                     c["ServerKeyExchange"] = IF GroupChosen(s) THEN {s.group} ELSE {}
               /\ c["Finished"] = IF finished THEN {GenerateVerifyData(s, "server")} ELSE {}
<1> DEFINE D == {"ServerHello", "Finished"} \cup
                (IF IsPsk(s.suite) THEN {} ELSE {"ServerKeyExchange"})
           Value(t) == CASE t = "ServerHello" -> IF SuiteChosen(s) THEN {s.suite} ELSE {}
                         [] t = "ServerKeyExchange" -> IF GroupChosen(s) THEN {s.group} ELSE {}
                         [] t = "Finished" ->
                               IF finished THEN {GenerateVerifyData(s, "server")} ELSE {}
<1>1. /\ Value("ServerHello") = IF SuiteChosen(s) THEN {s.suite} ELSE {}
      /\ Value("ServerKeyExchange") = IF GroupChosen(s) THEN {s.group} ELSE {}
      /\ Value("Finished") = IF finished THEN {GenerateVerifyData(s, "server")} ELSE {}
  OBVIOUS
<1>2. Claims(s, finished) = [t \in D |-> Value(t)]
  BY DEF Claims
<1>3. /\ "ServerHello" \in D /\ "Finished" \in D /\ ("ServerKeyExchange" \in D <=> ~IsPsk(s.suite))
      /\ D \subseteq {"ServerHello", "ServerKeyExchange", "Finished"}
  OBVIOUS
<1> HIDE DEF Value, D
<1> QED
  BY <1>1, <1>2, <1>3

\* Every claim is kept.
Grows(a, b) == DOMAIN b \subseteq DOMAIN a /\ \A t \in DOMAIN b : a[t] \subseteq b[t]

\* The server from r to s.
ServerGrows(r, s) ==
    /\ SuiteChosen(r) => SuiteChosen(s) /\ s.suite = r.suite
    /\ IsPsk(r.suite) => IsPsk(s.suite)
    /\ GroupChosen(r) => GroupChosen(s) /\ s.group = r.group
    /\ (Told(r) => Told(s)) /\ (Made(r) => Made(s))
    /\ Made(r) => GenerateVerifyData(s, "server") = GenerateVerifyData(r, "server")

LEMMA ClaimsGrow ==
    ASSUME NEW r, NEW s, ServerGrows(r, s), NEW before, NEW after, before => after /\ Made(r)
    PROVE  Grows(Claims(r, before), Claims(s, after))
<1> DEFINE a == Claims(r, before)
           b == Claims(s, after)
<1>1. /\ "ServerHello" \in DOMAIN a /\ "Finished" \in DOMAIN a
      /\ "ServerKeyExchange" \in DOMAIN a <=> ~IsPsk(r.suite)
      /\ a["ServerHello"] = IF SuiteChosen(r) THEN {r.suite} ELSE {}
      /\ ~IsPsk(r.suite) => a["ServerKeyExchange"] = IF GroupChosen(r) THEN {r.group} ELSE {}
      /\ a["Finished"] = IF before THEN {GenerateVerifyData(r, "server")} ELSE {}
  BY ClaimsAre
<1>2. /\ DOMAIN b \subseteq {"ServerHello", "ServerKeyExchange", "Finished"}
      /\ "ServerKeyExchange" \in DOMAIN b <=> ~IsPsk(s.suite)
      /\ b["ServerHello"] = IF SuiteChosen(s) THEN {s.suite} ELSE {}
      /\ ~IsPsk(s.suite) => b["ServerKeyExchange"] = IF GroupChosen(s) THEN {s.group} ELSE {}
      /\ b["Finished"] = IF after THEN {GenerateVerifyData(s, "server")} ELSE {}
  BY ClaimsAre
<1> HIDE DEF a, b
<1>3. DOMAIN b \subseteq DOMAIN a
  BY <1>1, <1>2 DEF ServerGrows
<1>4. a["ServerHello"] \subseteq b["ServerHello"]
  BY <1>1, <1>2 DEF ServerGrows
<1>5. a["Finished"] \subseteq b["Finished"]
  BY <1>1, <1>2 DEF ServerGrows
<1>6. "ServerKeyExchange" \in DOMAIN b => a["ServerKeyExchange"] \subseteq b["ServerKeyExchange"]
  BY <1>1, <1>2 DEF ServerGrows
<1>7. ASSUME NEW t \in DOMAIN b PROVE a[t] \subseteq b[t]
  BY <1>2, <1>4, <1>5, <1>6
<1> QED
  BY <1>3, <1>7 DEF Grows, a, b

LEMMA WorldGrows ==
    ASSUME NEW p, NEW r, NEW s, ServerGrows(r, s)
    PROVE  /\ World(p, s).own = World(p, r).own /\ World(p, s).peer = World(p, r).peer
           /\ Grows(World(p, r).said, World(p, s).said)
           /\ Grows(World(p, r).heard, World(p, s).heard)
<1>1. (Made(r) => Made(s) /\ Made(r)) /\ (Told(r) => Told(s) /\ Made(r))
  BY DEF ServerGrows, Made
<1>2. /\ Grows(Claims(r, Made(r)), Claims(s, Made(s)))
      /\ Grows(Claims(r, Told(r)), Claims(s, Told(s)))
  BY <1>1, ClaimsGrow
<1>3. Grows(NoClaims, NoClaims)
  BY DEF Grows, NoClaims
<1> QED
  BY <1>2, <1>3, WorldIs

LEMMA RecordsGrow ==
    ASSUME NEW a, NEW b, Grows(a, b), NEW data, NEW s, RecordsOK(s, data, a)
    PROVE  RecordsOK(s, data, b)
  BY DEF RecordsOK, RecordOK, Grows

\* More may be sent as the server goes on.
LEMMA EngineGrows ==
    ASSUME NEW w, NEW v, w.own = v.own, w.peer = v.peer,
           Grows(w.said, v.said), Grows(w.heard, v.heard), NEW e, EngineOK(e, w)
    PROVE  EngineOK(e, v)
<1>1. DatagramsOK(e.tx, v.own, v.said) /\ RecordsOK(e.saved, v.own, v.said)
  BY RecordsGrow DEF EngineOK, DatagramsOK
<1>2. QueueOK(e.rx, v.peer, v.heard)
  BY DEF EngineOK, QueueOK, ItemsOK, ItemOK, RecordOK, Grows
<1> QED
  BY <1>1, <1>2 DEF EngineOK

LEMMA MessageGrows ==
    ASSUME NEW r, NEW s, ServerGrows(r, s), NEW m, MessageOK(m, r)
    PROVE  MessageOK(m, s)
<1>1. /\ World(m.to, s).peer = World(m.to, r).peer
      /\ Grows(World(m.to, r).heard, World(m.to, s).heard)
  BY WorldGrows
<1> QED
  BY <1>1, RecordsGrow DEF MessageOK

\* What the client heard remains heard.
LEMMA ClientFollows ==
    ASSUME NEW r, NEW s, ServerGrows(r, s), NEW c,
           ClientOK(c, World("client", r).heard)
    PROVE  ClientOK(c, World("client", s).heard)
<1> DEFINE a == World("client", r).heard
           b == World("client", s).heard
<1>1. Grows(a, b)
  BY WorldGrows
<1>2. /\ a = Claims(r, Told(r)) /\ b = Claims(s, Told(s))
  BY WorldIs
<1>3. /\ "ServerHello" \in DOMAIN b /\ "Finished" \in DOMAIN b
      /\ "ServerKeyExchange" \in DOMAIN b <=> ~IsPsk(s.suite)
      /\ a["ServerHello"] = IF SuiteChosen(r) THEN {r.suite} ELSE {}
  BY <1>2, ClaimsAre
<1> HIDE DEF a, b
<1>4. a["ServerHello"] \subseteq b["ServerHello"] /\ a["Finished"] \subseteq b["Finished"]
  BY <1>1, <1>3 DEF Grows
<1>5. ASSUME c.suite \in a["ServerHello"], GroupHeard(c, a) PROVE GroupHeard(c, b)
  <2>1. c.suite = r.suite /\ s.suite = r.suite
    BY <1>3, <1>5 DEF ServerGrows
  <2>2. CASE IsPsk(c.suite)
    BY <1>5, <2>2 DEF GroupHeard
  <2>3. CASE ~IsPsk(c.suite)
    <3>1. a["ServerKeyExchange"] \subseteq b["ServerKeyExchange"]
      BY <1>1, <1>3, <2>1, <2>3 DEF Grows
    <3> QED
      BY <1>5, <2>3, <3>1 DEF GroupHeard
  <2> QED
    BY <2>2, <2>3
<1>6. ClientRules(c, c.state, a) => ClientRules(c, c.state, b)
  BY <1>4, <1>5 DEF ClientRules
<1>7. ClientDone(c, a) => ClientDone(c, b)
  BY <1>4, <1>5 DEF ClientDone
<1> QED
  BY <1>6, <1>7 DEF ClientOK, a, b

----------------------------------------------------------------------------
(* Steps of one endpoint.                                                  *)

\* A step of the client, to e.
LEMMA ClientStep ==
    ASSUME IInv, NEW e, ep' = [ep EXCEPT !["client"] = e], cfg' = cfg,
           busy' = "nobody" \/ (busy' = "client" /\ e.err = "none"),
           \A m \in net' : m \in net \/ MessageOK(m, ep["server"]),
           EngineOK(e, World("client", ep["server"])), Phase(e), ClientOK(e, Heard)
    PROVE  IInv'
<1>1. ep'["client"] = e /\ ep'["server"] = ep["server"]
      /\ ep' = [q \in P |-> ep'[q]]
  BY DEF IInv, P
<1>2. busy' \in P \cup {"nobody"} /\ (busy' \in P => ep'[busy'].err = "none")
  BY <1>1 DEF P
<1>3. \A q \in P : EngineOK(ep'[q], World(q, ep'["server"])) /\ Phase(ep'[q])
  BY <1>1 DEF IInv, P
<1>4. \A m \in net' : MessageOK(m, ep'["server"])
  BY <1>1 DEF IInv
<1>5. ServerOK(ep'["server"], Required') /\ ClientOK(ep'["client"], Heard')
  BY <1>1 DEF IInv, Required, Heard
<1> QED
  BY <1>1, <1>2, <1>3, <1>4, <1>5 DEF IInv

\* A step of the server, to e.
LEMMA ServerStep ==
    ASSUME IInv, NEW e, ep' = [ep EXCEPT !["server"] = e], cfg' = cfg,
           busy' = "nobody" \/ (busy' = "server" /\ e.err = "none"),
           \A m \in net' : m \in net \/ MessageOK(m, e),
           EngineOK(e, World("server", e)), Phase(e), ServerOK(e, Required),
           ServerGrows(ep["server"], e)
    PROVE  IInv'
<1>1. ep'["server"] = e /\ ep'["client"] = ep["client"]
      /\ ep' = [q \in P |-> ep'[q]]
  BY DEF IInv, P
<1>2. busy' \in P \cup {"nobody"} /\ (busy' \in P => ep'[busy'].err = "none")
  BY <1>1 DEF P
<1>3. EngineOK(ep["client"], World("client", e)) /\ Phase(ep["client"])
  <2>1. EngineOK(ep["client"], World("client", ep["server"])) /\ Phase(ep["client"])
    BY DEF IInv, P
  <2>2. /\ World("client", e).own = World("client", ep["server"]).own
        /\ World("client", e).peer = World("client", ep["server"]).peer
        /\ Grows(World("client", ep["server"]).said, World("client", e).said)
        /\ Grows(World("client", ep["server"]).heard, World("client", e).heard)
    BY WorldGrows
  <2> QED
    BY <2>1, <2>2, EngineGrows
<1>4. \A q \in P : EngineOK(ep'[q], World(q, ep'["server"])) /\ Phase(ep'[q])
  BY <1>1, <1>3 DEF P
<1>5. \A m \in net' : MessageOK(m, ep'["server"])
  BY <1>1, MessageGrows DEF IInv
<1>6. ServerOK(ep'["server"], Required') /\ ClientOK(ep'["client"], Heard')
  <2>1. ClientOK(ep["client"], World("client", e).heard)
    BY ClientFollows DEF IInv, Heard
  <2> QED
    BY <1>1, <2>1 DEF Required, Heard
<1> QED
  BY <1>1, <1>2, <1>4, <1>5, <1>6 DEF IInv

\* All that is asked of the two in a state rests on what the handshake came to.
LEMMA SameRules ==
    ASSUME NEW e, NEW f, SameKeys(e, f), NEW state, NEW heard, NEW required
    PROVE  /\ SessionOK(e) <=> SessionOK(f)
           /\ KeysOK(e) <=> KeysOK(f)
           /\ GroupHeard(e, heard) <=> GroupHeard(f, heard)
           /\ NoKeyExchange(e.transcript) <=> NoKeyExchange(f.transcript)
           /\ GenerateVerifyData(f, "server") = GenerateVerifyData(e, "server")
           /\ ClientRules(e, state, heard) <=> ClientRules(f, state, heard)
           /\ ClientDone(e, heard) <=> ClientDone(f, heard)
           /\ ServerRules(e, state, required) <=> ServerRules(f, state, required)
           /\ ServerDone(e, required) <=> ServerDone(f, required)
<1>1. SessionOK(e) <=> SessionOK(f)
  BY DEF SameKeys, SessionOK
<1>2. KeysOK(e) <=> KeysOK(f)
  BY <1>1 DEF SameKeys, KeysOK, DeriveExtendedMasterSecret
<1>3. GroupHeard(e, heard) <=> GroupHeard(f, heard)
  BY DEF SameKeys, GroupHeard
<1>4. GenerateVerifyData(f, "server") = GenerateVerifyData(e, "server")
  BY DEF SameKeys, GenerateVerifyData
<1>5. f.suite = e.suite /\ f.group = e.group /\ f.peerCert = e.peerCert
      /\ f.transcript = e.transcript
  BY DEF SameKeys
<1>6. CertNeeded(f, required) = CertNeeded(e, required)
  BY <1>5 DEF CertNeeded
<1>7. ClientRules(e, state, heard) <=> ClientRules(f, state, heard)
  BY <1>1, <1>2, <1>3, <1>5 DEF ClientRules
<1>8. ServerRules(e, state, required) <=> ServerRules(f, state, required)
  BY <1>2, <1>5, <1>6 DEF ServerRules
<1>9. ServerDone(e, required) <=> ServerDone(f, required)
  BY <1>2, <1>5, <1>6 DEF ServerDone
<1> QED
  BY <1>1, <1>2, <1>3, <1>4, <1>5, <1>7, <1>8, <1>9 DEF ClientDone

\* A step that leaves the handshake where it is, or closes.
LEMMA KeptStep ==
    ASSUME IInv, NEW p \in P, NEW e, ep' = [ep EXCEPT ![p] = e], cfg' = cfg,
           busy' = "nobody" \/ (busy' = p /\ e.err = "none"),
           \A m \in net' : m \in net \/ MessageOK(m, IF p = "server" THEN e ELSE ep["server"]),
           ep[p].err = "none", EngineOK(e, World(p, ep["server"])), Phase(e),
           SameKeys(ep[p], e), e.state \in {ep[p].state, "Closed"},
           Told(ep[p]) => Told(e), Made(e) <=> Made(ep[p])
    PROVE  IInv'
<1>1. CASE p = "client"
  <2> DEFINE c == ep["client"]
  <2>1. ClientOK(c, Heard) /\ c.err = "none"
    BY <1>1 DEF IInv
  <2>2. /\ ClientRules(c, c.state, Heard) <=> ClientRules(e, c.state, Heard)
        /\ ClientDone(c, Heard) <=> ClientDone(e, Heard)
    BY <1>1, SameRules
  <2>3. ClientRules(e, "Closed", Heard)
    BY DEF ClientRules
  <2>4. ClientOK(e, Heard)
    BY <1>1, <2>1, <2>2, <2>3 DEF ClientOK
  <2> QED
    BY <1>1, <2>4, ClientStep
<1>2. CASE p = "server"
  <2> DEFINE s == ep["server"]
  <2>1. ServerOK(s, Required) /\ s.err = "none"
    BY <1>2 DEF IInv
  <2>2. /\ ServerRules(s, s.state, Required) <=> ServerRules(e, s.state, Required)
        /\ ServerDone(s, Required) <=> ServerDone(e, Required)
        /\ GenerateVerifyData(e, "server") = GenerateVerifyData(s, "server")
    BY <1>2, SameRules
  <2>3. ServerRules(e, s.state, Required) => ServerRules(e, "Closed", Required)
    BY DEF ServerRules
  <2>4. ServerOK(e, Required)
    BY <1>2, <2>1, <2>2, <2>3 DEF ServerOK
  <2>5. ServerGrows(s, e)
    BY <1>2, <2>1, <2>2 DEF ServerGrows, SuiteChosen, GroupChosen, SameKeys
  <2>6. EngineOK(e, World("server", e))
    <3>1. /\ World("server", e).own = World("server", s).own
          /\ World("server", e).peer = World("server", s).peer
          /\ Grows(World("server", s).said, World("server", e).said)
          /\ Grows(World("server", s).heard, World("server", e).heard)
      BY <2>5, WorldGrows
    <3> QED
      BY <1>2, <3>1, EngineGrows
  <2> QED
    BY <1>2, <2>4, <2>5, <2>6, ServerStep
<1> QED
  BY <1>1, <1>2 DEF P

\* One that says nothing of the connection and sends nothing.
LEMMA SteadyStep ==
    ASSUME IInv, NEW p \in P, NEW e, Move(p, e), cfg' = cfg, \A m \in net' : m \in net,
           ep[p].err = "none", EngineOK(e, World(p, ep["server"])), Phase(e),
           SameKeys(ep[p], e), e.state \in {ep[p].state, "Closed"},
           e.told = ep[p].told,
           "Connected" \in ToSet(e.events) <=> "Connected" \in ToSet(ep[p].events)
    PROVE  IInv'
<1>1. ep' = [ep EXCEPT ![p] = e] /\ (busy' = "nobody" \/ (busy' = p /\ e.err = "none"))
  BY DEF Move
<1>2. (Told(e) <=> Told(ep[p])) /\ (Made(e) <=> Made(ep[p]))
  BY DEF Told, Made
<1> QED
  BY <1>1, <1>2, KeptStep

\* A handler of the handshake, which goes from one of its states to another.
Handshaking(state) == state \notin {"AwaitApplicationData", "Closed"}

LEMMA NotMade ==
    ASSUME IInv, NEW p \in P, busy = p, Handshaking(ep[p].state)
    PROVE  ep[p].err = "none" /\ ~Made(ep[p])
  BY DEF IInv, Phase, Handshaking

\* The client moves to x.
LEMMA ClientMoves ==
    ASSUME IInv, busy = "client", Handshaking(ep["client"].state),
           NEW x, Move("client", x), UNCHANGED <<cfg, net, used>>,
           EngineOK(x, World("client", ep["server"])), Steady([ep["client"] EXCEPT !.state = x.state], x),
           Handshaking(x.state), IsSeq(x.transcript),
           x.err = "none" => ClientRules(x, x.state, Heard)
    PROVE  IInv'
<1> DEFINE c == ep["client"]
<1>1. ~Made(c) /\ "client" \in P
  BY NotMade DEF P
<1>2. EngineOK(c, World("client", ep["server"]))
  BY <1>1 DEF IInv
<1>3. x.told = c.told /\ ("Connected" \in ToSet(x.events) <=> "Connected" \in ToSet(c.events))
  BY <1>2 DEF Steady, EngineOK, Fields
<1>4. ~Made(x)
  BY <1>1, <1>3 DEF Made, Told
<1>5. Phase(x) /\ ClientOK(x, Heard)
  BY <1>4 DEF Phase, Handshaking, ClientOK
<1> QED
  BY <1>5, ClientStep DEF Move

\* The client goes from one state to another, or ends with an error.
LEMMA ClientGo ==
    ASSUME IInv, busy = "client", Handshaking(ep["client"].state), NEW to, Handshaking(to),
           NEW f, Go("client", f, to),
           EngineOK(f, World("client", ep["server"])), Steady(ep["client"], f),
           IsSeq(f.transcript), f.err = "none" => ClientRules(f, to, Heard)
    PROVE  IInv'
<1> DEFINE c == ep["client"]
           w == World("client", ep["server"])
           x == IF f.err = "none" THEN [f EXCEPT !.state = to] ELSE f
<1>1. EngineOK(c, w)
  BY DEF IInv, P
<1> HIDE DEF w
<1>2. /\ EngineOK(x, w) /\ Handshaking(x.state) /\ x.err = f.err
      /\ Steady([c EXCEPT !.state = x.state], x) /\ x.transcript = f.transcript
      /\ SameKeys(f, x) /\ (x.err = "none" => x.state = to)
  BY <1>1 DEF EngineOK, Fields, Steady, SameKeys, w
<1>3. Move("client", x) /\ UNCHANGED <<cfg, net, used>>
  BY DEF Go
<1> HIDE DEF x
<1>4. ClientRules(f, to, Heard) <=> ClientRules(x, to, Heard)
  BY <1>2, SameRules
<1> QED
  BY <1>2, <1>3, <1>4, ClientMoves DEF w

\* A message is taken.
Adds(e, f, type) ==
    /\ f.suite = e.suite /\ f.group = e.group /\ f.secret = e.secret
    /\ f.session = e.session /\ f.keys = e.keys /\ f.peerCert = e.peerCert
    /\ \E m : f.transcript = Append(e.transcript, <<type, m>>)

LEMMA TakenIs ==
    ASSUME NEW w, NEW e, EngineOK(e, w), e.err = "none", NEW type
    PROVE  LET n == NextHandshake(e, type)
           IN  /\ EngineOK(n, w) /\ Steady(e, n)
               /\ n.err = "none" => Adds(e, n, type)
               /\ n.err # "none" => SameKeys(e, n)
<1> DEFINE n == NextHandshake(e, type)
           m == Pending(e)[1].rec.mseq
           h == Hashed(e, type, m)
<1>1. \/ n.err # "none" /\ Becomes(e, n, w)
      \/ n.err = "none" /\ Becomes(h, n, w)
  BY NextHandshakeOK
<1> HIDE DEF n, m
<1>2. Steady(e, h) /\ Adds(e, h, type)
  BY DEF Hashed, EngineOK, Fields, Steady, Adds
<1> HIDE DEF h
<1>3. /\ EngineOK(n, w) /\ Steady(e, n)
      /\ n.err # "none" => SameKeys(e, n)
  BY <1>1, <1>2 DEF Becomes, Keeps, Steady, SameKeys
<1>4. n.err = "none" => Adds(e, n, type)
  BY <1>1, <1>2 DEF Becomes, Keeps, Adds
<1> QED
  BY <1>3, <1>4 DEF n

LEMMA ClientTake ==
    ASSUME IInv, busy = "client", Handshaking(ep["client"].state), NEW to, Handshaking(to),
           NEW type, NEW f, NEW n, n = NextHandshake(ep["client"], type),
           Move("client", IF n.err = "none" THEN [f EXCEPT !.state = to] ELSE n),
           UNCHANGED <<cfg, net, used>>,
           n.err = "none" =>
               /\ EngineOK(f, World("client", ep["server"])) /\ Steady(n, f)
               /\ IsSeq(f.transcript) /\ (f.err = "none" => ClientRules(f, to, Heard))
    PROVE  IInv'
<1> DEFINE c == ep["client"]
           w == World("client", ep["server"])
           x == IF n.err = "none" THEN [f EXCEPT !.state = to] ELSE n
<1>1. EngineOK(c, w) /\ c.err = "none" /\ IsSeq(c.transcript)
  BY DEF IInv, P, Phase
<1>2. EngineOK(n, w) /\ Steady(c, n) /\ (n.err # "none" => SameKeys(c, n))
  BY <1>1, TakenIs
<1> HIDE DEF w
<1>3. /\ EngineOK(x, w) /\ Handshaking(x.state)
      /\ Steady([c EXCEPT !.state = x.state], x) /\ IsSeq(x.transcript)
  <2>1. CASE n.err = "none"
    BY <1>1, <1>2, <2>1 DEF EngineOK, Fields, Steady, w
  <2>2. CASE n.err # "none"
    BY <1>1, <1>2, <2>2 DEF EngineOK, Fields, Steady, SameKeys
  <2> QED
    BY <2>1, <2>2
<1>4. x.err = "none" => ClientRules(x, x.state, Heard)
  <2> SUFFICES ASSUME x.err = "none" PROVE ClientRules(x, x.state, Heard)
    OBVIOUS
  <2>1. n.err = "none" /\ x = [f EXCEPT !.state = to]
    OBVIOUS
  <2>2. EngineOK(f, w)
    BY <2>1 DEF w
  <2>3. f.err = "none" /\ SameKeys(f, x) /\ x.state = to
    BY <2>1, <2>2 DEF EngineOK, Fields, SameKeys
  <2>4. ClientRules(f, to, Heard)
    BY <2>1, <2>3
  <2> HIDE DEF x
  <2> QED
    BY <2>3, <2>4, SameRules
<1>5. Move("client", x)
  OBVIOUS
<1> HIDE DEF x
<1> QED
  BY <1>3, <1>4, <1>5, ClientMoves DEF w

\* The same for the server: the suite and the group are chosen once.
ServerFollows(s, f, to) ==
    /\ f.suite = s.suite \/ (s.state = "AwaitClientHello" /\ s.suite = "none" /\ f.err = "none")
    /\ f.group = s.group \/ s.state = "SendServerKeyExchange"
    /\ s.state # "AwaitClientHello" => to # "AwaitClientHello"
    /\ f.suite # s.suite => to # "AwaitClientHello"
    /\ s.state \notin {"AwaitClientHello", "SendServerHello", "SendCertificate",
                       "SendServerKeyExchange"} =>
          to \notin {"AwaitClientHello", "SendServerHello", "SendCertificate",
                     "SendServerKeyExchange"}

LEMMA ServerGoes ==
    ASSUME NEW s, NEW x, s.err = "none", ~Made(s), ServerFollows(s, x, x.state)
    PROVE  ServerGrows(s, x)
  BY DEF ServerGrows, ServerFollows, SuiteChosen, GroupChosen, Made, IsPsk

LEMMA ServerMoves ==
    ASSUME IInv, busy = "server", Handshaking(ep["server"].state),
           NEW x, Move("server", x), UNCHANGED <<cfg, net, used>>,
           EngineOK(x, World("server", x)), Steady([ep["server"] EXCEPT !.state = x.state], x),
           Handshaking(x.state), IsSeq(x.transcript), ServerFollows(ep["server"], x, x.state),
           x.err = "none" => ServerRules(x, x.state, Required)
    PROVE  IInv'
<1> DEFINE s == ep["server"]
<1>1. ~Made(s) /\ s.err = "none" /\ "server" \in P
  BY NotMade DEF P
<1>2. EngineOK(s, World("server", s))
  BY <1>1 DEF IInv
<1>3. x.told = s.told /\ ("Connected" \in ToSet(x.events) <=> "Connected" \in ToSet(s.events))
  BY <1>2 DEF Steady, EngineOK, Fields
<1>4. ~Made(x)
  BY <1>1, <1>3 DEF Made, Told
<1>5. Phase(x) /\ ServerOK(x, Required)
  BY <1>4 DEF Phase, Handshaking, ServerOK
<1>6. ServerGrows(s, x)
  BY <1>1, ServerGoes
<1> QED
  BY <1>5, <1>6, ServerStep DEF Move

LEMMA ServerGo ==
    ASSUME IInv, busy = "server", Handshaking(ep["server"].state), NEW to, Handshaking(to),
           NEW f, Go("server", f, to),
           EngineOK(f, World("server", ep["server"])), Steady(ep["server"], f),
           ServerFollows(ep["server"], f, to),
           IsSeq(f.transcript), f.err = "none" => ServerRules(f, to, Required)
    PROVE  IInv'
<1> DEFINE s == ep["server"]
           w == World("server", ep["server"])
           x == IF f.err = "none" THEN [f EXCEPT !.state = to] ELSE f
<1>1. EngineOK(s, w) /\ s.err = "none" /\ ~Made(s)
  BY NotMade DEF IInv, P
<1> HIDE DEF w
<1>2. /\ EngineOK(x, w) /\ Handshaking(x.state) /\ x.err = f.err
      /\ Steady([s EXCEPT !.state = x.state], x) /\ x.transcript = f.transcript
      /\ SameKeys(f, x) /\ (x.err = "none" => x.state = to)
      /\ (x.err # "none" => x.state = s.state)
  BY <1>1 DEF EngineOK, Fields, Steady, SameKeys, w
<1>3. Move("server", x) /\ UNCHANGED <<cfg, net, used>>
  BY DEF Go
<1> HIDE DEF x
<1>4. ServerRules(f, to, Required) <=> ServerRules(x, to, Required)
  BY <1>2, SameRules
<1>5. ServerFollows(s, x, x.state)
  BY <1>2 DEF ServerFollows, SameKeys
<1>6. EngineOK(x, World("server", x))
  <2>1. ServerGrows(s, x)
    BY <1>1, <1>5, ServerGoes
  <2> QED
    BY <1>2, <2>1, WorldGrows, EngineGrows DEF w
<1> QED
  BY <1>2, <1>3, <1>4, <1>5, <1>6, ServerMoves

LEMMA ServerTake ==
    ASSUME IInv, busy = "server", Handshaking(ep["server"].state), NEW to, Handshaking(to),
           NEW type, NEW f, NEW n, n = NextHandshake(ep["server"], type),
           Move("server", IF n.err = "none" THEN [f EXCEPT !.state = to] ELSE n),
           UNCHANGED <<cfg, net, used>>,
           n.err = "none" =>
               /\ EngineOK(f, World("server", ep["server"])) /\ Steady(n, f)
               /\ ServerFollows(ep["server"], f, to)
               /\ IsSeq(f.transcript) /\ (f.err = "none" => ServerRules(f, to, Required))
    PROVE  IInv'
<1> DEFINE s == ep["server"]
           w == World("server", ep["server"])
           x == IF n.err = "none" THEN [f EXCEPT !.state = to] ELSE n
<1>1. EngineOK(s, w) /\ s.err = "none" /\ IsSeq(s.transcript) /\ ~Made(s)
  BY NotMade DEF IInv, P, Phase
<1>2. EngineOK(n, w) /\ Steady(s, n) /\ (n.err # "none" => SameKeys(s, n))
  BY <1>1, TakenIs
<1> HIDE DEF w
<1>3. /\ EngineOK(x, w) /\ Handshaking(x.state)
      /\ Steady([s EXCEPT !.state = x.state], x) /\ IsSeq(x.transcript)
  <2>1. CASE n.err = "none"
    BY <1>1, <1>2, <2>1 DEF EngineOK, Fields, Steady, w
  <2>2. CASE n.err # "none"
    BY <1>1, <1>2, <2>2 DEF EngineOK, Fields, Steady, SameKeys
  <2> QED
    BY <2>1, <2>2
<1>4. x.err = "none" => ServerRules(x, x.state, Required)
  <2> SUFFICES ASSUME x.err = "none" PROVE ServerRules(x, x.state, Required)
    OBVIOUS
  <2>1. n.err = "none" /\ x = [f EXCEPT !.state = to]
    OBVIOUS
  <2>2. EngineOK(f, w)
    BY <2>1 DEF w
  <2>3. f.err = "none" /\ SameKeys(f, x) /\ x.state = to
    BY <2>1, <2>2 DEF EngineOK, Fields, SameKeys
  <2>4. ServerRules(f, to, Required)
    BY <2>1, <2>3
  <2> HIDE DEF x
  <2> QED
    BY <2>3, <2>4, SameRules
<1>5. ServerFollows(s, x, x.state)
  <2>1. CASE n.err = "none"
    <3>1. EngineOK(f, w) /\ ServerFollows(s, f, to)
      BY <2>1 DEF w
    <3>2. x.suite = f.suite /\ x.group = f.group /\ x.err = f.err /\ x.state = to
      BY <2>1, <3>1 DEF EngineOK, Fields
    <3> HIDE DEF x
    <3> QED
      BY <3>1, <3>2 DEF ServerFollows
  <2>2. CASE n.err # "none"
    BY <1>2, <2>2 DEF ServerFollows, SameKeys, Steady
  <2> QED
    BY <2>1, <2>2
<1>6. Move("server", x)
  OBVIOUS
<1> HIDE DEF x
<1>7. EngineOK(x, World("server", x))
  <2>1. ServerGrows(s, x)
    BY <1>1, <1>5, ServerGoes
  <2> QED
    BY <1>3, <2>1, WorldGrows, EngineGrows DEF w
<1> QED
  BY <1>3, <1>4, <1>5, <1>6, <1>7, ServerMoves

----------------------------------------------------------------------------
(* What a message sent or taken does to what the invariant asks.           *)

LEMMA NoKeyAppend ==
    ASSUME NEW t, IsSeq(t), NEW x, NoKeyExchange(t), x[1] # "ClientKeyExchange"
    PROVE  NoKeyExchange(Append(t, x))
<1>1. \A y \in ToSet(t) : y[1] # "ClientKeyExchange"
  BY SeqHas DEF NoKeyExchange
<1>2. IsSeq(Append(t, x)) /\ ToSet(Append(t, x)) = ToSet(t) \cup {x}
  BY AppendIs
<1>3. \A i \in DOMAIN Append(t, x) : Append(t, x)[i] \in ToSet(t) \cup {x}
  BY <1>2, SeqHas
<1> QED
  BY <1>1, <1>3 DEF NoKeyExchange

\* f is as good as e.
Like(e, f) ==
    /\ f.suite = e.suite /\ f.group = e.group /\ f.peerCert = e.peerCert
    /\ IsSeq(f.transcript)
    /\ NoKeyExchange(e.transcript) => NoKeyExchange(f.transcript)
    /\ SessionOK(e) => SessionOK(f)
    /\ KeysOK(e) => KeysOK(f)

LEMMA SameIsLike ==
    ASSUME NEW e, IsSeq(e.transcript), NEW f, SameKeys(e, f)
    PROVE  Like(e, f)
  BY SameRules DEF Like, SameKeys

LEMMA AddsIsLike ==
    ASSUME NEW e, IsSeq(e.transcript), NEW type, NEW f, Adds(e, f, type),
           type # "ClientKeyExchange"
    PROVE  Like(e, f)
<1>1. PICK m : f.transcript = Append(e.transcript, <<type, m>>)
  BY DEF Adds
<1>2. IsSeq(f.transcript)
  BY <1>1, AppendIs
<1>3. NoKeyExchange(e.transcript) => NoKeyExchange(f.transcript)
  BY <1>1, NoKeyAppend
<1>4. SessionOK(e) => SessionOK(f)
  BY DEF SessionOK, Adds
<1>5. KeysOK(e) => KeysOK(f)
  BY <1>4 DEF KeysOK, DeriveExtendedMasterSecret, Adds
<1> QED
  BY <1>2, <1>3, <1>4, <1>5 DEF Like, Adds

\* What is sent.
LEMMA SentIs ==
    ASSUME NEW w, NEW e, EngineOK(e, w), NEW type, NEW val,
           type \in DOMAIN w.said => Claim(type, e.nextSeq, val) \in w.said[type]
    PROVE  LET f == CreateHandshake(e, type, val)
           IN  EngineOK(f, w) /\ Steady(e, f) /\ Adds(e, f, type)
               /\ f.transcript = Append(e.transcript, <<type, e.nextSeq>>)
<1> DEFINE f == CreateHandshake(e, type, val)
           h == Hashed(e, type, e.nextSeq)
<1>1. Becomes(h, f, w)
  BY CreateHandshakeOK
<1>2. Steady(e, h) /\ Adds(e, h, type) /\ h.transcript = Append(e.transcript, <<type, e.nextSeq>>)
  BY DEF Hashed, EngineOK, Fields, Steady, Adds
<1> HIDE DEF f, h
<1>3. EngineOK(f, w) /\ Steady(e, f) /\ Adds(e, f, type)
      /\ f.transcript = Append(e.transcript, <<type, e.nextSeq>>)
  BY <1>1, <1>2 DEF Becomes, Keeps, Steady, Adds
<1> QED
  BY <1>3 DEF f

----------------------------------------------------------------------------
(* The handlers of the client.                                             *)

LEMMA HeardIs ==
    LET s == ep["server"]
    IN  /\ "ServerHello" \in DOMAIN Heard /\ "Finished" \in DOMAIN Heard
        /\ "ServerKeyExchange" \in DOMAIN Heard <=> ~IsPsk(s.suite)
        /\ Heard["ServerHello"] \subseteq {s.suite}
        /\ ~IsPsk(s.suite) => Heard["ServerKeyExchange"] \subseteq {s.group}
        /\ Heard["Finished"] = IF Told(s) THEN {GenerateVerifyData(s, "server")} ELSE {}
<1> DEFINE s == ep["server"]
           h == Claims(s, Told(s))
<1>1. /\ "ServerHello" \in DOMAIN h /\ "Finished" \in DOMAIN h
      /\ "ServerKeyExchange" \in DOMAIN h <=> ~IsPsk(s.suite)
      /\ h["ServerHello"] \subseteq {s.suite}
      /\ ~IsPsk(s.suite) => h["ServerKeyExchange"] \subseteq {s.group}
      /\ h["Finished"] = IF Told(s) THEN {GenerateVerifyData(s, "server")} ELSE {}
  BY ClaimsAre
<1>2. Heard = h
  BY WorldIs DEF Heard
<1> HIDE DEF h
<1> QED
  BY <1>1, <1>2

LEMMA ClientHandlersOK ==
    ASSUME IInv, Client, ~AwaitServerFinished, ~AwaitApplicationData("client")
    PROVE  IInv'
<1> DEFINE e == ep["client"]
           w == World("client", ep["server"])
           b == FlightBegin(e)
<1>1. EngineOK(e, w) /\ IsSeq(e.transcript) /\ w.heard = Heard /\ DOMAIN w.said = {}
  BY WorldIs DEF IInv, Phase, Heard, P, NoClaims
<1>2. Steady(e, e) /\ SameKeys(e, e) /\ Like(e, e)
  BY <1>1 DEF Steady, SameKeys, Like
<1>3. EngineOK(b, w) /\ Steady(e, b) /\ SameKeys(e, b) /\ Like(e, b)
  <2>1. Becomes(e, b, w)
    BY <1>1, FlightBeginOK
  <2> HIDE DEF b
  <2>2. SameKeys(e, b)
    BY <2>1 DEF Becomes, Keeps, SameKeys
  <2> QED
    BY <1>1, <2>1, <2>2, SameIsLike DEF Becomes, Keeps, Steady
<1>4. ASSUME NEW state, At("client", state), Handshaking(state)
      PROVE  busy = "client" /\ e.state = state /\ e.err = "none" /\ ClientRules(e, state, Heard)
             /\ Handshaking(e.state)
  BY <1>4 DEF At, IInv, ClientOK, P
<1> DEFINE Next1 == IInv'
<1> SUFFICES Next1
  OBVIOUS
<1> HIDE DEF w, Next1
<1>5. ASSUME NEW f, busy = "client", Handshaking(e.state), NEW to, Handshaking(to),
             Go("client", f, to), EngineOK(f, w), Steady(e, f), IsSeq(f.transcript),
             f.err = "none" => ClientRules(f, to, Heard)
      PROVE  Next1
  BY <1>5, ClientGo DEF w, Next1
<1>6. ASSUME NEW type, busy = "client", Handshaking(e.state), NEW to, Handshaking(to), NEW f,
             NEW n, n = NextHandshake(e, type),
             Move("client", IF n.err = "none" THEN [f EXCEPT !.state = to] ELSE n),
             UNCHANGED <<cfg, net, used>>,
             n.err = "none" => /\ EngineOK(f, w) /\ Steady(n, f) /\ IsSeq(f.transcript)
                               /\ f.err = "none" => ClientRules(f, to, Heard)
      PROVE  Next1
  BY <1>6, ClientTake DEF w, Next1
<1> HIDE DEF b
<1>7. ASSUME NEW type, type # "ClientKeyExchange", e.err = "none", NEW n,
             n = NextHandshake(e, type), n.err = "none"
      PROVE  EngineOK(n, w) /\ Steady(n, n) /\ Like(e, n) /\ IsSeq(n.transcript)
  <2>1. EngineOK(n, w) /\ Adds(e, n, type)
    BY <1>1, <1>7, TakenIs
  <2> QED
    BY <1>1, <1>7, <2>1, AddsIsLike DEF Steady, Like
<1>8. ASSUME NEW f, EngineOK(f, w), Steady(e, f), Like(e, f), NEW type,
             type # "ClientKeyExchange", NEW val, NEW g, g = CreateHandshake(f, type, val)
      PROVE  EngineOK(g, w) /\ Steady(e, g) /\ Like(e, g) /\ IsSeq(g.transcript)
  <2>1. EngineOK(g, w) /\ Steady(f, g) /\ Adds(f, g, type)
    BY <1>1, <1>8, SentIs
  <2>2. Like(f, g)
    BY <1>8, <2>1, AddsIsLike DEF Like
  <2> QED
    BY <1>8, <2>1, <2>2 DEF Steady, Like
<1> DEFINE Rule(f, state) == ClientRules(f, state, Heard)
<1>9. CASE SendClientHello
  <2> DEFINE f == CreateClientHello(b)
             to == IF e.cookie = "none" THEN "AwaitHelloVerifyRequest" ELSE "AwaitServerHello"
  <2>1. At("client", "SendClientHello") /\ Go("client", f, to)
    BY <1>9 DEF SendClientHello, b
  <2>2. EngineOK(f, w) /\ Steady(e, f) /\ Like(e, f) /\ IsSeq(f.transcript)
    BY <1>3, <1>8 DEF CreateClientHello
  <2> HIDE DEF e, f
  <2>3. busy = "client" /\ Handshaking(e.state) /\ Rule(e, "SendClientHello") /\ Handshaking(to)
    BY <1>4, <2>1 DEF Handshaking
  <2>4. Rule(f, to)
    BY <2>2, <2>3 DEF ClientRules, Like
  <2> HIDE DEF to
  <2> QED
    BY <1>5, <2>1, <2>2, <2>3, <2>4
<1>10. CASE AwaitHelloVerifyRequest
  <2>1. At("client", "AwaitHelloVerifyRequest")
    BY <1>10 DEF AwaitHelloVerifyRequest
  <2>2. /\ busy = "client" /\ Handshaking(e.state) /\ Rule(e, "AwaitHelloVerifyRequest")
        /\ Handshaking("AwaitServerHello") /\ Handshaking("SendClientHello") /\ e.err = "none"
    BY <1>4, <2>1 DEF Handshaking
  <2>3. CASE Go("client", e, "AwaitServerHello")
    <3> HIDE DEF e
    <3>1. Rule(e, "AwaitServerHello")
      BY <2>2 DEF ClientRules
    <3> QED
      BY <1>1, <1>2, <1>5, <2>2, <2>3, <3>1
  <2>4. CASE ~Got("client", "ServerHello")
    <3> DEFINE n == NextHandshake(e, "HelloVerifyRequest")
               f == ResetClientForHelloVerifyRequest([n EXCEPT !.cookie = Arg("client")[1]])
    <3>1. Move("client", IF n.err = "none" THEN [f EXCEPT !.state = "SendClientHello"] ELSE n)
          /\ UNCHANGED <<cfg, net, used>>
      BY <1>10, <2>4 DEF AwaitHelloVerifyRequest, Take
    <3>2. ASSUME n.err = "none"
          PROVE  EngineOK(f, w) /\ Steady(n, f) /\ IsSeq(f.transcript) /\ Rule(f, "SendClientHello")
      <4>1. EngineOK(n, w) /\ Like(e, n)
        BY <1>7, <2>2, <3>2
      <4> HIDE DEF n, e
      <4>2. EngineOK(f, w) /\ Steady(n, f) /\ f.suite = n.suite /\ f.group = n.group
            /\ f.peerCert = n.peerCert /\ f.transcript = <<>>
        BY <4>1 DEF ResetClientForHelloVerifyRequest, EngineOK, Fields, Steady
      <4>3. IsSeq(<<>>) /\ NoKeyExchange(<<>>)
        BY EmptyIs DEF NoKeyExchange
      <4> HIDE DEF f
      <4>4. Rule(f, "SendClientHello")
        BY <2>2, <4>1, <4>2, <4>3 DEF ClientRules, Like
      <4> QED
        BY <4>2, <4>3, <4>4
    <3> HIDE DEF e, f
    <3> QED
      BY <1>6, <2>2, <3>1, <3>2
  <2> QED
    BY <1>10, <2>3, <2>4 DEF AwaitHelloVerifyRequest
<1>11. CASE AwaitServerHello
  <2> DEFINE n == NextHandshake(e, "ServerHello")
             suite == Arg("client")[1]
             f == IF (IsPsk(suite) => cfg.client.psk # "off") /\ suite \in ToSet(cfg.client.suites)
                  THEN [n EXCEPT !.suite = suite] ELSE Fail(n, "SecurityError")
             to == IF IsPsk(suite) THEN "AwaitServerKeyExchange" ELSE "AwaitCertificate"
  <2>1. /\ At("client", "AwaitServerHello") /\ HasCompleteHandshake(e, "ServerHello")
        /\ Move("client", IF n.err = "none" THEN [f EXCEPT !.state = to] ELSE n)
        /\ UNCHANGED <<cfg, net, used>>
    BY <1>11 DEF AwaitServerHello, Take, Got
  <2>2. /\ busy = "client" /\ Handshaking(e.state) /\ Rule(e, "AwaitServerHello")
        /\ Handshaking(to) /\ e.err = "none"
    BY <1>4, <2>1 DEF Handshaking
  <2>3. suite \in Heard["ServerHello"]
    <3>1. "ServerHello" \in DOMAIN w.heard
      BY <1>1, HeardIs
    <3>2. Claim("ServerHello", Pending(e)[1].rec.mseq, MessageBody(e)) \in w.heard["ServerHello"]
      BY <1>1, <2>1, <3>1, MessageIsPeers
    <3> QED
      BY <1>1, <3>2 DEF Claim, Arg
  <2> HIDE DEF suite
  <2>4. ASSUME n.err = "none"
        PROVE  EngineOK(f, w) /\ Steady(n, f) /\ IsSeq(f.transcript)
               /\ (f.err = "none" => Rule(f, to))
    <3>1. EngineOK(n, w) /\ Like(e, n)
      BY <1>7, <2>2, <2>4
    <3> HIDE DEF n, e
    <3>2. EngineOK(f, w) /\ Steady(n, f) /\ f.group = n.group
          /\ f.peerCert = n.peerCert /\ f.transcript = n.transcript
          /\ (f.err = "none" => f.suite = suite)
      BY <3>1 DEF EngineOK, Fields, Steady, Fail
    <3> HIDE DEF f
    <3>3. f.err = "none" => Rule(f, to)
      BY <2>2, <2>3, <3>1, <3>2 DEF ClientRules, Like
    <3> QED
      BY <3>1, <3>2, <3>3 DEF Like
  <2> HIDE DEF e, f, to
  <2> QED
    BY <1>6, <2>1, <2>2, <2>4
<1>12. CASE AwaitServerCertificate
  <2> DEFINE n == NextHandshake(e, "Certificate")
             f == [n EXCEPT !.peerCert = TRUE]
             to == "AwaitServerKeyExchange"
  <2>1. /\ At("client", "AwaitCertificate")
        /\ Move("client", IF n.err = "none" THEN [f EXCEPT !.state = to] ELSE n)
        /\ UNCHANGED <<cfg, net, used>>
    BY <1>12 DEF AwaitServerCertificate, Take
  <2>2. /\ busy = "client" /\ Handshaking(e.state) /\ Rule(e, "AwaitCertificate")
        /\ Handshaking(to) /\ e.err = "none"
    BY <1>4, <2>1 DEF Handshaking
  <2>3. ASSUME n.err = "none"
        PROVE  EngineOK(f, w) /\ Steady(n, f) /\ IsSeq(f.transcript) /\ Rule(f, to)
    <3>1. EngineOK(n, w) /\ Like(e, n)
      BY <1>7, <2>2, <2>3
    <3> HIDE DEF n, e
    <3>2. EngineOK(f, w) /\ Steady(n, f) /\ f.group = n.group /\ f.suite = n.suite
          /\ f.peerCert = TRUE /\ f.transcript = n.transcript
      BY <3>1 DEF EngineOK, Fields, Steady
    <3> HIDE DEF f
    <3>3. Rule(f, to)
      BY <2>2, <3>1, <3>2 DEF ClientRules, Like
    <3> QED
      BY <3>1, <3>2, <3>3 DEF Like
  <2> HIDE DEF e, f, to
  <2> QED
    BY <1>6, <2>1, <2>2, <2>3
<1>13. CASE AwaitServerKeyExchangeEcdhe
  <2> DEFINE n == NextHandshake(e, "ServerKeyExchange")
             group == Arg("client")[1]
             f == ProcessEcdhParams(n, group)
             to == "AwaitCertificateRequest"
  <2>1. /\ At("client", "AwaitServerKeyExchange") /\ ~IsPsk(e.suite)
        /\ HasCompleteHandshake(e, "ServerKeyExchange")
        /\ Move("client", IF n.err = "none" THEN [f EXCEPT !.state = to] ELSE n)
        /\ UNCHANGED <<cfg, net, used>>
    BY <1>13 DEF AwaitServerKeyExchangeEcdhe, Take, Got
  <2>2. /\ busy = "client" /\ Handshaking(e.state) /\ Rule(e, "AwaitServerKeyExchange")
        /\ Handshaking(to) /\ e.err = "none"
    BY <1>4, <2>1 DEF Handshaking
  <2>3. group \in Heard["ServerKeyExchange"]
    <3>1. e.suite \in w.heard["ServerHello"]
      BY <1>1, <2>2 DEF ClientRules
    <3>2. "ServerKeyExchange" \in DOMAIN w.heard
      <4> HIDE DEF e
      <4> QED
        BY <1>1, <2>1, <3>1, HeardIs
    <3>3. Claim("ServerKeyExchange", Pending(e)[1].rec.mseq, MessageBody(e))
             \in w.heard["ServerKeyExchange"]
      BY <1>1, <2>1, <3>2, MessageIsPeers
    <3> QED
      BY <1>1, <3>3 DEF Claim, Arg
  <2> HIDE DEF group
  <2>4. ASSUME n.err = "none"
        PROVE  EngineOK(f, w) /\ Steady(n, f) /\ IsSeq(f.transcript) /\ Rule(f, to)
    <3>1. EngineOK(n, w) /\ Like(e, n)
      BY <1>7, <2>2, <2>4
    <3> HIDE DEF n, e
    <3>2. EngineOK(f, w) /\ Steady(n, f) /\ f.group = group /\ f.suite = n.suite
          /\ f.peerCert = n.peerCert /\ f.transcript = n.transcript
      BY <3>1 DEF EngineOK, Fields, Steady, ProcessEcdhParams, ComputeSharedSecret
    <3> HIDE DEF f
    <3>3. Rule(f, to)
      BY <2>1, <2>2, <2>3, <3>1, <3>2 DEF ClientRules, Like, GroupHeard
    <3> QED
      BY <3>1, <3>2, <3>3 DEF Like
  <2> HIDE DEF e, f, to
  <2> QED
    BY <1>6, <2>1, <2>2, <2>4
<1>14. CASE AwaitServerKeyExchangePsk
  <2> DEFINE n == NextHandshake(e, "ServerKeyExchange")
             f == Same(n)
             to == "AwaitServerHelloDone"
  <2>1. At("client", "AwaitServerKeyExchange") /\ IsPsk(e.suite)
    BY <1>14 DEF AwaitServerKeyExchangePsk
  <2>2. /\ busy = "client" /\ Handshaking(e.state) /\ Rule(e, "AwaitServerKeyExchange")
        /\ Handshaking(to) /\ e.err = "none"
    BY <1>4, <2>1 DEF Handshaking
  <2>3. ASSUME NEW g, Like(e, g) PROVE Rule(g, to)
    <3> HIDE DEF e
    <3> QED
      BY <2>1, <2>2, <2>3 DEF ClientRules, Like, GroupHeard
  <2>4. CASE Go("client", e, to)
    <3>1. Rule(e, to)
      BY <1>2, <2>3
    <3> HIDE DEF e, to
    <3> QED
      BY <1>1, <1>2, <1>5, <2>2, <2>4, <3>1
  <2>5. CASE /\ Move("client", IF n.err = "none" THEN [f EXCEPT !.state = to] ELSE n)
             /\ UNCHANGED <<cfg, net, used>>
    <3>1. f = n
      BY DEF Same
    <3>2. n.err = "none" =>
             EngineOK(n, w) /\ Steady(n, n) /\ IsSeq(n.transcript) /\ Rule(n, to)
      BY <1>7, <2>2, <2>3
    <3> HIDE DEF e, f, to
    <3> QED
      BY <1>6, <2>2, <2>5, <3>1, <3>2
  <2> QED
    BY <1>14, <2>4, <2>5 DEF AwaitServerKeyExchangePsk, Take
<1>15. CASE AwaitCertificateRequest
  <2> DEFINE n == NextHandshake(e, "CertificateRequest")
             f == IF cfg.client.cert THEN [n EXCEPT !.certVerify = TRUE] ELSE Fail(n, "panic")
             to == "AwaitServerHelloDone"
  <2>1. At("client", "AwaitCertificateRequest")
    BY <1>15 DEF AwaitCertificateRequest
  <2>2. /\ busy = "client" /\ Handshaking(e.state) /\ Rule(e, "AwaitCertificateRequest")
        /\ Handshaking(to) /\ e.err = "none"
    BY <1>4, <2>1 DEF Handshaking
  <2>3. ASSUME NEW g, Like(e, g) PROVE Rule(g, to)
    <3> HIDE DEF e
    <3> QED
      BY <2>2, <2>3 DEF ClientRules, Like, GroupHeard
  <2>4. CASE Go("client", e, to)
    <3>1. Rule(e, to)
      BY <1>2, <2>3
    <3> HIDE DEF e, to
    <3> QED
      BY <1>1, <1>2, <1>5, <2>2, <2>4, <3>1
  <2>5. CASE /\ Move("client", IF n.err = "none" THEN [f EXCEPT !.state = to] ELSE n)
             /\ UNCHANGED <<cfg, net, used>>
    <3>1. ASSUME n.err = "none"
          PROVE  EngineOK(f, w) /\ Steady(n, f) /\ IsSeq(f.transcript) /\ Rule(f, to)
      <4>1. EngineOK(n, w) /\ Like(e, n)
        BY <1>7, <2>2, <3>1
      <4> HIDE DEF n
      <4>2. EngineOK(f, w) /\ Steady(n, f) /\ SameKeys(n, f)
        BY <4>1 DEF EngineOK, Fields, Steady, Fail, SameKeys
      <4> HIDE DEF f
      <4>3. Like(n, f)
        BY <4>1, <4>2, SameIsLike DEF Like
      <4>4. Like(e, f)
        BY <4>1, <4>3 DEF Like
      <4> QED
        BY <2>3, <4>2, <4>4 DEF Like
    <3> HIDE DEF e, f, to
    <3> QED
      BY <1>6, <2>2, <2>5, <3>1
  <2> QED
    BY <1>15, <2>4, <2>5 DEF AwaitCertificateRequest, Take
<1>16. CASE AwaitServerHelloDone
  <2> DEFINE n == NextHandshake(e, "ServerHelloDone")
             f == IF IsPsk(n.suite) THEN n ELSE [n EXCEPT !.events = Append(@, "PeerCert")]
             to == IF e.certVerify THEN "SendCertificate" ELSE "SendClientKeyExchange"
  <2>1. /\ At("client", "AwaitServerHelloDone")
        /\ Move("client", IF n.err = "none" THEN [f EXCEPT !.state = to] ELSE n)
        /\ UNCHANGED <<cfg, net, used>>
    BY <1>16 DEF AwaitServerHelloDone, Take
  <2>2. /\ busy = "client" /\ Handshaking(e.state) /\ Rule(e, "AwaitServerHelloDone")
        /\ Handshaking(to) /\ e.err = "none"
    BY <1>4, <2>1 DEF Handshaking
  <2>3. ASSUME n.err = "none"
        PROVE  EngineOK(f, w) /\ Steady(n, f) /\ IsSeq(f.transcript) /\ Rule(f, to)
    <3>1. EngineOK(n, w) /\ Like(e, n) /\ Steady(n, n) /\ SameKeys(n, n)
      BY <1>7, <2>2, <2>3 DEF SameKeys
    <3> HIDE DEF n
    <3>2. EngineOK(f, w) /\ Steady(n, f) /\ SameKeys(n, f)
      BY <3>1, EventOK
    <3> HIDE DEF f
    <3>3. Like(n, f)
      BY <3>1, <3>2, SameIsLike DEF Like
    <3> HIDE DEF e
    <3>4. Rule(f, to)
      BY <2>2, <3>1, <3>3 DEF ClientRules, Like, GroupHeard
    <3> QED
      BY <3>2, <3>3, <3>4 DEF Like
  <2> HIDE DEF e, f, to
  <2> QED
    BY <1>6, <2>1, <2>2, <2>3
<1>17. CASE SendClientCertificate
  <2> DEFINE f == CreateHandshake(b, "Certificate", NoBody)
             to == "SendClientKeyExchange"
  <2>1. At("client", "SendCertificate") /\ Go("client", f, to)
    BY <1>17 DEF SendClientCertificate, b
  <2>2. EngineOK(f, w) /\ Steady(e, f) /\ Like(e, f) /\ IsSeq(f.transcript)
    BY <1>3, <1>8
  <2> HIDE DEF e, f
  <2>3. busy = "client" /\ Handshaking(e.state) /\ Rule(e, "SendCertificate") /\ Handshaking(to)
    BY <1>4, <2>1 DEF Handshaking
  <2>4. Rule(f, to)
    BY <2>2, <2>3 DEF ClientRules, Like, GroupHeard
  <2> HIDE DEF to
  <2> QED
    BY <1>5, <2>1, <2>2, <2>3, <2>4
<1>18. CASE SendClientKeyExchange
  <2> DEFINE begun == IF e.certVerify THEN e ELSE b
             keyed == IF IsPsk(begun.suite) THEN ComputePskPreMasterSecret(begun, cfg.client.psk)
                      ELSE begun
             val == Body(<<IF IsPsk(begun.suite) THEN cfg.client.psk ELSE begun.group>>, <<>>)
             sent == CreateHandshake(keyed, "ClientKeyExchange", val)
             f == [sent EXCEPT !.session = sent.transcript]
             to == IF e.certVerify THEN "SendCertificateVerify" ELSE "SendChangeCipherSpec"
  <2>1. At("client", "SendClientKeyExchange") /\ Go("client", f, to)
    BY <1>18 DEF SendClientKeyExchange, CreateClientKeyExchange, b
  <2>2. busy = "client" /\ Handshaking(e.state) /\ Rule(e, "SendClientKeyExchange")
        /\ Handshaking(to)
    BY <1>4, <2>1 DEF Handshaking
  <2>3. EngineOK(begun, w) /\ Steady(e, begun) /\ SameKeys(e, begun)
    BY <1>1, <1>2, <1>3
  <2> HIDE DEF e, begun, to
  <2>4. EngineOK(keyed, w) /\ Steady(e, keyed) /\ keyed.suite = e.suite
        /\ keyed.group = e.group /\ keyed.peerCert = e.peerCert
        /\ keyed.transcript = e.transcript
    BY <2>3 DEF ComputePskPreMasterSecret, EngineOK, Fields, Steady, SameKeys
  <2> HIDE DEF keyed, val
  <2>5. EngineOK(sent, w) /\ Steady(keyed, sent) /\ Adds(keyed, sent, "ClientKeyExchange")
    BY <1>1, <2>4, SentIs
  <2> HIDE DEF sent
  <2>6. EngineOK(f, w) /\ Steady(sent, f) /\ f.suite = sent.suite /\ f.group = sent.group
        /\ f.peerCert = sent.peerCert /\ f.transcript = sent.transcript
        /\ f.session = sent.transcript
    BY <2>5 DEF EngineOK, Fields, Steady
  <2> HIDE DEF f
  <2>7. IsSeq(f.transcript) /\ SessionOK(f)
    <3>1. PICK m : f.transcript = Append(e.transcript, <<"ClientKeyExchange", m>>)
      BY <2>4, <2>5, <2>6 DEF Adds
    <3>2. NoKeyExchange(e.transcript)
      BY <2>2 DEF ClientRules
    <3> QED
      BY <1>1, <2>6, <3>1, <3>2, AppendIs DEF SessionOK
  <2>8. f.suite = e.suite /\ f.group = e.group /\ f.peerCert = e.peerCert /\ Steady(e, f)
    BY <2>4, <2>5, <2>6 DEF Adds, Steady
  <2>9. Rule(f, to)
    BY <2>2, <2>7, <2>8 DEF ClientRules, GroupHeard, to
  <2> QED
    BY <1>5, <2>1, <2>2, <2>6, <2>7, <2>8, <2>9
<1>19. CASE SendCertificateVerify
  <2> DEFINE f == CreateCertificateVerify(e)
             to == "SendChangeCipherSpec"
  <2>1. At("client", "SendCertificateVerify") /\ Go("client", f, to)
    BY <1>19 DEF SendCertificateVerify
  <2>2. EngineOK(f, w) /\ Steady(e, f) /\ Like(e, f) /\ IsSeq(f.transcript)
    BY <1>1, <1>2, <1>8 DEF CreateCertificateVerify
  <2> HIDE DEF e, f
  <2>3. busy = "client" /\ Handshaking(e.state) /\ Rule(e, "SendCertificateVerify")
        /\ Handshaking(to)
    BY <1>4, <2>1 DEF Handshaking
  <2>4. Rule(f, to)
    BY <2>2, <2>3 DEF ClientRules, Like, GroupHeard
  <2> HIDE DEF to
  <2> QED
    BY <1>5, <2>1, <2>2, <2>3, <2>4
<1>20. CASE SendClientChangeCipherSpec
  <2> DEFINE keyed == DeriveKeys(e)
             f == CreateRecord(keyed, CCS, TRUE)
             to == "SendFinished"
  <2>1. At("client", "SendChangeCipherSpec") /\ Go("client", f, to)
    BY <1>20 DEF SendClientChangeCipherSpec
  <2>2. busy = "client" /\ Handshaking(e.state) /\ Rule(e, "SendChangeCipherSpec")
        /\ Handshaking(to)
    BY <1>4, <2>1 DEF Handshaking
  <2> HIDE DEF e
  <2>3. /\ EngineOK(keyed, w) /\ Steady(e, keyed) /\ keyed.suite = e.suite
        /\ keyed.group = e.group /\ keyed.peerCert = e.peerCert
        /\ keyed.transcript = e.transcript /\ keyed.secret = e.secret
        /\ keyed.session = e.session /\ keyed.keys = DeriveExtendedMasterSecret(e)
    BY <1>1 DEF DeriveKeys, EngineOK, Fields, Steady
  <2>4. RecordOK(CCS, w.own, w.said)
    BY DEF RecordOK, CCS, Rec
  <2> HIDE DEF keyed
  <2>5. Becomes(keyed, f, w)
    BY <2>3, <2>4, CreateRecordOK
  <2> HIDE DEF f
  <2>6. EngineOK(f, w) /\ SameKeys(keyed, f) /\ Steady(e, f) /\ f.transcript = e.transcript
    BY <2>3, <2>5 DEF Becomes, Keeps, Steady, SameKeys
  <2>7. KeysOK(f)
    <3>1. SessionOK(e)
      BY <2>2 DEF ClientRules
    <3>2. SessionOK(f)
      BY <2>3, <2>6, <3>1 DEF SessionOK, SameKeys
    <3> QED
      BY <2>3, <2>6, <3>2 DEF KeysOK, DeriveExtendedMasterSecret, SameKeys
  <2>8. Rule(f, to)
    BY <2>2, <2>3, <2>6, <2>7 DEF ClientRules, SameKeys, GroupHeard
  <2> HIDE DEF to
  <2> QED
    BY <1>1, <1>5, <2>1, <2>2, <2>6, <2>8
<1>21. CASE SendClientFinished
  <2> DEFINE val == Body(<<>>, GenerateVerifyData(e, "client"))
             f == CreateHandshake(e, "Finished", val)
             to == "AwaitChangeCipherSpec"
  <2>1. At("client", "SendFinished") /\ Go("client", f, to)
    BY <1>21 DEF SendClientFinished
  <2> HIDE DEF val
  <2>2. EngineOK(f, w) /\ Steady(e, f) /\ Like(e, f) /\ IsSeq(f.transcript)
    BY <1>1, <1>2, <1>8
  <2> HIDE DEF e, f
  <2>3. busy = "client" /\ Handshaking(e.state) /\ Rule(e, "SendFinished")
        /\ Handshaking(to)
    BY <1>4, <2>1 DEF Handshaking
  <2>4. Rule(f, to)
    BY <2>2, <2>3 DEF ClientRules, Like, GroupHeard
  <2> HIDE DEF to
  <2> QED
    BY <1>5, <2>1, <2>2, <2>3, <2>4
<1>22. CASE AwaitChangeCipherSpec("client", "AwaitNewSessionTicket")
  <2> DEFINE d == DropPendingCCS(e)
             f == EnablePeerEncryption(d)
             to == "AwaitNewSessionTicket"
  <2>1. At("client", "AwaitChangeCipherSpec") /\ Go("client", f, to)
    BY <1>22 DEF AwaitChangeCipherSpec
  <2>2. Becomes(e, d, w)
    BY <1>1, DropPendingCCSOK
  <2> HIDE DEF d
  <2>3. Becomes(d, f, w)
    BY <2>2, EnablePeerEncryptionOK DEF Becomes
  <2> HIDE DEF e, f
  <2>4. EngineOK(f, w) /\ Steady(e, f) /\ SameKeys(e, f)
    BY <2>2, <2>3 DEF Becomes, Keeps, Steady, SameKeys
  <2>5. Like(e, f)
    BY <1>1, <2>4, SameIsLike
  <2>6. busy = "client" /\ Handshaking(e.state) /\ Rule(e, "AwaitChangeCipherSpec")
        /\ Handshaking(to)
    BY <1>4, <2>1 DEF Handshaking
  <2>7. Rule(f, to)
    BY <2>5, <2>6 DEF ClientRules, Like, GroupHeard
  <2> HIDE DEF to
  <2> QED
    BY <1>5, <2>1, <2>4, <2>5, <2>6, <2>7 DEF Like
<1>23. CASE AwaitNewSessionTicket
  <2> DEFINE to == "AwaitFinished"
  <2>1. At("client", "AwaitNewSessionTicket") /\ Go("client", e, to)
    BY <1>23 DEF AwaitNewSessionTicket
  <2> HIDE DEF e
  <2>2. busy = "client" /\ Handshaking(e.state) /\ Rule(e, "AwaitNewSessionTicket")
        /\ Handshaking(to)
    BY <1>4, <2>1 DEF Handshaking
  <2>3. Rule(e, to)
    BY <2>2 DEF ClientRules, GroupHeard
  <2> HIDE DEF to
  <2> QED
    BY <1>1, <1>2, <1>5, <2>1, <2>2, <2>3
<1> QED
  BY <1>9, <1>10, <1>11, <1>12, <1>13, <1>14, <1>15, <1>16, <1>17, <1>18, <1>19, <1>20,
     <1>21, <1>22, <1>23 DEF Client

----------------------------------------------------------------------------
(* The handlers of the server.                                             *)

LEMMA ServerHandlersOK ==
    ASSUME IInv, Server, ~SendServerKeyExchangeEcdhe, ~SendServerFinished,
           ~AwaitApplicationData("server")
    PROVE  IInv'
<1> DEFINE e == ep["server"]
           w == World("server", ep["server"])
           b == FlightBegin(e)
           Claimed == {"ServerHello", "ServerKeyExchange", "Finished"}
<1>1. EngineOK(e, w) /\ IsSeq(e.transcript) /\ w.said = Claims(e, Made(e))
  BY WorldIs DEF IInv, Phase, P
<1>2. Steady(e, e) /\ SameKeys(e, e) /\ Like(e, e)
  BY <1>1 DEF Steady, SameKeys, Like
<1>3. EngineOK(b, w) /\ Steady(e, b) /\ SameKeys(e, b) /\ Like(e, b)
  <2>1. Becomes(e, b, w)
    BY <1>1, FlightBeginOK
  <2> HIDE DEF b
  <2>2. SameKeys(e, b)
    BY <2>1 DEF Becomes, Keeps, SameKeys
  <2> QED
    BY <1>1, <2>1, <2>2, SameIsLike DEF Becomes, Keeps, Steady
<1>4. ASSUME NEW state, At("server", state), Handshaking(state)
      PROVE  /\ busy = "server" /\ e.state = state /\ e.err = "none"
             /\ ServerRules(e, state, Required) /\ Handshaking(e.state)
  BY <1>4 DEF At, IInv, ServerOK, P
<1> DEFINE Next1 == IInv'
<1> SUFFICES Next1
  OBVIOUS
<1> HIDE DEF w, Next1
<1>5. ASSUME NEW f, busy = "server", Handshaking(e.state), NEW to, Handshaking(to),
             Go("server", f, to), EngineOK(f, w), Steady(e, f), IsSeq(f.transcript),
             ServerFollows(e, f, to), f.err = "none" => ServerRules(f, to, Required)
      PROVE  Next1
  BY <1>5, ServerGo DEF w, Next1
<1>6. ASSUME NEW type, busy = "server", Handshaking(e.state), NEW to, Handshaking(to), NEW f,
             NEW n, n = NextHandshake(e, type),
             Move("server", IF n.err = "none" THEN [f EXCEPT !.state = to] ELSE n),
             UNCHANGED <<cfg, net, used>>,
             n.err = "none" => /\ EngineOK(f, w) /\ Steady(n, f) /\ IsSeq(f.transcript)
                               /\ ServerFollows(e, f, to)
                               /\ f.err = "none" => ServerRules(f, to, Required)
      PROVE  Next1
  BY <1>6, ServerTake DEF w, Next1
<1> HIDE DEF b
<1>7. ASSUME NEW type, type # "ClientKeyExchange", e.err = "none", NEW n,
             n = NextHandshake(e, type), n.err = "none"
      PROVE  EngineOK(n, w) /\ Steady(n, n) /\ Like(e, n) /\ IsSeq(n.transcript)
  <2>1. EngineOK(n, w) /\ Adds(e, n, type)
    BY <1>1, <1>7, TakenIs
  <2> QED
    BY <1>1, <1>7, <2>1, AddsIsLike DEF Steady, Like
<1>8. ASSUME NEW f, EngineOK(f, w), Steady(e, f), Like(e, f), NEW type, NEW val,
             type # "ClientKeyExchange",
             type \in DOMAIN w.said => Claim(type, f.nextSeq, val) \in w.said[type],
             NEW g, g = CreateHandshake(f, type, val)
      PROVE  EngineOK(g, w) /\ Steady(e, g) /\ Like(e, g) /\ IsSeq(g.transcript)
  <2>1. EngineOK(g, w) /\ Steady(f, g) /\ Adds(f, g, type)
    BY <1>8, SentIs
  <2>2. Like(f, g)
    BY <1>8, <2>1, AddsIsLike DEF Like
  <2> QED
    BY <1>8, <2>1, <2>2 DEF Steady, Like
<1>9. /\ DOMAIN w.said \subseteq Claimed
      /\ "ServerKeyExchange" \in DOMAIN w.said <=> ~IsPsk(e.suite)
      /\ w.said["ServerHello"] = IF SuiteChosen(e) THEN {e.suite} ELSE {}
  <2> DEFINE h == Claims(e, Made(e))
  <2>1. /\ DOMAIN h \subseteq Claimed
        /\ "ServerKeyExchange" \in DOMAIN h <=> ~IsPsk(e.suite)
        /\ h["ServerHello"] = IF SuiteChosen(e) THEN {e.suite} ELSE {}
    BY ClaimsAre
  <2> HIDE DEF h
  <2> QED
    BY <1>1, <2>1 DEF h
<1> DEFINE Rule(f, state) == ServerRules(f, state, Required)
<1>10. CASE AwaitClientHelloNoCookie
  <2> DEFINE n == NextHandshake(e, "ClientHello")
             begun == FlightBegin(n)
             val == Body(<<"cookie">>, <<>>)
             asked == CreateHandshake(begun, "HelloVerifyRequest", val)
             f == ResetServerForHelloVerifyRequest(asked)
             to == "AwaitClientHello"
  <2>1. At("server", "AwaitClientHello") /\ Go("server", f, to)
    BY <1>10 DEF AwaitClientHelloNoCookie
  <2>2. /\ busy = "server" /\ Handshaking(e.state) /\ Rule(e, "AwaitClientHello")
        /\ Handshaking(to) /\ e.err = "none" /\ e.state = "AwaitClientHello"
    BY <1>4, <2>1 DEF Handshaking
  <2>3. EngineOK(n, w) /\ Steady(e, n) /\ n.suite = e.suite /\ n.group = e.group
        /\ n.peerCert = e.peerCert
    <3>1. EngineOK(n, w) /\ Steady(e, n) /\ (Adds(e, n, "ClientHello") \/ SameKeys(e, n))
      BY <1>1, <2>2, TakenIs
    <3> QED
      BY <3>1 DEF Adds, SameKeys
  <2> HIDE DEF e, n, val
  <2>4. Becomes(n, begun, w)
    BY <2>3, FlightBeginOK
  <2> HIDE DEF begun
  <2>5. EngineOK(asked, w) /\ Steady(begun, asked) /\ Adds(begun, asked, "HelloVerifyRequest")
    <3>1. "HelloVerifyRequest" \notin DOMAIN w.said
      BY <1>9
    <3> QED
      BY <2>4, <3>1, SentIs DEF Becomes
  <2>6. QueueOK(<<>>, w.peer, w.heard) /\ IsSeq(<<>>) /\ NoKeyExchange(<<>>)
    BY EmptyIs DEF QueueOK, NoKeyExchange
  <2> HIDE DEF asked
  <2>7. EngineOK(f, w) /\ Steady(asked, f) /\ f.suite = asked.suite /\ f.group = asked.group
        /\ f.peerCert = asked.peerCert /\ f.transcript = <<>>
    BY <2>5, <2>6 DEF ResetServerForHelloVerifyRequest, EngineOK, Fields, Steady
  <2> HIDE DEF f
  <2>8. Steady(e, f) /\ f.suite = e.suite /\ f.group = e.group /\ f.peerCert = e.peerCert
    BY <2>3, <2>4, <2>5, <2>7 DEF Becomes, Keeps, Adds, Steady
  <2>9. ServerFollows(e, f, to)
    BY <2>2, <2>8 DEF ServerFollows
  <2>10. Rule(f, to)
    BY <2>2, <2>6, <2>7, <2>8 DEF ServerRules
  <2> HIDE DEF to
  <2> QED
    BY <1>5, <2>1, <2>2, <2>6, <2>7, <2>8, <2>9, <2>10
<1>11. CASE AwaitClientHello
  <2> DEFINE n == NextHandshake(e, "ClientHello")
             suites == SelectSuite(Arg("server")[2])
             groups == Arg("server")[3]
             f == IF suites = <<>> THEN Fail(n, "SecurityError")
                  ELSE [n EXCEPT !.suite = suites[1], !.groups = groups]
             to == "SendServerHello"
  <2>1. /\ At("server", "AwaitClientHello")
        /\ Move("server", IF n.err = "none" THEN [f EXCEPT !.state = to] ELSE n)
        /\ UNCHANGED <<cfg, net, used>>
    BY <1>11 DEF AwaitClientHello, Take
  <2>2. /\ busy = "server" /\ Handshaking(e.state) /\ Rule(e, "AwaitClientHello")
        /\ Handshaking(to) /\ e.err = "none" /\ e.state = "AwaitClientHello"
    BY <1>4, <2>1 DEF Handshaking
  <2> HIDE DEF suites, groups
  <2>3. ASSUME n.err = "none"
        PROVE  EngineOK(f, w) /\ Steady(n, f) /\ IsSeq(f.transcript) /\ ServerFollows(e, f, to)
               /\ (f.err = "none" => Rule(f, to))
    <3>1. EngineOK(n, w) /\ Like(e, n)
      BY <1>7, <2>2, <2>3
    <3> HIDE DEF n, e
    <3>2. EngineOK(f, w) /\ Steady(n, f) /\ f.group = n.group
          /\ f.peerCert = n.peerCert /\ f.transcript = n.transcript
          /\ (f.err # "none" => f.suite = n.suite)
      BY <2>3, <3>1 DEF EngineOK, Fields, Steady, Fail
    <3> HIDE DEF f
    <3>3. Rule(f, to)
      BY <2>2, <3>1, <3>2 DEF ServerRules, Like, IsPsk
    <3>4. ServerFollows(e, f, to)
      BY <2>2, <3>1, <3>2 DEF ServerFollows, Like, ServerRules
    <3> QED
      BY <3>1, <3>2, <3>3, <3>4 DEF Like
  <2> HIDE DEF e, f, to
  <2> QED
    BY <1>6, <2>1, <2>2, <2>3
<1>12. CASE SendServerHello
  <2> DEFINE f == CreateServerHello(b)
             to == IF IsPsk(e.suite) THEN "SendServerKeyExchange" ELSE "SendCertificate"
  <2>1. At("server", "SendServerHello") /\ Go("server", f, to)
    BY <1>12 DEF SendServerHello, b
  <2>2. /\ busy = "server" /\ Handshaking(e.state) /\ Rule(e, "SendServerHello")
        /\ Handshaking(to) /\ e.state = "SendServerHello"
    BY <1>4, <2>1 DEF Handshaking
  <2>3. EngineOK(f, w) /\ Steady(e, f) /\ Like(e, f) /\ IsSeq(f.transcript)
    <3> DEFINE val == Body(<<b.suite>>, <<>>)
    <3>1. Claim("ServerHello", b.nextSeq, val) \in w.said["ServerHello"]
      <4>1. b.suite = e.suite /\ w.said["ServerHello"] = {e.suite}
        BY <1>3, <1>9, <2>2 DEF SameKeys, SuiteChosen
      <4> QED
        BY <4>1 DEF Claim, Body
    <3> HIDE DEF val
    <3> QED
      BY <1>3, <1>8, <3>1 DEF CreateServerHello, val
  <2> HIDE DEF e, f
  <2>4. Rule(f, to) /\ ServerFollows(e, f, to)
    BY <2>2, <2>3 DEF ServerRules, ServerFollows, Like
  <2> HIDE DEF to
  <2> QED
    BY <1>5, <2>1, <2>2, <2>3, <2>4
<1>13. CASE SendServerCertificate
  <2> DEFINE f == CreateHandshake(e, "Certificate", NoBody)
             to == "SendServerKeyExchange"
  <2>1. At("server", "SendCertificate") /\ Go("server", f, to)
    BY <1>13 DEF SendServerCertificate
  <2>2. /\ busy = "server" /\ Handshaking(e.state) /\ Rule(e, "SendCertificate")
        /\ Handshaking(to) /\ e.state = "SendCertificate"
    BY <1>4, <2>1 DEF Handshaking
  <2>3. EngineOK(f, w) /\ Steady(e, f) /\ Like(e, f) /\ IsSeq(f.transcript)
    BY <1>1, <1>2, <1>8, <1>9
  <2> HIDE DEF e, f
  <2>4. Rule(f, to) /\ ServerFollows(e, f, to)
    BY <2>2, <2>3 DEF ServerRules, ServerFollows, Like
  <2> HIDE DEF to
  <2> QED
    BY <1>5, <2>1, <2>2, <2>3, <2>4
<1>14. CASE SendServerKeyExchangePsk
  <2> DEFINE f == IF cfg.server.hint THEN CreateHandshake(e, "ServerKeyExchange", NoBody) ELSE e
             to == "SendServerHelloDone"
  <2>1. At("server", "SendServerKeyExchange") /\ Go("server", f, to) /\ IsPsk(e.suite)
    BY <1>14 DEF SendServerKeyExchangePsk
  <2>2. /\ busy = "server" /\ Handshaking(e.state) /\ Rule(e, "SendServerKeyExchange")
        /\ Handshaking(to) /\ e.state = "SendServerKeyExchange"
    BY <1>4, <2>1 DEF Handshaking
  <2>3. EngineOK(f, w) /\ Steady(e, f) /\ Like(e, f) /\ IsSeq(f.transcript)
    BY <1>1, <1>2, <1>8, <1>9, <2>1
  <2> HIDE DEF e, f
  <2>4. Rule(f, to) /\ ServerFollows(e, f, to)
    BY <2>1, <2>2, <2>3 DEF ServerRules, ServerFollows, Like
  <2> HIDE DEF to
  <2> QED
    BY <1>5, <2>1, <2>2, <2>3, <2>4
<1>15. CASE SendCertificateRequest
  <2> DEFINE f == CreateCertificateRequest(e)
             to == "SendServerHelloDone"
  <2>1. At("server", "SendCertificateRequest") /\ Go("server", f, to)
    BY <1>15 DEF SendCertificateRequest
  <2>2. /\ busy = "server" /\ Handshaking(e.state) /\ Rule(e, "SendCertificateRequest")
        /\ Handshaking(to) /\ e.state = "SendCertificateRequest"
    BY <1>4, <2>1 DEF Handshaking
  <2>3. EngineOK(f, w) /\ Steady(e, f) /\ Like(e, f) /\ IsSeq(f.transcript)
    BY <1>1, <1>2, <1>8, <1>9 DEF CreateCertificateRequest
  <2> HIDE DEF e, f
  <2>4. Rule(f, to) /\ ServerFollows(e, f, to)
    BY <2>2, <2>3 DEF ServerRules, ServerFollows, Like
  <2> HIDE DEF to
  <2> QED
    BY <1>5, <2>1, <2>2, <2>3, <2>4
<1>16. CASE SendServerHelloDone
  <2> DEFINE f == CreateHandshake(e, "ServerHelloDone", NoBody)
             to == IF ~IsPsk(e.suite) /\ cfg.server.requireCert THEN "AwaitCertificate"
                   ELSE "AwaitClientKeyExchange"
  <2>1. At("server", "SendServerHelloDone") /\ Go("server", f, to)
    BY <1>16 DEF SendServerHelloDone
  <2>2. /\ busy = "server" /\ Handshaking(e.state) /\ Rule(e, "SendServerHelloDone")
        /\ Handshaking(to) /\ e.state = "SendServerHelloDone"
    BY <1>4, <2>1 DEF Handshaking
  <2>3. EngineOK(f, w) /\ Steady(e, f) /\ Like(e, f) /\ IsSeq(f.transcript)
    BY <1>1, <1>2, <1>8, <1>9
  <2> HIDE DEF e, f
  <2>4. Rule(f, to) /\ ServerFollows(e, f, to)
    <3>1. CertNeeded(f, Required) = CertNeeded(e, Required)
          /\ CertNeeded(e, Required) \in BOOLEAN
      BY <2>3 DEF CertNeeded, Like
    <3>2. IF CertNeeded(e, Required) THEN to = "AwaitCertificate"
          ELSE to = "AwaitClientKeyExchange"
      BY DEF CertNeeded, Required
    <3> HIDE DEF to
    <3>3. ServerFollows(e, f, to)
      BY <2>2, <2>3, <3>2 DEF ServerFollows, Like
    <3> QED
      BY <2>2, <2>3, <3>1, <3>2, <3>3 DEF ServerRules, Like
  <2> HIDE DEF to
  <2> QED
    BY <1>5, <2>1, <2>2, <2>3, <2>4
<1>17. CASE AwaitClientCertificate
  <2> DEFINE n == NextHandshake(e, "Certificate")
             g == [n EXCEPT !.events = Append(@, "PeerCert")]
             f == [g EXCEPT !.peerCert = TRUE]
             to == "AwaitClientKeyExchange"
  <2>1. /\ At("server", "AwaitCertificate")
        /\ Move("server", IF n.err = "none" THEN [f EXCEPT !.state = to] ELSE n)
        /\ UNCHANGED <<cfg, net, used>>
    BY <1>17 DEF AwaitClientCertificate, Take
  <2>2. /\ busy = "server" /\ Handshaking(e.state) /\ Rule(e, "AwaitCertificate")
        /\ Handshaking(to) /\ e.err = "none" /\ e.state = "AwaitCertificate"
    BY <1>4, <2>1 DEF Handshaking
  <2>3. ASSUME n.err = "none"
        PROVE  EngineOK(f, w) /\ Steady(n, f) /\ IsSeq(f.transcript) /\ ServerFollows(e, f, to)
               /\ Rule(f, to)
    <3>1. EngineOK(n, w) /\ Like(e, n)
      BY <1>7, <2>2, <2>3
    <3> HIDE DEF n, e
    <3>2. EngineOK(g, w) /\ Steady(n, g) /\ SameKeys(n, g)
      BY <3>1, EventOK
    <3> HIDE DEF g
    <3>3. EngineOK(f, w) /\ Steady(g, f) /\ f.suite = g.suite /\ f.group = g.group
          /\ f.peerCert = TRUE /\ f.transcript = g.transcript
      BY <3>2 DEF EngineOK, Fields, Steady
    <3> HIDE DEF f
    <3>4. f.suite = e.suite /\ f.group = e.group /\ f.transcript = n.transcript /\ Steady(n, f)
      BY <3>1, <3>2, <3>3 DEF Like, SameKeys, Steady
    <3>5. CertNeeded(f, Required) = TRUE
      BY <2>2, <3>4 DEF ServerRules, CertNeeded
    <3>6. Rule(f, to)
      BY <2>2, <3>1, <3>3, <3>4, <3>5 DEF ServerRules, Like
    <3>7. ServerFollows(e, f, to)
      BY <2>2, <3>4 DEF ServerFollows
    <3> QED
      BY <3>1, <3>3, <3>4, <3>6, <3>7 DEF Like
  <2> HIDE DEF e, f, to
  <2> QED
    BY <1>6, <2>1, <2>2, <2>3
<1>18. CASE AwaitClientKeyExchange
  <2> DEFINE n == NextHandshake(e, "ClientKeyExchange")
             psk == IsPsk(ep["server"].suite)
             known == Arg("server")[1] = "known"
             shared == IF psk THEN ComputePskPreMasterSecret(n, IF known THEN "known" ELSE "dummy")
                       ELSE ComputeSharedSecret(n)
             ready == [shared EXCEPT
                          !.pskValid = IF ~psk THEN @ ELSE IF known THEN "yes" ELSE "no",
                          !.session = n.transcript]
             f == DeriveKeys(ready)
             to == IF ep["server"].peerCert THEN "AwaitCertificateVerify"
                   ELSE "AwaitChangeCipherSpec"
  <2>1. /\ At("server", "AwaitClientKeyExchange")
        /\ Move("server", IF n.err = "none" THEN [f EXCEPT !.state = to] ELSE n)
        /\ UNCHANGED <<cfg, net, used>>
    BY <1>18 DEF AwaitClientKeyExchange, Take
  <2>2. /\ busy = "server" /\ Handshaking(e.state) /\ Rule(e, "AwaitClientKeyExchange")
        /\ Handshaking(to) /\ e.err = "none" /\ e.state = "AwaitClientKeyExchange"
    BY <1>4, <2>1 DEF Handshaking
  <2> HIDE DEF psk, known
  <2>3. ASSUME n.err = "none"
        PROVE  EngineOK(f, w) /\ Steady(n, f) /\ IsSeq(f.transcript) /\ ServerFollows(e, f, to)
               /\ Rule(f, to)
    <3>1. EngineOK(n, w) /\ Adds(e, n, "ClientKeyExchange")
      BY <1>1, <2>2, <2>3, TakenIs
    <3> HIDE DEF n, e
    <3>2. /\ EngineOK(f, w) /\ Steady(n, f) /\ f.suite = n.suite /\ f.group = n.group
          /\ f.peerCert = n.peerCert /\ f.transcript = n.transcript
          /\ f.session = n.transcript /\ f.keys = DeriveExtendedMasterSecret(f)
      <4>1. EngineOK(shared, w) /\ Steady(n, shared) /\ shared.suite = n.suite
            /\ shared.group = n.group /\ shared.peerCert = n.peerCert
            /\ shared.transcript = n.transcript
        BY <3>1 DEF EngineOK, Fields, Steady, ComputePskPreMasterSecret, ComputeSharedSecret
      <4> HIDE DEF shared
      <4>2. EngineOK(ready, w) /\ Steady(n, ready) /\ ready.suite = n.suite
            /\ ready.group = n.group /\ ready.peerCert = n.peerCert
            /\ ready.transcript = n.transcript /\ ready.session = n.transcript
        BY <4>1 DEF EngineOK, Fields, Steady
      <4> HIDE DEF ready
      <4>3. EngineOK(f, w) /\ Steady(ready, f) /\ SameKeys([ready EXCEPT !.keys = f.keys], f)
            /\ f.suite = ready.suite /\ f.group = ready.group /\ f.peerCert = ready.peerCert
            /\ f.transcript = ready.transcript /\ f.session = ready.session
            /\ f.secret = ready.secret /\ f.keys = DeriveExtendedMasterSecret(ready)
        BY <4>2 DEF EngineOK, Fields, Steady, DeriveKeys, SameKeys
      <4> HIDE DEF f
      <4>4. f.keys = DeriveExtendedMasterSecret(f)
        BY <4>3 DEF DeriveExtendedMasterSecret
      <4> QED
        BY <4>2, <4>3, <4>4 DEF Steady
    <3> HIDE DEF f
    <3>3. IsSeq(f.transcript) /\ SessionOK(f)
      <4>1. PICK m : n.transcript = Append(e.transcript, <<"ClientKeyExchange", m>>)
        BY <3>1 DEF Adds
      <4>2. NoKeyExchange(e.transcript)
        BY <2>2 DEF ServerRules
      <4> QED
        BY <1>1, <3>2, <4>1, <4>2, AppendIs DEF SessionOK
    <3>4. KeysOK(f)
      BY <3>2, <3>3 DEF KeysOK
    <3>5. f.suite = e.suite /\ f.group = e.group /\ f.peerCert = e.peerCert
      BY <3>1, <3>2 DEF Adds
    <3>6. CertNeeded(f, Required) = CertNeeded(e, Required)
      BY <3>5 DEF CertNeeded
    <3>7. to \in {"AwaitCertificateVerify", "AwaitChangeCipherSpec"}
      OBVIOUS
    <3> HIDE DEF to
    <3>8. Rule(f, to)
      BY <2>2, <3>4, <3>5, <3>6, <3>7 DEF ServerRules
    <3>9. ServerFollows(e, f, to)
      BY <2>2, <3>5, <3>7 DEF ServerFollows
    <3> QED
      BY <3>2, <3>3, <3>8, <3>9
  <2> HIDE DEF e, f, to
  <2> QED
    BY <1>6, <2>1, <2>2, <2>3
<1>19. CASE AwaitCertificateVerify
  <2> DEFINE n == NextHandshake(e, "CertificateVerify")
             f == IF MessageBody(e).hash = e.transcript THEN n ELSE Fail(n, "CryptoError")
             to == "AwaitChangeCipherSpec"
  <2>1. /\ At("server", "AwaitCertificateVerify")
        /\ Move("server", IF n.err = "none" THEN [f EXCEPT !.state = to] ELSE n)
        /\ UNCHANGED <<cfg, net, used>>
    BY <1>19 DEF AwaitCertificateVerify, Take
  <2>2. /\ busy = "server" /\ Handshaking(e.state) /\ Rule(e, "AwaitCertificateVerify")
        /\ Handshaking(to) /\ e.err = "none" /\ e.state = "AwaitCertificateVerify"
    BY <1>4, <2>1 DEF Handshaking
  <2>3. ASSUME n.err = "none"
        PROVE  EngineOK(f, w) /\ Steady(n, f) /\ IsSeq(f.transcript) /\ ServerFollows(e, f, to)
               /\ Rule(f, to)
    <3>1. EngineOK(n, w) /\ Like(e, n)
      BY <1>7, <2>2, <2>3
    <3> HIDE DEF n
    <3>2. EngineOK(f, w) /\ Steady(n, f) /\ SameKeys(n, f)
      BY <3>1 DEF EngineOK, Fields, Steady, Fail, SameKeys
    <3> HIDE DEF f, e
    <3>3. Like(n, f)
      BY <3>1, <3>2, SameIsLike DEF Like
    <3>4. Like(e, f)
      BY <3>1, <3>3 DEF Like
    <3>5. CertNeeded(f, Required) = CertNeeded(e, Required)
      BY <3>4 DEF CertNeeded, Like
    <3>6. Rule(f, to)
      BY <2>2, <3>4, <3>5 DEF ServerRules, Like
    <3>7. ServerFollows(e, f, to)
      BY <2>2, <3>4 DEF ServerFollows, Like
    <3> QED
      BY <3>2, <3>4, <3>6, <3>7 DEF Like
  <2> HIDE DEF e, f, to
  <2> QED
    BY <1>6, <2>1, <2>2, <2>3
<1>20. CASE AwaitChangeCipherSpec("server", "AwaitFinished")
  <2> DEFINE d == DropPendingCCS(e)
             f == EnablePeerEncryption(d)
             to == "AwaitFinished"
  <2>1. At("server", "AwaitChangeCipherSpec") /\ Go("server", f, to)
    BY <1>20 DEF AwaitChangeCipherSpec
  <2>2. Becomes(e, d, w)
    BY <1>1, DropPendingCCSOK
  <2> HIDE DEF d
  <2>3. Becomes(d, f, w)
    BY <2>2, EnablePeerEncryptionOK DEF Becomes
  <2>4. /\ busy = "server" /\ Handshaking(e.state) /\ Rule(e, "AwaitChangeCipherSpec")
        /\ Handshaking(to) /\ e.state = "AwaitChangeCipherSpec"
    BY <1>4, <2>1 DEF Handshaking
  <2> HIDE DEF e, f
  <2>5. EngineOK(f, w) /\ Steady(e, f) /\ SameKeys(e, f)
    BY <2>2, <2>3 DEF Becomes, Keeps, Steady, SameKeys
  <2>6. Like(e, f)
    BY <1>1, <2>5, SameIsLike
  <2>7. CertNeeded(f, Required) = CertNeeded(e, Required)
    BY <2>6 DEF CertNeeded, Like
  <2>8. Rule(f, to)
    BY <2>4, <2>6, <2>7 DEF ServerRules, Like
  <2>9. ServerFollows(e, f, to)
    BY <2>4, <2>6 DEF ServerFollows, Like
  <2> HIDE DEF to
  <2> QED
    BY <1>5, <2>1, <2>4, <2>5, <2>6, <2>8, <2>9 DEF Like
<1>21. CASE AwaitClientFinished
  <2> DEFINE n == NextHandshake(e, "Finished")
             f == IF MessageBody(e).hash # GenerateVerifyData(e, "client")
                  THEN Fail(n, "SecurityError")
                  ELSE IF IsPsk(n.suite) /\ n.pskValid = "unset" THEN Fail(n, "panic")
                  ELSE IF n.pskValid = "no" THEN Fail(n, "SecurityError")
                  ELSE n
             to == "SendChangeCipherSpec"
  <2>1. /\ At("server", "AwaitFinished")
        /\ Move("server", IF n.err = "none" THEN [f EXCEPT !.state = to] ELSE n)
        /\ UNCHANGED <<cfg, net, used>>
    BY <1>21 DEF AwaitClientFinished, Take
  <2>2. /\ busy = "server" /\ Handshaking(e.state) /\ Rule(e, "AwaitFinished")
        /\ Handshaking(to) /\ e.err = "none" /\ e.state = "AwaitFinished"
    BY <1>4, <2>1 DEF Handshaking
  <2>3. ASSUME n.err = "none"
        PROVE  EngineOK(f, w) /\ Steady(n, f) /\ IsSeq(f.transcript) /\ ServerFollows(e, f, to)
               /\ Rule(f, to)
    <3>1. EngineOK(n, w) /\ Like(e, n)
      BY <1>7, <2>2, <2>3
    <3> HIDE DEF n
    <3>2. EngineOK(f, w) /\ Steady(n, f) /\ SameKeys(n, f)
      BY <3>1 DEF EngineOK, Fields, Steady, Fail, SameKeys
    <3> HIDE DEF f, e
    <3>3. Like(n, f)
      BY <3>1, <3>2, SameIsLike DEF Like
    <3>4. Like(e, f)
      BY <3>1, <3>3 DEF Like
    <3>5. CertNeeded(f, Required) = CertNeeded(e, Required)
      BY <3>4 DEF CertNeeded, Like
    <3>6. Rule(f, to)
      BY <2>2, <3>4, <3>5 DEF ServerRules, Like
    <3>7. ServerFollows(e, f, to)
      BY <2>2, <3>4 DEF ServerFollows, Like
    <3> QED
      BY <3>2, <3>4, <3>6, <3>7 DEF Like
  <2> HIDE DEF e, f, to
  <2> QED
    BY <1>6, <2>1, <2>2, <2>3
<1>22. CASE SendServerChangeCipherSpec
  <2> DEFINE f == CreateRecord(b, CCS, TRUE)
             to == "SendFinished"
  <2>1. At("server", "SendChangeCipherSpec") /\ Go("server", f, to)
    BY <1>22 DEF SendServerChangeCipherSpec, b
  <2>2. /\ busy = "server" /\ Handshaking(e.state) /\ Rule(e, "SendChangeCipherSpec")
        /\ Handshaking(to) /\ e.state = "SendChangeCipherSpec"
    BY <1>4, <2>1 DEF Handshaking
  <2>3. RecordOK(CCS, w.own, w.said)
    BY DEF RecordOK, CCS, Rec
  <2>4. Becomes(b, f, w)
    BY <1>3, <2>3, CreateRecordOK
  <2> HIDE DEF e, f
  <2>5. EngineOK(f, w) /\ Steady(e, f) /\ SameKeys(e, f)
    BY <1>3, <2>4 DEF Becomes, Keeps, Steady, SameKeys
  <2>6. Like(e, f)
    BY <1>1, <2>5, SameIsLike
  <2>7. CertNeeded(f, Required) = CertNeeded(e, Required)
    BY <2>6 DEF CertNeeded, Like
  <2>8. Rule(f, to)
    BY <2>2, <2>6, <2>7 DEF ServerRules, Like
  <2>9. ServerFollows(e, f, to)
    BY <2>2, <2>6 DEF ServerFollows, Like
  <2> HIDE DEF to
  <2> QED
    BY <1>5, <2>1, <2>2, <2>5, <2>6, <2>8, <2>9 DEF Like
<1> QED
  BY <1>10, <1>11, <1>12, <1>13, <1>14, <1>15, <1>16, <1>17, <1>18, <1>19, <1>20,
     <1>21, <1>22 DEF Server

----------------------------------------------------------------------------
(* The keys and the verify data, as sequences.                             *)

\* u is t after s.
Follows(s, t, u) ==
    /\ Len(s) \in Nat /\ Len(t) \in Nat /\ Len(u) = Len(s) + Len(t)
    /\ \A i \in 1..Len(s) : u[i] = s[i]
    /\ \A i \in 1..Len(t) : u[i + Len(s)] = t[i]

LEMMA ConcatAt ==
    ASSUME NEW s, IsSeq(s), NEW t, IsSeq(t)
    PROVE  Follows(s, t, s \o t)
<1> DEFINE S == ToSet(s) \cup ToSet(t)
<1>1. s \in Seq(S) /\ t \in Seq(S)
  BY SeqInto
<1> HIDE DEF S
<1>2. DOMAIN s = 1..Len(s) /\ DOMAIN t = 1..Len(t) /\ Len(s) \in Nat /\ Len(t) \in Nat
  BY <1>1
<1>3. Len(s \o t) = Len(s) + Len(t)
  BY <1>1
<1>4. \A i \in 1..Len(s) : (s \o t)[i] = s[i]
  BY <1>1, <1>2
<1>5. \A i \in 1..Len(t) : (s \o t)[i + Len(s)] = t[i]
  BY <1>1, <1>2
<1> QED
  BY <1>2, <1>3, <1>4, <1>5 DEF Follows

LEMMA KeysAre ==
    ASSUME NEW e, KeysOK(e)
    PROVE  /\ IsSeq(e.keys) /\ Len(e.keys) \in Nat \ {0, 1}
           /\ e.keys[Len(e.keys)][1] = "ClientKeyExchange"
           /\ \A i \in 2..(Len(e.keys) - 1) : e.keys[i][1] # "ClientKeyExchange"
<1> DEFINE first == << <<e.secret, 0>> >>
<1>1. PICK t, m : IsSeq(t) /\ NoKeyExchange(t) /\ e.session = Append(t, <<"ClientKeyExchange", m>>)
  BY DEF KeysOK, SessionOK
<1> DEFINE last == <<"ClientKeyExchange", m>>
           s == Append(t, last)
           n == Len(t)
<1>2. n \in Nat /\ DOMAIN t = 1..n /\ \A i \in 1..n : t[i][1] # "ClientKeyExchange"
  BY <1>1, SeqHas DEF NoKeyExchange
<1>3. IsSeq(s) /\ Len(s) = n + 1 /\ s[n + 1] = last /\ \A i \in 1..n : s[i] = t[i]
  <2> DEFINE S == ToSet(t) \cup {last}
  <2>1. t \in Seq(S) /\ last \in S
    BY <1>1, SeqInto
  <2> HIDE DEF S, last
  <2> QED
    BY <1>1, <2>1, AppendIs
<1>4. last[1] = "ClientKeyExchange"
  OBVIOUS
<1>5. IsSeq(first) /\ Len(first) = 1
  BY OneIs
<1>6. e.keys = first \o s
  BY <1>1 DEF KeysOK, DeriveExtendedMasterSecret
<1> HIDE DEF first, last, s, n
<1>7. IsSeq(first \o s)
  BY <1>3, <1>5, ConcatIs
<1>8. Len(first \o s) = n + 2 /\ \A i \in 1..(n + 1) : (first \o s)[i + 1] = s[i]
  <2> DEFINE u == first \o s
  <2>1. Follows(first, s, u)
    BY <1>3, <1>5, ConcatAt
  <2> HIDE DEF u
  <2>2. Len(u) = n + 2 /\ \A i \in 1..(n + 1) : u[i + 1] = s[i]
    BY <1>2, <1>3, <1>5, <2>1 DEF Follows
  <2> QED
    BY <2>2 DEF u
<1> DEFINE k == first \o s
<1>9. k[n + 2] = s[n + 1]
  <2>1. n + 1 \in 1..(n + 1) /\ (n + 1) + 1 = n + 2
    BY <1>2
  <2> QED
    BY <1>8, <2>1
<1>10. ASSUME NEW i \in 2..(n + 1) PROVE k[i] = t[i - 1] /\ i - 1 \in 1..n
  <2>1. i - 1 \in 1..(n + 1) /\ (i - 1) + 1 = i /\ i - 1 \in 1..n
    BY <1>2
  <2> QED
    BY <1>3, <1>8, <2>1
<1> HIDE DEF k
<1>11. Len(k) = n + 2 /\ IsSeq(k)
  BY <1>7, <1>8 DEF k
<1>12. \A i \in 2..(n + 1) : k[i][1] # "ClientKeyExchange"
  BY <1>2, <1>10
<1>13. (n + 2) - 1 = n + 1 /\ n + 2 \in Nat \ {0, 1}
  BY <1>2
<1> QED
  BY <1>3, <1>4, <1>6, <1>9, <1>11, <1>12, <1>13 DEF k

\* The Finished of the server is hashed with the rest.
WithFinished(e, f, mseq) ==
    f.keys = e.keys /\ f.transcript = Append(e.transcript, <<"Finished", mseq>>)

VerifiesWith(e, f, mseq) ==
    GenerateVerifyData(f, "server") =
        Append(GenerateVerifyData(e, "server"), <<"Finished", mseq>>)

LEMMA VerifyAppend ==
    ASSUME NEW e, IsSeq(e.keys), IsSeq(e.transcript), NEW f, NEW mseq, WithFinished(e, f, mseq)
    PROVE  VerifiesWith(e, f, mseq)
<1> DEFINE x == <<"Finished", mseq>>
           a == << <<"server", 0>> >>
           b == e.keys
           c == e.transcript
           S == ToSet(a) \cup ToSet(b) \cup ToSet(c) \cup {x}
<1>1. IsSeq(a)
  BY OneIs
<1> HIDE DEF a
<1>2. a \in Seq(S) /\ b \in Seq(S) /\ c \in Seq(S) /\ x \in S
  BY <1>1, SeqInto
<1> HIDE DEF b, c, S, x
<1>3. a \o b \o Append(c, x) = Append(a \o b \o c, x)
  <2> DEFINE d == a \o b
  <2>1. d \in Seq(S)
    BY <1>2
  <2> HIDE DEF d
  <2>2. d \o Append(c, x) = Append(d \o c, x)
    BY <1>2, <2>1
  <2> QED
    BY <2>2 DEF d
<1>4. GenerateVerifyData(f, "server") = a \o b \o Append(c, x)
      /\ GenerateVerifyData(e, "server") = a \o b \o c
  BY DEF GenerateVerifyData, WithFinished, a, b, c, x
<1> QED
  BY <1>3, <1>4 DEF VerifiesWith, x

\* What the verify data is drawn from can be read back from it.
LEMMA VerifyCut ==
    ASSUME NEW e, KeysOK(e), IsSeq(e.transcript), NEW f, KeysOK(f), IsSeq(f.transcript),
           GenerateVerifyData(e, "server") = GenerateVerifyData(f, "server")
    PROVE  e.keys = f.keys /\ e.transcript = f.transcript
<1> DEFINE Parts(x, g) ==
       LET n == Len(x.keys)
           m == Len(x.transcript)
       IN  /\ n \in Nat \ {0, 1} /\ m \in Nat /\ Len(g) = n + m + 1
           /\ x.keys = [i \in 1..n |-> g[i + 1]]
           /\ x.transcript = [i \in 1..m |-> g[i + n + 1]]
           /\ g[n + 1][1] = "ClientKeyExchange"
           /\ \A i \in 2..(n - 1) : g[i + 1][1] # "ClientKeyExchange"
<1>1. ASSUME NEW x, KeysOK(x), IsSeq(x.transcript)
      PROVE  Parts(x, GenerateVerifyData(x, "server"))
  <2> DEFINE a == << <<"server", 0>> >>
             b == x.keys
             c == x.transcript
             n == Len(b)
             m == Len(c)
             S == ToSet(a) \cup ToSet(b) \cup ToSet(c)
  <2>1. /\ IsSeq(b) /\ n \in Nat \ {0, 1} /\ b[n][1] = "ClientKeyExchange"
        /\ \A i \in 2..(n - 1) : b[i][1] # "ClientKeyExchange"
    BY <1>1, KeysAre
  <2>2. IsSeq(a) /\ Len(a) = 1
    BY OneIs
  <2> HIDE DEF a
  <2>3. a \in Seq(S) /\ b \in Seq(S) /\ c \in Seq(S)
    BY <1>1, <2>1, <2>2, SeqInto
  <2>4. GenerateVerifyData(x, "server") = a \o b \o c
    BY DEF GenerateVerifyData, a
  <2> HIDE DEF b, c, S, n, m
  <2> DEFINE d == a \o b
             g == d \o c
  <2>5. IsSeq(d) /\ Len(d) = n + 1 /\ \A i \in 1..n : d[i + 1] = b[i]
    <3>1. Follows(a, b, d)
      BY <2>1, <2>2, ConcatAt
    <3>2. IsSeq(d)
      BY <2>1, <2>2, ConcatIs
    <3> HIDE DEF d
    <3> QED
      BY <2>1, <2>2, <3>1, <3>2 DEF n, Follows
  <2> HIDE DEF d
  <2>6. m \in Nat /\ Len(g) = n + m + 1 /\ (\A i \in 1..(n + 1) : g[i] = d[i])
        /\ \A i \in 1..m : g[i + n + 1] = c[i]
    <3>0. IsSeq(c)
      BY <1>1 DEF c
    <3>a. Follows(d, c, g)
      BY <2>5, <3>0, ConcatAt
    <3> HIDE DEF g
    <3>1. /\ m \in Nat /\ Len(g) = Len(d) + m
          /\ \A i \in 1..Len(d) : g[i] = d[i]
          /\ \A i \in 1..m : g[i + Len(d)] = c[i]
      BY <3>a DEF m, Follows
    <3>2. n \in Nat
      BY <2>1
    <3>3. ASSUME NEW i \in 1..m PROVE g[i + n + 1] = c[i]
      <4>1. i + n + 1 = i + Len(d)
        BY <2>5, <3>1, <3>2
      <4> QED
        BY <3>1, <4>1
    <3>4. Len(g) = n + m + 1
      BY <2>5, <3>1, <3>2
    <3> QED
      BY <2>5, <3>1, <3>3, <3>4
  <2> HIDE DEF g
  <2>7. \A i \in 1..n : g[i + 1] = b[i]
    <3> SUFFICES ASSUME NEW i \in 1..n PROVE g[i + 1] = b[i]
      OBVIOUS
    <3>1. i + 1 \in 1..(n + 1)
      BY <2>1
    <3> QED
      BY <2>5, <2>6, <3>1
  <2>8. b = [i \in 1..n |-> g[i + 1]]
    BY <2>3, <2>7 DEF n
  <2>9. c = [i \in 1..m |-> g[i + n + 1]]
    BY <2>3, <2>6 DEF m
  <2>10. g[n + 1][1] = "ClientKeyExchange" /\ \A i \in 2..(n - 1) : g[i + 1][1] # "ClientKeyExchange"
    BY <2>1, <2>7
  <2>11. GenerateVerifyData(x, "server") = g
    BY <2>4 DEF g, d
  <2> QED
    BY <2>1, <2>6, <2>8, <2>9, <2>10, <2>11 DEF n, m, b, c
<1> DEFINE g == GenerateVerifyData(e, "server")
           n == Len(e.keys)
           k == Len(f.keys)
           m == Len(e.transcript)
           l == Len(f.transcript)
<1>2. /\ n \in Nat \ {0, 1} /\ m \in Nat /\ Len(g) = n + m + 1
      /\ e.keys = [i \in 1..n |-> g[i + 1]] /\ e.transcript = [i \in 1..m |-> g[i + n + 1]]
      /\ g[n + 1][1] = "ClientKeyExchange"
      /\ \A i \in 2..(n - 1) : g[i + 1][1] # "ClientKeyExchange"
  <2>1. Parts(e, g)
    BY <1>1
  <2> QED
    BY <2>1
<1>3. /\ k \in Nat \ {0, 1} /\ l \in Nat /\ Len(g) = k + l + 1
      /\ f.keys = [i \in 1..k |-> g[i + 1]] /\ f.transcript = [i \in 1..l |-> g[i + k + 1]]
      /\ g[k + 1][1] = "ClientKeyExchange"
      /\ \A i \in 2..(k - 1) : g[i + 1][1] # "ClientKeyExchange"
  <2>1. Parts(f, GenerateVerifyData(f, "server"))
    BY <1>1
  <2> QED
    BY <2>1
<1> HIDE DEF g, n, k, m, l, Parts
<1>4. ~(n < k)
  <2> SUFFICES ASSUME n < k PROVE FALSE
    OBVIOUS
  <2>1. n \in 2..(k - 1)
    BY <1>2, <1>3
  <2> QED
    BY <1>2, <1>3, <2>1
<1>5. ~(k < n)
  <2> SUFFICES ASSUME k < n PROVE FALSE
    OBVIOUS
  <2>1. k \in 2..(n - 1)
    BY <1>2, <1>3
  <2> QED
    BY <1>2, <1>3, <2>1
<1>6. n = k /\ m = l
  <2>1. n \in Nat /\ m \in Nat /\ k \in Nat /\ l \in Nat /\ n + m + 1 = k + l + 1
    BY <1>2, <1>3
  <2> QED
    BY <1>4, <1>5, <2>1
<1> QED
  BY <1>2, <1>3, <1>6

----------------------------------------------------------------------------
(* The handlers that make a claim or check the last one.                   *)

\* The server names its group.
LEMMA SendServerKeyExchangeEcdheOK ==
    ASSUME IInv, SendServerKeyExchangeEcdhe
    PROVE  IInv'
<1> DEFINE e == ep["server"]
           w == World("server", ep["server"])
           groups == SelectNamedGroup(e.groups)
           to == IF cfg.server.requireCert THEN "SendCertificateRequest" ELSE "SendServerHelloDone"
           init == InitEcdhServer(e, groups[1])
           val == Body(<<groups[1]>>, <<>>)
           f == CreateHandshake(init, "ServerKeyExchange", val)
           x == IF f.err = "none" THEN [f EXCEPT !.state = to] ELSE f
<1>1. /\ busy = "server" /\ e.state = "SendServerKeyExchange" /\ ~IsPsk(e.suite)
      /\ Go("server", IF groups = <<>> THEN Fail(e, "SecurityError") ELSE f, to)
  BY DEF SendServerKeyExchangeEcdhe, At, CreateServerKeyExchange
<1>2. /\ Handshaking(e.state) /\ Handshaking(to) /\ EngineOK(e, w) /\ IsSeq(e.transcript)
      /\ to \in {"SendCertificateRequest", "SendServerHelloDone"}
  BY <1>1 DEF Handshaking, IInv, Phase, P
<1>3. e.err = "none" /\ ~Made(e)
  BY <1>1, <1>2, NotMade DEF P
<1>4. e.peerCert = FALSE /\ NoKeyExchange(e.transcript)
  BY <1>1, <1>3 DEF IInv, ServerOK, ServerRules
<1> HIDE DEF groups, to, w
<1>5. CASE groups = <<>>
  <2> DEFINE g == Fail(e, "SecurityError")
  <2>1. EngineOK(g, w) /\ Steady(e, g) /\ SameKeys(e, g) /\ g.err = "SecurityError"
    BY <1>2 DEF EngineOK, Fields, Steady, SameKeys, Fail
  <2>2. Go("server", g, to)
    BY <1>1, <1>5
  <2> HIDE DEF g
  <2>3. ServerFollows(e, g, to) /\ IsSeq(g.transcript)
    BY <1>1, <1>2, <2>1 DEF ServerFollows, SameKeys
  <2> QED
    BY <1>1, <1>2, <2>1, <2>2, <2>3, ServerGo DEF w
<1>6. CASE groups # <<>>
  <2> DEFINE u == [own |-> w.own, said |-> NoClaims, peer |-> w.peer, heard |-> w.heard]
             v == World("server", x)
  <2>1. Move("server", x) /\ UNCHANGED <<cfg, net, used>>
    BY <1>1, <1>6 DEF Go
  <2>2. ASSUME NEW z, EngineOK(e, z)
        PROVE  /\ EngineOK(init, z) /\ Steady(e, init) /\ init.suite = e.suite
               /\ init.group = groups[1] /\ init.peerCert = e.peerCert
               /\ init.transcript = e.transcript
    BY <2>2 DEF InitEcdhServer, EngineOK, Fields, Steady
  <2> HIDE DEF init
  <2>3. EngineOK(e, u)
    <3>1. Grows(w.said, NoClaims) /\ Grows(w.heard, w.heard)
      BY DEF Grows, NoClaims
    <3>2. u.own = w.own /\ u.peer = w.peer /\ u.said = NoClaims /\ u.heard = w.heard
      OBVIOUS
    <3> HIDE DEF u
    <3> QED
      BY <1>2, <3>1, <3>2, EngineGrows
  <2>4. "ServerKeyExchange" \notin DOMAIN u.said
    BY DEF NoClaims
  <2> HIDE DEF u, val
  <2>5. /\ EngineOK(f, u) /\ Steady(init, f) /\ Adds(init, f, "ServerKeyExchange")
        /\ f.transcript = Append(init.transcript, <<"ServerKeyExchange", init.nextSeq>>)
    BY <2>2, <2>3, <2>4, SentIs
  <2> HIDE DEF f
  <2>6. /\ x.err = f.err /\ (x.err = "none" => x.state = to)
        /\ (x.err # "none" => x.state = e.state)
        /\ Steady([e EXCEPT !.state = x.state], x) /\ SameKeys(f, x)
    <3>1. EngineOK(e, u) /\ EngineOK(f, u) /\ Steady(e, f)
      BY <2>2, <2>3, <2>5 DEF Steady
    <3> QED
      BY <3>1 DEF EngineOK, Fields, Steady, SameKeys
  <2>7. ASSUME NEW z, EngineOK(f, z) PROVE EngineOK(x, z)
    BY <2>7 DEF EngineOK, Fields
  <2> HIDE DEF x
  <2>8. /\ x.suite = e.suite /\ x.group = groups[1] /\ x.peerCert = e.peerCert
        /\ x.transcript = Append(e.transcript, <<"ServerKeyExchange", init.nextSeq>>)
    BY <2>2, <2>3, <2>5, <2>6 DEF Adds, SameKeys
  <2>9. Handshaking(x.state) /\ ServerFollows(e, x, x.state)
    BY <1>1, <1>2, <2>6, <2>8 DEF ServerFollows
  <2>10. IsSeq(x.transcript) /\ NoKeyExchange(x.transcript)
    <3>1. <<"ServerKeyExchange", init.nextSeq>>[1] = "ServerKeyExchange"
      OBVIOUS
    <3> QED
      BY <1>2, <1>4, <2>8, <3>1, AppendIs, NoKeyAppend
  <2>11. x.err = "none" => ServerRules(x, x.state, Required)
    BY <1>1, <1>2, <1>4, <2>6, <2>8, <2>10 DEF ServerRules
  <2>12. EngineOK(e, v)
    <3>1. ServerGrows(e, x)
      BY <1>3, <2>9, ServerGoes
    <3> QED
      BY <1>2, <3>1, WorldGrows, EngineGrows DEF w
  <2>13. "ServerKeyExchange" \in DOMAIN v.said =>
            Claim("ServerKeyExchange", init.nextSeq, val) \in v.said["ServerKeyExchange"]
    <3>1. GroupChosen(x) /\ ~IsPsk(x.suite)
      BY <1>1, <1>2, <2>6, <2>8 DEF GroupChosen
    <3>2. v.said = Claims(x, Made(x))
      BY WorldIs
    <3>3. v.said["ServerKeyExchange"] = {groups[1]}
      BY <2>8, <3>1, <3>2, ClaimsAre
    <3>4. Claim("ServerKeyExchange", init.nextSeq, val) = groups[1]
      BY DEF Claim, val, Body
    <3> QED
      BY <3>3, <3>4
  <2> HIDE DEF v
  <2>14. EngineOK(f, v)
    BY <2>2, <2>12, <2>13, SentIs DEF f
  <2>15. EngineOK(x, v)
    BY <2>7, <2>14
  <2> QED
    BY <1>1, <1>2, <2>1, <2>6, <2>9, <2>10, <2>11, <2>15, ServerMoves DEF v
<1> QED
  BY <1>5, <1>6

\* The server reports the connection when it makes its Finished.
LEMMA SendServerFinishedOK ==
    ASSUME IInv, SendServerFinished
    PROVE  IInv'
<1> DEFINE e == ep["server"]
           w == World("server", ep["server"])
           val == Body(<<>>, GenerateVerifyData(e, "server"))
           sent == CreateHandshake(e, "Finished", val)
           f == Finish(sent)
           x == IF f.err = "none" THEN [f EXCEPT !.state = "AwaitApplicationData"] ELSE f
           u == [own |-> w.own, said |-> NoClaims, peer |-> w.peer, heard |-> w.heard]
           v == World("server", x)
<1>1. /\ busy = "server" /\ e.state = "SendFinished"
      /\ Move("server", x) /\ UNCHANGED <<cfg, net, used>>
  BY DEF SendServerFinished, At, Go
<1>2. /\ Handshaking(e.state) /\ EngineOK(e, w) /\ IsSeq(e.transcript)
  BY <1>1 DEF Handshaking, IInv, Phase, P
<1>3. e.err = "none" /\ ~Made(e)
  BY <1>1, <1>2, NotMade DEF P
<1>4. /\ e.peerCert = CertNeeded(e, Required) /\ KeysOK(e)
      /\ (IsPsk(e.suite) => e.group = "none")
  BY <1>1, <1>3 DEF IInv, ServerOK, ServerRules
<1> HIDE DEF w
<1>5. EngineOK(e, u) /\ "Finished" \notin DOMAIN u.said
  <2>1. Grows(w.said, NoClaims) /\ Grows(w.heard, w.heard) /\ DOMAIN NoClaims = {}
    BY DEF Grows, NoClaims
  <2>2. u.own = w.own /\ u.peer = w.peer /\ u.said = NoClaims /\ u.heard = w.heard
    OBVIOUS
  <2> HIDE DEF u
  <2> QED
    BY <1>2, <2>1, <2>2, EngineGrows
<1> HIDE DEF u, val
<1>6. /\ EngineOK(sent, u) /\ Steady(e, sent) /\ Adds(e, sent, "Finished")
      /\ sent.transcript = Append(e.transcript, <<"Finished", e.nextSeq>>)
  BY <1>5, SentIs
<1>7. /\ EngineOK(f, u) /\ f.err = sent.err /\ f.state = sent.state /\ f.told = sent.told
      /\ f.release /\ SameKeys(sent, f) /\ "Connected" \in ToSet(f.events)
  <2> HIDE DEF sent
  <2> QED
    BY <1>6, FinishOK
<1> HIDE DEF f
<1>8. /\ x.err = f.err /\ (x.err = "none" => x.state = "AwaitApplicationData")
      /\ (x.err # "none" => x.state = f.state)
      /\ x.told = f.told /\ x.events = f.events /\ x.release /\ SameKeys(f, x)
  BY <1>7 DEF EngineOK, Fields, SameKeys
<1>9. ASSUME NEW z, EngineOK(f, z) PROVE EngineOK(x, z)
  BY <1>9 DEF EngineOK, Fields
<1> HIDE DEF x, sent
<1>10. /\ x.suite = e.suite /\ x.group = e.group /\ x.peerCert = e.peerCert
       /\ x.secret = e.secret /\ x.session = e.session /\ x.keys = e.keys
       /\ x.transcript = Append(e.transcript, <<"Finished", e.nextSeq>>)
       /\ Made(x) /\ (Told(x) <=> Told(e))
  BY <1>6, <1>7, <1>8 DEF Adds, SameKeys, Made, Told, Steady
<1>11. IsSeq(x.transcript) /\ Phase(x)
  <2>1. IsSeq(x.transcript)
    BY <1>2, <1>10, AppendIs
  <2> QED
    BY <1>8, <2>1 DEF Phase
<1>12. ServerDone(x, Required)
  <2>1. SessionOK(x)
    BY <1>4, <1>10 DEF KeysOK, SessionOK
  <2>2. KeysOK(x)
    BY <1>4, <1>10, <2>1 DEF KeysOK, DeriveExtendedMasterSecret
  <2>3. CertNeeded(x, Required) = CertNeeded(e, Required)
    BY <1>10 DEF CertNeeded
  <2> QED
    BY <1>4, <1>10, <2>2, <2>3 DEF ServerDone
<1>13. ServerOK(x, Required)
  <2>1. ServerRules(x, "AwaitApplicationData", Required)
    BY <1>12 DEF ServerRules, ServerDone
  <2> QED
    BY <1>8, <1>12, <2>1 DEF ServerOK
<1>14. ServerGrows(e, x)
  <2>1. x.state \in {"AwaitApplicationData", "SendFinished"}
    BY <1>1, <1>6, <1>7, <1>8 DEF Steady
  <2> HIDE DEF e
  <2> QED
    BY <1>1, <1>3, <1>10, <2>1 DEF ServerGrows, SuiteChosen, GroupChosen, Made, IsPsk
<1>15. EngineOK(e, v)
  BY <1>2, <1>14, WorldGrows, EngineGrows DEF w
<1>16. "Finished" \in DOMAIN v.said => Claim("Finished", e.nextSeq, val) \in v.said["Finished"]
  <2>1. v.said = Claims(x, Made(x))
    BY WorldIs
  <2>2. v.said["Finished"] = {GenerateVerifyData(x, "server")}
    BY <1>10, <2>1, ClaimsAre
  <2>3. Claim("Finished", e.nextSeq, val) =
            Append(GenerateVerifyData(e, "server"), <<"Finished", e.nextSeq>>)
    BY DEF Claim, val, Body
  <2>4. GenerateVerifyData(x, "server") =
            Append(GenerateVerifyData(e, "server"), <<"Finished", e.nextSeq>>)
    <3>1. IsSeq(e.keys)
      BY <1>4, KeysAre
    <3>2. WithFinished(e, x, e.nextSeq)
      BY <1>10 DEF WithFinished
    <3> QED
      BY <1>2, <3>1, <3>2, VerifyAppend DEF VerifiesWith
  <2> QED
    BY <2>2, <2>3, <2>4
<1> HIDE DEF v
<1>17. EngineOK(sent, v)
  BY <1>15, <1>16, SentIs DEF sent
<1>18. EngineOK(f, v)
  BY <1>17, FinishOK DEF f
<1>19. EngineOK(x, v)
  BY <1>9, <1>18
<1>20. ep' = [ep EXCEPT !["server"] = x] /\ (busy' = "nobody" \/ (busy' = "server" /\ x.err = "none"))
  BY <1>1 DEF Move
<1> QED
  BY <1>1, <1>11, <1>13, <1>14, <1>19, <1>20, ServerStep DEF v

\* The client takes the Finished of the server, and with it all that it stands for.
LEMMA AwaitServerFinishedOK ==
    ASSUME IInv, AwaitServerFinished
    PROVE  IInv'
<1> DEFINE e == ep["client"]
           w == World("client", ep["server"])
           m == Pending(e)[1].rec.mseq
           right == MessageBody(e).hash = GenerateVerifyData(e, "server")
           h == Hashed(e, "Finished", m)
           n == NextHandshake(e, "Finished")
           f == IF right THEN Finish(n) ELSE Fail(n, "SecurityError")
           x == IF n.err = "none" THEN [f EXCEPT !.state = "AwaitApplicationData"] ELSE n
<1>1. /\ busy = "client" /\ e.state = "AwaitFinished" /\ HasCompleteHandshake(e, "Finished")
      /\ Move("client", x) /\ UNCHANGED <<cfg, net, used>>
  BY DEF AwaitServerFinished, At, Take, Got
<1>2. /\ Handshaking(e.state) /\ EngineOK(e, w) /\ IsSeq(e.transcript) /\ w.heard = Heard
  BY <1>1, WorldIs DEF Handshaking, IInv, Phase, P, Heard
<1>3. e.err = "none" /\ ~Made(e)
  BY <1>1, <1>2, NotMade DEF P
<1>4. /\ e.suite \in Heard["ServerHello"] /\ e.peerCert = ~IsPsk(e.suite)
      /\ GroupHeard(e, Heard) /\ KeysOK(e)
  BY <1>1, <1>3 DEF IInv, ClientOK, ClientRules
<1>5. Claim("Finished", m, MessageBody(e)) \in Heard["Finished"]
  BY <1>1, <1>2, HeardIs, MessageIsPeers
<1>6. \/ n.err # "none" /\ Becomes(e, n, w)
      \/ n.err = "none" /\ Becomes(h, n, w)
  BY <1>2, <1>3, NextHandshakeOK
<1>7. /\ h.suite = e.suite /\ h.group = e.group /\ h.peerCert = e.peerCert
      /\ h.secret = e.secret /\ h.session = e.session /\ h.keys = e.keys
      /\ h.transcript = Append(e.transcript, <<"Finished", m>>)
      /\ h.told = e.told /\ h.state = e.state /\ h.release = e.release /\ h.events = e.events
  BY <1>2 DEF Hashed, EngineOK, Fields
<1> HIDE DEF w, n, h, m
<1>8. CASE n.err # "none"
  <2>1. x = n
    BY <1>8
  <2>2. EngineOK(n, w) /\ Keeps(e, n)
    BY <1>6, <1>8 DEF Becomes
  <2> HIDE DEF x, f
  <2>3. Steady([e EXCEPT !.state = x.state], x) /\ IsSeq(x.transcript) /\ Handshaking(x.state)
    BY <1>2, <2>1, <2>2 DEF Keeps, Steady, EngineOK, Fields
  <2> QED
    BY <1>1, <1>2, <1>8, <2>1, <2>2, <2>3, ClientMoves DEF w
<1>9. CASE n.err = "none"
  <2>1. EngineOK(n, w) /\ Keeps(h, n)
    BY <1>6, <1>9 DEF Becomes
  <2>2. IsSeq(n.transcript)
    BY <1>2, <1>7, <2>1, AppendIs DEF Keeps
  <2>3. x = [f EXCEPT !.state = "AwaitApplicationData"]
    BY <1>9
  <2>4. CASE ~right
    <3>1. f = Fail(n, "SecurityError")
      BY <2>4
    <3> HIDE DEF f, x
    <3>2. /\ EngineOK(x, w) /\ x.err = "SecurityError" /\ x.state = "AwaitApplicationData"
          /\ x.told = n.told /\ x.events = n.events /\ x.transcript = n.transcript
      BY <2>1, <2>3, <3>1 DEF EngineOK, Fields, Fail
    <3>3. ~Made(x)
      BY <1>3, <1>7, <2>1, <3>2 DEF Keeps, Made, Told
    <3>4. Phase(x) /\ ClientOK(x, Heard)
      BY <2>2, <3>2, <3>3 DEF Phase, ClientOK
    <3> QED
      BY <1>1, <3>2, <3>4, ClientStep DEF Move, w
  <2>5. CASE right
    <3>1. f = Finish(n)
      BY <2>5
    <3> HIDE DEF f
    <3>2. /\ EngineOK(f, w) /\ f.err = "none" /\ f.told = n.told /\ f.release /\ SameKeys(n, f)
      BY <1>9, <2>1, <3>1, FinishOK
    <3> HIDE DEF x
    <3>3. /\ EngineOK(x, w) /\ x.err = "none" /\ x.state = "AwaitApplicationData" /\ x.release
          /\ SameKeys(f, x)
      BY <2>3, <3>2 DEF EngineOK, Fields, SameKeys
    <3>4. /\ x.suite = e.suite /\ x.group = e.group /\ x.peerCert = e.peerCert
          /\ x.secret = e.secret /\ x.session = e.session /\ x.keys = e.keys
          /\ x.transcript = Append(e.transcript, <<"Finished", m>>)
      BY <1>7, <2>1, <3>2, <3>3 DEF Keeps, SameKeys
    <3>5. IsSeq(x.transcript) /\ Phase(x)
      <4>1. IsSeq(x.transcript)
        BY <1>2, <3>4, AppendIs
      <4> QED
        BY <3>3, <4>1 DEF Phase
    <3>6. KeysOK(x)
      <4>1. SessionOK(x)
        BY <1>4, <3>4 DEF KeysOK, SessionOK
      <4> QED
        BY <1>4, <3>4, <4>1 DEF KeysOK, DeriveExtendedMasterSecret
    <3>7. GenerateVerifyData(x, "server") \in Heard["Finished"]
      <4>1. IsSeq(e.keys)
        BY <1>4, KeysAre
      <4>2. Claim("Finished", m, MessageBody(e)) =
                Append(GenerateVerifyData(e, "server"), <<"Finished", m>>)
        BY <2>5 DEF Claim
      <4>3. WithFinished(e, x, m)
        BY <3>4 DEF WithFinished
      <4>4. VerifiesWith(e, x, m)
        BY <1>2, <4>1, <4>3, VerifyAppend
      <4> QED
        BY <1>5, <4>2, <4>4 DEF VerifiesWith
    <3>8. GroupHeard(x, Heard)
      BY <1>4, <3>4 DEF GroupHeard
    <3>9. ClientOK(x, Heard)
      <4>1. ClientDone(x, Heard)
        BY <1>4, <3>4, <3>6, <3>7, <3>8 DEF ClientDone
      <4>2. ClientRules(x, "AwaitApplicationData", Heard)
        BY DEF ClientRules
      <4> QED
        BY <3>3, <4>1, <4>2 DEF ClientOK
    <3> QED
      BY <1>1, <3>3, <3>5, <3>9, ClientStep DEF Move, w
  <2> QED
    BY <2>4, <2>5
<1> QED
  BY <1>8, <1>9

----------------------------------------------------------------------------
(* The connection in use, the calls, the timers and the network.           *)

LEMMA AwaitApplicationDataOK ==
    ASSUME IInv, NEW p \in P, AwaitApplicationData(p)
    PROVE  IInv'
<1> DEFINE e == ep[p]
           w == World(p, ep["server"])
<1>1. EngineOK(e, w) /\ Phase(e) /\ busy = p /\ e.state = "AwaitApplicationData"
  BY DEF AwaitApplicationData, At, IInv
<1>2. e.release /\ e.err = "none"
  BY <1>1 DEF IInv, Phase, P
<1> DEFINE Next1 == IInv'
<1> SUFFICES Next1
  OBVIOUS
<1> HIDE DEF w, Next1
<1>3. ASSUME NEW f, EngineOK(f, w), Steady(e, f), SameKeys(e, f), NEW to,
             to \in {"AwaitApplicationData", "Closed"}, Go(p, f, to)
      PROVE  Next1
  <2> DEFINE g == IF f.err = "none" THEN [f EXCEPT !.state = to] ELSE f
  <2>1. /\ EngineOK(g, w) /\ g.release /\ g.told = e.told /\ g.events = f.events
        /\ SameKeys(e, g) /\ g.state \in {"AwaitApplicationData", "Closed"}
    BY <1>1, <1>2, <1>3 DEF EngineOK, Fields, Steady, SameKeys
  <2>2. Move(p, g) /\ net' = net /\ cfg' = cfg
    BY <1>3 DEF Go
  <2> HIDE DEF g
  <2>3. Phase(g)
    BY <1>1, <2>1 DEF Phase, SameKeys
  <2>4. "Connected" \in ToSet(g.events) <=> "Connected" \in ToSet(e.events)
    BY <1>3, <2>1 DEF Steady
  <2> QED
    BY <1>1, <1>2, <2>1, <2>2, <2>3, <2>4, SteadyStep DEF w, Next1
<1>4. CASE Go(p, AnswerClose(e), "Closed")
  BY <1>1, <1>3, <1>4, AnswerCloseOK
<1>5. CASE Go(p, SendQueued(e), "AwaitApplicationData")
  BY <1>1, <1>3, <1>5, SendQueuedOK
<1> QED
  BY <1>4, <1>5 DEF AwaitApplicationData

\* The caller hears of the connection with the datagrams that follow from it.
LEMMA YieldOK ==
    ASSUME IInv, NEW p \in P, Yield(p)
    PROVE  IInv'
<1> DEFINE e == ep[p]
           s == ep["server"]
           w == World(p, s)
           f == Drained(e)
           r == IF p = "server" THEN f ELSE s
<1>1. EngineOK(e, w) /\ Phase(e) /\ e.err = "none"
  BY DEF IInv, Yield, Blocked
<1>2. /\ EngineOK(f, w) /\ f.tx = <<>> /\ f.saved = e.saved /\ f.err = e.err
      /\ f.state = e.state /\ f.release = e.release /\ SameKeys(e, f) /\ ToSet(f.events) = {}
      /\ ToSet(e.told) \cup ToSet(e.events) \subseteq ToSet(f.told)
      /\ ToSet(f.told) \subseteq ToSet(e.told) \cup ToSet(e.events) \cup w.peer \cup {"CloseNotify"}
  BY <1>1, DrainedOK
<1>3. ep' = [ep EXCEPT ![p] = f] /\ busy' = "nobody" /\ cfg' = cfg
      /\ net' = net \cup {[to |-> Peer(p), records |-> e.tx[i]] : i \in DOMAIN e.tx}
  BY DEF Yield
<1> HIDE DEF f
<1>4. "Connected" \notin w.peer
  <2>1. w.peer = ToSet(DATA[Peer(p)])
    BY WorldIs
  <2>2. PICK a, b, c, d : DATA[Peer(p)] = <<a, b, c, d>>
                          /\ "Connected" \notin {a, b, c, d}
    <3>1. DATA["client"] = <<"c1", "c2", "c3", "c4">> /\ DATA["server"] = <<"s1", "s2", "s3", "s4">>
      BY DEF DATA
    <3>2. Peer(p) = "client" \/ Peer(p) = "server"
      BY DEF Peer
    <3> QED
      BY <3>1, <3>2
  <2>3. ToSet(<<a, b, c, d>>) = {a, b, c, d}
    BY DEF ToSet
  <2> QED
    BY <2>1, <2>2, <2>3
<1> HIDE DEF w
<1>5. (Made(f) <=> Made(e)) /\ (Made(e) => Told(f)) /\ (Told(e) => Told(f))
  BY <1>2, <1>4 DEF Made, Told
<1>6. Phase(f)
  BY <1>1, <1>2, <1>5 DEF Phase, SameKeys
<1>7. ASSUME NEW m \in net' PROVE m \in net \/ MessageOK(m, r)
  <2> SUFFICES ASSUME m \notin net PROVE MessageOK(m, r)
    OBVIOUS
  <2>1. PICK i \in DOMAIN e.tx : m = [to |-> Peer(p), records |-> e.tx[i]]
    BY <1>3
  <2>2. m.to = Peer(p) /\ m.records = e.tx[i] /\ Peer(p) \in P /\ Peer(Peer(p)) = p
    BY <2>1 DEF Peer, P
  <2>3. RecordsOK(e.tx[i], w.own, w.said)
    BY <1>1, SeqHas DEF EngineOK, DatagramsOK
  <2> DEFINE u == World(Peer(p), r)
  <2>4. u.peer = w.own
    <3>1. u.peer = ToSet(DATA[p]) /\ w.own = ToSet(DATA[p])
      BY <2>2, WorldIs DEF w
    <3> QED
      BY <3>1
  <2>5. Grows(w.said, u.heard)
    <3>1. CASE p = "server"
      <4>1. GenerateVerifyData(f, "server") = GenerateVerifyData(e, "server")
        BY <1>2, SameRules
      <4>2. ServerGrows(e, f)
        BY <1>2, <1>5, <4>1 DEF ServerGrows, SuiteChosen, GroupChosen, SameKeys
      <4>3. Made(e) => Told(f) /\ Made(e)
        BY <1>5
      <4>4. Grows(Claims(e, Made(e)), Claims(f, Told(f)))
        BY <4>2, <4>3, ClaimsGrow
      <4>5. w.said = Claims(e, Made(e))
        BY <3>1, WorldIs DEF w
      <4>6. r = f /\ Peer(p) = "client"
        BY <3>1 DEF Peer
      <4>7. u.heard = Claims(f, Told(f))
        BY <4>6, WorldIs
      <4> QED
        BY <4>4, <4>5, <4>7
    <3>2. CASE p = "client"
      <4>1. Grows(NoClaims, NoClaims)
        BY DEF Grows, NoClaims
      <4>2. w.said = NoClaims
        BY <3>2, WorldIs DEF w
      <4>3. u.heard = NoClaims
        BY <3>2, WorldIs DEF Peer
      <4> QED
        BY <4>1, <4>2, <4>3
    <3> QED
      BY <3>1, <3>2 DEF P
  <2> HIDE DEF u, r
  <2>6. RecordsOK(m.records, u.peer, u.heard)
    BY <2>2, <2>3, <2>4, <2>5, RecordsGrow
  <2> QED
    BY <2>2, <2>6 DEF MessageOK, u
<1> HIDE DEF e
<1> QED
  BY <1>1, <1>2, <1>3, <1>5, <1>6, <1>7, KeptStep DEF w, e

\* The engine alone: a timer or a packet leaves an endpoint that has nothing to
\* repeat with nothing to send.
LEMMA EngineStepOK ==
    ASSUME IInv, NEW p \in P, NEW e, cfg' = cfg, \A m \in net' : m \in net,
           Becomes(ep[p], e, World(p, ep["server"])), Quiet(ep[p], e), ep[p].err = "none",
           Move(p, e)
    PROVE  IInv'
<1>1. Phase(e)
  BY DEF IInv, Phase, Becomes, Keeps, Quiet, Made, Told
<1>2. SameKeys(ep[p], e)
  BY DEF Becomes, Keeps, SameKeys
<1> QED
  BY <1>1, <1>2, SteadyStep DEF Becomes, Keeps

LEMMA TimersOK ==
    ASSUME IInv, Timers
    PROVE  IInv'
<1>1. ASSUME NEW p \in P, Arm(p) PROVE IInv'
  <2> DEFINE e == ep[p]
             w == World(p, ep["server"])
             f == HandleEngineTimeout(e, FALSE)
             g == [f EXCEPT !.ready = TRUE]
  <2>1. EngineOK(e, w) /\ e.err = "none" /\ Move(p, g) /\ net' = net /\ cfg' = cfg
    BY <1>1 DEF Arm, Idle, IInv
  <2>2. Becomes(e, f, w) /\ Quiet(e, f)
    BY <2>1, HandleEngineTimeoutOK
  <2> HIDE DEF f, e, w
  <2>3. Becomes(e, g, w) /\ Quiet(e, g)
    BY <2>2 DEF Becomes, Keeps, Quiet, EngineOK, Fields
  <2> HIDE DEF g
  <2> QED
    BY <2>1, <2>3, EngineStepOK DEF e, w
<1>2. ASSUME NEW p \in P, NEW late, Idle(p), Move(p, HandleEngineTimeout(ep[p], late)),
             net' = net, cfg' = cfg
      PROVE  IInv'
  <2>1. EngineOK(ep[p], World(p, ep["server"]))
    BY DEF IInv
  <2>2. /\ Becomes(ep[p], HandleEngineTimeout(ep[p], late), World(p, ep["server"]))
        /\ Quiet(ep[p], HandleEngineTimeout(ep[p], late))
    BY <2>1, HandleEngineTimeoutOK
  <2> QED
    BY <1>2, <2>2, EngineStepOK DEF Idle
<1> QED
  BY <1>1, <1>2 DEF Timers, FlightTimerFires, MayFire, ConnectTimerFires

LEMMA NetworkOK ==
    ASSUME IInv, NEW m \in net, Deliver(m) \/ Repeat(m) \/ Lose(m)
    PROVE  IInv'
<1>1. CASE Deliver(m) \/ Repeat(m)
  <2> DEFINE p == m.to
             w == World(p, ep["server"])
  <2>1. /\ Idle(p) /\ Move(p, ParsePacket(ep[p], m.records)) /\ \A x \in net' : x \in net
        /\ cfg' = cfg
    BY <1>1 DEF Deliver, Repeat
  <2>2. p \in P /\ EngineOK(ep[p], w) /\ RecordsOK(m.records, w.peer, w.heard)
    BY DEF IInv, MessageOK
  <2> HIDE DEF w
  <2>3. Becomes(ep[p], ParsePacket(ep[p], m.records), w)
        /\ Quiet(ep[p], ParsePacket(ep[p], m.records))
    BY <2>2, ParsePacketOK
  <2> HIDE DEF p
  <2> QED
    BY <2>1, <2>2, <2>3, EngineStepOK DEF Idle, w
<1>2. CASE Lose(m)
  BY <1>2 DEF Lose, IInv, Required, Heard
<1> QED
  BY <1>1, <1>2

\* What an application sends is its own, and waits until the handshake is over.
LEMMA SendApplicationDataOK ==
    ASSUME IInv, NEW p \in P, SendApplicationData(p)
    PROVE  IInv'
<1> DEFINE e == ep[p]
           w == World(p, ep["server"])
           d == DATA[p][Len(e.accepted) + 1]
           taken == [e EXCEPT !.accepted = Append(@, d)]
           sent == CreateRecord(taken, AppData(d), FALSE)
           waiting == [taken EXCEPT !.queued = Append(@, d)]
<1>1. EngineOK(e, w) /\ Phase(e) /\ e.err = "none" /\ e.state # "Closed"
      /\ Len(e.accepted) < Len(DATA[p]) /\ net' = net /\ cfg' = cfg
      /\ Move(p, IF e.state = "AwaitApplicationData" THEN sent ELSE waiting)
  BY DEF SendApplicationData, Idle, IInv
<1>2. d \in w.own
  <2>1. Len(e.accepted) \in Nat
    BY <1>1, SeqHas DEF EngineOK
  <2>2. IsSeq(DATA[p]) /\ DOMAIN DATA[p] = 1..Len(DATA[p]) /\ Len(DATA[p]) \in Nat
    <3>1. PICK a, b, c, f : DATA[p] = <<a, b, c, f>>
      BY DEF DATA, P
    <3>2. IsSeq(<<a, b, c, f>>)
      BY DEF IsSeq, ToSet
    <3> QED
      BY <3>1, <3>2, SeqHas
  <2>3. Len(e.accepted) + 1 \in DOMAIN DATA[p]
    BY <1>1, <2>1, <2>2
  <2>4. d \in ToSet(DATA[p])
    BY <2>3 DEF ToSet
  <2> QED
    BY <2>4, WorldIs
<1> HIDE DEF d, w
<1>3. EngineOK(taken, w) /\ taken.state = e.state /\ taken.release = e.release
      /\ taken.told = e.told /\ taken.events = e.events /\ SameKeys(e, taken)
  <2>1. IsSeq(Append(e.accepted, d))
    BY <1>1, AppendIs DEF EngineOK
  <2> QED
    BY <1>1, <2>1 DEF EngineOK, Fields, SameKeys
<1> HIDE DEF taken
<1>4. Becomes(taken, sent, w)
  <2>1. RecordOK(AppData(d), w.own, w.said)
    BY <1>2 DEF RecordOK, AppData, Rec, Body
  <2> QED
    BY <1>3, <2>1, CreateRecordOK
<1>5. EngineOK(waiting, w) /\ waiting.state = e.state /\ waiting.release = e.release
      /\ waiting.told = e.told /\ waiting.events = e.events /\ SameKeys(e, waiting)
      /\ waiting.err = taken.err
  <2>1. IsSeq(Append(taken.queued, d)) /\ ToSet(Append(taken.queued, d)) \subseteq w.own
    <3>1. IsSeq(taken.queued) /\ ToSet(taken.queued) \subseteq w.own
      BY <1>3 DEF EngineOK
    <3>2. IsSeq(Append(taken.queued, d))
          /\ ToSet(Append(taken.queued, d)) = ToSet(taken.queued) \cup {d}
      BY <3>1, AppendIs
    <3> QED
      BY <1>2, <3>1, <3>2
  <2> QED
    BY <1>3, <2>1 DEF EngineOK, Fields, SameKeys
<1> HIDE DEF sent, waiting, e
<1>6. CASE e.state = "AwaitApplicationData"
  <2>1. sent.told = e.told /\ sent.events = e.events /\ sent.state = e.state
        /\ sent.release = e.release /\ SameKeys(e, sent) /\ EngineOK(sent, w)
    BY <1>3, <1>4 DEF Becomes, Keeps, SameKeys
  <2>2. Phase(sent)
    BY <1>1, <1>6, <2>1 DEF Phase, SameKeys
  <2> QED
    BY <1>1, <1>6, <2>1, <2>2, SteadyStep DEF e, w
<1>7. CASE e.state # "AwaitApplicationData"
  <2>1. Made(waiting) <=> Made(e)
    BY <1>5 DEF Made, Told
  <2>2. Phase(waiting)
    BY <1>1, <1>5, <1>7, <2>1 DEF Phase, SameKeys
  <2> QED
    BY <1>1, <1>5, <1>7, <2>2, SteadyStep DEF e, w
<1> QED
  BY <1>6, <1>7

LEMMA CloseOK ==
    ASSUME IInv, NEW p \in P, Close(p)
    PROVE  IInv'
<1> DEFINE e == ep[p]
           w == World(p, ep["server"])
           sent == CreateRecord(e, CloseNotify, FALSE)
           left == IF e.state = "AwaitApplicationData" THEN sent ELSE Abort(e)
           f == IF left.err = "none" THEN [left EXCEPT !.state = "Closed"] ELSE left
<1>1. EngineOK(e, w) /\ Phase(e) /\ e.err = "none" /\ e.state # "Closed" /\ net' = net
      /\ Move(p, f) /\ cfg' = cfg
  BY DEF Close, Closing, Idle, IInv
<1> HIDE DEF w
<1>2. Becomes(e, sent, w)
  <2>1. RecordOK(CloseNotify, w.own, w.said)
    BY DEF RecordOK, CloseNotify, Rec
  <2> QED
    BY <1>1, <2>1, CreateRecordOK
<1>3. Becomes(e, Abort(e), w) /\ Abort(e).tx = <<>> /\ Abort(e).saved = <<>>
  BY <1>1, AbortOK
<1>4. Becomes(e, left, w) /\ (left.release \/ (left.tx = <<>> /\ left.saved = <<>>))
      /\ (left.state = "AwaitApplicationData" => left.release)
  <2> HIDE DEF sent
  <2> QED
    BY <1>1, <1>2, <1>3 DEF Phase, Becomes, Keeps
<1> HIDE DEF left
<1>5. /\ EngineOK(f, w) /\ f.told = e.told /\ f.events = e.events /\ SameKeys(e, f)
      /\ f.tx = left.tx /\ f.saved = left.saved /\ f.release = left.release
      /\ (f.err = "none" => f.state = "Closed") /\ f.state \in {e.state, "Closed"}
  BY <1>4 DEF Becomes, Keeps, EngineOK, Fields, SameKeys
<1> HIDE DEF f
<1>6. Phase(f)
  BY <1>1, <1>4, <1>5 DEF Phase, SameKeys
<1> HIDE DEF e
<1> QED
  BY <1>1, <1>5, <1>6, SteadyStep DEF e, w

LEMMA InitOK == Init => IInv
<1> SUFFICES ASSUME Init PROVE IInv
  OBVIOUS
<1>1. ep = [p \in P |-> NewEndpoint(p)] /\ busy = "nobody" /\ net = {}
  BY DEF Init
<1>2. ep = [p \in P |-> ep[p]] /\ \A p \in P : ep[p] = NewEndpoint(p)
  BY <1>1
<1> DEFINE c == ep["client"]
           s == ep["server"]
<1>3. ASSUME NEW p \in P, NEW w
      PROVE  LET e == ep[p]
             IN  /\ EngineOK(e, w) /\ Phase(e) /\ ~Made(e)
                 /\ e.suite = "none" /\ e.group = "none" /\ e.peerCert = FALSE
                 /\ NoKeyExchange(e.transcript)
                 /\ e.state = (IF p = "client" THEN "SendClientHello" ELSE "AwaitClientHello")
  <2> DEFINE e == NewEndpoint(p)
  <2>1. /\ EngineOK(e, w)
        /\ e.err = "none" /\ ToSet(e.events) = {} /\ ToSet(e.told) = {}
        /\ e.suite = "none" /\ e.group = "none" /\ e.peerCert = FALSE
        /\ e.transcript = <<>>
        /\ e.state = (IF p = "client" THEN "SendClientHello" ELSE "AwaitClientHello")
    BY NewEndpointOK
  <2> HIDE DEF e
  <2>2. ~Made(e)
    BY <2>1 DEF Made, Told
  <2>3. NoKeyExchange(e.transcript) /\ IsSeq(e.transcript)
    BY <2>1, EmptyIs DEF NoKeyExchange
  <2>4. Phase(e)
    BY <2>1, <2>2, <2>3 DEF Phase
  <2> QED
    BY <1>2, <2>1, <2>2, <2>3, <2>4 DEF e
<1>4. /\ ~Made(c) /\ c.group = "none" /\ c.peerCert = FALSE /\ NoKeyExchange(c.transcript)
      /\ c.state = "SendClientHello"
  BY <1>3 DEF P
<1>5. /\ ~Made(s) /\ s.suite = "none" /\ s.group = "none" /\ s.peerCert = FALSE
      /\ NoKeyExchange(s.transcript) /\ s.state = "AwaitClientHello"
  BY <1>3 DEF P
<1>6. \A p \in P : EngineOK(ep[p], World(p, s)) /\ Phase(ep[p])
  BY <1>3
<1> HIDE DEF c, s
<1>7. ClientOK(c, Heard)
  BY <1>4 DEF ClientOK, ClientRules
<1>8. ServerOK(s, Required)
  BY <1>5 DEF ServerOK, ServerRules
<1> QED
  BY <1>1, <1>2, <1>6, <1>7, <1>8 DEF IInv, P, c, s

LEMMA NextOK == IInv /\ [Next]_vars => IInv'
<1> SUFFICES ASSUME IInv, [Next]_vars PROVE IInv'
  OBVIOUS
<1>0. "client" \in P /\ "server" \in P
  BY DEF P
<1>1. CASE Client
  BY <1>0, <1>1, ClientHandlersOK, AwaitServerFinishedOK, AwaitApplicationDataOK
<1>2. CASE Server
  BY <1>0, <1>2, ServerHandlersOK, SendServerKeyExchangeEcdheOK, SendServerFinishedOK,
     AwaitApplicationDataOK
<1>3. CASE \E p \in P : Yield(p)
  BY <1>3, YieldOK
<1>4. CASE Timers
  BY <1>4, TimersOK
<1>5. CASE \E m \in net : Deliver(m) \/ Repeat(m) \/ Lose(m)
  BY <1>5, NetworkOK
<1>6. CASE \E p \in P : SendApplicationData(p) \/ Close(p)
  BY <1>6, SendApplicationDataOK, CloseOK
<1>7. CASE UNCHANGED vars
  BY <1>7 DEF vars, IInv, Required, Heard
<1> QED
  BY <1>1, <1>2, <1>3, <1>4, <1>5, <1>6, <1>7 DEF Next, Runs

LEMMA Inductive == Spec => []IInv
  BY InitOK, NextOK, PTL DEF Spec

----------------------------------------------------------------------------
(* The theorems.                                                           *)

\* A client with the connection has the server's Finished: the server has told of
\* the connection, and the two have the same behind them.
LEMMA ClientHeardAll ==
    ASSUME IInv, Made(ep["client"])
    PROVE  LET c == ep["client"]
               s == ep["server"]
           IN  /\ Told(s) /\ ServerDone(s, Required)
               /\ c.keys = s.keys /\ c.transcript = s.transcript
               /\ c.suite = s.suite /\ c.group = s.group
               /\ c.peerCert = ~IsPsk(c.suite)
<1> DEFINE c == ep["client"]
           s == ep["server"]
<1>1. ClientDone(c, Heard)
  BY DEF IInv, ClientOK
<1>2. /\ Heard["ServerHello"] \subseteq {s.suite}
      /\ ~IsPsk(s.suite) => Heard["ServerKeyExchange"] \subseteq {s.group}
      /\ Heard["Finished"] = IF Told(s) THEN {GenerateVerifyData(s, "server")} ELSE {}
  BY HeardIs
<1>3. IsSeq(c.transcript) /\ IsSeq(s.transcript)
  BY DEF IInv, Phase, P
<1>4. Told(s) => ServerDone(s, Required)
  BY DEF IInv, ServerOK, Made
<1> HIDE DEF c, s
<1>5. Told(s) /\ GenerateVerifyData(c, "server") = GenerateVerifyData(s, "server")
      /\ c.suite = s.suite /\ c.peerCert = ~IsPsk(c.suite)
  BY <1>1, <1>2 DEF ClientDone
<1>6. c.keys = s.keys /\ c.transcript = s.transcript
  BY <1>1, <1>3, <1>4, <1>5, VerifyCut DEF ClientDone, ServerDone
<1>7. c.group = s.group
  BY <1>1, <1>2, <1>4, <1>5 DEF ClientDone, GroupHeard, ServerDone
<1> QED
  BY <1>4, <1>5, <1>6, <1>7 DEF c, s

LEMMA ToldIs ==
    ASSUME NEW p \in P
    PROVE  Connected(ep[p]) <=> Told(ep[p])
  BY DEF Connected, Told, ToSet

\* KeysAgree: whatever is lost, repeated or reordered, two connected endpoints hold
\* the same keys from the same handshake, use the same suite and group, and have
\* shown each other the certificates that are asked for; for every configuration
\* of the two and every size of datagrams and queues (dtls12/client.rs
\* AwaitFinished, dtls12/server.rs SendFinished).
THEOREM KeysAreAgreed == Spec => []KeysAgree
<1>1. IInv => KeysAgree
  <2> SUFFICES ASSUME IInv, Told(ep["client"]) PROVE KeysAgree
    BY ToldIs DEF KeysAgree, P
  <2> DEFINE c == ep["client"]
             s == ep["server"]
  <2>1. /\ ServerDone(s, Required)
        /\ c.keys = s.keys /\ c.transcript = s.transcript
        /\ c.suite = s.suite /\ c.group = s.group /\ c.peerCert = ~IsPsk(c.suite)
    BY ClientHeardAll DEF Made
  <2>2. s.peerCert = (~IsPsk(s.suite) /\ cfg.server.requireCert)
    BY <2>1 DEF ServerDone, CertNeeded, Required
  <2> QED
    BY <2>1, <2>2 DEF KeysAgree
<1> QED
  BY <1>1, Inductive, PTL

\* ClientConnectsLast: the client reports the connection only after the server
\* has, for any configuration and any loss, repetition and order of datagrams
\* (dtls12/client.rs AwaitFinished, dtls12/server.rs SendFinished).
THEOREM ClientLast == Spec => []ClientConnectsLast
<1>1. IInv => ClientConnectsLast
  BY ClientHeardAll, ToldIs DEF ClientConnectsLast, Made, P
<1> QED
  BY <1>1, Inductive, PTL

\* AbortIsQuiet: after a close before the connection the endpoint sends nothing
\* more, whatever arrives and whichever timer fires (dtls12/engine.rs abort).
THEOREM AbortStaysQuiet == Spec => AbortIsQuiet
<1> DEFINE Quiet1 == \A p \in P : ep[p].state = "Closed" /\ ~ep[p].release =>
                         \A m \in net' \ net : m.to # Peer(p)
<1>1. IInv /\ [Next]_vars => [Quiet1]_vars
  <2> SUFFICES ASSUME IInv, Next, NEW p \in P, ep[p].state = "Closed", ~ep[p].release,
                      NEW m \in net' \ net
               PROVE  m.to # Peer(p)
    BY DEF vars
  <2>1. PICK q \in P : Yield(q)
    <3>1. ASSUME Client \/ Server PROVE net' = net
      BY <3>1 DEF Client, Server, SendClientHello, AwaitHelloVerifyRequest, AwaitServerHello,
           AwaitServerCertificate, AwaitServerKeyExchangeEcdhe, AwaitServerKeyExchangePsk,
           AwaitCertificateRequest, AwaitServerHelloDone, SendClientCertificate,
           SendClientKeyExchange, SendCertificateVerify, SendClientChangeCipherSpec,
           SendClientFinished, AwaitChangeCipherSpec, AwaitNewSessionTicket,
           AwaitServerFinished, AwaitApplicationData, AwaitClientHelloNoCookie,
           AwaitClientHello, SendServerHello, SendServerCertificate,
           SendServerKeyExchangeEcdhe, SendServerKeyExchangePsk, SendCertificateRequest,
           SendServerHelloDone, AwaitClientCertificate, AwaitClientKeyExchange,
           AwaitCertificateVerify, AwaitClientFinished, SendServerChangeCipherSpec,
           SendServerFinished, Take, Go
    <3>2. ASSUME Timers \/ \E q \in P : SendApplicationData(q) \/ Close(q) PROVE net' = net
      BY <3>2 DEF Timers, Arm, FlightTimerFires, ConnectTimerFires, SendApplicationData, Close
    <3>3. ASSUME NEW x \in net, Deliver(x) \/ Repeat(x) \/ Lose(x) PROVE net' \subseteq net
      BY <3>3 DEF Deliver, Repeat, Lose
    <3> QED
      BY <3>1, <3>2, <3>3 DEF Next, Runs
  <2>2. PICK i \in DOMAIN ep[q].tx : m = [to |-> Peer(q), records |-> ep[q].tx[i]]
    BY <2>1 DEF Yield
  <2>3. ep[p].tx = <<>>
    BY DEF IInv, Phase
  <2>4. q # p
    BY <2>2, <2>3
  <2> QED
    BY <2>2, <2>4 DEF Peer, P
<1>2. AbortIsQuiet <=> [][Quiet1]_vars
  BY DEF AbortIsQuiet
<1> QED
  BY <1>1, <1>2, Inductive, PTL DEF Spec
=============================================================================
