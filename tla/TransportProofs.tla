--------------------------- MODULE TransportProofs ---------------------------
(***************************************************************************)
(* What is proved of stream transports, for any number of transports,      *)
(* descriptors and connections: whichever transports callbacks destroy,    *)
(* nothing that is left refers to one that has been freed, and what has    *)
(* been destroyed is freed; and, as long as no write is cut short, what a  *)
(* user is given is what the peer has sent, so that the transports         *)
(* implement Channel.                                                      *)
(*                                                                         *)
(* A transport is freed when it is destroyed and not busy, so what matters *)
(* is that it is busy exactly while its callback runs (CallbackKept), and  *)
(* that its destruction takes its watch and its socket with it: no two     *)
(* transports share a socket (SocketsKept), and a watch is of a transport  *)
(* that has it (WatchesKept).                                              *)
(*                                                                         *)
(* For the stream, an end of a connection has one descriptor, or waits for *)
(* one in the backlog, or is gone (EndsKept, BacklogKept).  What is left   *)
(* in its buffer and on its way to it is then the frames its user has not  *)
(* been given (StreamKept), and who reads no more has closed (LeftKept).   *)
(***************************************************************************)
EXTENDS StreamTransport, SeqFacts

-----------------------------------------------------------------------------
\* Frames, and the buffers they arrive in.

\* The frames of what was sent from the k-th message on.
FromMessage(ms, k) == Frames(SubSeq(ms, k, Len(ms)))

\* The bytes d, and p that follow them, are what is on the way from the k-th
\* message of ms on.
Ahead(d, p, ms, k) ==
  /\ d \in Seq(Byte) /\ p \in Seq(Byte) /\ ms \in Seq(Message)
  /\ k \in 1 .. Len(ms) + 1 /\ d \o p = FromMessage(ms, k)

Framed(b) == b \in Buffer /\ b.framed

(* htobe32() and the fold over the frames of messages.                     *)
FramedBy(ms, h) ==
  /\ h[0] = <<>> /\ Frames(ms) = h[Len(ms)]
  /\ \A i \in 1 .. Len(ms) : h[i] = h[i - 1] \o Frame(ms[i])

(* A length that fits into a header is read back from it.                  *)
LEMMA HeaderFacts ==
  ASSUME NEW m \in Message
  PROVE  /\ m \in Seq(Byte) /\ Len(m) \in Nat \ {0}
         /\ Header(Len(m)) \in Seq(Byte) /\ Len(Header(Len(m))) = HeaderLen
         /\ Be32(Header(Len(m))) = Len(m)
         /\ Frame(m) \in Seq(Byte) /\ Len(Frame(m)) = HeaderLen + Len(m)
<1>1. m \in Seq(Byte) /\ Len(m) \in Nat \ {0}
  BY StreamAssumption, EmptySeq
<1>2. Header(Len(m)) \in [1 .. HeaderLen -> Byte] /\ Be32(Header(Len(m))) = Len(m)
  BY StreamAssumption DEF Header
<1>3. HeaderLen \in Nat
  BY FragbufAssumption
<1>4. Header(Len(m)) \in Seq(Byte) /\ Len(Header(Len(m))) = HeaderLen
  BY <1>2, <1>3
<1>5. Frame(m) \in Seq(Byte) /\ Len(Frame(m)) = HeaderLen + Len(m)
  BY <1>1, <1>4, ConcatProperties DEF Frame
<1>. QED BY <1>1, <1>2, <1>4, <1>5

(* The fold over the messages goes through the frames in between.          *)
LEMMA FramesUnrolled ==
  ASSUME NEW ms \in Seq(Message)
  PROVE  \E h : FramedBy(ms, h) /\ \A i \in 0 .. Len(ms) : h[i] \in Seq(Byte)
<1> DEFINE n == Len(ms)
           Iter(f) == f = [D \in SUBSET (1 .. n) |->
                             IF D = {} THEN <<>>
                             ELSE f[D \ {Max(D)}] \o Frame(ms[Max(D)])]
           step == [i \in 1 .. n |-> [bytes \in Seq(Byte) |-> bytes \o Frame(ms[i])]]
<1>1. n \in Nat /\ DOMAIN ms = 1 .. n /\ \A i \in 1 .. n : ms[i] \in Message
  BY LenProperties, ElementOfSeq
<1>2. step \in [1 .. n -> [Seq(Byte) -> Seq(Byte)]]
  <2>1. ASSUME NEW i \in 1 .. n, NEW bytes \in Seq(Byte) PROVE bytes \o Frame(ms[i]) \in Seq(Byte)
    BY <1>1, HeaderFacts, ConcatProperties
  <2>. QED BY <2>1
<1>3. <<>> \in Seq(Byte)
  OBVIOUS
<1>4. PICK f \in [SUBSET (1 .. n) -> Seq(Byte)] : FoldedBy(n, <<>>, step, f)
  <2> HIDE DEF step, n
  <2>. QED BY <1>1, <1>2, <1>3, FoldExists
<1>5. Iter(f)
  <2>1. ASSUME NEW D \in SUBSET (1 .. n), D # {}
        PROVE  f[D] = f[D \ {Max(D)}] \o Frame(ms[Max(D)])
    <3>1. Max(D) \in 1 .. n /\ f[D \ {Max(D)}] \in Seq(Byte)
      BY <1>1, <2>1, MaxInSet
    <3>2. f[D] = step[Max(D)][f[D \ {Max(D)}]]
      BY <1>4, <2>1 DEF FoldedBy
    <3>. QED BY <3>1, <3>2
  <2>2. f[{}] = <<>>
    BY <1>4 DEF FoldedBy
  <2>. QED BY <2>1, <2>2
<1> DEFINE it == CHOOSE g : Iter(g)
           h == [i \in 0 .. n |-> it[1 .. i]]
<1>6. Frames(ms) = it[1 .. n]
  BY <1>1, Zenon DEF Frames, FoldLeft, MapThenFoldSet
<1>7. it = [D \in SUBSET (1 .. n) |->
              IF D = {} THEN <<>> ELSE it[D \ {Max(D)}] \o Frame(ms[Max(D)])]
  BY <1>5, Zenon
<1> HIDE DEF it, n
<1>8. h[0] = <<>> /\ h[n] = Frames(ms)
  <2>1. 1 .. 0 = {} /\ {} \in SUBSET (1 .. n)
    OBVIOUS
  <2>2. it[1 .. 0] = <<>>
    BY <1>7, <2>1
  <2>. QED BY <1>1, <1>6, <2>2
<1>9. ASSUME NEW i \in 1 .. n PROVE h[i] = h[i - 1] \o Frame(ms[i])
  <2>1. it[1 .. i] = it[1 .. (i - 1)] \o Frame(ms[i])
    <3>1. /\ 1 .. i \in SUBSET (1 .. n) /\ 1 .. i # {} /\ Max(1 .. i) = i
          /\ (1 .. i) \ {i} = 1 .. (i - 1)
      BY <1>1, FirstPlaces
    <3>. QED BY <1>7, <3>1
  <2>2. i \in 0 .. n /\ i - 1 \in 0 .. n
    BY <1>1
  <2>. QED BY <2>1, <2>2
<1> HIDE DEF h
<1>10. FramedBy(ms, h)
  BY <1>8, <1>9 DEF n, FramedBy
<1>11. \A i \in 0 .. n : h[i] \in Seq(Byte)
  <2> DEFINE Good == {i \in Nat : i <= n => h[i] \in Seq(Byte)}
  <2>1. 0 \in Good
    BY <1>3, <1>8
  <2>2. ASSUME NEW i \in Good PROVE i + 1 \in Good
    <3>1. CASE i + 1 <= n
      <4>1. i + 1 \in 1 .. n /\ (i + 1) - 1 = i /\ i <= n
        BY <1>1, <2>2, <3>1
      <4>2. ms[i + 1] \in Message /\ h[i + 1] = h[i] \o Frame(ms[i + 1]) /\ h[i] \in Seq(Byte)
        BY <1>1, <1>9, <2>2, <4>1
      <4>3. Frame(ms[i + 1]) \in Seq(Byte)
        BY <4>2, HeaderFacts
      <4>4. h[i + 1] \in Seq(Byte)
        BY <4>2, <4>3, ConcatProperties
      <4>. QED BY <2>2, <4>4
    <3>2. CASE ~(i + 1 <= n)
      BY <3>2
    <3>. QED BY <3>1, <3>2
  <2>3. Good \in SUBSET Nat
    OBVIOUS
  <2>4. Good = Nat
    <3> HIDE DEF Good
    <3>. QED BY <2>1, <2>2, <2>3, UpFromZero
  <2>. QED BY <1>1, <2>4
<1>. QED BY <1>10, <1>11 DEF n

(* The frames of no messages, and of one more.                             *)
LEMMA FramesFacts ==
  /\ Frames(<<>>) = <<>>
  /\ \A ms \in Seq(Message) : Frames(ms) \in Seq(Byte)
  /\ \A ms \in Seq(Message), m \in Message : Frames(Append(ms, m)) = Frames(ms) \o Frame(m)
<1>1. ASSUME NEW ms \in Seq(Message) PROVE Frames(ms) \in Seq(Byte)
  <2>1. Len(ms) \in 0 .. Len(ms)
    BY LenProperties
  <2>2. PICK h : FramedBy(ms, h) /\ \A i \in 0 .. Len(ms) : h[i] \in Seq(Byte)
    BY FramesUnrolled
  <2>. QED BY <2>1, <2>2 DEF FramedBy
<1>2. Frames(<<>>) = <<>>
  <2>1. <<>> \in Seq(Message) /\ Len(<<>>) = 0
    OBVIOUS
  <2>2. PICK h : FramedBy(<<>>, h)
    BY <2>1, FramesUnrolled
  <2>. QED BY <2>1, <2>2 DEF FramedBy
<1>3. ASSUME NEW ms \in Seq(Message), NEW m \in Message
      PROVE  Frames(Append(ms, m)) = Frames(ms) \o Frame(m)
  <2> DEFINE t == Append(ms, m)
             n == Len(ms)
  <2>1. /\ n \in Nat /\ t \in Seq(Message) /\ Len(t) = n + 1 /\ t[n + 1] = m
        /\ \A i \in 1 .. n : t[i] = ms[i]
    BY AppendProperties, LenProperties
  <2> HIDE DEF t
  <2>2. PICK h : FramedBy(ms, h)
    BY FramesUnrolled
  <2>3. PICK g : FramedBy(t, g)
    BY <2>1, FramesUnrolled
  <2> DEFINE Good == {i \in Nat : i <= n => g[i] = h[i]}
  <2>4. 0 \in Good
    BY <2>2, <2>3 DEF FramedBy
  <2>5. ASSUME NEW i \in Good PROVE i + 1 \in Good
    <3>1. CASE i + 1 <= n
      <4>1. i + 1 \in 1 .. n /\ i + 1 \in 1 .. n + 1 /\ (i + 1) - 1 = i /\ i <= n
        BY <2>1, <3>1
      <4>2. h[i + 1] = h[i] \o Frame(ms[i + 1])
        BY <2>2, <4>1 DEF FramedBy
      <4>3. g[i + 1] = g[i] \o Frame(t[i + 1])
        BY <2>1, <2>3, <4>1 DEF FramedBy
      <4>4. g[i] = h[i] /\ t[i + 1] = ms[i + 1]
        BY <2>1, <2>5, <4>1
      <4>5. g[i + 1] = h[i + 1] /\ i + 1 \in Nat
        BY <2>5, <4>2, <4>3, <4>4
      <4>. QED BY <4>5
    <3>2. CASE ~(i + 1 <= n)
      BY <3>2
    <3>. QED BY <3>1, <3>2
  <2>6. Good \in SUBSET Nat
    OBVIOUS
  <2>7. Good = Nat
    <3> HIDE DEF Good
    <3>. QED BY <2>4, <2>5, <2>6, UpFromZero
  <2>8. g[n] = h[n]
    BY <2>1, <2>7
  <2>9. n + 1 \in 1 .. n + 1 /\ (n + 1) - 1 = n
    BY <2>1
  <2>10. g[n + 1] = g[n] \o Frame(m)
    BY <2>1, <2>3, <2>9 DEF FramedBy
  <2>11. Frames(t) = g[n + 1] /\ Frames(ms) = h[n]
    BY <2>1, <2>2, <2>3 DEF FramedBy
  <2>. QED BY <2>8, <2>10, <2>11 DEF t
<1>. QED BY <1>1, <1>2, <1>3

(* Bytes joined in either order.                                           *)
LEMMA JoinedBytes ==
  \A a, b, c \in Seq(Byte) : (a \o b) \o c = a \o (b \o c)
<1>1. SUFFICES ASSUME NEW a \in Seq(Byte), NEW b \in Seq(Byte), NEW c \in Seq(Byte)
               PROVE  (a \o b) \o c = a \o (b \o c)
  OBVIOUS
<1>. QED BY ConcatAssociative

(* And of a first message in front.                                        *)
LEMMA FramesFirst ==
  ASSUME NEW m \in Message, NEW ms \in Seq(Message)
  PROVE  Frames(<<m>> \o ms) = Frame(m) \o Frames(ms)
<1> DEFINE Good == {t \in Seq(Message) : Frames(<<m>> \o t) = Frame(m) \o Frames(t)}
<1>0. <<m>> \in Seq(Message) /\ Frame(m) \in Seq(Byte) /\ <<>> \in Seq(Message)
  BY HeaderFacts
<1>1. <<>> \in Good
  <2>1. <<m>> \o <<>> = Append(<<>>, m)
    BY <1>0, ConcatEmptySeq, AppendIsConcat
  <2>2. Frames(<<m>> \o <<>>) = <<>> \o Frame(m)
    BY <1>0, <2>1, FramesFacts
  <2>3. Frame(m) \o Frames(<<>>) = <<>> \o Frame(m)
    BY <1>0, FramesFacts, ConcatEmptySeq
  <2>. QED BY <1>0, <2>2, <2>3
<1>2. ASSUME NEW t \in Good, NEW x \in Message PROVE Append(t, x) \in Good
  <2>1. /\ t \in Seq(Message) /\ Append(t, x) \in Seq(Message) /\ <<x>> \in Seq(Message)
        /\ <<m>> \o t \in Seq(Message)
    BY <1>0, AppendProperties, ConcatProperties
  <2>2. <<m>> \o Append(t, x) = Append(<<m>> \o t, x)
    <3>1. Append(t, x) = t \o <<x>> /\ Append(<<m>> \o t, x) = (<<m>> \o t) \o <<x>>
      BY <2>1, AppendIsConcat
    <3>2. (<<m>> \o t) \o <<x>> = <<m>> \o (t \o <<x>>)
      BY <1>0, <2>1, ConcatAssociative
    <3>. QED BY <3>1, <3>2
  <2>3. Frames(Append(<<m>> \o t, x)) = Frames(<<m>> \o t) \o Frame(x)
    BY <2>1, FramesFacts
  <2>4. Frames(Append(t, x)) = Frames(t) \o Frame(x) /\ Frames(t) \in Seq(Byte)
    BY <2>1, FramesFacts
  <2>5. Frames(<<m>> \o t) = Frame(m) \o Frames(t)
    BY <1>2
  <2>6. (Frame(m) \o Frames(t)) \o Frame(x) = Frame(m) \o (Frames(t) \o Frame(x))
    <3>1. Frame(x) \in Seq(Byte)
      BY HeaderFacts
    <3>. QED BY <1>0, <2>4, <3>1, JoinedBytes
  <2>. QED BY <2>1, <2>2, <2>3, <2>4, <2>5, <2>6
<1>3. Good = Seq(Message)
  <2> HIDE DEF Good
  <2>1. Good \in SUBSET Seq(Message)
    BY DEF Good
  <2>. QED BY <1>1, <1>2, <2>1, GrownByAppend
<1>. QED BY <1>3

(* What is on the way from a message on, when another one is sent too.     *)
LEMMA FromFacts ==
  ASSUME NEW ms \in Seq(Message), NEW k \in 1 .. Len(ms) + 1
  PROVE  /\ FromMessage(ms, k) \in Seq(Byte)
         /\ k = Len(ms) + 1 => FromMessage(ms, k) = <<>>
         /\ k <= Len(ms) => /\ ms[k] \in Message /\ k + 1 \in 1 .. Len(ms) + 1
                            /\ FromMessage(ms, k) = Frame(ms[k]) \o FromMessage(ms, k + 1)
         /\ \A m \in Message :
              FromMessage(Append(ms, m), k) = FromMessage(ms, k) \o Frame(m)
<1> DEFINE n == Len(ms)
           s == SubSeq(ms, k, n)
<1>1. n \in Nat /\ k \in Nat /\ k >= 1 /\ k <= n + 1 /\ \A i \in 1 .. n : ms[i] \in Message
  BY LenProperties, ElementOfSeq
<1>2. /\ s \in Seq(Message) /\ Len(s) = IF k <= n THEN n - k + 1 ELSE 0
      /\ \A i \in 1 .. n - k + 1 : s[i] = ms[k + i - 1]
  <2>1. \A i \in k .. n : ms[i] \in Message
    BY <1>1
  <2>. QED BY <1>1, <2>1, SubSeqProperties
<1>3. FromMessage(ms, k) \in Seq(Byte)
  BY <1>2, FramesFacts DEF FromMessage
<1>4. ASSUME k = n + 1 PROVE FromMessage(ms, k) = <<>>
  <2>1. s = <<>>
    BY <1>1, <1>4, SubSeqEmpty
  <2>. QED BY <2>1, FramesFacts DEF FromMessage
<1>5. ASSUME k <= n
      PROVE  /\ ms[k] \in Message /\ k + 1 \in 1 .. n + 1
             /\ FromMessage(ms, k) = Frame(ms[k]) \o FromMessage(ms, k + 1)
  <2> DEFINE r == SubSeq(ms, k + 1, n)
  <2>1. k \in 1 .. n /\ n \in k .. n /\ k + 1 \in 1 .. n + 1
    BY <1>1, <1>5
  <2>2. s = <<ms[k]>> \o r
    BY <2>1, SubSeqRecursiveFirst
  <2>3. r \in Seq(Message)
    <3>1. k + 1 \in Int /\ n \in Int /\ \A i \in k + 1 .. n : ms[i] \in Message
      BY <1>1
    <3>. QED BY <3>1, SubSeqProperties
  <2>4. Frames(s) = Frame(ms[k]) \o Frames(r)
    BY <1>1, <2>1, <2>2, <2>3, FramesFirst
  <2>. QED BY <1>1, <2>1, <2>4 DEF FromMessage
<1>6. ASSUME NEW m \in Message
      PROVE  FromMessage(Append(ms, m), k) = FromMessage(ms, k) \o Frame(m)
  <2> DEFINE t == Append(ms, m)
             u == SubSeq(t, k, n)
  <2>1. t \in Seq(Message) /\ Len(t) = n + 1 /\ t[n + 1] = m /\ \A i \in 1 .. n : t[i] = ms[i]
    BY AppendProperties
  <2> HIDE DEF t
  <2>2. SubSeq(t, k, n + 1) = u \o <<m>>
    <3>1. k \in 1 .. Len(t) /\ n + 1 \in k .. Len(t) /\ (n + 1) - 1 = n
      BY <1>1, <2>1
    <3>. QED BY <2>1, <3>1, SubSeqRecursiveSecond
  <2>3. u = s
    <3>1. k \in Int /\ n \in Int /\ \A i \in k .. n : t[i] \in Message
      BY <1>1, <2>1
    <3>2. /\ u \in Seq(Message) /\ Len(u) = IF k <= n THEN n - k + 1 ELSE 0
          /\ \A i \in 1 .. n - k + 1 : u[i] = t[k + i - 1]
      BY <3>1, SubSeqProperties
    <3>3. ASSUME NEW i \in 1 .. Len(u) PROVE u[i] = s[i]
      <4>1. i \in 1 .. n - k + 1 /\ k + i - 1 \in 1 .. n
        <5>1. Len(u) = n - k + 1
          BY <1>1, <3>2
        <5>. QED BY <1>1, <5>1
      <4>2. u[i] = t[k + i - 1] /\ s[i] = ms[k + i - 1]
        <5> HIDE DEF u, s
        <5>. QED BY <1>2, <3>2, <4>1
      <4>3. t[k + i - 1] = ms[k + i - 1]
        BY <2>1, <4>1
      <4> HIDE DEF u, s
      <4>. QED BY <4>2, <4>3
    <3>4. \A i \in 1 .. Len(u) : u[i] = s[i]
      BY <3>3
    <3> HIDE DEF u, s
    <3>. QED BY <1>2, <3>2, <3>4, SeqEqual
  <2>4. SubSeq(t, k, Len(t)) = Append(s, m)
    BY <1>2, <2>1, <2>2, <2>3, AppendIsConcat
  <2>5. Frames(Append(s, m)) = Frames(s) \o Frame(m)
    BY <1>2, FramesFacts
  <2>. QED BY <2>4, <2>5 DEF FromMessage, t
<1>. QED BY <1>3, <1>4, <1>5, <1>6

(* What can be told of bytes that are followed by others: a header, once   *)
(* it is there, is that of the first message, and a whole first message is *)
(* that message.                                                           *)
LEMMA Parsed ==
  ASSUME NEW d, NEW p, NEW ms, NEW k, Ahead(d, p, ms, k)
  PROVE  /\ d # <<>> => k <= Len(ms)
         /\ k <= Len(ms) /\ Whole(d) => First(d) = ms[k] /\ Ahead(AfterFirst(d), p, ms, k + 1)
         /\ k <= Len(ms) /\ p = <<>> => Whole(d) /\ Len(d) > HeaderLen
<1>0. /\ d \in Seq(Byte) /\ p \in Seq(Byte) /\ ms \in Seq(Message)
      /\ k \in 1 .. Len(ms) + 1 /\ d \o p = FromMessage(ms, k)
  BY DEF Ahead
<1>1. Len(ms) \in Nat /\ Len(d) \in Nat /\ Len(p) \in Nat /\ HeaderLen \in Nat
  BY <1>0, LenProperties, FragbufAssumption
<1>2. ASSUME d # <<>> PROVE k <= Len(ms)
  <2>1. CASE k = Len(ms) + 1
    <3>1. d \o p = <<>>
      BY <1>0, <2>1, FromFacts
    <3>. QED BY <1>0, <1>2, <3>1, ConcatEqualIffEmpty
  <2>. QED BY <1>0, <1>1, <2>1
<1>3. ASSUME k <= Len(ms)
      PROVE  /\ Whole(d) => First(d) = ms[k] /\ Ahead(AfterFirst(d), p, ms, k + 1)
             /\ p = <<>> => Whole(d) /\ Len(d) > HeaderLen
  <2> DEFINE m == ms[k]
             l == Len(m)
             h == Header(l)
             f == Frame(m)
             r == FromMessage(ms, k + 1)
             w == d \o p
  <2>1. m \in Message /\ w = f \o r /\ r \in Seq(Byte)
    BY <1>0, <1>3, FromFacts
  <2>2. /\ m \in Seq(Byte) /\ l \in Nat \ {0} /\ h \in Seq(Byte) /\ Len(h) = HeaderLen
        /\ Be32(h) = l /\ f \in Seq(Byte) /\ Len(f) = HeaderLen + l
    BY <2>1, HeaderFacts
  <2>3. \A i \in 1 .. HeaderLen + l :
          f[i] = IF i <= HeaderLen THEN h[i] ELSE m[i - HeaderLen]
    BY <1>1, <2>2, ConcatProperties DEF Frame
  <2> HIDE DEF m, l, h, f, r
  <2>4. /\ Len(w) = Len(d) + Len(p) /\ Len(w) = Len(f) + Len(r) /\ Len(r) \in Nat
        /\ \A i \in 1 .. Len(d) : w[i] = d[i]
        /\ \A i \in 1 .. Len(f) : w[i] = f[i]
    <3>1. /\ Len(w) = Len(d) + Len(p)
          /\ \A i \in 1 .. Len(d) + Len(p) : w[i] = IF i <= Len(d) THEN d[i] ELSE p[i - Len(d)]
      BY <1>0, ConcatProperties
    <3>2. /\ Len(f \o r) = Len(f) + Len(r)
          /\ \A i \in 1 .. Len(f) + Len(r) :
               (f \o r)[i] = IF i <= Len(f) THEN f[i] ELSE r[i - Len(f)]
      BY <2>1, <2>2, ConcatProperties
    <3>3. Len(r) \in Nat /\ Len(f) \in Nat
      BY <2>1, <2>2, LenProperties
    <3> HIDE DEF w
    <3>. QED BY <1>1, <2>1, <3>1, <3>2, <3>3
  <2> HIDE DEF w
  <2>5. \A i \in 1 .. Len(d) : i <= HeaderLen + l => d[i] = f[i]
    BY <1>1, <2>2, <2>4
  <2>6. ASSUME Len(d) >= HeaderLen PROVE FirstLen(d) = l
    <3> DEFINE q == SubSeq(d, 1, HeaderLen)
    <3>1. \A i \in 1 .. HeaderLen : d[i] \in Byte /\ d[i] = h[i]
      <4>1. \A i \in 1 .. HeaderLen : i \in 1 .. Len(d)
        BY <1>1, <2>6
      <4>2. \A i \in 1 .. Len(d) : d[i] \in Byte
        BY <1>0, ElementOfSeq
      <4>3. \A i \in 1 .. HeaderLen : i <= HeaderLen /\ i <= HeaderLen + l /\ i \in 1 .. HeaderLen + l
        BY <1>1, <2>2
      <4>4. \A i \in 1 .. HeaderLen : d[i] = f[i]
        BY <2>5, <4>1, <4>3
      <4>5. \A i \in 1 .. HeaderLen : f[i] = h[i]
        BY <2>3, <4>3
      <4>. QED BY <4>1, <4>2, <4>4, <4>5
    <3>2. /\ q \in Seq(Byte) /\ Len(q) = HeaderLen
          /\ \A i \in 1 .. HeaderLen : q[i] = d[i]
      <4>1. 1 \in Int /\ HeaderLen \in Int /\ HeaderLen >= 1
        BY FragbufAssumption
      <4>2. /\ q \in Seq(Byte)
            /\ Len(q) = IF 1 <= HeaderLen THEN HeaderLen - 1 + 1 ELSE 0
            /\ \A i \in 1 .. HeaderLen - 1 + 1 : q[i] = d[1 + i - 1]
        BY <3>1, <4>1, SubSeqProperties
      <4> HIDE DEF q
      <4>. QED BY <4>1, <4>2
    <3> HIDE DEF q
    <3>3. q = h
      BY <2>2, <3>1, <3>2, SeqEqual
    <3>. QED BY <2>2, <3>3 DEF FirstLen, q
  <2>7. ASSUME Whole(d)
        PROVE  /\ First(d) = m /\ AfterFirst(d) \in Seq(Byte) /\ AfterFirst(d) \o p = r
    <3> DEFINE c == HeaderLen + l
               g == SubSeq(d, HeaderLen + 1, c)
               a == SubSeq(d, c + 1, Len(d))
               b == SubSeq(d, 1, c)
    <3>1. FirstLen(d) = l /\ Len(d) >= c /\ c \in Nat /\ c >= 1 /\ l \in Nat
      BY <1>1, <2>2, <2>6, <2>7 DEF Whole
    <3>2. \A i \in 1 .. Len(d) : d[i] \in Byte
      BY <1>0, ElementOfSeq
    <3>3. g = m
      <4>1. HeaderLen + 1 \in Int /\ c \in Int /\ \A i \in HeaderLen + 1 .. c : d[i] \in Byte
        BY <1>1, <3>1, <3>2
      <4>2. /\ g \in Seq(Byte)
            /\ Len(g) = IF HeaderLen + 1 <= c THEN c - (HeaderLen + 1) + 1 ELSE 0
            /\ \A i \in 1 .. c - (HeaderLen + 1) + 1 : g[i] = d[(HeaderLen + 1) + i - 1]
        BY <4>1, SubSeqProperties
      <4> HIDE DEF g
      <4>3. Len(g) = l /\ \A i \in 1 .. l : g[i] = d[HeaderLen + i]
        <5>1. c - (HeaderLen + 1) + 1 = l /\ HeaderLen + 1 <= c
          BY <1>1, <2>2
        <5>2. \A i \in 1 .. l : (HeaderLen + 1) + i - 1 = HeaderLen + i
          BY <1>1, <2>2
        <5>. QED BY <4>2, <5>1, <5>2
      <4>4. \A i \in 1 .. l : HeaderLen + i \in 1 .. Len(d) /\ HeaderLen + i <= c
                              /\ ~(HeaderLen + i <= HeaderLen) /\ (HeaderLen + i) - HeaderLen = i
        BY <1>1, <3>1
      <4>5. \A i \in 1 .. l : d[HeaderLen + i] = m[i]
        BY <1>1, <2>3, <2>5, <3>1, <4>4
      <4>. QED BY <2>2, <4>2, <4>3, <4>5, SeqEqual DEF l
    <3>4. b = f
      <4>1. 1 \in Int /\ c \in Int /\ \A i \in 1 .. c : d[i] \in Byte
        BY <1>1, <3>1, <3>2
      <4>2. /\ b \in Seq(Byte) /\ Len(b) = IF 1 <= c THEN c - 1 + 1 ELSE 0
            /\ \A i \in 1 .. c - 1 + 1 : b[i] = d[1 + i - 1]
        BY <4>1, SubSeqProperties
      <4> HIDE DEF b
      <4>3. Len(b) = c /\ \A i \in 1 .. c : b[i] = d[i]
        BY <3>1, <4>2
      <4>4. \A i \in 1 .. c : d[i] = f[i]
        BY <1>1, <2>5, <3>1
      <4>. QED BY <2>2, <4>2, <4>3, <4>4, SeqEqual
    <3>5. a \in Seq(Byte) /\ d = f \o a
      <4>1. c + 1 \in Int /\ Len(d) \in Int /\ \A i \in c + 1 .. Len(d) : d[i] \in Byte
        BY <1>1, <3>1, <3>2
      <4>2. a \in Seq(Byte)
        BY <4>1, SubSeqProperties
      <4>3. 1 \in 1 .. Len(d) + 1 /\ c \in 1 - 1 .. Len(d) /\ Len(d) \in c .. Len(d)
        BY <1>1, <3>1
      <4>4. b \o a = SubSeq(d, 1, Len(d))
        BY <1>0, <4>3, ConcatAdjacentSubSeq
      <4>5. SubSeq(d, 1, Len(d)) = d
        BY <1>0, SubSeqFull
      <4>. QED BY <3>4, <4>2, <4>4, <4>5
    <3> HIDE DEF a, b, g
    <3>6. f \o (a \o p) = f \o r
      <4>1. (f \o a) \o p = f \o (a \o p)
        <5>1. f \in Seq(Byte) /\ a \in Seq(Byte) /\ p \in Seq(Byte)
          BY <1>0, <2>2, <3>5
        <5>. QED BY <5>1, ConcatAssociative
      <4>2. w = (f \o a) \o p
        BY <3>5 DEF w
      <4>. QED BY <2>1, <4>1, <4>2
    <3>7. a \o p = r
      <4>1. a \o p \in Seq(Byte)
        BY <1>0, <3>5, ConcatProperties
      <4>2. \A s, t, v \in Seq(Byte) : s \o t = s \o v => t = v
        BY ConcatSimplifications, Zenon
      <4>. QED BY <2>1, <2>2, <3>6, <4>1, <4>2, Zenon
    <3>8. First(d) = g /\ AfterFirst(d) = a
      BY <3>1 DEF First, AfterFirst, g, a
    <3>. QED BY <3>3, <3>5, <3>7, <3>8
  <2>8. ASSUME p = <<>> PROVE Whole(d) /\ Len(d) > HeaderLen
    <3>1. Len(d) = HeaderLen + l + Len(r)
      <4>1. Len(p) = 0
        BY <2>8
      <4>. QED BY <1>1, <2>2, <2>4, <4>1
    <3>2. Len(d) >= HeaderLen + l /\ Len(d) > HeaderLen
      BY <1>1, <2>2, <2>4, <3>1
    <3>3. FirstLen(d) = l
      BY <1>1, <2>6, <3>2
    <3>. QED BY <1>1, <3>2, <3>3 DEF Whole
  <2>9. k + 1 \in 1 .. Len(ms) + 1
    BY <1>0, <1>1, <1>3
  <2>. QED BY <1>0, <2>7, <2>8, <2>9 DEF m, r, Ahead
<1>. QED BY <1>2, <1>3

(* The fields of what a pull comes to.                                     *)
LEMMA PulledFields ==
  ASSUME NEW b
  PROVE  /\ Pulled(b).ok /\ Pulled(b).msg = First(b.data) /\ Pulled(b).buf = b
         /\ ~NotPulled(b).ok /\ NotPulled(b).buf = b
  BY DEF Pulled, NotPulled

(* A buffer of a framed transport, with other contents.                    *)
LEMMA FramedFacts ==
  ASSUME NEW b, Framed(b)
  PROVE  /\ b.data \in Seq(Byte) /\ b.framed
         /\ \A d \in Seq(Byte) : Framed([b EXCEPT !.data = d]) /\ [b EXCEPT !.data = d].data = d
<1>1. b.data \in Seq(Byte) /\ b.framed
  BY DEF Framed, Buffer
<1>2. ASSUME NEW d \in Seq(Byte)
      PROVE  Framed([b EXCEPT !.data = d]) /\ [b EXCEPT !.data = d].data = d
  BY DEF Framed, Buffer
<1>. QED BY <1>1, <1>2

\* A pull hands out the k-th message if it is whole; if nothing more is to come,
\* it is, or there is none.
Finds(q, p, ms, k) ==
  /\ Framed(q.buf) /\ Ahead(q.buf.data, p, ms, k)
  /\ q.ok => k <= Len(ms) /\ q.msg = ms[k] /\ Whole(q.buf.data)
  /\ ~q.ok /\ p = <<>> => k = Len(ms) + 1

(* The first pull of an iteration.                                         *)
LEMMA PullStart ==
  ASSUME NEW b, Framed(b), NEW p, NEW ms, NEW k, Ahead(b.data, p, ms, k)
  PROVE  Finds(FragbufPull(b, FALSE), p, ms, k)
<1> DEFINE d == b.data
<1>0. b.framed
  BY FramedFacts
<1>1. Ahead(d, p, ms, k)
  OBVIOUS
<1> HIDE DEF d
<1>2. /\ d # <<>> => k <= Len(ms)
      /\ k <= Len(ms) /\ Whole(d) => First(d) = ms[k]
      /\ k <= Len(ms) /\ p = <<>> => Whole(d) /\ Len(d) > HeaderLen
  <2>1. ASSUME NEW j, Ahead(d, p, ms, j)
        PROVE  /\ d # <<>> => j <= Len(ms)
               /\ j <= Len(ms) /\ Whole(d) => First(d) = ms[j]
               /\ j <= Len(ms) /\ p = <<>> => Whole(d) /\ Len(d) > HeaderLen
    BY <2>1, Parsed
  <2>. QED BY <1>1, <2>1
<1>3. Whole(d) => d # <<>>
  <2>1. HeaderLen \in Nat \ {0}
    BY FragbufAssumption
  <2>. QED BY <2>1 DEF Whole
<1> DEFINE q == FragbufPull(b, FALSE)
<1>4. CASE Whole(d)
  <2>1. q = Pulled(b)
    BY <1>0, <1>3, <1>4 DEF FragbufPull, PullFramed, d
  <2>2. q.ok /\ q.buf = b /\ q.msg = First(d)
    BY <2>1, PulledFields DEF d
  <2>3. Framed(b) /\ Ahead(b.data, p, ms, k)
    OBVIOUS
  <2> HIDE DEF q
  <2>. QED BY <1>2, <1>3, <1>4, <2>2, <2>3 DEF d, q, Finds
<1>5. CASE ~Whole(d)
  <2>1. q = NotPulled(b)
    BY <1>0, <1>5 DEF FragbufPull, PullFramed, d
  <2>2. ~q.ok /\ q.buf = b
    BY <2>1, PulledFields
  <2>3. p = <<>> => k = Len(ms) + 1
    <3>1. Len(ms) \in Nat /\ k \in 1 .. Len(ms) + 1
      BY <1>1, LenProperties DEF Ahead
    <3>. QED BY <1>2, <1>5, <3>1
  <2>4. Framed(b) /\ Ahead(b.data, p, ms, k)
    OBVIOUS
  <2> HIDE DEF q
  <2>. QED BY <2>2, <2>3, <2>4 DEF q, Finds
<1>. QED BY <1>4, <1>5

(* The next pull frees the message the last one handed out.                *)
LEMMA PullNext ==
  ASSUME NEW b, Framed(b), NEW p, NEW ms, NEW k, Ahead(b.data, p, ms, k),
         k <= Len(ms), Whole(b.data)
  PROVE  Finds(FragbufPull(b, TRUE), p, ms, k + 1)
<1> DEFINE d == b.data
           a == AfterFirst(d)
           rest == [b EXCEPT !.data = a]
<1>1. /\ b.framed /\ Len(ms) \in Nat /\ k \in Nat /\ k <= Len(ms)
      /\ HeaderLen \in Nat \ {0} /\ Ahead(d, p, ms, k) /\ Whole(d) /\ d \in Seq(Byte)
  <2>1. b.framed /\ Ahead(d, p, ms, k) /\ Whole(d) /\ d \in Seq(Byte)
    BY FramedFacts
  <2>2. Len(ms) \in Nat /\ k \in Nat /\ HeaderLen \in Nat \ {0}
    BY LenProperties, FragbufAssumption DEF Ahead
  <2> HIDE DEF d
  <2>. QED BY <2>1, <2>2
<1>2. Ahead(a, p, ms, k + 1) /\ a \in Seq(Byte) /\ k + 1 \in 1 .. Len(ms) + 1
  <2>1. Ahead(a, p, ms, k + 1)
    <3> HIDE DEF d
    <3>. QED BY <1>1, Parsed
  <2>. QED BY <2>1 DEF Ahead
<1>3. /\ a # <<>> => k + 1 <= Len(ms)
      /\ k + 1 <= Len(ms) /\ Whole(a) => First(a) = ms[k + 1]
      /\ k + 1 <= Len(ms) /\ p = <<>> => Whole(a) /\ Len(a) > HeaderLen
  <2> HIDE DEF a
  <2>1. ASSUME NEW j, Ahead(a, p, ms, j)
        PROVE  /\ a # <<>> => j <= Len(ms)
               /\ j <= Len(ms) /\ Whole(a) => First(a) = ms[j]
               /\ j <= Len(ms) /\ p = <<>> => Whole(a) /\ Len(a) > HeaderLen
    BY <2>1, Parsed
  <2>. QED BY <1>2, <2>1
<1>4. d # <<>>
  <2> HIDE DEF d
  <2>. QED BY <1>1 DEF Whole
<1>5. Framed(rest) /\ rest.data = a
  <2> HIDE DEF a
  <2>. QED BY <1>2, FramedFacts
<1>6. rest = [b EXCEPT !.data = AfterFirst(@)]
  OBVIOUS
<1> HIDE DEF rest
<1> DEFINE q == FragbufPull(b, TRUE)
<1>7. q = IF Len(a) > HeaderLen /\ Whole(a) THEN Pulled(rest) ELSE NotPulled(rest)
  BY <1>1, <1>4, <1>5, <1>6 DEF FragbufPull, PullFramed
<1> HIDE DEF q
<1>8. Len(a) > HeaderLen => a # <<>>
  <2> HIDE DEF a
  <2>. QED BY <1>1
<1>9. CASE Len(a) > HeaderLen /\ Whole(a)
  <2>1. q.ok /\ q.buf = rest /\ q.msg = First(a)
    <3> HIDE DEF a
    <3>. QED BY <1>5, <1>7, <1>9, PulledFields
  <2> HIDE DEF a
  <2>. QED BY <1>2, <1>3, <1>5, <1>8, <1>9, <2>1 DEF q, Finds
<1>10. CASE ~(Len(a) > HeaderLen /\ Whole(a))
  <2>1. ~q.ok /\ q.buf = rest
    <3> HIDE DEF a
    <3>. QED BY <1>7, <1>10, PulledFields
  <2>2. p = <<>> => k + 1 = Len(ms) + 1
    <3> HIDE DEF a
    <3>. QED BY <1>1, <1>3, <1>10
  <2> HIDE DEF a
  <2>. QED BY <1>2, <1>5, <2>1, <2>2 DEF q, Finds
<1>. QED BY <1>9, <1>10

(* Nothing is on the way at first, another message that is sent goes to    *)
(* the end, and what is read moves from the pipe to the buffer.            *)
LEMMA AheadFacts ==
  /\ Ahead(<<>>, <<>>, <<>>, 1)
  /\ \A d, p, ms, k, m :
       Ahead(d, p, ms, k) /\ m \in Message => Ahead(d, p \o Frame(m), Append(ms, m), k)
  /\ \A d, p, ms, k, n :
       Ahead(d, p, ms, k) /\ n \in 0 .. Len(p)
         => /\ SubSeq(p, 1, n) \in Seq(Byte)
            /\ Ahead(d \o SubSeq(p, 1, n), SubSeq(p, n + 1, Len(p)), ms, k)
            /\ n = Len(p) => SubSeq(p, n + 1, Len(p)) = <<>>
<1>1. Ahead(<<>>, <<>>, <<>>, 1)
  <2>1. <<>> \in Seq(Byte) /\ <<>> \in Seq(Message) /\ Len(<<>>) = 0 /\ <<>> \o <<>> = <<>>
    OBVIOUS
  <2>2. SubSeq(<<>>, 1, 0) = <<>>
    BY SubSeqEmpty
  <2>3. FromMessage(<<>>, 1) = <<>>
    BY <2>1, <2>2, FramesFacts DEF FromMessage
  <2>. QED BY <2>1, <2>3 DEF Ahead
<1>2. ASSUME NEW d, NEW p, NEW ms, NEW k, NEW m \in Message, Ahead(d, p, ms, k)
      PROVE  Ahead(d, p \o Frame(m), Append(ms, m), k)
  <2> DEFINE f == Frame(m)
             r == FromMessage(ms, k)
             t == Append(ms, m)
  <2>1. /\ d \in Seq(Byte) /\ p \in Seq(Byte) /\ ms \in Seq(Message)
        /\ k \in 1 .. Len(ms) + 1 /\ d \o p = r /\ f \in Seq(Byte)
    BY <1>2, HeaderFacts DEF Ahead
  <2>2. FromMessage(t, k) = r \o f
    BY <2>1, FromFacts
  <2>3. t \in Seq(Message) /\ Len(t) = Len(ms) + 1 /\ Len(ms) \in Nat
    BY <2>1, AppendProperties, LenProperties
  <2> HIDE DEF f, r, t
  <2>4. p \o f \in Seq(Byte)
    BY <2>1, ConcatProperties
  <2>5. (d \o p) \o f = d \o (p \o f)
    <3>1. d \in Seq(Byte) /\ p \in Seq(Byte) /\ f \in Seq(Byte)
      BY <2>1
    <3>. QED BY <3>1, ConcatAssociative
  <2>6. k \in 1 .. Len(t) + 1
    BY <2>1, <2>3
  <2>7. d \o (p \o f) = FromMessage(t, k)
    BY <2>1, <2>2, <2>5
  <2>. QED BY <2>1, <2>3, <2>4, <2>6, <2>7 DEF Ahead, f, t
<1>3. ASSUME NEW d, NEW p, NEW ms, NEW k, NEW n, Ahead(d, p, ms, k), n \in 0 .. Len(p)
      PROVE  /\ SubSeq(p, 1, n) \in Seq(Byte)
             /\ Ahead(d \o SubSeq(p, 1, n), SubSeq(p, n + 1, Len(p)), ms, k)
             /\ n = Len(p) => SubSeq(p, n + 1, Len(p)) = <<>>
  <2> DEFINE a == SubSeq(p, 1, n)
             b == SubSeq(p, n + 1, Len(p))
  <2>1. /\ d \in Seq(Byte) /\ p \in Seq(Byte) /\ ms \in Seq(Message)
        /\ k \in 1 .. Len(ms) + 1 /\ d \o p = FromMessage(ms, k)
    BY <1>3 DEF Ahead
  <2>2. Len(p) \in Nat /\ \A i \in 1 .. Len(p) : p[i] \in Byte
    BY <2>1, LenProperties, ElementOfSeq
  <2>3. a \in Seq(Byte)
    <3>1. 1 \in Int /\ n \in Int /\ \A i \in 1 .. n : p[i] \in Byte
      BY <1>3, <2>2
    <3>. QED BY <3>1, SubSeqProperties
  <2>4. b \in Seq(Byte)
    <3>1. n + 1 \in Int /\ Len(p) \in Int /\ \A i \in n + 1 .. Len(p) : p[i] \in Byte
      BY <1>3, <2>2
    <3>. QED BY <3>1, SubSeqProperties
  <2>5. a \o b = p
    <3>1. 1 \in 1 .. Len(p) + 1 /\ n \in 1 - 1 .. Len(p) /\ Len(p) \in n .. Len(p)
      BY <1>3, <2>2
    <3>2. a \o b = SubSeq(p, 1, Len(p))
      BY <2>1, <3>1, ConcatAdjacentSubSeq
    <3>3. SubSeq(p, 1, Len(p)) = p
      BY <2>1, SubSeqFull
    <3>. QED BY <3>2, <3>3
  <2>6. n = Len(p) => b = <<>>
    <3>1. Len(p) + 1 \in Int /\ Len(p) \in Int /\ Len(p) < Len(p) + 1
      BY <2>2
    <3>2. SubSeq(p, Len(p) + 1, Len(p)) = <<>>
      BY <3>1, SubSeqEmpty
    <3>. QED BY <3>2
  <2> HIDE DEF a, b
  <2>7. (d \o a) \o b = d \o (a \o b)
    <3>1. d \in Seq(Byte)
      BY <2>1
    <3>. QED BY <2>3, <2>4, <3>1, ConcatAssociative
  <2>8. d \o a \in Seq(Byte)
    BY <2>1, <2>3, ConcatProperties
  <2>9. (d \o a) \o b = FromMessage(ms, k)
    BY <2>1, <2>5, <2>7
  <2>10. Ahead(d \o a, b, ms, k)
    BY <2>1, <2>4, <2>8, <2>9 DEF Ahead
  <2>. QED BY <2>3, <2>6, <2>10 DEF a, b
<1>. QED BY <1>1, <1>2, <1>3

(* A buffer that is created, and one that is filled.                       *)
LEMMA BufferFacts ==
  /\ Framed(FragbufCreate(TRUE)) /\ FragbufCreate(TRUE).data = <<>>
  /\ \A b : \A n \in Nat, bytes \in Seq(Byte) :
       Framed(b) => /\ Framed(FragbufFill(b, n, bytes))
                    /\ FragbufFill(b, n, bytes).data = b.data \o bytes
  /\ \A b : Framed(b) => b # None
<1>1. Framed(FragbufCreate(TRUE)) /\ FragbufCreate(TRUE).data = <<>>
  <2>1. <<>> \in Seq(Byte)
    OBVIOUS
  <2>. QED BY <2>1 DEF Framed, Buffer, FragbufCreate
<1>2. ASSUME NEW b, NEW n \in Nat, NEW bytes \in Seq(Byte), Framed(b)
      PROVE  /\ Framed(FragbufFill(b, n, bytes))
             /\ FragbufFill(b, n, bytes).data = b.data \o bytes
  <2> DEFINE z == b.size + Max0(n - (b.size - Len(b.data)))
             e == [b EXCEPT !.size = z]
             d == b.data \o bytes
  <2>1. b.data \in Seq(Byte) /\ b.size \in Nat /\ Len(b.data) \in Nat
    BY <1>2, LenProperties DEF Framed, Buffer
  <2>2. z \in Nat
    BY <2>1 DEF Max0
  <2>3. d \in Seq(Byte)
    BY <2>1, ConcatProperties
  <2>4. FragbufFill(b, n, bytes) = [e EXCEPT !.data = e.data \o bytes]
    BY DEF FragbufFill, FragbufEnsure
  <2> HIDE DEF z, d
  <2>5. Framed(e) /\ e.data = b.data
    BY <1>2, <2>2 DEF Framed, Buffer
  <2> HIDE DEF e
  <2>6. Framed([e EXCEPT !.data = d]) /\ [e EXCEPT !.data = d].data = d
    BY <2>3, <2>5, FramedFacts
  <2>7. FragbufFill(b, n, bytes) = [e EXCEPT !.data = d]
    BY <2>4, <2>5 DEF d
  <2>. QED BY <2>6, <2>7 DEF d
<1>3. ASSUME NEW b, Framed(b) PROVE b # None
  BY <1>3, StreamAssumption DEF Framed
<1>. QED BY <1>1, <1>2, <1>3

-----------------------------------------------------------------------------
\* The inductive invariant.

Live(t) == tr[t].life = "live"
Runs(t) == cur # None /\ cur.t = t

\* A record of a transport, whatever its buffer is.
HasFields(r) ==
  r = [life |-> r.life, destroyed |-> r.destroyed, busy |-> r.busy, connected |-> r.connected,
       listened |-> r.listened, sock |-> r.sock, buf |-> r.buf]

Shaped(r) ==
  /\ HasFields(r)
  /\ r.life \in {"live", "freed"} /\ r.busy \in 0 .. 1 /\ r.sock \in Fd \cup {None}
  /\ {r.destroyed, r.connected, r.listened} \subseteq BOOLEAN

ShapeKept ==
  /\ tr = [t \in Transports |-> tr[t]]
  /\ \A t \in Transports : Shaped(tr[t])
  /\ watch \in [Fd -> Transports \cup {None}]
  /\ sock \in [Fd -> End \cup {Listening, None}]
  /\ pending \in Seq(1 .. MaxConns) /\ conns \in 0 .. MaxConns
  /\ cur = None \/ cur \in Callbacks

\* A socket is open, and of one transport; one socket listens.
SocketsKept ==
  /\ \A t \in Transports : Live(t) /\ tr[t].sock # None => EndOf(t) # None
  /\ \A t, u \in Transports :
       Live(t) /\ Live(u) /\ tr[t].sock = tr[u].sock /\ tr[t].sock # None => t = u
  /\ \A f, g \in Fd : sock[f] = Listening /\ sock[g] = Listening => f = g

WatchesKept ==
  \A f \in Fd : watch[f] # None =>
    Live(watch[f]) /\ ~tr[watch[f]].destroyed /\ tr[watch[f]].sock = f

\* There is a connection for the callback to accept until it does, or its
\* transport is destroyed.
CallbackKept ==
  /\ \A t \in Transports : tr[t].busy = IF Runs(t) THEN 1 ELSE 0
  /\ \A t \in Transports : Live(t) /\ tr[t].destroyed => Runs(t)
  /\ cur # None => Live(cur.t)
  /\ cur # None /\ cur.at = "connection" /\ ~tr[cur.t].destroyed =>
       tr[cur.t].sock # None /\ EndOf(cur.t) = Listening /\ pending # <<>>

StrmInv == ShapeKept /\ SocketsKept /\ WatchesKept /\ CallbackKept

-----------------------------------------------------------------------------
\* Records of transports, and one that changes.

(* None is no end of a connection, no descriptor and no transport.         *)
LEMMA NoneFacts ==
  /\ None \notin End /\ None # Listening /\ Listening \notin End /\ None \notin Callbacks
  /\ None \notin Fd /\ None \notin Transports
<1>1. Listening \notin End
  BY DEF Listening, End
<1>. QED BY <1>1, TransportAssumption, StreamAssumption

(* What iot_transport_create() makes, and memory that was freed, are       *)
(* records.                                                                *)
LEMMA OpenedShaped ==
  /\ Shaped(Opened) /\ Opened.buf = None /\ ~Opened.connected
  /\ Shaped(Freed) /\ Freed.life = "freed" /\ Freed.buf = None
<1> DEFINE o == Opened
           f == [o EXCEPT !.life = "freed"]
<1>1. Shaped(Opened) /\ Opened.buf = None /\ ~Opened.connected
  BY DEF Shaped, HasFields, Opened
<1>2. HasFields(o)
  BY DEF Opened, HasFields
<1> HIDE DEF o
<1>3. f.life = "freed" /\ f.buf = o.buf /\ HasFields(f)
  BY <1>2 DEF HasFields
<1>4. /\ f.busy = o.busy /\ f.sock = o.sock /\ f.destroyed = o.destroyed
      /\ f.connected = o.connected /\ f.listened = o.listened
  BY <1>2 DEF HasFields
<1>5. Freed = f
  BY DEF Freed, o
<1> HIDE DEF f
<1>6. Shaped(f)
  BY <1>1, <1>3, <1>4 DEF Shaped, o
<1>. QED BY <1>1, <1>3, <1>5, <1>6 DEF o

(* A record by its fields, and what becomes of it when one of them is set. *)
Fields(r, life, destroyed, busy, connected, listened, sk, buf) ==
  r = [life |-> life, destroyed |-> destroyed, busy |-> busy, connected |-> connected,
       listened |-> listened, sock |-> sk, buf |-> buf]

\* The fields of a record with one of them set.
LEMMA FieldsSet ==
  ASSUME NEW r, NEW l, NEW d, NEW b, NEW c, NEW li, NEW s, NEW bu,
         Fields(r, l, d, b, c, li, s, bu), NEW x
  PROVE  /\ Fields([r EXCEPT !.destroyed = x], l, x, b, c, li, s, bu)
         /\ Fields([r EXCEPT !.busy = x], l, d, x, c, li, s, bu)
         /\ Fields([r EXCEPT !.connected = x], l, d, b, x, li, s, bu)
         /\ Fields([r EXCEPT !.sock = x], l, d, b, c, li, x, bu)
         /\ Fields([r EXCEPT !.buf = x], l, d, b, c, li, s, x)
<1>1. Fields([r EXCEPT !.destroyed = x], l, x, b, c, li, s, bu)
  BY DEF Fields
<1>2. Fields([r EXCEPT !.busy = x], l, d, x, c, li, s, bu)
  BY DEF Fields
<1>3. Fields([r EXCEPT !.connected = x], l, d, b, x, li, s, bu)
  BY DEF Fields
<1>4. Fields([r EXCEPT !.sock = x], l, d, b, c, li, x, bu)
  BY DEF Fields
<1>5. Fields([r EXCEPT !.buf = x], l, d, b, c, li, s, x)
  BY DEF Fields
<1>. QED BY <1>1, <1>2, <1>3, <1>4, <1>5

(* The fields are what is read of it.                                      *)
LEMMA FieldsRead ==
  ASSUME NEW r, NEW l, NEW d, NEW b, NEW c, NEW li, NEW s, NEW bu,
         Fields(r, l, d, b, c, li, s, bu)
  PROVE  /\ HasFields(r)
         /\ r.life = l /\ r.destroyed = d /\ r.busy = b /\ r.connected = c
         /\ r.listened = li /\ r.sock = s /\ r.buf = bu
<1>1. /\ r.life = l /\ r.destroyed = d /\ r.busy = b /\ r.connected = c
      /\ r.listened = li /\ r.sock = s /\ r.buf = bu
  BY DEF Fields
<1>. QED BY <1>1 DEF Fields, HasFields

(* What becomes of a record when a callback begins, and when it returns.   *)
LEMMA EnterLeave ==
  ASSUME NEW r, Shaped(r)
  PROVE  /\ r.busy = 0 => Shaped(Enter(r)) /\ Enter(r) = [r EXCEPT !.busy = 1]
         /\ r.busy = 1 => Shaped(Leave(r)) /\ Leave(r) = [r EXCEPT !.busy = 0]
         /\ Leave(Enter(r)) = r
<1>1. /\ r.busy = 0 => Shaped(Enter(r)) /\ Enter(r) = [r EXCEPT !.busy = 1]
      /\ r.busy = 1 => Shaped(Leave(r)) /\ Leave(r) = [r EXCEPT !.busy = 0]
  BY DEF Shaped, HasFields, Enter, Leave
<1>2. Leave(Enter(r)) = [r EXCEPT !.busy = r.busy]
  <2>1. Leave(Enter(r)) = [[r EXCEPT !.busy = r.busy + 1] EXCEPT !.busy = (r.busy + 1) - 1]
    BY DEF Shaped, HasFields, Enter, Leave
  <2>2. (r.busy + 1) - 1 = r.busy
    BY DEF Shaped
  <2>. QED BY <2>1, <2>2 DEF Shaped, HasFields
<1>3. [r EXCEPT !.busy = r.busy] = r
  BY DEF Shaped, HasFields
<1>. QED BY <1>1, <1>2, <1>3

(* A request or a callback changes the record of one transport.            *)
LEMMA OneChanged ==
  ASSUME ShapeKept, NEW t \in Transports, NEW r, Shaped(r), tr' = [tr EXCEPT ![t] = r]
  PROVE  /\ tr' = [u \in Transports |-> tr'[u]] /\ \A u \in Transports : Shaped(tr'[u])
         /\ tr'[t] = r /\ \A u \in Transports : u # t => tr'[u] = tr[u]
  BY DEF ShapeKept

(* A step that changes the descriptors of no transport: it takes the       *)
(* watch of one away or not, calls one back, or returns from a callback.   *)
Goes(t, r) ==
  \/ UNCHANGED cur /\ r.busy = tr[t].busy
  \/ /\ cur = None \/ cur.t = t
     /\ Live(t) /\ ~r.destroyed
     /\ \/ cur' = None /\ r.busy = 0
        \/ /\ cur' \in Callbacks /\ cur'.t = t /\ r.busy = 1
           /\ cur'.at = "connection" => r.sock # None /\ EndOf(t) = Listening /\ pending # <<>>

(* Such a step keeps the invariant, if the transport is not destroyed by   *)
(* it.                                                                     *)
LEMMA SocketsStay ==
  ASSUME StrmInv, NEW t \in Transports, NEW r, Shaped(r), tr' = [tr EXCEPT ![t] = r],
         r.life = tr[t].life, r.destroyed = tr[t].destroyed, r.sock = tr[t].sock,
         UNCHANGED <<sock, pending, conns>>, watch' = watch \/ watch' = WithoutWatch(t),
         Goes(t, r)
  PROVE  StrmInv'
<1>1. /\ ShapeKept /\ SocketsKept /\ WatchesKept /\ CallbackKept
      /\ tr' = [u \in Transports |-> tr'[u]] /\ \A u \in Transports : Shaped(tr'[u])
      /\ tr'[t] = r /\ \A u \in Transports : u # t => tr'[u] = tr[u]
  BY OneChanged DEF StrmInv
<1>2. \A u \in Transports : /\ tr'[u].life = tr[u].life /\ tr'[u].destroyed = tr[u].destroyed
                            /\ tr'[u].sock = tr[u].sock
  BY <1>1
<1>3. watch' \in [Fd -> Transports \cup {None}] /\ \A f \in Fd : watch'[f] \in {watch[f], None}
  BY <1>1 DEF ShapeKept, WithoutWatch
<1>4. ShapeKept'
  BY <1>1, <1>3 DEF ShapeKept, Goes
<1>5. SocketsKept'
  BY <1>1, <1>2 DEF SocketsKept, Live, EndOf
<1>6. WatchesKept'
  <2>1. \A f \in Fd : watch[f] \in Transports \cup {None}
    BY <1>1 DEF ShapeKept
  <2>. QED BY <1>1, <1>2, <1>3, <2>1 DEF WatchesKept, Live
<1>7. CallbackKept'
  <2>1. CASE UNCHANGED cur /\ r.busy = tr[t].busy
    <3>1. \A u \in Transports : tr'[u].busy = tr[u].busy
      BY <1>1, <2>1
    <3>2. cur # None => cur.t \in Transports
      BY <1>1 DEF ShapeKept, Callbacks
    <3>. QED BY <1>1, <1>2, <2>1, <3>1, <3>2 DEF CallbackKept, Live, Runs, EndOf
  <2>2. CASE ~(UNCHANGED cur /\ r.busy = tr[t].busy)
    <3>1. /\ cur = None \/ cur.t = t
          /\ Live(t) /\ ~r.destroyed
          /\ \/ cur' = None /\ r.busy = 0
             \/ /\ cur' \in Callbacks /\ cur'.t = t /\ r.busy = 1
                /\ cur'.at = "connection" => r.sock # None /\ EndOf(t) = Listening /\ pending # <<>>
      BY <2>2 DEF Goes
    <3>2. \A u \in Transports : u # t => tr[u].busy = 0 /\ ~(Live(u) /\ tr[u].destroyed)
      BY <1>1, <3>1 DEF CallbackKept, Runs
    <3>3. cur' # None <=> cur' \in Callbacks
      BY <3>1, NoneFacts
    <3>4. \A u \in Transports : tr'[u].busy = IF Runs(u)' THEN 1 ELSE 0
      BY <1>1, <3>1, <3>2, <3>3 DEF Runs
    <3>5. \A u \in Transports : ~(tr'[u].life = "live" /\ tr'[u].destroyed)
      BY <1>1, <1>2, <3>1, <3>2 DEF Live
    <3>6. EndOf(t)' = EndOf(t)
      BY <1>2 DEF EndOf
    <3>. QED BY <1>1, <1>2, <3>1, <3>3, <3>4, <3>5, <3>6 DEF CallbackKept, Live
  <2>. QED BY <2>1, <2>2
<1>. QED BY <1>4, <1>5, <1>6, <1>7 DEF StrmInv

(* A transport that is destroyed, and nothing calls back, is freed.        *)
LEMMA FreedOnReturn ==
  ASSUME StrmInv, cur # None, tr[cur.t].destroyed,
         tr' = [tr EXCEPT ![cur.t] = Freed], cur' = None, UNCHANGED <<watch, netVars>>
  PROVE  StrmInv'
<1> DEFINE t == cur.t
<1>0. t \in Transports
  BY DEF StrmInv, ShapeKept, Callbacks
<1>1. /\ ShapeKept /\ SocketsKept /\ WatchesKept /\ CallbackKept
      /\ tr' = [u \in Transports |-> tr'[u]] /\ \A u \in Transports : Shaped(tr'[u])
      /\ tr'[t] = Freed /\ \A u \in Transports : u # t => tr'[u] = tr[u]
  BY <1>0, OneChanged, OpenedShaped DEF StrmInv
<1>2. /\ UNCHANGED <<sock, pending, conns>> /\ Freed.life = "freed" /\ Freed.busy = 0
  BY OpenedShaped DEF netVars, Freed, Opened
<1>3. ShapeKept'
  BY <1>1, <1>2 DEF ShapeKept
<1>4. SocketsKept'
  BY <1>1, <1>2 DEF SocketsKept, Live, EndOf
<1>5. WatchesKept'
  <2>1. \A f \in Fd : watch[f] \in Transports \cup {None}
    BY <1>1 DEF ShapeKept
  <2>. QED BY <1>1, <1>2, <2>1 DEF WatchesKept, Live
<1>6. CallbackKept'
  BY <1>1, <1>2 DEF CallbackKept, Live, Runs
<1>. QED BY <1>3, <1>4, <1>5, <1>6 DEF StrmInv

-----------------------------------------------------------------------------
\* The requests that keep a transport's socket, or give it up.

(* What a request makes of a transport that can be used.                   *)
LEMMA DisconnectedRecord ==
  ASSUME NEW r, Shaped(r), Usable(r)
  PROVE  LET q == Requested(r, LAMBDA s : [Disconnected(s) EXCEPT !.connected = FALSE])
         IN  /\ Shaped(q) /\ q.life = r.life /\ q.destroyed = r.destroyed
             /\ q.busy = r.busy /\ q.sock = r.sock /\ ~q.connected
             /\ q.buf = IF r.connected THEN None ELSE r.buf
<1> DEFINE e == Enter(r)
           d == Disconnected(e)
           c == [d EXCEPT !.connected = FALSE]
           q == Leave(c)
           up == r.busy + 1
           none == IF r.connected THEN None ELSE r.buf
<1>1. Fields(r, r.life, r.destroyed, r.busy, r.connected, r.listened, r.sock, r.buf)
  BY DEF Shaped, HasFields, Fields
<1>2. Fields(e, r.life, r.destroyed, up, r.connected, r.listened, r.sock, r.buf)
  <2>1. Fields([r EXCEPT !.busy = up], r.life, r.destroyed, up, r.connected, r.listened, r.sock, r.buf)
    <3> HIDE DEF up
    <3>. QED BY <1>1, FieldsSet, Zenon
  <2>. QED BY <2>1 DEF Enter
<1> HIDE DEF e, up
<1>3. Fields(d, r.life, r.destroyed, up, r.connected, r.listened, r.sock, none)
  <2>1. e.connected = r.connected
    BY <1>2, FieldsRead
  <2>2. Fields([e EXCEPT !.buf = None], r.life, r.destroyed, up, r.connected, r.listened, r.sock, None)
    BY <1>2, FieldsSet, Zenon
  <2>. QED BY <1>2, <2>1, <2>2, Zenon DEF Disconnected
<1> HIDE DEF d, none
<1>4. Fields(c, r.life, r.destroyed, up, FALSE, r.listened, r.sock, none)
  BY <1>3, FieldsSet, Zenon
<1> HIDE DEF c
<1>5. Fields(q, r.life, r.destroyed, r.busy, FALSE, r.listened, r.sock, none)
  <2>1. c.busy = up
    BY <1>4, FieldsRead
  <2>2. Leave(c) = [c EXCEPT !.busy = up - 1]
    BY <2>1 DEF Leave
  <2>3. up - 1 = r.busy
    BY DEF Shaped, up
  <2>4. q = [c EXCEPT !.busy = r.busy]
    BY <2>2, <2>3
  <2>5. Fields([c EXCEPT !.busy = r.busy], r.life, r.destroyed, r.busy, FALSE, r.listened, r.sock, none)
    BY <1>4, FieldsSet, Zenon
  <2>. QED BY <2>4, <2>5, Zenon
<1> HIDE DEF q
<1>6. /\ HasFields(q)
      /\ q.life = r.life /\ q.destroyed = r.destroyed /\ q.busy = r.busy
      /\ q.connected = FALSE /\ q.listened = r.listened /\ q.sock = r.sock /\ q.buf = none
  <2>1. ASSUME NEW x, Fields(q, r.life, r.destroyed, r.busy, x, r.listened, r.sock, none)
        PROVE  /\ HasFields(q)
               /\ q.life = r.life /\ q.destroyed = r.destroyed /\ q.busy = r.busy
               /\ q.connected = x /\ q.listened = r.listened /\ q.sock = r.sock /\ q.buf = none
    BY <2>1, FieldsRead
  <2>. QED BY <1>5, <2>1, Zenon
<1>7. Shaped(q)
  BY <1>6 DEF Shaped
<1>8. Requested(r, LAMBDA s : [Disconnected(s) EXCEPT !.connected = FALSE]) = q
  <2>1. Purged(q) = q
    BY <1>6 DEF Purged, Usable
  <2>. QED BY <2>1 DEF Requested, q, c, d, e
<1>. QED BY <1>6, <1>7, <1>8 DEF none

(* iot_transport_destroy() frees a transport that is not busy, and leaves  *)
(* one that is without a socket.                                           *)
LEMMA DestroyedRecord ==
  ASSUME NEW r, Shaped(r), Usable(r)
  PROVE  LET q == Requested([r EXCEPT !.destroyed = TRUE],
                            LAMBDA s : [s EXCEPT !.buf = None, !.sock = None])
         IN  /\ Shaped(q) /\ q.buf = None
             /\ r.busy = 0 => q = Freed
             /\ r.busy = 1 => /\ q.life = "live" /\ q.destroyed /\ q.busy = 1
                              /\ q.sock = None
<1> DEFINE d == [r EXCEPT !.destroyed = TRUE]
           e == Enter(d)
           c == [e EXCEPT !.buf = None, !.sock = None]
           q == Leave(c)
           up == r.busy + 1
<1>1. Fields(r, r.life, r.destroyed, r.busy, r.connected, r.listened, r.sock, r.buf)
  BY DEF Shaped, HasFields, Fields
<1>2. Fields(d, r.life, TRUE, r.busy, r.connected, r.listened, r.sock, r.buf)
  BY <1>1, FieldsSet, Zenon
<1> HIDE DEF d
<1>3. Fields(e, r.life, TRUE, up, r.connected, r.listened, r.sock, r.buf)
  <2>1. d.busy = r.busy
    <3>1. ASSUME NEW x, Fields(d, r.life, x, r.busy, r.connected, r.listened, r.sock, r.buf)
          PROVE  d.busy = r.busy
      BY <3>1, FieldsRead
    <3>. QED BY <1>2, <3>1, Zenon
  <2>2. e = [d EXCEPT !.busy = up]
    BY <2>1 DEF Enter
  <2> HIDE DEF up, e
  <2>3. Fields([d EXCEPT !.busy = up], r.life, TRUE, up, r.connected, r.listened, r.sock, r.buf)
    BY <1>2, FieldsSet, Zenon
  <2>. QED BY <2>2, <2>3, Zenon
<1> HIDE DEF e, up
<1>4. Fields(c, r.life, TRUE, up, r.connected, r.listened, None, None)
  <2> DEFINE b == [e EXCEPT !.buf = None]
  <2>1. Fields(b, r.life, TRUE, up, r.connected, r.listened, r.sock, None)
    BY <1>3, FieldsSet, Zenon
  <2>2. c = [b EXCEPT !.sock = None]
    OBVIOUS
  <2> HIDE DEF b, c
  <2>3. Fields([b EXCEPT !.sock = None], r.life, TRUE, up, r.connected, r.listened, None, None)
    BY <2>1, FieldsSet, Zenon
  <2>. QED BY <2>2, <2>3, Zenon
<1> HIDE DEF c
<1>5. Fields(q, r.life, TRUE, r.busy, r.connected, r.listened, None, None)
  <2>1. c.busy = up
    BY <1>4, FieldsRead
  <2>2. Leave(c) = [c EXCEPT !.busy = up - 1]
    BY <2>1 DEF Leave
  <2>3. up - 1 = r.busy
    BY DEF Shaped, up
  <2>4. q = [c EXCEPT !.busy = r.busy]
    BY <2>2, <2>3
  <2>5. Fields([c EXCEPT !.busy = r.busy], r.life, TRUE, r.busy, r.connected, r.listened, None, None)
    BY <1>4, FieldsSet, Zenon
  <2>. QED BY <2>4, <2>5, Zenon
<1> HIDE DEF q
<1>6. /\ HasFields(q)
      /\ q.life = r.life /\ q.destroyed = TRUE /\ q.busy = r.busy
      /\ q.connected = r.connected /\ q.listened = r.listened /\ q.sock = None /\ q.buf = None
  <2>1. ASSUME NEW x, Fields(q, r.life, x, r.busy, r.connected, r.listened, None, None)
        PROVE  /\ HasFields(q)
               /\ q.life = r.life /\ q.destroyed = x /\ q.busy = r.busy
               /\ q.connected = r.connected /\ q.listened = r.listened /\ q.sock = None
               /\ q.buf = None
    BY <2>1, FieldsRead
  <2>. QED BY <1>5, <2>1, Zenon
<1>7. Shaped(q)
  BY <1>6 DEF Shaped
<1>8. Requested(d, LAMBDA s : [s EXCEPT !.buf = None, !.sock = None]) = Purged(q)
  BY DEF Requested, q, c, e
<1>9. r.busy \in {0, 1} /\ r.life = "live"
  BY DEF Shaped, Usable
<1>10. r.busy = 0 => Purged(q) = Freed
  BY <1>6 DEF Purged
<1>11. r.busy = 1 => Purged(q) = q
  BY <1>6 DEF Purged
<1>12. Shaped(Purged(q)) /\ Purged(q).buf = None
  BY <1>6, <1>7, <1>9, <1>10, <1>11, OpenedShaped
<1>. QED BY <1>6, <1>8, <1>9, <1>10, <1>11, <1>12 DEF d

(* strm_disconnect() takes the watch away and keeps the descriptor.        *)
LEMMA DisconnectStep ==
  ASSUME StrmInv, NEW t \in Transports, IotTransportDisconnect(t)
  PROVE  StrmInv'
<1> DEFINE q == Requested(tr[t], LAMBDA s : [Disconnected(s) EXCEPT !.connected = FALSE])
<1>1. Shaped(tr[t]) /\ Usable(tr[t])
  BY DEF IotTransportDisconnect, StrmInv, ShapeKept
<1>2. /\ Shaped(q) /\ q.life = tr[t].life /\ q.destroyed = tr[t].destroyed
      /\ q.busy = tr[t].busy /\ q.sock = tr[t].sock
  BY <1>1, DisconnectedRecord
<1>3. tr' = [tr EXCEPT ![t] = q]
  BY DEF IotTransportDisconnect
<1> HIDE DEF q
<1>4. /\ UNCHANGED <<sock, pending, conns, cur>> /\ (watch' = watch \/ watch' = WithoutWatch(t))
  BY DEF IotTransportDisconnect, StrmDisconnect
<1>. QED BY <1>2, <1>3, <1>4, SocketsStay DEF Goes

(* Destroying a transport closes its socket and takes its watch away; it   *)
(* is freed then, or when the callback that runs returns.                  *)
LEMMA DestroyStep ==
  ASSUME StrmInv, NEW t \in Transports, IotTransportDestroy(t)
  PROVE  StrmInv'
<1> DEFINE q == Requested([tr[t] EXCEPT !.destroyed = TRUE],
                          LAMBDA s : [s EXCEPT !.buf = None, !.sock = None])
           f == tr[t].sock
<1>1. /\ ShapeKept /\ SocketsKept /\ WatchesKept /\ CallbackKept
      /\ Shaped(tr[t]) /\ Usable(tr[t]) /\ UNCHANGED cur /\ f \in Fd \cup {None}
  BY DEF IotTransportDestroy, StrmInv, ShapeKept, Shaped
<1>2. /\ Shaped(q) /\ (tr[t].busy = 0 => q = Freed)
      /\ tr[t].busy = 1 => q.life = "live" /\ q.destroyed /\ q.busy = 1 /\ q.sock = None
  BY <1>1, DestroyedRecord
<1>3. tr' = [tr EXCEPT ![t] = q]
  BY DEF IotTransportDestroy
<1> HIDE DEF q
<1>4. /\ tr' = [u \in Transports |-> tr'[u]] /\ \A u \in Transports : Shaped(tr'[u])
      /\ tr'[t] = q /\ \A u \in Transports : u # t => tr'[u] = tr[u]
  BY <1>1, <1>2, <1>3, OneChanged
<1>5. /\ watch' \in [Fd -> Transports \cup {None}]
      /\ \A g \in Fd : watch'[g] # None => watch'[g] = watch[g] /\ watch[g] # t
  <2>1. CASE f = None
    <3>1. watch' = watch
      BY <2>1 DEF IotTransportDestroy, StrmClose
    <3>2. \A g \in Fd : watch[g] # t
      BY <1>1, <2>1, NoneFacts DEF WatchesKept
    <3>. QED BY <1>1, <3>1, <3>2 DEF ShapeKept
  <2>2. CASE f # None
    <3>1. watch' = WithoutWatch(t)
      BY <2>2 DEF IotTransportDestroy, StrmClose
    <3>. QED BY <1>1, <3>1 DEF ShapeKept, WithoutWatch
  <2>. QED BY <2>1, <2>2
<1>6. /\ sock' \in [Fd -> End \cup {Listening, None}] /\ conns' = conns
      /\ \A g \in Fd : g # f => sock'[g] = sock[g]
      /\ \A g \in Fd : sock'[g] # None => sock'[g] = sock[g]
      /\ pending' \in Seq(1 .. MaxConns)
      /\ pending' = pending \/ (f # None /\ sock[f] = Listening)
  <2>1. CASE f = None
    BY <1>1, <2>1 DEF IotTransportDestroy, StrmClose, ShapeKept, netVars
  <2>2. CASE f # None
    <3>1. /\ sock' = [sock EXCEPT ![f] = None] /\ conns' = conns
          /\ pending' = IF sock[f] = Listening THEN <<>> ELSE pending
      BY <2>2 DEF IotTransportDestroy, StrmClose
    <3>2. <<>> \in Seq(1 .. MaxConns)
      OBVIOUS
    <3>. QED BY <1>1, <2>2, <3>1, <3>2 DEF ShapeKept
  <2>. QED BY <2>1, <2>2
<1>7. ShapeKept'
  BY <1>1, <1>4, <1>5, <1>6 DEF ShapeKept
<1>8. tr[t].busy \in {0, 1} /\ Live(t) /\ ~tr[t].destroyed /\ Freed.life = "freed" /\ Freed.busy = 0
  BY <1>1, OpenedShaped DEF Shaped, Usable, Live, Freed, Opened
<1>9. \A u \in Transports : Live(u)' /\ tr'[u].sock # None =>
        u # t /\ Live(u) /\ tr'[u].sock = tr[u].sock /\ tr[u].sock # f /\ tr[u].sock \in Fd
  <2>1. SUFFICES ASSUME NEW u \in Transports, Live(u)', tr'[u].sock # None
                 PROVE  /\ u # t /\ Live(u) /\ tr'[u].sock = tr[u].sock /\ tr[u].sock # f
                        /\ tr[u].sock \in Fd
    OBVIOUS
  <2>2. u # t
    BY <1>2, <1>4, <1>8, <2>1 DEF Live
  <2>3. Live(u) /\ tr'[u].sock = tr[u].sock
    BY <1>4, <2>1, <2>2 DEF Live
  <2>4. tr[u].sock \in Fd
    BY <1>1, <2>1, <2>3 DEF ShapeKept, Shaped
  <2>. QED BY <1>1, <1>8, <2>1, <2>2, <2>3, <2>4 DEF SocketsKept
<1>10. SocketsKept'
  <2>1. \A u \in Transports : Live(u)' /\ tr'[u].sock # None => EndOf(u)' # None
    BY <1>1, <1>6, <1>9 DEF SocketsKept, EndOf
  <2>2. \A u, v \in Transports :
          Live(u)' /\ Live(v)' /\ tr'[u].sock = tr'[v].sock /\ tr'[u].sock # None => u = v
    BY <1>1, <1>9 DEF SocketsKept
  <2>3. \A g, h \in Fd : sock'[g] = Listening /\ sock'[h] = Listening => g = h
    BY <1>1, <1>6, NoneFacts DEF SocketsKept
  <2>. QED BY <2>1, <2>2, <2>3 DEF SocketsKept
<1>11. WatchesKept'
  <2>1. \A g \in Fd : watch[g] \in Transports \cup {None}
    BY <1>1 DEF ShapeKept
  <2>. QED BY <1>1, <1>4, <1>5, <2>1 DEF WatchesKept, Live
<1>12. CallbackKept'
  <2>1. Runs(t) <=> tr[t].busy = 1
    BY <1>1, <1>8 DEF CallbackKept
  <2>2. \A u \in Transports : tr'[u].busy = IF Runs(u)' THEN 1 ELSE 0
    <3>1. q.busy = tr[t].busy
      BY <1>2, <1>8
    <3>. QED BY <1>1, <1>4, <3>1 DEF CallbackKept, Runs
  <2>3. \A u \in Transports : Live(u)' /\ tr'[u].destroyed => Runs(u)'
    BY <1>1, <1>2, <1>4, <1>8, <2>1 DEF CallbackKept, Live, Runs
  <2>4. cur # None => cur.t \in Transports
    BY <1>1 DEF ShapeKept, Callbacks
  <2>5. cur' # None => Live(cur.t)'
    BY <1>1, <1>2, <1>4, <1>8, <2>1, <2>4 DEF CallbackKept, Live, Runs
  <2>6. ASSUME cur' # None, cur'.at = "connection", ~tr'[cur'.t].destroyed
        PROVE  tr'[cur'.t].sock # None /\ EndOf(cur.t)' = Listening /\ pending' # <<>>
    <3>1. cur.t # t
      BY <1>1, <1>2, <1>4, <1>8, <2>1, <2>4, <2>6 DEF Runs
    <3>2. tr'[cur.t] = tr[cur.t] /\ tr[cur.t].sock # None /\ EndOf(cur.t) = Listening
          /\ pending # <<>> /\ Live(cur.t)
      BY <1>1, <1>4, <2>4, <2>6, <3>1 DEF CallbackKept
    <3>3. tr[cur.t].sock # f /\ tr[cur.t].sock \in Fd
      <4>1. tr'[cur.t].life = "live" /\ tr'[cur.t].sock # None /\ cur.t \in Transports
        BY <1>1, <2>4, <2>6, <3>2 DEF Live
      <4>2. tr[cur.t].sock # f /\ tr[cur.t].sock \in Fd
        BY <1>9, <4>1 DEF Live
      <4>. QED BY <4>2
    <3>4. pending' = pending
      BY <1>1, <1>6, <3>2, <3>3 DEF SocketsKept, EndOf
    <3>. QED BY <1>1, <1>6, <3>2, <3>3, <3>4 DEF EndOf
  <2>. QED BY <1>1, <2>2, <2>3, <2>5, <2>6 DEF CallbackKept
<1>. QED BY <1>7, <1>10, <1>11, <1>12 DEF StrmInv

-----------------------------------------------------------------------------
\* The requests that give a transport a socket.

(* A transport that is created has no socket yet, and nothing refers to    *)
(* it.                                                                     *)
LEMMA CreateStep ==
  ASSUME StrmInv, NEW t \in Transports, IotTransportCreate(t)
  PROVE  StrmInv'
<1>1. /\ ShapeKept /\ SocketsKept /\ WatchesKept /\ CallbackKept /\ ~Live(t)
      /\ UNCHANGED <<watch, sock, pending, conns, cur>> /\ Shaped(Opened)
      /\ tr' = [tr EXCEPT ![t] = Opened]
  BY OpenedShaped DEF StrmInv, IotTransportCreate, netVars, Live
<1>2. /\ tr' = [u \in Transports |-> tr'[u]] /\ \A u \in Transports : Shaped(tr'[u])
      /\ tr'[t] = Opened /\ \A u \in Transports : u # t => tr'[u] = tr[u]
  BY <1>1, OneChanged
<1>3. Opened.sock = None /\ Opened.busy = 0 /\ ~Opened.destroyed
  BY DEF Opened
<1>4. ShapeKept'
  BY <1>1, <1>2 DEF ShapeKept
<1>5. SocketsKept'
  BY <1>1, <1>2, <1>3 DEF SocketsKept, Live, EndOf
<1>6. WatchesKept'
  <2>1. \A f \in Fd : watch[f] \in Transports \cup {None}
    BY <1>1 DEF ShapeKept
  <2>. QED BY <1>1, <1>2, <2>1 DEF WatchesKept, Live
<1>7. CallbackKept'
  <2>1. ~Runs(t) /\ (cur # None => cur.t \in Transports)
    BY <1>1 DEF CallbackKept, Live, Runs, ShapeKept, Callbacks
  <2>. QED BY <1>1, <1>2, <1>3, <2>1 DEF CallbackKept, Live, Runs, EndOf
<1>. QED BY <1>4, <1>5, <1>6, <1>7 DEF StrmInv

(* A transport gets a socket that was free, and a watch of its own.        *)
LEMMA SocketGiven ==
  ASSUME StrmInv, NEW t \in Transports, ~Live(t) \/ (~tr[t].destroyed /\ tr[t].sock = None),
         NEW f \in FreeFds, NEW s \in End \cup {Listening},
         s = Listening => \A g \in Fd : sock[g] # Listening,
         NEW r, Shaped(r), r.life = "live", ~r.destroyed, r.sock = f, r.busy = tr[t].busy,
         tr' = [tr EXCEPT ![t] = r], sock' = [sock EXCEPT ![f] = s], watch' = WithWatch(f, t),
         pending' \in Seq(1 .. MaxConns), conns' \in 0 .. MaxConns,
         \/ cur' = cur /\ (pending # <<>> => pending' # <<>>)
         \/ cur # None /\ cur' \in Callbacks /\ cur'.t = cur.t /\ cur'.at # "connection"
  PROVE  StrmInv'
<1>1. /\ ShapeKept /\ SocketsKept /\ WatchesKept /\ CallbackKept
      /\ f \in Fd /\ sock[f] = None /\ f # None /\ s # None
  BY NoneFacts DEF StrmInv, FreeFds
<1>2. /\ tr' = [u \in Transports |-> tr'[u]] /\ \A u \in Transports : Shaped(tr'[u])
      /\ tr'[t] = r /\ \A u \in Transports : u # t => tr'[u] = tr[u]
  BY <1>1, OneChanged
<1>3. /\ watch' \in [Fd -> Transports \cup {None}] /\ watch'[f] = t
      /\ \A g \in Fd : g # f => watch'[g] = watch[g]
      /\ sock' \in [Fd -> End \cup {Listening, None}] /\ sock'[f] = s
      /\ \A g \in Fd : g # f => sock'[g] = sock[g]
  BY <1>1 DEF ShapeKept, WithWatch
<1>4. ShapeKept'
  BY <1>1, <1>2, <1>3 DEF ShapeKept
<1>5. \A u \in Transports : u # t /\ Live(u) /\ tr[u].sock # None =>
        tr[u].sock \in Fd /\ tr[u].sock # f
  BY <1>1 DEF SocketsKept, EndOf, ShapeKept, Shaped
<1>6. SocketsKept'
  <2>1. \A u \in Transports : Live(u)' /\ tr'[u].sock # None => EndOf(u)' # None
    BY <1>1, <1>2, <1>3, <1>5 DEF SocketsKept, EndOf, Live
  <2>2. \A u, v \in Transports :
          Live(u)' /\ Live(v)' /\ tr'[u].sock = tr'[v].sock /\ tr'[u].sock # None => u = v
    BY <1>1, <1>2, <1>5 DEF SocketsKept, Live
  <2>3. \A g, h \in Fd : sock'[g] = Listening /\ sock'[h] = Listening => g = h
    BY <1>1, <1>3, NoneFacts DEF SocketsKept
  <2>. QED BY <2>1, <2>2, <2>3 DEF SocketsKept
<1>7. WatchesKept'
  <2>1. \A g \in Fd : watch[g] \in Transports \cup {None}
    BY <1>1 DEF ShapeKept
  <2>2. ~Live(t) \/ tr[t].sock = None
    OBVIOUS
  <2>3. \A g \in Fd : watch[g] # t
    BY <1>1, <2>2, NoneFacts DEF WatchesKept
  <2>. QED BY <1>1, <1>2, <1>3, <2>1, <2>3 DEF WatchesKept, Live
<1>8. CallbackKept'
  <2>1. /\ cur # None => cur.t \in Transports
        /\ cur' # None <=> cur # None
        /\ cur' # None => cur'.t = cur.t
    BY <1>1, NoneFacts DEF ShapeKept, Callbacks
  <2>2. \A u \in Transports : Runs(u)' <=> Runs(u)
    BY <2>1 DEF Runs
  <2>3. \A u \in Transports : tr'[u].busy = IF Runs(u)' THEN 1 ELSE 0
    BY <1>1, <1>2, <2>2 DEF CallbackKept
  <2>4. \A u \in Transports : Live(u)' /\ tr'[u].destroyed => Runs(u)'
    BY <1>1, <1>2, <2>2 DEF CallbackKept, Live
  <2>5. cur' # None => Live(cur.t)'
    BY <1>1, <1>2, <2>1 DEF CallbackKept, Live
  <2>6. ASSUME cur' # None, cur'.at = "connection", ~tr'[cur'.t].destroyed
        PROVE  tr'[cur'.t].sock # None /\ EndOf(cur.t)' = Listening /\ pending' # <<>>
    <3>1. cur' = cur /\ cur.t \in Transports /\ Live(cur.t) /\ (pending # <<>> => pending' # <<>>)
      BY <1>1, <2>1, <2>6 DEF CallbackKept
    <3>2. cur.t # t
      BY <1>1, <1>2, <2>6, <3>1, NoneFacts DEF CallbackKept
    <3>3. /\ tr'[cur.t] = tr[cur.t] /\ tr[cur.t].sock # None /\ EndOf(cur.t) = Listening
          /\ pending # <<>>
      BY <1>1, <1>2, <2>6, <3>1, <3>2 DEF CallbackKept
    <3>4. tr[cur.t].sock \in Fd /\ tr[cur.t].sock # f
      BY <1>5, <3>1, <3>2, <3>3
    <3>. QED BY <1>3, <3>1, <3>3, <3>4 DEF EndOf
  <2>. QED BY <2>1, <2>3, <2>4, <2>5, <2>6 DEF CallbackKept
<1>. QED BY <1>4, <1>6, <1>7, <1>8 DEF StrmInv

(* strm_listen() makes the one socket that listens.                        *)
LEMMA ListenStep ==
  ASSUME StrmInv, NEW t \in Transports, StrmListen(t)
  PROVE  StrmInv'
<1>0. PICK f \in FreeFds :
        /\ sock' = [sock EXCEPT ![f] = Listening]
        /\ watch' = WithWatch(f, t)
        /\ tr' = [tr EXCEPT ![t].sock = f, ![t].listened = TRUE]
  BY Zenon DEF StrmListen
<1>1. tr' = [tr EXCEPT ![t] = [tr[t] EXCEPT !.sock = f, !.listened = TRUE]]
  <2>1. tr = [u \in Transports |-> tr[u]] /\ Shaped(tr[t])
    BY DEF StrmInv, ShapeKept
  <2>. QED BY <1>0, <2>1
<1> DEFINE r == [tr[t] EXCEPT !.sock = f, !.listened = TRUE]
<1>2. Shaped(tr[t]) /\ Usable(tr[t]) /\ tr[t].sock = None /\ f \in Fd /\ ShapeKept
  BY DEF StrmInv, ShapeKept, StrmListen, Fresh, FreeFds
<1>3. Shaped(r) /\ r.life = "live" /\ ~r.destroyed /\ r.sock = f /\ r.busy = tr[t].busy
  <2> DEFINE o == tr[t]
  <2>1. Shaped(o) /\ o.life = "live" /\ ~o.destroyed
    BY <1>2 DEF Usable
  <2> HIDE DEF o
  <2>2. r = [o EXCEPT !.sock = f, !.listened = TRUE]
    BY DEF o
  <2>3. r.busy = o.busy => r.busy = tr[t].busy
    BY DEF o
  <2> HIDE DEF r
  <2>. QED BY <1>2, <2>1, <2>2, <2>3 DEF Shaped, HasFields
<1>4. /\ \A g \in Fd : sock[g] # Listening
      /\ pending' = pending /\ conns' = conns /\ cur' = cur
  BY DEF StrmListen
<1>5. tr' = [tr EXCEPT ![t] = r] /\ pending' \in Seq(1 .. MaxConns) /\ conns' \in 0 .. MaxConns
  BY <1>1, <1>2, <1>4 DEF ShapeKept
<1> HIDE DEF r
<1>. QED BY <1>0, <1>2, <1>3, <1>4, <1>5, SocketGiven DEF Usable

(* strm_connect() leaves its connection in the backlog.                    *)
LEMMA ConnectStep ==
  ASSUME StrmInv, NEW t \in Transports, StrmConnect(t)
  PROVE  StrmInv'
<1> DEFINE s == <<conns + 1, "client">>
<1>0. PICK f \in FreeFds :
        /\ sock' = [sock EXCEPT ![f] = <<conns', "client">>]
        /\ watch' = WithWatch(f, t)
        /\ tr' = [tr EXCEPT ![t].sock = f, ![t].connected = TRUE,
                            ![t].buf = FragbufCreate(TRUE)]
  BY DEF StrmConnect
<1>1. /\ sock' = [sock EXCEPT ![f] = s] /\ watch' = WithWatch(f, t)
      /\ tr' = [tr EXCEPT ![t] = [@ EXCEPT !.sock = f, !.connected = TRUE,
                                           !.buf = FragbufCreate(TRUE)]]
  <2>1. conns' = conns + 1
    BY DEF StrmConnect
  <2>2. tr = [u \in Transports |-> tr[u]] /\ Shaped(tr[t])
    BY DEF StrmInv, ShapeKept
  <2> DEFINE o == tr[t]
             q == [o EXCEPT !.sock = f, !.connected = TRUE, !.buf = FragbufCreate(TRUE)]
  <2>3. tr' = [tr EXCEPT ![t] = q]
    BY <1>0, <2>2
  <2>. QED BY <1>0, <2>1, <2>3
<1> DEFINE r == [tr[t] EXCEPT !.sock = f, !.connected = TRUE, !.buf = FragbufCreate(TRUE)]
<1>2. Shaped(tr[t]) /\ Usable(tr[t]) /\ tr[t].sock = None /\ f \in Fd /\ ShapeKept
  BY DEF StrmInv, ShapeKept, StrmConnect, Fresh, FreeFds
<1>3. Shaped(r) /\ r.life = "live" /\ ~r.destroyed /\ r.sock = f /\ r.busy = tr[t].busy
  <2> DEFINE o == tr[t]
  <2>1. Shaped(o) /\ o.life = "live" /\ ~o.destroyed
    BY <1>2 DEF Usable
  <2> HIDE DEF o
  <2>2. r = [o EXCEPT !.sock = f, !.connected = TRUE, !.buf = FragbufCreate(TRUE)]
    BY DEF o
  <2>3. r.busy = o.busy => r.busy = tr[t].busy
    BY DEF o
  <2> HIDE DEF r
  <2>. QED BY <1>2, <2>1, <2>2, <2>3 DEF Shaped, HasFields
<1>4. /\ conns < MaxConns /\ conns' = conns + 1 /\ cur' = cur
      /\ pending' = Append(pending, conns + 1)
  BY DEF StrmConnect
<1>5. tr' = [tr EXCEPT ![t] = r]
  BY <1>1
<1>6. conns + 1 \in 1 .. MaxConns /\ conns' \in 0 .. MaxConns
  BY <1>2, <1>4, StreamAssumption DEF ShapeKept
<1>7. pending' \in Seq(1 .. MaxConns) /\ pending' # <<>>
  <2>1. pending \in Seq(1 .. MaxConns)
    BY <1>2 DEF ShapeKept
  <2>. QED BY <1>4, <1>6, <2>1, AppendProperties
<1>8. s \in End \cup {Listening} /\ s # Listening
  BY <1>6 DEF End, Listening
<1> HIDE DEF r, s
<1>. QED BY <1>1, <1>2, <1>3, <1>4, <1>5, <1>6, <1>7, <1>8, SocketGiven DEF Usable

\* The connection the callback of cur.t is called for is gone from the backlog.
Taken ==
  /\ pending' = Tail(pending)
  /\ cur' = [cur EXCEPT !.at = "accepted"]

(* A connection callback whose transport was not destroyed finds a         *)
(* connection.                                                             *)
LEMMA TakenFacts ==
  ASSUME StrmInv, cur # None, cur.at = "connection", Usable(tr[cur.t]), Taken
  PROVE  /\ Head(pending) \in 1 .. MaxConns /\ pending' \in Seq(1 .. MaxConns)
         /\ cur' \in Callbacks /\ cur'.t = cur.t /\ cur'.at = "accepted"
<1>1. pending \in Seq(1 .. MaxConns) /\ pending # <<>> /\ cur \in Callbacks
  BY DEF StrmInv, ShapeKept, CallbackKept, Usable
<1>2. Head(pending) \in 1 .. MaxConns /\ Tail(pending) \in Seq(1 .. MaxConns)
  BY <1>1, HeadTailProperties
<1>3. cur' \in Callbacks /\ cur'.t = cur.t /\ cur'.at = "accepted"
  BY <1>1 DEF Taken, Callbacks
<1>. QED BY <1>2, <1>3 DEF Taken

(* strm_accept() gives the connection a transport, a socket and a watch.   *)
LEMMA AcceptStep ==
  ASSUME StrmInv, NEW t \in Transports, StrmAccept(t)
  PROVE  StrmInv'
<1> DEFINE s == <<Head(pending), "server">>
<1>1. PICK f \in FreeFds :
        /\ sock' = [sock EXCEPT ![f] = s] /\ watch' = WithWatch(f, t)
        /\ tr' = [tr EXCEPT ![t] = [Opened EXCEPT !.sock = f, !.connected = TRUE,
                                                  !.buf = FragbufCreate(TRUE)]]
  BY DEF StrmAccept
<1> DEFINE r == [Opened EXCEPT !.sock = f, !.connected = TRUE, !.buf = FragbufCreate(TRUE)]
<1>2. ~Live(t) /\ f \in Fd /\ ShapeKept /\ Taken /\ cur # None /\ conns' = conns
      /\ cur.at = "connection" /\ Usable(tr[cur.t])
  BY DEF StrmInv, ShapeKept, StrmAccept, FreeFds, Taken, Live
<1>3. Shaped(r) /\ r.life = "live" /\ ~r.destroyed /\ r.sock = f /\ r.busy = 0
  <2> DEFINE o == Opened
  <2>1. Shaped(o) /\ o.life = "live" /\ ~o.destroyed /\ o.busy = 0
    BY OpenedShaped DEF Opened
  <2> HIDE DEF o
  <2>2. r = [o EXCEPT !.sock = f, !.connected = TRUE, !.buf = FragbufCreate(TRUE)]
    BY DEF o
  <2> HIDE DEF r
  <2>. QED BY <1>2, <2>1, <2>2 DEF Shaped, HasFields
<1>4. tr[t].busy = 0
  BY <1>2 DEF StrmInv, CallbackKept, Live, Runs
<1>5. /\ Head(pending) \in 1 .. MaxConns /\ pending' \in Seq(1 .. MaxConns)
      /\ cur' \in Callbacks /\ cur'.t = cur.t /\ cur'.at = "accepted"
  BY <1>2, TakenFacts
<1>6. s \in End \cup {Listening} /\ s # Listening
  BY <1>5 DEF End, Listening
<1>7. tr' = [tr EXCEPT ![t] = r] /\ conns' \in 0 .. MaxConns
  BY <1>1, <1>2 DEF ShapeKept
<1> HIDE DEF r, s
<1>. QED BY <1>1, <1>2, <1>3, <1>4, <1>5, <1>6, <1>7, SocketGiven

(* iot_reject_connection() takes a connection, and no transport gets it.   *)
LEMMA RejectStep ==
  ASSUME StrmInv, IotRejectConnection
  PROVE  StrmInv'
<1>1. /\ ShapeKept /\ SocketsKept /\ WatchesKept /\ CallbackKept /\ Taken
      /\ cur # None /\ cur.at = "connection" /\ Usable(tr[cur.t])
      /\ UNCHANGED <<tr, watch, sock, conns>>
  BY DEF StrmInv, IotRejectConnection, Taken
<1>2. /\ pending' \in Seq(1 .. MaxConns)
      /\ cur' \in Callbacks /\ cur'.t = cur.t /\ cur'.at = "accepted"
  BY <1>1, TakenFacts
<1>3. ShapeKept'
  BY <1>1, <1>2 DEF ShapeKept
<1>4. SocketsKept'
  BY <1>1 DEF SocketsKept, Live, EndOf
<1>5. WatchesKept'
  BY <1>1 DEF WatchesKept, Live
<1>6. CallbackKept'
  BY <1>1, <1>2, NoneFacts DEF CallbackKept, Live, Runs
<1>. QED BY <1>3, <1>4, <1>5, <1>6 DEF StrmInv

-----------------------------------------------------------------------------
\* What the mainloop calls, and what comes of callbacks.

(* A record with another buffer, and one whose callback begins.            *)
LEMMA BufferOf ==
  ASSUME NEW r, Shaped(r), r.busy = 0, NEW b
  PROVE  LET q == [r EXCEPT !.buf = b]
         IN  /\ Shaped(q) /\ q.life = r.life /\ q.destroyed = r.destroyed
             /\ q.busy = 0 /\ q.sock = r.sock /\ q.connected = r.connected /\ q.buf = b
  BY DEF Shaped, HasFields

(* IOT_TRANSPORT_BUSY around a callback: the transport is busy, the rest   *)
(* is as it was.                                                           *)
LEMMA Entered ==
  ASSUME NEW r, Shaped(r), r.busy = 0
  PROVE  /\ Shaped(Enter(r)) /\ Enter(r).life = r.life /\ Enter(r).destroyed = r.destroyed
         /\ Enter(r).busy = 1 /\ Enter(r).sock = r.sock
         /\ Enter(r).connected = r.connected /\ Enter(r).buf = r.buf
<1>1. Shaped(Enter(r)) /\ Enter(r) = [r EXCEPT !.busy = 1]
  BY EnterLeave
<1>. QED BY <1>1 DEF Shaped, HasFields

(* The closed: label of strm_recv_cb(): the watch goes, the closed         *)
(* callback begins.                                                        *)
LEMMA CloseStep ==
  ASSUME StrmInv, NEW t \in Transports, Live(t), NEW r, Shaped(r), r.busy = 0,
         r.life = tr[t].life, r.destroyed = tr[t].destroyed, r.sock = tr[t].sock,
         ~r.destroyed, cur = None \/ cur.t = t, NEW error, Close(t, r, error)
  PROVE  StrmInv'
<1> DEFINE d == Disconnected(r)
           q == Enter(d)
<1>1. Shaped(d) /\ d.life = r.life /\ d.destroyed = r.destroyed /\ d.busy = 0 /\ d.sock = r.sock
  <2> DEFINE b == [r EXCEPT !.buf = None]
  <2>1. Shaped(b) /\ b.life = r.life /\ b.destroyed = r.destroyed /\ b.busy = 0 /\ b.sock = r.sock
    BY DEF Shaped, HasFields
  <2>2. d = IF r.connected THEN b ELSE r
    BY DEF Disconnected
  <2> HIDE DEF b, d
  <2>. QED BY <2>1, <2>2
<1> HIDE DEF d
<1>2. Shaped(q) /\ q.life = r.life /\ q.destroyed = r.destroyed /\ q.busy = 1 /\ q.sock = r.sock
  BY <1>1, Entered
<1>3. tr' = [tr EXCEPT ![t] = q]
  BY DEF Close, d
<1> HIDE DEF q
<1>4. /\ UNCHANGED <<sock, pending, conns>> /\ (watch' = watch \/ watch' = WithoutWatch(t))
      /\ cur' = Callback(t, "closed", FALSE)
  BY DEF Close, StrmDisconnect
<1>5. cur' \in Callbacks /\ cur'.t = t /\ cur'.at = "closed"
  BY <1>4 DEF Callback, Callbacks
<1>6. Goes(t, q)
  BY <1>2, <1>5 DEF Goes
<1>. QED BY <1>2, <1>3, <1>4, <1>6, SocketsStay

(* A pull of the buffer leads to the receive callback, to the closed one,  *)
(* or back to the mainloop.                                                *)
LEMMA ReceiveStep ==
  ASSUME StrmInv, NEW t \in Transports, Live(t), NEW r, Shaped(r), r.busy = 0,
         r.life = tr[t].life, r.destroyed = tr[t].destroyed, r.sock = tr[t].sock,
         ~r.destroyed, cur = None \/ cur.t = t, NEW p, NEW hup \in BOOLEAN,
         Receive(t, r, p, hup)
  PROVE  StrmInv'
<1> DEFINE d == [r EXCEPT !.buf = p.buf]
<1>1. Shaped(d) /\ d.life = r.life /\ d.destroyed = r.destroyed /\ d.busy = 0 /\ d.sock = r.sock
  <2> DEFINE b == p.buf
  <2> HIDE DEF b
  <2>1. LET q == [r EXCEPT !.buf = b]
        IN  /\ Shaped(q) /\ q.life = r.life /\ q.destroyed = r.destroyed
            /\ q.busy = 0 /\ q.sock = r.sock
    BY BufferOf, SMTT(30)
  <2>. QED BY <2>1 DEF b
<1>2. CASE p.ok
  <2> DEFINE q == Enter(d)
  <2>1. /\ tr' = [tr EXCEPT ![t] = q] /\ cur' = Callback(t, "recv", hup)
        /\ UNCHANGED <<watch, sock, pending, conns>>
    BY <1>2 DEF Receive
  <2> HIDE DEF d
  <2>2. /\ Shaped(q) /\ q.life = r.life /\ q.destroyed = r.destroyed
        /\ q.busy = 1 /\ q.sock = r.sock
    BY <1>1, Entered
  <2> HIDE DEF q
  <2>3. cur' \in Callbacks /\ cur'.t = t /\ cur'.at = "recv"
    BY <2>1 DEF Callback, Callbacks
  <2>4. Goes(t, q)
    BY <2>2, <2>3 DEF Goes
  <2>. QED BY <2>1, <2>2, <2>4, SocketsStay
<1>3. CASE ~p.ok /\ hup
  <2>1. Close(t, d, FALSE)
    BY <1>3 DEF Receive
  <2> HIDE DEF d
  <2>. QED BY <1>1, <2>1, CloseStep
<1>4. CASE ~p.ok /\ ~hup
  <2>1. tr' = [tr EXCEPT ![t] = d] /\ cur' = None /\ UNCHANGED <<watch, sock, pending, conns>>
    BY <1>4 DEF Receive
  <2> HIDE DEF d
  <2>2. Goes(t, d)
    BY <1>1, <2>1 DEF Goes
  <2>. QED BY <1>1, <2>1, <2>2, SocketsStay
<1>. QED BY <1>2, <1>3, <1>4

(* The transport whose watch the mainloop calls.                           *)
LEMMA Watched ==
  ASSUME StrmInv, NEW f \in Fd, watch[f] # None, cur = None
  PROVE  LET t == watch[f]
         IN  /\ t \in Transports /\ Live(t) /\ ~tr[t].destroyed /\ Shaped(tr[t])
             /\ tr[t].busy = 0 /\ tr[t].sock = f /\ f # None
<1>1. watch[f] \in Transports /\ f # None
  BY NoneFacts DEF StrmInv, ShapeKept
<1>. QED BY <1>1 DEF StrmInv, ShapeKept, WatchesKept, CallbackKept, Runs

(* The event of a listener begins the connection callback.                 *)
LEMMA ConnectionStep ==
  ASSUME StrmInv, NEW f \in Fd, ConnectionEvent(f)
  PROVE  StrmInv'
<1> DEFINE t == watch[f]
           q == Enter(tr[t])
<1>1. cur = None /\ t # None
  BY DEF ConnectionEvent
<1>2. /\ t \in Transports /\ Live(t) /\ ~tr[t].destroyed /\ Shaped(tr[t])
      /\ tr[t].busy = 0 /\ tr[t].sock = f /\ f # None
  BY <1>1, Watched
<1>3. /\ Shaped(q) /\ q.life = tr[t].life /\ q.destroyed = tr[t].destroyed
      /\ q.busy = 1 /\ q.sock = tr[t].sock
  BY <1>2, Entered
<1>4. /\ tr' = [tr EXCEPT ![t] = q] /\ sock[f] = Listening /\ pending # <<>>
      /\ cur' = Callback(t, "connection", FALSE) /\ UNCHANGED <<watch, sock, pending, conns>>
  BY DEF ConnectionEvent, netVars
<1> HIDE DEF q
<1>5. cur' \in Callbacks /\ cur'.t = t
  BY <1>2, <1>4 DEF Callback, Callbacks
<1>6. Goes(t, q)
  BY <1>1, <1>2, <1>3, <1>4, <1>5 DEF Goes, EndOf
<1> HIDE DEF t
<1>. QED BY <1>2, <1>3, <1>4, <1>6, SocketsStay

(* strm_recv_cb() begins only for a transport that is there and not busy.  *)
LEMMA DataStep ==
  ASSUME StrmInv, NEW f \in Fd, DataEvent(f)
  PROVE  StrmInv'
<1> DEFINE t == watch[f]
<1>1. cur = None /\ t # None
  BY DEF DataEvent
<1>2. PICK n \in 0 .. Len(pipe[sock[f]]), hup \in BOOLEAN :
        Receive(t, tr[t], FragbufPull(FragbufFill(tr[t].buf, n, SubSeq(pipe[sock[f]], 1, n)),
                                      FALSE), hup)
  BY Zenon DEF DataEvent
<1> DEFINE p == FragbufPull(FragbufFill(tr[t].buf, n, SubSeq(pipe[sock[f]], 1, n)), FALSE)
<1>3. Receive(t, tr[t], p, hup)
  BY <1>2
<1>4. /\ t \in Transports /\ Live(t) /\ ~tr[t].destroyed /\ Shaped(tr[t])
      /\ tr[t].busy = 0
  BY <1>1, Watched
<1> HIDE DEF t, p
<1>. QED BY <1>1, <1>3, <1>4, ReceiveStep

(* So it does where read() fails.                                          *)
LEMMA ErrorStep ==
  ASSUME StrmInv, NEW f \in Fd, ErrorEvent(f)
  PROVE  StrmInv'
<1> DEFINE t == watch[f]
<1>1. cur = None /\ t # None /\ Close(t, tr[t], TRUE)
  BY DEF ErrorEvent
<1>2. /\ t \in Transports /\ Live(t) /\ ~tr[t].destroyed /\ Shaped(tr[t])
      /\ tr[t].busy = 0
  BY <1>1, Watched
<1> HIDE DEF t
<1>. QED BY <1>1, <1>2, CloseStep

(* The transport whose callback returns.                                   *)
LEMMA Returned ==
  ASSUME StrmInv, cur # None
  PROVE  LET t == cur.t
             q == Leave(tr[t])
         IN  /\ t \in Transports /\ Live(t) /\ Shaped(q) /\ q.busy = 0
             /\ q.life = tr[t].life /\ q.destroyed = tr[t].destroyed /\ q.sock = tr[t].sock
             /\ q.connected = tr[t].connected /\ q.buf = tr[t].buf
             /\ CheckDestroy(tr[t]) = IF tr[t].destroyed THEN Freed ELSE q
<1> DEFINE t == cur.t
           q == Leave(tr[t])
<1>1. t \in Transports /\ cur \in Callbacks
  BY DEF StrmInv, ShapeKept, Callbacks
<1>2. Live(t) /\ Shaped(tr[t]) /\ tr[t].busy = 1
  BY <1>1 DEF StrmInv, ShapeKept, CallbackKept, Runs
<1>3. Shaped(q) /\ q = [tr[t] EXCEPT !.busy = 0]
  BY <1>2, EnterLeave
<1>4. /\ q.busy = 0 /\ q.life = tr[t].life /\ q.destroyed = tr[t].destroyed
      /\ q.sock = tr[t].sock /\ q.connected = tr[t].connected /\ q.buf = tr[t].buf
  BY <1>2, <1>3 DEF Shaped, HasFields
<1>5. CheckDestroy(tr[t]) = Purged(q)
  BY DEF CheckDestroy
<1> HIDE DEF q
<1>6. Purged(q) = IF tr[t].destroyed THEN Freed ELSE q
  BY <1>4 DEF Purged
<1> HIDE DEF t
<1>. QED BY <1>1, <1>2, <1>3, <1>4, <1>5, <1>6 DEF t, q

(* check_destroy() frees what the callback destroyed, and the mainloop     *)
(* goes on.                                                                *)
LEMMA ReturnStep ==
  ASSUME StrmInv, CallbackReturn
  PROVE  StrmInv'
<1> DEFINE t == cur.t
           q == Leave(tr[t])
<1>1. /\ cur # None /\ tr' = [tr EXCEPT ![t] = CheckDestroy(tr[t])] /\ cur' = None
      /\ UNCHANGED <<watch, netVars>>
  BY DEF CallbackReturn
<1>2. /\ t \in Transports /\ Live(t) /\ Shaped(q) /\ q.busy = 0
      /\ q.life = tr[t].life /\ q.destroyed = tr[t].destroyed /\ q.sock = tr[t].sock
      /\ CheckDestroy(tr[t]) = IF tr[t].destroyed THEN Freed ELSE q
  BY <1>1, Returned
<1> HIDE DEF q
<1>3. CASE tr[t].destroyed
  BY <1>1, <1>2, <1>3, FreedOnReturn
<1>4. CASE ~tr[t].destroyed
  <2>1. Goes(t, q)
    BY <1>1, <1>2, <1>4 DEF Goes
  <2>. QED BY <1>1, <1>2, <1>4, <2>1, SocketsStay DEF netVars
<1>. QED BY <1>3, <1>4

(* After a receive callback, strm_recv_cb() goes on only with a transport  *)
(* that is not destroyed.                                                  *)
LEMMA RecvReturnStep ==
  ASSUME StrmInv, RecvReturn
  PROVE  StrmInv'
<1> DEFINE t == cur.t
           q == Leave(tr[t])
           c == CheckDestroy(tr[t])
<1>1. cur # None
  BY DEF RecvReturn
<1>2. /\ t \in Transports /\ Live(t) /\ Shaped(q) /\ q.busy = 0
      /\ q.life = tr[t].life /\ q.destroyed = tr[t].destroyed /\ q.sock = tr[t].sock
      /\ c = IF tr[t].destroyed THEN Freed ELSE q
  BY <1>1, Returned
<1> HIDE DEF q
<1>3. CASE tr[t].destroyed
  <2>1. c = Freed /\ c.life = "freed"
    BY <1>2, <1>3, OpenedShaped
  <2>2. tr' = [tr EXCEPT ![t] = c] /\ cur' = None /\ UNCHANGED <<watch, netVars>>
    BY <2>1 DEF RecvReturn
  <2> HIDE DEF c
  <2>. QED BY <1>1, <1>3, <2>1, <2>2, FreedOnReturn
<1>4. CASE ~tr[t].destroyed
  <2>1. c = q /\ c.life # "freed"
    BY <1>2, <1>4 DEF Live
  <2>2. PICK p : Receive(t, c, p, cur.hup)
    BY <2>1 DEF RecvReturn
  <2>3. cur.hup \in BOOLEAN
    BY <1>1 DEF StrmInv, ShapeKept, Callbacks
  <2> HIDE DEF c
  <2>4. Receive(t, q, p, cur.hup)
    BY <2>1, <2>2
  <2>. QED BY <1>2, <1>4, <2>3, <2>4, ReceiveStep
<1>. QED BY <1>3, <1>4

-----------------------------------------------------------------------------
\* Every step, and what is proved.

(* strm_sendjson(), and all that leaves transports, sockets and callbacks  *)
(* alone.                                                                  *)
LEMMA SendStep ==
  ASSUME StrmInv, UNCHANGED <<tr, watch, sock, pending, conns, cur>>
  PROVE  StrmInv'
  BY DEF StrmInv, ShapeKept, SocketsKept, WatchesKept, CallbackKept, Live, Runs, EndOf

(* At first no transport is allocated, and no socket is open.              *)
LEMMA InitStep == StrmInit => StrmInv
<1> SUFFICES ASSUME StrmInit PROVE StrmInv
  OBVIOUS
<1>1. \A t \in Transports : tr[t] = Freed
  BY DEF StrmInit
<1>2. Freed.life = "freed" /\ Freed.busy = 0 /\ Shaped(Freed)
  BY OpenedShaped DEF Freed, Opened
<1>3. ShapeKept
  <2>1. <<>> \in Seq(1 .. MaxConns) /\ conns \in 0 .. MaxConns
    BY StreamAssumption DEF StrmInit
  <2>. QED BY <1>1, <1>2, <2>1 DEF StrmInit, ShapeKept
<1>4. SocketsKept /\ WatchesKept /\ CallbackKept
  BY <1>1, <1>2, NoneFacts DEF StrmInit, SocketsKept, WatchesKept, CallbackKept, Live, Runs
<1>. QED BY <1>3, <1>4 DEF StrmInv

(* Every step of StrmNext keeps the invariant.                             *)
LEMMA NextStep ==
  ASSUME StrmInv, [StrmNext]_strmVars
  PROVE  StrmInv'
<1>1. ASSUME NEW t \in Transports, Request(t)
      PROVE  StrmInv'
  <2>1. CASE IotTransportCreate(t)
    BY <2>1, CreateStep
  <2>2. CASE StrmListen(t)
    BY <2>2, ListenStep
  <2>3. CASE StrmConnect(t)
    BY <2>3, ConnectStep
  <2>4. CASE StrmAccept(t)
    BY <2>4, AcceptStep
  <2>5. ASSUME NEW m \in Message, StrmSendjson(t, m)
        PROVE  StrmInv'
    BY <2>5, SendStep DEF StrmSendjson
  <2>6. CASE IotTransportDisconnect(t)
    BY <2>6, DisconnectStep
  <2>7. CASE IotTransportDestroy(t)
    BY <2>7, DestroyStep
  <2>. QED BY <1>1, <2>1, <2>2, <2>3, <2>4, <2>5, <2>6, <2>7 DEF Request
<1>2. CASE IotRejectConnection
  BY <1>2, RejectStep
<1>3. ASSUME NEW f \in Fd, ConnectionEvent(f) \/ DataEvent(f) \/ ErrorEvent(f)
      PROVE  StrmInv'
  BY <1>3, ConnectionStep, DataStep, ErrorStep
<1>4. CASE CallbackReturn
  BY <1>4, ReturnStep
<1>5. CASE RecvReturn
  BY <1>5, RecvReturnStep
<1>6. CASE UNCHANGED strmVars
  BY <1>6, SendStep DEF strmVars, netVars
<1>. QED BY <1>1, <1>2, <1>3, <1>4, <1>5, <1>6 DEF StrmNext

(* The transports of a process are as StrmInv says: one that is destroyed  *)
(* keeps no watch and no socket, and is busy while its callback runs.      *)
THEOREM TransportInvariant == StrmSpec => []StrmInv
<1>. QED BY InitStep, NextStep, PTL DEF StrmSpec

(* Whatever transports callbacks destroy, strm_recv_cb() comes back to one *)
(* that is allocated, the I/O watch of a descriptor is that of the         *)
(* transport whose socket it is now, and a destroyed transport is freed.   *)
THEOREM NoDanglingTransportCorrect == StrmSpec => []NoDanglingTransport
<1>1. StrmInv => NoDanglingTransport
  <2> SUFFICES ASSUME StrmInv PROVE NoDanglingTransport
    OBVIOUS
  <2>1. /\ ShapeKept /\ SocketsKept /\ WatchesKept /\ CallbackKept
    BY DEF StrmInv
  <2>2. cur # None => tr[cur.t].life = "live"
    BY <2>1 DEF CallbackKept, Live
  <2>3. ASSUME NEW f \in Fd, watch[f] # None
        PROVE  tr[watch[f]].life = "live" /\ tr[watch[f]].sock = f /\ sock[f] # None
    <3>1. watch[f] \in Transports /\ f # None
      BY <2>1, <2>3, NoneFacts DEF ShapeKept
    <3>. QED BY <2>1, <2>3, <3>1 DEF WatchesKept, SocketsKept, Live, EndOf
  <2>4. \A t \in Transports : tr[t].life = "live" /\ tr[t].destroyed => cur # None /\ cur.t = t
    BY <2>1 DEF CallbackKept, Live, Runs
  <2>. QED BY <2>2, <2>3, <2>4 DEF NoDanglingTransport
<1>. QED BY <1>1, TransportInvariant, PTL

-----------------------------------------------------------------------------
(* What the channel is proved from: a connection is read from its one end, *)
(* and what is on the way to it is what its user has not been given.       *)

\* No write is cut short: whoever may send finds room for the whole frame.
BuffersSuffice ==
  \A e \in End, m \in Message :
    Len(sent[e]) < MaxSent[e[2]] => Len(pipe[e]) + Len(Frame(m)) <= SockBuf

Reads(t) == tr[t].buf # None
Reading(t) == Runs(t) /\ cur.at = "recv"

\* Who has a buffer reads a connection; who is watched for one has a buffer.
ReadersKept ==
  /\ \A t \in Transports :
       Reads(t) => Usable(tr[t]) /\ tr[t].connected /\ Connected(t) /\ Framed(tr[t].buf)
  /\ \A t \in Transports : Usable(tr[t]) /\ (tr[t].connected \/ Reading(t)) => Connected(t)
  /\ \A f \in Fd : watch[f] # None /\ sock[f] \in End => Reads(watch[f])

\* An end has one descriptor, or waits for one in the backlog, or is gone.
EndsKept ==
  /\ \A f, g \in Fd : sock[f] = sock[g] /\ sock[f] \in End => f = g
  /\ \A f \in Fd : sock[f] \in End =>
       sock[f][1] <= conns /\ ~(sock[f][2] = "server" /\ sock[f][1] \in Range(pending))
  /\ \A c \in Range(pending) : c <= conns
  /\ IsInjective(pending)

HistoryKept ==
  /\ pipe \in [End -> Seq(Byte)] /\ shut \in [End -> BOOLEAN]
  /\ sent \in [End -> Seq(Message)] /\ got \in [End -> Seq(Message)]
  /\ state \in [End -> {"open", "closed", "over"}]
  /\ \A e \in End : /\ Len(got[e]) <= Len(sent[e])
                    /\ \A i \in 1 .. Len(got[e]) : got[e][i] = sent[e][i]
  /\ \A e \in End : e[1] > conns =>
       pipe[e] = <<>> /\ sent[e] = <<>> /\ got[e] = <<>> /\ state[e] = "open"

NextOf(t) == IF Reading(t) THEN Len(got[EndOf(t)]) ELSE Len(got[EndOf(t)]) + 1

StreamKept(t) ==
  LET e == EndOf(t)
  IN  /\ Ahead(tr[t].buf.data, pipe[e], sent[e], NextOf(t))
      /\ state[e] = "open"
      /\ Reading(t) => /\ Whole(tr[t].buf.data)
                       /\ cur.hup => pipe[e] = <<>> /\ shut[Peer(e)]

\* A connection without a buffer is closed, or its user has given it up.
LeftKept ==
  \A t \in Transports : Usable(tr[t]) /\ Connected(t) /\ ~Reads(t) => state[EndOf(t)] # "open"

Waits(e) == Ahead(<<>>, pipe[e], sent[e], 1) /\ got[e] = <<>> /\ state[e] = "open"

BacklogKept == \A c \in Range(pending) : Waits(<<c, "server">>)

StreamInv ==
  /\ ReadersKept /\ EndsKept /\ HistoryKept /\ BacklogKept /\ LeftKept
  /\ \A t \in Transports : Reads(t) => StreamKept(t)

ChannelStep == [Users!Next]_<<sent, got, state>>

(* The other end of a connection.                                          *)
LEMMA PeerFacts ==
  ASSUME NEW e \in End
  PROVE  Peer(e) \in End /\ Peer(Peer(e)) = e /\ Peer(e)[1] = e[1] /\ e[1] \in 1 .. MaxConns
<1>1. PICK c \in 1 .. MaxConns, s \in {"client", "server"} : e = <<c, s>>
  BY DEF End
<1>2. CASE s = "client"
  BY <1>1, <1>2 DEF Peer, End
<1>3. CASE s = "server"
  BY <1>1, <1>3 DEF Peer, End
<1>. QED BY <1>1, <1>2, <1>3

Holds(t) == Usable(tr[t]) /\ Connected(t)

(* Whoever has an end is the only one, and the end is not in the backlog.  *)
LEMMA OneHolder ==
  ASSUME StrmInv, EndsKept, NEW t \in Transports, Holds(t)
  PROVE  /\ Live(t) /\ tr[t].sock \in Fd /\ EndOf(t) \in End /\ EndOf(t)[1] <= conns
         /\ \A c \in Range(pending) : EndOf(t) # <<c, "server">>
         /\ \A u \in Transports : Holds(u) /\ EndOf(u) = EndOf(t) => u = t
<1>1. \A u \in Transports : Holds(u) => Live(u) /\ tr[u].sock # None /\ tr[u].sock \in Fd /\ EndOf(u) \in End
  BY DEF StrmInv, ShapeKept, Shaped, Holds, Connected, Usable, Live
<1>2. /\ Live(t) /\ tr[t].sock \in Fd /\ EndOf(t) \in End /\ EndOf(t)[1] <= conns
      /\ \A c \in Range(pending) : EndOf(t) # <<c, "server">>
  BY <1>1 DEF EndsKept, EndOf
<1>3. ASSUME NEW u \in Transports, Holds(u), EndOf(u) = EndOf(t) PROVE u = t
  <2>1. tr[u].sock = tr[t].sock
    BY <1>1, <1>3 DEF EndsKept, EndOf
  <2>. QED BY <1>1, <1>3, <2>1 DEF StrmInv, SocketsKept
<1>. QED BY <1>2, <1>3

(* A connection of the backlog has an end, which is nobody's.              *)
LEMMA BacklogEnds ==
  ASSUME StrmInv, EndsKept, NEW c \in Range(pending)
  PROVE  /\ c \in 1 .. MaxConns /\ c <= conns /\ <<c, "server">> \in End
         /\ \A g \in Fd : sock[g] # <<c, "server">>
<1>1. DOMAIN pending = 1 .. Len(pending) /\ \A i \in 1 .. Len(pending) : pending[i] \in 1 .. MaxConns
  <2>1. pending \in Seq(1 .. MaxConns)
    BY DEF StrmInv, ShapeKept
  <2>. QED BY <2>1, LenProperties, ElementOfSeq
<1>2. c \in 1 .. MaxConns /\ c <= conns
  BY <1>1 DEF Range, EndsKept
<1>3. <<c, "server">> \in End
  BY <1>2 DEF End
<1>4. ASSUME NEW g \in Fd, sock[g] = <<c, "server">> PROVE FALSE
  <2>1. sock[g][1] = c /\ sock[g][2] = "server" /\ sock[g] \in End
    BY <1>3, <1>4
  <2>. QED BY <2>1 DEF EndsKept
<1>. QED BY <1>2, <1>3, <1>4

ReadingStays(t) == UNCHANGED cur \/ (~Reading(t) /\ ~Reading(t)')

(* A stream of which a step changes nothing.                               *)
LEMMA StreamSame ==
  ASSUME NEW t \in Transports, StreamKept(t), EndOf(t)' = EndOf(t), tr'[t].buf = tr[t].buf,
         pipe'[EndOf(t)] = pipe[EndOf(t)], sent'[EndOf(t)] = sent[EndOf(t)],
         got'[EndOf(t)] = got[EndOf(t)], state'[EndOf(t)] = state[EndOf(t)],
         shut[Peer(EndOf(t))] => shut'[Peer(EndOf(t))],
         ReadingStays(t)
  PROVE  StreamKept(t)'
<1> DEFINE e == EndOf(t)
<1>1. /\ e' = e /\ tr'[t].buf = tr[t].buf /\ pipe'[e] = pipe[e] /\ sent'[e] = sent[e]
      /\ got'[e] = got[e] /\ state'[e] = state[e] /\ (shut[Peer(e)] => shut'[Peer(e)])
  OBVIOUS
<1>2. (Reading(t)' <=> Reading(t)) /\ (Reading(t) => cur' = cur)
  BY DEF ReadingStays, Reading, Runs
<1>3. /\ Ahead(tr[t].buf.data, pipe[e], sent[e], NextOf(t)) /\ state[e] = "open"
      /\ Reading(t) => /\ Whole(tr[t].buf.data)
                       /\ cur.hup => pipe[e] = <<>> /\ shut[Peer(e)]
  BY DEF StreamKept
<1>4. NextOf(t)' = NextOf(t)
  BY <1>1, <1>2 DEF NextOf
<1> HIDE DEF e
<1>5. Peer(e)' = Peer(e)
  BY <1>1 DEF Peer
<1>6. /\ Ahead(tr'[t].buf.data, pipe'[e], sent'[e], NextOf(t)') /\ state'[e] = "open"
      /\ Reading(t)' => /\ Whole(tr'[t].buf.data)
                        /\ cur'.hup => pipe'[e] = <<>> /\ shut'[Peer(e)]
  BY <1>1, <1>2, <1>3, <1>4
<1>. QED BY <1>1, <1>5, <1>6 DEF StreamKept, e

(* A connection in the backlog of which a step changes nothing.            *)
LEMMA WaitsSame ==
  ASSUME NEW e, Waits(e), pipe'[e] = pipe[e], sent'[e] = sent[e], got'[e] = got[e],
         state'[e] = state[e]
  PROVE  Waits(e)'
  BY DEF Waits

(* Whoever has a buffer has an end.                                        *)
LEMMA ReaderHolds ==
  ASSUME ReadersKept, NEW t \in Transports, Reads(t)
  PROVE  Holds(t) /\ tr[t].connected /\ Framed(tr[t].buf)
  BY DEF ReadersKept, Holds

(* A user that gives ends up, or loses them.                               *)
LEMMA OverStep ==
  ASSUME HistoryKept, NEW es, UNCHANGED <<sent, got>>, state' = Over(es)
  PROVE  ChannelStep
<1> DEFINE E == {e \in End : e \in es /\ state[e] = "open"}
<1>1. state' = [e \in End |-> IF e \in E THEN "over" ELSE state[e]] /\ E \in SUBSET End
  BY DEF Over
<1> HIDE DEF E
<1>2. Users!Over(E)
  BY <1>1 DEF Users!Over
<1>3. Users!Next
  BY <1>1, <1>2 DEF Users!Next
<1>. QED BY <1>3 DEF ChannelStep

-----------------------------------------------------------------------------
\* Steps in which no end changes hands and nothing is sent or read.

SameEnd(t, r) ==
  /\ r.life = tr[t].life /\ r.destroyed = tr[t].destroyed /\ r.connected = tr[t].connected
  /\ r.sock = tr[t].sock /\ r.buf = tr[t].buf

\* A transport that has no end and is given none.
Blank(t, r) ==
  /\ r.buf = None /\ \A f \in Fd : watch[f] # t
  /\ Usable(r) => ~r.connected /\ r.sock = None /\ ~Reading(t)'

(* Callbacks that begin and return, and transports that are created or     *)
(* freed.                                                                  *)
LEMMA QuietStep ==
  ASSUME StrmInv, StreamInv, NEW t \in Transports, NEW r, tr' = [tr EXCEPT ![t] = r],
         UNCHANGED <<watch, sock, pipe, shut, pending, conns, sent, got, state>>,
         \A u \in Transports : u # t => ReadingStays(u),
         (SameEnd(t, r) /\ ReadingStays(t)) \/ Blank(t, r)
  PROVE  StreamInv' /\ ChannelStep
<1>1. /\ ReadersKept /\ EndsKept /\ HistoryKept /\ BacklogKept /\ LeftKept
      /\ \A u \in Transports : Reads(u) => StreamKept(u)
  BY DEF StreamInv
<1>2. tr'[t] = r /\ \A u \in Transports : u # t => tr'[u] = tr[u]
  BY DEF StrmInv, ShapeKept
<1>3. ASSUME NEW u \in Transports
      PROVE  (SameEnd(u, tr'[u]) /\ ReadingStays(u)) \/ Blank(u, tr'[u])
  <2>1. CASE u = t
    BY <1>2, <2>1
  <2>2. CASE u # t
    BY <1>2, <2>2 DEF SameEnd
  <2>. QED BY <2>1, <2>2
<1>4. ASSUME NEW u \in Transports, Reads(u)'
      PROVE  SameEnd(u, tr'[u]) /\ ReadingStays(u) /\ Reads(u)
  BY <1>3, <1>4 DEF Blank, SameEnd, Reads
<1>5. ASSUME NEW u \in Transports, Connected(u)', Usable(tr'[u])
      PROVE  SameEnd(u, tr'[u]) /\ ReadingStays(u)
  BY <1>3, <1>5 DEF Blank, Connected
<1>6. ASSUME NEW u \in Transports, SameEnd(u, tr'[u])
      PROVE  /\ EndOf(u)' = EndOf(u) /\ (Reads(u)' <=> Reads(u)) /\ (Connected(u)' <=> Connected(u))
             /\ tr'[u].buf = tr[u].buf /\ tr'[u].connected = tr[u].connected
             /\ Usable(tr'[u]) <=> Usable(tr[u])
  BY <1>6 DEF SameEnd, EndOf, Reads, Connected, Usable
<1>7. ReadersKept'
  <2>1. ASSUME NEW u \in Transports, Reads(u)'
        PROVE  Usable(tr'[u]) /\ tr'[u].connected /\ Connected(u)' /\ Framed(tr'[u].buf)
    BY <1>1, <1>4, <1>6, <2>1 DEF ReadersKept
  <2>2. ASSUME NEW u \in Transports, Usable(tr'[u]), tr'[u].connected \/ Reading(u)'
        PROVE  Connected(u)'
    <3>1. SameEnd(u, tr'[u]) /\ ReadingStays(u)
      BY <1>3, <2>2 DEF Blank
    <3>. QED BY <1>1, <1>6, <2>2, <3>1 DEF ReadersKept, ReadingStays, Reading, Runs
  <2>3. ASSUME NEW f \in Fd, watch'[f] # None, sock'[f] \in End PROVE Reads(watch[f])'
    <3>1. watch' = watch /\ sock' = sock /\ watch[f] \in Transports
      BY <2>3 DEF StrmInv, ShapeKept
    <3>2. Reads(watch[f])
      BY <1>1, <2>3, <3>1 DEF ReadersKept
    <3>3. SameEnd(watch[f], tr'[watch[f]])
      BY <1>3, <3>1 DEF Blank
    <3>. QED BY <1>6, <3>1, <3>2, <3>3 DEF Reads
  <2>4. watch' = watch
    OBVIOUS
  <2>. QED BY <2>1, <2>2, <2>3, <2>4 DEF ReadersKept, Reads
<1>8. EndsKept' /\ HistoryKept'
  BY <1>1 DEF EndsKept, HistoryKept
<1>9. BacklogKept'
  BY <1>1 DEF BacklogKept, Waits
<1>10. LeftKept'
  BY <1>1, <1>5, <1>6 DEF LeftKept
<1>11. ASSUME NEW u \in Transports, Reads(u)' PROVE StreamKept(u)'
  BY <1>1, <1>4, <1>6, <1>11, StreamSame
<1>12. ChannelStep
  BY DEF ChannelStep
<1>. QED BY <1>7, <1>8, <1>9, <1>10, <1>11, <1>12 DEF StreamInv

(* The transports, descriptors and callbacks of steps in which the user is *)
(* not given anything.                                                     *)
LEMMA CreateKept ==
  ASSUME StrmInv, StreamInv, NEW t \in Transports, IotTransportCreate(t)
  PROVE  StreamInv' /\ ChannelStep
<1>1. /\ tr' = [tr EXCEPT ![t] = Opened] /\ ~Live(t)
      /\ UNCHANGED <<watch, sock, pipe, shut, pending, conns, sent, got, state, cur>>
  BY DEF IotTransportCreate, netVars, historyVars, Live
<1>2. ~Reading(t)' /\ \A u \in Transports : ReadingStays(u)
  BY <1>1 DEF ReadingStays, Reading, Runs, StrmInv, CallbackKept
<1>3. \A f \in Fd : watch[f] # t
  BY <1>1, NoneFacts DEF StrmInv, WatchesKept
<1>4. Opened.buf = None /\ ~Opened.connected /\ Opened.sock = None
  BY OpenedShaped DEF Opened
<1>5. Blank(t, Opened)
  BY <1>2, <1>3, <1>4 DEF Blank
<1>. QED BY <1>1, <1>2, <1>5, QuietStep

(* The event of a listener.                                                *)
LEMMA ConnectionKept ==
  ASSUME StrmInv, StreamInv, NEW f \in Fd, ConnectionEvent(f)
  PROVE  StreamInv' /\ ChannelStep
<1>0. PICK t \in Transports : t = watch[f]
  BY NoneFacts DEF ConnectionEvent, StrmInv, ShapeKept
<1> DEFINE r == Enter(tr[t])
<1>1. /\ cur = None /\ t # None /\ tr' = [tr EXCEPT ![t] = r]
      /\ UNCHANGED <<watch, sock, pipe, shut, pending, conns, sent, got, state>>
      /\ cur' = Callback(t, "connection", FALSE)
  BY <1>0 DEF ConnectionEvent, netVars, historyVars
<1>2. Shaped(tr[t]) /\ tr[t].busy = 0
  BY <1>0, <1>1, Watched
<1>3. SameEnd(t, r)
  BY <1>2, Entered DEF SameEnd
<1>4. cur'.at = "connection"
  BY <1>1 DEF Callback
<1>5. \A u \in Transports : ReadingStays(u)
  BY <1>1, <1>4 DEF ReadingStays, Reading, Runs
<1> HIDE DEF r
<1>. QED BY <1>1, <1>3, <1>5, QuietStep

(* A callback returns to the mainloop, with its transport or without.      *)
LEMMA ReturnedKept ==
  ASSUME StrmInv, StreamInv, cur # None, cur.at # "recv" \/ tr[cur.t].destroyed,
         tr' = [tr EXCEPT ![cur.t] = CheckDestroy(@)], cur' = None,
         UNCHANGED <<watch, netVars, historyVars>>
  PROVE  StreamInv' /\ ChannelStep
<1>0. PICK t \in Transports : t = cur.t
  BY Returned
<1> DEFINE q == Leave(tr[t])
           r == CheckDestroy(tr[t])
<1>1. /\ Live(t)
      /\ q.life = tr[t].life /\ q.destroyed = tr[t].destroyed /\ q.sock = tr[t].sock
      /\ q.connected = tr[t].connected /\ q.buf = tr[t].buf
      /\ r = IF tr[t].destroyed THEN Freed ELSE q
  BY <1>0, Returned
<1> HIDE DEF q
<1>2. /\ tr' = [tr EXCEPT ![t] = r]
      /\ UNCHANGED <<watch, sock, pipe, shut, pending, conns, sent, got, state>>
  BY <1>0 DEF netVars, historyVars
<1>3. \A u \in Transports : ~Reading(u)'
  BY DEF Reading, Runs
<1>4. \A u \in Transports : u # t => ReadingStays(u)
  BY <1>0, <1>3 DEF ReadingStays, Reading, Runs
<1>5. (SameEnd(t, r) /\ ReadingStays(t)) \/ Blank(t, r)
  <2>1. CASE tr[t].destroyed
    <3>1. Freed.buf = None /\ Freed.life = "freed"
      BY OpenedShaped
    <3>2. \A f \in Fd : watch[f] # t
      BY <1>1, <2>1, NoneFacts DEF StrmInv, WatchesKept
    <3>. QED BY <1>1, <2>1, <3>1, <3>2 DEF Blank, Usable
  <2>2. CASE ~tr[t].destroyed
    <3>1. ReadingStays(t)
      BY <1>0, <1>3, <2>2 DEF ReadingStays, Reading, Runs
    <3>. QED BY <1>1, <2>2, <3>1 DEF SameEnd
  <2>. QED BY <2>1, <2>2
<1> HIDE DEF r
<1>. QED BY <1>2, <1>4, <1>5, QuietStep

-----------------------------------------------------------------------------
\* Steps that give a transport a socket.

(* strm_listen().                                                          *)
LEMMA ListenKept ==
  ASSUME StrmInv, StreamInv, NEW t \in Transports, StrmListen(t)
  PROVE  StreamInv' /\ ChannelStep
<1>0. PICK f \in FreeFds :
        /\ sock' = [sock EXCEPT ![f] = Listening]
        /\ watch' = WithWatch(f, t)
        /\ tr' = [tr EXCEPT ![t].sock = f, ![t].listened = TRUE]
  BY Zenon DEF StrmListen
<1>1. /\ ReadersKept /\ EndsKept /\ HistoryKept /\ BacklogKept /\ LeftKept
      /\ \A u \in Transports : Reads(u) => StreamKept(u)
      /\ Usable(tr[t]) /\ tr[t].sock = None /\ ~tr[t].connected
      /\ UNCHANGED <<pipe, shut, pending, conns, cur, sent, got, state>>
      /\ f \in Fd /\ sock[f] = None /\ Listening \notin End /\ f # None
  BY NoneFacts DEF StreamInv, StrmListen, Fresh, historyVars, FreeFds
<1>2. /\ tr'[t].buf = tr[t].buf /\ tr'[t].connected = tr[t].connected /\ tr'[t].sock = f
      /\ Usable(tr'[t]) /\ \A u \in Transports : u # t => tr'[u] = tr[u]
  <2> DEFINE o == tr[t]
             q == [o EXCEPT !.sock = f, !.listened = TRUE]
  <2>1. tr = [u \in Transports |-> tr[u]] /\ Shaped(o)
    BY DEF StrmInv, ShapeKept
  <2>2. tr'[t] = q /\ \A u \in Transports : u # t => tr'[u] = tr[u]
    BY <1>0, <2>1
  <2> HIDE DEF o
  <2>3. /\ q.buf = o.buf /\ q.connected = o.connected /\ q.sock = f
        /\ q.life = o.life /\ q.destroyed = o.destroyed
    BY <2>1 DEF Shaped, HasFields
  <2> HIDE DEF q
  <2>. QED BY <1>1, <2>2, <2>3 DEF Usable, o
<1>3. /\ sock'[f] = Listening /\ \A g \in Fd : g # f => sock'[g] = sock[g]
      /\ watch'[f] = t /\ \A g \in Fd : g # f => watch'[g] = watch[g]
  BY <1>0, <1>1 DEF StrmInv, ShapeKept, WithWatch
<1>4. ~Reads(t) /\ ~Connected(t) /\ ~Reading(t)
  BY <1>1 DEF ReadersKept, Connected
<1>5. ASSUME NEW u \in Transports, Holds(u)
      PROVE  /\ u # t /\ tr'[u] = tr[u] /\ EndOf(u)' = EndOf(u) /\ Holds(u)' /\ EndOf(u) \in End
  <2>1. u # t /\ tr'[u] = tr[u]
    BY <1>2, <1>4, <1>5 DEF Holds
  <2>2. tr[u].sock \in Fd /\ EndOf(u) \in End
    BY <1>1, <1>5, OneHolder
  <2>3. tr[u].sock # f
    BY <1>1, <2>2, NoneFacts DEF EndOf
  <2>4. EndOf(u)' = EndOf(u)
    BY <1>3, <2>1, <2>2, <2>3 DEF EndOf
  <2>. QED BY <1>5, <2>1, <2>2, <2>4 DEF Holds, Connected
<1>6. ASSUME NEW u \in Transports, Holds(u)' PROVE Holds(u)
  <2>1. u # t
    BY <1>1, <1>2, <1>3, <1>6 DEF Holds, Connected, EndOf
  <2>2. tr'[u] = tr[u] /\ tr[u].sock # None /\ Usable(tr[u])
    BY <1>2, <1>6, <2>1 DEF Holds, Connected
  <2>3. tr[u].sock \in Fd /\ tr[u].sock # f
    <3>1. tr[u].sock \in Fd
      BY <2>2 DEF StrmInv, ShapeKept, Shaped
    <3>2. EndOf(u) # None
      BY <2>2 DEF StrmInv, SocketsKept, Live, Usable
    <3>. QED BY <1>1, <3>1, <3>2 DEF EndOf
  <2>. QED BY <1>3, <1>6, <2>2, <2>3 DEF Holds, Connected, EndOf
<1>7. ASSUME NEW u \in Transports PROVE (Reads(u)' <=> Reads(u)) /\ (Reading(u)' <=> Reading(u))
  BY <1>1, <1>2 DEF Reads, Reading, Runs
<1>8. ReadersKept'
  <2>1. ASSUME NEW u \in Transports, Reads(u)'
        PROVE  Usable(tr'[u]) /\ tr'[u].connected /\ Connected(u)' /\ Framed(tr'[u].buf)
    <3>1. Holds(u) /\ tr[u].connected /\ Framed(tr[u].buf)
      BY <1>1, <1>7, <2>1, ReaderHolds
    <3>. QED BY <1>5, <3>1 DEF Holds
  <2>2. ASSUME NEW u \in Transports, Usable(tr'[u]), tr'[u].connected \/ Reading(u)'
        PROVE  Connected(u)'
    <3>1. u # t
      BY <1>1, <1>2, <1>4, <1>7, <2>2
    <3>2. Holds(u)
      BY <1>1, <1>2, <1>7, <2>2, <3>1 DEF ReadersKept, Holds
    <3>. QED BY <1>5, <3>2 DEF Holds
  <2>3. ASSUME NEW g \in Fd, watch'[g] # None, sock'[g] \in End PROVE tr'[watch'[g]].buf # None
    <3>1. g # f
      BY <1>1, <1>3, <2>3
    <3>2. watch'[g] = watch[g] /\ sock'[g] = sock[g] /\ watch[g] \in Transports
      BY <1>3, <2>3, <3>1 DEF StrmInv, ShapeKept
    <3>. QED BY <1>1, <1>7, <2>3, <3>2 DEF ReadersKept, Reads
  <2>. QED BY <2>1, <2>2, <2>3 DEF ReadersKept, Reads
<1>9. EndsKept' /\ HistoryKept' /\ BacklogKept'
  <2>1. \A g \in Fd : sock'[g] \in End => g # f /\ sock'[g] = sock[g]
    BY <1>1, <1>3
  <2>2. EndsKept'
    BY <1>1, <2>1 DEF EndsKept
  <2>. QED BY <1>1, <2>2 DEF HistoryKept, BacklogKept, Waits
<1>10. LeftKept'
  BY <1>1, <1>5, <1>6, <1>7 DEF LeftKept, Holds
<1>11. ASSUME NEW u \in Transports, Reads(u)' PROVE StreamKept(u)'
  <2>1. Reads(u) /\ Holds(u)
    BY <1>1, <1>7, <1>11, ReaderHolds
  <2>2. tr'[u] = tr[u] /\ EndOf(u)' = EndOf(u) /\ StreamKept(u) /\ ReadingStays(u)
    BY <1>1, <1>5, <2>1 DEF ReadingStays
  <2>. QED BY <1>1, <2>2, StreamSame
<1>12. ChannelStep
  BY <1>1 DEF ChannelStep
<1>. QED BY <1>8, <1>9, <1>10, <1>11, <1>12 DEF StreamInv

(* A transport gets an end that waits: a new one, or one of the backlog.   *)
LEMMA EndGiven ==
  ASSUME StrmInv, StreamInv, NEW t \in Transports, ~Holds(t), ~Live(t) \/ tr[t].sock = None,
         NEW f \in FreeFds, NEW e \in End, Waits(e), \A g \in Fd : sock[g] # e,
         NEW r, tr' = [tr EXCEPT ![t] = r], Usable(r), r.sock = f, r.connected,
         r.buf = FragbufCreate(TRUE), sock' = [sock EXCEPT ![f] = e], watch' = WithWatch(f, t),
         UNCHANGED <<pipe, shut, sent, got, state>>,
         \A u \in Transports : ReadingStays(u), ~Reading(t)',
         conns' \in Nat, conns' >= conns, e[1] <= conns', IsInjective(pending'),
         \A c \in Range(pending') :
           /\ c <= conns' /\ e # <<c, "server">> /\ Waits(<<c, "server">>)
           /\ \A g \in Fd : sock[g] # <<c, "server">>
  PROVE  StreamInv' /\ ChannelStep
<1>1. /\ ReadersKept /\ EndsKept /\ HistoryKept /\ BacklogKept /\ LeftKept
      /\ \A u \in Transports : Reads(u) => StreamKept(u)
      /\ f \in Fd /\ sock[f] = None /\ f # None /\ conns \in Nat
  BY NoneFacts DEF StreamInv, FreeFds, StrmInv, ShapeKept
<1>2. tr'[t] = r /\ \A u \in Transports : u # t => tr'[u] = tr[u]
  BY DEF StrmInv, ShapeKept
<1>3. /\ sock'[f] = e /\ \A g \in Fd : g # f => sock'[g] = sock[g]
      /\ watch'[f] = t /\ \A g \in Fd : g # f => watch'[g] = watch[g]
  BY <1>1 DEF StrmInv, ShapeKept, WithWatch
<1>4. /\ Framed(r.buf) /\ r.buf.data = <<>> /\ r.buf # None
  BY BufferFacts
<1>5. Reads(t)' /\ Holds(t)' /\ EndOf(t)' = e
  <2>1. tr'[t].buf # None /\ Usable(tr'[t]) /\ tr'[t].sock = f
    BY <1>2, <1>4
  <2>2. EndOf(t)' = e
    BY <1>3, <2>1 DEF EndOf
  <2>. QED BY <1>1, <2>1, <2>2 DEF Reads, Holds, Connected
<1>6. ASSUME NEW u \in Transports, Holds(u)
      PROVE  u # t /\ tr'[u] = tr[u] /\ EndOf(u)' = EndOf(u) /\ Holds(u)' /\ EndOf(u) \in End
  <2>1. u # t /\ tr'[u] = tr[u]
    BY <1>2, <1>6
  <2>2. tr[u].sock \in Fd /\ EndOf(u) \in End
    BY <1>1, <1>6, OneHolder
  <2>3. tr[u].sock # f
    BY <1>1, <2>2, NoneFacts DEF EndOf
  <2>4. EndOf(u)' = EndOf(u)
    BY <1>3, <2>1, <2>2, <2>3 DEF EndOf
  <2>. QED BY <1>6, <2>1, <2>2, <2>4 DEF Holds, Connected
<1>7. ASSUME NEW u \in Transports, Holds(u)', u # t PROVE Holds(u)
  <2>1. tr'[u] = tr[u] /\ tr[u].sock # None /\ Usable(tr[u])
    BY <1>2, <1>7 DEF Holds, Connected
  <2>2. tr[u].sock \in Fd /\ tr[u].sock # f
    <3>1. tr[u].sock \in Fd
      BY <2>1 DEF StrmInv, ShapeKept, Shaped
    <3>2. EndOf(u) # None
      BY <2>1 DEF StrmInv, SocketsKept, Live, Usable
    <3>. QED BY <1>1, <3>1, <3>2 DEF EndOf
  <2>. QED BY <1>3, <1>7, <2>1, <2>2 DEF Holds, Connected, EndOf
<1>8. ASSUME NEW u \in Transports, u # t
      PROVE  (Reads(u)' <=> Reads(u)) /\ (Reading(u)' <=> Reading(u))
  <2>1. ReadingStays(u)
    OBVIOUS
  <2>. QED BY <1>2, <1>8, <2>1 DEF Reads, ReadingStays, Reading, Runs
<1>9. ReadersKept'
  <2>1. ASSUME NEW u \in Transports, Reads(u)'
        PROVE  Usable(tr'[u]) /\ tr'[u].connected /\ Connected(u)' /\ Framed(tr'[u].buf)
    <3>1. CASE u = t
      BY <1>2, <1>4, <1>5, <3>1 DEF Holds
    <3>2. CASE u # t
      <4>1. Holds(u) /\ tr[u].connected /\ Framed(tr[u].buf)
        BY <1>1, <1>8, <2>1, <3>2, ReaderHolds
      <4>. QED BY <1>6, <4>1 DEF Holds
    <3>. QED BY <3>1, <3>2
  <2>2. ASSUME NEW u \in Transports, Usable(tr'[u]), tr'[u].connected \/ Reading(u)'
        PROVE  Connected(u)'
    <3>1. CASE u = t
      BY <1>5, <3>1 DEF Holds
    <3>2. CASE u # t
      <4>1. Holds(u)
        BY <1>1, <1>2, <1>8, <2>2, <3>2 DEF ReadersKept, Holds
      <4>. QED BY <1>6, <4>1 DEF Holds
    <3>. QED BY <3>1, <3>2
  <2>3. ASSUME NEW g \in Fd, watch'[g] # None, sock'[g] \in End PROVE tr'[watch'[g]].buf # None
    <3>1. CASE g = f
      BY <1>3, <1>5, <3>1 DEF Reads
    <3>2. CASE g # f
      <4>1. watch'[g] = watch[g] /\ sock'[g] = sock[g] /\ watch[g] \in Transports
        BY <1>3, <2>3, <3>2 DEF StrmInv, ShapeKept
      <4>2. watch[g] # t
        BY <2>3, <4>1, NoneFacts DEF StrmInv, WatchesKept
      <4>. QED BY <1>1, <1>2, <2>3, <4>1, <4>2 DEF ReadersKept, Reads
    <3>. QED BY <3>1, <3>2
  <2>. QED BY <2>1, <2>2, <2>3 DEF ReadersKept, Reads
<1>10. EndsKept'
  <2>1. ASSUME NEW g \in Fd, NEW h \in Fd, sock'[g] = sock'[h], sock'[g] \in End PROVE g = h
    BY <1>1, <1>3, <2>1 DEF EndsKept
  <2>2. ASSUME NEW g \in Fd, sock'[g] \in End
        PROVE  sock'[g][1] <= conns' /\ ~(sock'[g][2] = "server" /\ sock'[g][1] \in Range(pending'))
    <3>1. PICK x, y : sock'[g] = <<x, y>> /\ x \in Nat
      BY <2>2, StreamAssumption DEF End
    <3>2. x <= conns'
      <4>1. CASE g = f
        BY <1>3, <3>1, <4>1
      <4>2. CASE g # f
        <5>1. sock[g] = <<x, y>> /\ x <= conns
          BY <1>1, <1>3, <2>2, <3>1, <4>2 DEF EndsKept
        <5>. QED BY <1>1, <3>1, <5>1
      <4>. QED BY <4>1, <4>2
    <3>3. ~(y = "server" /\ x \in Range(pending'))
      <4>1. ASSUME NEW c \in Range(pending') PROVE sock'[g] # <<c, "server">>
        <5>1. e # <<c, "server">> /\ sock[g] # <<c, "server">>
          OBVIOUS
        <5>. QED BY <1>3, <5>1
      <4>. QED BY <3>1, <4>1
    <3>. QED BY <3>1, <3>2, <3>3
  <2>. QED BY <2>1, <2>2 DEF EndsKept
<1>11. HistoryKept'
  <2>1. \A x \in End : x[1] > conns' => x[1] > conns
    <3>1. \A x \in End : x[1] \in Nat
      BY PeerFacts, StreamAssumption
    <3>. QED BY <1>1, <3>1
  <2>. QED BY <1>1, <2>1 DEF HistoryKept
<1>12. BacklogKept'
  BY WaitsSame DEF BacklogKept
<1>13. LeftKept'
  <2>1. ASSUME NEW u \in Transports, Holds(u)', ~Reads(u)' PROVE state'[EndOf(u)'] # "open"
    <3>1. u # t
      BY <1>5, <2>1
    <3>2. Holds(u) /\ ~Reads(u) /\ EndOf(u)' = EndOf(u)
      BY <1>6, <1>7, <1>8, <2>1, <3>1
    <3>. QED BY <1>1, <3>2 DEF LeftKept, Holds
  <2>. QED BY <2>1 DEF LeftKept, Holds
<1>14. ASSUME NEW u \in Transports, Reads(u)' PROVE StreamKept(u)'
  <2>1. CASE u = t
    <3>1. /\ Ahead(<<>>, pipe[e], sent[e], 1) /\ got[e] = <<>> /\ state[e] = "open"
      BY DEF Waits
    <3>2. NextOf(t)' = 1
      <4>1. Len(<<>>) + 1 = 1
        OBVIOUS
      <4>. QED BY <1>5, <3>1, <4>1 DEF NextOf
    <3>3. tr'[t].buf.data = <<>>
      BY <1>2, <1>4
    <3>. QED BY <1>5, <2>1, <3>1, <3>2, <3>3 DEF StreamKept
  <2>2. CASE u # t
    <3>1. Reads(u) /\ Holds(u)
      BY <1>1, <1>8, <1>14, <2>2, ReaderHolds
    <3>2. tr'[u] = tr[u] /\ EndOf(u)' = EndOf(u) /\ StreamKept(u) /\ ReadingStays(u)
      BY <1>1, <1>6, <3>1
    <3>. QED BY <3>2, StreamSame
  <2>. QED BY <2>1, <2>2
<1>15. ChannelStep
  BY DEF ChannelStep
<1>. QED BY <1>9, <1>10, <1>11, <1>12, <1>13, <1>14, <1>15 DEF StreamInv

(* The record of a transport that gets an end.                             *)
LEMMA GivenRecord ==
  ASSUME NEW o, Shaped(o), NEW f
  PROVE  LET r == [o EXCEPT !.sock = f, !.connected = TRUE, !.buf = FragbufCreate(TRUE)]
         IN  /\ r.life = o.life /\ r.destroyed = o.destroyed /\ r.sock = f /\ r.connected
             /\ r.buf = FragbufCreate(TRUE)
<1>1. ASSUME NEW x, NEW b
      PROVE  LET r == [o EXCEPT !.sock = f, !.connected = x, !.buf = b]
             IN  /\ r.life = o.life /\ r.destroyed = o.destroyed /\ r.sock = f /\ r.connected = x
                 /\ r.buf = b
  BY DEF Shaped, HasFields
<1> DEFINE b == FragbufCreate(TRUE)
           r == [o EXCEPT !.sock = f, !.connected = TRUE, !.buf = b]
<1> HIDE DEF b
<1>2. /\ r.life = o.life /\ r.destroyed = o.destroyed /\ r.sock = f /\ r.connected = TRUE
      /\ r.buf = b
  BY <1>1, ZenonT(30)
<1>. QED BY <1>2 DEF b

(* strm_connect() makes both ends of a connection.                         *)
LEMMA ConnectKept ==
  ASSUME StrmInv, StreamInv, NEW t \in Transports, StrmConnect(t)
  PROVE  StreamInv' /\ ChannelStep
<1> DEFINE n == conns + 1
           e == <<n, "client">>
           o == tr[t]
<1>0. PICK f \in FreeFds :
        /\ sock' = [sock EXCEPT ![f] = <<conns', "client">>]
        /\ watch' = WithWatch(f, t)
        /\ tr' = [tr EXCEPT ![t].sock = f, ![t].connected = TRUE,
                            ![t].buf = FragbufCreate(TRUE)]
  BY DEF StrmConnect
<1> DEFINE r == [o EXCEPT !.sock = f, !.connected = TRUE, !.buf = FragbufCreate(TRUE)]
<1>1. /\ ReadersKept /\ EndsKept /\ HistoryKept /\ Shaped(o) /\ Usable(o) /\ o.sock = None
      /\ conns \in Nat /\ n \in 1 .. MaxConns /\ conns' = n /\ pending' = Append(pending, n)
      /\ UNCHANGED <<pipe, shut, cur, sent, got, state>> /\ pending \in Seq(1 .. MaxConns)
  BY StreamAssumption DEF StreamInv, StrmInv, ShapeKept, StrmConnect, Fresh, historyVars
<1>2. tr' = [tr EXCEPT ![t] = r]
  <2>1. tr = [u \in Transports |-> tr[u]]
    BY DEF StrmInv, ShapeKept
  <2>. QED BY <1>0, <1>1, <2>1
<1>3. Usable(r) /\ r.sock = f /\ r.connected /\ r.buf = FragbufCreate(TRUE)
  <2>1. /\ r.life = o.life /\ r.destroyed = o.destroyed /\ r.sock = f /\ r.connected
        /\ r.buf = FragbufCreate(TRUE)
    <3> HIDE DEF o
    <3>. QED BY <1>1, GivenRecord
  <2> HIDE DEF r
  <2>. QED BY <1>1, <2>1 DEF Usable
<1> HIDE DEF r
<1>4. ASSUME NEW s \in {"client", "server"}
      PROVE  <<n, s>> \in End /\ Waits(<<n, s>>) /\ \A g \in Fd : sock[g] # <<n, s>>
  <2>1. <<n, s>> \in End /\ <<n, s>>[1] = n /\ n > conns
    BY <1>1 DEF End
  <2> DEFINE x == <<n, s>>
  <2>2. x \in End /\ x[1] > conns
    BY <2>1
  <2>3. \A g \in Fd : sock[g] # x
    <3> HIDE DEF x
    <3>1. ASSUME NEW g \in Fd, sock[g] = x PROVE FALSE
      <4>1. x[1] <= conns
        BY <1>1, <2>2, <3>1 DEF EndsKept
      <4>2. x[1] \in Nat
        BY <2>2, PeerFacts, StreamAssumption
      <4>. QED BY <1>1, <2>2, <4>1, <4>2
    <3>. QED BY <3>1
  <2>4. Waits(x)
    <3> HIDE DEF x
    <3>1. pipe[x] = <<>> /\ sent[x] = <<>> /\ got[x] = <<>> /\ state[x] = "open"
      BY <1>1, <2>2 DEF HistoryKept
    <3>. QED BY <3>1, AheadFacts DEF Waits
  <2>. QED BY <2>2, <2>3, <2>4
<1>5. /\ ~Holds(t) /\ ~Reading(t)'
  <2>1. ~Connected(t) /\ ~Reading(t)
    BY <1>1 DEF ReadersKept, Connected
  <2>2. cur' = cur
    BY <1>1
  <2>. QED BY <2>1, <2>2 DEF Holds, Reading, Runs
<1>6. n \notin Range(pending)
  BY <1>1 DEF EndsKept
<1>7. Range(pending') = Range(pending) \cup {n} /\ IsInjective(pending')
  BY <1>1, <1>6, AppendFacts DEF EndsKept
<1>8. ASSUME NEW c \in Range(pending')
      PROVE  /\ c <= conns' /\ e # <<c, "server">> /\ Waits(<<c, "server">>)
             /\ \A g \in Fd : sock[g] # <<c, "server">>
  <2>1. CASE c = n
    BY <1>1, <1>4, <2>1
  <2>2. CASE c # n
    <3>1. c \in Range(pending)
      BY <1>7, <2>2
    <3>2. /\ c \in 1 .. MaxConns /\ c <= conns /\ Waits(<<c, "server">>)
          /\ \A g \in Fd : sock[g] # <<c, "server">>
      BY <1>1, <3>1, BacklogEnds DEF StreamInv, BacklogKept
    <3>3. c <= conns'
      BY <1>1, <3>2, StreamAssumption
    <3>4. e # <<c, "server">>
      OBVIOUS
    <3>. QED BY <3>2, <3>3, <3>4
  <2>. QED BY <2>1, <2>2
<1>9. e \in End /\ Waits(e) /\ (\A g \in Fd : sock[g] # e) /\ e[1] <= conns' /\ conns' >= conns
      /\ conns' \in Nat /\ sock' = [sock EXCEPT ![f] = e] /\ tr[t].sock = None
  BY <1>0, <1>1, <1>4
<1>10. \A u \in Transports : ReadingStays(u)
  BY <1>1 DEF ReadingStays
<1>11. UNCHANGED <<pipe, shut, sent, got, state>> /\ watch' = WithWatch(f, t)
  BY <1>0, <1>1
<1> HIDE DEF e, n, o
<1>. QED BY <1>2, <1>3, <1>5, <1>7, <1>8, <1>9, <1>10, <1>11, EndGiven

(* strm_accept() takes the first end of the backlog.                       *)
LEMMA AcceptKept ==
  ASSUME StrmInv, StreamInv, NEW t \in Transports, StrmAccept(t)
  PROVE  StreamInv' /\ ChannelStep
<1>0. PICK c \in 1 .. MaxConns : c = Head(pending)
  BY TakenFacts DEF StrmAccept, Taken
<1> DEFINE e == <<c, "server">>
           o == Opened
<1>1. PICK f \in FreeFds :
        /\ sock' = [sock EXCEPT ![f] = e] /\ watch' = WithWatch(f, t)
        /\ tr' = [tr EXCEPT ![t] = [o EXCEPT !.sock = f, !.connected = TRUE,
                                            !.buf = FragbufCreate(TRUE)]]
  BY <1>0 DEF StrmAccept
<1> DEFINE r == [o EXCEPT !.sock = f, !.connected = TRUE, !.buf = FragbufCreate(TRUE)]
<1>2. /\ ReadersKept /\ EndsKept /\ HistoryKept /\ BacklogKept /\ ~Live(t)
      /\ conns \in Nat /\ conns' = conns /\ pending' = Tail(pending) /\ pending # <<>>
      /\ UNCHANGED <<pipe, shut, sent, got, state>> /\ pending \in Seq(1 .. MaxConns)
      /\ cur # None /\ cur.at = "connection" /\ cur' = [cur EXCEPT !.at = "accepted"]
  BY DEF StreamInv, StrmInv, ShapeKept, StrmAccept, historyVars, Live, CallbackKept, Usable
<1>3. Usable(r) /\ r.sock = f /\ r.connected /\ r.buf = FragbufCreate(TRUE)
  <2>1. Shaped(o) /\ Usable(o)
    BY OpenedShaped DEF Opened, Usable
  <2>2. /\ r.life = o.life /\ r.destroyed = o.destroyed /\ r.sock = f /\ r.connected
        /\ r.buf = FragbufCreate(TRUE)
    <3> HIDE DEF o
    <3>. QED BY <2>1, GivenRecord
  <2> HIDE DEF r, o
  <2>. QED BY <2>1, <2>2 DEF Usable
<1>4. tr' = [tr EXCEPT ![t] = r]
  BY <1>1
<1> HIDE DEF r, o
<1>5. c \in Range(pending) /\ IsInjective(pending')
      /\ \A d \in Range(pending') : d \in Range(pending) /\ d # c
  BY <1>0, <1>2, TailFacts DEF EndsKept
<1>6. \A d \in Range(pending) :
        /\ d \in 1 .. MaxConns /\ d <= conns /\ <<d, "server">> \in End
        /\ Waits(<<d, "server">>) /\ \A g \in Fd : sock[g] # <<d, "server">>
  BY <1>2, BacklogEnds DEF BacklogKept
<1>8. e \in End /\ Waits(e) /\ (\A g \in Fd : sock[g] # e) /\ e[1] <= conns'
  BY <1>2, <1>5, <1>6
<1>9. ASSUME NEW d \in Range(pending')
      PROVE  /\ d <= conns' /\ e # <<d, "server">> /\ Waits(<<d, "server">>)
             /\ \A g \in Fd : sock[g] # <<d, "server">>
  BY <1>2, <1>5, <1>6
<1>10. ~Holds(t) /\ (\A u \in Transports : ReadingStays(u)) /\ ~Reading(t)'
  <2>1. cur'.at = "accepted"
    BY <1>2 DEF StrmInv, ShapeKept, Callbacks
  <2>. QED BY <1>2, <2>1 DEF Holds, Live, Usable, ReadingStays, Reading
<1>11. /\ sock' = [sock EXCEPT ![f] = e] /\ watch' = WithWatch(f, t)
       /\ conns' \in Nat /\ conns' >= conns /\ UNCHANGED <<pipe, shut, sent, got, state>>
  BY <1>1, <1>2
<1> HIDE DEF e
<1>. QED BY <1>2, <1>3, <1>4, <1>5, <1>8, <1>9, <1>10, <1>11, EndGiven

-----------------------------------------------------------------------------
\* Steps that give ends up.

\* The ends es, that of t or ends of the backlog, are in use no more.
GivenUp(t, es) ==
  /\ \A e \in es : (Holds(t) /\ e = EndOf(t)) \/ \E c \in Range(pending) : e = <<c, "server">>
  /\ UNCHANGED <<sent, got, conns>>
  /\ pipe' \in [End -> Seq(Byte)] /\ shut' \in [End -> BOOLEAN]
  /\ state' \in [End -> {"open", "closed", "over"}]
  /\ \A e \in End : /\ e \notin es => pipe'[e] = pipe[e] /\ state'[e] = state[e]
                    /\ state[e] # "open" => state'[e] # "open"
                    /\ shut[e] => shut'[e]
  /\ \A c \in Range(pending') : c \in Range(pending) /\ <<c, "server">> \notin es
  /\ IsInjective(pending')

\* t becomes q, which has no buffer and is watched for no connection.
LetGo(t, q) ==
  /\ q.buf = None
  /\ \A f \in Fd : /\ watch'[f] \in {watch[f], None}
                   /\ watch'[f] = t => sock[f] \notin End
                   /\ sock'[f] = sock[f] \/ (f = tr[t].sock /\ sock'[f] = None)
  /\ Usable(q) => /\ Usable(tr[t]) /\ q.sock = tr[t].sock /\ sock' = sock
                  /\ q.connected \/ Reading(t)' => Connected(t)
                  /\ Connected(t) => state'[EndOf(t)] # "open"
  /\ \A u \in Transports : u # t => ReadingStays(u)

(* A transport lets go of its end, and the ends es are read no more.       *)
LEMMA HandsOff ==
  ASSUME StrmInv, StreamInv, NEW t \in Transports, Live(t),
         NEW q, tr' = [tr EXCEPT ![t] = q], LetGo(t, q), NEW es, GivenUp(t, es)
  PROVE  StreamInv'
<1> USE DEF GivenUp, LetGo
<1>1. /\ ReadersKept /\ EndsKept /\ HistoryKept /\ BacklogKept /\ LeftKept
      /\ \A u \in Transports : Reads(u) => StreamKept(u)
      /\ conns' = conns /\ sent' = sent /\ got' = got
  BY DEF StreamInv
<1>2. tr'[t] = q /\ \A u \in Transports : u # t => tr'[u] = tr[u]
  BY DEF StrmInv, ShapeKept
<1>3. \A f \in Fd : sock'[f] \in End => sock'[f] = sock[f]
  BY NoneFacts
<1>4. ASSUME NEW u \in Transports, Holds(u), u # t
      PROVE  /\ tr'[u] = tr[u] /\ EndOf(u)' = EndOf(u) /\ Holds(u)' /\ EndOf(u) \in End
             /\ EndOf(u) \notin es
  <2>1. /\ Live(u) /\ tr[u].sock \in Fd /\ EndOf(u) \in End /\ tr[u].sock # None
        /\ \A c \in Range(pending) : EndOf(u) # <<c, "server">>
        /\ Holds(t) => EndOf(t) # EndOf(u)
    BY <1>1, <1>4, OneHolder DEF Holds, Connected
  <2>2. tr[u].sock # tr[t].sock
    BY <1>4, <2>1 DEF StrmInv, SocketsKept
  <2>3. EndOf(u)' = EndOf(u)
    BY <1>2, <1>4, <2>1, <2>2 DEF EndOf
  <2>4. EndOf(u) \notin es
    BY <2>1
  <2>. QED BY <1>2, <1>4, <2>1, <2>3, <2>4 DEF Holds, Connected
<1>5. ASSUME NEW u \in Transports, Holds(u)'
      PROVE  Holds(u) /\ EndOf(u)' = EndOf(u)
  <2>1. CASE u = t
    BY <1>2, <1>5, <2>1 DEF Holds, Connected, EndOf
  <2>2. CASE u # t
    <3>1. tr'[u] = tr[u] /\ tr[u].sock # None /\ Usable(tr[u])
      BY <1>2, <1>5, <2>2 DEF Holds, Connected
    <3>2. tr[u].sock \in Fd
      BY <3>1 DEF StrmInv, ShapeKept, Shaped
    <3>. QED BY <1>3, <1>5, <3>1, <3>2 DEF Holds, Connected, EndOf
  <2>. QED BY <2>1, <2>2
<1>6. ASSUME NEW u \in Transports, Reads(u)'
      PROVE  u # t /\ Reads(u) /\ Holds(u) /\ tr'[u] = tr[u]
  <2>1. u # t
    BY <1>2, <1>6 DEF Reads
  <2>2. tr'[u] = tr[u] /\ Reads(u)
    BY <1>2, <1>6, <2>1 DEF Reads
  <2>. QED BY <1>1, <2>1, <2>2, ReaderHolds
<1>7. ReadersKept'
  <2>1. ASSUME NEW u \in Transports, Reads(u)'
        PROVE  Usable(tr'[u]) /\ tr'[u].connected /\ Connected(u)' /\ Framed(tr'[u].buf)
    <3>1. u # t /\ Holds(u) /\ tr[u].connected /\ Framed(tr[u].buf) /\ tr'[u] = tr[u]
      BY <1>1, <1>6, <2>1, ReaderHolds
    <3>. QED BY <1>4, <3>1 DEF Holds
  <2>2. ASSUME NEW u \in Transports, Usable(tr'[u]), tr'[u].connected \/ Reading(u)'
        PROVE  Connected(u)'
    <3>1. CASE u = t
      BY <1>2, <2>2, <3>1 DEF Connected, EndOf
    <3>2. CASE u # t
      <4>1. tr'[u] = tr[u] /\ ReadingStays(u)
        BY <1>2, <3>2
      <4>2. Holds(u)
        BY <1>1, <2>2, <4>1 DEF ReadersKept, Holds, ReadingStays, Reading, Runs
      <4>. QED BY <1>4, <3>2, <4>2 DEF Holds
    <3>. QED BY <3>1, <3>2
  <2>3. ASSUME NEW f \in Fd, watch'[f] # None, sock'[f] \in End PROVE tr'[watch'[f]].buf # None
    <3>1. watch'[f] = watch[f] /\ sock'[f] = sock[f] /\ watch[f] # t /\ watch[f] \in Transports
      BY <1>3, <2>3 DEF StrmInv, ShapeKept
    <3>. QED BY <1>1, <1>2, <2>3, <3>1 DEF ReadersKept, Reads
  <2>. QED BY <2>1, <2>2, <2>3 DEF ReadersKept, Reads
<1>8. EndsKept'
  <2>1. ASSUME NEW f \in Fd, sock'[f] \in End
        PROVE  sock'[f][1] <= conns /\ ~(sock'[f][2] = "server" /\ sock'[f][1] \in Range(pending'))
    <3> DEFINE e == sock[f]
    <3>1. sock'[f] = e /\ e \in End
      BY <1>3, <2>1
    <3>2. e[1] <= conns /\ ~(e[2] = "server" /\ e[1] \in Range(pending))
      BY <1>1, <3>1 DEF EndsKept
    <3>3. \A c \in Range(pending') : c \in Range(pending)
      OBVIOUS
    <3> HIDE DEF e
    <3>. QED BY <3>1, <3>2, <3>3
  <2>2. ASSUME NEW f \in Fd, NEW g \in Fd, sock'[f] = sock'[g], sock'[f] \in End PROVE f = g
    BY <1>1, <1>3, <2>2 DEF EndsKept
  <2>3. \A c \in Range(pending') : c <= conns
    BY <1>1 DEF EndsKept
  <2>4. IsInjective(pending')
    OBVIOUS
  <2>. QED BY <1>1, <2>1, <2>2, <2>3, <2>4 DEF EndsKept
<1>9. HistoryKept'
  <2>1. ASSUME NEW e \in End, e[1] > conns PROVE e \notin es
    <3>1. e[1] \in Nat /\ conns \in Nat
      BY PeerFacts, StreamAssumption DEF StrmInv, ShapeKept
    <3>2. ~(e[1] <= conns)
      BY <2>1, <3>1
    <3>3. Holds(t) => EndOf(t)[1] <= conns
      BY <1>1, OneHolder
    <3>4. ASSUME NEW c \in Range(pending), e = <<c, "server">> PROVE FALSE
      BY <1>1, <3>2, <3>4 DEF EndsKept
    <3>. QED BY <3>2, <3>3, <3>4
  <2>. QED BY <1>1, <2>1 DEF HistoryKept
<1>10. BacklogKept'
  <2>1. ASSUME NEW c \in Range(pending') PROVE Waits(<<c, "server">>)'
    <3>1. c \in Range(pending) /\ <<c, "server">> \notin es
      OBVIOUS
    <3>2. <<c, "server">> \in End
      BY <1>1, <3>1, BacklogEnds
    <3> DEFINE e == <<c, "server">>
    <3>3. Waits(e) /\ e \in End /\ e \notin es
      BY <1>1, <3>1, <3>2 DEF BacklogKept
    <3> HIDE DEF e
    <3>4. Waits(e)'
      BY <1>1, <3>3, WaitsSame
    <3>. QED BY <3>4 DEF e
  <2>. QED BY <2>1 DEF BacklogKept
<1>11. LeftKept'
  <2>1. ASSUME NEW u \in Transports, Holds(u)', ~Reads(u)' PROVE state'[EndOf(u)'] # "open"
    <3>1. Holds(u) /\ EndOf(u)' = EndOf(u)
      BY <1>5, <2>1
    <3>2. CASE u = t
      BY <1>2, <2>1, <3>1, <3>2 DEF Holds
    <3>3. CASE u # t
      <4>1. ~Reads(u)
        BY <1>2, <2>1, <3>3 DEF Reads
      <4>2. state[EndOf(u)] # "open" /\ EndOf(u) \in End
        BY <1>1, <1>4, <3>1, <3>3, <4>1 DEF LeftKept, Holds
      <4>. QED BY <3>1, <4>2
    <3>. QED BY <3>2, <3>3
  <2>. QED BY <2>1 DEF LeftKept, Holds
<1>12. ASSUME NEW u \in Transports, Reads(u)' PROVE StreamKept(u)'
  <2>1. u # t /\ Reads(u) /\ Holds(u) /\ tr'[u] = tr[u]
    BY <1>6, <1>12
  <2> DEFINE e == EndOf(u)
  <2>2. EndOf(u)' = e /\ e \in End /\ e \notin es /\ StreamKept(u) /\ ReadingStays(u)
    BY <1>1, <1>4, <2>1
  <2>3. Peer(e) \in End
    BY <2>2, PeerFacts
  <2>. QED BY <1>1, <2>1, <2>2, <2>3, StreamSame
<1>. QED BY <1>7, <1>8, <1>9, <1>10, <1>11, <1>12 DEF StreamInv

(* Ends that are given up are in no state but the three.                   *)
LEMMA OverFacts ==
  ASSUME HistoryKept, NEW es
  PROVE  /\ Over(es) \in [End -> {"open", "closed", "over"}] /\ Shut(es) \in [End -> BOOLEAN]
         /\ Drained(es) \in [End -> Seq(Byte)]
         /\ \A e \in End : /\ e \notin es => Drained(es)[e] = pipe[e] /\ Over(es)[e] = state[e]
                           /\ state[e] # "open" \/ e \in es => Over(es)[e] # "open"
                           /\ shut[e] => Shut(es)[e]
<1>1. <<>> \in Seq(Byte)
  OBVIOUS
<1>. QED BY <1>1 DEF HistoryKept, Over, Shut, Drained

(* iot_reject_connection() takes a connection and closes it.               *)
LEMMA RejectKept ==
  ASSUME StrmInv, StreamInv, IotRejectConnection
  PROVE  StreamInv' /\ ChannelStep
<1>0. PICK t \in Transports : t = cur.t /\ Live(t)
  BY Returned DEF IotRejectConnection
<1> DEFINE es == {<<Head(pending), "server">>}
<1>1. /\ ReadersKept /\ EndsKept /\ HistoryKept /\ Usable(tr[t]) /\ EndOf(t) = Listening
      /\ pending \in Seq(1 .. MaxConns) /\ pending # <<>> /\ pending' = Tail(pending)
      /\ shut' = Shut(es) /\ pipe' = Drained(es) /\ state' = Over(es) /\ cur.at = "connection"
      /\ UNCHANGED <<tr, watch, sock, conns, sent, got>> /\ cur'.at = "accepted"
  BY <1>0 DEF StreamInv, StrmInv, ShapeKept, CallbackKept, IotRejectConnection, Usable, Callbacks
<1>2. tr[t].buf = None /\ ~Connected(t)
  BY <1>1, NoneFacts DEF ReadersKept, Reads, Connected
<1>3. /\ Head(pending) \in Range(pending) /\ IsInjective(pending')
      /\ \A c \in Range(pending') : c \in Range(pending) /\ <<c, "server">> \notin es
  <2>1. /\ Head(pending) \in Range(pending) /\ IsInjective(Tail(pending))
        /\ \A c \in Range(Tail(pending)) : c \in Range(pending) /\ c # Head(pending)
    BY <1>1, TailFacts DEF EndsKept
  <2>. QED BY <1>1, <2>1
<1>4. tr' = [tr EXCEPT ![t] = tr[t]]
  BY <1>1 DEF StrmInv, ShapeKept
<1>5. \A e \in es : \E c \in Range(pending) : e = <<c, "server">>
  BY <1>3
<1>6. \A f \in Fd : watch[f] = t => sock[f] \notin End
  BY <1>1, NoneFacts DEF StrmInv, WatchesKept, EndOf
<1>7. \A u \in Transports : ReadingStays(u) /\ ~Reading(u)'
  BY <1>1 DEF ReadingStays, Reading
<1> HIDE DEF es
<1>8. LetGo(t, tr[t])
  <2>1. Connected(t) => state'[EndOf(t)] # "open"
    BY <1>2
  <2>. QED BY <1>1, <1>2, <1>6, <1>7, <2>1 DEF LetGo, ReadersKept
<1>9. GivenUp(t, es)
  BY <1>1, <1>3, <1>5, OverFacts DEF GivenUp
<1> DEFINE q == tr[t]
<1>10. tr' = [tr EXCEPT ![t] = q] /\ LetGo(t, q)
  BY <1>4, <1>8
<1> HIDE DEF q
<1>11. StreamInv'
  BY <1>0, <1>9, <1>10, HandsOff
<1>12. ChannelStep
  BY <1>1, OverStep
<1>. QED BY <1>11, <1>12

(* strm_disconnect() gives the end up and keeps its descriptor.            *)
LEMMA DisconnectKept ==
  ASSUME StrmInv, StreamInv, NEW t \in Transports, IotTransportDisconnect(t)
  PROVE  StreamInv' /\ ChannelStep
<1> DEFINE q == Requested(tr[t], LAMBDA s : [Disconnected(s) EXCEPT !.connected = FALSE])
           es == {EndOf(t)}
<1>1. /\ ReadersKept /\ EndsKept /\ HistoryKept /\ Shaped(tr[t]) /\ Usable(tr[t])
      /\ tr[t].connected /\ tr' = [tr EXCEPT ![t] = q] /\ state' = Over(es)
      /\ UNCHANGED <<sock, pipe, pending, conns, cur, sent, got>>
  BY DEF StreamInv, StrmInv, ShapeKept, IotTransportDisconnect
<1>2. watch' = WithoutWatch(t) /\ shut' = Shut(es)
  BY DEF IotTransportDisconnect, StrmDisconnect
<1>3. q.sock = tr[t].sock /\ q.buf = None
  BY <1>1, DisconnectedRecord
<1>4. Holds(t) /\ Connected(t)
  BY <1>1 DEF ReadersKept, Holds
<1>5. /\ EndOf(t) \in End /\ \A c \in Range(pending) : EndOf(t) # <<c, "server">>
  BY <1>1, <1>4, OneHolder
<1>6. Live(t)
  BY <1>1 DEF Live, Usable
<1>7. LetGo(t, q)
  <2>1. \A f \in Fd : watch'[f] \in {watch[f], None} /\ watch'[f] # t
    BY <1>2, NoneFacts DEF WithoutWatch
  <2>2. state'[EndOf(t)] # "open"
    BY <1>1, <1>5, OverFacts
  <2>3. \A u \in Transports : ReadingStays(u)
    BY <1>1 DEF ReadingStays
  <2> HIDE DEF q
  <2>. QED BY <1>1, <1>3, <1>4, <2>1, <2>2, <2>3 DEF LetGo
<1>8. GivenUp(t, es)
  <2>1. \A e \in es : Holds(t) /\ e = EndOf(t)
    BY <1>4
  <2>2. \A c \in Range(pending) : <<c, "server">> \notin es
    BY <1>5
  <2> HIDE DEF es
  <2>3. /\ Over(es) \in [End -> {"open", "closed", "over"}] /\ Shut(es) \in [End -> BOOLEAN]
        /\ \A e \in End : /\ e \notin es => Over(es)[e] = state[e]
                          /\ state[e] # "open" => Over(es)[e] # "open"
                          /\ shut[e] => Shut(es)[e]
    BY <1>1, OverFacts
  <2>. QED BY <1>1, <1>2, <2>1, <2>2, <2>3 DEF GivenUp, HistoryKept, EndsKept
<1> HIDE DEF q, es
<1>9. StreamInv'
  BY <1>1, <1>6, <1>7, <1>8, HandsOff
<1>10. ChannelStep
  BY <1>1, OverStep
<1>. QED BY <1>9, <1>10

(* strm_close() closes the descriptor, and what waits in its backlog.      *)
LEMMA DestroyKept ==
  ASSUME StrmInv, StreamInv, NEW t \in Transports, IotTransportDestroy(t)
  PROVE  StreamInv' /\ ChannelStep
<1> DEFINE q == Requested([tr[t] EXCEPT !.destroyed = TRUE],
                          LAMBDA s : [s EXCEPT !.buf = None, !.sock = None])
           f == tr[t].sock
           es == IF f = None THEN {} ELSE Closing(f)
<1>1. /\ ReadersKept /\ EndsKept /\ HistoryKept /\ Shaped(tr[t]) /\ Usable(tr[t]) /\ Live(t)
      /\ tr' = [tr EXCEPT ![t] = q] /\ StrmClose(t) /\ UNCHANGED <<cur, sent, got>>
      /\ f \in Fd \cup {None}
  BY DEF StreamInv, StrmInv, ShapeKept, IotTransportDestroy, Shaped, Usable, Live
<1>2. q.buf = None /\ ~Usable(q)
  <2>1. tr[t].busy \in {0, 1}
    BY <1>1 DEF Shaped
  <2>2. /\ q.buf = None /\ (tr[t].busy = 0 => q = Freed)
        /\ tr[t].busy = 1 => q.life = "live" /\ q.destroyed
    BY <1>1, DestroyedRecord
  <2> HIDE DEF q
  <2>. QED BY <2>1, <2>2, OpenedShaped DEF Usable
<1>3. /\ UNCHANGED <<sent, got, conns>> /\ state' = Over(es)
      /\ \A u \in Transports : ReadingStays(u)
  <2>1. Over({}) = state
    BY <1>1 DEF Over, HistoryKept
  <2>2. UNCHANGED conns /\ state' = Over(es)
    BY <1>1, <2>1 DEF StrmClose, netVars
  <2>. QED BY <1>1, <2>2 DEF ReadingStays
<1>4. LetGo(t, q)
  <2>1. CASE f = None
    <3>1. UNCHANGED <<watch, sock>>
      BY <1>1, <2>1 DEF StrmClose, netVars
    <3>2. \A g \in Fd : watch[g] # t
      BY <1>1, <2>1, NoneFacts DEF StrmInv, WatchesKept
    <3> HIDE DEF q
    <3>. QED BY <1>2, <1>3, <3>1, <3>2 DEF LetGo
  <2>2. CASE f # None
    <3>1. watch' = WithoutWatch(t) /\ sock' = [sock EXCEPT ![f] = None]
      BY <1>1, <2>2 DEF StrmClose
    <3>2. \A g \in Fd : watch'[g] \in {watch[g], None} /\ watch'[g] # t
      BY <3>1, NoneFacts DEF WithoutWatch
    <3>3. \A g \in Fd : sock'[g] = sock[g] \/ (g = f /\ sock'[g] = None)
      BY <3>1 DEF StrmInv, ShapeKept
    <3> HIDE DEF q
    <3>. QED BY <1>2, <1>3, <3>2, <3>3 DEF LetGo
  <2>. QED BY <2>1, <2>2
<1>5. GivenUp(t, es)
  <2>1. CASE f = None
    <3>1. UNCHANGED <<pipe, shut, pending, conns, state, sent, got>> /\ es = {}
      BY <1>1, <2>1 DEF StrmClose, netVars
    <3>. QED BY <1>1, <3>1 DEF GivenUp, HistoryKept, EndsKept
  <2>2. CASE f # None /\ sock[f] = Listening
    <3>1. /\ es = {<<c, "server">> : c \in Range(pending)} /\ pending' = <<>>
          /\ shut' = Shut(es) /\ pipe' = Drained(es)
      BY <1>1, <2>2 DEF StrmClose, Closing
    <3> HIDE DEF es
    <3>2. /\ pipe' \in [End -> Seq(Byte)] /\ shut' \in [End -> BOOLEAN]
          /\ state' \in [End -> {"open", "closed", "over"}]
          /\ \A e \in End : /\ e \notin es => pipe'[e] = pipe[e] /\ state'[e] = state[e]
                            /\ state[e] # "open" => state'[e] # "open"
                            /\ shut[e] => shut'[e]
      BY <1>1, <1>3, <3>1, OverFacts
    <3>3. Range(pending') = {} /\ IsInjective(pending')
      <4>1. DOMAIN <<>> = {}
        BY EmptySeq
      <4>. QED BY <3>1, <4>1 DEF Range, IsInjective
    <3>. QED BY <1>3, <3>1, <3>2, <3>3 DEF GivenUp
  <2>3. CASE f # None /\ sock[f] # Listening
    <3>1. /\ es = {EndOf(t)} /\ pending' = pending /\ shut' = Shut(es) /\ pipe' = Drained(es)
      BY <1>1, <2>3 DEF StrmClose, Closing, EndOf
    <3>2. Holds(t)
      <4>1. f \in Fd /\ EndOf(t) # None
        BY <1>1, <2>3 DEF StrmInv, SocketsKept
      <4>. QED BY <1>1, <2>3, <4>1 DEF StrmInv, ShapeKept, Holds, Connected, EndOf
    <3>3. \A c \in Range(pending) : EndOf(t) # <<c, "server">>
      BY <1>1, <3>2, OneHolder
    <3>4. (\A e \in es : e = EndOf(t)) /\ \A c \in Range(pending') : <<c, "server">> \notin es
      BY <3>1, <3>3
    <3> HIDE DEF es
    <3>5. /\ pipe' \in [End -> Seq(Byte)] /\ shut' \in [End -> BOOLEAN]
          /\ state' \in [End -> {"open", "closed", "over"}]
          /\ \A e \in End : /\ e \notin es => pipe'[e] = pipe[e] /\ state'[e] = state[e]
                            /\ state[e] # "open" => state'[e] # "open"
                            /\ shut[e] => shut'[e]
      BY <1>1, <1>3, <3>1, OverFacts
    <3>. QED BY <1>1, <1>3, <3>1, <3>2, <3>4, <3>5 DEF GivenUp, EndsKept
  <2>. QED BY <2>1, <2>2, <2>3
<1> HIDE DEF q, es
<1>6. StreamInv'
  BY <1>1, <1>4, <1>5, HandsOff
<1>7. ChannelStep
  BY <1>1, <1>3, OverStep
<1>. QED BY <1>6, <1>7

-----------------------------------------------------------------------------
\* Messages that are sent.

(* writev() takes the whole frame, and the other end's user is owed it.    *)
LEMMA SendKept ==
  ASSUME StrmInv, StreamInv, BuffersSuffice, NEW t \in Transports, NEW m \in Message,
         StrmSendjson(t, m)
  PROVE  StreamInv' /\ ChannelStep
<1> DEFINE e == EndOf(t)
           p == Peer(e)
           n == Min({Len(Frame(m)), SockBuf - Len(pipe[p])})
<1>1. /\ ReadersKept /\ EndsKept /\ HistoryKept /\ BacklogKept /\ LeftKept
      /\ \A u \in Transports : Reads(u) => StreamKept(u)
      /\ Usable(tr[t]) /\ tr[t].connected /\ ~shut[e] /\ Len(sent[p]) < MaxSent[p[2]]
      /\ UNCHANGED <<tr, watch, sock, shut, pending, conns, cur, got, state>>
  BY DEF StreamInv, StrmSendjson
<1>2. Holds(t)
  BY <1>1 DEF ReadersKept, Holds
<1>3. e \in End /\ e[1] <= conns /\ p \in End /\ Peer(p) = e /\ p[1] = e[1]
  BY <1>1, <1>2, OneHolder, PeerFacts
<1>4. /\ Frame(m) \in Seq(Byte) /\ Len(Frame(m)) \in Nat /\ pipe[p] \in Seq(Byte)
      /\ Len(pipe[p]) \in Nat /\ Len(pipe[p]) + Len(Frame(m)) <= SockBuf
      /\ sent[p] \in Seq(Message)
  BY <1>1, <1>3, HeaderFacts, LenProperties DEF HistoryKept, BuffersSuffice
<1>5. n = Len(Frame(m))
  <2> DEFINE a == Len(Frame(m))
             b == SockBuf - Len(pipe[p])
  <2>1. a \in Nat /\ b \in Nat /\ a <= b
    BY <1>4, StreamAssumption
  <2> HIDE DEF a, b
  <2>2. {a, b} \in SUBSET Nat /\ {a, b} # {}
    BY <2>1
  <2>3. Min({a, b}) \in {a, b} /\ \A y \in {a, b} : Min({a, b}) <= y
    BY <2>2, MinInSet
  <2>4. Min({a, b}) = a
    BY <2>1, <2>3
  <2>. QED BY <2>4 DEF a, b
<1>6. /\ pipe' = [pipe EXCEPT ![p] = pipe[p] \o Frame(m)]
      /\ sent' = [sent EXCEPT ![p] = Append(sent[p], m)]
  <2>1. /\ pipe' = [pipe EXCEPT ![p] = pipe[p] \o SubSeq(Frame(m), 1, n)]
        /\ sent' = IF n = Len(Frame(m)) THEN [sent EXCEPT ![p] = Append(sent[p], m)] ELSE sent
    BY DEF StrmSendjson
  <2>2. SubSeq(Frame(m), 1, Len(Frame(m))) = Frame(m)
    BY <1>4, SubSeqFull
  <2> HIDE DEF n, p
  <2>. QED BY <1>5, <2>1, <2>2
<1> HIDE DEF p, n
<1> DEFINE w == pipe[p] \o Frame(m)
           x == Append(sent[p], m)
<1>7. /\ w \in Seq(Byte) /\ x \in Seq(Message) /\ Len(x) = Len(sent[p]) + 1
      /\ Len(sent[p]) \in Nat /\ \A i \in 1 .. Len(sent[p]) : x[i] = sent[p][i]
  BY <1>4, ConcatProperties, AppendProperties, LenProperties
<1>8. /\ pipe'[p] = w /\ sent'[p] = x
      /\ \A y \in End : y # p => pipe'[y] = pipe[y] /\ sent'[y] = sent[y]
  BY <1>1, <1>3, <1>6 DEF HistoryKept
<1>9. ASSUME NEW d, NEW k, Ahead(d, pipe[p], sent[p], k) PROVE Ahead(d, w, x, k)
  BY <1>9, AheadFacts
<1> HIDE DEF w, x
<1>10. ReadersKept' /\ EndsKept' /\ LeftKept'
  BY <1>1 DEF ReadersKept, EndsKept, LeftKept, Reads, Reading, Runs, Connected, EndOf
<1>11. HistoryKept'
  <2>1. pipe' \in [End -> Seq(Byte)] /\ sent' \in [End -> Seq(Message)]
    BY <1>1, <1>3, <1>6, <1>7 DEF HistoryKept, w, x
  <2>2. ASSUME NEW y \in End
        PROVE  Len(got[y]) <= Len(sent'[y]) /\ \A i \in 1 .. Len(got[y]) : got[y][i] = sent'[y][i]
    <3>1. /\ Len(got[y]) <= Len(sent[y]) /\ Len(got[y]) \in Nat /\ Len(sent[y]) \in Nat
          /\ \A i \in 1 .. Len(got[y]) : got[y][i] = sent[y][i]
      BY <1>1, LenProperties DEF HistoryKept
    <3>2. CASE y = p
      <4>1. \A i \in 1 .. Len(got[y]) : i \in 1 .. Len(sent[p])
        BY <3>1, <3>2
      <4>2. Len(got[y]) <= Len(x)
        BY <1>7, <3>1, <3>2
      <4>. QED BY <1>7, <1>8, <3>1, <3>2, <4>1, <4>2
    <3>3. CASE y # p
      BY <1>8, <3>1, <3>3
    <3>. QED BY <3>2, <3>3
  <2>3. \A y \in End : y[1] > conns => y # p
    <3>1. p[1] \in Nat /\ conns \in Nat /\ p[1] <= conns
      BY <1>3, PeerFacts, StreamAssumption DEF StrmInv, ShapeKept
    <3>. QED BY <3>1
  <2>. QED BY <1>1, <1>8, <2>1, <2>2, <2>3 DEF HistoryKept
<1>12. BacklogKept'
  <2>1. ASSUME NEW c \in Range(pending) PROVE Waits(<<c, "server">>)'
    <3>2. <<c, "server">> \in End
      BY <1>1, BacklogEnds
    <3>0. PICK y \in End : y = <<c, "server">>
      BY <3>2
    <3>1. Waits(y)
      BY <1>1, <3>0 DEF BacklogKept
    <3>3. Waits(y)'
      <4>1. CASE y = p
        <5>1. Ahead(<<>>, pipe[p], sent[p], 1)
          BY <3>1, <4>1 DEF Waits
        <5>2. Ahead(<<>>, w, x, 1)
          BY <1>9, <5>1
        <5>3. Ahead(<<>>, pipe'[y], sent'[y], 1)
          BY <1>8, <4>1, <5>2
        <5>4. got[y] = <<>> /\ state[y] = "open" /\ got' = got /\ state' = state
          BY <1>1, <3>1 DEF Waits
        <5>. QED BY <5>3, <5>4 DEF Waits
      <4>2. CASE y # p
        <5>1. pipe'[y] = pipe[y] /\ sent'[y] = sent[y] /\ got' = got /\ state' = state
          BY <1>1, <1>8, <4>2
        <5>. QED BY <3>1, <5>1 DEF Waits
      <4>. QED BY <4>1, <4>2
    <3>. QED BY <3>0, <3>3 DEF Waits
  <2>. QED BY <1>1, <2>1 DEF BacklogKept
<1>13. ASSUME NEW u \in Transports, Reads(u)' PROVE StreamKept(u)'
  <2> DEFINE y == EndOf(u)
  <2>1. Reads(u) /\ Holds(u) /\ StreamKept(u)
    BY <1>1, <1>13, ReaderHolds DEF Reads
  <2>2. y \in End /\ EndOf(u)' = y /\ tr'[u] = tr[u] /\ ReadingStays(u)
    BY <1>1, <2>1, OneHolder DEF EndOf, ReadingStays
  <2>3. CASE y = p
    <3>1. /\ Ahead(tr[u].buf.data, pipe[p], sent[p], NextOf(u)) /\ state[p] = "open"
          /\ Reading(u) => Whole(tr[u].buf.data) /\ (cur.hup => shut[e])
      BY <1>3, <2>1, <2>3 DEF StreamKept
    <3>2. NextOf(u)' = NextOf(u) /\ (Reading(u)' <=> Reading(u))
      BY <1>1, <2>2 DEF NextOf, Reading, Runs
    <3>3. Ahead(tr[u].buf.data, w, x, NextOf(u))
      BY <1>9, <3>1
    <3>4. /\ Ahead(tr'[u].buf.data, pipe'[p], sent'[p], NextOf(u)') /\ state'[p] = "open"
          /\ Reading(u)' => Whole(tr'[u].buf.data) /\ ~cur'.hup
      BY <1>1, <1>8, <2>2, <3>1, <3>2, <3>3
    <3> HIDE DEF y, e
    <3>. QED BY <2>2, <2>3, <3>4 DEF StreamKept
  <2>4. CASE y # p
    BY <1>1, <1>8, <2>1, <2>2, <2>4, StreamSame
  <2>. QED BY <2>3, <2>4
<1>14. ChannelStep
  <2>1. Users!Send(p, m)
    BY <1>1, <1>6 DEF Users!Send
  <2>2. Users!Next
    BY <1>3, <2>1 DEF Users!Next
  <2>. QED BY <2>2 DEF ChannelStep
<1>. QED BY <1>10, <1>11, <1>12, <1>13, <1>14 DEF StreamInv

-----------------------------------------------------------------------------
\* What comes of an event, and of a receive callback that returns.

\* A step that concerns the connection of t alone; r is the record it starts from.
Concerns(t, r) ==
  /\ Live(t) /\ Holds(t) /\ (cur = None \/ cur.t = t)
  /\ Shaped(r) /\ r.busy = 0 /\ ~r.destroyed
  /\ r.life = tr[t].life /\ r.destroyed = tr[t].destroyed /\ r.sock = tr[t].sock
  /\ r.connected = tr[t].connected
  /\ pipe' \in [End -> Seq(Byte)]
  /\ \A e \in End : e # EndOf(t) => pipe'[e] = pipe[e]

(* The closed: label: the user is told, after all that was sent to it.     *)
LEMMA CloseKept ==
  ASSUME StrmInv, StreamInv, NEW t \in Transports, NEW r, Concerns(t, r),
         r.buf # None => r.connected, NEW error \in BOOLEAN, Close(t, r, error),
         ~error => state[EndOf(t)] # "open" \/ got[EndOf(t)] = sent[EndOf(t)]
  PROVE  StreamInv' /\ ChannelStep
<1> DEFINE d == Disconnected(r)
           q == Enter(d)
           e == EndOf(t)
           es == {e}
<1>1. /\ ReadersKept /\ EndsKept /\ HistoryKept /\ Live(t) /\ Holds(t) /\ Usable(tr[t])
      /\ Shaped(r) /\ r.busy = 0 /\ StrmDisconnect(t) /\ tr' = [tr EXCEPT ![t] = q]
      /\ cur' = Callback(t, "closed", FALSE) /\ UNCHANGED <<sock, pending, conns, sent, got>>
      /\ state' = [state EXCEPT ![e] = IF state[e] # "open" THEN state[e]
                                       ELSE IF error THEN "over" ELSE "closed"]
  BY DEF StreamInv, Concerns, Close, Holds
<1>2. Shaped(d) /\ d.busy = 0 /\ d.sock = r.sock /\ d.buf = None
  <2> DEFINE b == [r EXCEPT !.buf = None]
  <2>1. Shaped(b) /\ b.busy = 0 /\ b.sock = r.sock /\ b.buf = None
    BY <1>1 DEF Shaped, HasFields
  <2>2. d = IF r.connected THEN b ELSE r
    BY DEF Disconnected
  <2> HIDE DEF b, d
  <2>. QED BY <1>1, <2>1, <2>2
<1> HIDE DEF d
<1>3. q.sock = tr[t].sock /\ q.buf = None
  BY <1>2, Entered DEF Concerns
<1> HIDE DEF q
<1>4. e \in End /\ \A c \in Range(pending) : e # <<c, "server">>
  BY <1>1, OneHolder
<1>5. /\ state' \in [End -> {"open", "closed", "over"}] /\ state'[e] # "open"
      /\ \A x \in End : x # e => state'[x] = state[x]
  BY <1>1, <1>4 DEF HistoryKept
<1>6. \A f \in Fd : watch'[f] \in {watch[f], None} /\ (watch'[f] = t => sock[f] \notin End)
  <2>1. CASE tr[t].connected
    <3>1. watch' = WithoutWatch(t)
      BY <1>1, <2>1 DEF StrmDisconnect
    <3>. QED BY <3>1, NoneFacts DEF WithoutWatch
  <2>2. CASE ~tr[t].connected
    <3>1. watch' = watch
      BY <1>1, <2>2 DEF StrmDisconnect
    <3>2. ASSUME NEW f \in Fd, watch[f] = t, sock[f] \in End PROVE FALSE
      BY <1>1, <2>2, <3>2, NoneFacts DEF ReadersKept
    <3>. QED BY <3>1, <3>2
  <2>. QED BY <2>1, <2>2
<1>7. shut' \in [End -> BOOLEAN] /\ \A x \in End : shut[x] => shut'[x]
  <2>1. shut' = shut \/ shut' = Shut({EndOf(t)})
    BY <1>1 DEF StrmDisconnect
  <2>. QED BY <1>1, <2>1, OverFacts DEF HistoryKept
<1>8. \A u \in Transports : u # t => ReadingStays(u)
  <2>1. cur'.t = t /\ cur'.at = "closed"
    BY <1>1 DEF Callback
  <2>. QED BY <2>1 DEF ReadingStays, Reading, Runs, Concerns
<1>9. LetGo(t, q)
  BY <1>1, <1>3, <1>5, <1>6, <1>8 DEF LetGo, Holds
<1>10. GivenUp(t, es)
  <2>1. \A x \in End : x \notin es => pipe'[x] = pipe[x] /\ state'[x] = state[x]
    BY <1>5 DEF Concerns
  <2>2. \A x \in End : state[x] # "open" => state'[x] # "open"
    BY <1>5
  <2>3. pipe' \in [End -> Seq(Byte)]
    BY DEF Concerns
  <2>. QED BY <1>1, <1>4, <1>5, <1>7, <2>1, <2>2, <2>3 DEF GivenUp, EndsKept
<1>11. StreamInv'
  <2> HIDE DEF es, e
  <2>. QED BY <1>1, <1>9, <1>10, HandsOff
<1>12. ChannelStep
  <2> HIDE DEF e
  <2>1. CASE state[e] # "open"
    <3>1. state' = state
      BY <1>1, <1>4, <2>1 DEF HistoryKept
    <3>. QED BY <1>1, <3>1 DEF ChannelStep
  <2>2. CASE state[e] = "open" /\ error
    <3>1. state' = Over({e})
      BY <1>1, <1>4, <2>2 DEF HistoryKept, Over
    <3>. QED BY <1>1, <3>1, OverStep
  <2>3. CASE state[e] = "open" /\ ~error
    <3>1. got[e] = sent[e]
      BY <2>3 DEF e
    <3>2. Users!Closed(e)
      BY <1>1, <2>3, <3>1 DEF Users!Closed
    <3>. QED BY <1>4, <3>2 DEF Users!Next, ChannelStep
  <2>. QED BY <2>1, <2>2, <2>3
<1>. QED BY <1>11, <1>12

\* t becomes q and reads on, or does not read, as before.
ReadsOn(t, q) ==
  /\ q.life = tr[t].life /\ q.destroyed = tr[t].destroyed /\ q.sock = tr[t].sock
  /\ q.connected = tr[t].connected
  /\ (q.buf = None /\ ~Reads(t)) \/ (Framed(q.buf) /\ Reads(t) /\ StreamKept(t)')
  /\ cur' = None \/ cur'.t = t
  /\ UNCHANGED <<watch, sock, shut, pending, conns, sent, state>>
  /\ \A e \in End : e # EndOf(t) => got'[e] = got[e]

(* A message that is taken out of the buffer, or one that is not whole.    *)
LEMMA ReadKept ==
  ASSUME StrmInv, StreamInv, NEW t \in Transports, NEW r, Concerns(t, r), NEW q,
         tr' = [tr EXCEPT ![t] = q], ReadsOn(t, q), HistoryKept'
  PROVE  StreamInv'
<1>1. /\ ReadersKept /\ EndsKept /\ HistoryKept /\ BacklogKept /\ LeftKept
      /\ \A u \in Transports : Reads(u) => StreamKept(u)
      /\ UNCHANGED <<watch, sock, shut, pending, conns, sent, state>>
      /\ Holds(t) /\ Live(t)
  BY DEF StreamInv, Concerns, ReadsOn
<1>2. tr'[t] = q /\ \A u \in Transports : u # t => tr'[u] = tr[u]
  BY DEF StrmInv, ShapeKept
<1>3. ASSUME NEW u \in Transports
      PROVE  /\ EndOf(u)' = EndOf(u) /\ (Reads(u)' <=> Reads(u)) /\ (Connected(u)' <=> Connected(u))
             /\ tr'[u].connected = tr[u].connected /\ (Usable(tr'[u]) <=> Usable(tr[u]))
  <2>1. CASE u = t
    <3>1. q.buf # None <=> Reads(t)
      BY BufferFacts DEF ReadsOn
    <3>. QED BY <1>1, <1>2, <2>1, <3>1 DEF EndOf, Reads, Connected, Usable, ReadsOn
  <2>2. CASE u # t
    BY <1>1, <1>2, <2>2 DEF EndOf, Reads, Connected, Usable
  <2>. QED BY <2>1, <2>2
<1>4. \A u \in Transports : u # t => ReadingStays(u)
  BY DEF ReadingStays, Reading, Runs, Concerns, ReadsOn
<1>5. ReadersKept'
  <2>1. ASSUME NEW u \in Transports, Reads(u)'
        PROVE  Usable(tr'[u]) /\ tr'[u].connected /\ Connected(u)' /\ Framed(tr'[u].buf)
    <3>1. Reads(u) /\ Usable(tr'[u]) /\ tr'[u].connected /\ Connected(u)' /\ Framed(tr[u].buf)
      BY <1>1, <1>3, <2>1 DEF ReadersKept
    <3>2. CASE u = t
      BY <1>2, <3>1, <3>2 DEF ReadsOn
    <3>3. CASE u # t
      BY <1>2, <3>1, <3>3
    <3>. QED BY <3>1, <3>2, <3>3
  <2>2. ASSUME NEW u \in Transports, Usable(tr'[u]), tr'[u].connected \/ Reading(u)'
        PROVE  Connected(u)'
    <3>1. CASE u = t
      BY <1>1, <1>3, <3>1 DEF Holds
    <3>2. CASE u # t
      BY <1>1, <1>3, <1>4, <2>2, <3>2 DEF ReadersKept, ReadingStays, Reading, Runs
    <3>. QED BY <3>1, <3>2
  <2>3. ASSUME NEW f \in Fd, watch'[f] # None, sock'[f] \in End PROVE tr'[watch'[f]].buf # None
    <3>1. watch'[f] = watch[f] /\ sock'[f] = sock[f] /\ watch[f] \in Transports
      BY <1>1, <2>3 DEF StrmInv, ShapeKept
    <3>. QED BY <1>1, <1>3, <2>3, <3>1 DEF ReadersKept, Reads
  <2>. QED BY <2>1, <2>2, <2>3 DEF ReadersKept, Reads
<1>6. EndsKept'
  BY <1>1 DEF EndsKept
<1>7. BacklogKept'
  <2>1. ASSUME NEW c \in Range(pending) PROVE Waits(<<c, "server">>)'
    <3>1. <<c, "server">> \in End /\ <<c, "server">> # EndOf(t)
      BY <1>1, OneHolder, BacklogEnds
    <3>2. PICK y \in End : y = <<c, "server">>
      BY <3>1
    <3>3. Waits(y) /\ y # EndOf(t)
      BY <1>1, <3>1, <3>2 DEF BacklogKept
    <3>4. pipe'[y] = pipe[y] /\ sent' = sent /\ got'[y] = got[y] /\ state' = state
      BY <1>1, <3>3 DEF Concerns, ReadsOn
    <3>5. Waits(y)'
      BY <3>3, <3>4 DEF Waits
    <3>. QED BY <3>2, <3>5 DEF Waits
  <2>. QED BY <1>1, <2>1 DEF BacklogKept
<1>8. LeftKept'
  BY <1>1, <1>3 DEF LeftKept
<1>9. ASSUME NEW u \in Transports, Reads(u)' PROVE StreamKept(u)'
  <2>1. CASE u = t
    <3>1. Reads(t)
      BY <1>3, <1>9, <2>1
    <3>. QED BY <2>1, <3>1 DEF ReadsOn
  <2>2. CASE u # t
    <3>1. Reads(u) /\ Holds(u) /\ StreamKept(u)
      BY <1>1, <1>3, <1>9, ReaderHolds
    <3>2. EndOf(u) \in End /\ EndOf(u) # EndOf(t)
      BY <1>1, <2>2, <3>1, OneHolder
    <3>3. /\ EndOf(u)' = EndOf(u) /\ tr'[u] = tr[u] /\ ReadingStays(u)
          /\ pipe'[EndOf(u)] = pipe[EndOf(u)] /\ got'[EndOf(u)] = got[EndOf(u)]
      BY <1>2, <1>3, <1>4, <2>2, <3>2 DEF Concerns, ReadsOn
    <3>. QED BY <1>1, <3>1, <3>3, StreamSame
  <2>. QED BY <2>1, <2>2
<1>. QED BY <1>5, <1>6, <1>7, <1>8, <1>9 DEF StreamInv

\* What iot_fragbuf_pull() made of the buffer of t, if t still has one.
PulledWell(t, p, hup) ==
  LET e == EndOf(t)
      k == Len(got[e]) + 1
  IN  \/ ~p.ok /\ p.buf = None /\ ~Reads(t) /\ state[e] # "open"
      \/ /\ Reads(t) /\ Framed(p.buf) /\ state[e] = "open"
         /\ Ahead(p.buf.data, pipe'[e], sent[e], k)
         /\ p.ok => k <= Len(sent[e]) /\ p.msg = sent[e][k] /\ Whole(p.buf.data)
         /\ hup => shut[Peer(e)] /\ pipe'[e] = <<>>
         /\ hup /\ ~p.ok => k = Len(sent[e]) + 1

(* The user gets the message, is told that the connection is closed, or    *)
(* neither.                                                                *)
LEMMA ReceiveKept ==
  ASSUME StrmInv, StreamInv, NEW t \in Transports, NEW r, Concerns(t, r), NEW p,
         NEW hup \in BOOLEAN, PulledWell(t, p, hup), Receive(t, r, p, hup)
  PROVE  StreamInv' /\ ChannelStep
<1> DEFINE e == EndOf(t)
           k == Len(got[e]) + 1
           b == p.buf
           d == [r EXCEPT !.buf = b]
<1>1. /\ ReadersKept /\ EndsKept /\ HistoryKept /\ Live(t) /\ Holds(t) /\ tr[t].sock \in Fd
      /\ e \in End /\ e[1] <= conns /\ \A c \in Range(pending) : e # <<c, "server">>
  BY OneHolder DEF StreamInv, Concerns
<1>2. /\ Shaped(d) /\ d.life = r.life /\ d.destroyed = r.destroyed
      /\ d.busy = 0 /\ d.sock = r.sock /\ d.connected = r.connected /\ d.buf = b
  <2>1. Shaped(r) /\ r.busy = 0
    BY DEF Concerns
  <2> HIDE DEF b
  <2>. QED BY <2>1, BufferOf
<1>3. /\ got[e] \in Seq(Message) /\ sent[e] \in Seq(Message) /\ Len(got[e]) \in Nat
      /\ Len(sent[e]) \in Nat /\ Len(got[e]) <= Len(sent[e])
      /\ \A i \in 1 .. Len(got[e]) : got[e][i] = sent[e][i]
  BY <1>1, LenProperties DEF HistoryKept
<1>4. Concerns(t, d) /\ (d.buf # None => d.connected)
  <2>1. b # None => Reads(t)
    BY DEF PulledWell
  <2>2. Reads(t) => tr[t].connected
    BY <1>1 DEF ReadersKept
  <2>3. d.buf # None => d.connected
    BY <1>2, <2>1, <2>2 DEF Concerns
  <2> HIDE DEF d
  <2>. QED BY <1>2, <2>3 DEF Concerns
<1> DEFINE Kept(q) == /\ q.life = tr[t].life /\ q.destroyed = tr[t].destroyed
                      /\ q.sock = tr[t].sock /\ q.connected = tr[t].connected /\ q.buf = b
<1>5. Kept(d)
  <2> HIDE DEF d, b
  <2>. QED BY <1>2 DEF Concerns
<1>6. CASE p.ok
  <2> DEFINE q == Enter(d)
  <2>1. Kept(q)
    <3> HIDE DEF d
    <3>. QED BY <1>2, <1>5, Entered
  <2>2. /\ tr' = [tr EXCEPT ![t] = q] /\ cur' = Callback(t, "recv", hup)
        /\ got' = [got EXCEPT ![e] = Append(got[e], p.msg)]
        /\ UNCHANGED <<watch, sock, shut, pending, conns, sent, state>>
    BY <1>6 DEF Receive
  <2> HIDE DEF q, d
  <2>3. /\ Reads(t) /\ Framed(b) /\ state[e] = "open" /\ Ahead(b.data, pipe'[e], sent[e], k)
        /\ k <= Len(sent[e]) /\ p.msg = sent[e][k] /\ Whole(b.data)
        /\ hup => shut[Peer(e)] /\ pipe'[e] = <<>>
    BY <1>6 DEF PulledWell
  <2> HIDE DEF b
  <2> DEFINE g == Append(got[e], sent[e][k])
  <2>4. sent[e][k] \in Message
    <3>1. k \in 1 .. Len(sent[e])
      BY <1>3, <2>3
    <3>. QED BY <1>3, <3>1, ElementOfSeq
  <2>5. /\ g \in Seq(Message) /\ Len(g) = k /\ g[k] = sent[e][k]
        /\ \A i \in 1 .. Len(got[e]) : g[i] = got[e][i]
    BY <1>3, <2>4, AppendProperties
  <2>6. got'[e] = g /\ \A x \in End : x # e => got'[x] = got[x]
    BY <1>1, <2>2, <2>3 DEF HistoryKept
  <2>7. got' \in [End -> Seq(Message)]
    <3> HIDE DEF g
    <3>1. got' = [got EXCEPT ![e] = g]
      BY <2>2, <2>3 DEF g
    <3>. QED BY <1>1, <2>5, <3>1 DEF HistoryKept
  <2> HIDE DEF g
  <2>8. HistoryKept'
    <3>1. ASSUME NEW x \in End
          PROVE  Len(got'[x]) <= Len(sent[x]) /\ \A i \in 1 .. Len(got'[x]) : got'[x][i] = sent[x][i]
      <4>1. CASE x = e
        <5>1. Len(g) <= Len(sent[e])
          BY <2>3, <2>5
        <5>2. \A i \in 1 .. Len(g) : g[i] = sent[e][i]
          <6>1. \A i \in 1 .. k : i = k \/ i \in 1 .. Len(got[e])
            BY <1>3
          <6>. QED BY <1>3, <2>5, <6>1
        <5>. QED BY <2>6, <4>1, <5>1, <5>2
      <4>2. CASE x # e
        BY <1>1, <2>6, <4>2 DEF HistoryKept
      <4>. QED BY <4>1, <4>2
    <3>2. \A x \in End : x[1] > conns => x # e
      <4>1. e[1] \in Nat /\ conns \in Nat
        BY <1>1, PeerFacts, StreamAssumption DEF StrmInv, ShapeKept
      <4>. QED BY <1>1, <4>1
    <3>3. pipe' \in [End -> Seq(Byte)] /\ \A x \in End : x # e => pipe'[x] = pipe[x]
      BY DEF Concerns
    <3>. QED BY <1>1, <2>2, <2>6, <2>7, <3>1, <3>2, <3>3 DEF HistoryKept
  <2>9. tr'[t] = q /\ EndOf(t)' = e
    <3>1. tr'[t] = q
      BY <2>2 DEF StrmInv, ShapeKept
    <3>. QED BY <2>1, <2>2, <3>1 DEF EndOf
  <2>10. StreamKept(t)'
    <3>1. Reading(t)' /\ cur'.hup = hup
      <4>1. cur'.t = t /\ cur'.at = "recv" /\ cur'.hup = hup
        BY <2>2 DEF Callback
      <4>2. cur' # None
        <5>1. Callback(t, "recv", hup) \in Callbacks
          BY DEF Callback, Callbacks
        <5>. QED BY <2>2, <5>1, NoneFacts
      <4>. QED BY <4>1, <4>2 DEF Reading, Runs
    <3>2. NextOf(t)' = k
      BY <2>5, <2>6, <2>9, <3>1 DEF NextOf
    <3>3. tr'[t].buf = b
      BY <2>1, <2>9
    <3>4. shut' = shut /\ sent' = sent /\ state' = state
      BY <2>2
    <3> HIDE DEF e, k
    <3>. QED BY <2>3, <2>9, <3>1, <3>2, <3>3, <3>4 DEF StreamKept
  <2>11. ReadsOn(t, q)
    <3>1. cur'.t = t
      BY <2>2 DEF Callback
    <3>. QED BY <2>1, <2>2, <2>3, <2>6, <2>10, <3>1 DEF ReadsOn
  <2>12. StreamInv'
    BY <2>2, <2>8, <2>11, ReadKept
  <2>13. ChannelStep
    <3>1. Users!Receive(e)
      <4>1. Len(got[e]) < Len(sent[e])
        BY <1>3, <2>3
      <4>. QED BY <2>2, <2>3, <4>1 DEF Users!Receive
    <3>. QED BY <1>1, <3>1 DEF Users!Next, ChannelStep
  <2>. QED BY <2>12, <2>13
<1>7. CASE ~p.ok /\ hup
  <2>1. Close(t, d, FALSE)
    BY <1>7 DEF Receive
  <2>2. state[e] # "open" \/ got[e] = sent[e]
    <3>1. CASE state[e] = "open"
      <4>1. Len(got[e]) + 1 = Len(sent[e]) + 1
        BY <1>7, <3>1 DEF PulledWell
      <4>2. Len(got[e]) = Len(sent[e])
        BY <1>3, <4>1
      <4>. QED BY <1>3, <4>2, SeqEqual
    <3>. QED BY <3>1
  <2> HIDE DEF d
  <2>. QED BY <1>4, <2>1, <2>2, CloseKept
<1>8. CASE ~p.ok /\ ~hup
  <2>1. /\ tr' = [tr EXCEPT ![t] = d] /\ cur' = None
        /\ UNCHANGED <<watch, sock, shut, pending, conns, sent, got, state>>
    BY <1>8 DEF Receive, historyVars
  <2> HIDE DEF d
  <2>2. HistoryKept'
    <3>1. \A x \in End : x[1] > conns => x # e
      <4>1. e[1] \in Nat /\ conns \in Nat
        BY <1>1, PeerFacts, StreamAssumption DEF StrmInv, ShapeKept
      <4>. QED BY <1>1, <4>1
    <3>2. pipe' \in [End -> Seq(Byte)] /\ \A x \in End : x # e => pipe'[x] = pipe[x]
      BY DEF Concerns
    <3>. QED BY <1>1, <2>1, <3>1, <3>2 DEF HistoryKept
  <2>3. tr'[t] = d /\ EndOf(t)' = e
    <3>1. tr'[t] = d
      BY <2>1 DEF StrmInv, ShapeKept
    <3>. QED BY <1>5, <2>1, <3>1 DEF EndOf
  <2>4. (b = None /\ ~Reads(t)) \/ (Framed(b) /\ Reads(t) /\ StreamKept(t)')
    <3>1. CASE Reads(t)
      <4>1. Framed(b) /\ state[e] = "open" /\ Ahead(b.data, pipe'[e], sent[e], k)
        BY <3>1 DEF PulledWell
      <4>2. ~Reading(t)'
        BY <2>1 DEF Reading, Runs
      <4>3. NextOf(t)' = k
        BY <2>1, <2>3, <4>2 DEF NextOf
      <4>4. tr'[t].buf = b
        BY <1>5, <2>3
      <4>5. shut' = shut /\ sent' = sent /\ state' = state
        BY <2>1
      <4> HIDE DEF e, k, b
      <4>. QED BY <2>3, <3>1, <4>1, <4>2, <4>3, <4>4, <4>5 DEF StreamKept
    <3>2. CASE ~Reads(t)
      BY <3>2 DEF PulledWell
    <3>. QED BY <3>1, <3>2
  <2> HIDE DEF b
  <2>5. ReadsOn(t, d)
    BY <1>5, <2>1, <2>4 DEF ReadsOn
  <2>6. StreamInv'
    BY <2>1, <2>2, <2>5, ReadKept
  <2>7. ChannelStep
    BY <2>1 DEF ChannelStep
  <2>. QED BY <2>6, <2>7
<1>. QED BY <1>6, <1>7, <1>8

(* The connection of a descriptor that is watched is read by its transport *)
(* and by no callback.                                                     *)
LEMMA WatchedReads ==
  ASSUME StrmInv, StreamInv, NEW f \in Fd, watch[f] # None, sock[f] \in End, cur = None,
         NEW t \in Transports, t = watch[f]
  PROVE  /\ Live(t) /\ Holds(t) /\ Shaped(tr[t]) /\ tr[t].busy = 0 /\ ~tr[t].destroyed
         /\ EndOf(t) = sock[f] /\ Reads(t) /\ tr[t].connected /\ Framed(tr[t].buf)
         /\ StreamKept(t) /\ NextOf(t) = Len(got[EndOf(t)]) + 1
<1>1. Live(t) /\ Shaped(tr[t]) /\ tr[t].busy = 0 /\ ~tr[t].destroyed /\ EndOf(t) = sock[f]
  BY Watched DEF EndOf
<1>2. Reads(t)
  BY DEF StreamInv, ReadersKept
<1>3. Holds(t) /\ tr[t].connected /\ Framed(tr[t].buf) /\ StreamKept(t)
  BY <1>2, ReaderHolds DEF StreamInv
<1>4. NextOf(t) = Len(got[EndOf(t)]) + 1
  BY DEF NextOf, Reading, Runs
<1>. QED BY <1>1, <1>2, <1>3, <1>4

(* What is read is appended to the buffer, and the first message pulled.   *)
LEMMA DataKept ==
  ASSUME StrmInv, StreamInv, NEW f \in Fd, DataEvent(f)
  PROVE  StreamInv' /\ ChannelStep
<1>0. PICK t \in Transports : t = watch[f]
  BY NoneFacts DEF DataEvent, StrmInv, ShapeKept
<1> DEFINE e == EndOf(t)
           w == pipe[e]
<1>1. /\ watch[f] # None /\ sock[f] \in End /\ cur = None
  BY <1>0 DEF DataEvent
<1>2. /\ Live(t) /\ Holds(t) /\ Shaped(tr[t]) /\ tr[t].busy = 0 /\ ~tr[t].destroyed
      /\ e = sock[f] /\ Reads(t) /\ tr[t].connected /\ Framed(tr[t].buf)
      /\ StreamKept(t) /\ NextOf(t) = Len(got[e]) + 1
  BY <1>0, <1>1, WatchedReads
<1> DEFINE Fill(n) == FragbufFill(tr[t].buf, n, SubSeq(w, 1, n))
           Pull(n) == FragbufPull(Fill(n), FALSE)
           rest(n) == SubSeq(w, n + 1, Len(w))
<1>3. PICK n \in 0 .. Len(w), hup \in BOOLEAN :
        /\ hup => shut[Peer(e)] /\ n = Len(w)
        /\ pipe' = [pipe EXCEPT ![e] = rest(n)]
        /\ Receive(t, tr[t], Pull(n), hup)
  BY <1>0, <1>2, ZenonT(60) DEF DataEvent
<1> DEFINE b == Fill(n)
           p == Pull(n)
           k == Len(got[e]) + 1
           v == rest(n)
<1>4. e \in End /\ w \in Seq(Byte) /\ n \in Nat
  BY <1>1, <1>2, LenProperties DEF StreamInv, HistoryKept
<1>5. /\ Ahead(tr[t].buf.data, w, sent[e], k) /\ state[e] = "open"
  BY <1>2 DEF StreamKept
<1> DEFINE c == tr[t].buf
<1>6. /\ SubSeq(w, 1, n) \in Seq(Byte) /\ Ahead(c.data \o SubSeq(w, 1, n), v, sent[e], k)
      /\ n = Len(w) => v = <<>>
  <2> HIDE DEF w, k
  <2>. QED BY <1>5, AheadFacts
<1>7. Framed(b) /\ b.data = c.data \o SubSeq(w, 1, n)
  <2> HIDE DEF w
  <2>. QED BY <1>2, <1>4, <1>6, BufferFacts
<1>8. Framed(b) /\ Ahead(b.data, v, sent[e], k)
  BY <1>6, <1>7
<1>9. pipe' = [pipe EXCEPT ![e] = v] /\ v \in Seq(Byte)
  BY <1>3, <1>8 DEF Ahead
<1>10. pipe'[e] = v /\ pipe' \in [End -> Seq(Byte)] /\ \A x \in End : x # e => pipe'[x] = pipe[x]
  <2> HIDE DEF v
  <2>. QED BY <1>4, <1>9 DEF StreamInv, HistoryKept
<1>11. Receive(t, tr[t], p, hup) /\ (hup => shut[Peer(e)] /\ n = Len(w))
  BY <1>3
<1>12. Finds(p, v, sent[e], k)
  <2>1. p = FragbufPull(b, FALSE)
    OBVIOUS
  <2> HIDE DEF b, v, k, p
  <2>. QED BY <1>8, <2>1, PullStart
<1> HIDE DEF b, p, v, w
<1>13. PulledWell(t, p, hup)
  BY <1>2, <1>5, <1>6, <1>8, <1>10, <1>11, <1>12 DEF PulledWell, Finds
<1>14. Concerns(t, tr[t])
  BY <1>1, <1>2, <1>10 DEF Concerns
<1>. QED BY <1>11, <1>13, <1>14, ReceiveKept

(* An error ends the connection.                                           *)
LEMMA ErrorKept ==
  ASSUME StrmInv, StreamInv, NEW f \in Fd, ErrorEvent(f)
  PROVE  StreamInv' /\ ChannelStep
<1>0. PICK t \in Transports : t = watch[f]
  BY NoneFacts DEF ErrorEvent, StrmInv, ShapeKept
<1>1. /\ watch[f] # None /\ sock[f] \in End /\ cur = None /\ pipe' = pipe
      /\ Close(t, tr[t], TRUE)
  BY <1>0 DEF ErrorEvent
<1>2. /\ Live(t) /\ Holds(t) /\ Shaped(tr[t]) /\ tr[t].busy = 0 /\ ~tr[t].destroyed
      /\ tr[t].connected
  BY <1>0, <1>1, WatchedReads
<1>3. Concerns(t, tr[t])
  BY <1>1, <1>2 DEF Concerns, StreamInv, HistoryKept
<1>. QED BY <1>1, <1>2, <1>3, CloseKept

(* The receive callback returns, and the next message is pulled.           *)
LEMMA RecvReturnKept ==
  ASSUME StrmInv, StreamInv, RecvReturn
  PROVE  StreamInv' /\ ChannelStep
<1>0. PICK t \in Transports : t = cur.t
  BY Returned DEF RecvReturn
<1> DEFINE r == CheckDestroy(tr[t])
           q == Leave(tr[t])
<1>1. /\ cur # None /\ cur.at = "recv" /\ Live(t) /\ Shaped(q) /\ q.busy = 0
      /\ q.life = tr[t].life /\ q.destroyed = tr[t].destroyed /\ q.sock = tr[t].sock
      /\ q.connected = tr[t].connected /\ q.buf = tr[t].buf
      /\ r = IF tr[t].destroyed THEN Freed ELSE q
  BY <1>0, Returned DEF RecvReturn
<1> HIDE DEF q
<1>2. CASE tr[t].destroyed
  <2>1. r.life = "freed"
    BY <1>1, <1>2, OpenedShaped
  <2>2. tr' = [tr EXCEPT ![t] = CheckDestroy(@)] /\ cur' = None
        /\ UNCHANGED <<watch, netVars, historyVars>>
    BY <1>0, <2>1 DEF RecvReturn
  <2>. QED BY <1>0, <1>1, <1>2, <2>2, ReturnedKept
<1>3. CASE ~tr[t].destroyed
  <2> DEFINE e == EndOf(t)
             d == tr[t].buf
             p == IF d = None THEN NotPulled(None) ELSE FragbufPull(d, TRUE)
             hup == cur.hup
  <2>1. r = q /\ q.life # "freed"
    BY <1>1, <1>3 DEF Live
  <2>2. Receive(t, q, p, hup) /\ pipe' = pipe
    BY <1>0, <1>1, <2>1 DEF RecvReturn
  <2>3. hup \in BOOLEAN
    BY <1>1 DEF StrmInv, ShapeKept, Callbacks
  <2>4. /\ ReadersKept /\ HistoryKept /\ LeftKept /\ Usable(tr[t]) /\ Reading(t)
        /\ pipe \in [End -> Seq(Byte)]
    BY <1>0, <1>1, <1>3 DEF StreamInv, HistoryKept, Usable, Live, Reading, Runs
  <2>5. Holds(t)
    BY <2>4 DEF ReadersKept, Holds
  <2>6. Concerns(t, q)
    BY <1>0, <1>1, <1>3, <2>2, <2>4, <2>5 DEF Concerns
  <2>7. CASE ~Reads(t)
    <3>1. p = NotPulled(None)
      BY <2>7 DEF Reads
    <3>2. ~p.ok /\ p.buf = None
      BY <3>1, PulledFields
    <3>3. state[e] # "open"
      BY <2>4, <2>5, <2>7 DEF LeftKept, Holds
    <3> HIDE DEF p, hup
    <3>4. PulledWell(t, p, hup)
      BY <2>7, <3>2, <3>3 DEF PulledWell
    <3>. QED BY <2>2, <2>3, <2>6, <3>4, ReceiveKept
  <2>8. CASE Reads(t)
    <3> DEFINE n == Len(got[e])
    <3>1. /\ Framed(d) /\ state[e] = "open" /\ Ahead(d.data, pipe[e], sent[e], n)
          /\ Whole(d.data) /\ (hup => pipe[e] = <<>> /\ shut[Peer(e)])
      BY <2>4, <2>8 DEF ReadersKept, StreamInv, StreamKept, NextOf
    <3>2. n \in Nat /\ n <= Len(sent[e])
      <4>1. e \in End
        BY <2>5 DEF Holds, Connected
      <4>. QED BY <2>4, <4>1, LenProperties DEF HistoryKept
    <3>3. p = FragbufPull(d, TRUE)
      BY <2>8 DEF Reads
    <3> DEFINE u == pipe[e]
               ms == sent[e]
    <3>4. Finds(p, u, ms, n + 1)
      <4>1. Framed(d) /\ Ahead(d.data, u, ms, n) /\ n <= Len(ms) /\ Whole(d.data)
        BY <3>1, <3>2
      <4> HIDE DEF u, ms, n, p, d
      <4>. QED BY <3>3, <4>1, PullNext
    <3> HIDE DEF p, hup
    <3>5. PulledWell(t, p, hup)
      BY <2>2, <2>8, <3>1, <3>4 DEF PulledWell, Finds
    <3>. QED BY <2>2, <2>3, <2>6, <3>5, ReceiveKept
  <2>. QED BY <2>7, <2>8
<1>. QED BY <1>2, <1>3

-----------------------------------------------------------------------------
\* The theorems about what users send and are given.

(* Every request of a user, and every event and return of a callback.      *)
LEMMA StreamStep ==
  ASSUME StrmInv, StreamInv, BuffersSuffice, [StrmNext]_strmVars
  PROVE  StreamInv' /\ ChannelStep
<1>1. ASSUME NEW t \in Transports, Request(t)
      PROVE  StreamInv' /\ ChannelStep
  <2>1. CASE IotTransportCreate(t)
    BY <2>1, CreateKept
  <2>2. CASE StrmListen(t)
    BY <2>2, ListenKept
  <2>3. CASE StrmConnect(t)
    BY <2>3, ConnectKept
  <2>4. CASE StrmAccept(t)
    BY <2>4, AcceptKept
  <2>5. ASSUME NEW m \in Message, StrmSendjson(t, m)
        PROVE  StreamInv' /\ ChannelStep
    BY <2>5, SendKept
  <2>6. CASE IotTransportDisconnect(t)
    BY <2>6, DisconnectKept
  <2>7. CASE IotTransportDestroy(t)
    BY <2>7, DestroyKept
  <2>. QED BY <1>1, <2>1, <2>2, <2>3, <2>4, <2>5, <2>6, <2>7 DEF Request
<1>2. CASE IotRejectConnection
  BY <1>2, RejectKept
<1>3. ASSUME NEW f \in Fd, ConnectionEvent(f) \/ DataEvent(f) \/ ErrorEvent(f)
      PROVE  StreamInv' /\ ChannelStep
  BY <1>3, ConnectionKept, DataKept, ErrorKept
<1>4. CASE CallbackReturn
  <2>1. cur # None /\ (cur.at # "recv" \/ tr[cur.t].destroyed)
    BY <1>4 DEF CallbackReturn
  <2>. QED BY <1>4, <2>1, ReturnedKept DEF CallbackReturn
<1>5. CASE RecvReturn
  BY <1>5, RecvReturnKept
<1>6. CASE UNCHANGED strmVars
  <2>1. /\ UNCHANGED <<tr, watch, sock, pipe, shut, pending, conns, cur, sent, got, state>>
    BY <1>6 DEF strmVars, netVars, historyVars
  <2>2. ReadersKept' /\ EndsKept' /\ HistoryKept' /\ LeftKept' /\ BacklogKept'
    BY <2>1 DEF StreamInv, ReadersKept, EndsKept, HistoryKept, LeftKept, BacklogKept, Waits,
                Reads, Reading, Runs, Connected, EndOf
  <2>3. ASSUME NEW t \in Transports, Reads(t)' PROVE StreamKept(t)'
    <3>1. StreamKept(t) /\ EndOf(t)' = EndOf(t) /\ ReadingStays(t)
      BY <2>1, <2>3 DEF StreamInv, Reads, EndOf, ReadingStays
    <3>. QED BY <2>1, <3>1, StreamSame
  <2>. QED BY <2>1, <2>2, <2>3 DEF StreamInv, ChannelStep
<1>. QED BY <1>1, <1>2, <1>3, <1>4, <1>5, <1>6 DEF StrmNext

(* At first nothing is connected, and nothing has been sent.               *)
LEMMA StreamStart == StrmInit => StreamInv /\ Users!Init
<1> SUFFICES ASSUME StrmInit PROVE StreamInv /\ Users!Init
  OBVIOUS
<1>1. \A t \in Transports : tr[t].buf = None /\ ~Usable(tr[t])
  BY OpenedShaped DEF StrmInit, Usable
<1>2. ReadersKept /\ LeftKept
  BY <1>1 DEF StrmInit, ReadersKept, LeftKept, Reads
<1>3. Range(pending) = {} /\ IsInjective(pending)
  <2>1. DOMAIN <<>> = {}
    BY EmptySeq
  <2>. QED BY <2>1 DEF StrmInit, Range, IsInjective
<1>4. EndsKept
  BY <1>3, NoneFacts DEF StrmInit, EndsKept
<1>5. HistoryKept
  <2>1. <<>> \in Seq(Byte) /\ <<>> \in Seq(Message) /\ Len(<<>>) = 0
    OBVIOUS
  <2>2. \A e \in End : Len(got[e]) = 0 /\ Len(sent[e]) = 0
    BY <2>1 DEF StrmInit
  <2>. QED BY <2>1, <2>2 DEF StrmInit, HistoryKept
<1>6. BacklogKept /\ \A t \in Transports : ~Reads(t)
  BY <1>1, <1>3 DEF BacklogKept, Reads
<1>7. Users!Init
  BY DEF StrmInit, Users!Init
<1>. QED BY <1>2, <1>4, <1>5, <1>6, <1>7 DEF StreamInv

(* As long as no write is cut short, every connection is read from its one *)
(* end, and every message that was sent to it is given to its user, in the *)
(* buffer, or on the way, in the order in which they were sent.            *)
THEOREM StreamInvariant == StrmSpec /\ []BuffersSuffice => [](StrmInv /\ StreamInv)
<1>1. StrmInit => StrmInv /\ StreamInv
  BY InitStep, StreamStart
<1>2. StrmInv /\ StreamInv /\ BuffersSuffice /\ [StrmNext]_strmVars => (StrmInv /\ StreamInv)'
  BY NextStep, StreamStep
<1>. QED BY <1>1, <1>2, PTL DEF StrmSpec

(* However the bytes were cut into pieces and whichever messages were      *)
(* pulled so far, the buffer of a connection and the bytes on the way to   *)
(* it are, framed, exactly the messages its user has not been given: as    *)
(* long as no write is cut short.                                          *)
THEOREM StreamIntactCorrect == StrmSpec /\ []BuffersSuffice => []StreamIntact
<1>1. StreamInv => StreamIntact
  <2> SUFFICES ASSUME StreamInv, NEW t \in Transports, tr[t].buf # None
               PROVE  tr[t].buf.data \o pipe[EndOf(t)] = Frames(Undelivered(t))
    BY DEF StreamIntact
  <2>1. StreamKept(t)
    BY DEF StreamInv, Reads
  <2>2. tr[t].buf.data \o pipe[EndOf(t)] = FromMessage(sent[EndOf(t)], NextOf(t))
    BY <2>1 DEF StreamKept, Ahead
  <2>3. Undelivered(t) = SubSeq(sent[EndOf(t)], NextOf(t), Len(sent[EndOf(t)]))
    BY DEF Undelivered, NextOf, Reading, Runs
  <2>. QED BY <2>2, <2>3 DEF FromMessage
<1>. QED BY <1>1, StreamInvariant, PTL

(* A stream transport is the channel its users take it for: every step of  *)
(* it is a step of Channel or leaves what users see as it is, as long as   *)
(* no write is cut short.                                                  *)
THEOREM ChannelRefined == StrmSpec /\ []BuffersSuffice => ImplementsChannel
<1>1. StrmInit => Users!Init
  BY StreamStart
<1>2. StrmInv /\ StreamInv /\ BuffersSuffice /\ [StrmNext]_strmVars
        => [Users!Next]_<<sent, got, state>>
  BY StreamStep DEF ChannelStep
<1>3. StrmSpec /\ []BuffersSuffice => Users!Init /\ [][Users!Next]_<<sent, got, state>>
  BY <1>1, <1>2, StreamInvariant, PTL DEF StrmSpec
<1>. QED BY <1>3 DEF ImplementsChannel, Users!Spec
=============================================================================
