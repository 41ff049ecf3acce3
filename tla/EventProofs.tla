---------------------------- MODULE EventProofs ----------------------------
(***************************************************************************)
(* What is proved of event routing and of the library's queues: that every *)
(* request is called back at most once and in order, that a queue and the  *)
(* unread answers agree, that nobody gets an event it did not ask for, and *)
(* that a confirmed subscriber does not miss one.                          *)
(*                                                                         *)
(* The argument is in four layers, each inductive given those before it.   *)
(* QueueInv relates a context's queue to the connection it waits on; the   *)
(* status a context reads is therefore that of its first request.  AskInv  *)
(* says that bits and events on a connection were asked for.  SubInv says  *)
(* that an answered subscription is in the client's mask, which needs to   *)
(* know which request a status answers.  OweInv says where an event is     *)
(* that a subscriber was promised, which needs the mask to have its bit.   *)
(***************************************************************************)
EXTENDS EventSystem, SeqFacts


-----------------------------------------------------------------------------
(* client_subscribe() registers its names one after the other.             *)
RegisteredBy(known, names, h) ==
  /\ h[0] = known /\ FoldLeft(EventRegister, known, names) = h[Len(names)]
  /\ \A i \in 1 .. Len(names) : h[i] = EventRegister(h[i - 1], names[i])

(* The fold over the names goes through the registries in between.         *)
LEMMA RegisterUnrolled ==
  ASSUME NEW known \in Seq(Event), NEW names \in Seq(Event)
  PROVE  \E h : RegisteredBy(known, names, h)
<1> DEFINE n == Len(names)
           Iter(f) == f = [D \in SUBSET (1 .. n) |->
                             IF D = {} THEN known
                             ELSE EventRegister(f[D \ {Max(D)}], names[Max(D)])]
           step == [i \in 1 .. n |-> [k \in Seq(Event) |-> EventRegister(k, names[i])]]
<1>1. n \in Nat /\ DOMAIN names = 1 .. n /\ \A i \in 1 .. n : names[i] \in Event
  BY LenProperties, ElementOfSeq
<1>2. step \in [1 .. n -> [Seq(Event) -> Seq(Event)]]
  BY <1>1, AppendProperties DEF EventRegister
<1>3. PICK f \in [SUBSET (1 .. n) -> Seq(Event)] : FoldedBy(n, known, step, f)
  <2> HIDE DEF step, n
  <2>. QED BY <1>1, <1>2, FoldExists
<1>4. Iter(f)
  <2>1. ASSUME NEW D \in SUBSET (1 .. n), D # {}
        PROVE  f[D] = EventRegister(f[D \ {Max(D)}], names[Max(D)])
    <3>1. Max(D) \in 1 .. n /\ f[D \ {Max(D)}] \in Seq(Event)
      BY <1>1, <2>1, MaxInSet
    <3>2. f[D] = step[Max(D)][f[D \ {Max(D)}]]
      BY <1>3, <2>1 DEF FoldedBy
    <3>. QED BY <3>1, <3>2
  <2>2. f[{}] = known
    BY <1>3 DEF FoldedBy
  <2>. QED BY <2>1, <2>2
<1> DEFINE it == CHOOSE g : Iter(g)
           h == [i \in 0 .. n |-> it[1 .. i]]
<1>5. FoldLeft(EventRegister, known, names) = it[1 .. n]
  BY <1>1, Zenon DEF FoldLeft, MapThenFoldSet
<1>6. it = [D \in SUBSET (1 .. n) |->
              IF D = {} THEN known ELSE EventRegister(it[D \ {Max(D)}], names[Max(D)])]
  BY <1>4, Zenon
<1> HIDE DEF it, n
<1>7. h[0] = known /\ h[n] = FoldLeft(EventRegister, known, names)
  <2>1. 1 .. 0 = {} /\ {} \in SUBSET (1 .. n)
    OBVIOUS
  <2>2. it[1 .. 0] = known
    BY <1>6, <2>1
  <2>. QED BY <1>1, <1>5, <2>2
<1>8. ASSUME NEW i \in 1 .. n PROVE h[i] = EventRegister(h[i - 1], names[i])
  <2>1. it[1 .. i] = EventRegister(it[1 .. (i - 1)], names[i])
    <3>1. /\ 1 .. i \in SUBSET (1 .. n) /\ 1 .. i # {} /\ Max(1 .. i) = i
          /\ (1 .. i) \ {i} = 1 .. (i - 1)
      BY <1>1, FirstPlaces
    <3>. QED BY <1>6, <3>1
  <2>2. i \in 0 .. n /\ i - 1 \in 0 .. n
    BY <1>1
  <2>. QED BY <2>1, <2>2
<1>9. RegisteredBy(known, names, h)
  BY <1>7, <1>8 DEF n, RegisteredBy
<1>. QED BY <1>9

(* The registry only grows, at its end, by the names that are subscribed   *)
(* to, and leaves one out only when it is full.                            *)
Extends(k, known) ==
  /\ k \in Seq(Event) /\ Len(known) <= Len(k)
  /\ \A i \in 1 .. Len(known) : k[i] = known[i]

(* Registering names keeps the registry's order, its size limit and that   *)
(* no name is in it twice; all names are in it unless it is full.          *)
LEMMA RegisterFacts ==
  ASSUME NEW known \in Seq(Event), NEW names \in Seq(Event),
         IsInjective(known), Len(known) <= MaxEvents
  PROVE  LET k == FoldLeft(EventRegister, known, names)
         IN  /\ Extends(k, known) /\ IsInjective(k) /\ Len(k) <= MaxEvents
             /\ Range(k) \subseteq Range(known) \cup Range(names)
             /\ Range(names) \subseteq Range(k) \/ Len(k) = MaxEvents
<1> DEFINE n == Len(names)
<1>1. n \in Nat /\ DOMAIN names = 1 .. n /\ \A i \in 1 .. n : names[i] \in Event
  BY LenProperties, ElementOfSeq
<1>2. PICK h : RegisteredBy(known, names, h)
  BY RegisterUnrolled
<1> DEFINE Sound(i) == /\ Extends(h[i], known) /\ IsInjective(h[i]) /\ Len(h[i]) <= MaxEvents
                       /\ Range(h[i]) \subseteq Range(known) \cup Range(names)
                       /\ \/ \A j \in 1 .. i : names[j] \in Range(h[i])
                          \/ Len(h[i]) = MaxEvents
           Good == {i \in Nat : i <= n => Sound(i)}
<1>3. 0 \in Good
  <2>1. h[0] = known /\ Len(known) \in Nat
    BY <1>2, LenProperties DEF RegisteredBy
  <2>. QED BY <2>1 DEF Extends
<1>4. ASSUME NEW i \in Good PROVE i + 1 \in Good
  <2>1. CASE i + 1 <= n
    <3>1. i + 1 \in 1 .. n /\ (i + 1) - 1 = i /\ i \in Nat /\ Sound(i)
      BY <1>1, <2>1
    <3>2. h[i + 1] = EventRegister(h[i], names[i + 1]) /\ names[i + 1] \in Event
      BY <1>1, <1>2, <3>1 DEF RegisteredBy
    <3>3. Len(h[i]) \in Nat /\ MaxEvents \in Nat /\ Len(known) \in Nat
      BY <3>1, LenProperties, EventRouterAssumption DEF Extends
    <3> HIDE DEF n
    <3>4. CASE h[i + 1] = h[i] /\ (names[i + 1] \in Range(h[i]) \/ Len(h[i]) >= MaxEvents)
      <4>1. \A j \in 1 .. i + 1 : j \in 1 .. i \/ j = i + 1
        BY <3>1
      <4>. QED BY <3>1, <3>3, <3>4, <4>1
    <3>5. CASE /\ h[i + 1] = Append(h[i], names[i + 1])
               /\ names[i + 1] \notin Range(h[i]) /\ Len(h[i]) < MaxEvents
      <4>1. /\ h[i + 1] \in Seq(Event) /\ Range(h[i + 1]) = Range(h[i]) \cup {names[i + 1]}
            /\ IsInjective(h[i + 1])
        BY <3>1, <3>2, <3>5, AppendFacts DEF Extends
      <4>2. /\ Len(h[i + 1]) = Len(h[i]) + 1
            /\ \A j \in 1 .. Len(h[i]) : h[i + 1][j] = h[i][j]
        BY <3>1, <3>2, <3>5, AppendProperties DEF Extends
      <4>3. Extends(h[i + 1], known) /\ Len(h[i + 1]) <= MaxEvents
        BY <3>1, <3>3, <3>5, <4>1, <4>2 DEF Extends
      <4>4. \A j \in 1 .. i + 1 : j \in 1 .. i \/ j = i + 1
        BY <3>1
      <4>5. \A j \in 1 .. i + 1 : names[j] \in Range(h[i + 1])
        <5>1. \A j \in 1 .. i : names[j] \in Range(h[i])
          BY <3>1, <3>3, <3>5
        <5>. QED BY <4>1, <4>4, <5>1
      <4>6. names[i + 1] \in Range(names)
        BY <1>1, <3>1 DEF Range, n
      <4>7. Range(h[i + 1]) \subseteq Range(known) \cup Range(names)
        BY <3>1, <4>1, <4>6
      <4>. QED BY <3>1, <4>1, <4>3, <4>5, <4>7
    <3>. QED BY <3>2, <3>3, <3>4, <3>5 DEF EventRegister
  <2>. QED BY <2>1
<1>5. Good = Nat
  <2>1. Good \in SUBSET Nat
    OBVIOUS
  <2> HIDE DEF Good
  <2>. QED BY <1>3, <1>4, <2>1, UpFromZero
<1>6. Sound(n)
  <2>1. n \in Good /\ n <= n
    <3> HIDE DEF Good
    <3>. QED BY <1>1, <1>5
  <2> HIDE DEF Sound
  <2>. QED BY <2>1
<1>7. FoldLeft(EventRegister, known, names) = h[n]
  BY <1>2 DEF RegisteredBy
<1>8. Range(names) \subseteq Range(h[n]) \/ Len(h[n]) = MaxEvents
  <2>1. ASSUME NEW e \in Range(names) PROVE \E j \in 1 .. n : e = names[j]
    BY <1>1 DEF Range
  <2> HIDE DEF n
  <2>. QED BY <1>6, <2>1
<1> HIDE DEF n
<1>. QED BY <1>6, <1>7, <1>8

-----------------------------------------------------------------------------
(* Connections and queues.  A connection has one context at its end, whose *)
(* queue holds what the daemon answered but was not read yet, then, while  *)
(* the connection lasts, exactly what the daemon did not get to.           *)
Links ==
  /\ \A p, q \in Ctx : link[p] = link[q] /\ link[p] # NoConn => p = q
  /\ \A p \in Ctx : link[p] \in Open => id[link[p]] = Ident[p]
  /\ \A p \in Ctx : link[p] = NoConn => pendq[p] = <<>>

Answers(p) == Keep(out[link[p]], Replies)

Agree(p) ==
  /\ Len(Answers(p)) <= Len(pendq[p])
  /\ \A i \in 1 .. Len(Answers(p)) : Answers(p)[i].seqno = pendq[p][i].seqno
  /\ link[p] \in Open =>
       /\ Len(pendq[p]) = Len(Answers(p)) + Len(inq[link[p]])
       /\ \A i \in 1 .. Len(inq[link[p]]) :
            inq[link[p]][i] = pendq[p][Len(Answers(p)) + i]

AnsweredFirst == \A p \in Ctx : link[p] # NoConn => Agree(p)

(* Every number a context was called back for, then those it waits for.    *)
Numbers(p) == notified[p] \o Seqnos(pendq[p])

NumbersUsed == \A p \in Ctx : \A i \in DOMAIN Numbers(p) : Numbers(p)[i] < seqno[p]

QueueInv == TypeOK /\ Links /\ AnsweredFirst /\ CallbacksInOrder /\ NumbersUsed

(* The requests the library composes are requests, with the number they    *)
(* were given.                                                             *)
LEMMA RequestsTyped ==
  /\ \A r \in Requests : r.seqno \in 1 .. MaxSeq
  /\ \A s \in 1 .. MaxSeq :
       /\ ListReq(s) \in Requests /\ ListReq(s).seqno = s /\ ListReq(s).type = "list"
       /\ \A names \in Subscribed :
            /\ SubscribeReq(s, names) \in Requests /\ SubscribeReq(s, names).seqno = s
       /\ \A et \in Sent, p \in Ctx :
            LET r == SendReq(s, et[1], et[2], [from |-> p, seqno |-> s, to |-> et[2]])
            IN  r \in Requests /\ r.seqno = s
<1>1. ASSUME NEW r \in Requests PROVE r.seqno \in 1 .. MaxSeq
  <2>1. CASE \E s \in 1 .. MaxSeq, names \in Subscribed : r = SubscribeReq(s, names)
    BY <2>1 DEF SubscribeReq
  <2>2. CASE \E s \in 1 .. MaxSeq, et \in Sent, p \in Ctx :
               r = SendReq(s, et[1], et[2], [from |-> p, seqno |-> s, to |-> et[2]])
    BY <2>2 DEF SendReq
  <2>3. CASE \E s \in 1 .. MaxSeq : r = ListReq(s)
    BY <2>3 DEF ListReq
  <2>. QED BY <2>1, <2>2, <2>3 DEF Requests
<1>2. ASSUME NEW s \in 1 .. MaxSeq
      PROVE  ListReq(s) \in Requests /\ ListReq(s).seqno = s /\ ListReq(s).type = "list"
  BY DEF Requests, ListReq
<1>3. ASSUME NEW s \in 1 .. MaxSeq, NEW names \in Subscribed
      PROVE  SubscribeReq(s, names) \in Requests /\ SubscribeReq(s, names).seqno = s
  <2>1. SubscribeReq(s, names).seqno = s
    BY DEF SubscribeReq
  <2>. QED BY <2>1 DEF Requests
<1>4. ASSUME NEW s \in 1 .. MaxSeq, NEW et \in Sent, NEW p \in Ctx
      PROVE  LET r == SendReq(s, et[1], et[2], [from |-> p, seqno |-> s, to |-> et[2]])
             IN  r \in Requests /\ r.seqno = s
  <2>1. SendReq(s, et[1], et[2], [from |-> p, seqno |-> s, to |-> et[2]]).seqno = s
    BY DEF SendReq
  <2>. QED BY <2>1 DEF Requests
<1>. QED BY <1>1, <1>2, <1>3, <1>4

(* There are three kinds of request.                                       *)
LEMMA RequestKinds ==
  ASSUME NEW r \in Requests
  PROVE  /\ r.type \in {"subscribe-events", "send-event", "list"}
         /\ r.type = "subscribe-events" => r.events \in Seq(Event)
         /\ r.type = "send-event" => /\ r.event \in Event /\ r.target \in Target
                                     /\ r.data \in Payloads
BY EventSystemAssumption DEF Requests, ListReq, SubscribeReq, SendReq, Payloads

(* A message is an event or the status of a request, never both.           *)
LEMMA MessagesTyped ==
  /\ \A m \in Messages : /\ m.type \in {"status", "event"}
                         /\ m \in Replies <=> m.type = "status"
                         /\ m.type = "event" => m.event \in Event /\ m.data \in Payloads
  /\ \A m \in Replies : m.seqno \in 1 .. MaxSeq /\ m \in Messages /\ m.type = "status"
  /\ \A e \in Event, d \in Payloads :
       /\ EventMsg(e, d) \in Messages /\ EventMsg(e, d) \notin Replies
       /\ EventMsg(e, d).type = "event" /\ EventMsg(e, d).event = e
       /\ EventMsg(e, d).data = d
  /\ \A r \in Requests, s \in {"0", "EINVAL", "EPERM"} :
       Status(r, s) \in Replies /\ Status(r, s).seqno = r.seqno /\ Status(r, s).status = s
<1>1. \A r \in Requests, s \in {"0", "EINVAL", "EPERM"} :
        Status(r, s) \in Replies /\ Status(r, s).seqno = r.seqno /\ Status(r, s).status = s
  BY RequestsTyped DEF Status, Replies
<1>. QED BY <1>1 DEF Messages, Replies, EventMsg

(* The parts of the type invariant, for the steps below to cite.           *)
LEMMA Shape ==
  ASSUME TypeOK
  PROVE  /\ NoConn \notin Conn /\ Open \subseteq Conn /\ Range(clients) \subseteq Conn
         /\ \A p \in Ctx : /\ link[p] \in Conn \cup {NoConn} /\ pendq[p] \in Seq(Requests)
                           /\ notified[p] \in Seq(1 .. MaxSeq)
                           /\ seqno[p] \in 1 .. MaxSeq + 1
         /\ \A c \in Conn : inq[c] \in Seq(Requests) /\ out[c] \in Seq(Messages)
         /\ MaxSeq \in Nat
BY EventSystemAssumption, RangeOfSeq DEF TypeOK, Open

(* Sequence numbers of a queue.                                            *)
LEMMA SeqnosFacts ==
  ASSUME NEW s \in Seq(Requests)
  PROVE  /\ Seqnos(s) \in Seq(1 .. MaxSeq) /\ Len(Seqnos(s)) = Len(s)
         /\ \A i \in 1 .. Len(s) : Seqnos(s)[i] = s[i].seqno
         /\ \A r \in Requests : Seqnos(Append(s, r)) = Append(Seqnos(s), r.seqno)
         /\ s # <<>> => /\ Seqnos(s) = <<Head(s).seqno>> \o Seqnos(Tail(s))
                        /\ Seqnos(<<Head(s)>>) = <<Head(s).seqno>>
<1>1. Len(s) \in Nat /\ DOMAIN s = 1 .. Len(s) /\ \A i \in 1 .. Len(s) : s[i] \in Requests
  BY LenProperties, ElementOfSeq
<1>2. /\ Seqnos(s) \in Seq(1 .. MaxSeq) /\ Len(Seqnos(s)) = Len(s)
      /\ \A i \in 1 .. Len(s) : Seqnos(s)[i] = s[i].seqno
  BY <1>1, RequestsTyped DEF Seqnos
<1>3. ASSUME NEW r \in Requests PROVE Seqnos(Append(s, r)) = Append(Seqnos(s), r.seqno)
  <2> DEFINE t == Append(s, r)
  <2>1. /\ t \in Seq(Requests) /\ Len(t) = Len(s) + 1 /\ t[Len(s) + 1] = r
        /\ \A i \in 1 .. Len(s) : t[i] = s[i]
    BY AppendProperties, <1>1
  <2>2. DOMAIN t = 1 .. Len(s) + 1
    BY <2>1, LenProperties
  <2>3. r.seqno \in 1 .. MaxSeq
    BY RequestsTyped
  <2>4. /\ Append(Seqnos(s), r.seqno) \in Seq(1 .. MaxSeq)
        /\ Len(Append(Seqnos(s), r.seqno)) = Len(s) + 1
        /\ \A i \in 1 .. Len(s) : Append(Seqnos(s), r.seqno)[i] = s[i].seqno
        /\ Append(Seqnos(s), r.seqno)[Len(s) + 1] = r.seqno
    BY <1>1, <1>2, <2>3, AppendProperties
  <2> HIDE DEF t
  <2>5. /\ Seqnos(t) \in Seq(1 .. MaxSeq) /\ Len(Seqnos(t)) = Len(s) + 1
        /\ \A i \in 1 .. Len(s) + 1 : Seqnos(t)[i] = t[i].seqno
    <3>1. \A i \in 1 .. Len(s) + 1 : t[i] \in Requests
      BY <2>1, ElementOfSeq
    <3>. QED BY <1>1, <2>2, <3>1, RequestsTyped DEF Seqnos
  <2>6. \A i \in 1 .. Len(s) + 1 : Seqnos(t)[i] = Append(Seqnos(s), r.seqno)[i]
    BY <1>1, <2>1, <2>4, <2>5
  <2>7. Seqnos(t) = Append(Seqnos(s), r.seqno)
    BY <2>4, <2>5, <2>6, SeqEqual
  <2>. QED BY <2>7 DEF t
<1>4. ASSUME s # <<>>
      PROVE  /\ Seqnos(s) = <<Head(s).seqno>> \o Seqnos(Tail(s))
             /\ Seqnos(<<Head(s)>>) = <<Head(s).seqno>>
  <2> DEFINE t == Tail(s)
             u == <<Head(s).seqno>>
  <2>1. /\ Head(s) = s[1] /\ Head(s) \in Requests /\ t \in Seq(Requests) /\ Len(t) = Len(s) - 1
        /\ \A i \in 1 .. Len(t) : t[i] = s[i + 1]
    BY <1>4, HeadTailProperties
  <2>2. u \in Seq(1 .. MaxSeq) /\ Len(u) = 1 /\ u[1] = Head(s).seqno
    BY <2>1, RequestsTyped
  <2>3. Seqnos(<<Head(s)>>) = u
    BY DEF Seqnos
  <2> HIDE DEF t, u
  <2>4. DOMAIN t = 1 .. Len(t) /\ Len(t) \in Nat /\ \A i \in 1 .. Len(t) : t[i] \in Requests
    BY <2>1, LenProperties, ElementOfSeq
  <2>5. /\ Seqnos(t) \in Seq(1 .. MaxSeq) /\ Len(Seqnos(t)) = Len(t)
        /\ \A i \in 1 .. Len(t) : Seqnos(t)[i] = t[i].seqno
    BY <2>4, RequestsTyped DEF Seqnos
  <2> DEFINE v == Seqnos(t)
  <2>6. /\ u \o v \in Seq(1 .. MaxSeq) /\ Len(u \o v) = 1 + Len(t)
        /\ \A i \in 1 .. 1 + Len(t) : (u \o v)[i] = IF i <= 1 THEN u[i] ELSE v[i - 1]
    <3>1. v \in Seq(1 .. MaxSeq) /\ Len(v) = Len(t)
      BY <2>5
    <3> HIDE DEF v
    <3>2. /\ u \o v \in Seq(1 .. MaxSeq) /\ Len(u \o v) = Len(u) + Len(v)
          /\ \A i \in 1 .. Len(u) + Len(v) :
               (u \o v)[i] = IF i <= Len(u) THEN u[i] ELSE v[i - Len(u)]
      BY <2>2, <3>1, ConcatProperties, SMTT(30)
    <3>. QED BY <2>2, <3>1, <3>2
  <2>7. ASSUME NEW i \in 1 .. Len(s) PROVE Seqnos(s)[i] = (u \o v)[i]
    <3>1. CASE i = 1
      <4>1. i \in 1 .. 1 + Len(t)
        BY <2>4, <3>1
      <4>. QED BY <1>1, <1>2, <2>1, <2>2, <2>6, <3>1, <4>1
    <3>2. CASE i # 1
      <4>1. i - 1 \in 1 .. Len(t) /\ (i - 1) + 1 = i /\ i \in 1 .. 1 + Len(t) /\ ~(i <= 1)
        BY <1>1, <2>1, <2>4, <3>2
      <4>2. Seqnos(s)[i] = t[i - 1].seqno /\ v[i - 1] = t[i - 1].seqno
        BY <1>2, <2>1, <2>5, <4>1
      <4>. QED BY <2>6, <4>1, <4>2
    <3>. QED BY <3>1, <3>2
  <2>8. Seqnos(s) = u \o v
    <3> DEFINE w == Seqnos(s)
               x == u \o v
    <3>1. w \in Seq(1 .. MaxSeq) /\ x \in Seq(1 .. MaxSeq) /\ Len(w) = Len(x)
          /\ \A i \in 1 .. Len(w) : w[i] = x[i]
      BY <1>1, <1>2, <2>1, <2>4, <2>6, <2>7
    <3> HIDE DEF w, x
    <3>2. w = x
      BY <3>1, SeqEqual
    <3>. QED BY <3>2 DEF w, x
  <2>. QED BY <2>3, <2>8 DEF u, t
<1>. QED BY <1>2, <1>3, <1>4

-----------------------------------------------------------------------------
(* An event's id is its place in the registry, and it keeps it.            *)
LEMMA EventIdIs ==
  ASSUME NEW k \in Seq(Event), NEW name
  PROVE  /\ EventId(k, name) \in -1 .. Len(k) - 1
         /\ name \in Range(k) => /\ EventId(k, name) + 1 \in 1 .. Len(k)
                                 /\ k[EventId(k, name) + 1] = name
         /\ name \notin Range(k) => EventId(k, name) = -1
<1> DEFINE I == {i \in 1 .. Len(k) : k[i] = name}
<1>1. Len(k) \in Nat /\ DOMAIN k = 1 .. Len(k)
  BY LenProperties
<1>2. EventId(k, name) = (IF I # {} THEN Min(I) ELSE 0) - 1
  BY DEF EventId, SelectInSeq
<1>3. name \in Range(k) <=> I # {}
  BY <1>1 DEF Range
<1>4. I # {} => Min(I) \in I
  <2>1. I \in SUBSET Nat
    OBVIOUS
  <2> HIDE DEF I
  <2>. QED BY <2>1, MinInSet
<1>5. CASE I # {}
  <2> DEFINE m == Min(I)
  <2>1. m \in 1 .. Len(k) /\ k[m] = name
    BY <1>4, <1>5
  <2> HIDE DEF m
  <2>2. EventId(k, name) = m - 1
    BY <1>2, <1>5 DEF m
  <2>3. EventId(k, name) + 1 = m
    BY <1>1, <2>1, <2>2
  <2>. QED BY <1>1, <1>3, <1>5, <2>1, <2>2, <2>3
<1>6. CASE I = {}
  BY <1>1, <1>2, <1>3, <1>6
<1>. QED BY <1>5, <1>6

(* A registry that grew gives a name it already had the same id.           *)
LEMMA EventIdStable ==
  ASSUME NEW known \in Seq(Event), NEW k, Extends(k, known), IsInjective(k),
         NEW name \in Range(known)
  PROVE  /\ EventId(k, name) = EventId(known, name) /\ name \in Range(k)
         /\ EventId(known, name) \in 0 .. Len(known) - 1
<1>1. /\ k \in Seq(Event) /\ Len(k) \in Nat /\ Len(known) \in Nat
      /\ DOMAIN k = 1 .. Len(k) /\ DOMAIN known = 1 .. Len(known) /\ Len(known) <= Len(k)
  BY LenProperties DEF Extends
<1>2. PICK i : i = EventId(known, name)
  OBVIOUS
<1>3. i \in -1 .. Len(known) - 1 /\ i + 1 \in 1 .. Len(known) /\ known[i + 1] = name
  BY <1>2, EventIdIs
<1>4. i + 1 \in 1 .. Len(k) /\ k[i + 1] = name
  BY <1>1, <1>3 DEF Extends
<1>5. name \in Range(k)
  BY <1>1, <1>4 DEF Range
<1>6. PICK j : j = EventId(k, name)
  OBVIOUS
<1>7. j \in -1 .. Len(k) - 1 /\ j + 1 \in 1 .. Len(k) /\ k[j + 1] = name
  BY <1>1, <1>5, <1>6, EventIdIs
<1>8. j + 1 = i + 1
  BY <1>1, <1>4, <1>7 DEF IsInjective
<1>9. i = j /\ i \in 0 .. Len(known) - 1
  BY <1>1, <1>3, <1>7, <1>8
<1>. QED BY <1>2, <1>5, <1>6, <1>9

-----------------------------------------------------------------------------
(* What serving a request does to the connections: its own gets the status *)
(* last, and any of them may have got an event before that.                *)
Fed(w, d) ==
  w = out[d] \/ \E e \in Event, x \in Payloads : w = Append(out[d], EventMsg(e, x))

Served(c) ==
  /\ c \in Range(clients) /\ inq[c] # <<>> /\ inq' = [inq EXCEPT ![c] = Tail(@)]
  /\ out' \in [Conn -> Seq(Messages)]
  /\ \A d \in Conn : d # c => Fed(out'[d], d)
  /\ \E w \in Seq(Messages), st \in {"0", "EINVAL", "EPERM"} :
       Fed(w, c) /\ out'[c] = Append(w, Status(Head(inq[c]), st))
  /\ UNCHANGED <<clients, id, libVars, backlog, restarts, historyVars>>

(* What it does to the registry and the masks.                             *)
Registers(c) ==
  /\ Extends(events', events) /\ IsInjective(events') /\ Len(events') <= MaxEvents
  /\ \E bits \in SUBSET (0 .. MaxEvents - 1) : SetBits(c, bits)

(* The first request of a connection and those behind it.                  *)
LEMMA HeadOfInq ==
  ASSUME TypeOK, NEW c \in Conn, inq[c] # <<>>
  PROVE  Head(inq[c]) \in Requests /\ Tail(inq[c]) \in Seq(Requests)
BY Shape, HeadTailProperties

(* A reply goes to the end of its own connection's messages.               *)
LEMMA ReplyOnly ==
  ASSUME TypeOK, NEW c \in Conn, NEW r \in Requests, NEW st \in {"0", "EINVAL", "EPERM"},
         out' = TransportSend(out, c, Status(r, st))
  PROVE  /\ out' \in [Conn -> Seq(Messages)]
         /\ \A d \in Conn : d # c => Fed(out'[d], d)
         /\ \E w \in Seq(Messages) : Fed(w, c) /\ out'[c] = Append(w, Status(r, st))
<1>1. Status(r, st) \in Messages
  BY MessagesTyped
<1>2. out \in [Conn -> Seq(Messages)]
  BY DEF TypeOK
<1>3. Append(out[c], Status(r, st)) \in Seq(Messages)
  BY <1>1, <1>2, AppendProperties
<1>4. /\ out'[c] = Append(out[c], Status(r, st)) /\ \A d \in Conn : d # c => out'[d] = out[d]
      /\ out' \in [Conn -> Seq(Messages)]
  BY <1>2, <1>3 DEF TransportSend
<1>. QED BY <1>2, <1>4 DEF Fed

(* Serving a subscription registers its names and then replies.            *)
LEMMA SubscribeServed ==
  ASSUME TypeOK, NEW c \in Conn, NEW r \in Requests, r.type = "subscribe-events",
         ClientSubscribe(c, r)
  PROVE  Registers(c) /\ out' = TransportSend(out, c, Status(r, "0"))
<1> DEFINE known == FoldLeft(EventRegister, events, r.events)
           ids == {EventId(known, name) : name \in Range(r.events)}
<1>1. r.events \in Seq(Event) /\ events \in Seq(Event) /\ IsInjective(events)
      /\ Len(events) <= MaxEvents /\ MaxEvents \in Nat \ {0}
      /\ ShiftedBit \in 0 .. MaxEvents - 1
  BY RequestKinds, LenProperties, EventRouterAssumption DEF TypeOK
<1>2. Extends(known, events) /\ IsInjective(known) /\ Len(known) <= MaxEvents
  BY <1>1, RegisterFacts
<1>3. known \in Seq(Event) /\ Len(known) \in Nat
  <2>1. known \in Seq(Event)
    BY <1>2 DEF Extends
  <2> HIDE DEF known
  <2>. QED BY <2>1, LenProperties
<1>4. /\ events' = known /\ out' = TransportSend(out, c, Status(r, "0"))
      /\ \E stray \in {{}, IF -1 \in ids THEN {ShiftedBit} ELSE {}} :
           SetBits(c, (ids \ {-1}) \cup stray)
  BY DEF ClientSubscribe
<1>5. \A i \in ids : i = -1 \/ i \in 0 .. MaxEvents - 1
  <2>1. ASSUME NEW name PROVE EventId(known, name) \in -1 .. Len(known) - 1
    <3> HIDE DEF known
    <3>. QED BY <1>3, EventIdIs
  <2> HIDE DEF known
  <2>. QED BY <1>1, <1>2, <1>3, <2>1
<1>6. ASSUME NEW stray \in {{}, IF -1 \in ids THEN {ShiftedBit} ELSE {}}
      PROVE  (ids \ {-1}) \cup stray \in SUBSET (0 .. MaxEvents - 1)
  <2> HIDE DEF ids
  <2>. QED BY <1>1, <1>5
<1>7. \E bits \in SUBSET (0 .. MaxEvents - 1) : SetBits(c, bits)
  <2> HIDE DEF ids
  <2>. QED BY <1>4, <1>6
<1> HIDE DEF known
<1>. QED BY <1>2, <1>4, <1>7 DEF Registers

(* A request that registers nothing leaves the registry as it was.         *)
LEMMA NothingRegistered ==
  ASSUME TypeOK, NEW c \in Conn, UNCHANGED <<events, mask>>
  PROVE  Registers(c)
<1>1. /\ events \in Seq(Event) /\ IsInjective(events) /\ Len(events) <= MaxEvents
      /\ Len(events) \in Nat
  BY LenProperties DEF TypeOK
<1>2. mask' = [mask EXCEPT ![c] = @ \cup {}]
  BY DEF TypeOK
<1>3. {} \in SUBSET (0 .. MaxEvents - 1)
  OBVIOUS
<1>4. \E bits \in SUBSET (0 .. MaxEvents - 1) : SetBits(c, bits)
  BY <1>2, <1>3 DEF SetBits
<1>5. Extends(events', events)
  BY <1>1 DEF Extends
<1>. QED BY <1>1, <1>4, <1>5 DEF Registers

(* Serving any request answers it, and only grows the registry.            *)
LEMMA ServeDoes ==
  ASSUME TypeOK, NEW c \in Conn, Serve(c)
  PROVE  Served(c) /\ Registers(c)
<1> DEFINE r == Head(inq[c])
<1>1. /\ c \in Range(clients) /\ inq[c] # <<>> /\ inq' = [inq EXCEPT ![c] = Tail(@)]
      /\ UNCHANGED <<clients, id, libVars, backlog, restarts, historyVars>>
  BY DEF Serve, LncRecv
<1>2. r \in Requests
  BY <1>1, HeadOfInq
<1> DEFINE Replied == /\ out' \in [Conn -> Seq(Messages)]
                      /\ \A d \in Conn : d # c => Fed(out'[d], d)
                      /\ \E w \in Seq(Messages), st \in {"0", "EINVAL", "EPERM"} :
                           Fed(w, c) /\ out'[c] = Append(w, Status(r, st))
<1>3. ASSUME NEW st \in {"0", "EINVAL", "EPERM"}, out' = TransportSend(out, c, Status(r, st))
      PROVE  Replied
  <2> HIDE DEF r
  <2>. QED BY <1>2, <1>3, ReplyOnly
<1>4. CASE r.type = "subscribe-events" /\ ClientSubscribe(c, r)
  <2>1. Registers(c) /\ out' = TransportSend(out, c, Status(r, "0"))
    <3> HIDE DEF r
    <3>. QED BY <1>2, <1>4, SubscribeServed
  <2>2. Replied
    BY <1>3, <2>1
  <2>. QED BY <1>1, <2>1, <2>2 DEF Served
<1>5. CASE r.type = "list" /\ ApplicationList(c, r)
  <2>1. Registers(c) /\ out' = TransportSend(out, c, Status(r, "0"))
    BY <1>5, NothingRegistered DEF ApplicationList
  <2>2. Replied
    BY <1>3, <2>1
  <2>. QED BY <1>1, <2>1, <2>2 DEF Served
<1>6. CASE r.type = "send-event" /\ EventRoute(c, r)
  <2>1. Registers(c)
    BY <1>6, NothingRegistered DEF EventRoute
  <2> DEFINE routed == [d \in Conn |-> IF d \in Recipients(r.event, r.target)
                                       THEN Append(out[d], EventMsg(r.event, r.data))
                                       ELSE out[d]]
  <2>2. \/ \E st \in {"0", "EINVAL", "EPERM"} : out' = TransportSend(out, c, Status(r, st))
        \/ out' = TransportSend(routed, c, Status(r, "0"))
    BY <1>6 DEF EventRoute
  <2>3. CASE out' = TransportSend(routed, c, Status(r, "0"))
    <3>1. r.event \in Event /\ r.data \in Payloads
      BY <1>2, <1>6, RequestKinds
    <3>2. EventMsg(r.event, r.data) \in Messages /\ Status(r, "0") \in Messages
      BY <1>2, <3>1, MessagesTyped
    <3>3. out \in [Conn -> Seq(Messages)]
      BY DEF TypeOK
    <3>4. routed \in [Conn -> Seq(Messages)] /\ \A d \in Conn : Fed(routed[d], d)
      <4> HIDE DEF r
      <4>. QED BY <3>1, <3>2, <3>3, AppendProperties DEF Fed
    <3> HIDE DEF routed, r
    <3>5. Append(routed[c], Status(r, "0")) \in Seq(Messages)
      BY <3>2, <3>4, AppendProperties
    <3>6. /\ out' \in [Conn -> Seq(Messages)] /\ out'[c] = Append(routed[c], Status(r, "0"))
          /\ \A d \in Conn : d # c => out'[d] = routed[d]
      BY <2>3, <3>4, <3>5 DEF TransportSend
    <3>7. Replied
      BY <3>4, <3>6
    <3>. QED BY <1>1, <2>1, <3>7 DEF Served, r
  <2>4. CASE \E st \in {"0", "EINVAL", "EPERM"} : out' = TransportSend(out, c, Status(r, st))
    <3>1. Replied
      BY <1>3, <2>4
    <3>. QED BY <1>1, <2>1, <3>1 DEF Served
  <2>. QED BY <2>2, <2>3, <2>4
<1>7. \/ r.type = "subscribe-events" /\ ClientSubscribe(c, r)
      \/ r.type = "send-event" /\ EventRoute(c, r)
      \/ r.type = "list" /\ ApplicationList(c, r)
  BY DEF Serve, LncRecv
<1>. QED BY <1>4, <1>5, <1>6, <1>7

-----------------------------------------------------------------------------
(* The type invariant, first without the history.                          *)
CoreOK ==
  /\ clients \in Seq(Conn) /\ IsInjective(clients)
  /\ backlog \subseteq Conn \ Range(clients)
  /\ id \in [Conn -> Identity \cup {NoIdentity}]
  /\ inq \in [Conn -> Seq(Requests)] /\ out \in [Conn -> Seq(Messages)]
  /\ events \in Seq(Event) /\ IsInjective(events) /\ Len(events) \in 1 .. MaxEvents
  /\ mask \in [Conn -> SUBSET (0 .. MaxEvents - 1)]
  /\ link \in [Ctx -> Conn \cup {NoConn}]
  /\ seqno \in [Ctx -> 1 .. MaxSeq + 1]
  /\ pendq \in [Ctx -> Seq(Requests)] /\ notified \in [Ctx -> Seq(1 .. MaxSeq)]
  /\ gone \subseteq Ctx /\ restarts \in Nat

HistoryOK ==
  /\ asked \in [Ctx -> SUBSET Event] /\ confirmed \in [Ctx -> SUBSET Event]
  /\ owed \subseteq [to : Ctx, data : Payloads]

(* The type invariant is these two parts.                                  *)
LEMMA TypeParts == TypeOK <=> CoreOK /\ HistoryOK
BY DEF TypeOK, CoreOK, HistoryOK

(* The connection a context opens for its first request.                   *)
Opened(p, req, c) ==
  /\ c \in Conn \ Open /\ \A q \in Ctx : link[q] # c
  /\ link[p] = NoConn
  /\ link' = [link EXCEPT ![p] = c]
  /\ id' = [id EXCEPT ![c] = Ident[p]]
  /\ inq' = [inq EXCEPT ![c] = <<req>>]
  /\ out' = [out EXCEPT ![c] = <<>>]
  /\ backlog' = backlog \cup {c}
  /\ pendq' = [pendq EXCEPT ![p] = Append(@, req)]

Queued(p, req) ==
  /\ link[p] \in Open
  /\ inq' = [inq EXCEPT ![link[p]] = Append(@, req)]
  /\ pendq' = [pendq EXCEPT ![p] = Append(@, req)]
  /\ UNCHANGED <<link, id, out, backlog>>

Unsent(p) ==
  /\ link[p] \notin Open \cup {NoConn}
  /\ UNCHANGED <<link, id, out, inq, pendq, backlog>>

Asks(p, req) ==
  /\ p \notin gone /\ seqno[p] <= MaxSeq
  /\ seqno' = [seqno EXCEPT ![p] = @ + 1]
  /\ (\E c \in Conn : Opened(p, req, c)) \/ Queued(p, req) \/ Unsent(p)
  /\ UNCHANGED <<clients, events, mask, notified, gone, restarts>>

(* A request opens a connection, is queued on the one there is, or is not  *)
(* sent.                                                                   *)
LEMMA RequestDoes ==
  ASSUME TypeOK, NEW p \in Ctx, NEW req, Request(p, req)
  PROVE  Asks(p, req)
<1> DEFINE C == CHOOSE c \in FreeConn : TRUE
<1>1. ASSUME link[p] = NoConn, FreeConn # {}, Connect(p, req), PendingEnq(p, req)
      PROVE  \E c \in Conn : Opened(p, req, c)
  <2>1. C \in FreeConn
    BY <1>1
  <2>2. C \in Conn \ Open /\ \A q \in Ctx : link[q] # C
    BY <2>1 DEF FreeConn, Holders
  <2> HIDE DEF C
  <2>3. /\ link' = [link EXCEPT ![p] = C]
        /\ id' = [id EXCEPT ![C] = Ident[p]]
        /\ inq' = [inq EXCEPT ![C] = <<req>>]
        /\ out' = [out EXCEPT ![C] = <<>>]
        /\ backlog' = backlog \cup {C}
    BY <1>1 DEF Connect, C
  <2>4. Opened(p, req, C)
    BY <1>1, <2>2, <2>3 DEF Opened, PendingEnq
  <2>. QED BY <2>2, <2>4
<1>. QED BY <1>1 DEF Request, Asks, Queued, Unsent, PendingEnq

(* A request keeps the types of everything but the history.                *)
LEMMA AsksTyped ==
  ASSUME TypeOK, NEW p \in Ctx, NEW req \in Requests, Asks(p, req)
  PROVE  CoreOK'
<1>1. CoreOK /\ seqno[p] \in 1 .. MaxSeq + 1 /\ MaxSeq \in Nat /\ seqno[p] <= MaxSeq
  BY TypeParts, EventSystemAssumption DEF CoreOK, Asks
<1>2. seqno' \in [Ctx -> 1 .. MaxSeq + 1]
  BY <1>1 DEF CoreOK, Asks
<1>3. pendq' \in [Ctx -> Seq(Requests)]
  <2>1. Append(pendq[p], req) \in Seq(Requests)
    BY <1>1, AppendProperties DEF CoreOK
  <2>2. pendq' = [pendq EXCEPT ![p] = Append(@, req)] \/ pendq' = pendq
    BY DEF Asks, Opened, Queued, Unsent
  <2>. QED BY <1>1, <2>1, <2>2 DEF CoreOK
<1>4. <<req>> \in Seq(Requests) /\ <<>> \in Seq(Messages)
  OBVIOUS
<1> DEFINE Parts == /\ link' \in [Ctx -> Conn \cup {NoConn}] /\ id' \in [Conn -> Identity \cup {NoIdentity}]
                    /\ inq' \in [Conn -> Seq(Requests)] /\ out' \in [Conn -> Seq(Messages)]
                    /\ backlog' \subseteq Conn \ Range(clients)
<1>5. Parts
  <2>1. ASSUME NEW c \in Conn, Opened(p, req, c) PROVE Parts
    BY <1>1, <1>4, <2>1, EventSystemAssumption DEF CoreOK, Opened, Open
  <2>2. ASSUME Queued(p, req) PROVE Parts
    <3>1. link[p] \in Conn /\ Append(inq[link[p]], req) \in Seq(Requests)
      BY <1>1, <2>2, AppendProperties, Shape DEF Queued, CoreOK
    <3>. QED BY <1>1, <2>2, <3>1 DEF CoreOK, Queued
  <2>3. ASSUME Unsent(p) PROVE Parts
    BY <1>1, <2>3 DEF CoreOK, Unsent
  <2>. QED BY <2>1, <2>2, <2>3 DEF Asks
<1>. QED BY <1>1, <1>2, <1>3, <1>5 DEF CoreOK, Asks

(* The request of each call, and its data.                                 *)
LEMMA PayloadTyped ==
  ASSUME TypeOK, NEW p \in Ctx, NEW sent \in Sent, seqno[p] <= MaxSeq
  PROVE  /\ Data(p, sent[2]) \in Payloads
         /\ SendReq(seqno[p], sent[1], sent[2], Data(p, sent[2])) \in Requests
         /\ sent[1] \in Event /\ sent[2] \in Target
<1>1. seqno[p] \in 1 .. MaxSeq /\ sent[1] \in Event /\ sent[2] \in Target
  BY Shape, EventSystemAssumption
<1>. QED BY <1>1, RequestsTyped DEF Data, Payloads

(* Every call that makes a request does so with the next number, and keeps *)
(* the types.                                                              *)
LEMMA AskTyped ==
  ASSUME TypeOK, NEW p \in Ctx, AppEventSubscribe(p) \/ AppEventSend(p) \/ AppList(p)
  PROVE  /\ TypeOK'
         /\ \E req \in Requests : Asks(p, req) /\ req.seqno = seqno[p]
<1> SUFFICES /\ \E req \in Requests : Asks(p, req) /\ req.seqno = seqno[p]
             /\ HistoryOK'
  <2>1. TypeOK' <=> CoreOK' /\ HistoryOK'
    BY DEF TypeOK, CoreOK, HistoryOK
  <2>. QED BY <2>1, AsksTyped
<1>1. HistoryOK /\ (seqno[p] <= MaxSeq => seqno[p] \in 1 .. MaxSeq)
  BY TypeParts, Shape
<1>2. CASE AppEventSubscribe(p)
  <2>1. PICK names \in Subscribed : /\ Request(p, SubscribeReq(seqno[p], names))
                                    /\ asked' = [asked EXCEPT ![p] = @ \cup Range(names)]
                                    /\ UNCHANGED <<confirmed, owed>>
    BY <1>2 DEF AppEventSubscribe
  <2>2. Asks(p, SubscribeReq(seqno[p], names)) /\ seqno[p] \in 1 .. MaxSeq
    BY <1>1, <2>1, RequestDoes DEF Asks
  <2>3. Range(names) \subseteq Event
    <3>1. names \in Seq(Event)
      BY EventSystemAssumption
    <3>. QED BY <3>1, RangeOfSeq
  <2>. QED BY <1>1, <2>1, <2>2, <2>3, RequestsTyped DEF HistoryOK
<1>3. CASE AppEventSend(p)
  <2>1. PICK sent \in Sent :
          /\ Request(p, SendReq(seqno[p], sent[1], sent[2], Data(p, sent[2])))
          /\ owed' = owed \cup
               (IF pendq' # pendq /\ Ident[p] \in Senders
                THEN {[to |-> q, data |-> Data(p, sent[2])] : q \in Subscribers(sent[1], sent[2])}
                ELSE {})
          /\ UNCHANGED <<asked, confirmed>>
    BY <1>3 DEF AppEventSend
  <2>2. /\ Asks(p, SendReq(seqno[p], sent[1], sent[2], Data(p, sent[2])))
        /\ seqno[p] <= MaxSeq
    BY <2>1, RequestDoes DEF Asks
  <2>3. /\ Data(p, sent[2]) \in Payloads
        /\ SendReq(seqno[p], sent[1], sent[2], Data(p, sent[2])) \in Requests
    BY <2>2, PayloadTyped
  <2>4. {[to |-> q, data |-> Data(p, sent[2])] : q \in Subscribers(sent[1], sent[2])}
          \subseteq [to : Ctx, data : Payloads]
    BY <2>3 DEF Subscribers
  <2>5. HistoryOK'
    BY <1>1, <2>1, <2>4 DEF HistoryOK
  <2>6. SendReq(seqno[p], sent[1], sent[2], Data(p, sent[2])).seqno = seqno[p]
    BY DEF SendReq
  <2>. QED BY <2>2, <2>3, <2>5, <2>6
<1>4. CASE AppList(p)
  <2>1. Asks(p, ListReq(seqno[p])) /\ seqno[p] \in 1 .. MaxSeq /\ UNCHANGED historyVars
    BY <1>1, <1>4, RequestDoes DEF Asks, AppList
  <2>. QED BY <1>1, <2>1, RequestsTyped DEF HistoryOK, historyVars
<1>. QED BY <1>2, <1>3, <1>4

-----------------------------------------------------------------------------
(* Sequence numbers only grow along the queue, so that a status that       *)
(* answers its first request answers no other.                             *)
LEMMA NumbersFacts ==
  ASSUME TypeOK, NEW p \in Ctx
  PROVE  /\ Numbers(p) \in Seq(1 .. MaxSeq)
         /\ DOMAIN Numbers(p) = 1 .. Len(notified[p]) + Len(pendq[p])
         /\ \A i \in 1 .. Len(notified[p]) : Numbers(p)[i] = notified[p][i]
         /\ \A i \in 1 .. Len(pendq[p]) : Numbers(p)[Len(notified[p]) + i] = pendq[p][i].seqno
<1> DEFINE a == notified[p]
           b == Seqnos(pendq[p])
<1>1. /\ a \in Seq(1 .. MaxSeq) /\ b \in Seq(1 .. MaxSeq) /\ Len(b) = Len(pendq[p])
      /\ \A i \in 1 .. Len(pendq[p]) : b[i] = pendq[p][i].seqno
  BY Shape, SeqnosFacts
<1>2. Numbers(p) = a \o b
  BY DEF Numbers
<1> HIDE DEF a, b
<1>3. Len(a) \in Nat /\ Len(b) \in Nat
  BY <1>1, LenProperties
<1>4. /\ a \o b \in Seq(1 .. MaxSeq) /\ Len(a \o b) = Len(a) + Len(b)
      /\ \A i \in 1 .. Len(a) + Len(b) :
           (a \o b)[i] = IF i <= Len(a) THEN a[i] ELSE b[i - Len(a)]
  BY <1>1, ConcatProperties
<1>5. DOMAIN (a \o b) = 1 .. Len(a) + Len(b)
  BY <1>4, LenProperties
<1>6. \A i \in 1 .. Len(a) : (a \o b)[i] = a[i]
  BY <1>3, <1>4
<1>7. ASSUME NEW i \in 1 .. Len(b) PROVE (a \o b)[Len(a) + i] = b[i]
  <2>1. /\ Len(a) + i \in 1 .. Len(a) + Len(b) /\ ~(Len(a) + i <= Len(a))
        /\ (Len(a) + i) - Len(a) = i
    BY <1>3
  <2>. QED BY <1>4, <2>1
<1>. QED BY <1>1, <1>2, <1>4, <1>5, <1>6, <1>7 DEF a

(* The numbers along a queue grow.                                         *)
LEMMA QueueIncreasing ==
  ASSUME TypeOK, CallbacksInOrder, NEW p \in Ctx,
         NEW i \in 1 .. Len(pendq[p]), NEW j \in 1 .. Len(pendq[p]), i < j
  PROVE  pendq[p][i].seqno < pendq[p][j].seqno
<1> DEFINE n == Len(notified[p])
<1>1. n \in Nat /\ Len(pendq[p]) \in Nat
  BY Shape, LenProperties
<1>2. /\ n + i \in 1 .. n + Len(pendq[p]) /\ n + j \in 1 .. n + Len(pendq[p])
      /\ n + i < n + j
  <2> HIDE DEF n
  <2>1. i \in Nat /\ j \in Nat /\ 1 <= i /\ 1 <= j /\ i <= Len(pendq[p]) /\ j <= Len(pendq[p])
    BY <1>1
  <2>2. n + i < n + j
    BY <1>1, <2>1
  <2>. QED BY <1>1, <2>1, <2>2
<1>3. Increasing(Numbers(p))
  BY DEF CallbacksInOrder, Numbers
<1>4. Numbers(p)[n + i] < Numbers(p)[n + j]
  BY <1>2, <1>3, NumbersFacts DEF Increasing
<1>. QED BY <1>4, NumbersFacts

(* The status of the first request of a queue calls back that one alone.   *)
LEMMA NotifyFirst ==
  ASSUME TypeOK, CallbacksInOrder, NEW p \in Ctx, pendq[p] # <<>>, NEW n,
         n = Head(pendq[p]).seqno, PendingNotify(p, {n})
  PROVE  /\ pendq' = [pendq EXCEPT ![p] = Tail(@)]
         /\ notified' = [notified EXCEPT ![p] = @ \o <<n>>]
<1> DEFINE s == pendq[p]
           N == Numbered(p, {n})
<1>1. /\ s \in Seq(Requests) /\ s # <<>> /\ Len(s) \in Nat \ {0} /\ DOMAIN s = 1 .. Len(s)
      /\ Head(s) = s[1] /\ n = s[1].seqno /\ \A i \in 1 .. Len(s) : s[i] \in Requests
  BY Shape, EmptySeq, LenProperties, ElementOfSeq
<1>2. N = {r \in Range(s) : r.seqno = n}
  BY DEF Numbered
<1>3. ASSUME NEW i \in 1 .. Len(s) PROVE s[i].seqno = n <=> i = 1
  <2>1. 1 \in 1 .. Len(s) /\ (i # 1 => 1 < i)
    BY <1>1
  <2>2. i # 1 => s[1].seqno < s[i].seqno
    BY <2>1, QueueIncreasing
  <2>3. s[1].seqno \in Nat /\ s[i].seqno \in Nat
    BY <1>1, <2>1, RequestsTyped, Shape
  <2>. QED BY <1>1, <2>2, <2>3
<1>4. \A i \in 1 .. Len(s) : s[i] \in Range(s)
  BY <1>1 DEF Range
<1> HIDE DEF s, N
<1>5. Keep(s, N) = <<Head(s)>>
  BY <1>1, <1>2, <1>3, <1>4, KeepPlaces
<1>6. Keep(s, Range(s) \ N) = Tail(s)
  BY <1>1, <1>2, <1>3, <1>4, KeepPlaces
<1>7. Seqnos(<<Head(s)>>) = <<n>>
  BY <1>1, SeqnosFacts
<1>8. /\ notified' = [notified EXCEPT ![p] = @ \o Seqnos(Keep(s, N))]
      /\ pendq' = [pendq EXCEPT ![p] = Keep(@, Range(@) \ N)]
  BY DEF PendingNotify, PendingDeq, s, N
<1>9. pendq \in [Ctx -> Seq(Requests)] /\ pendq[p] = s
  BY DEF TypeOK, s
<1>10. pendq' = [pendq EXCEPT ![p] = Keep(s, Range(s) \ N)]
  BY <1>8, <1>9
<1>. QED BY <1>5, <1>6, <1>7, <1>8, <1>9, <1>10

(* A connection that goes down calls back all of the queue, in its order.  *)
LEMMA NotifyAll ==
  ASSUME TypeOK, NEW p \in Ctx, PendingNotify(p, 1 .. MaxSeq)
  PROVE  /\ pendq' = [pendq EXCEPT ![p] = <<>>]
         /\ notified' = [notified EXCEPT ![p] = @ \o Seqnos(pendq[p])]
<1> DEFINE s == pendq[p]
           N == Numbered(p, 1 .. MaxSeq)
<1>1. s \in Seq(Requests) /\ DOMAIN s = 1 .. Len(s) /\ \A i \in 1 .. Len(s) : s[i] \in Requests
  BY Shape, LenProperties, ElementOfSeq
<1>2. N = Range(s)
  <2>1. \A r \in Range(s) : r.seqno \in 1 .. MaxSeq
    BY <1>1, RequestsTyped DEF Range
  <2>. QED BY <2>1 DEF Numbered
<1>3. \A i \in 1 .. Len(s) : s[i] \in Range(s)
  BY <1>1 DEF Range
<1> HIDE DEF s, N
<1>4. Keep(s, N) = s
  BY <1>1, <1>2, <1>3, KeepPlaces
<1>5. Keep(s, Range(s) \ N) = <<>>
  BY <1>1, <1>2, <1>3, KeepPlaces
<1>6. /\ notified' = [notified EXCEPT ![p] = @ \o Seqnos(Keep(s, N))]
      /\ pendq' = [pendq EXCEPT ![p] = Keep(@, Range(@) \ N)]
  BY DEF PendingNotify, PendingDeq, s, N
<1>7. pendq \in [Ctx -> Seq(Requests)] /\ pendq[p] = s
  BY DEF TypeOK, s
<1>8. pendq' = [pendq EXCEPT ![p] = Keep(s, Range(s) \ N)]
  BY <1>6, <1>7
<1>. QED BY <1>4, <1>5, <1>6, <1>7, <1>8

-----------------------------------------------------------------------------
(* What a context does when it reads a message.                            *)
GotStatus(p) ==
  LET m == Head(out[link[p]])
  IN  /\ m \in Replies /\ pendq[p] # <<>> /\ m.seqno = Head(pendq[p]).seqno
      /\ pendq' = [pendq EXCEPT ![p] = Tail(@)]
      /\ notified' = [notified EXCEPT ![p] = @ \o <<m.seqno>>]
      /\ Confirm(p, m) /\ owed' = owed

GotEvent(p) ==
  LET m == Head(out[link[p]])
  IN  /\ m \in Messages \ Replies /\ m.type = "event"
      /\ owed' = owed \ {[to |-> p, data |-> m.data]}
      /\ UNCHANGED <<pendq, notified, confirmed>>

Received(p) ==
  /\ link[p] \in Conn /\ out[link[p]] # <<>>
  /\ out' = [out EXCEPT ![link[p]] = Tail(@)]
  /\ GotStatus(p) \/ GotEvent(p)
  /\ UNCHANGED <<clients, id, routerVars, link, seqno, gone, backlog, restarts, asked>>

(* The answers that are left when the first message was read.              *)
LEMMA AnswersAfter ==
  ASSUME TypeOK, NEW p \in Ctx, link[p] \in Conn, out[link[p]] # <<>>
  PROVE  LET s == out[link[p]]
         IN  /\ Head(s) \in Messages /\ Tail(s) \in Seq(Messages)
             /\ Keep(Tail(s), Replies) \in Seq(Replies)
             /\ Answers(p) = IF Head(s) \in Replies THEN <<Head(s)>> \o Keep(Tail(s), Replies)
                             ELSE Keep(Tail(s), Replies)
<1> DEFINE s == out[link[p]]
           t == Tail(s)
<1>1. s \in Seq(Messages) /\ s # <<>> /\ Head(s) \in Messages /\ t \in Seq(Messages)
  BY Shape, HeadTailProperties
<1>2. Keep(t, Replies) \in Seq(Replies)
  <2> HIDE DEF t
  <2>1. Keep(t, Replies) \in Seq(Messages \cap Replies)
    BY <1>1, KeepType
  <2>. QED BY <2>1, SeqMonotonic
<1>3. Keep(s, Replies) = IF Head(s) \in Replies THEN <<Head(s)>> \o Keep(t, Replies)
                         ELSE Keep(t, Replies)
  <2> HIDE DEF s
  <2>. QED BY <1>1, KeepTail
<1>. QED BY <1>1, <1>2, <1>3 DEF Answers

(* Reading a message is to be called back for the first request, or to get *)
(* an event.                                                               *)
LEMMA ReceiveDoes ==
  ASSUME QueueInv, NEW p \in Ctx, RecvCb(p)
  PROVE  Received(p)
<1> DEFINE m == Head(out[link[p]])
<1>1. /\ link[p] \in Conn /\ out[link[p]] # <<>>
      /\ out' = [out EXCEPT ![link[p]] = Tail(@)]
      /\ UNCHANGED <<clients, id, routerVars, link, seqno, gone, backlog, restarts, asked>>
  BY Shape DEF RecvCb, QueueInv
<1>2. m \in Messages
  BY <1>1, AnswersAfter DEF QueueInv
<1>3. CASE /\ m.type = "status" /\ PendingNotify(p, {m.seqno}) /\ Confirm(p, m) /\ owed' = owed
  <2>1. m \in Replies
    BY <1>2, <1>3, MessagesTyped
  <2>2. /\ Len(Answers(p)) <= Len(pendq[p]) /\ Answers(p) = <<m>> \o Keep(Tail(out[link[p]]), Replies)
        /\ \A i \in 1 .. Len(Answers(p)) : Answers(p)[i].seqno = pendq[p][i].seqno
        /\ Keep(Tail(out[link[p]]), Replies) \in Seq(Replies) /\ link[p] # NoConn
    BY <1>1, <2>1, AnswersAfter, Shape DEF QueueInv, AnsweredFirst, Agree
  <2>3. /\ Len(Answers(p)) \in Nat \ {0} /\ Answers(p)[1] = m
    <3> DEFINE k == Keep(Tail(out[link[p]]), Replies)
    <3>1. k \in Seq(Replies) /\ Answers(p) = <<m>> \o k
      BY <2>2
    <3> HIDE DEF k, m
    <3>2. <<m>> \in Seq(Replies) /\ Len(<<m>>) = 1 /\ <<m>>[1] = m /\ Len(k) \in Nat
      BY <2>1, <3>1, LenProperties
    <3>3. /\ Len(<<m>> \o k) = 1 + Len(k)
          /\ \A i \in 1 .. 1 + Len(k) : (<<m>> \o k)[i] = IF i <= 1 THEN <<m>>[i] ELSE k[i - 1]
      BY <3>1, <3>2, ConcatProperties
    <3>4. 1 \in 1 .. 1 + Len(k)
      BY <3>2
    <3>. QED BY <3>1, <3>2, <3>3, <3>4
  <2>4. pendq[p] # <<>> /\ m.seqno = Head(pendq[p]).seqno
    <3>1. pendq[p] \in Seq(Requests) /\ Len(pendq[p]) \in Nat /\ 1 \in 1 .. Len(Answers(p))
      BY <2>3, Shape, LenProperties DEF QueueInv
    <3>2. Len(pendq[p]) # 0 /\ Answers(p)[1].seqno = pendq[p][1].seqno
      BY <2>2, <2>3, <3>1
    <3>. QED BY <2>3, <3>1, <3>2, EmptySeq
  <2>5. /\ pendq' = [pendq EXCEPT ![p] = Tail(@)]
        /\ notified' = [notified EXCEPT ![p] = @ \o <<m.seqno>>]
    <3> HIDE DEF m
    <3>. QED BY <1>3, <2>4, NotifyFirst DEF QueueInv
  <2>. QED BY <1>1, <1>3, <2>1, <2>4, <2>5 DEF Received, GotStatus
<1>4. CASE /\ m.type = "event" /\ owed' = owed \ {[to |-> p, data |-> m.data]}
           /\ UNCHANGED <<pendq, notified, confirmed>>
  <2>1. m \in Messages \ Replies
    BY <1>2, <1>4, MessagesTyped
  <2>. QED BY <1>1, <1>4, <2>1 DEF Received, GotEvent
<1>. QED BY <1>3, <1>4 DEF RecvCb

-----------------------------------------------------------------------------
(* Every action keeps the types.                                           *)
LEMMA TypesAgain ==
  ASSUME CoreOK', HistoryOK'
  PROVE  TypeOK'
BY DEF TypeOK, CoreOK, HistoryOK

(* Reading a message keeps the types.                                      *)
LEMMA ReceiveTyped ==
  ASSUME TypeOK, NEW p \in Ctx, Received(p)
  PROVE  TypeOK'
<1> DEFINE m == Head(out[link[p]])
<1>1. CoreOK /\ HistoryOK
  BY TypeParts
<1>2. out' \in [Conn -> Seq(Messages)]
  <2>1. Tail(out[link[p]]) \in Seq(Messages)
    BY AnswersAfter DEF Received
  <2>. QED BY <1>1, <2>1 DEF CoreOK, Received
<1>3. CASE GotStatus(p)
  <2>1. m \in Replies /\ pendq[p] # <<>> /\ m.seqno \in 1 .. MaxSeq
    BY <1>3, MessagesTyped DEF GotStatus
  <2>2. pendq' \in [Ctx -> Seq(Requests)]
    <3>1. Tail(pendq[p]) \in Seq(Requests)
      BY <2>1, Shape, HeadTailProperties
    <3>. QED BY <1>1, <1>3, <3>1 DEF CoreOK, GotStatus
  <2>3. notified' \in [Ctx -> Seq(1 .. MaxSeq)]
    <3>1. <<m.seqno>> \in Seq(1 .. MaxSeq) /\ notified[p] \in Seq(1 .. MaxSeq)
      BY <2>1, Shape
    <3>2. notified[p] \o <<m.seqno>> \in Seq(1 .. MaxSeq)
      <4> DEFINE u == <<m.seqno>>
      <4>1. u \in Seq(1 .. MaxSeq)
        BY <3>1
      <4> HIDE DEF u
      <4>2. notified[p] \o u \in Seq(1 .. MaxSeq)
        BY <3>1, <4>1, ConcatProperties
      <4>. QED BY <4>2 DEF u
    <3>. QED BY <1>1, <1>3, <3>2 DEF CoreOK, GotStatus
  <2>4. confirmed' \in [Ctx -> SUBSET Event]
    <3>1. ASSUME NEW r \in Range(pendq[p]), r.type = "subscribe-events"
          PROVE  Range(r.events) \subseteq Event
      <4>1. r \in Requests
        BY Shape, RangeOfSeq
      <4>2. r.events \in Seq(Event)
        BY <3>1, <4>1, RequestKinds
      <4>. QED BY <4>2, RangeOfSeq
    <3>. QED BY <1>1, <1>3, <3>1 DEF HistoryOK, GotStatus, Confirm
  <2>5. CoreOK' /\ HistoryOK'
    BY <1>1, <1>2, <1>3, <2>2, <2>3, <2>4
       DEF CoreOK, HistoryOK, Received, GotStatus, routerVars
  <2>. QED BY <2>5, TypesAgain
<1>4. CASE GotEvent(p)
  <2>1. CoreOK' /\ HistoryOK'
    BY <1>1, <1>2, <1>4 DEF CoreOK, HistoryOK, Received, GotEvent, routerVars
  <2>. QED BY <2>1, TypesAgain
<1>. QED BY <1>3, <1>4 DEF Received

(* A context that is told its connection is down, and one that goes away.  *)
WentDown(p) ==
  /\ link[p] \notin Open \cup {NoConn} /\ out[link[p]] = <<>>
  /\ link' = [link EXCEPT ![p] = NoConn]
  /\ pendq' = [pendq EXCEPT ![p] = <<>>]
  /\ notified' = [notified EXCEPT ![p] = @ \o Seqnos(pendq[p])]
  /\ Forget(p)
  /\ UNCHANGED <<clientVars, routerVars, backlog, restarts, seqno, gone>>

Gone(p) ==
  /\ link' = [link EXCEPT ![p] = NoConn]
  /\ pendq' = [pendq EXCEPT ![p] = <<>>]
  /\ gone' = gone \cup {p}
  /\ Forget(p)
  /\ UNCHANGED <<clientVars, routerVars, backlog, restarts, seqno, notified>>

(* closed_cb() is what WentDown says of it.                                *)
LEMMA ClosedDoes ==
  ASSUME TypeOK, NEW p \in Ctx, ClosedCb(p)
  PROVE  WentDown(p)
BY NotifyAll DEF ClosedCb, ConnectionDown, WentDown

(* iot_app_destroy() is what Gone says of it.                              *)
LEMMA DestroyDoes ==
  ASSUME NEW p \in Ctx, Destroy(p)
  PROVE  Gone(p)
BY DEF Destroy, AppDestroy, Gone

(* The end of a connection keeps the types.                                *)
LEMMA EndTyped ==
  ASSUME TypeOK, NEW p \in Ctx, WentDown(p) \/ Gone(p)
  PROVE  TypeOK'
<1>1. CoreOK /\ HistoryOK
  BY TypeParts
<1>2. HistoryOK'
  BY <1>1 DEF HistoryOK, WentDown, Gone, Forget
<1>3. notified' \in [Ctx -> Seq(1 .. MaxSeq)]
  <2>1. notified[p] \o Seqnos(pendq[p]) \in Seq(1 .. MaxSeq)
    BY NumbersFacts DEF Numbers
  <2>. QED BY <1>1, <2>1 DEF CoreOK, WentDown, Gone
<1>4. pendq' \in [Ctx -> Seq(Requests)] /\ link' \in [Ctx -> Conn \cup {NoConn}]
  <2>1. <<>> \in Seq(Requests)
    OBVIOUS
  <2>. QED BY <1>1, <2>1 DEF CoreOK, WentDown, Gone
<1>5. /\ UNCHANGED <<clients, id, out, inq, events, mask, backlog, restarts, seqno>>
      /\ gone' \subseteq Ctx
  BY <1>1 DEF CoreOK, WentDown, Gone, clientVars, routerVars
<1>6. CoreOK'
  BY <1>1, <1>3, <1>4, <1>5 DEF CoreOK
<1>. QED BY <1>2, <1>6, TypesAgain

(* Accepting a client keeps the types.                                     *)
LEMMA ConnectTyped ==
  ASSUME TypeOK, NEW c \in Conn, LncConnect(c)
  PROVE  TypeOK'
<1>1. CoreOK /\ HistoryOK /\ c \in backlog
  BY TypeParts DEF LncConnect
<1>2. CASE /\ ClientCreate(c) /\ MaskInit(c) /\ UNCHANGED <<id, inq, owed>>
  <2>1. c \notin Range(clients) /\ clients \in Seq(Conn) /\ IsInjective(clients)
    BY <1>1 DEF CoreOK
  <2>2. /\ clients' \in Seq(Conn) /\ Range(clients') = Range(clients) \cup {c}
        /\ IsInjective(clients')
    BY <1>2, <2>1, AppendFacts DEF ClientCreate
  <2>3. CoreOK' /\ HistoryOK'
    BY <1>1, <1>2, <2>2 DEF LncConnect, MaskInit, CoreOK, HistoryOK, libVars
  <2>. QED BY <2>3, TypesAgain
<1>3. CASE /\ id' = [id EXCEPT ![c] = NoIdentity] /\ inq' = [inq EXCEPT ![c] = <<>>]
           /\ owed' \subseteq owed /\ UNCHANGED <<clients, mask>>
  <2>1. <<>> \in Seq(Requests)
    OBVIOUS
  <2>2. CoreOK' /\ HistoryOK'
    BY <1>1, <1>3, <2>1 DEF LncConnect, CoreOK, HistoryOK, libVars
  <2>. QED BY <2>2, TypesAgain
<1>. QED BY <1>2, <1>3 DEF LncConnect

(* Dropping a client keeps the types and all other clients.                *)
LEMMA DisconnectTyped ==
  ASSUME TypeOK, NEW c \in Conn, LncClosed(c)
  PROVE  /\ TypeOK' /\ Range(clients') = Range(clients) \ {c}
<1>1. CoreOK /\ HistoryOK /\ c \in Range(clients) /\ ClientDestroy(c)
  BY TypeParts DEF LncClosed
<1>2. clients' \in Seq(Conn) /\ IsInjective(clients') /\ Range(clients') = Range(clients) \ {c}
  BY <1>1, RemoveFirstFacts DEF CoreOK, ClientDestroy
<1>3. <<>> \in Seq(Messages)
  OBVIOUS
<1>4. CoreOK' /\ HistoryOK'
  BY <1>1, <1>2, <1>3
     DEF LncClosed, ClientDestroy, CoreOK, HistoryOK, libVars, routerVars, historyVars
<1>. QED BY <1>2, <1>4, TypesAgain

(* Serving a request keeps the types.                                      *)
LEMMA ServeTyped ==
  ASSUME TypeOK, NEW c \in Conn, Served(c), Registers(c)
  PROVE  TypeOK'
<1>1. CoreOK /\ HistoryOK
  BY TypeParts
<1>2. inq' \in [Conn -> Seq(Requests)]
  <2>1. Tail(inq[c]) \in Seq(Requests)
    BY HeadOfInq DEF Served
  <2>. QED BY <1>1, <2>1 DEF CoreOK, Served
<1>3. events' \in Seq(Event) /\ IsInjective(events') /\ Len(events') \in 1 .. MaxEvents
  <2>1. events' \in Seq(Event) /\ IsInjective(events') /\ Len(events') <= MaxEvents
        /\ Len(events) <= Len(events') /\ Len(events) \in 1 .. MaxEvents /\ MaxEvents \in Nat
    BY <1>1, EventRouterAssumption DEF CoreOK, Registers, Extends
  <2>2. Len(events') \in Nat
    BY <2>1, LenProperties
  <2>. QED BY <2>1, <2>2
<1>4. mask' \in [Conn -> SUBSET (0 .. MaxEvents - 1)]
  BY <1>1 DEF CoreOK, Registers, SetBits
<1>5. CoreOK' /\ HistoryOK'
  BY <1>1, <1>2, <1>3, <1>4 DEF CoreOK, HistoryOK, Served, libVars, historyVars
<1>. QED BY <1>5, TypesAgain

(* The registry the daemon starts with.                                    *)
LEMMA OneEvent ==
  /\ <<StoppedEvent>> \in Seq(Event) /\ IsInjective(<<StoppedEvent>>)
  /\ Len(<<StoppedEvent>>) \in 1 .. MaxEvents /\ Range(<<StoppedEvent>>) = {StoppedEvent}
<1>1. /\ <<StoppedEvent>> \in Seq(Event) /\ Len(<<StoppedEvent>>) = 1
      /\ DOMAIN <<StoppedEvent>> = {1} /\ <<StoppedEvent>>[1] = StoppedEvent
  BY EventRouterAssumption
<1>. QED BY <1>1, EventRouterAssumption DEF IsInjective, Range

(* A restart of the daemon keeps the types.                                *)
LEMMA RestartTyped ==
  ASSUME TypeOK, Restart
  PROVE  TypeOK'
<1>1. CoreOK /\ HistoryOK
  BY TypeParts
<1>2. /\ <<>> \in Seq(Requests) /\ <<>> \in Seq(Conn) /\ IsInjective(<<>>)
      /\ Range(<<>>) = {}
  BY DEF IsInjective, Range
<1>3. CoreOK' /\ HistoryOK'
  BY <1>1, <1>2, OneEvent DEF Restart, CoreOK, HistoryOK, libVars
<1>. QED BY <1>3, TypesAgain

(* The initial states have the right types.                                *)
LEMMA InitTyped ==
  ASSUME Init
  PROVE  TypeOK
<1>1. /\ <<>> \in Seq(Requests) /\ <<>> \in Seq(Messages) /\ <<>> \in Seq(Conn)
      /\ IsInjective(<<>>) /\ Range(<<>>) = {} /\ <<>> \in Seq(1 .. MaxSeq)
  BY DEF IsInjective, Range
<1>2. 1 \in 1 .. MaxSeq + 1 /\ 0 \in Nat
  BY EventSystemAssumption
<1>3. CoreOK
  BY <1>1, <1>2, OneEvent, EventSystemAssumption DEF Init, RouterInit, ClientsInit, LibInit, CoreOK
<1>4. HistoryOK
  BY DEF Init, HistoryOK
<1>. QED BY <1>3, <1>4, TypeParts

-----------------------------------------------------------------------------
(* Every action keeps the numbers: a request is numbered above all of      *)
(* them, and an answer moves one from the queue to the callbacks.          *)
NumbersOK(p) ==
  Increasing(Numbers(p)) /\ \A i \in DOMAIN Numbers(p) : Numbers(p)[i] < seqno[p]

(* The two invariants about numbers, context by context.                   *)
LEMMA NumbersAll == CallbacksInOrder /\ NumbersUsed <=> \A p \in Ctx : NumbersOK(p)
BY DEF CallbacksInOrder, NumbersUsed, NumbersOK, Numbers

(* The same, for the state after a step.                                   *)
LEMMA NumbersAllAgain ==
  ASSUME \A p \in Ctx : NumbersOK(p)'
  PROVE  CallbacksInOrder' /\ NumbersUsed'
BY DEF CallbacksInOrder, NumbersUsed, NumbersOK, Numbers

(* A context with the same numbers as before keeps its invariant.          *)
LEMMA NumbersKept ==
  ASSUME NEW q \in Ctx, NumbersOK(q), Numbers(q)' = Numbers(q), seqno'[q] = seqno[q]
  PROVE  NumbersOK(q)'
BY DEF NumbersOK

(* A context whose queue and callbacks stay has the same numbers.          *)
LEMMA NumbersSame ==
  ASSUME NEW q \in Ctx, pendq'[q] = pendq[q], notified'[q] = notified[q]
  PROVE  Numbers(q)' = Numbers(q)
BY DEF Numbers

(* A larger number at the end of growing numbers.                          *)
LEMMA IncreasingAppend ==
  ASSUME NEW w \in Seq(Nat), Increasing(w), NEW n \in Nat, \A i \in DOMAIN w : w[i] < n
  PROVE  /\ Increasing(Append(w, n))
         /\ \A i \in DOMAIN Append(w, n) : Append(w, n)[i] < n + 1
<1> DEFINE t == Append(w, n)
<1>1. /\ Len(w) \in Nat /\ DOMAIN w = 1 .. Len(w) /\ t \in Seq(Nat) /\ Len(t) = Len(w) + 1
      /\ t[Len(w) + 1] = n /\ \A i \in 1 .. Len(w) : t[i] = w[i] /\ w[i] \in Nat
  BY LenProperties, AppendProperties, ElementOfSeq
<1> HIDE DEF t
<1>2. DOMAIN t = 1 .. Len(w) + 1
  BY <1>1, LenProperties
<1>3. \A i \in 1 .. Len(w) + 1 : i \in 1 .. Len(w) \/ i = Len(w) + 1
  BY <1>1
<1>4. \A i \in 1 .. Len(w) : t[i] < n
  BY <1>1
<1>5. Increasing(t)
  <2>1. ASSUME NEW i \in 1 .. Len(w) + 1, NEW j \in 1 .. Len(w) + 1, i < j PROVE t[i] < t[j]
    <3>1. i \in 1 .. Len(w)
      BY <1>1, <2>1
    <3>2. CASE j \in 1 .. Len(w)
      BY <1>1, <2>1, <3>1, <3>2 DEF Increasing
    <3>3. CASE j = Len(w) + 1
      BY <1>1, <1>4, <3>1, <3>3
    <3>. QED BY <1>3, <3>2, <3>3
  <2>. QED BY <1>2, <2>1 DEF Increasing
<1>6. \A i \in DOMAIN t : t[i] < n + 1
  BY <1>1, <1>2, <1>3, <1>4
<1>. QED BY <1>5, <1>6 DEF t

(* Two ways to put a number between the callbacks and the queue.           *)
LEMMA Regroup ==
  ASSUME NEW S, NEW a \in Seq(S), NEW b \in Seq(S), NEW x \in S
  PROVE  /\ a \o Append(b, x) = Append(a \o b, x)
         /\ (a \o <<x>>) \o b = a \o (<<x>> \o b)
         /\ (a \o b) \o <<>> = a \o b
<1>1. <<x>> \in Seq(S) /\ Len(<<x>>) = 1
  OBVIOUS
<1> DEFINE u == <<x>>
<1>2. u \in Seq(S)
  BY <1>1
<1>3. Append(b, x) = b \o u
  BY AppendIsConcat
<1>4. a \o b \in Seq(S)
  BY ConcatProperties
<1>5. Append(a \o b, x) = (a \o b) \o u
  BY <1>4, AppendIsConcat
<1> HIDE DEF u
<1>6. (a \o b) \o u = a \o (b \o u) /\ (a \o u) \o b = a \o (u \o b)
  <2>1. (a \o b) \o u = a \o (b \o u)
    BY <1>2, ConcatAssociative
  <2>2. (a \o u) \o b = a \o (u \o b)
    BY <1>2, ConcatAssociative
  <2>. QED BY <2>1, <2>2
<1>7. (a \o b) \o <<>> = a \o b
  BY <1>4, ConcatEmptySeq
<1>. QED BY <1>3, <1>5, <1>6, <1>7 DEF u

(* A new request has a number above all before it.                         *)
LEMMA AskNumbers ==
  ASSUME QueueInv, NEW p \in Ctx, NEW req \in Requests, req.seqno = seqno[p], Asks(p, req)
  PROVE  CallbacksInOrder' /\ NumbersUsed'
<1>1. \A q \in Ctx : NumbersOK(q)
  BY NumbersAll DEF QueueInv
<1>2. /\ pendq \in [Ctx -> Seq(Requests)] /\ seqno \in [Ctx -> 1 .. MaxSeq + 1]
      /\ MaxSeq \in Nat /\ TypeOK
  BY EventSystemAssumption DEF QueueInv, TypeOK
<1>3. \/ UNCHANGED pendq
      \/ pendq' = [pendq EXCEPT ![p] = Append(@, req)]
  BY DEF Asks, Opened, Queued, Unsent
<1>4. notified' = notified /\ seqno' = [seqno EXCEPT ![p] = @ + 1]
  BY DEF Asks
<1>5. ASSUME NEW q \in Ctx, q # p PROVE NumbersOK(q)'
  <2>1. pendq'[q] = pendq[q] /\ seqno'[q] = seqno[q]
    BY <1>2, <1>3, <1>4, <1>5
  <2>. QED BY <1>1, <1>4, <2>1, NumbersKept, NumbersSame
<1>6. NumbersOK(p)'
  <2>1. seqno'[p] = seqno[p] + 1 /\ seqno[p] \in Nat
    BY <1>2, <1>4
  <2>2. Numbers(p) \in Seq(Nat) /\ DOMAIN Numbers(p) = 1 .. Len(Numbers(p))
    <3>1. Numbers(p) \in Seq(1 .. MaxSeq)
      BY <1>2, NumbersFacts
    <3>2. 1 .. MaxSeq \subseteq Nat
      OBVIOUS
    <3>3. Numbers(p) \in Seq(Nat)
      BY <3>1, <3>2, SeqMonotonic
    <3>. QED BY <3>3, LenProperties
  <2>3. CASE UNCHANGED pendq
    <3>1. Numbers(p)' = Numbers(p)
      BY <1>4, <2>3, NumbersSame
    <3>2. \A i \in DOMAIN Numbers(p) : Numbers(p)[i] \in Nat /\ Numbers(p)[i] < seqno[p]
      BY <1>1, <2>2, ElementOfSeq DEF NumbersOK
    <3>. QED BY <1>1, <2>1, <3>1, <3>2 DEF NumbersOK
  <2>4. CASE pendq' = [pendq EXCEPT ![p] = Append(@, req)]
    <3>1. Numbers(p)' = notified[p] \o Seqnos(Append(pendq[p], req))
      BY <1>2, <1>4, <2>4 DEF Numbers
    <3>2. /\ Seqnos(Append(pendq[p], req)) = Append(Seqnos(pendq[p]), seqno[p])
          /\ Seqnos(pendq[p]) \in Seq(1 .. MaxSeq) /\ notified[p] \in Seq(1 .. MaxSeq)
          /\ seqno[p] \in 1 .. MaxSeq
      <4> DEFINE b == pendq[p]
      <4>1. b \in Seq(Requests) /\ notified[p] \in Seq(1 .. MaxSeq)
        BY <1>2, Shape
      <4>2. seqno[p] \in 1 .. MaxSeq
        BY RequestsTyped
      <4> HIDE DEF b
      <4>3. Seqnos(Append(b, req)) = Append(Seqnos(b), req.seqno) /\ Seqnos(b) \in Seq(1 .. MaxSeq)
        BY <4>1, SeqnosFacts
      <4>. QED BY <4>1, <4>2, <4>3 DEF b
    <3>3. Numbers(p)' = Append(Numbers(p), seqno[p])
      <4> DEFINE a == notified[p]
                 b == Seqnos(pendq[p])
      <4>1. Numbers(p)' = a \o Append(b, seqno[p]) /\ Numbers(p) = a \o b
        BY <3>1, <3>2 DEF Numbers
      <4>2. a \in Seq(1 .. MaxSeq) /\ b \in Seq(1 .. MaxSeq)
        BY <3>2
      <4> HIDE DEF a, b
      <4>3. a \o Append(b, seqno[p]) = Append(a \o b, seqno[p])
        BY <3>2, <4>2, Regroup
      <4>. QED BY <4>1, <4>3
    <3>4. /\ Increasing(Append(Numbers(p), seqno[p]))
          /\ \A i \in DOMAIN Append(Numbers(p), seqno[p]) :
               Append(Numbers(p), seqno[p])[i] < seqno[p] + 1
      BY <1>1, <2>1, <2>2, IncreasingAppend DEF NumbersOK
    <3>. QED BY <2>1, <3>3, <3>4 DEF NumbersOK
  <2>. QED BY <1>3, <2>3, <2>4
<1>. QED BY <1>5, <1>6, NumbersAllAgain

(* A callback moves a number from the front of the queue to the end of the *)
(* callbacks.                                                              *)
LEMMA ReceiveNumbers ==
  ASSUME QueueInv, NEW p \in Ctx, Received(p)
  PROVE  CallbacksInOrder' /\ NumbersUsed'
<1> DEFINE m == Head(out[link[p]])
<1>1. \A q \in Ctx : NumbersOK(q)
  BY NumbersAll DEF QueueInv
<1>2. /\ pendq \in [Ctx -> Seq(Requests)] /\ notified \in [Ctx -> Seq(1 .. MaxSeq)]
      /\ TypeOK /\ seqno' = seqno
  BY DEF QueueInv, TypeOK, Received
<1>3. CASE GotEvent(p)
  <2>1. \A q \in Ctx : Numbers(q)' = Numbers(q)
    BY <1>3, NumbersSame DEF GotEvent
  <2>. QED BY <1>1, <1>2, <2>1, NumbersKept, NumbersAllAgain
<1>4. CASE GotStatus(p)
  <2>1. /\ pendq[p] # <<>> /\ m.seqno = Head(pendq[p]).seqno
        /\ pendq' = [pendq EXCEPT ![p] = Tail(@)]
        /\ notified' = [notified EXCEPT ![p] = @ \o <<m.seqno>>]
        /\ m.seqno \in 1 .. MaxSeq
    BY <1>4, MessagesTyped DEF GotStatus
  <2>2. Numbers(p)' = Numbers(p)
    <3> DEFINE a == notified[p]
               b == Seqnos(Tail(pendq[p]))
    <3>1. Numbers(p)' = (a \o <<m.seqno>>) \o b
      BY <1>2, <2>1 DEF Numbers
    <3>2. Numbers(p) = a \o (<<m.seqno>> \o b)
      BY <1>2, <2>1, SeqnosFacts DEF Numbers
    <3>3. a \in Seq(1 .. MaxSeq) /\ b \in Seq(1 .. MaxSeq)
      <4>1. Tail(pendq[p]) \in Seq(Requests)
        BY <1>2, <2>1, HeadTailProperties
      <4>. QED BY <1>2, <4>1, SeqnosFacts
    <3> HIDE DEF a, b, m
    <3>4. (a \o <<m.seqno>>) \o b = a \o (<<m.seqno>> \o b)
      BY <2>1, <3>3, Regroup
    <3>. QED BY <3>1, <3>2, <3>4
  <2>3. ASSUME NEW q \in Ctx, q # p PROVE Numbers(q)' = Numbers(q)
    BY <1>2, <2>1, <2>3, NumbersSame
  <2>. QED BY <1>1, <1>2, <2>2, <2>3, NumbersKept, NumbersAllAgain
<1>. QED BY <1>3, <1>4 DEF Received

(* So does the end of a connection with all of them; a destroyed context   *)
(* is called back for none.                                                *)
LEMMA EndNumbers ==
  ASSUME QueueInv, NEW p \in Ctx, WentDown(p) \/ Gone(p)
  PROVE  CallbacksInOrder' /\ NumbersUsed'
<1>1. \A q \in Ctx : NumbersOK(q)
  BY NumbersAll DEF QueueInv
<1>2. /\ pendq \in [Ctx -> Seq(Requests)] /\ notified \in [Ctx -> Seq(1 .. MaxSeq)]
      /\ TypeOK /\ seqno' = seqno /\ pendq' = [pendq EXCEPT ![p] = <<>>]
  BY DEF QueueInv, TypeOK, WentDown, Gone
<1>3. ASSUME NEW q \in Ctx, q # p PROVE NumbersOK(q)'
  <2>1. notified'[q] = notified[q] /\ pendq'[q] = pendq[q]
    BY <1>2, <1>3 DEF WentDown, Gone
  <2>. QED BY <1>1, <1>2, <2>1, NumbersKept, NumbersSame
<1>4. Numbers(p)' = notified'[p] \o <<>>
  <2>1. Seqnos(<<>>) = <<>>
    BY DEF Seqnos
  <2>. QED BY <1>2, <2>1 DEF Numbers
<1>5. CASE WentDown(p)
  <2>1. notified'[p] = Numbers(p)
    BY <1>2, <1>5 DEF WentDown, Numbers
  <2>2. Numbers(p) \o <<>> = Numbers(p)
    <3>1. Numbers(p) \in Seq(1 .. MaxSeq)
      BY <1>2, NumbersFacts
    <3>. QED BY <3>1, ConcatEmptySeq
  <2>3. NumbersOK(p)'
    BY <1>1, <1>2, <1>4, <2>1, <2>2, NumbersKept
  <2>. QED BY <1>3, <2>3, NumbersAllAgain
<1>6. CASE Gone(p)
  <2>1. notified'[p] = notified[p]
    BY <1>6 DEF Gone
  <2>2. Numbers(p)' = notified[p]
    BY <1>2, <1>4, <2>1, ConcatEmptySeq
  <2>3. /\ DOMAIN notified[p] = 1 .. Len(notified[p]) /\ Len(notified[p]) \in Nat
        /\ Len(pendq[p]) \in Nat
    BY <1>2, LenProperties
  <2>4. \A i \in DOMAIN notified[p] : i \in DOMAIN Numbers(p) /\ Numbers(p)[i] = notified[p][i]
    BY <1>2, <2>3, NumbersFacts
  <2>5. NumbersOK(p)'
    BY <1>1, <1>2, <2>2, <2>4 DEF NumbersOK, Increasing
  <2>. QED BY <1>3, <2>5, NumbersAllAgain
<1>. QED BY <1>5, <1>6

(* The daemon's own steps do not touch the numbers.                        *)
LEMMA OtherNumbers ==
  ASSUME QueueInv, UNCHANGED <<pendq, notified, seqno>>
  PROVE  CallbacksInOrder' /\ NumbersUsed'
<1>1. \A q \in Ctx : NumbersOK(q) /\ Numbers(q)' = Numbers(q)
  BY NumbersAll, NumbersSame DEF QueueInv
<1>. QED BY <1>1, NumbersKept, NumbersAllAgain

-----------------------------------------------------------------------------
(* Every action keeps queue and connection in agreement.  The contexts     *)
(* that an action is not about are on other connections.                   *)
LEMMA AgreeKept ==
  ASSUME NEW q \in Ctx, Agree(q), link'[q] = link[q], Answers(q)' = Answers(q),
         pendq'[q] = pendq[q],
         link[q] \in Open' => link[q] \in Open /\ inq'[link[q]] = inq[link[q]]
  PROVE  Agree(q)'
BY DEF Agree

(* A context's unread answers stay with its connection's messages.         *)
LEMMA AnswersKept ==
  ASSUME NEW q \in Ctx, link'[q] = link[q], out'[link[q]] = out[link[q]]
  PROVE  Answers(q)' = Answers(q)
BY DEF Answers

(* An event that is sent on a connection is no answer.                     *)
LEMMA AnswersFed ==
  ASSUME TypeOK, NEW d \in Conn, NEW w, Fed(w, d)
  PROVE  Keep(w, Replies) = Keep(out[d], Replies)
<1>1. CASE w = out[d]
  BY <1>1
<1>2. ASSUME NEW e \in Event, NEW x \in Payloads, w = Append(out[d], EventMsg(e, x))
      PROVE  Keep(w, Replies) = Keep(out[d], Replies)
  <2> DEFINE s == out[d]
             m == EventMsg(e, x)
  <2>1. s \in Seq(Messages) /\ m \in Messages /\ m \notin Replies
    BY MessagesTyped, Shape
  <2> HIDE DEF s, m
  <2>2. Keep(Append(s, m), Replies) = Keep(s, Replies)
    BY <2>1, KeepAppend
  <2>. QED BY <1>2, <2>2 DEF s, m
<1>. QED BY <1>1, <1>2 DEF Fed

(* The answers on a connection are statuses.                               *)
LEMMA AnswersTyped ==
  ASSUME TypeOK, NEW d \in Conn
  PROVE  Keep(out[d], Replies) \in Seq(Replies)
<1> DEFINE s == out[d]
<1>1. s \in Seq(Messages)
  BY Shape
<1> HIDE DEF s
<1>2. Keep(s, Replies) \in Seq(Messages \cap Replies)
  BY <1>1, KeepType
<1>3. Keep(s, Replies) \in Seq(Replies)
  BY <1>2, SeqMonotonic
<1>. QED BY <1>3 DEF s

AgreesAgain == Links' /\ AnsweredFirst'

(* A new connection starts with the one request it was opened for.         *)
LEMMA OpenedAgrees ==
  ASSUME QueueInv, NEW p \in Ctx, NEW req \in Requests, NEW c \in Conn, Opened(p, req, c),
         UNCHANGED clients
  PROVE  AgreesAgain
<1>1. /\ link \in [Ctx -> Conn \cup {NoConn}] /\ id \in [Conn -> Identity \cup {NoIdentity}]
      /\ inq \in [Conn -> Seq(Requests)] /\ out \in [Conn -> Seq(Messages)]
      /\ pendq \in [Ctx -> Seq(Requests)] /\ NoConn \notin Conn
      /\ Open' = Open \cup {c} /\ pendq[p] = <<>> /\ c # NoConn
  BY EventSystemAssumption DEF QueueInv, TypeOK, Links, Opened, Open
<1>2. /\ link'[p] = c /\ id'[c] = Ident[p] /\ inq'[c] = <<req>> /\ out'[c] = <<>>
      /\ pendq'[p] = <<req>>
      /\ \A d \in Conn : d # c => id'[d] = id[d] /\ inq'[d] = inq[d] /\ out'[d] = out[d]
      /\ \A q \in Ctx : q # p => link'[q] = link[q] /\ pendq'[q] = pendq[q]
      /\ \A q \in Ctx : link[q] # c
  BY <1>1 DEF Opened
<1>3. Links'
  <2>1. ASSUME NEW q \in Ctx, NEW x \in Ctx, link'[q] = link'[x], link'[q] # NoConn
        PROVE  q = x
    <3>1. q # p => link'[q] = link[q] /\ link[q] # c
      BY <1>2
    <3>2. x # p => link'[x] = link[x] /\ link[x] # c
      BY <1>2
    <3>3. CASE q # p /\ x # p
      BY <2>1, <3>1, <3>2, <3>3 DEF QueueInv, Links
    <3>. QED BY <1>2, <2>1, <3>1, <3>2, <3>3
  <2>2. ASSUME NEW q \in Ctx, link'[q] \in Open' PROVE id'[link'[q]] = Ident[q]
    <3>1. CASE q = p
      BY <1>2, <3>1
    <3>2. CASE q # p
      <4>1. link'[q] = link[q] /\ link[q] # c /\ link[q] \in Open /\ link[q] \in Conn
        BY <1>1, <1>2, <2>2, <3>2, Shape DEF QueueInv
      <4>. QED BY <1>2, <4>1 DEF QueueInv, Links
    <3>. QED BY <3>1, <3>2
  <2>3. \A q \in Ctx : link'[q] = NoConn => pendq'[q] = <<>>
    BY <1>1, <1>2 DEF QueueInv, Links
  <2>. QED BY <2>1, <2>2, <2>3 DEF Links
<1>4. ASSUME NEW q \in Ctx, q # p, link'[q] # NoConn PROVE Agree(q)'
  <2>1. link[q] \in Conn /\ link[q] # c /\ link'[q] = link[q]
    BY <1>1, <1>2, <1>4
  <2>2. Answers(q)' = Answers(q) /\ Agree(q)
    BY <1>1, <1>2, <1>4, <2>1, AnswersKept DEF QueueInv, AnsweredFirst
  <2>. QED BY <1>1, <1>2, <1>4, <2>1, <2>2, AgreeKept
<1>5. Agree(p)'
  <2>1. Answers(p)' = <<>>
    BY <1>2, KeepEmpty DEF Answers
  <2>2. Len(<<>>) = 0 /\ Len(<<req>>) = 1 /\ <<req>>[1] = req
    OBVIOUS
  <2>3. \A i \in 1 .. 1 : 0 + i = 1 /\ i = 1
    OBVIOUS
  <2>. QED BY <1>2, <2>1, <2>2, <2>3 DEF Agree
<1>. QED BY <1>3, <1>4, <1>5 DEF AgreesAgain, AnsweredFirst

(* A request is put at the end of the queue and of the connection alike.   *)
LEMMA QueuedAgrees ==
  ASSUME QueueInv, NEW p \in Ctx, NEW req \in Requests, Queued(p, req), UNCHANGED clients
  PROVE  AgreesAgain
<1> DEFINE c == link[p]
<1>1. /\ link \in [Ctx -> Conn \cup {NoConn}] /\ inq \in [Conn -> Seq(Requests)]
      /\ pendq \in [Ctx -> Seq(Requests)] /\ NoConn \notin Conn
      /\ Open' = Open /\ c \in Open /\ c \in Conn /\ UNCHANGED <<link, id, out>>
  BY EventSystemAssumption, Shape DEF QueueInv, TypeOK, Queued, Open
<1>2. /\ inq'[c] = Append(inq[c], req) /\ pendq'[p] = Append(pendq[p], req)
      /\ \A d \in Conn : d # c => inq'[d] = inq[d]
      /\ \A q \in Ctx : q # p => pendq'[q] = pendq[q]
  BY <1>1 DEF Queued
<1>3. Links'
  BY <1>1, <1>2 DEF QueueInv, Links
<1>4. ASSUME NEW q \in Ctx, q # p, link'[q] # NoConn PROVE Agree(q)'
  <2>1. link[q] \in Conn /\ link[q] # c /\ Agree(q)
    BY <1>1, <1>4 DEF QueueInv, Links, AnsweredFirst
  <2>2. Answers(q)' = Answers(q)
    BY <1>1, AnswersKept
  <2>. QED BY <1>1, <1>2, <1>4, <2>1, <2>2, AgreeKept
<1>5. Agree(p)'
  <2> DEFINE a == Answers(p)
             s == pendq[p]
             t == inq[c]
             k == Len(a)
  <2>1. Answers(p)' = a
    BY <1>1, AnswersKept
  <2>2. /\ Len(a) \in Nat /\ s \in Seq(Requests) /\ t \in Seq(Requests)
        /\ Len(s) \in Nat /\ Len(t) \in Nat
    BY <1>1, AnswersTyped, LenProperties DEF QueueInv, Answers
  <2>3. /\ Len(s) = Len(a) + Len(t)
        /\ \A i \in 1 .. Len(t) : t[i] = s[Len(a) + i]
        /\ \A i \in 1 .. Len(a) : a[i].seqno = s[i].seqno
    BY <1>1 DEF QueueInv, AnsweredFirst, Agree
  <2>4. pendq'[p] = Append(s, req) /\ inq'[c] = Append(t, req) /\ link'[p] = c
    BY <1>1, <1>2
  <2> HIDE DEF a, s, t, c
  <2>5. /\ Len(Append(s, req)) = Len(s) + 1 /\ Len(Append(t, req)) = Len(t) + 1
        /\ Append(s, req)[Len(s) + 1] = req /\ Append(t, req)[Len(t) + 1] = req
        /\ \A i \in 1 .. Len(s) : Append(s, req)[i] = s[i]
        /\ \A i \in 1 .. Len(t) : Append(t, req)[i] = t[i]
    BY <2>2, AppendProperties
  <2>6. ASSUME NEW i \in 1 .. Len(t) + 1
        PROVE  Append(t, req)[i] = Append(s, req)[Len(a) + i]
    <3>1. CASE i = Len(t) + 1
      <4>1. Len(a) + i = Len(s) + 1
        BY <2>2, <2>3, <3>1
      <4>. QED BY <2>5, <3>1, <4>1
    <3>2. CASE i # Len(t) + 1
      <4>1. i \in 1 .. Len(t) /\ Len(a) + i \in 1 .. Len(s)
        BY <2>2, <2>3, <3>2
      <4>. QED BY <2>3, <2>5, <4>1
    <3>. QED BY <3>1, <3>2
  <2>7. \A i \in 1 .. Len(a) : a[i].seqno = Append(s, req)[i].seqno
    <3>1. \A i \in 1 .. Len(a) : i \in 1 .. Len(s)
      BY <2>2, <2>3
    <3>. QED BY <2>3, <2>5, <3>1
  <2>8. Len(a) <= Len(s) + 1 /\ Len(s) + 1 = Len(a) + (Len(t) + 1)
    BY <2>2, <2>3
  <2>. QED BY <2>1, <2>4, <2>5, <2>6, <2>7, <2>8 DEF Agree
<1>. QED BY <1>1, <1>3, <1>4, <1>5 DEF AgreesAgain, AnsweredFirst

(* Steps that leave queues, messages and the open connections' requests    *)
(* alone.                                                                  *)
LEMMA SameQueues ==
  ASSUME QueueInv, UNCHANGED <<link, out, pendq>>,
         \A q \in Ctx : link[q] \in Open' =>
           link[q] \in Open /\ id'[link[q]] = id[link[q]] /\ inq'[link[q]] = inq[link[q]]
  PROVE  AgreesAgain
<1>1. Links'
  BY DEF QueueInv, Links
<1>2. ASSUME NEW q \in Ctx, link'[q] # NoConn PROVE Agree(q)'
  <2>1. Answers(q)' = Answers(q) /\ Agree(q)
    BY <1>2, AnswersKept DEF QueueInv, AnsweredFirst
  <2>. QED BY <2>1, AgreeKept
<1>. QED BY <1>1, <1>2 DEF AgreesAgain, AnsweredFirst

(* Making a request keeps queue and connection in agreement.               *)
LEMMA AskAgrees ==
  ASSUME QueueInv, NEW p \in Ctx, NEW req \in Requests, Asks(p, req)
  PROVE  AgreesAgain
<1>1. UNCHANGED clients
  BY DEF Asks
<1>2. CASE Unsent(p)
  <2>1. Open' = Open /\ UNCHANGED <<link, out, pendq, id, inq>>
    BY <1>1, <1>2 DEF Open, Unsent
  <2>. QED BY <2>1, SameQueues
<1>. QED BY <1>1, <1>2, OpenedAgrees, QueuedAgrees DEF Asks

(* Reading an answer takes the first request off the queue with it.        *)
LEMMA ReceiveAgrees ==
  ASSUME QueueInv, NEW p \in Ctx, Received(p)
  PROVE  AgreesAgain
<1> DEFINE c == link[p]
           m == Head(out[c])
<1>1. /\ link \in [Ctx -> Conn \cup {NoConn}] /\ out \in [Conn -> Seq(Messages)]
      /\ pendq \in [Ctx -> Seq(Requests)] /\ NoConn \notin Conn /\ TypeOK
      /\ Open' = Open /\ c \in Conn /\ UNCHANGED <<link, id, inq>>
      /\ out[c] # <<>> /\ out' = [out EXCEPT ![c] = Tail(@)]
  BY EventSystemAssumption DEF QueueInv, TypeOK, Received, Open, routerVars
<1>2. /\ out'[c] = Tail(out[c]) /\ \A d \in Conn : d # c => out'[d] = out[d]
      /\ \A q \in Ctx : q # p => pendq'[q] = pendq[q]
  BY <1>1 DEF Received, GotStatus, GotEvent
<1>3. Links'
  <2>1. pendq'[p] # pendq[p] => link[p] # NoConn
    BY <1>1
  <2>. QED BY <1>1, <1>2, <2>1 DEF QueueInv, Links
<1>4. ASSUME NEW q \in Ctx, q # p, link'[q] # NoConn PROVE Agree(q)'
  <2>1. link[q] \in Conn /\ link[q] # c /\ Agree(q)
    BY <1>1, <1>4 DEF QueueInv, Links, AnsweredFirst
  <2>2. Answers(q)' = Answers(q)
    BY <1>1, <1>2, <2>1, AnswersKept
  <2>. QED BY <1>1, <1>2, <1>4, <2>1, <2>2, AgreeKept
<1>5. Agree(p) /\ link[p] # NoConn
  BY <1>1 DEF QueueInv, AnsweredFirst
<1> DEFINE k == Keep(Tail(out[c]), Replies)
<1>6. /\ Answers(p)' = k /\ k \in Seq(Replies)
      /\ Answers(p) = IF m \in Replies THEN <<m>> \o k ELSE k
  BY <1>1, <1>2, AnswersAfter DEF Answers
<1>7. CASE GotEvent(p)
  <2>1. Answers(p)' = Answers(p) /\ pendq' = pendq
    BY <1>6, <1>7 DEF GotEvent
  <2>2. Agree(p)'
    BY <1>1, <1>5, <2>1, AgreeKept
  <2>. QED BY <1>3, <1>4, <2>2 DEF AgreesAgain, AnsweredFirst
<1>8. CASE GotStatus(p)
  <2> DEFINE s == pendq[p]
             t == inq[c]
  <2>1. m \in Replies /\ s # <<>> /\ pendq'[p] = Tail(s) /\ s \in Seq(Requests)
        /\ link'[p] = c /\ inq'[c] = t /\ t \in Seq(Requests)
    BY <1>1, <1>8, Shape DEF GotStatus
  <2>2. Answers(p) = <<m>> \o k
    BY <1>6, <2>1
  <2>3. /\ Len(<<m>> \o k) <= Len(s)
        /\ \A i \in 1 .. Len(<<m>> \o k) : (<<m>> \o k)[i].seqno = s[i].seqno
        /\ c \in Open => /\ Len(s) = Len(<<m>> \o k) + Len(t)
                         /\ \A i \in 1 .. Len(t) : t[i] = s[Len(<<m>> \o k) + i]
    BY <1>5, <2>2 DEF Agree
  <2>4. k \in Seq(Replies) /\ m \in Replies
    BY <1>6, <2>1
  <2>5. c \in Open' <=> c \in Open
    BY <1>1
  <2> HIDE DEF k, m, s, t, c
  <2>6. /\ Len(k) \in Nat /\ Len(s) \in Nat /\ Len(t) \in Nat /\ Len(<<m>> \o k) = 1 + Len(k)
        /\ \A i \in 1 .. Len(k) : (<<m>> \o k)[1 + i] = k[i]
    <3>1. <<m>> \in Seq(Replies) /\ Len(<<m>>) = 1
      BY <2>4
    <3>2. /\ Len(<<m>> \o k) = Len(<<m>>) + Len(k)
          /\ \A i \in 1 .. Len(<<m>>) + Len(k) :
               (<<m>> \o k)[i] = IF i <= Len(<<m>>) THEN <<m>>[i] ELSE k[i - Len(<<m>>)]
      <4> DEFINE u == <<m>>
      <4>1. u \in Seq(Replies)
        BY <3>1
      <4> HIDE DEF u
      <4>2. /\ Len(u \o k) = Len(u) + Len(k)
            /\ \A i \in 1 .. Len(u) + Len(k) :
                 (u \o k)[i] = IF i <= Len(u) THEN u[i] ELSE k[i - Len(u)]
        BY <2>4, <4>1, ConcatProperties
      <4>. QED BY <4>2 DEF u
    <3>3. Len(k) \in Nat /\ Len(s) \in Nat /\ Len(t) \in Nat
      BY <2>1, <2>4, LenProperties
    <3>4. ASSUME NEW i \in 1 .. Len(k) PROVE (<<m>> \o k)[1 + i] = k[i]
      <4>1. 1 + i \in 1 .. 1 + Len(k) /\ ~(1 + i <= 1) /\ (1 + i) - 1 = i
        BY <3>3
      <4>. QED BY <3>1, <3>2, <4>1
    <3>. QED BY <3>1, <3>2, <3>3, <3>4
  <2>7. Len(Tail(s)) = Len(s) - 1 /\ \A i \in 1 .. Len(s) - 1 : Tail(s)[i] = s[i + 1]
    BY <2>1, HeadTailProperties
  <2>8. Len(k) <= Len(Tail(s))
    BY <2>3, <2>6, <2>7
  <2>9. \A i \in 1 .. Len(k) : k[i].seqno = Tail(s)[i].seqno
    <3>1. ASSUME NEW i \in 1 .. Len(k)
          PROVE  1 + i \in 1 .. Len(<<m>> \o k) /\ i \in 1 .. Len(s) - 1 /\ i + 1 = 1 + i
      BY <2>3, <2>6
    <3>2. ASSUME NEW i \in 1 .. Len(k) PROVE k[i].seqno = Tail(s)[i].seqno
      <4>1. (<<m>> \o k)[1 + i] = k[i] /\ (<<m>> \o k)[1 + i].seqno = s[1 + i].seqno
        BY <2>3, <2>6, <3>1
      <4>2. Tail(s)[i] = s[1 + i]
        BY <2>7, <3>1
      <4>. QED BY <4>1, <4>2
    <3>. QED BY <3>2
  <2>10. ASSUME c \in Open
         PROVE  /\ Len(Tail(s)) = Len(k) + Len(t)
                /\ \A i \in 1 .. Len(t) : t[i] = Tail(s)[Len(k) + i]
    <3>1. Len(s) = (1 + Len(k)) + Len(t) /\ \A i \in 1 .. Len(t) : t[i] = s[(1 + Len(k)) + i]
      BY <2>3, <2>6, <2>10
    <3>2. ASSUME NEW i \in 1 .. Len(t)
          PROVE  Len(k) + i \in 1 .. Len(s) - 1 /\ (Len(k) + i) + 1 = (1 + Len(k)) + i
      BY <2>6, <3>1
    <3>3. ASSUME NEW i \in 1 .. Len(t) PROVE t[i] = Tail(s)[Len(k) + i]
      <4>1. Tail(s)[Len(k) + i] = s[(Len(k) + i) + 1]
        BY <2>7, <3>2
      <4>. QED BY <3>1, <3>2, <4>1
    <3>4. Len(Tail(s)) = Len(k) + Len(t)
      BY <2>6, <2>7, <3>1
    <3>. QED BY <3>3, <3>4
  <2>11. Agree(p)'
    BY <1>6, <2>1, <2>5, <2>8, <2>9, <2>10 DEF Agree
  <2>. QED BY <1>3, <1>4, <2>11 DEF AgreesAgain, AnsweredFirst
<1>. QED BY <1>7, <1>8 DEF Received

(* A connection's end empties the queue.                                   *)
LEMMA EndAgrees ==
  ASSUME QueueInv, NEW p \in Ctx, WentDown(p) \/ Gone(p)
  PROVE  AgreesAgain
<1>1. /\ link \in [Ctx -> Conn \cup {NoConn}] /\ pendq \in [Ctx -> Seq(Requests)]
      /\ Open' = Open /\ UNCHANGED <<out, id, inq>>
      /\ link'[p] = NoConn /\ pendq'[p] = <<>> /\ NoConn \notin Open
      /\ \A q \in Ctx : q # p => link'[q] = link[q] /\ pendq'[q] = pendq[q]
  BY Shape DEF QueueInv, TypeOK, WentDown, Gone, Open, clientVars, routerVars
<1>2. Links'
  BY <1>1 DEF QueueInv, Links
<1>3. ASSUME NEW q \in Ctx, link'[q] # NoConn PROVE Agree(q)'
  <2>1. q # p /\ Agree(q)
    BY <1>1, <1>3 DEF QueueInv, AnsweredFirst
  <2>2. Answers(q)' = Answers(q)
    BY <1>1, <2>1, AnswersKept
  <2>. QED BY <1>1, <2>1, <2>2, AgreeKept
<1>. QED BY <1>2, <1>3 DEF AgreesAgain, AnsweredFirst

(* Accepting a client moves no message.                                    *)
LEMMA ConnectAgrees ==
  ASSUME QueueInv, NEW c \in Conn, LncConnect(c)
  PROVE  AgreesAgain
<1>1. /\ c \in backlog /\ backlog' = backlog \ {c} /\ UNCHANGED <<link, out, pendq>>
      /\ clients \in Seq(Conn)
      /\ id \in [Conn -> Identity \cup {NoIdentity}] /\ inq \in [Conn -> Seq(Requests)]
      /\ Open \subseteq Conn
  BY Shape DEF LncConnect, libVars, QueueInv, TypeOK
<1>2. CASE ClientCreate(c) /\ UNCHANGED <<id, inq>>
  <2>1. Range(clients') = Range(clients) \cup {c}
    BY <1>1, <1>2, AppendFacts DEF ClientCreate
  <2>2. Open' \subseteq Open
    BY <1>1, <2>1 DEF Open
  <2>. QED BY <1>1, <1>2, <2>2, SameQueues
<1>3. CASE /\ Holders(c) = {} /\ id' = [id EXCEPT ![c] = NoIdentity]
           /\ inq' = [inq EXCEPT ![c] = <<>>] /\ UNCHANGED clients
  <2>1. Open' \subseteq Open
    BY <1>1, <1>3 DEF Open
  <2>2. \A q \in Ctx : link[q] # c
    BY <1>3 DEF Holders
  <2>3. \A q \in Ctx : link[q] \in Open' =>
          link[q] \in Open /\ id'[link[q]] = id[link[q]] /\ inq'[link[q]] = inq[link[q]]
    BY <1>1, <1>3, <2>1, <2>2
  <2>. QED BY <1>1, <2>3, SameQueues
<1>. QED BY <1>2, <1>3 DEF LncConnect

(* Dropping a client leaves what was answered, to be read.                 *)
LEMMA DisconnectAgrees ==
  ASSUME QueueInv, NEW c \in Conn, LncClosed(c)
  PROVE  AgreesAgain
<1>1. Range(clients') = Range(clients) \ {c} /\ TypeOK
  BY DisconnectTyped DEF QueueInv
<1>2. /\ \A q \in Ctx : link[q] # c
      /\ UNCHANGED <<link, pendq, inq, backlog>>
      /\ id' = [id EXCEPT ![c] = NoIdentity] /\ out' = [out EXCEPT ![c] = <<>>]
      /\ id \in [Conn -> Identity \cup {NoIdentity}] /\ out \in [Conn -> Seq(Messages)]
      /\ link \in [Ctx -> Conn \cup {NoConn}]
  BY <1>1 DEF LncClosed, Holders, ClientDestroy, libVars, routerVars, TypeOK
<1>3. Open' \subseteq Open
  BY <1>1, <1>2 DEF Open
<1>4. Links'
  BY <1>1, <1>2, <1>3, Shape DEF QueueInv, Links
<1>5. ASSUME NEW q \in Ctx, link'[q] # NoConn PROVE Agree(q)'
  <2>1. link[q] \in Conn /\ link[q] # c /\ Agree(q)
    BY <1>2, <1>5 DEF QueueInv, AnsweredFirst
  <2>2. Answers(q)' = Answers(q)
    BY <1>2, <2>1, AnswersKept
  <2>. QED BY <1>2, <1>3, <2>1, <2>2, AgreeKept
<1>. QED BY <1>4, <1>5 DEF AgreesAgain, AnsweredFirst

(* Serving moves the first request of a connection to its answers.         *)
LEMMA ServeAgrees ==
  ASSUME QueueInv, NEW c \in Conn, Served(c)
  PROVE  AgreesAgain
<1>1. /\ Open' = Open /\ UNCHANGED <<link, pendq, id>> /\ TypeOK
      /\ inq' = [inq EXCEPT ![c] = Tail(@)] /\ inq[c] # <<>>
      /\ inq \in [Conn -> Seq(Requests)] /\ link \in [Ctx -> Conn \cup {NoConn}]
      /\ c \in Open
  BY DEF Served, QueueInv, TypeOK, Open, libVars
<1>2. Links'
  BY <1>1 DEF QueueInv, Links
<1>3. ASSUME NEW q \in Ctx, link[q] # NoConn, link[q] # c PROVE Agree(q)'
  <2>1. link[q] \in Conn /\ Agree(q) /\ Fed(out'[link[q]], link[q])
    BY <1>1, <1>3 DEF QueueInv, AnsweredFirst, Served
  <2>2. Answers(q)' = Answers(q)
    BY <1>1, <2>1, AnswersFed DEF Answers
  <2>. QED BY <1>1, <1>3, <2>1, <2>2, AgreeKept
<1>4. ASSUME NEW q \in Ctx, link[q] = c PROVE Agree(q)'
  <2> DEFINE a == Answers(q)
             s == pendq[q]
             t == inq[c]
             r == Head(t)
  <2>1. PICK w \in Seq(Messages), st \in {"0", "EINVAL", "EPERM"} :
          Fed(w, c) /\ out'[c] = Append(w, Status(r, st))
    BY DEF Served
  <2> DEFINE m == Status(r, st)
  <2>2. /\ r \in Requests /\ m \in Replies /\ m \in Messages /\ m.seqno = r.seqno
        /\ a \in Seq(Replies) /\ s \in Seq(Requests) /\ t \in Seq(Requests) /\ t # <<>>
    BY <1>1, <1>4, HeadOfInq, MessagesTyped, AnswersTyped, Shape DEF Answers
  <2>3. Keep(w, Replies) = a
    BY <1>1, <1>4, <2>1, AnswersFed DEF Answers
  <2>4. Answers(q)' = Append(a, m)
    <3> HIDE DEF m
    <3>1. Keep(Append(w, m), Replies) = Append(Keep(w, Replies), m)
      BY <2>2, KeepAppend
    <3>2. Answers(q)' = Keep(Append(w, m), Replies)
      BY <1>1, <1>4, <2>1 DEF Answers, m
    <3>. QED BY <2>3, <3>1, <3>2
  <2>5. /\ Len(a) <= Len(s) /\ Len(s) = Len(a) + Len(t)
        /\ \A i \in 1 .. Len(a) : a[i].seqno = s[i].seqno
        /\ \A i \in 1 .. Len(t) : t[i] = s[Len(a) + i]
    <3>1. link[q] # NoConn /\ link[q] \in Open
      BY <1>1, <1>4, Shape
    <3>. QED BY <1>4, <3>1 DEF QueueInv, AnsweredFirst, Agree
  <2>6. inq'[c] = Tail(t) /\ pendq'[q] = s /\ link'[q] = c
    BY <1>1, <1>4
  <2> HIDE DEF a, s, t, m
  <2>7. /\ Len(a) \in Nat /\ Len(s) \in Nat /\ Len(t) \in Nat \ {0}
        /\ Len(Append(a, m)) = Len(a) + 1 /\ Append(a, m)[Len(a) + 1] = m
        /\ \A i \in 1 .. Len(a) : Append(a, m)[i] = a[i]
        /\ r = t[1] /\ Len(Tail(t)) = Len(t) - 1
        /\ \A i \in 1 .. Len(t) - 1 : Tail(t)[i] = t[i + 1]
    BY <2>2, LenProperties, EmptySeq, AppendProperties, HeadTailProperties
  <2>8. m.seqno = s[Len(a) + 1].seqno
    <3>1. 1 \in 1 .. Len(t)
      BY <2>7
    <3>. QED BY <2>2, <2>5, <2>7, <3>1
  <2>9. ASSUME NEW i \in 1 .. Len(a) + 1 PROVE Append(a, m)[i].seqno = s[i].seqno
    <3>1. i \in 1 .. Len(a) \/ i = Len(a) + 1
      BY <2>7
    <3>. QED BY <2>5, <2>7, <2>8, <3>1
  <2>10. ASSUME NEW i \in 1 .. Len(t) - 1 PROVE Tail(t)[i] = s[(Len(a) + 1) + i]
    <3>1. i + 1 \in 1 .. Len(t) /\ Len(a) + (i + 1) = (Len(a) + 1) + i
      BY <2>7
    <3>. QED BY <2>5, <2>7, <3>1
  <2>11. Len(a) + 1 <= Len(s) /\ Len(s) = (Len(a) + 1) + (Len(t) - 1)
    BY <2>5, <2>7
  <2>. QED BY <2>4, <2>6, <2>7, <2>9, <2>10, <2>11 DEF Agree
<1>. QED BY <1>1, <1>2, <1>3, <1>4 DEF AgreesAgain, AnsweredFirst

(* After a restart no connection is open, and answers remain to be read.   *)
LEMMA RestartAgrees ==
  ASSUME QueueInv, Restart
  PROVE  AgreesAgain
<1>1. Open' = {} /\ UNCHANGED <<link, out, pendq>>
  BY DEF Restart, Open, Range, libVars
<1>. QED BY <1>1, SameQueues

-----------------------------------------------------------------------------
(* The parts of the invariant, for the state after a step.                 *)
LEMMA QueueInvAgain ==
  ASSUME TypeOK', AgreesAgain, CallbacksInOrder' /\ NumbersUsed'
  PROVE  QueueInv'
BY DEF QueueInv, AgreesAgain

(* The cases of a step, with what each of them does.                       *)
Step ==
  \/ \E p \in Ctx, req \in Requests : Asks(p, req) /\ req.seqno = seqno[p]
  \/ \E p \in Ctx : Received(p) \/ WentDown(p) \/ Gone(p)
  \/ \E c \in Conn : LncConnect(c) \/ LncClosed(c) \/ (Served(c) /\ Registers(c))
  \/ Restart

(* Every step of the specification is one of these.                        *)
LEMMA StepCases ==
  ASSUME QueueInv, Next
  PROVE  Step
<1>1. TypeOK
  BY DEF QueueInv
<1>. QED BY <1>1, AskTyped, ReceiveDoes, ClosedDoes, DestroyDoes, ServeDoes DEF Next, Step

(* The invariant holds initially.                                          *)
LEMMA QueueInit ==
  ASSUME Init
  PROVE  QueueInv
<1>1. TypeOK
  BY InitTyped
<1>2. /\ \A p \in Ctx : link[p] = NoConn /\ pendq[p] = <<>> /\ notified[p] = <<>>
      /\ Open = {} /\ Seqnos(<<>>) = <<>>
  BY DEF Init, LibInit, RouterInit, ClientsInit, Open, Range, Seqnos
<1>3. \A p \in Ctx : Numbers(p) = <<>>
  <2>1. <<>> \o <<>> = <<>>
    OBVIOUS
  <2>. QED BY <1>2, <2>1 DEF Numbers
<1>4. Links /\ AnsweredFirst
  BY <1>2 DEF Links, AnsweredFirst
<1>5. \A p \in Ctx : NumbersOK(p)
  BY <1>3 DEF NumbersOK, Increasing
<1>. QED BY <1>1, <1>4, <1>5, NumbersAll DEF QueueInv

(* Every step keeps it.                                                    *)
LEMMA QueueStep ==
  ASSUME QueueInv, [Next]_vars
  PROVE  QueueInv'
<1>1. TypeOK
  BY DEF QueueInv
<1>2. CASE UNCHANGED vars
  <2>1. TypeOK'
    BY <1>1, <1>2 DEF TypeOK, vars, clientVars, routerVars, libVars, historyVars
  <2>2. UNCHANGED <<link, out, pendq, id, inq, notified, seqno>> /\ Open' = Open
    BY <1>2 DEF Open, vars, clientVars, routerVars, libVars
  <2>. QED BY <2>1, <2>2, SameQueues, OtherNumbers, QueueInvAgain
<1>3. ASSUME NEW p \in Ctx, AppEventSubscribe(p) \/ AppEventSend(p) \/ AppList(p)
      PROVE  QueueInv'
  BY <1>1, <1>3, AskTyped, AskAgrees, AskNumbers, QueueInvAgain
<1>4. ASSUME NEW p \in Ctx, RecvCb(p) PROVE QueueInv'
  BY <1>1, <1>4, ReceiveDoes, ReceiveTyped, ReceiveAgrees, ReceiveNumbers, QueueInvAgain
<1>5. ASSUME NEW p \in Ctx, ClosedCb(p) \/ Destroy(p) PROVE QueueInv'
  BY <1>1, <1>5, ClosedDoes, DestroyDoes, EndTyped, EndAgrees, EndNumbers, QueueInvAgain
<1>6. ASSUME NEW c \in Conn, LncConnect(c) PROVE QueueInv'
  <2>1. UNCHANGED <<pendq, notified, seqno>>
    BY <1>6 DEF LncConnect, libVars
  <2>. QED BY <1>1, <1>6, <2>1, ConnectTyped, ConnectAgrees, OtherNumbers, QueueInvAgain
<1>7. ASSUME NEW c \in Conn, LncClosed(c) PROVE QueueInv'
  <2>1. UNCHANGED <<pendq, notified, seqno>>
    BY <1>7 DEF LncClosed, libVars
  <2>. QED BY <1>1, <1>7, <2>1, DisconnectTyped, DisconnectAgrees, OtherNumbers, QueueInvAgain
<1>8. ASSUME NEW c \in Conn, Serve(c) PROVE QueueInv'
  <2>1. Served(c) /\ Registers(c)
    BY <1>1, <1>8, ServeDoes
  <2>2. UNCHANGED <<pendq, notified, seqno>>
    BY <2>1 DEF Served, libVars
  <2>. QED BY <1>1, <2>1, <2>2, ServeTyped, ServeAgrees, OtherNumbers, QueueInvAgain
<1>9. CASE Restart
  <2>1. UNCHANGED <<pendq, notified, seqno>>
    BY <1>9 DEF Restart, libVars
  <2>. QED BY <1>1, <1>9, <2>1, RestartTyped, RestartAgrees, OtherNumbers, QueueInvAgain
<1>. QED BY <1>2, <1>3, <1>4, <1>5, <1>6, <1>7, <1>8, <1>9 DEF Next

(* What the library waits for and what the daemon has of it agree: the     *)
(* inductive invariant about queues and connections.                       *)
THEOREM QueueInvariant == Spec => []QueueInv
<1>1. Init => QueueInv
  BY QueueInit
<1>2. QueueInv /\ [Next]_vars => QueueInv'
  BY QueueStep
<1>. QED BY <1>1, <1>2, PTL DEF Spec

(* The state keeps its shape: masks have bits of possible ids only, and    *)
(* the registry knows a name once and stays within MAX_EVENTS.             *)
THEOREM TypeCorrect == Spec => []TypeOK
<1>1. QueueInv => TypeOK
  BY DEF QueueInv
<1>. QED BY <1>1, QueueInvariant, PTL

(* No request gets two callbacks, and callbacks come in the order of the   *)
(* requests, over any number of connections.                               *)
THEOREM CallbacksInOrderCorrect == Spec => []CallbacksInOrder
<1>1. QueueInv => CallbacksInOrder
  BY DEF QueueInv
<1>. QED BY <1>1, QueueInvariant, PTL

(* What is pending is what the daemon has answered but was not read, then  *)
(* what it did not get to.                                                 *)
LEMMA PendingIs ==
  ASSUME QueueInv
  PROVE  PendingInOrder
<1> SUFFICES ASSUME NEW p \in Ctx, link[p] \in Open
             PROVE  Seqnos(pendq[p]) = Seqnos(Answers(p)) \o Seqnos(inq[link[p]])
  BY DEF PendingInOrder, Answers
<1> DEFINE s == pendq[p]
           a == Answers(p)
           t == inq[link[p]]
<1>1. /\ TypeOK /\ link[p] \in Conn /\ link[p] # NoConn /\ Agree(p)
      /\ s \in Seq(Requests) /\ t \in Seq(Requests) /\ a \in Seq(Replies)
  <2>1. TypeOK /\ link[p] \in Conn /\ link[p] # NoConn
    BY Shape DEF QueueInv
  <2>. QED BY <2>1, Shape, AnswersTyped DEF QueueInv, AnsweredFirst, Answers
<1>2. /\ Len(s) = Len(a) + Len(t)
      /\ \A i \in 1 .. Len(a) : a[i].seqno = s[i].seqno
      /\ \A i \in 1 .. Len(t) : t[i] = s[Len(a) + i]
  BY <1>1 DEF Agree
<1> HIDE DEF s, a, t
<1>3. /\ Len(s) \in Nat /\ Len(a) \in Nat /\ Len(t) \in Nat /\ DOMAIN a = 1 .. Len(a)
      /\ \A i \in 1 .. Len(a) : a[i] \in Replies
  BY <1>1, LenProperties, ElementOfSeq
<1> DEFINE u == Seqnos(s)
           v == Seqnos(a)
           w == Seqnos(t)
<1>4. /\ u \in Seq(1 .. MaxSeq) /\ Len(u) = Len(s) /\ \A i \in 1 .. Len(s) : u[i] = s[i].seqno
      /\ w \in Seq(1 .. MaxSeq) /\ Len(w) = Len(t) /\ \A i \in 1 .. Len(t) : w[i] = t[i].seqno
  BY <1>1, SeqnosFacts
<1>5. v \in Seq(1 .. MaxSeq) /\ Len(v) = Len(a) /\ \A i \in 1 .. Len(a) : v[i] = a[i].seqno
  <2>1. \A i \in 1 .. Len(a) : a[i].seqno \in 1 .. MaxSeq
    BY <1>3, MessagesTyped
  <2>. QED BY <1>3, <2>1 DEF Seqnos
<1> HIDE DEF u, v, w
<1>6. /\ v \o w \in Seq(1 .. MaxSeq) /\ Len(v \o w) = Len(a) + Len(t)
      /\ \A i \in 1 .. Len(a) + Len(t) :
           (v \o w)[i] = IF i <= Len(a) THEN v[i] ELSE w[i - Len(a)]
  <2>1. /\ v \o w \in Seq(1 .. MaxSeq) /\ Len(v \o w) = Len(v) + Len(w)
        /\ \A i \in 1 .. Len(v) + Len(w) :
             (v \o w)[i] = IF i <= Len(v) THEN v[i] ELSE w[i - Len(v)]
    <3>1. v \in Seq(1 .. MaxSeq) /\ w \in Seq(1 .. MaxSeq)
      BY <1>4, <1>5
    <3>. QED BY <3>1, ConcatProperties
  <2>. QED BY <1>4, <1>5, <2>1
<1>7. ASSUME NEW i \in 1 .. Len(s) PROVE u[i] = (v \o w)[i]
  <2>1. CASE i <= Len(a)
    <3>1. i \in 1 .. Len(a)
      BY <1>3, <2>1
    <3>. QED BY <1>2, <1>4, <1>5, <1>6, <2>1, <3>1
  <2>2. CASE ~(i <= Len(a))
    <3>1. i - Len(a) \in 1 .. Len(t) /\ Len(a) + (i - Len(a)) = i
      BY <1>2, <1>3, <2>2
    <3>. QED BY <1>2, <1>4, <1>6, <2>2, <3>1
  <2>. QED BY <2>1, <2>2
<1>8. u = v \o w
  BY <1>2, <1>4, <1>6, <1>7, SeqEqual
<1>. QED BY <1>8 DEF u, v, w, s, a, t

(* The unread answers are those of the first requests in the queue, in     *)
(* order (app.c's recv_cb() relies on it when it looks for the request of  *)
(* a status).                                                              *)
THEOREM PendingInOrderCorrect == Spec => []PendingInOrder
<1>1. QueueInv => PendingInOrder
  BY PendingIs
<1>. QED BY <1>1, QueueInvariant, PTL

-----------------------------------------------------------------------------
(* What serving a request does to subscriptions, and where it puts events. *)
Subscribes(c, r) ==
  /\ Range(r.events) \subseteq Range(events') \/ Len(events') = MaxEvents
  /\ \E bits \in SUBSET (0 .. MaxEvents - 1) :
       /\ SetBits(c, bits)
       /\ \A n \in Range(r.events) \cap Range(events') : EventId(events', n) \in bits
       /\ \A i \in bits : \/ i + 1 \in 1 .. Len(events') /\ events'[i + 1] \in Range(r.events)
                          \/ ~(Range(r.events) \subseteq Range(events'))

Reaches(r) ==
  IF r.type = "send-event" /\ EventId(events, r.event) # -1
  THEN Recipients(r.event, r.target) ELSE {}

Delivers(c, r) ==
  /\ \A d \in Conn :
       /\ Range(out[d]) \subseteq Range(out'[d])
       /\ \A m \in Range(out'[d]) :
            m.type = "event" => m \in Range(out[d]) \/ (d \in Reaches(r) /\ m.event = r.event)
  /\ id[c] \in Senders => \A d \in Reaches(r) : EventMsg(r.event, r.data) \in Range(out'[d])

(* A subscription sets the bits of its names, all of them if they fit.     *)
LEMMA SubscribeDoes ==
  ASSUME TypeOK, NEW c \in Conn, NEW r \in Requests, r.type = "subscribe-events",
         ClientSubscribe(c, r)
  PROVE  Subscribes(c, r)
<1> DEFINE known == FoldLeft(EventRegister, events, r.events)
           ids == {EventId(known, name) : name \in Range(r.events)}
<1>1. r.events \in Seq(Event) /\ events \in Seq(Event) /\ IsInjective(events)
      /\ Len(events) <= MaxEvents /\ MaxEvents \in Nat \ {0}
      /\ ShiftedBit \in 0 .. MaxEvents - 1
  BY RequestKinds, LenProperties, EventRouterAssumption DEF TypeOK
<1>2. /\ Extends(known, events) /\ Len(known) <= MaxEvents
      /\ Range(r.events) \subseteq Range(known) \/ Len(known) = MaxEvents
  BY <1>1, RegisterFacts
<1>3. /\ events' = known
      /\ \E stray \in {{}, IF -1 \in ids THEN {ShiftedBit} ELSE {}} :
           SetBits(c, (ids \ {-1}) \cup stray)
  BY DEF ClientSubscribe
<1>4. PICK stray \in {{}, IF -1 \in ids THEN {ShiftedBit} ELSE {}} :
        SetBits(c, (ids \ {-1}) \cup stray)
  BY <1>3
<1>5. stray = {} \/ (stray = {ShiftedBit} /\ -1 \in ids)
  BY <1>4
<1> HIDE DEF known
<1>6. known \in Seq(Event) /\ Len(known) \in Nat
  <2>1. known \in Seq(Event)
    BY <1>2 DEF Extends
  <2>. QED BY <2>1, LenProperties
<1> DEFINE bits == (ids \ {-1}) \cup stray
<1>7. ASSUME NEW name \in Range(r.events)
      PROVE  /\ name \in Range(known) => /\ EventId(known, name) \in bits
             /\ EventId(known, name) # -1 =>
                  /\ EventId(known, name) \in 0 .. MaxEvents - 1
                  /\ EventId(known, name) + 1 \in 1 .. Len(known)
                  /\ known[EventId(known, name) + 1] = name
             /\ EventId(known, name) = -1 => name \notin Range(known)
  <2>1. PICK e : e = EventId(known, name)
    OBVIOUS
  <2>2. /\ e \in -1 .. Len(known) - 1
        /\ name \in Range(known) => e + 1 \in 1 .. Len(known) /\ known[e + 1] = name
        /\ name \notin Range(known) => e = -1
    BY <1>6, <2>1, EventIdIs
  <2>3. name \in Range(known) => e # -1
    BY <1>6, <2>2
  <2>4. e \in ids
    BY <2>1
  <2>5. e # -1 => e \in 0 .. MaxEvents - 1
    BY <1>1, <1>2, <1>6, <2>2
  <2>. QED BY <2>1, <2>2, <2>3, <2>4, <2>5
<1>8. bits \in SUBSET (0 .. MaxEvents - 1)
  BY <1>1, <1>5, <1>7
<1>9. \A n \in Range(r.events) \cap Range(known) : EventId(known, n) \in bits
  BY <1>7
<1>10. ASSUME NEW i \in bits
       PROVE  \/ i + 1 \in 1 .. Len(known) /\ known[i + 1] \in Range(r.events)
              \/ ~(Range(r.events) \subseteq Range(known))
  <2>1. CASE i \in stray
    BY <1>5, <1>7, <2>1
  <2>2. CASE i \in ids \ {-1}
    BY <1>7, <2>2
  <2>. QED BY <2>1, <2>2
<1>11. SetBits(c, bits)
  BY <1>4
<1> HIDE DEF bits
<1>. QED BY <1>2, <1>3, <1>8, <1>9, <1>10, <1>11 DEF Subscribes

(* A reply is no event.                                                    *)
LEMMA ReplyDelivers ==
  ASSUME TypeOK, NEW c \in Conn, NEW r \in Requests, NEW st \in {"0", "EINVAL", "EPERM"},
         out' = TransportSend(out, c, Status(r, st)),
         Reaches(r) = {} \/ id[c] \notin Senders
  PROVE  Delivers(c, r)
<1>1. out \in [Conn -> Seq(Messages)] /\ Status(r, st) \in Messages
      /\ Status(r, st).type = "status"
  BY MessagesTyped DEF TypeOK
<1>2. /\ out'[c] = Append(out[c], Status(r, st)) /\ \A d \in Conn : d # c => out'[d] = out[d]
      /\ Range(Append(out[c], Status(r, st))) = Range(out[c]) \cup {Status(r, st)}
  BY <1>1, AppendFacts DEF TransportSend
<1>. QED BY <1>1, <1>2 DEF Delivers

(* event_route() puts an event on its recipients' connections only.        *)
LEMMA RouteDelivers ==
  ASSUME TypeOK, NEW c \in Conn, NEW r \in Requests, r.type = "send-event", EventRoute(c, r)
  PROVE  Delivers(c, r)
<1> DEFINE R == Recipients(r.event, r.target)
           routed == [d \in Conn |-> IF d \in R THEN Append(out[d], EventMsg(r.event, r.data))
                                     ELSE out[d]]
           e == EventMsg(r.event, r.data)
           s == Status(r, "0")
<1>1. CASE EventId(events, r.event) = -1 /\ out' = TransportSend(out, c, Status(r, "EINVAL"))
  BY <1>1, ReplyDelivers DEF Reaches
<1>2. CASE id[c] \notin Senders /\ out' = TransportSend(out, c, Status(r, "EPERM"))
  BY <1>2, ReplyDelivers
<1>3. CASE EventId(events, r.event) # -1 /\ out' = TransportSend(routed, c, s)
  <2>1. r.event \in Event /\ r.data \in Payloads /\ out \in [Conn -> Seq(Messages)]
    BY RequestKinds DEF TypeOK
  <2>2. /\ e \in Messages /\ s \in Messages /\ e.type = "event" /\ e.event = r.event
        /\ s.type = "status"
    BY <2>1, MessagesTyped
  <2>3. Reaches(r) = R /\ R \subseteq Conn
    BY <1>3, Shape DEF Reaches, Recipients
  <2> HIDE DEF R, e, s
  <2>4. /\ routed \in [Conn -> Seq(Messages)]
        /\ \A d \in R : Range(routed[d]) = Range(out[d]) \cup {e}
        /\ \A d \in Conn \ R : routed[d] = out[d]
    BY <2>1, <2>2, <2>3, AppendFacts DEF e
  <2> HIDE DEF routed
  <2>5. /\ out'[c] = Append(routed[c], s) /\ \A d \in Conn : d # c => out'[d] = routed[d]
        /\ Range(Append(routed[c], s)) = Range(routed[c]) \cup {s}
    BY <1>3, <2>2, <2>4, AppendFacts DEF TransportSend
  <2>6. ASSUME NEW d \in Conn
        PROVE  /\ Range(routed[d]) \subseteq Range(out'[d])
               /\ Range(out'[d]) \subseteq Range(routed[d]) \cup {s}
    BY <2>5
  <2>7. ASSUME NEW d \in Conn
        PROVE  /\ Range(out[d]) \subseteq Range(routed[d])
               /\ \A m \in Range(routed[d]) : m \in Range(out[d]) \/ (d \in R /\ m = e)
               /\ d \in R => e \in Range(routed[d])
    BY <2>4
  <2>8. ASSUME NEW d \in Conn
        PROVE  /\ Range(out[d]) \subseteq Range(out'[d])
               /\ \A m \in Range(out'[d]) :
                    m.type = "event" => m \in Range(out[d]) \/ (d \in R /\ m.event = r.event)
               /\ d \in R => e \in Range(out'[d])
    BY <2>2, <2>6, <2>7
  <2>. QED BY <2>3, <2>8 DEF Delivers, e
<1>. QED BY <1>1, <1>2, <1>3 DEF EventRoute

Handled(c) ==
  LET r == Head(inq[c])
  IN  /\ Delivers(c, r)
      /\ \/ r.type = "subscribe-events" /\ Subscribes(c, r)
            /\ out' = TransportSend(out, c, Status(r, "0"))
         \/ r.type # "subscribe-events" /\ UNCHANGED <<events, mask>>

(* Serving is a subscription that is answered, or a request that leaves    *)
(* the subscriptions alone.                                                *)
LEMMA ServeHandles ==
  ASSUME TypeOK, NEW c \in Conn, Serve(c)
  PROVE  Handled(c)
<1> DEFINE r == Head(inq[c])
<1>1. inq[c] # <<>>
  BY DEF Serve, LncRecv
<1>2. r \in Requests
  BY <1>1, HeadOfInq
<1>3. CASE r.type = "subscribe-events" /\ ClientSubscribe(c, r)
  <2>1. Subscribes(c, r) /\ out' = TransportSend(out, c, Status(r, "0")) /\ Reaches(r) = {}
    <3> HIDE DEF r
    <3>. QED BY <1>2, <1>3, SubscribeDoes, SubscribeServed DEF Reaches
  <2>2. Delivers(c, r)
    <3> HIDE DEF r
    <3>. QED BY <1>2, <2>1, ReplyDelivers
  <2>. QED BY <1>3, <2>1, <2>2 DEF Handled
<1>4. CASE r.type = "send-event" /\ EventRoute(c, r)
  <2>1. Delivers(c, r)
    <3> HIDE DEF r
    <3>. QED BY <1>2, <1>4, RouteDelivers
  <2>. QED BY <1>4, <2>1 DEF Handled, EventRoute
<1>5. CASE r.type = "list" /\ ApplicationList(c, r)
  <2>1. Delivers(c, r)
    <3> HIDE DEF r
    <3>. QED BY <1>2, <1>5, ReplyDelivers DEF ApplicationList, Reaches
  <2>. QED BY <1>5, <2>1 DEF Handled, ApplicationList
<1>. QED BY <1>3, <1>4, <1>5 DEF Serve, LncRecv

-----------------------------------------------------------------------------
(* The registry only changes by growing, and not at all when it is full.   *)
Full == Len(events) = MaxEvents

Grown == Extends(events', events) /\ IsInjective(events') /\ Len(events') <= MaxEvents

(* Either way the registry grows.                                          *)
LEMMA StepGrows ==
  ASSUME TypeOK, UNCHANGED events \/ \E c \in Conn : Registers(c)
  PROVE  Grown
<1>1. events \in Seq(Event) /\ IsInjective(events) /\ Len(events) <= MaxEvents
      /\ Len(events) \in Nat
  BY LenProperties DEF TypeOK
<1>2. CASE UNCHANGED events
  BY <1>1, <1>2 DEF Grown, Extends
<1>. QED BY <1>2 DEF Grown, Registers

(* What a registry that grew keeps.                                        *)
LEMMA GrownFacts ==
  ASSUME TypeOK, Grown
  PROVE  /\ Range(events) \subseteq Range(events')
         /\ \A i \in 1 .. Len(events) : i \in 1 .. Len(events') /\ events'[i] = events[i]
         /\ Full => events' = events
         /\ DOMAIN events = 1 .. Len(events) /\ DOMAIN events' = 1 .. Len(events')
<1>1. /\ events \in Seq(Event) /\ Len(events) \in Nat /\ Len(events) <= MaxEvents
      /\ DOMAIN events = 1 .. Len(events) /\ MaxEvents \in Nat
  BY LenProperties, EventRouterAssumption DEF TypeOK
<1>2. /\ events' \in Seq(Event) /\ Len(events') \in Nat /\ Len(events) <= Len(events')
      /\ Len(events') <= MaxEvents /\ DOMAIN events' = 1 .. Len(events')
      /\ \A i \in 1 .. Len(events) : events'[i] = events[i]
  BY LenProperties DEF Grown, Extends
<1>3. \A i \in 1 .. Len(events) : i \in 1 .. Len(events')
  BY <1>1, <1>2
<1>4. Range(events) \subseteq Range(events')
  BY <1>1, <1>2, <1>3 DEF Range
<1>5. Full => events' = events
  <2>1. Full => Len(events') = Len(events)
    <3>1. \A a, b, m \in Nat : a <= b /\ b <= m /\ a = m => b = a
      OBVIOUS
    <3>. QED BY <1>1, <1>2, <3>1 DEF Full
  <2>. QED BY <1>1, <1>2, <2>1, SeqEqual
<1>. QED BY <1>1, <1>2, <1>3, <1>4, <1>5

-----------------------------------------------------------------------------
(* What is done for a context is what it asked for: the bits of its client *)
(* are for names it asked for, and so are the events that were sent to it, *)
(* until one of its names does not fit into the registry.                  *)
NamesLost(p) == ~(asked[p] \subseteq Range(events)) /\ Full

BitAsked(p, i) == i + 1 \in 1 .. Len(events) /\ events[i + 1] \in asked[p]

AskOK(p) ==
  /\ link[p] \in Range(clients) =>
       \A i \in mask[link[p]] : BitAsked(p, i) \/ NamesLost(p)
  /\ \A m \in Range(out[link[p]]) :
       m.type = "event" => m.event \in asked[p] \/ NamesLost(p)
  /\ \A r \in Range(inq[link[p]]) :
       r.type = "subscribe-events" => Range(r.events) \subseteq asked[p]

AskInv == \A p \in Ctx : link[p] \in Open => AskOK(p)

(* A context keeps AskOK if all that is new on its connection was asked    *)
(* for.                                                                    *)
LEMMA AskKept ==
  ASSUME TypeOK, Grown, NEW p \in Ctx, AskOK(p), link'[p] = link[p],
         asked[p] \subseteq asked'[p],
         link[p] \in Range(clients') => \A i \in mask'[link[p]] :
           \/ link[p] \in Range(clients) /\ i \in mask[link[p]]
           \/ BitAsked(p, i)' \/ NamesLost(p)',
         \A m \in Range(out'[link[p]]) : m.type = "event" =>
           \/ m \in Range(out[link[p]])
           \/ m.event \in asked'[p] \/ NamesLost(p)',
         \A r \in Range(inq'[link[p]]) : r.type = "subscribe-events" =>
           r \in Range(inq[link[p]]) \/ Range(r.events) \subseteq asked'[p]
  PROVE  AskOK(p)'
<1>1. NamesLost(p) => NamesLost(p)'
  BY GrownFacts DEF NamesLost, Full
<1>2. \A i : BitAsked(p, i) => BitAsked(p, i)'
  BY GrownFacts DEF BitAsked
<1>. QED BY <1>1, <1>2 DEF AskOK

(* The same for what nothing happened to.                                  *)
LEMMA AskSame ==
  ASSUME TypeOK, Grown, NEW p \in Ctx, AskOK(p), link'[p] = link[p],
         asked'[p] = asked[p],
         link[p] \in Range(clients') =>
           link[p] \in Range(clients) /\ mask'[link[p]] = mask[link[p]],
         Range(out'[link[p]]) \subseteq Range(out[link[p]]),
         Range(inq'[link[p]]) \subseteq Range(inq[link[p]])
  PROVE  AskOK(p)'
BY AskKept

(* A request that is queued is on the connection.                          *)
LEMMA AppendRange ==
  ASSUME TypeOK, NEW c \in Conn, NEW r \in Requests
  PROVE  Range(Append(inq[c], r)) = Range(inq[c]) \cup {r}
BY Shape, AppendFacts

(* A sequence is its first member and the others.                          *)
LEMMA TailRange ==
  ASSUME NEW S, NEW s \in Seq(S), s # <<>>
  PROVE  /\ Range(s) = {Head(s)} \cup Range(Tail(s)) /\ Head(s) \in Range(s)
<1>1. /\ Len(s) \in Nat \ {0} /\ DOMAIN s = 1 .. Len(s) /\ Head(s) = s[1]
      /\ Tail(s) \in Seq(S) /\ Len(Tail(s)) = Len(s) - 1
      /\ \A i \in 1 .. Len(s) - 1 : Tail(s)[i] = s[i + 1]
  BY EmptySeq, LenProperties, HeadTailProperties
<1>2. DOMAIN Tail(s) = 1 .. Len(s) - 1
  BY <1>1, LenProperties
<1>3. 1 \in 1 .. Len(s)
  BY <1>1
<1>4. ASSUME NEW i \in 1 .. Len(s), i # 1 PROVE s[i] \in Range(Tail(s))
  <2>1. i - 1 \in 1 .. Len(s) - 1 /\ (i - 1) + 1 = i
    BY <1>1, <1>4
  <2>2. s[i] = Tail(s)[i - 1]
    BY <1>1, <2>1
  <2>. QED BY <1>2, <2>1, <2>2 DEF Range
<1>5. ASSUME NEW i \in 1 .. Len(s) - 1 PROVE Tail(s)[i] \in Range(s)
  <2>1. i + 1 \in 1 .. Len(s)
    BY <1>1
  <2>. QED BY <1>1, <2>1 DEF Range
<1>6. Range(s) \subseteq {Head(s)} \cup Range(Tail(s))
  BY <1>1, <1>4 DEF Range
<1>7. Range(Tail(s)) \subseteq Range(s)
  BY <1>2, <1>5 DEF Range
<1>. QED BY <1>1, <1>3, <1>6, <1>7 DEF Range

(* A request adds what it asks for before it is queued.                    *)
LEMMA AskAsks ==
  ASSUME QueueInv, AskInv, NEW p \in Ctx, NEW req \in Requests, Asks(p, req),
         asked' = [asked EXCEPT ![p] = @ \cup
                     (IF req.type = "subscribe-events" THEN Range(req.events) ELSE {})]
  PROVE  AskInv'
<1>1. /\ link \in [Ctx -> Conn \cup {NoConn}] /\ inq \in [Conn -> Seq(Requests)]
      /\ out \in [Conn -> Seq(Messages)] /\ asked \in [Ctx -> SUBSET Event]
      /\ UNCHANGED <<clients, events, mask>> /\ TypeOK /\ Open \subseteq Conn
      /\ Range(clients) \subseteq Conn
  BY Shape DEF QueueInv, TypeOK, Asks
<1>2. Grown
  BY <1>1, StepGrows
<1>3. /\ \A q \in Ctx : asked[q] \subseteq asked'[q]
      /\ req.type = "subscribe-events" => Range(req.events) \subseteq asked'[p]
  BY <1>1
<1>4. ASSUME NEW c \in Conn, Opened(p, req, c) PROVE AskInv'
  <2>1. /\ Open' = Open \cup {c} /\ c \notin Range(clients) /\ link'[p] = c
        /\ inq'[c] = <<req>> /\ out'[c] = <<>>
        /\ \A q \in Ctx : q # p => link'[q] = link[q] /\ link[q] # c
        /\ \A d \in Conn : d # c => inq'[d] = inq[d] /\ out'[d] = out[d]
    BY <1>1, <1>4 DEF Opened, Open
  <2>2. Range(<<req>>) = {req} /\ Range(<<>>) = {}
    BY DEF Range
  <2>3. AskOK(p)'
    BY <1>1, <1>3, <2>1, <2>2 DEF AskOK
  <2>4. ASSUME NEW q \in Ctx, q # p, link'[q] \in Open' PROVE AskOK(q)'
    <3>1. link[q] \in Open /\ link[q] \in Conn /\ link[q] # c /\ AskOK(q)
      BY <1>1, <2>1, <2>4 DEF AskInv
    <3>. QED BY <1>1, <1>2, <1>3, <2>1, <2>4, <3>1, AskKept
  <2>. QED BY <2>3, <2>4 DEF AskInv
<1>5. CASE Queued(p, req)
  <2>1. /\ Open' = Open /\ UNCHANGED <<link, out>> /\ link[p] \in Conn
        /\ inq'[link[p]] = Append(inq[link[p]], req)
        /\ \A d \in Conn : d # link[p] => inq'[d] = inq[d]
    BY <1>1, <1>5 DEF Queued, Open
  <2>2. Range(inq'[link[p]]) = Range(inq[link[p]]) \cup {req}
    BY <1>1, <2>1, AppendRange
  <2>3. ASSUME NEW q \in Ctx, link'[q] \in Open' PROVE AskOK(q)'
    <3>1. link[q] \in Open /\ link[q] \in Conn /\ AskOK(q) /\ (q # p => link[q] # link[p])
      BY <1>1, <2>1, <2>3, Shape DEF AskInv, QueueInv, Links
    <3>2. CASE q = p
      BY <1>1, <1>2, <1>3, <2>1, <2>2, <3>1, <3>2, AskKept
    <3>3. CASE q # p
      BY <1>1, <1>2, <1>3, <2>1, <3>1, <3>3, AskKept
    <3>. QED BY <3>2, <3>3
  <2>. QED BY <2>3 DEF AskInv
<1>6. CASE Unsent(p)
  <2>1. Open' = Open /\ UNCHANGED <<link, out, inq>>
    BY <1>1, <1>6 DEF Unsent, Open
  <2>2. ASSUME NEW q \in Ctx, link'[q] \in Open' PROVE AskOK(q)'
    <3>1. AskOK(q)
      BY <2>1, <2>2 DEF AskInv
    <3>. QED BY <1>1, <1>2, <1>3, <2>1, <3>1, AskKept
  <2>. QED BY <2>2 DEF AskInv
<1>. QED BY <1>4, <1>5, <1>6 DEF Asks

(* Steps that only take something away from connections keep AskInv.       *)
LEMMA AskElsewhere ==
  ASSUME TypeOK, AskInv, Grown,
         \A q \in Ctx : link'[q] \in Open' =>
           /\ link'[q] = link[q] /\ link[q] \in Open /\ asked'[q] = asked[q]
           /\ link[q] \in Range(clients') =>
                link[q] \in Range(clients) /\ mask'[link[q]] = mask[link[q]]
           /\ Range(out'[link[q]]) \subseteq Range(out[link[q]])
           /\ Range(inq'[link[q]]) \subseteq Range(inq[link[q]])
  PROVE  AskInv'
<1>1. ASSUME NEW q \in Ctx, link'[q] \in Open' PROVE AskOK(q)'
  <2>1. AskOK(q)
    BY <1>1 DEF AskInv
  <2>. QED BY <1>1, <2>1, AskSame
<1>. QED BY <1>1 DEF AskInv

(* Reading a message keeps AskInv.                                         *)
LEMMA ReceiveAsks ==
  ASSUME QueueInv, AskInv, NEW p \in Ctx, Received(p)
  PROVE  AskInv'
<1>1. /\ UNCHANGED <<link, clients, mask, events, inq, asked, backlog>> /\ Open' = Open /\ TypeOK
      /\ out' = [out EXCEPT ![link[p]] = Tail(@)] /\ out[link[p]] # <<>> /\ link[p] \in Conn
      /\ out \in [Conn -> Seq(Messages)] /\ Open \subseteq Conn
  BY Shape DEF Received, QueueInv, TypeOK, Open, routerVars
<1>2. \A d \in Conn : Range(out'[d]) \subseteq Range(out[d])
  BY <1>1, TailRange
<1>3. Grown
  BY <1>1, StepGrows
<1>. QED BY <1>1, <1>2, <1>3, AskElsewhere DEF QueueInv

(* So does a connection's end,                                             *)
LEMMA EndAsks ==
  ASSUME QueueInv, AskInv, NEW p \in Ctx, WentDown(p) \/ Gone(p)
  PROVE  AskInv'
<1>1. /\ UNCHANGED <<clients, mask, events, inq, out, backlog>> /\ Open' = Open /\ TypeOK
      /\ link'[p] = NoConn /\ NoConn \notin Open
      /\ \A q \in Ctx : q # p => link'[q] = link[q] /\ asked'[q] = asked[q]
  BY Shape DEF WentDown, Gone, Forget, QueueInv, TypeOK, Open, clientVars, routerVars
<1>2. Grown
  BY <1>1, StepGrows
<1>. QED BY <1>1, <1>2, AskElsewhere

(* accepting a client, whose mask is empty,                                *)
LEMMA ConnectAsks ==
  ASSUME QueueInv, AskInv, NEW c \in Conn, LncConnect(c)
  PROVE  AskInv'
<1>1. /\ c \in backlog /\ backlog' = backlog \ {c} /\ UNCHANGED <<link, out, events, asked>>
      /\ clients \in Seq(Conn) /\ mask \in [Conn -> SUBSET (0 .. MaxEvents - 1)]
      /\ inq \in [Conn -> Seq(Requests)] /\ Open \subseteq Conn /\ TypeOK
      /\ link \in [Ctx -> Conn \cup {NoConn}]
  BY Shape DEF LncConnect, libVars, QueueInv, TypeOK
<1>2. Grown
  BY <1>1, StepGrows
<1>3. CASE ClientCreate(c) /\ MaskInit(c) /\ UNCHANGED <<id, inq>>
  <2>1. Range(clients') = Range(clients) \cup {c} /\ Open' \subseteq Open
    <3>1. Range(clients') = Range(clients) \cup {c}
      BY <1>1, <1>3, AppendFacts DEF ClientCreate
    <3>. QED BY <1>1, <3>1 DEF Open
  <2>2. mask'[c] = {} /\ \A d \in Conn : d # c => mask'[d] = mask[d]
    BY <1>1, <1>3 DEF MaskInit
  <2>3. ASSUME NEW q \in Ctx, link'[q] \in Open' PROVE AskOK(q)'
    <3>1. AskOK(q) /\ link[q] \in Conn
      BY <1>1, <2>1, <2>3 DEF AskInv
    <3>. QED BY <1>1, <1>2, <1>3, <2>1, <2>2, <3>1, AskKept
  <2>. QED BY <2>3 DEF AskInv
<1>4. CASE Holders(c) = {} /\ inq' = [inq EXCEPT ![c] = <<>>] /\ UNCHANGED <<clients, mask>>
  <2>1. \A q \in Ctx : link[q] # c
    BY <1>4 DEF Holders
  <2>2. Open' \subseteq Open
    BY <1>1, <1>4 DEF Open
  <2>3. \A q \in Ctx : link[q] \in Open => inq'[link[q]] = inq[link[q]]
    BY <1>1, <1>4, <2>1
  <2>. QED BY <1>1, <1>2, <1>4, <2>2, <2>3, AskElsewhere
<1>. QED BY <1>3, <1>4 DEF LncConnect

(* and dropping one.                                                       *)
LEMMA DisconnectAsks ==
  ASSUME QueueInv, AskInv, NEW c \in Conn, LncClosed(c)
  PROVE  AskInv'
<1>1. Range(clients') = Range(clients) \ {c} /\ TypeOK
  BY DisconnectTyped DEF QueueInv
<1>2. /\ \A q \in Ctx : link[q] # c
      /\ UNCHANGED <<link, inq, backlog, mask, events, asked>>
      /\ out' = [out EXCEPT ![c] = <<>>] /\ out \in [Conn -> Seq(Messages)]
      /\ Open \subseteq Conn
  BY <1>1, Shape
     DEF LncClosed, Holders, ClientDestroy, libVars, routerVars, historyVars, TypeOK
<1>3. Open' \subseteq Open
  BY <1>1, <1>2 DEF Open
<1>4. \A q \in Ctx : link[q] \in Open => out'[link[q]] = out[link[q]]
  BY <1>2
<1>5. Grown
  BY <1>1, <1>2, StepGrows
<1>. QED BY <1>1, <1>2, <1>3, <1>4, <1>5, AskElsewhere

(* An event reaches a client by the bit of its id, which was asked for.    *)
LEMMA ServeAsks ==
  ASSUME QueueInv, AskInv, NEW c \in Conn, Served(c), Registers(c), Handled(c)
  PROVE  AskInv'
<1> DEFINE r == Head(inq[c])
<1>1. /\ UNCHANGED <<link, clients, asked, backlog, id>> /\ Open' = Open /\ TypeOK
      /\ inq' = [inq EXCEPT ![c] = Tail(@)] /\ inq[c] # <<>> /\ c \in Range(clients)
      /\ inq \in [Conn -> Seq(Requests)] /\ Open \subseteq Conn
      /\ mask \in [Conn -> SUBSET (0 .. MaxEvents - 1)]
  BY Shape DEF Served, QueueInv, TypeOK, Open, libVars, historyVars
<1>2. Grown
  BY <1>1, StepGrows
<1>3. r \in Range(inq[c]) /\ r \in Requests /\ \A d \in Conn : Range(inq'[d]) \subseteq Range(inq[d])
  BY <1>1, TailRange, HeadOfInq
<1>4. Delivers(c, r)
  BY DEF Handled
<1>5. ASSUME NEW q \in Ctx, link[q] \in Open PROVE AskOK(q)'
  <2>1. AskOK(q) /\ link[q] \in Conn
    BY <1>1, <1>5 DEF AskInv
  <2>2. ASSUME NEW m \in Range(out'[link[q]]), m.type = "event"
        PROVE  m \in Range(out[link[q]]) \/ m.event \in asked'[q] \/ NamesLost(q)'
    <3>1. CASE link[q] \in Reaches(r) /\ m.event = r.event
      <4>1. /\ r.type = "send-event" /\ EventId(events, r.event) # -1
            /\ link[q] \in Range(clients) /\ EventId(events, r.event) \in mask[link[q]]
        BY <3>1 DEF Reaches, Recipients
      <4>2. BitAsked(q, EventId(events, r.event)) \/ NamesLost(q)
        BY <2>1, <4>1 DEF AskOK
      <4>3. NamesLost(q) => NamesLost(q)'
        BY <1>1, <1>2, GrownFacts DEF NamesLost, Full
      <4>4. events[EventId(events, r.event) + 1] = r.event
        <5>1. events \in Seq(Event)
          BY <1>1 DEF TypeOK
        <5>. QED BY <4>1, <5>1, EventIdIs
      <4>. QED BY <1>1, <3>1, <4>2, <4>3, <4>4 DEF BitAsked
    <3>. QED BY <1>4, <2>1, <2>2, <3>1 DEF Delivers
  <2>3. ASSUME NEW i \in mask'[link[q]]
        PROVE  i \in mask[link[q]] \/ BitAsked(q, i)' \/ NamesLost(q)'
    <3>1. CASE UNCHANGED <<events, mask>>
      BY <2>3, <3>1
    <3>2. CASE r.type = "subscribe-events" /\ Subscribes(c, r)
      <4>1. PICK bits \in SUBSET (0 .. MaxEvents - 1) :
               /\ SetBits(c, bits)
               /\ \A b \in bits :
                    \/ b + 1 \in 1 .. Len(events') /\ events'[b + 1] \in Range(r.events)
                    \/ ~(Range(r.events) \subseteq Range(events'))
        BY <3>2 DEF Subscribes
      <4>2. i \in mask[link[q]] \/ (link[q] = c /\ i \in bits)
        BY <1>1, <2>1, <2>3, <4>1 DEF SetBits
      <4>3. CASE link[q] = c /\ i \in bits
        <5>1. Range(r.events) \subseteq asked'[q]
          BY <1>1, <1>3, <2>1, <3>2, <4>3 DEF AskOK
        <5>2. ~(Range(r.events) \subseteq Range(events')) => Len(events') = MaxEvents
          BY <3>2 DEF Subscribes
        <5>. QED BY <4>1, <4>3, <5>1, <5>2 DEF BitAsked, NamesLost, Full
      <4>. QED BY <4>2, <4>3
    <3>. QED BY <3>1, <3>2 DEF Handled
  <2>. QED BY <1>1, <1>2, <1>3, <2>1, <2>2, <2>3, AskKept
<1>. QED BY <1>1, <1>5 DEF AskInv

(* AskInv holds initially.                                                 *)
LEMMA AskInit ==
  ASSUME Init
  PROVE  AskInv
<1>1. NoConn \notin Open /\ \A p \in Ctx : link[p] = NoConn
  BY DEF Init, LibInit, RouterInit, ClientsInit, Open, Range
<1>. QED BY <1>1 DEF AskInv

(* Every step keeps it.                                                    *)
LEMMA AskStep ==
  ASSUME QueueInv, AskInv, [Next]_vars
  PROVE  AskInv'
<1>1. TypeOK
  BY DEF QueueInv
<1>2. CASE UNCHANGED vars
  <2>1. /\ UNCHANGED <<link, clients, mask, events, inq, out, asked, backlog>> /\ Open' = Open
    BY <1>2 DEF Open, vars, clientVars, routerVars, libVars, historyVars
  <2>. QED BY <1>1, <2>1, StepGrows, AskElsewhere
<1>3. ASSUME NEW p \in Ctx, AppEventSubscribe(p) PROVE AskInv'
  <2>1. PICK names \in Subscribed : /\ Request(p, SubscribeReq(seqno[p], names))
                                    /\ asked' = [asked EXCEPT ![p] = @ \cup Range(names)]
    BY <1>3 DEF AppEventSubscribe
  <2> DEFINE r == SubscribeReq(seqno[p], names)
  <2>2. Asks(p, r) /\ seqno[p] \in 1 .. MaxSeq
    BY <1>1, <2>1, RequestDoes, Shape DEF Asks
  <2>3. r \in Requests /\ r.type = "subscribe-events" /\ r.events = names
    BY <2>2, RequestsTyped DEF SubscribeReq
  <2>4. asked' = [asked EXCEPT ![p] = @ \cup
                    (IF r.type = "subscribe-events" THEN Range(r.events) ELSE {})]
    BY <2>1, <2>3
  <2> HIDE DEF r
  <2>. QED BY <2>2, <2>3, <2>4, AskAsks
<1>4. ASSUME NEW p \in Ctx, NEW r \in Requests, Asks(p, r), r.type # "subscribe-events",
             UNCHANGED asked
      PROVE  AskInv'
  <2>1. asked' = [asked EXCEPT ![p] = @ \cup
                    (IF r.type = "subscribe-events" THEN Range(r.events) ELSE {})]
    BY <1>1, <1>4 DEF TypeOK
  <2>. QED BY <1>4, <2>1, AskAsks
<1>5. ASSUME NEW p \in Ctx, AppEventSend(p) PROVE AskInv'
  <2>1. PICK sent \in Sent :
          Request(p, SendReq(seqno[p], sent[1], sent[2], Data(p, sent[2])))
          /\ UNCHANGED asked
    BY <1>5 DEF AppEventSend
  <2> DEFINE r == SendReq(seqno[p], sent[1], sent[2], Data(p, sent[2]))
  <2>2. Asks(p, r) /\ seqno[p] <= MaxSeq
    BY <1>1, <2>1, RequestDoes DEF Asks
  <2>3. r \in Requests /\ r.type # "subscribe-events"
    BY <1>1, <2>2, PayloadTyped DEF SendReq
  <2> HIDE DEF r
  <2>. QED BY <1>4, <2>1, <2>2, <2>3
<1>6. ASSUME NEW p \in Ctx, AppList(p) PROVE AskInv'
  <2>1. Asks(p, ListReq(seqno[p])) /\ seqno[p] \in 1 .. MaxSeq /\ UNCHANGED asked
    BY <1>1, <1>6, RequestDoes, Shape DEF Asks, AppList, historyVars
  <2>2. ListReq(seqno[p]) \in Requests /\ ListReq(seqno[p]).type = "list"
    BY <2>1, RequestsTyped
  <2>. QED BY <1>4, <2>1, <2>2
<1>7. ASSUME NEW p \in Ctx, RecvCb(p) \/ ClosedCb(p) \/ Destroy(p) PROVE AskInv'
  BY <1>1, <1>7, ReceiveDoes, ReceiveAsks, ClosedDoes, DestroyDoes, EndAsks
<1>8. ASSUME NEW c \in Conn, LncConnect(c) \/ LncClosed(c) \/ Serve(c) PROVE AskInv'
  BY <1>1, <1>8, ConnectAsks, DisconnectAsks, ServeDoes, ServeHandles, ServeAsks
<1>9. CASE Restart
  <2>1. Open' = {} 
    BY <1>9 DEF Restart, Open, Range
  <2>. QED BY <2>1 DEF AskInv
<1>. QED BY <1>2, <1>3, <1>5, <1>6, <1>7, <1>8, <1>9 DEF Next

(* An application is sent no event that it did not ask for, unless one of  *)
(* the names it asked for was lost to a full registry.                     *)
THEOREM OnlyAskedForCorrect == Spec => []OnlyAskedFor
<1>1. Init => AskInv
  BY AskInit
<1>2. QueueInv /\ AskInv /\ [Next]_vars => AskInv'
  BY AskStep
<1>3. QueueInv /\ AskInv => OnlyAskedFor
  BY DEF AskInv, AskOK, NamesLost, OnlyAskedFor
<1>. QED BY <1>1, <1>2, <1>3, QueueInvariant, PTL DEF Spec

-----------------------------------------------------------------------------
(* A subscription that was answered is one: for the names that are in the  *)
(* registry the bit is set, and others there are only when it is full.     *)
Sub(c, names) ==
  /\ names \subseteq Range(events) \/ Full
  /\ \A n \in names \cap Range(events) : c \in Range(clients) /\ EventId(events, n) \in mask[c]

SubAfter(c, names) ==
  /\ names \subseteq Range(events') \/ Full'
  /\ \A n \in names \cap Range(events') :
       c \in Range(clients') /\ EventId(events', n) \in mask'[c]

SubOK(p) ==
  /\ Sub(link[p], confirmed[p])
  /\ \A i \in 1 .. Len(Answers(p)) :
       Answers(p)[i].status = "0" /\ pendq[p][i].type = "subscribe-events"
         => Sub(link[p], Range(pendq[p][i].events))

SubInv ==
  /\ \A p \in Ctx : link[p] = NoConn => confirmed[p] = {}
  /\ \A p \in Ctx : link[p] \in Open => SubOK(p)

(* SubOK, for the state after a step.                                      *)
LEMMA SubOKAgain ==
  ASSUME NEW p \in Ctx, SubAfter(link'[p], confirmed'[p]),
         \A i \in 1 .. Len(Answers(p)') :
           Answers(p)'[i].status = "0" /\ pendq'[p][i].type = "subscribe-events"
             => SubAfter(link'[p], Range(pendq'[p][i].events))
  PROVE  SubOK(p)'
BY DEF SubOK, Sub, SubAfter

(* What a client subscribed to it keeps.                                   *)
ClientKept(c) == c \in Range(clients) => c \in Range(clients') /\ mask[c] \subseteq mask'[c]

(* A subscription stays one while its client is there and keeps its bits.  *)
LEMMA SubKept ==
  ASSUME TypeOK, Grown, NEW c, ClientKept(c), NEW names, Sub(c, names)
  PROVE  SubAfter(c, names)
<1>1. /\ Range(events) \subseteq Range(events') /\ (Full => events' = events)
      /\ events \in Seq(Event) /\ Extends(events', events) /\ IsInjective(events')
  BY GrownFacts DEF Grown, TypeOK
<1>2. names \subseteq Range(events') \/ Full'
  BY <1>1 DEF Sub, Full
<1>3. ASSUME NEW n \in names \cap Range(events')
      PROVE  c \in Range(clients') /\ EventId(events', n) \in mask'[c]
  <2>1. n \in Range(events)
    BY <1>1, <1>3 DEF Sub
  <2>2. EventId(events', n) = EventId(events, n)
    BY <1>1, <2>1, EventIdStable
  <2>. QED BY <1>3, <2>1, <2>2 DEF Sub, ClientKept
<1>. QED BY <1>2, <1>3 DEF SubAfter

(* A context whose answers and queue front stay keeps SubOK.               *)
LEMMA SubSame ==
  ASSUME TypeOK, Grown, NEW p \in Ctx, SubOK(p), link'[p] = link[p], ClientKept(link[p]),
         confirmed'[p] = confirmed[p], Answers(p)' = Answers(p),
         \A i \in 1 .. Len(Answers(p)) : pendq'[p][i] = pendq[p][i]
  PROVE  SubOK(p)'
<1>1. SubAfter(link'[p], confirmed'[p])
  BY SubKept DEF SubOK
<1>2. ASSUME NEW i \in 1 .. Len(Answers(p)'), Answers(p)'[i].status = "0",
             pendq'[p][i].type = "subscribe-events"
      PROVE  SubAfter(link'[p], Range(pendq'[p][i].events))
  BY <1>2, SubKept DEF SubOK
<1>. QED BY <1>1, <1>2, SubOKAgain

(* The other contexts, and the cases that only concern them.               *)
LEMMA SubElsewhere ==
  ASSUME TypeOK, SubInv, Grown,
         \A q \in Ctx : link'[q] = NoConn => confirmed'[q] = {},
         \A q \in Ctx : link'[q] \in Open' =>
           /\ link'[q] = link[q] /\ link[q] \in Open /\ ClientKept(link[q])
           /\ confirmed'[q] = confirmed[q] /\ out'[link[q]] = out[link[q]]
           /\ pendq'[q] = pendq[q]
  PROVE  SubInv'
<1>1. ASSUME NEW q \in Ctx, link'[q] \in Open' PROVE SubOK(q)'
  <2>1. SubOK(q) /\ Answers(q)' = Answers(q)
    BY <1>1, AnswersKept DEF SubInv
  <2>. QED BY <1>1, <2>1, SubSame
<1>. QED BY <1>1 DEF SubInv

(* Making a request keeps SubInv.                                          *)
LEMMA AskSubs ==
  ASSUME QueueInv, SubInv, NEW p \in Ctx, NEW req \in Requests, Asks(p, req),
         UNCHANGED confirmed
  PROVE  SubInv'
<1>1. /\ link \in [Ctx -> Conn \cup {NoConn}] /\ pendq \in [Ctx -> Seq(Requests)]
      /\ out \in [Conn -> Seq(Messages)]
      /\ UNCHANGED <<clients, events, mask>> /\ TypeOK /\ Open \subseteq Conn
      /\ NoConn \notin Conn
  BY Shape DEF QueueInv, TypeOK, Asks
<1>2. Grown /\ \A d : ClientKept(d)
  BY <1>1, StepGrows DEF ClientKept
<1>3. ASSUME NEW c \in Conn, Opened(p, req, c) PROVE SubInv'
  <2>1. /\ Open' = Open \cup {c} /\ link'[p] = c /\ out'[c] = <<>> /\ confirmed'[p] = {}
        /\ \A q \in Ctx : q # p => link'[q] = link[q] /\ link[q] # c /\ pendq'[q] = pendq[q]
        /\ \A d \in Conn : d # c => out'[d] = out[d]
    BY <1>1, <1>3 DEF Opened, Open, SubInv
  <2>2. SubOK(p)'
    <3>1. Answers(p)' = <<>> /\ Len(<<>>) = 0
      BY <2>1, KeepEmpty DEF Answers
    <3>2. SubAfter(link'[p], confirmed'[p])
      BY <2>1 DEF SubAfter
    <3>. QED BY <3>1, <3>2, SubOKAgain
  <2>3. ASSUME NEW q \in Ctx, q # p, link'[q] \in Open' PROVE SubOK(q)'
    <3>1. link[q] \in Open /\ link[q] \in Conn /\ link[q] # c /\ SubOK(q)
      BY <1>1, <2>1, <2>3 DEF SubInv
    <3>2. Answers(q)' = Answers(q)
      BY <2>1, <2>3, <3>1, AnswersKept
    <3>. QED BY <1>1, <1>2, <2>1, <2>3, <3>1, <3>2, SubSame
  <2>4. \A q \in Ctx : link'[q] = NoConn => confirmed'[q] = {}
    BY <1>1, <2>1 DEF SubInv
  <2>. QED BY <2>2, <2>3, <2>4 DEF SubInv
<1>4. CASE Queued(p, req)
  <2>1. /\ Open' = Open /\ UNCHANGED <<link, out>> /\ link[p] \in Conn
        /\ pendq'[p] = Append(pendq[p], req)
        /\ \A q \in Ctx : q # p => pendq'[q] = pendq[q]
    BY <1>1, <1>4 DEF Queued, Open
  <2>2. ASSUME NEW q \in Ctx, link'[q] \in Open' PROVE SubOK(q)'
    <3>1. SubOK(q) /\ Answers(q)' = Answers(q) /\ link[q] # NoConn
      BY <1>1, <2>1, <2>2, AnswersKept DEF SubInv
    <3>2. \A i \in 1 .. Len(Answers(q)) : pendq'[q][i] = pendq[q][i]
      <4>1. CASE q # p
        BY <2>1, <4>1
      <4>2. CASE q = p
        <5>1. Len(Answers(q)) <= Len(pendq[q]) /\ pendq[q] \in Seq(Requests)
          BY <1>1, <3>1 DEF QueueInv, AnsweredFirst, Agree
        <5>2. Len(Answers(q)) \in Nat /\ Len(pendq[q]) \in Nat
          BY <1>1, <2>1, <4>2, <5>1, AnswersTyped, LenProperties DEF Answers
        <5>3. \A i \in 1 .. Len(Answers(q)) : i \in 1 .. Len(pendq[q])
          BY <5>1, <5>2
        <5>. QED BY <2>1, <4>2, <5>1, <5>3, AppendProperties
      <4>. QED BY <4>1, <4>2
    <3>. QED BY <1>1, <1>2, <2>1, <3>1, <3>2, SubSame
  <2>. QED BY <2>1, <2>2 DEF SubInv
<1>5. CASE Unsent(p)
  <2>1. Open' = Open /\ UNCHANGED <<link, out, pendq>>
    BY <1>1, <1>5 DEF Unsent, Open
  <2>. QED BY <1>1, <1>2, <2>1, SubElsewhere DEF SubInv
<1>. QED BY <1>3, <1>4, <1>5 DEF Asks

(* A context learns of its subscription by the status that it finds first  *)
(* in its queue.                                                           *)
LEMMA ReceiveSubs ==
  ASSUME QueueInv, SubInv, NEW p \in Ctx, Received(p)
  PROVE  SubInv'
<1> DEFINE c == link[p]
           m == Head(out[c])
           k == Keep(Tail(out[c]), Replies)
<1>1. /\ UNCHANGED <<link, clients, mask, events, backlog>> /\ Open' = Open /\ TypeOK
      /\ link \in [Ctx -> Conn \cup {NoConn}] /\ out \in [Conn -> Seq(Messages)]
      /\ pendq \in [Ctx -> Seq(Requests)] /\ confirmed \in [Ctx -> SUBSET Event]
      /\ out' = [out EXCEPT ![c] = Tail(@)] /\ out[c] # <<>> /\ c \in Conn
      /\ NoConn \notin Conn
  BY Shape DEF Received, QueueInv, TypeOK, Open, routerVars
<1>2. Grown /\ \A d : ClientKept(d)
  BY <1>1, StepGrows DEF ClientKept
<1>3. /\ \A q \in Ctx : q # p => confirmed'[q] = confirmed[q] /\ pendq'[q] = pendq[q]
      /\ \A d \in Conn : d # c => out'[d] = out[d]
  BY <1>1 DEF Received, GotStatus, GotEvent, Confirm
<1>4. ASSUME NEW q \in Ctx, q # p, link'[q] \in Open' PROVE SubOK(q)'
  <2>1. SubOK(q) /\ link[q] \in Conn /\ link[q] # c
    BY <1>1, <1>4, Shape DEF SubInv, QueueInv, Links
  <2>2. Answers(q)' = Answers(q)
    BY <1>1, <1>3, <2>1, AnswersKept
  <2>. QED BY <1>1, <1>2, <1>3, <1>4, <2>1, <2>2, SubSame
<1>5. /\ Answers(p)' = k /\ k \in Seq(Replies)
      /\ Answers(p) = IF m \in Replies THEN <<m>> \o k ELSE k
  BY <1>1, AnswersAfter DEF Answers
<1>6. CASE GotEvent(p)
  <2>1. Answers(p)' = Answers(p) /\ UNCHANGED <<pendq, confirmed>>
    BY <1>5, <1>6 DEF GotEvent
  <2>2. ASSUME link'[p] \in Open' PROVE SubOK(p)'
    <3>1. SubOK(p)
      BY <1>1, <2>2 DEF SubInv
    <3>. QED BY <1>1, <1>2, <2>1, <3>1, SubSame
  <2>. QED BY <1>1, <1>4, <2>1, <2>2 DEF SubInv
<1>7. CASE GotStatus(p)
  <2> DEFINE s == pendq[p]
  <2>1. /\ m \in Replies /\ s # <<>> /\ m.seqno = Head(s).seqno /\ pendq'[p] = Tail(s)
        /\ s \in Seq(Requests) /\ Confirm(p, m)
    BY <1>1, <1>7 DEF GotStatus
  <2>2. Answers(p) = <<m>> \o k /\ k \in Seq(Replies) /\ Agree(p)
    BY <1>1, <1>5, <2>1 DEF QueueInv, AnsweredFirst
  <2>3. /\ Len(k) \in Nat /\ Len(Answers(p)) = 1 + Len(k) /\ Answers(p)[1] = m
        /\ \A i \in 1 .. Len(k) : Answers(p)[i + 1] = k[i]
    <3>1. <<m>> \in Seq(Replies) /\ Len(<<m>>) = 1 /\ <<m>>[1] = m
      BY <2>1
    <3> DEFINE u == <<m>>
    <3>2. u \in Seq(Replies) /\ Len(u) = 1 /\ u[1] = m /\ Answers(p) = u \o k
      BY <2>2, <3>1
    <3> HIDE DEF u, k, m
    <3>3. /\ Len(u \o k) = 1 + Len(k)
          /\ \A i \in 1 .. 1 + Len(k) : (u \o k)[i] = IF i <= 1 THEN u[i] ELSE k[i - 1]
      BY <2>2, <3>2, ConcatProperties
    <3>4. Len(k) \in Nat
      BY <2>2, LenProperties
    <3>5. 1 \in 1 .. 1 + Len(k)
      BY <3>4
    <3>6. ASSUME NEW i \in 1 .. Len(k) PROVE (u \o k)[i + 1] = k[i]
      <4>1. i + 1 \in 1 .. 1 + Len(k) /\ ~(i + 1 <= 1) /\ (i + 1) - 1 = i
        BY <3>4
      <4>. QED BY <3>3, <4>1
    <3>. QED BY <3>2, <3>3, <3>4, <3>5, <3>6
  <2>4. /\ Len(s) \in Nat \ {0} /\ DOMAIN s = 1 .. Len(s) /\ Head(s) = s[1]
        /\ 1 + Len(k) <= Len(s) /\ \A i \in 1 .. Len(s) - 1 : Tail(s)[i] = s[i + 1]
    <3>1. Len(Answers(p)) <= Len(s)
      BY <2>2 DEF Agree
    <3>2. /\ Len(s) \in Nat \ {0} /\ DOMAIN s = 1 .. Len(s)
          /\ Len(Tail(s)) = Len(s) - 1 /\ \A i \in 1 .. Len(Tail(s)) : Tail(s)[i] = s[i + 1]
      BY <2>1, EmptySeq, LenProperties, HeadTailProperties
    <3>. QED BY <2>1, <2>3, <3>1, <3>2
  <2>5. ASSUME NEW r \in Range(s), r.seqno = m.seqno PROVE r = s[1]
    <3>1. PICK i \in 1 .. Len(s) : r = s[i]
      BY <2>4 DEF Range
    <3>2. 1 \in 1 .. Len(s) /\ (i # 1 => 1 < i)
      BY <2>4
    <3>3. i # 1 => s[1].seqno < s[i].seqno
      BY <3>2, <1>1, QueueIncreasing DEF QueueInv
    <3>4. s[1].seqno \in Nat
      <4>1. s[1] \in Requests
        BY <2>1, <3>2, ElementOfSeq
      <4>. QED BY <4>1, RequestsTyped, Shape, <1>1
    <3>. QED BY <2>1, <2>4, <2>5, <3>1, <3>3, <3>4
  <2> DEFINE new == IF s[1].type = "subscribe-events" /\ m.status = "0"
                    THEN Range(s[1].events) ELSE {}
  <2>6. confirmed'[p] = confirmed[p] \cup new
    <3> DEFINE R == {r \in Range(s) : /\ r.type = "subscribe-events"
                                      /\ r.seqno = m.seqno /\ m.status = "0"}
    <3>1. confirmed'[p] = confirmed[p] \cup UNION {Range(r.events) : r \in R}
      BY <1>1, <2>1 DEF Confirm
    <3>2. s[1] \in Range(s)
      BY <2>4 DEF Range
    <3>3. CASE s[1].type = "subscribe-events" /\ m.status = "0"
      <4>1. R = {s[1]}
        BY <2>1, <2>4, <2>5, <3>2, <3>3
      <4>2. UNION {Range(r.events) : r \in {s[1]}} = Range(s[1].events)
        OBVIOUS
      <4>. QED BY <3>1, <3>3, <4>1, <4>2
    <3>4. CASE ~(s[1].type = "subscribe-events" /\ m.status = "0")
      <4>1. R = {}
        BY <2>5, <3>4
      <4>. QED BY <3>1, <3>4, <4>1
    <3>. QED BY <3>3, <3>4
  <2>7. ASSUME link'[p] \in Open' PROVE SubOK(p)'
    <3>1. SubOK(p) /\ link'[p] = c
      BY <1>1, <2>7 DEF SubInv
    <3>2. SubAfter(c, new)
      <4>1. 1 \in 1 .. Len(Answers(p))
        BY <2>3
      <4>2. Sub(c, {})
        BY DEF Sub
      <4>3. Sub(c, new)
        BY <2>3, <3>1, <4>1, <4>2 DEF SubOK
      <4> HIDE DEF new, c
      <4>. QED BY <1>1, <1>2, <4>3, SubKept
    <3>3. SubAfter(c, confirmed[p])
      BY <1>1, <1>2, <3>1, SubKept DEF SubOK
    <3>4. SubAfter(link'[p], confirmed'[p])
      BY <2>6, <3>1, <3>2, <3>3 DEF SubAfter
    <3>5. ASSUME NEW i \in 1 .. Len(Answers(p)'), Answers(p)'[i].status = "0",
                 pendq'[p][i].type = "subscribe-events"
          PROVE  SubAfter(link'[p], Range(pendq'[p][i].events))
      <4>1. i \in 1 .. Len(k) /\ Answers(p)'[i] = k[i]
        BY <1>5, <3>5
      <4> HIDE DEF k
      <4>2. i + 1 \in 1 .. Len(Answers(p)) /\ i \in 1 .. Len(s) - 1 /\ Answers(p)[i + 1] = k[i]
        BY <2>3, <2>4, <4>1
      <4>3. pendq'[p][i] = s[i + 1]
        BY <2>1, <2>4, <4>2
      <4>4. Sub(c, Range(s[i + 1].events))
        BY <3>1, <3>5, <4>1, <4>2, <4>3 DEF SubOK
      <4> DEFINE names == Range(s[i + 1].events)
      <4>5. SubAfter(c, names)
        <5> HIDE DEF names, c
        <5>1. Sub(c, names)
          BY <4>4 DEF names
        <5>. QED BY <1>1, <1>2, <5>1, SubKept
      <4>. QED BY <3>1, <4>3, <4>5
    <3>. QED BY <3>4, <3>5, SubOKAgain
  <2>8. \A q \in Ctx : link'[q] = NoConn => confirmed'[q] = {}
    <3>1. link[p] # NoConn /\ link' = link
      BY <1>1
    <3>2. \A q \in Ctx : link[q] = NoConn => q # p /\ confirmed'[q] = confirmed[q]
      BY <1>3, <3>1
    <3>. QED BY <3>1, <3>2 DEF SubInv
  <2>9. \A q \in Ctx : link'[q] \in Open' => SubOK(q)'
    BY <1>4, <2>7
  <2>. QED BY <2>8, <2>9 DEF SubInv
<1>. QED BY <1>6, <1>7 DEF Received

(* A connection that ends leaves nothing confirmed.                        *)
LEMMA EndSubs ==
  ASSUME QueueInv, SubInv, NEW p \in Ctx, WentDown(p) \/ Gone(p)
  PROVE  SubInv'
<1>1. /\ UNCHANGED <<clients, mask, events, out, backlog>> /\ Open' = Open /\ TypeOK
      /\ link'[p] = NoConn /\ NoConn \notin Open /\ confirmed'[p] = {}
      /\ \A q \in Ctx : q # p =>
           link'[q] = link[q] /\ confirmed'[q] = confirmed[q] /\ pendq'[q] = pendq[q]
  BY Shape DEF WentDown, Gone, Forget, QueueInv, TypeOK, Open, clientVars, routerVars
<1>2. Grown /\ \A d : ClientKept(d)
  BY <1>1, StepGrows DEF ClientKept
<1>3. \A q \in Ctx : link'[q] = NoConn => confirmed'[q] = {}
  BY <1>1 DEF SubInv
<1>. QED BY <1>1, <1>2, <1>3, SubElsewhere

(* Accepting a client keeps SubInv: it was not served yet.                 *)
LEMMA ConnectSubs ==
  ASSUME QueueInv, SubInv, NEW c \in Conn, LncConnect(c)
  PROVE  SubInv'
<1>1. /\ c \in backlog /\ backlog' = backlog \ {c}
      /\ UNCHANGED <<link, out, events, confirmed, pendq>>
      /\ clients \in Seq(Conn) /\ mask \in [Conn -> SUBSET (0 .. MaxEvents - 1)]
      /\ TypeOK /\ c \notin Range(clients) /\ Range(clients) \subseteq Conn
  BY Shape DEF LncConnect, libVars, QueueInv, TypeOK
<1>2. Grown
  BY <1>1, StepGrows
<1>3. CASE ClientCreate(c) /\ MaskInit(c)
  <2>1. Range(clients') = Range(clients) \cup {c}
    BY <1>1, <1>3, AppendFacts DEF ClientCreate
  <2>2. Open' \subseteq Open /\ \A d : ClientKept(d)
    BY <1>1, <1>3, <2>1 DEF Open, MaskInit, ClientKept
  <2>. QED BY <1>1, <1>2, <2>2, SubElsewhere DEF SubInv
<1>4. CASE UNCHANGED <<clients, mask>>
  <2>1. Open' \subseteq Open /\ \A d : ClientKept(d)
    BY <1>1, <1>4 DEF Open, ClientKept
  <2>. QED BY <1>1, <1>2, <2>1, SubElsewhere DEF SubInv
<1>. QED BY <1>3, <1>4 DEF LncConnect

(* Dropping a client concerns its own connection only.                     *)
LEMMA DisconnectSubs ==
  ASSUME QueueInv, SubInv, NEW c \in Conn, LncClosed(c)
  PROVE  SubInv'
<1>1. Range(clients') = Range(clients) \ {c} /\ TypeOK
  BY DisconnectTyped DEF QueueInv
<1>2. /\ \A q \in Ctx : link[q] # c
      /\ UNCHANGED <<link, pendq, backlog, mask, events, confirmed>>
      /\ out' = [out EXCEPT ![c] = <<>>] /\ out \in [Conn -> Seq(Messages)]
      /\ Open \subseteq Conn
  BY <1>1, Shape
     DEF LncClosed, Holders, ClientDestroy, libVars, routerVars, historyVars, TypeOK
<1>3. Open' \subseteq Open /\ \A q \in Ctx : ClientKept(link[q])
  BY <1>1, <1>2 DEF Open, ClientKept
<1>4. \A q \in Ctx : link[q] \in Open => out'[link[q]] = out[link[q]]
  BY <1>2
<1>5. Grown
  BY <1>1, <1>2, StepGrows
<1>. QED BY <1>1, <1>2, <1>3, <1>4, <1>5, SubElsewhere DEF SubInv

(* A subscription is answered when it is made.                             *)
LEMMA ServeSubs ==
  ASSUME QueueInv, SubInv, NEW c \in Conn, Served(c), Registers(c), Handled(c)
  PROVE  SubInv'
<1> DEFINE r == Head(inq[c])
<1>1. /\ UNCHANGED <<link, clients, confirmed, backlog, id, pendq>> /\ Open' = Open /\ TypeOK
      /\ inq[c] # <<>> /\ c \in Range(clients) /\ c \in Open
      /\ link \in [Ctx -> Conn \cup {NoConn}] /\ NoConn \notin Conn
      /\ mask \in [Conn -> SUBSET (0 .. MaxEvents - 1)] /\ Range(clients) \subseteq Conn
  BY Shape DEF Served, QueueInv, TypeOK, Open, libVars, historyVars
<1>2. Grown
  BY <1>1, StepGrows
<1>3. \A d \in Conn : ClientKept(d)
  BY <1>1 DEF ClientKept, Registers, SetBits
<1>4. ASSUME NEW q \in Ctx, link[q] \in Open, link[q] # c PROVE SubOK(q)'
  <2>1. SubOK(q) /\ link[q] \in Conn /\ Fed(out'[link[q]], link[q])
    BY <1>1, <1>4, Shape DEF SubInv, Served
  <2>2. Answers(q)' = Answers(q)
    BY <1>1, <2>1, AnswersFed DEF Answers
  <2>. QED BY <1>1, <1>2, <1>3, <2>1, <2>2, SubSame
<1>5. ASSUME NEW q \in Ctx, link[q] = c PROVE SubOK(q)'
  <2> DEFINE a == Answers(q)
             s == pendq[q]
  <2>1. PICK w \in Seq(Messages), st \in {"0", "EINVAL", "EPERM"} :
          Fed(w, c) /\ out'[c] = Append(w, Status(r, st))
    BY DEF Served
  <2> DEFINE m == Status(r, st)
  <2>2. /\ r \in Requests /\ m \in Replies /\ m \in Messages /\ a \in Seq(Replies)
        /\ SubOK(q) /\ link[q] # NoConn /\ Agree(q) /\ s \in Seq(Requests)
    BY <1>1, <1>5, HeadOfInq, MessagesTyped, AnswersTyped, Shape
       DEF Answers, SubInv, QueueInv, AnsweredFirst
  <2>3. Keep(w, Replies) = a
    BY <1>1, <1>5, <2>1, AnswersFed DEF Answers
  <2>4. Answers(q)' = Append(a, m)
    <3> HIDE DEF m
    <3>1. Keep(Append(w, m), Replies) = Append(Keep(w, Replies), m)
      BY <2>2, KeepAppend
    <3>2. Answers(q)' = Keep(Append(w, m), Replies)
      BY <1>1, <1>5, <2>1 DEF Answers, m
    <3>. QED BY <2>3, <3>1, <3>2
  <2>5. s[Len(a) + 1] = r
    <3>1. inq[c] \in Seq(Requests) /\ inq[c] # <<>>
      BY <1>1, Shape
    <3>2. 1 \in 1 .. Len(inq[c]) /\ Head(inq[c]) = inq[c][1]
      BY <3>1, EmptySeq
    <3>3. inq[c][1] = s[Len(a) + 1]
      BY <1>1, <1>5, <2>2, <3>2 DEF Agree
    <3>. QED BY <3>2, <3>3
  <2>6. SubAfter(link'[q], confirmed'[q])
    BY <1>1, <1>2, <1>3, <1>5, <2>2, SubKept DEF SubOK
  <2>7. \A i \in 1 .. Len(a) : a[i].status = "0" /\ s[i].type = "subscribe-events"
          => Sub(c, Range(s[i].events))
    BY <1>5, <2>2 DEF SubOK
  <2> HIDE DEF a, m, s, r
  <2>8. /\ Len(a) \in Nat /\ Len(Append(a, m)) = Len(a) + 1 /\ Append(a, m)[Len(a) + 1] = m
        /\ \A i \in 1 .. Len(a) : Append(a, m)[i] = a[i]
    BY <2>2, LenProperties, AppendProperties
  <2>9. ASSUME NEW i \in 1 .. Len(a) + 1, Append(a, m)[i].status = "0",
               s[i].type = "subscribe-events"
        PROVE  SubAfter(c, Range(s[i].events))
    <3>1. CASE i \in 1 .. Len(a)
      <4> DEFINE names == Range(s[i].events)
      <4>1. Sub(c, names)
        BY <2>7, <2>8, <2>9, <3>1
      <4> HIDE DEF names
      <4>2. SubAfter(c, names)
        BY <1>1, <1>2, <1>3, <4>1, SubKept
      <4>. QED BY <4>2 DEF names
    <3>2. CASE i = Len(a) + 1
      <4>1. s[i] = r /\ r.type = "subscribe-events"
        BY <2>5, <2>9, <3>2
      <4>2. Subscribes(c, r)
        BY <4>1 DEF Handled, r
      <4>3. PICK bits \in SUBSET (0 .. MaxEvents - 1) :
              /\ SetBits(c, bits)
              /\ \A n \in Range(r.events) \cap Range(events') : EventId(events', n) \in bits
        BY <4>2 DEF Subscribes
      <4>4. bits \subseteq mask'[c]
        BY <1>1, <4>3 DEF SetBits
      <4>5. SubAfter(c, Range(r.events))
        BY <1>1, <4>2, <4>3, <4>4 DEF Subscribes, SubAfter, Full
      <4>. QED BY <4>1, <4>5
    <3>. QED BY <2>8, <3>1, <3>2
  <2>10. link'[q] = c /\ pendq'[q] = s
    BY <1>1, <1>5 DEF s
  <2>. QED BY <2>4, <2>6, <2>8, <2>9, <2>10, SubOKAgain
<1>. QED BY <1>1, <1>4, <1>5 DEF SubInv

(* SubInv holds initially.                                                 *)
LEMMA SubInit ==
  ASSUME Init
  PROVE  SubInv
<1>1. /\ \A p \in Ctx : link[p] = NoConn /\ confirmed[p] = {}
      /\ NoConn \notin Open
  BY DEF Init, LibInit, RouterInit, ClientsInit, Open, Range
<1>. QED BY <1>1 DEF SubInv

(* No request confirms a subscription.                                     *)
LEMMA AskDoes ==
  ASSUME TypeOK, NEW p \in Ctx, AppEventSubscribe(p) \/ AppEventSend(p) \/ AppList(p)
  PROVE  \E req \in Requests : Asks(p, req) /\ UNCHANGED confirmed
<1>1. UNCHANGED confirmed
  BY DEF AppEventSubscribe, AppEventSend, AppList, historyVars
<1>. QED BY <1>1, AskTyped

(* Every step keeps SubInv.                                                *)
LEMMA SubStep ==
  ASSUME QueueInv, SubInv, [Next]_vars
  PROVE  SubInv'
<1>1. TypeOK
  BY DEF QueueInv
<1>2. CASE UNCHANGED vars
  <2>1. /\ UNCHANGED <<link, clients, mask, events, out, confirmed, backlog, pendq>>
        /\ Open' = Open /\ \A d : ClientKept(d)
    BY <1>2 DEF Open, vars, clientVars, routerVars, libVars, historyVars, ClientKept
  <2>2. Grown
    BY <1>1, <2>1, StepGrows
  <2>. QED BY <1>1, <2>1, <2>2, SubElsewhere DEF SubInv
<1>3. ASSUME NEW p \in Ctx, AppEventSubscribe(p) \/ AppEventSend(p) \/ AppList(p)
      PROVE  SubInv'
  BY <1>1, <1>3, AskDoes, AskSubs
<1>4. ASSUME NEW p \in Ctx, RecvCb(p) \/ ClosedCb(p) \/ Destroy(p) PROVE SubInv'
  BY <1>1, <1>4, ReceiveDoes, ReceiveSubs, ClosedDoes, DestroyDoes, EndSubs
<1>5. ASSUME NEW c \in Conn, LncConnect(c) \/ LncClosed(c) \/ Serve(c) PROVE SubInv'
  BY <1>1, <1>5, ConnectSubs, DisconnectSubs, ServeDoes, ServeHandles, ServeSubs
<1>6. CASE Restart
  <2>1. Open' = {} /\ UNCHANGED <<link, confirmed>>
    BY <1>6 DEF Restart, Open, Range, libVars
  <2>. QED BY <2>1 DEF SubInv
<1>. QED BY <1>2, <1>3, <1>4, <1>5, <1>6 DEF Next

(* An application that was told it is subscribed (or has that status to    *)
(* read) is: its client's mask has the bits, unless the registry is full.  *)
THEOREM SubInvariant == Spec => []SubInv
<1>1. Init => SubInv
  BY SubInit
<1>2. QueueInv /\ SubInv /\ [Next]_vars => SubInv'
  BY SubStep
<1>. QED BY <1>1, <1>2, QueueInvariant, PTL DEF Spec

-----------------------------------------------------------------------------
(* An event that is owed is a request that will reach its subscriber when  *)
(* it is served, or a message on the subscriber's connection.              *)
WillReach(c, r, o) ==
  /\ r.type = "send-event" /\ r.data = o.data /\ id[c] \in Senders
  /\ r.event \in Range(events) /\ link[o.to] \in Recipients(r.event, r.target)

InDaemon(o) == \E c \in Open : \E r \in Range(inq[c]) : WillReach(c, r, o)

InOut(o) == \E m \in Range(out[link[o.to]]) : m.type = "event" /\ m.data = o.data

Owed(o) == link[o.to] \in Range(clients) /\ (InDaemon(o) \/ InOut(o))

OweInv == \A o \in owed : Owed(o)

(* What a subscriber was sent, and what others asked to send to it, stays. *)
SubscriberKept(c) ==
  /\ c \in Range(clients) => c \in Range(clients') /\ mask[c] \subseteq mask'[c]
  /\ c \in Range(clients) => id'[c] = id[c]

(* A request still reaches its subscriber after steps that keep that       *)
(* subscriber.                                                             *)
LEMMA ReachKept ==
  ASSUME TypeOK, Grown, NEW c, NEW c1, NEW r, NEW o, WillReach(c, r, o),
         link'[o.to] = link[o.to], SubscriberKept(link[o.to]), id'[c1] = id[c]
  PROVE  WillReach(c1, r, o)'
<1>1. /\ events \in Seq(Event) /\ Extends(events', events) /\ IsInjective(events')
      /\ r.event \in Range(events)
  BY DEF Grown, TypeOK, WillReach
<1>2. EventId(events', r.event) = EventId(events, r.event) /\ r.event \in Range(events')
  BY <1>1, EventIdStable
<1>3. link[o.to] \in Recipients(r.event, r.target)'
  BY <1>2 DEF WillReach, Recipients, SubscriberKept
<1>. QED BY <1>2, <1>3 DEF WillReach

(* What is owed stays owed while its subscriber, the request or the        *)
(* message stays.                                                          *)
LEMMA OwedKept ==
  ASSUME TypeOK, Grown, NEW o, Owed(o), link'[o.to] = link[o.to], SubscriberKept(link[o.to]),
         Open \subseteq Open', \A c \in Open : id'[c] = id[c],
         \A c \in Open : Range(inq[c]) \subseteq Range(inq'[c]),
         \A m \in Range(out[link[o.to]]) :
           m.type = "event" /\ m.data = o.data => m \in Range(out'[link[o.to]])
  PROVE  Owed(o)'
<1>1. link'[o.to] \in Range(clients')
  BY DEF Owed, SubscriberKept
<1>2. CASE InOut(o)
  BY <1>1, <1>2 DEF InOut, Owed
<1>3. CASE InDaemon(o)
  <2>1. PICK c \in Open : \E r \in Range(inq[c]) : WillReach(c, r, o)
    BY <1>3 DEF InDaemon
  <2>2. PICK r \in Range(inq[c]) : WillReach(c, r, o)
    BY <2>1
  <2>3. WillReach(c, r, o)'
    BY <2>2, ReachKept
  <2>. QED BY <1>1, <2>3 DEF InDaemon, Owed
<1>. QED BY <1>2, <1>3 DEF Owed

(* The effects of a request on what others are owed.                       *)
LEMMA AskKeepsOwed ==
  ASSUME QueueInv, OweInv, NEW p \in Ctx, NEW req \in Requests, Asks(p, req), NEW o \in owed
  PROVE  Owed(o)'
<1>1. /\ link \in [Ctx -> Conn \cup {NoConn}] /\ inq \in [Conn -> Seq(Requests)]
      /\ out \in [Conn -> Seq(Messages)] /\ id \in [Conn -> Identity \cup {NoIdentity}]
      /\ UNCHANGED <<clients, events, mask>> /\ TypeOK /\ Open \subseteq Conn
      /\ Range(clients) \subseteq Open /\ o.to \in Ctx /\ NoConn \notin Conn
  BY Shape DEF QueueInv, TypeOK, Asks, Open
<1>2. Grown
  BY <1>1, StepGrows
<1>3. Owed(o) /\ link[o.to] \in Open
  BY <1>1 DEF OweInv, Owed
<1>4. ASSUME NEW c \in Conn, Opened(p, req, c) PROVE Owed(o)'
  <2>1. /\ Open \subseteq Open' /\ c \notin Open /\ o.to # p /\ link'[o.to] = link[o.to]
        /\ \A d \in Conn : d # c => id'[d] = id[d] /\ inq'[d] = inq[d] /\ out'[d] = out[d]
    BY <1>1, <1>3, <1>4 DEF Opened, Open
  <2>2. \A d \in Open : id'[d] = id[d] /\ inq'[d] = inq[d] /\ out'[d] = out[d]
    BY <1>1, <2>1
  <2>3. SubscriberKept(link[o.to])
    BY <1>1, <1>3, <2>2 DEF SubscriberKept
  <2>. QED BY <1>1, <1>2, <1>3, <2>1, <2>2, <2>3, OwedKept
<1>5. CASE Queued(p, req)
  <2>1. /\ Open' = Open /\ UNCHANGED <<link, out, id>> /\ link[p] \in Conn
        /\ inq'[link[p]] = Append(inq[link[p]], req)
        /\ \A d \in Conn : d # link[p] => inq'[d] = inq[d]
    BY <1>1, <1>5 DEF Queued, Open
  <2>2. Range(inq'[link[p]]) = Range(inq[link[p]]) \cup {req}
    BY <1>1, <2>1, AppendRange
  <2>3. \A d \in Open : Range(inq[d]) \subseteq Range(inq'[d])
    BY <1>1, <2>1, <2>2
  <2>4. SubscriberKept(link[o.to])
    BY <1>1, <2>1 DEF SubscriberKept
  <2>. QED BY <1>1, <1>2, <1>3, <2>1, <2>3, <2>4, OwedKept
<1>6. CASE Unsent(p)
  <2>1. Open' = Open /\ UNCHANGED <<link, out, inq, id>>
    BY <1>1, <1>6 DEF Unsent, Open
  <2>2. SubscriberKept(link[o.to])
    BY <1>1, <2>1 DEF SubscriberKept
  <2>. QED BY <1>1, <1>2, <1>3, <2>1, <2>2, OwedKept
<1>. QED BY <1>4, <1>5, <1>6 DEF Asks

(* A confirmed subscriber has its bit set when the event is sent.          *)
LEMMA SendOwes ==
  ASSUME QueueInv, SubInv, OweInv, NEW p \in Ctx, AppEventSend(p)
  PROVE  OweInv'
<1>1. PICK sent \in Sent :
        /\ Request(p, SendReq(seqno[p], sent[1], sent[2], Data(p, sent[2])))
        /\ owed' = owed \cup
             (IF pendq' # pendq /\ Ident[p] \in Senders
              THEN {[to |-> q, data |-> Data(p, sent[2])] : q \in Subscribers(sent[1], sent[2])}
              ELSE {})
  BY DEF AppEventSend
<1>0. PICK r : r = SendReq(seqno[p], sent[1], sent[2], Data(p, sent[2]))
  OBVIOUS
<1>2. Asks(p, r) /\ seqno[p] <= MaxSeq /\ TypeOK
  BY <1>1, <1>0, RequestDoes DEF Asks, QueueInv
<1>3. /\ r \in Requests /\ r.type = "send-event" /\ r.event = sent[1] /\ r.target = sent[2]
      /\ r.data = Data(p, sent[2])
  BY <1>2, <1>0, PayloadTyped DEF SendReq
<1>4. /\ link \in [Ctx -> Conn \cup {NoConn}] /\ inq \in [Conn -> Seq(Requests)]
      /\ id \in [Conn -> Identity \cup {NoIdentity}] /\ events \in Seq(Event)
      /\ UNCHANGED <<clients, events, mask>> /\ Open \subseteq Conn /\ NoConn \notin Conn
      /\ Range(clients) \subseteq Open
  BY <1>2, Shape DEF TypeOK, Asks, Open
<1>5. ASSUME NEW q \in Subscribers(sent[1], sent[2]), pendq' # pendq, Ident[p] \in Senders,
             NEW o, o = [to |-> q, data |-> Data(p, sent[2])]
      PROVE  Owed(o)'
  <2>1. /\ q \in Ctx /\ r.event \in confirmed[q] \cap Range(events) /\ link[q] \in Open
        /\ r.target.uid \in {NoUid, Ident[q].uid} /\ r.target.pid \in {NoPid, Ident[q].pid}
        /\ o.to = q /\ o.data = r.data
    BY <1>3, <1>5 DEF Subscribers
  <2>2. link[q] \in Range(clients) /\ EventId(events, r.event) \in mask[link[q]]
    BY <2>1 DEF SubInv, SubOK, Sub
  <2>3. id[link[q]] = Ident[q]
    BY <2>1 DEF QueueInv, Links
  <2>4. ~Unsent(p)
    BY <1>5 DEF Unsent
  <2> DEFINE OnItsWay == \E c \in Open' : /\ r \in Range(inq'[c]) /\ id'[c] = Ident[p]
                                             /\ link'[q] = link[q]
                                             /\ id'[link[q]] = id[link[q]]
  <2>5. OnItsWay
    <3>1. ASSUME NEW c \in Conn, Opened(p, r, c) PROVE OnItsWay
      <4>1. c \in Open' /\ inq'[c] = <<r>> /\ id'[c] = Ident[p]
        BY <1>4, <3>1 DEF Opened, Open
      <4>2. r \in Range(<<r>>)
        BY DEF Range
      <4>3. link'[q] = link[q] /\ id'[link[q]] = id[link[q]]
        BY <1>4, <2>1, <3>1 DEF Opened
      <4>. QED BY <4>1, <4>2, <4>3
    <3>2. CASE Queued(p, r)
      <4>1. /\ link[p] \in Open' /\ UNCHANGED <<link, id>>
            /\ inq'[link[p]] = Append(inq[link[p]], r) /\ link[p] \in Conn
        BY <1>4, <3>2 DEF Queued, Open
      <4>2. r \in Range(inq'[link[p]])
        BY <1>2, <1>3, <4>1, AppendRange
      <4>3. id[link[p]] = Ident[p]
        BY <3>2 DEF Queued, QueueInv, Links
      <4>. QED BY <4>1, <4>2, <4>3
    <3>. QED BY <1>2, <2>4, <3>1, <3>2 DEF Asks
  <2>6. PICK c \in Open' : /\ r \in Range(inq'[c]) /\ id'[c] = Ident[p]
                           /\ link'[q] = link[q] /\ id'[link[q]] = id[link[q]]
    BY <2>5
  <2>7. link'[q] \in Recipients(r.event, r.target)'
    BY <1>4, <2>1, <2>2, <2>3, <2>6 DEF Recipients
  <2>8. WillReach(c, r, o)'
    BY <1>3, <1>4, <1>5, <2>1, <2>6, <2>7 DEF WillReach
  <2>. QED BY <1>4, <2>1, <2>2, <2>6, <2>8 DEF Owed, InDaemon
<1>6. \A o \in owed : Owed(o)'
  BY <1>2, <1>3, AskKeepsOwed
<1>. QED BY <1>1, <1>5, <1>6 DEF OweInv

(* Only the event itself is taken off what its subscriber is owed.         *)
LEMMA ReceiveOwes ==
  ASSUME QueueInv, OweInv, NEW p \in Ctx, Received(p)
  PROVE  OweInv'
<1> DEFINE c == link[p]
           m == Head(out[c])
<1>1. /\ UNCHANGED <<link, clients, mask, events, backlog, id, inq>> /\ Open' = Open /\ TypeOK
      /\ link \in [Ctx -> Conn \cup {NoConn}] /\ out \in [Conn -> Seq(Messages)]
      /\ out' = [out EXCEPT ![c] = Tail(@)] /\ out[c] # <<>> /\ c \in Conn
      /\ owed \subseteq [to : Ctx, data : Payloads]
  BY Shape DEF Received, QueueInv, TypeOK, Open, routerVars
<1>2. Grown /\ \A d : SubscriberKept(d)
  BY <1>1, StepGrows DEF SubscriberKept
<1>3. /\ Range(out[c]) = {m} \cup Range(Tail(out[c]))
      /\ \A d \in Conn : d # c => out'[d] = out[d]
  BY <1>1, TailRange
<1>4. ASSUME NEW o \in owed,
             link[o.to] = c => ~(m.type = "event" /\ m.data = o.data)
      PROVE  Owed(o)'
  <2>1. Owed(o) /\ o.to \in Ctx /\ link[o.to] \in Conn
    BY <1>1, Shape DEF OweInv, Owed
  <2>2. \A x \in Range(out[link[o.to]]) :
          x.type = "event" /\ x.data = o.data => x \in Range(out'[link[o.to]])
    BY <1>1, <1>3, <1>4, <2>1
  <2>. QED BY <1>1, <1>2, <2>1, <2>2, OwedKept
<1>5. CASE GotStatus(p)
  <2>1. owed' = owed /\ m.type # "event"
    BY <1>5, MessagesTyped DEF GotStatus
  <2>. QED BY <1>4, <2>1 DEF OweInv
<1>6. CASE GotEvent(p)
  <2>1. owed' = owed \ {[to |-> p, data |-> m.data]}
    BY <1>6 DEF GotEvent
  <2>2. ASSUME NEW o \in owed' PROVE o \in owed /\ (link[o.to] = c => m.data # o.data)
    <3>1. o \in owed /\ o \in [to : Ctx, data : Payloads] /\ o # [to |-> p, data |-> m.data]
      BY <1>1, <2>1
    <3>2. o.to = p => m.data # o.data
      BY <3>1
    <3>3. link[o.to] = c => o.to = p
      <4>1. o.to \in Ctx /\ c # NoConn
        BY <1>1, <3>1, Shape
      <4>. QED BY <4>1 DEF QueueInv, Links
    <3>. QED BY <3>1, <3>2, <3>3
  <2>. QED BY <1>4, <2>2 DEF OweInv
<1>. QED BY <1>5, <1>6 DEF Received

(* Steps that touch neither requests nor messages of those that are owed.  *)
LEMMA OweElsewhere ==
  ASSUME TypeOK, OweInv, Grown, owed' \subseteq owed, Open \subseteq Open',
         \A c \in Open : id'[c] = id[c] /\ inq'[c] = inq[c],
         \A o \in owed' : /\ link'[o.to] = link[o.to] /\ SubscriberKept(link[o.to])
                          /\ out'[link[o.to]] = out[link[o.to]]
  PROVE  OweInv'
<1>1. ASSUME NEW o \in owed' PROVE Owed(o)'
  <2>1. Owed(o)
    BY DEF OweInv
  <2>. QED BY <2>1, OwedKept
<1>. QED BY <1>1 DEF OweInv

(* A context whose connection ended is owed nothing any more.              *)
LEMMA EndOwes ==
  ASSUME QueueInv, OweInv, NEW p \in Ctx, WentDown(p) \/ Gone(p)
  PROVE  OweInv'
<1>1. /\ UNCHANGED <<clients, mask, events, out, backlog, id, inq>> /\ Open' = Open /\ TypeOK
      /\ owed' = {o \in owed : o.to # p} /\ owed \subseteq [to : Ctx, data : Payloads]
      /\ \A q \in Ctx : q # p => link'[q] = link[q]
  BY DEF WentDown, Gone, Forget, QueueInv, TypeOK, Open, clientVars, routerVars
<1>2. Grown /\ \A d : SubscriberKept(d)
  BY <1>1, StepGrows DEF SubscriberKept
<1>3. \A o \in owed' : link'[o.to] = link[o.to]
  BY <1>1
<1>. QED BY <1>1, <1>2, <1>3, OweElsewhere

(* A connection that is dropped takes with it what was sent on it.         *)
LEMMA ConnectOwes ==
  ASSUME QueueInv, OweInv, NEW c \in Conn, LncConnect(c)
  PROVE  OweInv'
<1>1. /\ c \in backlog /\ backlog' = backlog \ {c} /\ UNCHANGED <<link, out, events>>
      /\ clients \in Seq(Conn) /\ mask \in [Conn -> SUBSET (0 .. MaxEvents - 1)]
      /\ id \in [Conn -> Identity \cup {NoIdentity}] /\ inq \in [Conn -> Seq(Requests)]
      /\ TypeOK /\ c \notin Range(clients) /\ Range(clients) \subseteq Conn
      /\ link \in [Ctx -> Conn \cup {NoConn}] /\ owed \subseteq [to : Ctx, data : Payloads]
      /\ Open \subseteq Conn
  BY Shape DEF LncConnect, libVars, QueueInv, TypeOK
<1>2. Grown
  BY <1>1, StepGrows
<1>3. CASE ClientCreate(c) /\ MaskInit(c) /\ UNCHANGED <<id, inq, owed>>
  <2>1. Range(clients') = Range(clients) \cup {c}
    BY <1>1, <1>3, AppendFacts DEF ClientCreate
  <2>2. Open' = Open /\ \A d : SubscriberKept(d)
    BY <1>1, <1>3, <2>1 DEF Open, MaskInit, SubscriberKept
  <2>. QED BY <1>1, <1>2, <1>3, <2>2, OweElsewhere
<1>4. CASE /\ Holders(c) = {} /\ id' = [id EXCEPT ![c] = NoIdentity]
           /\ inq' = [inq EXCEPT ![c] = <<>>] /\ UNCHANGED <<clients, mask>>
           /\ owed' = {o \in owed : \A r \in Range(inq[c]) :
                                r.type = "send-event" => r.data # o.data}
  <2>1. \A q \in Ctx : link[q] # c
    BY <1>4 DEF Holders
  <2>2. Open' = Open \ {c} /\ \A d \in Conn : d # c => SubscriberKept(d)
    BY <1>1, <1>4 DEF Open, SubscriberKept
  <2>3. ASSUME NEW o \in owed' PROVE Owed(o)'
    <3>1. /\ o \in owed /\ Owed(o) /\ o.to \in Ctx /\ link[o.to] # c
          /\ \A r \in Range(inq[c]) : r.type = "send-event" => r.data # o.data
      BY <1>1, <1>4, <2>1 DEF OweInv
    <3>2. link[o.to] \in Range(clients) /\ SubscriberKept(link[o.to])
      BY <1>1, <2>2, <3>1 DEF Owed
    <3>3. CASE InOut(o)
      BY <1>1, <1>4, <3>2, <3>3 DEF Owed, InOut
    <3>4. CASE InDaemon(o)
      <4>1. PICK d \in Open : \E r \in Range(inq[d]) : WillReach(d, r, o)
        BY <3>4 DEF InDaemon
      <4>2. PICK r \in Range(inq[d]) : WillReach(d, r, o)
        BY <4>1
      <4>3. d # c
        BY <3>1, <4>2 DEF WillReach
      <4>4. d \in Open' /\ id'[d] = id[d] /\ inq'[d] = inq[d]
        BY <1>1, <1>4, <2>2, <4>3
      <4>5. WillReach(d, r, o)'
        BY <1>1, <1>2, <3>2, <4>2, <4>4, ReachKept
      <4>. QED BY <1>1, <1>4, <3>2, <4>4, <4>5 DEF Owed, InDaemon
    <3>. QED BY <3>1, <3>3, <3>4 DEF Owed
  <2>. QED BY <2>3 DEF OweInv
<1>. QED BY <1>3, <1>4 DEF LncConnect

(* Dropping a client keeps what others are owed.                           *)
LEMMA DisconnectOwes ==
  ASSUME QueueInv, OweInv, NEW c \in Conn, LncClosed(c)
  PROVE  OweInv'
<1>1. Range(clients') = Range(clients) \ {c} /\ TypeOK
  BY DisconnectTyped DEF QueueInv
<1>2. /\ \A q \in Ctx : link[q] # c /\ inq[c] = <<>>
      /\ UNCHANGED <<link, inq, backlog, mask, events, owed>>
      /\ id' = [id EXCEPT ![c] = NoIdentity] /\ out' = [out EXCEPT ![c] = <<>>]
      /\ id \in [Conn -> Identity \cup {NoIdentity}] /\ out \in [Conn -> Seq(Messages)]
      /\ Open \subseteq Conn /\ owed \subseteq [to : Ctx, data : Payloads]
      /\ Range(clients) \subseteq Conn
  BY <1>1, Shape
     DEF LncClosed, Holders, ClientDestroy, libVars, routerVars, historyVars, TypeOK
<1>3. Grown
  BY <1>1, <1>2, StepGrows
<1>4. ASSUME NEW o \in owed PROVE Owed(o)'
  <2>1. Owed(o) /\ o.to \in Ctx /\ link[o.to] # c /\ link[o.to] \in Range(clients)
        /\ link[o.to] \in Conn
    BY <1>2 DEF OweInv, Owed
  <2>2. SubscriberKept(link[o.to]) /\ link[o.to] \in Range(clients')
        /\ out'[link[o.to]] = out[link[o.to]]
    BY <1>1, <1>2, <2>1 DEF SubscriberKept
  <2>3. CASE InOut(o)
    BY <1>2, <2>2, <2>3 DEF Owed, InOut
  <2>4. CASE InDaemon(o)
    <3>1. PICK d \in Open : \E r \in Range(inq[d]) : WillReach(d, r, o)
      BY <2>4 DEF InDaemon
    <3>2. PICK r \in Range(inq[d]) : WillReach(d, r, o)
      BY <3>1
    <3>3. d # c
      BY <1>2, <2>1, <3>2 DEF Range
    <3>4. d \in Open' /\ id'[d] = id[d]
      BY <1>1, <1>2, <3>3 DEF Open
    <3>5. WillReach(d, r, o)'
      BY <1>1, <1>2, <1>3, <2>2, <3>2, <3>4, ReachKept
    <3>. QED BY <1>2, <2>2, <3>4, <3>5 DEF Owed, InDaemon
  <2>. QED BY <2>1, <2>3, <2>4 DEF Owed
<1>. QED BY <1>2, <1>4 DEF OweInv

(* A request that is served reaches those it was to reach.                 *)
LEMMA ServeOwes ==
  ASSUME QueueInv, OweInv, NEW c \in Conn, Served(c), Registers(c), Handled(c)
  PROVE  OweInv'
<1>1. PICK r : r = Head(inq[c])
  OBVIOUS
<1>2. /\ UNCHANGED <<link, clients, backlog, id, owed>> /\ Open' = Open /\ TypeOK
      /\ inq' = [inq EXCEPT ![c] = Tail(@)] /\ inq[c] # <<>> /\ c \in Range(clients)
      /\ inq \in [Conn -> Seq(Requests)] /\ Open \subseteq Conn /\ Range(clients) \subseteq Conn
      /\ mask \in [Conn -> SUBSET (0 .. MaxEvents - 1)] /\ events \in Seq(Event)
  BY Shape DEF Served, QueueInv, TypeOK, Open, libVars, historyVars
<1>3. Grown
  BY <1>2, StepGrows
<1>4. \A d \in Conn : SubscriberKept(d)
  BY <1>2 DEF SubscriberKept, Registers, SetBits
<1>5. /\ Range(inq[c]) = {r} \cup Range(inq'[c]) /\ \A d \in Conn : d # c => inq'[d] = inq[d]
      /\ r \in Requests
  BY <1>1, <1>2, TailRange, HeadOfInq
<1>6. Delivers(c, r)
  BY <1>1 DEF Handled
<1>7. ASSUME NEW o \in owed PROVE Owed(o)'
  <2>1. Owed(o) /\ link[o.to] \in Range(clients) /\ link[o.to] \in Conn
    BY <1>2 DEF OweInv, Owed
  <2>2. CASE InOut(o)
    BY <1>2, <1>6, <2>1, <2>2 DEF Delivers, Owed, InOut
  <2>3. CASE InDaemon(o)
    <3>1. PICK d \in Open : \E x \in Range(inq[d]) : WillReach(d, x, o)
      BY <2>3 DEF InDaemon
    <3>2. PICK x \in Range(inq[d]) : WillReach(d, x, o)
      BY <3>1
    <3>3. CASE d = c /\ x = r
      <4>1. /\ r.type = "send-event" /\ r.data = o.data /\ id[c] \in Senders
            /\ r.event \in Range(events) /\ link[o.to] \in Recipients(r.event, r.target)
        BY <3>2, <3>3 DEF WillReach
      <4>2. EventId(events, r.event) # -1
        <5>1. EventId(events, r.event) + 1 \in 1 .. Len(events)
          BY <1>2, <4>1, EventIdIs
        <5>2. EventId(events, r.event) \in -1 .. Len(events) - 1
          BY <1>2, EventIdIs
        <5>3. Len(events) \in Nat
          BY <1>2, LenProperties
        <5>4. PICK e : e = EventId(events, r.event)
          OBVIOUS
        <5>5. e # -1
          BY <5>1, <5>2, <5>3, <5>4
        <5>. QED BY <5>4, <5>5
      <4>3. link[o.to] \in Reaches(r)
        BY <4>1, <4>2 DEF Reaches
      <4>4. EventMsg(r.event, r.data) \in Range(out'[link[o.to]])
        BY <1>6, <4>1, <4>3 DEF Delivers
      <4>5. EventMsg(r.event, r.data).type = "event" /\ EventMsg(r.event, r.data).data = o.data
        BY <4>1 DEF EventMsg
      <4>. QED BY <1>2, <2>1, <4>4, <4>5 DEF Owed, InOut
    <3>4. CASE ~(d = c /\ x = r)
      <4>1. x \in Range(inq'[d]) /\ d \in Open'
        BY <1>2, <1>5, <3>2, <3>4
      <4>2. WillReach(d, x, o)'
        BY <1>2, <1>3, <1>4, <2>1, <3>2, ReachKept
      <4>. QED BY <1>2, <2>1, <4>1, <4>2 DEF Owed, InDaemon
    <3>. QED BY <3>3, <3>4
  <2>. QED BY <2>1, <2>2, <2>3 DEF Owed
<1>. QED BY <1>2, <1>7 DEF OweInv

(* Every step keeps OweInv.                                                *)
LEMMA OweStep ==
  ASSUME QueueInv, SubInv, OweInv, [Next]_vars
  PROVE  OweInv'
<1>1. TypeOK
  BY DEF QueueInv
<1>2. CASE UNCHANGED vars
  <2>1. /\ UNCHANGED <<link, clients, mask, events, out, owed, backlog, id, inq>>
        /\ Open' = Open /\ \A d : SubscriberKept(d)
    BY <1>2 DEF Open, vars, clientVars, routerVars, libVars, historyVars, SubscriberKept
  <2>2. Grown
    BY <1>1, <2>1, StepGrows
  <2>. QED BY <1>1, <2>1, <2>2, OweElsewhere
<1>3. ASSUME NEW p \in Ctx, AppEventSubscribe(p) \/ AppList(p) PROVE OweInv'
  <2>1. owed' = owed
    BY <1>3 DEF AppEventSubscribe, AppList, historyVars
  <2>2. \E req \in Requests : Asks(p, req)
    BY <1>1, <1>3, AskDoes
  <2>. QED BY <2>1, <2>2, AskKeepsOwed DEF OweInv
<1>4. ASSUME NEW p \in Ctx, AppEventSend(p) PROVE OweInv'
  BY <1>4, SendOwes
<1>5. ASSUME NEW p \in Ctx, RecvCb(p) \/ ClosedCb(p) \/ Destroy(p) PROVE OweInv'
  BY <1>1, <1>5, ReceiveDoes, ReceiveOwes, ClosedDoes, DestroyDoes, EndOwes
<1>6. ASSUME NEW c \in Conn, LncConnect(c) \/ LncClosed(c) \/ Serve(c) PROVE OweInv'
  BY <1>1, <1>6, ConnectOwes, DisconnectOwes, ServeDoes, ServeHandles, ServeOwes
<1>7. CASE Restart
  BY <1>7 DEF Restart, OweInv
<1>. QED BY <1>2, <1>3, <1>4, <1>5, <1>6, <1>7 DEF Next

(* An application that was told that it is subscribed misses no event that *)
(* is sent to it: until it has it, the event is on its way.                *)
THEOREM OwedInFlightCorrect == Spec => []OwedInFlight
<1>1. Init => OweInv
  BY DEF Init, OweInv
<1>2. QueueInv /\ SubInv /\ OweInv /\ [Next]_vars => OweInv'
  BY OweStep
<1>3. QueueInv /\ OweInv => OwedInFlight
  <2>1. ASSUME QueueInv, NEW o, Owed(o)
        PROVE  \/ \E c \in Conn : \E r \in Range(inq[c]) :
                    r.type = "send-event" /\ r.data = o.data
               \/ \E m \in Range(out[link[o.to]]) : m.type = "event" /\ m.data = o.data
    <3>1. Open \subseteq Conn
      BY <2>1, Shape DEF QueueInv
    <3>. QED BY <2>1, <3>1 DEF Owed, InDaemon, InOut, WillReach
  <2>. QED BY <2>1 DEF OweInv, OwedInFlight
<1>. QED BY <1>1, <1>2, <1>3, QueueInvariant, SubInvariant, PTL DEF Spec
=============================================================================
