------------------------------ MODULE SeqFacts ------------------------------
(***************************************************************************)
(* Facts about the library's operators on sequences that stand for the     *)
(* daemon's lists: what iot_list_append() and iot_list_delete() do to the  *)
(* members of a list, and that a search which breaks at its first match    *)
(* finds one.                                                              *)
(***************************************************************************)
EXTENDS Lists, FiniteSetTheorems, SequenceTheorems, TLAPS

(* A nonempty set of natural numbers has a least one, so that the first    *)
(* match of iot_list_foreach() with a break exists.                        *)
LEMMA MinInSet ==
  ASSUME NEW S \in SUBSET Nat, S # {}
  PROVE  Min(S) \in S /\ \A y \in S : Min(S) <= y
<1> DEFINE T == {0 .. n : n \in S}
<1>1. \A n \in S : 0 .. n \in FiniteSubsetsOf(Nat)
  <2>1. SUFFICES ASSUME NEW n \in S PROVE 0 .. n \in SUBSET Nat /\ IsFiniteSet(0 .. n)
    BY DEF FiniteSubsetsOf
  <2>2. n \in Int /\ 0 \in Int
    OBVIOUS
  <2>3. IsFiniteSet(0 .. n)
    BY <2>2, FS_Interval
  <2>. QED BY <2>3
<1>2. T \subseteq FiniteSubsetsOf(Nat) /\ T # {}
  BY <1>1
<1>3. PICK X \in T : \A Y \in T : <<Y, X>> \notin StrictSubsetOrdering(Nat)
  <2>. HIDE DEF T
  <2>. QED BY <1>2, WFMin, FS_StrictSubsetOrderingWellFounded
<1>4. PICK m \in S : X = 0 .. m
  OBVIOUS
<1>5. ASSUME NEW n \in S PROVE m <= n
  <2>1. CASE n < m
    <3>1. 0 .. n \subseteq 0 .. m /\ m \in 0 .. m /\ m \notin 0 .. n
      BY <2>1
    <3>2. <<0 .. n, 0 .. m>> \in StrictSubsetOrdering(Nat)
      BY <3>1 DEF StrictSubsetOrdering
    <3>3. 0 .. n \in T
      OBVIOUS
    <3>. QED BY <3>2, <3>3, <1>3, <1>4
  <2>. QED BY <2>1
<1>. QED BY <1>5 DEF Min

(* Appending adds one member to a list, and names none twice if it was not *)
(* there: iot_list_append() in client_create() and application_setup().    *)
LEMMA AppendFacts ==
  ASSUME NEW S, NEW s \in Seq(S), NEW x \in S
  PROVE  /\ Append(s, x) \in Seq(S)
         /\ Range(Append(s, x)) = Range(s) \cup {x}
         /\ IsInjective(s) /\ x \notin Range(s) => IsInjective(Append(s, x))
<1> DEFINE t == Append(s, x)
<1>1. /\ t \in Seq(S) /\ Len(t) = Len(s) + 1 /\ Len(s) \in Nat
      /\ \A i \in 1 .. Len(s) : t[i] = s[i]
      /\ t[Len(s) + 1] = x
  BY AppendProperties, LenProperties
<1>2. DOMAIN s = 1 .. Len(s) /\ DOMAIN t = 1 .. Len(s) + 1
  BY <1>1, LenProperties
<1> HIDE DEF t
<1>3. Range(t) = Range(s) \cup {x}
  <2>1. Range(s) \cup {x} \subseteq Range(t)
    BY <1>1, <1>2 DEF Range
  <2>2. Range(t) \subseteq Range(s) \cup {x}
    BY <1>1, <1>2 DEF Range
  <2>. QED BY <2>1, <2>2
<1>4. ASSUME IsInjective(s), x \notin Range(s) PROVE IsInjective(t)
  BY <1>1, <1>2, <1>4 DEF Range, IsInjective
<1>. QED BY <1>1, <1>3, <1>4 DEF t

(* Deleting takes away one occurrence of a member; what was behind it moves *)
(* up by one place.                                                        *)
LEMMA RemoveFirstPlaces ==
  ASSUME NEW S, NEW s \in Seq(S), NEW x \in Range(s)
  PROVE  \E k \in 1 .. Len(s) :
           /\ s[k] = x
           /\ RemoveFirst(s, x) \in Seq(S) /\ Len(RemoveFirst(s, x)) = Len(s) - 1
           /\ \A i \in 1 .. Len(s) - 1 :
                RemoveFirst(s, x)[i] = IF i < k THEN s[i] ELSE s[i + 1]
<1> DEFINE I == {i \in 1 .. Len(s) : s[i] = x}
           k == Min(I)
           n == Len(s)
           t == RemoveFirst(s, x)
<1>1. n \in Nat /\ DOMAIN s = 1 .. n /\ \A i \in 1 .. n : s[i] \in S
  BY LenProperties, ElementOfSeq
<1>2. I \in SUBSET Nat /\ I # {}
  BY <1>1 DEF Range
<1>3. k \in 1 .. n /\ s[k] = x
  <2>. HIDE DEF I
  <2>1. k \in I
    BY <1>2, MinInSet
  <2>. QED BY <2>1 DEF I
<1>4. t = SubSeq(s, 1, k - 1) \o SubSeq(s, k + 1, n)
  BY <1>2 DEF RemoveFirst, RemoveAt, SelectInSeq
<1> HIDE DEF k, t
<1> DEFINE a == SubSeq(s, 1, k - 1)
           b == SubSeq(s, k + 1, n)
<1>5. /\ a \in Seq(S) /\ Len(a) = k - 1
      /\ \A i \in 1 .. k - 1 : a[i] = s[i]
  <2>1. 1 \in Int /\ k - 1 \in Int /\ \A i \in 1 .. k - 1 : s[i] \in S
    BY <1>1, <1>3
  <2>2. /\ a \in Seq(S) /\ Len(a) = IF 1 <= k - 1 THEN k - 1 - 1 + 1 ELSE 0
        /\ \A i \in 1 .. k - 1 - 1 + 1 : a[i] = s[1 + i - 1]
    BY <2>1, SubSeqProperties
  <2>. QED BY <2>2, <1>1, <1>3
<1>6. /\ b \in Seq(S) /\ Len(b) = n - k
      /\ \A i \in 1 .. n - k : b[i] = s[k + i]
  <2>1. k + 1 \in Int /\ n \in Int /\ \A i \in k + 1 .. n : s[i] \in S
    BY <1>1, <1>3
  <2>2. /\ b \in Seq(S) /\ Len(b) = IF k + 1 <= n THEN n - (k + 1) + 1 ELSE 0
        /\ \A i \in 1 .. n - (k + 1) + 1 : b[i] = s[k + 1 + i - 1]
    BY <2>1, SubSeqProperties
  <2>. QED BY <2>2, <1>1, <1>3
<1> HIDE DEF a, b
<1>7. /\ t \in Seq(S) /\ Len(t) = n - 1
      /\ \A i \in 1 .. n - 1 : t[i] = IF i < k THEN s[i] ELSE s[i + 1]
  <2>1. /\ t \in Seq(S) /\ Len(t) = Len(a) + Len(b)
        /\ \A i \in 1 .. Len(a) + Len(b) :
             t[i] = IF i <= Len(a) THEN a[i] ELSE b[i - Len(a)]
    BY <1>4, <1>5, <1>6, ConcatProperties DEF a, b
  <2>2. ASSUME NEW i \in 1 .. n - 1
        PROVE  t[i] = IF i < k THEN s[i] ELSE s[i + 1]
    <3>1. CASE i < k
      <4>1. i \in 1 .. k - 1 /\ i <= Len(a) /\ i \in 1 .. Len(a) + Len(b)
        BY <3>1, <1>1, <1>3, <1>5, <1>6
      <4>. QED BY <4>1, <3>1, <2>1, <1>5
    <3>2. CASE ~(i < k)
      <4>1. /\ i - Len(a) = i - k + 1 /\ ~(i <= Len(a))
            /\ i - k + 1 \in 1 .. n - k /\ i \in 1 .. Len(a) + Len(b)
            /\ k + (i - k + 1) = i + 1
        BY <3>2, <1>1, <1>3, <1>5, <1>6
      <4>2. t[i] = b[i - k + 1]
        BY <4>1, <2>1
      <4>3. b[i - k + 1] = s[k + (i - k + 1)]
        BY <4>1, <1>6
      <4>. QED BY <4>1, <4>2, <4>3, <3>2
    <3>. QED BY <3>1, <3>2
  <2>. QED BY <2>1, <2>2, <1>1, <1>3, <1>5, <1>6
<1>. QED BY <1>3, <1>7 DEF t

(* The member itself is gone when the list names none twice:               *)
(* iot_list_delete() in client_destroy() and application_cleanup().        *)
LEMMA RemoveFirstFacts ==
  ASSUME NEW S, NEW s \in Seq(S), NEW x \in Range(s)
  PROVE  /\ RemoveFirst(s, x) \in Seq(S)
         /\ Range(RemoveFirst(s, x)) \subseteq Range(s)
         /\ IsInjective(s) => /\ IsInjective(RemoveFirst(s, x))
                              /\ Range(RemoveFirst(s, x)) = Range(s) \ {x}
<1> DEFINE n == Len(s)
           t == RemoveFirst(s, x)
<1>1. n \in Nat /\ DOMAIN s = 1 .. n
  BY LenProperties
<1>2. PICK k \in 1 .. n : /\ s[k] = x /\ t \in Seq(S) /\ Len(t) = n - 1
                          /\ \A i \in 1 .. n - 1 : t[i] = IF i < k THEN s[i] ELSE s[i + 1]
  BY RemoveFirstPlaces
<1> HIDE DEF t, n
<1>8. DOMAIN t = 1 .. n - 1
  BY <1>2, LenProperties
<1> DEFINE from(i) == IF i < k THEN i ELSE i + 1
<1>12. ASSUME NEW i \in 1 .. n - 1 PROVE from(i) \in 1 .. n /\ t[i] = s[from(i)]
  BY <1>1, <1>2
<1>9. Range(t) \subseteq Range(s)
  BY <1>1, <1>8, <1>12 DEF Range
<1>10. ASSUME IsInjective(s) PROVE IsInjective(t)
  <2>1. ASSUME NEW i \in 1 .. n - 1, NEW j \in 1 .. n - 1, t[i] = t[j] PROVE i = j
    <3>1. from(i) = from(j)
      BY <1>1, <1>10, <1>12, <2>1 DEF IsInjective
    <3>. QED BY <1>1, <3>1
  <2>. QED BY <1>8, <2>1 DEF IsInjective
<1>11. ASSUME IsInjective(s) PROVE Range(t) = Range(s) \ {x}
  <2>1. x \notin Range(t)
    <3>1. ASSUME NEW i \in 1 .. n - 1 PROVE t[i] # x
      <4>1. i \in 1 .. n /\ i + 1 \in 1 .. n /\ k \in 1 .. n
        BY <1>1, <1>2
      <4>2. (s[i] = x => i = k) /\ (s[i + 1] = x => i + 1 = k)
        BY <4>1, <1>1, <1>2, <1>11 DEF IsInjective
      <4>. QED BY <4>1, <4>2, <1>2
    <3>. QED BY <3>1, <1>8 DEF Range
  <2>2. ASSUME NEW y \in Range(s), y # x PROVE y \in Range(t)
    <3>1. PICK j \in 1 .. n : s[j] = y
      BY <1>1 DEF Range
    <3>2. CASE j < k
      BY <3>1, <3>2, <1>1, <1>2, <1>8 DEF Range
    <3>3. CASE j > k
      <4>1. j - 1 \in 1 .. n - 1 /\ t[j - 1] = y
        BY <3>1, <3>3, <1>1, <1>2
      <4>. QED BY <4>1, <1>8 DEF Range
    <3>. QED BY <3>1, <3>2, <3>3, <2>2, <1>1, <1>2
  <2>. QED BY <2>1, <2>2, <1>9
<1>. QED BY <1>2, <1>9, <1>10, <1>11 DEF t

(* Induction, with the set of the numbers that have the property.          *)
LEMMA UpFromZero ==
  ASSUME NEW S \in SUBSET Nat, 0 \in S, \A n \in S : n + 1 \in S
  PROVE  S = Nat
<1> DEFINE U == Nat \ S
<1>1. ASSUME U # {} PROVE FALSE
  <2>1. Min(U) \in U /\ \A n \in U : Min(U) <= n
    BY <1>1, MinInSet
  <2> DEFINE m == Min(U)
  <2>2. m \in Nat /\ m \notin S /\ m # 0
    BY <2>1
  <2>3. m - 1 \in S
    BY <2>1, <2>2
  <2>. QED BY <2>2, <2>3
<1>. QED BY <1>1

(* A member that none exceeds is the maximum.                              *)
LEMMA MaxIs ==
  ASSUME NEW D \in SUBSET Nat, NEW m \in D, \A y \in D : m >= y
  PROVE  Max(D) = m
<1>1. Max(D) \in D /\ \A y \in D : Max(D) >= y
  BY DEF Max
<1>2. \A k \in D : k >= m => k = m
  OBVIOUS
<1>. QED BY <1>1, <1>2

(* A finite set of positive numbers that is not empty has a maximum.       *)
LEMMA MaxInSet ==
  ASSUME NEW n \in Nat, NEW D \in SUBSET (1 .. n), D # {}
  PROVE  Max(D) \in D
<1> DEFINE U == {n - x : x \in D}
<1>1. U \in SUBSET Nat /\ U # {}
  <2>1. \A x \in D : n - x \in Nat
    OBVIOUS
  <2>. QED BY <2>1
<1>2. Min(U) \in U /\ \A y \in U : Min(U) <= y
  <2> HIDE DEF U
  <2>. QED BY <1>1, MinInSet
<1>3. PICK m \in D : Min(U) = n - m
  BY <1>2
<1>4. ASSUME NEW y \in D PROVE m >= y
  <2>1. n - m <= n - y
    BY <1>2, <1>3
  <2>. QED BY <2>1
<1>. QED BY <1>3, <1>4, MaxIs

(* FoldLeft() takes its result from a function on the sets of places that  *)
(* are left to do.  There is one, for any step that stays within a set V.  *)
FoldedBy(n, base, step, f) ==
  \A D \in SUBSET (1 .. n) :
    f[D] = IF D = {} THEN base ELSE step[Max(D)][f[D \ {Max(D)}]]

(* There is a function that folds every set of indices of a sequence.      *)
LEMMA FoldExists ==
  ASSUME NEW V, NEW base \in V, NEW n \in Nat, NEW step \in [1 .. n -> [V -> V]]
  PROVE  \E f \in [SUBSET (1 .. n) -> V] : FoldedBy(n, base, step, f)
<1> DEFINE Good == {k \in Nat : k <= n =>
                      \E f \in [SUBSET (1 .. k) -> V] : FoldedBy(k, base, step, f)}
<1>1. 0 \in Good
  <2> DEFINE f == [D \in SUBSET (1 .. 0) |-> base]
  <2>1. \A D \in SUBSET (1 .. 0) : D = {}
    OBVIOUS
  <2>2. f \in [SUBSET (1 .. 0) -> V] /\ FoldedBy(0, base, step, f)
    BY <2>1 DEF FoldedBy
  <2>. QED BY <2>2
<1>2. ASSUME NEW k \in Good, k + 1 <= n PROVE k + 1 \in Good
  <2>1. k \in Nat /\ k <= n /\ k + 1 \in 1 .. n
    BY <1>2
  <2>2. PICK f \in [SUBSET (1 .. k) -> V] : FoldedBy(k, base, step, f)
    BY <2>1
  <2> DEFINE g == [D \in SUBSET (1 .. k + 1) |->
                     IF k + 1 \in D THEN step[k + 1][f[D \ {k + 1}]] ELSE f[D]]
  <2>3. \A x \in 1 .. k + 1 : x # k + 1 => x \in 1 .. k
    BY <2>1
  <2>4. g \in [SUBSET (1 .. k + 1) -> V]
    <3>1. ASSUME NEW D \in SUBSET (1 .. k + 1), k + 1 \in D PROVE step[k + 1][f[D \ {k + 1}]] \in V
      <4>1. D \ {k + 1} \in SUBSET (1 .. k)
        BY <2>3
      <4>. QED BY <2>1, <4>1
    <3>2. ASSUME NEW D \in SUBSET (1 .. k + 1), k + 1 \notin D PROVE f[D] \in V
      <4>1. D \in SUBSET (1 .. k)
        BY <2>3, <3>2
      <4>. QED BY <4>1
    <3>. QED BY <3>1, <3>2
  <2>5. ASSUME NEW D \in SUBSET (1 .. k + 1)
        PROVE  g[D] = IF D = {} THEN base ELSE step[Max(D)][g[D \ {Max(D)}]]
    <3>1. CASE k + 1 \in D
      <4>1. Max(D) = k + 1 /\ D # {}
        BY <2>1, <3>1, MaxIs
      <4>2. D \ {k + 1} \in SUBSET (1 .. k + 1) /\ k + 1 \notin D \ {k + 1}
        OBVIOUS
      <4>3. g[D \ {k + 1}] = f[D \ {k + 1}] /\ g[D] = step[k + 1][f[D \ {k + 1}]]
        BY <3>1, <4>2
      <4>. QED BY <4>1, <4>3
    <3>2. CASE k + 1 \notin D
      <4>1. D \in SUBSET (1 .. k) /\ D \ {Max(D)} \in SUBSET (1 .. k + 1)
            /\ k + 1 \notin D \ {Max(D)}
        BY <2>3, <3>2
      <4>2. g[D] = f[D] /\ g[D \ {Max(D)}] = f[D \ {Max(D)}]
        BY <3>2, <4>1
      <4>3. f[D] = IF D = {} THEN base ELSE step[Max(D)][f[D \ {Max(D)}]]
        BY <2>2, <4>1 DEF FoldedBy
      <4>. QED BY <4>2, <4>3
    <3>. QED BY <3>1, <3>2
  <2>6. FoldedBy(k + 1, base, step, g)
    <3> HIDE DEF g
    <3>. QED BY <2>5 DEF FoldedBy
  <2>7. \E e \in [SUBSET (1 .. k + 1) -> V] : FoldedBy(k + 1, base, step, e)
    <3> HIDE DEF g
    <3>. QED BY <2>4, <2>6
  <2>. QED BY <2>1, <2>7
<1>3. Good = Nat
  <2>1. Good \in SUBSET Nat
    OBVIOUS
  <2>2. ASSUME NEW k \in Good PROVE k + 1 \in Good
    <3>1. k + 1 \in Nat
      OBVIOUS
    <3>2. CASE ~(k + 1 <= n)
      BY <3>1, <3>2
    <3>. QED BY <1>2, <3>2
  <2> HIDE DEF Good
  <2>. QED BY <1>1, <2>1, <2>2, UpFromZero
<1>4. n \in Good
  <2> HIDE DEF Good
  <2>. QED BY <1>3
<1>5. n <= n
  OBVIOUS
<1>. QED BY <1>4, <1>5, Zenon

(* Where it is defined on the first i places, for each i.                  *)
LEMMA FirstPlaces ==
  ASSUME NEW n \in Nat, NEW i \in 1 .. n
  PROVE  /\ 1 .. i \in SUBSET (1 .. n) /\ 1 .. i # {} /\ Max(1 .. i) = i
         /\ (1 .. i) \ {i} = 1 .. (i - 1) /\ {} \in SUBSET (1 .. n) /\ 1 .. 0 = {}
<1>1. i \in Nat /\ i \in 1 .. i
  OBVIOUS
<1>2. \A j \in 1 .. i : j \in 1 .. n
  OBVIOUS
<1>3. Max(1 .. i) = i
  BY <1>1, MaxIs
<1>4. (1 .. i) \ {i} = 1 .. (i - 1)
  BY <1>1
<1>5. 1 .. 0 = {}
  OBVIOUS
<1>. QED BY <1>1, <1>2, <1>3, <1>4, <1>5

(* Induction over sequences, with the set of those that have the property. *)
LEMMA GrownByAppend ==
  ASSUME NEW S, NEW Q \in SUBSET Seq(S), <<>> \in Q,
         \A t \in Q, x \in S : Append(t, x) \in Q
  PROVE  Q = Seq(S)
<1> DEFINE Good == {n \in Nat : \A t \in Seq(S) : Len(t) = n => t \in Q}
<1>1. 0 \in Good
  BY EmptySeq
<1>2. ASSUME NEW n \in Good PROVE n + 1 \in Good
  <2>1. ASSUME NEW t \in Seq(S), Len(t) = n + 1 PROVE t \in Q
    <3> DEFINE u == [i \in 1 .. n |-> t[i]]
    <3>1. n \in Nat /\ \A i \in 1 .. n + 1 : t[i] \in S
      BY <2>1, ElementOfSeq
    <3>2. u \in Seq(S) /\ Len(u) = n
      BY <3>1
    <3>3. /\ Append(u, t[n + 1]) \in Seq(S) /\ Len(Append(u, t[n + 1])) = n + 1
          /\ \A i \in 1 .. n + 1 : Append(u, t[n + 1])[i] = t[i]
      BY <3>1, <3>2, AppendProperties
    <3>4. t = Append(u, t[n + 1])
      <4> HIDE DEF u
      <4>. QED BY <2>1, <3>3, SeqEqual
    <3> HIDE DEF u
    <3>5. u \in Q /\ n + 1 \in 1 .. n + 1
      BY <3>1, <3>2
    <3>6. Append(u, t[n + 1]) \in Q
      BY <3>1, <3>5
    <3>. QED BY <3>4, <3>6
  <2>. QED BY <2>1
<1>3. Good = Nat
  <2>1. Good \in SUBSET Nat
    OBVIOUS
  <2> HIDE DEF Good
  <2>. QED BY <1>1, <1>2, <2>1, UpFromZero
<1>4. ASSUME NEW t \in Seq(S) PROVE t \in Q
  <2>1. Len(t) \in Good
    <3> HIDE DEF Good
    <3>. QED BY <1>3, LenProperties
  <2>. QED BY <2>1
<1>. QED BY <1>4
-----------------------------------------------------------------------------
(* Keep() goes through the sequence once, from its first member on.        *)
KeepStep(s, T, kept, i) == IF s[i] \in T THEN Append(kept, s[i]) ELSE kept

KeptBy(s, T, h) ==
  /\ h[0] = <<>> /\ Keep(s, T) = h[Len(s)]
  /\ \A i \in 1 .. Len(s) : h[i] = KeepStep(s, T, h[i - 1], i)

(* Keep() is what is kept after the last member.                           *)
LEMMA KeepUnrolled ==
  ASSUME NEW S, NEW s \in Seq(S), NEW T
  PROVE  \E h : KeptBy(s, T, h)
<1> DEFINE n == Len(s)
           Iter(f) == f = [D \in SUBSET (1 .. n) |->
                             IF D = {} THEN <<>>
                             ELSE KeepStep(s, T, f[D \ {Max(D)}], Max(D))]
           step == [i \in 1 .. n |-> [kept \in Seq(S) |-> KeepStep(s, T, kept, i)]]
<1>1. n \in Nat /\ DOMAIN s = 1 .. n /\ \A i \in 1 .. n : s[i] \in S
  BY LenProperties, ElementOfSeq
<1>2. step \in [1 .. n -> [Seq(S) -> Seq(S)]]
  BY <1>1, AppendProperties DEF KeepStep
<1>3. <<>> \in Seq(S)
  OBVIOUS
<1>4. PICK f \in [SUBSET (1 .. n) -> Seq(S)] : FoldedBy(n, <<>>, step, f)
  <2> HIDE DEF step, n
  <2>. QED BY <1>1, <1>2, <1>3, FoldExists
<1>5. Iter(f)
  <2>1. ASSUME NEW D \in SUBSET (1 .. n), D # {}
        PROVE  f[D] = KeepStep(s, T, f[D \ {Max(D)}], Max(D))
    <3>1. Max(D) \in 1 .. n /\ f[D \ {Max(D)}] \in Seq(S)
      BY <1>1, <2>1, MaxInSet
    <3>2. f[D] = step[Max(D)][f[D \ {Max(D)}]]
      BY <1>4, <2>1 DEF FoldedBy
    <3>. QED BY <3>1, <3>2
  <2>2. f[{}] = <<>>
    BY <1>4 DEF FoldedBy
  <2>. QED BY <2>1, <2>2
<1> DEFINE it == CHOOSE g : Iter(g)
           h == [i \in 0 .. n |-> it[1 .. i]]
<1>6. Keep(s, T) = it[1 .. n]
  BY <1>1, Zenon DEF Keep, FoldLeft, MapThenFoldSet, KeepStep
<1>7. it = [D \in SUBSET (1 .. n) |->
              IF D = {} THEN <<>> ELSE KeepStep(s, T, it[D \ {Max(D)}], Max(D))]
  BY <1>5, Zenon
<1> HIDE DEF it, n
<1>8. h[0] = <<>> /\ h[n] = Keep(s, T)
  <2>1. 1 .. 0 = {} /\ {} \in SUBSET (1 .. n)
    OBVIOUS
  <2>2. it[1 .. 0] = <<>>
    BY <1>7, <2>1
  <2>. QED BY <1>1, <1>6, <2>2
<1>9. ASSUME NEW i \in 1 .. n PROVE h[i] = KeepStep(s, T, h[i - 1], i)
  <2>1. it[1 .. i] = KeepStep(s, T, it[1 .. (i - 1)], i)
    <3>1. /\ 1 .. i \in SUBSET (1 .. n) /\ 1 .. i # {} /\ Max(1 .. i) = i
          /\ (1 .. i) \ {i} = 1 .. (i - 1)
      BY <1>1, FirstPlaces
    <3>. QED BY <1>7, <3>1
  <2>2. i \in 0 .. n /\ i - 1 \in 0 .. n
    BY <1>1
  <2>. QED BY <2>1, <2>2
<1>10. KeptBy(s, T, h)
  BY <1>8, <1>9 DEF n, KeptBy
<1>. QED BY <1>10

(* What it has kept after any number of members.                           *)
LEMMA KeepTyped ==
  ASSUME NEW S, NEW s \in Seq(S), NEW T, NEW h, KeptBy(s, T, h)
  PROVE  \A i \in 0 .. Len(s) : h[i] \in Seq(S \cap T)
<1> DEFINE Good == {i \in Nat : i <= Len(s) => h[i] \in Seq(S \cap T)}
<1>1. Len(s) \in Nat /\ \A i \in 1 .. Len(s) : s[i] \in S
  BY LenProperties, ElementOfSeq
<1>2. 0 \in Good
  <2>1. <<>> \in Seq(S \cap T)
    BY EmptySeq
  <2>. QED BY <2>1 DEF KeptBy
<1>3. ASSUME NEW i \in Good PROVE i + 1 \in Good
  <2>1. CASE i + 1 <= Len(s)
    <3>1. i + 1 \in 1 .. Len(s) /\ (i + 1) - 1 = i /\ h[i] \in Seq(S \cap T)
      BY <1>1, <2>1
    <3>2. h[i + 1] = KeepStep(s, T, h[i], i + 1) /\ s[i + 1] \in S
      BY <1>1, <3>1 DEF KeptBy
    <3>3. KeepStep(s, T, h[i], i + 1) \in Seq(S \cap T)
      BY <3>1, <3>2, AppendProperties DEF KeepStep
    <3>. QED BY <3>2, <3>3
  <2>. QED BY <2>1
<1>4. Good = Nat
  <2>1. Good \in SUBSET Nat
    OBVIOUS
  <2> HIDE DEF Good
  <2>. QED BY <1>2, <1>3, <2>1, UpFromZero
<1>5. ASSUME NEW i \in 0 .. Len(s) PROVE h[i] \in Seq(S \cap T)
  <2>1. i \in Nat /\ i <= Len(s) /\ i \in Good
    <3> HIDE DEF Good
    <3>. QED BY <1>1, <1>4
  <2>. QED BY <2>1
<1>. QED BY <1>5

(* Keep() only keeps members of the sequence that are in the set.          *)
LEMMA KeepType ==
  ASSUME NEW S, NEW s \in Seq(S), NEW T
  PROVE  Keep(s, T) \in Seq(S \cap T)
<1>1. Len(s) \in 0 .. Len(s)
  BY LenProperties
<1>2. PICK h : KeptBy(s, T, h)
  BY KeepUnrolled
<1>. QED BY <1>1, <1>2, KeepTyped DEF KeptBy

(* Two passes agree for as long as they see the same members.              *)
LEMMA KeepEmpty ==
  ASSUME NEW T
  PROVE  Keep(<<>>, T) = <<>>
<1> SUFFICES ASSUME NEW s \in Seq({}), s = <<>> PROVE Keep(s, T) = <<>>
  BY EmptySeq
<1>1. PICK h : KeptBy(s, T, h)
  BY KeepUnrolled
<1>2. Len(s) = 0
  BY EmptySeq
<1>. QED BY <1>1, <1>2 DEF KeptBy

(* A new last member is kept last, if it is in the set.                    *)
LEMMA KeepAppend ==
  ASSUME NEW S, NEW s \in Seq(S), NEW x \in S, NEW T
  PROVE  Keep(Append(s, x), T) = IF x \in T THEN Append(Keep(s, T), x) ELSE Keep(s, T)
<1> DEFINE t == Append(s, x)
           n == Len(s)
<1>1. /\ n \in Nat /\ t \in Seq(S) /\ Len(t) = n + 1 /\ t[n + 1] = x
      /\ \A i \in 1 .. n : t[i] = s[i]
  BY LenProperties, AppendProperties
<1>2. PICK h : KeptBy(s, T, h)
  BY KeepUnrolled
<1> HIDE DEF t
<1>3. PICK g : KeptBy(t, T, g)
  BY <1>1, KeepUnrolled
<1> DEFINE Good == {i \in Nat : i <= n => g[i] = h[i]}
<1>4. 0 \in Good
  BY <1>2, <1>3 DEF KeptBy
<1>5. ASSUME NEW i \in Good PROVE i + 1 \in Good
  <2>1. CASE i + 1 <= n
    <3>1. i + 1 \in 1 .. n /\ i + 1 \in 1 .. n + 1 /\ (i + 1) - 1 = i /\ g[i] = h[i]
      BY <1>1, <2>1
    <3>2. h[i + 1] = KeepStep(s, T, h[i], i + 1)
      BY <1>2, <3>1 DEF KeptBy
    <3>3. g[i + 1] = KeepStep(t, T, g[i], i + 1)
      BY <1>1, <1>3, <3>1 DEF KeptBy
    <3>. QED BY <1>1, <3>1, <3>2, <3>3 DEF KeepStep
  <2>. QED BY <2>1
<1>6. Good = Nat
  <2>1. Good \in SUBSET Nat
    OBVIOUS
  <2> HIDE DEF Good
  <2>. QED BY <1>4, <1>5, <2>1, UpFromZero
<1>7. g[n] = h[n]
  <2>1. n \in Good /\ n <= n
    <3> HIDE DEF Good
    <3>. QED BY <1>1, <1>6
  <2>. QED BY <2>1
<1>8. g[n + 1] = KeepStep(t, T, g[n], n + 1)
  <2>1. n + 1 \in 1 .. n + 1 /\ (n + 1) - 1 = n
    BY <1>1
  <2>. QED BY <1>1, <1>3, <2>1 DEF KeptBy
<1>9. Keep(t, T) = g[n + 1] /\ Keep(s, T) = h[n]
  BY <1>1, <1>2, <1>3 DEF KeptBy
<1>. QED BY <1>1, <1>7, <1>8, <1>9 DEF KeepStep, t

(* What the passes over a queue do to it, by the first member.             *)
LEMMA KeepPlaces ==
  ASSUME NEW S, NEW s \in Seq(S), NEW T
  PROVE  /\ (\A i \in 1 .. Len(s) : s[i] \in T) => Keep(s, T) = s
         /\ (\A i \in 1 .. Len(s) : s[i] \notin T) => Keep(s, T) = <<>>
         /\ s # <<>> /\ (\A i \in 1 .. Len(s) : s[i] \in T <=> i = 1)
              => Keep(s, T) = <<Head(s)>>
         /\ s # <<>> /\ (\A i \in 1 .. Len(s) : s[i] \in T <=> i # 1)
              => Keep(s, T) = Tail(s)
<1> DEFINE n == Len(s)
           Good == {t \in Seq(S) :
                      /\ (\A i \in 1 .. Len(t) : t[i] \in T) => Keep(t, T) = t
                      /\ (\A i \in 1 .. Len(t) : t[i] \notin T) => Keep(t, T) = <<>>
                      /\ t # <<>> /\ (\A i \in 1 .. Len(t) : t[i] \in T <=> i = 1)
                           => Keep(t, T) = <<Head(t)>>
                      /\ t # <<>> /\ (\A i \in 1 .. Len(t) : t[i] \in T <=> i # 1)
                           => Keep(t, T) = Tail(t)}
<1>1. <<>> \in Good
  BY KeepEmpty
<1>2. ASSUME NEW t \in Good, NEW x \in S PROVE Append(t, x) \in Good
  <2> DEFINE u == Append(t, x)
  <2>1. /\ t \in Seq(S) /\ Len(t) \in Nat /\ u \in Seq(S) /\ Len(u) = Len(t) + 1
        /\ u[Len(u)] = x /\ \A i \in 1 .. Len(t) : u[i] = t[i] /\ i \in 1 .. Len(u)
        /\ Len(u) \in 1 .. Len(u)
    BY LenProperties, AppendProperties
  <2>2. Keep(u, T) = IF x \in T THEN Append(Keep(t, T), x) ELSE Keep(t, T)
    BY <2>1, KeepAppend
  <2>3. t = <<>> => u = <<x>> /\ Head(u) = x /\ Tail(u) = <<>> /\ Len(u) = 1 /\ Keep(t, T) = <<>>
               /\ Append(Keep(t, T), x) = <<x>>
    <3>1. Keep(<<>>, T) = <<>>
      BY KeepEmpty
    <3>2. /\ Append(<<>>, x) = <<x>> /\ Len(<<x>>) = 1 /\ Head(<<x>>) = x
          /\ Tail(<<x>>) = <<>>
      OBVIOUS
    <3>. QED BY <3>1, <3>2
  <2>4. t # <<>> => Head(u) = Head(t) /\ Tail(u) = Append(Tail(t), x) /\ Len(t) # 0
    BY <2>1, EmptySeq
  <2> HIDE DEF u
  <2>5. (\A i \in 1 .. Len(u) : u[i] \in T) => Keep(u, T) = u
    BY <2>1, <2>2 DEF u
  <2>6. (\A i \in 1 .. Len(u) : u[i] \notin T) => Keep(u, T) = <<>>
    BY <2>1, <2>2
  <2>7. ASSUME \A i \in 1 .. Len(u) : u[i] \in T <=> i = 1 PROVE Keep(u, T) = <<Head(u)>>
    <3>1. CASE t = <<>>
      BY <2>1, <2>2, <2>3, <2>7, <3>1
    <3>2. CASE t # <<>>
      <4>1. Len(u) # 1 /\ x \notin T /\ \A i \in 1 .. Len(t) : t[i] \in T <=> i = 1
        BY <2>1, <2>4, <2>7, <3>2
      <4>. QED BY <2>2, <2>4, <3>2, <4>1
    <3>. QED BY <3>1, <3>2
  <2>8. ASSUME \A i \in 1 .. Len(u) : u[i] \in T <=> i # 1 PROVE Keep(u, T) = Tail(u)
    <3>1. CASE t = <<>>
      BY <2>1, <2>2, <2>3, <2>8, <3>1
    <3>2. CASE t # <<>>
      <4>1. Len(u) # 1 /\ x \in T /\ \A i \in 1 .. Len(t) : t[i] \in T <=> i # 1
        BY <2>1, <2>4, <2>8, <3>2
      <4>. QED BY <2>2, <2>4, <3>2, <4>1
    <3>. QED BY <3>1, <3>2
  <2>. QED BY <2>1, <2>5, <2>6, <2>7, <2>8 DEF u
<1>3. Good = Seq(S)
  <2>1. Good \in SUBSET Seq(S)
    OBVIOUS
  <2> HIDE DEF Good
  <2>. QED BY <1>1, <1>2, <2>1, GrownByAppend
<1>4. s \in Good
  <2> HIDE DEF Good
  <2>. QED BY <1>3
<1>. QED BY <1>4

(* What reading the first message does to the answers among them.          *)
LEMMA KeepTail ==
  ASSUME NEW S, NEW s \in Seq(S), s # <<>>, NEW T
  PROVE  Keep(s, T) = IF Head(s) \in T THEN <<Head(s)>> \o Keep(Tail(s), T)
                      ELSE Keep(Tail(s), T)
<1> DEFINE Good == {t \in Seq(S) : t # <<>> =>
                      Keep(t, T) = IF Head(t) \in T THEN <<Head(t)>> \o Keep(Tail(t), T)
                                   ELSE Keep(Tail(t), T)}
<1>1. <<>> \in Good
  OBVIOUS
<1>2. ASSUME NEW t \in Good, NEW x \in S PROVE Append(t, x) \in Good
  <2> DEFINE u == Append(t, x)
  <2>1. t \in Seq(S) /\ u \in Seq(S) /\ u # <<>>
    BY AppendProperties
  <2>2. Keep(u, T) = IF x \in T THEN Append(Keep(t, T), x) ELSE Keep(t, T)
    BY <2>1, KeepAppend
  <2>3. CASE t = <<>>
    <3>1. Keep(<<>>, T) = <<>>
      BY KeepEmpty
    <3>2. /\ Append(<<>>, x) = <<x>> /\ Head(<<x>>) = x /\ Tail(<<x>>) = <<>>
          /\ <<x>> \o <<>> = <<x>>
      OBVIOUS
    <3>. QED BY <2>1, <2>2, <2>3, <3>1, <3>2
  <2>4. CASE t # <<>>
    <3>1. Head(t) \in S /\ Tail(t) \in Seq(S) /\ Head(u) = Head(t) /\ Tail(u) = Append(Tail(t), x)
      BY <2>1, <2>4, HeadTailProperties
    <3> HIDE DEF u
    <3>2. Keep(Tail(u), T) = IF x \in T THEN Append(Keep(Tail(t), T), x) ELSE Keep(Tail(t), T)
      <4>1. Keep(Append(Tail(t), x), T)
              = IF x \in T THEN Append(Keep(Tail(t), T), x) ELSE Keep(Tail(t), T)
        <5> DEFINE tl == Tail(t)
        <5>1. tl \in Seq(S)
          BY <3>1
        <5> HIDE DEF tl
        <5>2. Keep(Append(tl, x), T) = IF x \in T THEN Append(Keep(tl, T), x) ELSE Keep(tl, T)
          BY <5>1, KeepAppend, ZenonT(60)
        <5>. QED BY <5>2 DEF tl
      <4>. QED BY <3>1, <4>1
    <3>3. \A a \in S, k \in Seq(S) : Append(<<a>> \o k, x) = <<a>> \o Append(k, x)
      OBVIOUS
    <3>4. Keep(Tail(t), T) \in Seq(S)
      <4>1. Keep(Tail(t), T) \in Seq(S \cap T)
        BY <3>1, KeepType
      <4>. QED BY <4>1, SeqMonotonic
    <3>5. Keep(t, T) = IF Head(t) \in T THEN <<Head(t)>> \o Keep(Tail(t), T)
                       ELSE Keep(Tail(t), T)
      BY <2>4
    <3>6. Keep(u, T) = IF Head(u) \in T THEN <<Head(u)>> \o Keep(Tail(u), T)
                       ELSE Keep(Tail(u), T)
      BY <2>2, <3>1, <3>2, <3>3, <3>4, <3>5
    <3>. QED BY <2>1, <3>6 DEF u
  <2>. QED BY <2>3, <2>4
<1>3. Good = Seq(S)
  <2>1. Good \in SUBSET Seq(S)
    OBVIOUS
  <2> HIDE DEF Good
  <2>. QED BY <1>1, <1>2, <2>1, GrownByAppend
<1>4. s \in Good
  <2> HIDE DEF Good
  <2>. QED BY <1>3
<1>. QED BY <1>4

-----------------------------------------------------------------------------
(* Two members of a list, one before the other, and what the operations on *)
(* lists do to that.                                                       *)
Before(s, a, b) == \E i \in DOMAIN s, j \in DOMAIN s : i < j /\ s[i] = a /\ s[j] = b

(* Nothing is before itself or before what is before it.                   *)
LEMMA BeforeOrder ==
  ASSUME NEW S, NEW s \in Seq(S), IsInjective(s)
  PROVE  /\ \A a, b : Before(s, a, b) => a # b /\ a \in Range(s) /\ b \in Range(s)
         /\ \A a \in Range(s), b \in Range(s) : a = b \/ Before(s, a, b) \/ Before(s, b, a)
         /\ \A a, b : Before(s, a, b) => ~Before(s, b, a)
         /\ \A a, b, c : Before(s, a, b) /\ Before(s, b, c) => Before(s, a, c)
<1>1. Len(s) \in Nat /\ DOMAIN s = 1 .. Len(s)
  BY LenProperties
<1>2. \A i \in DOMAIN s, j \in DOMAIN s : s[i] = s[j] => i = j
  BY DEF IsInjective
<1>3. \A a, b : Before(s, a, b) => a # b /\ a \in Range(s) /\ b \in Range(s)
  BY <1>1, <1>2 DEF Before, Range
<1>4. ASSUME NEW a \in Range(s), NEW b \in Range(s)
      PROVE  a = b \/ Before(s, a, b) \/ Before(s, b, a)
  <2>1. PICK i \in DOMAIN s : s[i] = a
    BY DEF Range
  <2>2. PICK j \in DOMAIN s : s[j] = b
    BY DEF Range
  <2>3. i < j \/ i = j \/ j < i
    BY <1>1
  <2>. QED BY <2>1, <2>2, <2>3 DEF Before
<1>5. \A a, b : Before(s, a, b) => ~Before(s, b, a)
  BY <1>1, <1>2 DEF Before
<1>6. \A a, b, c : Before(s, a, b) /\ Before(s, b, c) => Before(s, a, c)
  BY <1>1, <1>2 DEF Before
<1>. QED BY <1>3, <1>4, <1>5, <1>6

(* What is appended is behind all others, whose order stays.               *)
LEMMA AppendBefore ==
  ASSUME NEW S, NEW s \in Seq(S), NEW x \in S
  PROVE  \A a, b : Before(Append(s, x), a, b) <=> Before(s, a, b) \/ (a \in Range(s) /\ b = x)
<1> DEFINE t == Append(s, x)
           n == Len(s)
<1>1. /\ n \in Nat /\ DOMAIN s = 1 .. n /\ DOMAIN t = 1 .. n + 1 /\ t[n + 1] = x
      /\ \A i \in 1 .. n : t[i] = s[i]
  BY LenProperties, AppendProperties
<1> HIDE DEF t, n
<1>2. ASSUME NEW a, NEW b, Before(t, a, b)
      PROVE  Before(s, a, b) \/ (a \in Range(s) /\ b = x)
  <2>1. PICK i \in 1 .. n + 1 : \E j \in 1 .. n + 1 : i < j /\ t[i] = a /\ t[j] = b
    BY <1>1, <1>2 DEF Before
  <2>2. PICK j \in 1 .. n + 1 : i < j /\ t[i] = a /\ t[j] = b
    BY <2>1
  <2>3. i \in 1 .. n /\ s[i] = a
    BY <1>1, <2>2
  <2>4. CASE j = n + 1
    BY <1>1, <2>2, <2>3, <2>4 DEF Range
  <2>5. CASE j # n + 1
    <3>1. j \in 1 .. n /\ s[j] = b
      BY <1>1, <2>2, <2>5
    <3>. QED BY <1>1, <2>2, <2>3, <3>1 DEF Before
  <2>. QED BY <2>4, <2>5
<1>3. ASSUME NEW a, NEW b, Before(s, a, b) PROVE Before(t, a, b)
  <2>1. PICK i \in 1 .. n : \E j \in 1 .. n : i < j /\ s[i] = a /\ s[j] = b
    BY <1>1, <1>3 DEF Before
  <2>2. PICK j \in 1 .. n : i < j /\ s[i] = a /\ s[j] = b
    BY <2>1
  <2>3. i \in 1 .. n + 1 /\ j \in 1 .. n + 1 /\ t[i] = a /\ t[j] = b
    BY <1>1, <2>2
  <2>. QED BY <1>1, <2>2, <2>3 DEF Before
<1>4. ASSUME NEW a \in Range(s) PROVE Before(t, a, x)
  <2>1. PICK i \in 1 .. n : s[i] = a
    BY <1>1 DEF Range
  <2>2. i \in 1 .. n + 1 /\ n + 1 \in 1 .. n + 1 /\ i < n + 1 /\ t[i] = a
    BY <1>1, <2>1
  <2>. QED BY <1>1, <2>2 DEF Before
<1>. QED BY <1>2, <1>3, <1>4 DEF t

(* Deleting a member leaves the others in their order.                     *)
LEMMA RemoveFirstBefore ==
  ASSUME NEW S, NEW s \in Seq(S), NEW x, IsInjective(s)
  PROVE  \A a, b : Before(RemoveFirst(s, x), a, b) <=> Before(s, a, b) /\ a # x /\ b # x
<1> DEFINE n == Len(s)
           t == RemoveFirst(s, x)
<1>1. n \in Nat /\ DOMAIN s = 1 .. n
  BY LenProperties
<1>2. CASE x \notin Range(s)
  <2>1. t = s
    BY <1>1, <1>2 DEF RemoveFirst, Range
  <2>2. \A a, b : Before(s, a, b) => a # x /\ b # x
    BY <1>2, BeforeOrder
  <2>. QED BY <2>1, <2>2
<1>3. CASE x \in Range(s)
  <2>1. PICK k \in 1 .. n : /\ s[k] = x /\ t \in Seq(S) /\ Len(t) = n - 1
                            /\ \A i \in 1 .. n - 1 : t[i] = IF i < k THEN s[i] ELSE s[i + 1]
    BY <1>3, RemoveFirstPlaces
  <2>2. DOMAIN t = 1 .. n - 1
    BY <2>1, LenProperties
  <2>3. \A i \in 1 .. n : s[i] = x => i = k
    BY <1>1, <2>1 DEF IsInjective
  <2> HIDE DEF t, n
  <2>4. ASSUME NEW a, NEW b, Before(t, a, b) PROVE Before(s, a, b) /\ a # x /\ b # x
    <3>1. PICK i \in 1 .. n - 1 : \E j \in 1 .. n - 1 : i < j /\ t[i] = a /\ t[j] = b
      BY <2>2, <2>4 DEF Before
    <3>2. PICK j \in 1 .. n - 1 : i < j /\ t[i] = a /\ t[j] = b
      BY <3>1
    <3> DEFINE u == IF i < k THEN i ELSE i + 1
               v == IF j < k THEN j ELSE j + 1
    <3>3. /\ u \in 1 .. n /\ v \in 1 .. n /\ u < v /\ u # k /\ v # k
          /\ s[u] = a /\ s[v] = b
      BY <1>1, <2>1, <3>2
    <3> HIDE DEF u, v
    <3>. QED BY <1>1, <2>3, <3>3 DEF Before
  <2>5. ASSUME NEW a, NEW b, Before(s, a, b), a # x, b # x PROVE Before(t, a, b)
    <3>1. PICK i \in 1 .. n : \E j \in 1 .. n : i < j /\ s[i] = a /\ s[j] = b
      BY <1>1, <2>5 DEF Before
    <3>2. PICK j \in 1 .. n : i < j /\ s[i] = a /\ s[j] = b
      BY <3>1
    <3> DEFINE u == IF i < k THEN i ELSE i - 1
               v == IF j < k THEN j ELSE j - 1
    <3>3. i # k /\ j # k
      BY <2>1, <2>5, <3>2
    <3>4. /\ u \in 1 .. n - 1 /\ v \in 1 .. n - 1 /\ u < v
          /\ i = (IF u < k THEN u ELSE u + 1) /\ j = (IF v < k THEN v ELSE v + 1)
      BY <1>1, <2>1, <3>2, <3>3
    <3>5. t[u] = a /\ t[v] = b
      <4> HIDE DEF u, v
      <4>. QED BY <2>1, <3>2, <3>4
    <3> HIDE DEF u, v
    <3>. QED BY <2>2, <3>4, <3>5 DEF Before
  <2>. QED BY <2>4, <2>5 DEF t
<1>. QED BY <1>2, <1>3

(* Inserting a member before place k.                                      *)
Inserted(s, k, x, w) ==
  /\ Len(w) = Len(s) + 1
  /\ \A i \in 1 .. Len(s) + 1 : w[i] = IF i < k THEN s[i] ELSE IF i = k THEN x ELSE s[i - 1]

(* InsertAt() puts a value in front of what was at its index, and leaves   *)
(* the order of the others alone.                                          *)
LEMMA InsertAtPlaces ==
  ASSUME NEW S, NEW s \in Seq(S), NEW x \in S, NEW k \in 1 .. Len(s) + 1
  PROVE  InsertAt(s, k, x) \in Seq(S) /\ Inserted(s, k, x, InsertAt(s, k, x))
<1> DEFINE n == Len(s)
           a == SubSeq(s, 1, k - 1)
           b == SubSeq(s, k, n)
           ax == Append(a, x)
           w == InsertAt(s, k, x)
<1>1. n \in Nat /\ \A i \in 1 .. n : s[i] \in S
  BY LenProperties, ElementOfSeq
<1>2. /\ a \in Seq(S) /\ Len(a) = k - 1
      /\ \A i \in 1 .. k - 1 : a[i] = s[i]
  <2>1. 1 \in Int /\ k - 1 \in Int /\ \A i \in 1 .. k - 1 : s[i] \in S
    BY <1>1
  <2>2. /\ a \in Seq(S) /\ Len(a) = IF 1 <= k - 1 THEN k - 1 - 1 + 1 ELSE 0
        /\ \A i \in 1 .. k - 1 - 1 + 1 : a[i] = s[1 + i - 1]
    BY <2>1, SubSeqProperties
  <2>. QED BY <2>2, <1>1
<1>3. /\ b \in Seq(S) /\ Len(b) = n - k + 1
      /\ \A i \in 1 .. n - k + 1 : b[i] = s[k + i - 1]
  <2>1. k \in Int /\ n \in Int /\ \A i \in k .. n : s[i] \in S
    BY <1>1
  <2>2. /\ b \in Seq(S) /\ Len(b) = IF k <= n THEN n - k + 1 ELSE 0
        /\ \A i \in 1 .. n - k + 1 : b[i] = s[k + i - 1]
    BY <2>1, SubSeqProperties
  <2>. QED BY <2>2, <1>1
<1>4. a \o <<x>> = ax /\ w = (a \o <<x>>) \o b
  <2>1. \A q \in Seq(S), r \in Seq(S) : q \o <<x>> = Append(q, x) /\ q \o <<x>> \o r = (q \o <<x>>) \o r
    OBVIOUS
  <2>. QED BY <1>2, <1>3, <2>1 DEF InsertAt
<1> HIDE DEF a, b, w
<1>5. /\ ax \in Seq(S) /\ Len(ax) = k /\ ax[k] = x
      /\ \A i \in 1 .. k - 1 : ax[i] = s[i]
  BY <1>1, <1>2, AppendProperties
<1> HIDE DEF ax
<1>6. /\ w \in Seq(S) /\ Len(w) = Len(ax) + Len(b)
      /\ \A i \in 1 .. Len(ax) + Len(b) : w[i] = IF i <= Len(ax) THEN ax[i] ELSE b[i - Len(ax)]
  <2>1. w = ax \o b
    BY <1>4
  <2>2. /\ ax \o b \in Seq(S) /\ Len(ax \o b) = Len(ax) + Len(b)
        /\ \A i \in 1 .. Len(ax) + Len(b) :
             (ax \o b)[i] = IF i <= Len(ax) THEN ax[i] ELSE b[i - Len(ax)]
    BY <1>3, <1>5, ConcatProperties
  <2>. QED BY <2>1, <2>2
<1>7. ASSUME NEW i \in 1 .. n + 1
      PROVE  w[i] = IF i < k THEN s[i] ELSE IF i = k THEN x ELSE s[i - 1]
  <2>1. i \in 1 .. Len(ax) + Len(b)
    BY <1>1, <1>3, <1>5
  <2>2. CASE i <= k
    <3>1. w[i] = ax[i]
      BY <1>5, <1>6, <2>1, <2>2
    <3>2. CASE i = k
      BY <1>5, <3>1, <3>2
    <3>3. CASE i < k
      BY <1>1, <1>5, <3>1, <3>3
    <3>. QED BY <1>1, <2>2, <3>2, <3>3
  <2>3. CASE i > k
    <3>1. i - k \in 1 .. n - k + 1 /\ k + (i - k) - 1 = i - 1 /\ ~(i <= k) /\ ~(i < k) /\ i # k
      BY <1>1, <2>3
    <3>2. w[i] = b[i - k]
      BY <1>5, <1>6, <2>1, <3>1
    <3>. QED BY <1>3, <3>1, <3>2
  <2>. QED BY <1>1, <2>2, <2>3
<1>. QED BY <1>1, <1>3, <1>5, <1>6, <1>7 DEF w, Inserted

(* The new member is behind those it was inserted after, and before the    *)
(* others.                                                                 *)
LEMMA InsertAtFacts ==
  ASSUME NEW S, NEW s \in Seq(S), NEW x \in S, NEW k \in 1 .. Len(s) + 1
  PROVE  LET w == InsertAt(s, k, x)
         IN  /\ w \in Seq(S) /\ Range(w) = Range(s) \cup {x}
             /\ IsInjective(s) /\ x \notin Range(s) => IsInjective(w)
             /\ \A a, b : Before(w, a, b) =>
                  \/ Before(s, a, b)
                  \/ b = x /\ \E i \in 1 .. k - 1 : s[i] = a
                  \/ a = x /\ \E i \in k .. Len(s) : s[i] = b
<1> DEFINE n == Len(s)
           w == InsertAt(s, k, x)
<1>1. n \in Nat /\ DOMAIN s = 1 .. n
  BY LenProperties
<1>2. /\ w \in Seq(S) /\ Len(w) = n + 1
      /\ \A i \in 1 .. n + 1 : w[i] = IF i < k THEN s[i] ELSE IF i = k THEN x ELSE s[i - 1]
  <2>1. w \in Seq(S) /\ Inserted(s, k, x, w)
    BY InsertAtPlaces
  <2> HIDE DEF w
  <2>. QED BY <2>1 DEF Inserted
<1>3. DOMAIN w = 1 .. n + 1
  BY <1>2, LenProperties
<1> HIDE DEF w, n
<1>4. k \in 1 .. n + 1
  BY DEF n
<1>5. Range(w) = Range(s) \cup {x}
  <2>1. Range(w) \subseteq Range(s) \cup {x}
    <3>1. ASSUME NEW i \in 1 .. n + 1 PROVE w[i] \in Range(s) \cup {x}
      <4>1. CASE i < k
        BY <1>1, <1>2, <1>4, <4>1 DEF Range
      <4>2. CASE i = k
        BY <1>2, <4>2
      <4>3. CASE i > k
        <5>1. i - 1 \in 1 .. n /\ w[i] = s[i - 1]
          BY <1>1, <1>2, <1>4, <4>3
        <5>. QED BY <1>1, <5>1 DEF Range
      <4>. QED BY <1>4, <4>1, <4>2, <4>3
    <3>. QED BY <1>3, <3>1 DEF Range
  <2>2. x \in Range(w)
    BY <1>1, <1>2, <1>3, <1>4 DEF Range
  <2>3. ASSUME NEW i \in 1 .. n PROVE s[i] \in Range(w)
    <3>1. CASE i < k
      <4>1. i \in 1 .. n + 1 /\ w[i] = s[i]
        BY <1>1, <1>2, <3>1
      <4>. QED BY <1>3, <4>1 DEF Range
    <3>2. CASE i >= k
      <4>1. i + 1 \in 1 .. n + 1 /\ ~(i + 1 < k) /\ i + 1 # k /\ (i + 1) - 1 = i
        BY <1>1, <1>4, <3>2
      <4>2. w[i + 1] = s[i]
        BY <1>2, <4>1
      <4>. QED BY <1>3, <4>1, <4>2 DEF Range
    <3>. QED BY <1>4, <3>1, <3>2
  <2>. QED BY <1>1, <2>1, <2>2, <2>3 DEF Range
<1>6. ASSUME NEW a, NEW b, Before(w, a, b)
      PROVE  \/ Before(s, a, b)
             \/ b = x /\ \E i \in 1 .. k - 1 : s[i] = a
             \/ a = x /\ \E i \in k .. n : s[i] = b
  <2>1. PICK i \in 1 .. n + 1 : \E j \in 1 .. n + 1 : i < j /\ w[i] = a /\ w[j] = b
    BY <1>3, <1>6 DEF Before
  <2>2. PICK j \in 1 .. n + 1 : i < j /\ w[i] = a /\ w[j] = b
    BY <2>1
  <2>3. CASE i = k
    <3>1. j - 1 \in k .. n /\ w[j] = s[j - 1] /\ a = x
      BY <1>1, <1>2, <1>4, <2>2, <2>3
    <3>. QED BY <2>2, <3>1
  <2>4. CASE j = k
    <3>1. i \in 1 .. k - 1 /\ w[i] = s[i] /\ b = x
      BY <1>1, <1>2, <1>4, <2>2, <2>4
    <3>. QED BY <2>2, <3>1
  <2>5. CASE i # k /\ j # k
    <3> DEFINE u == IF i < k THEN i ELSE i - 1
               v == IF j < k THEN j ELSE j - 1
    <3>1. /\ u \in 1 .. n /\ v \in 1 .. n /\ u < v /\ s[u] = a /\ s[v] = b
      BY <1>1, <1>2, <1>4, <2>2, <2>5
    <3> HIDE DEF u, v
    <3>. QED BY <1>1, <3>1 DEF Before
  <2>. QED BY <2>3, <2>4, <2>5
<1>7. ASSUME IsInjective(s), x \notin Range(s) PROVE IsInjective(w)
  <2>1. \A i \in 1 .. n : s[i] # x
    BY <1>1, <1>7 DEF Range
  <2>2. \A i \in 1 .. n, j \in 1 .. n : s[i] = s[j] => i = j
    BY <1>1, <1>7 DEF IsInjective
  <2>3. ASSUME NEW i \in 1 .. n + 1, NEW j \in 1 .. n + 1, w[i] = w[j] PROVE i = j
    BY <1>1, <1>2, <1>4, <2>1, <2>2, <2>3
  <2>. QED BY <1>3, <2>3 DEF IsInjective
<1>. QED BY <1>2, <1>5, <1>6, <1>7 DEF w, n

(* What iot_list_foreach() keeps of a list is in the same order.           *)
LEMMA KeepFacts ==
  ASSUME NEW S, NEW s \in Seq(S), NEW T
  PROVE  /\ Keep(s, T) \in Seq(S) /\ Range(Keep(s, T)) = Range(s) \cap T
         /\ IsInjective(s) => IsInjective(Keep(s, T))
         /\ \A a, b : Before(Keep(s, T), a, b) => Before(s, a, b)
<1> DEFINE Good == {t \in Seq(S) :
                      /\ Keep(t, T) \in Seq(S) /\ Range(Keep(t, T)) = Range(t) \cap T
                      /\ IsInjective(t) => IsInjective(Keep(t, T))
                      /\ \A a, b : Before(Keep(t, T), a, b) => Before(t, a, b)}
<1>1. <<>> \in Good
  <2>1. <<>> \in Seq(S) /\ DOMAIN <<>> = {} /\ Keep(<<>>, T) = <<>>
    BY EmptySeq, KeepEmpty
  <2>. QED BY <2>1 DEF Range, Before
<1>2. ASSUME NEW t \in Good, NEW x \in S PROVE Append(t, x) \in Good
  <2> DEFINE u == Append(t, x)
             k == Keep(t, T)
  <2>1. /\ t \in Seq(S) /\ k \in Seq(S) /\ Range(k) = Range(t) \cap T
        /\ IsInjective(t) => IsInjective(k)
        /\ \A a, b : Before(k, a, b) => Before(t, a, b)
    OBVIOUS
  <2> HIDE DEF k
  <2>2. Keep(u, T) = IF x \in T THEN Append(k, x) ELSE k
    BY <2>1, KeepAppend DEF k
  <2>3. /\ u \in Seq(S) /\ Range(u) = Range(t) \cup {x}
        /\ \A a, b : Before(u, a, b) <=> Before(t, a, b) \/ (a \in Range(t) /\ b = x)
    BY <2>1, AppendFacts, AppendBefore
  <2>4. /\ Append(k, x) \in Seq(S) /\ Range(Append(k, x)) = Range(k) \cup {x}
        /\ IsInjective(k) /\ x \notin Range(k) => IsInjective(Append(k, x))
        /\ \A a, b : Before(Append(k, x), a, b) <=> Before(k, a, b) \/ (a \in Range(k) /\ b = x)
    BY <2>1, AppendFacts, AppendBefore
  <2>5. IsInjective(u) => IsInjective(t) /\ x \notin Range(t)
    <3>1. /\ Len(t) \in Nat /\ DOMAIN t = 1 .. Len(t) /\ DOMAIN u = 1 .. Len(t) + 1
          /\ u[Len(t) + 1] = x /\ \A i \in 1 .. Len(t) : u[i] = t[i]
      BY <2>1, LenProperties, AppendProperties
    <3> HIDE DEF u
    <3>2. \A i \in 1 .. Len(t) : i \in 1 .. Len(t) + 1 /\ Len(t) + 1 \in 1 .. Len(t) + 1 /\ i # Len(t) + 1
      BY <3>1
    <3>3. SUFFICES ASSUME \A i \in 1 .. Len(t) + 1, j \in 1 .. Len(t) + 1 : u[i] = u[j] => i = j
                   PROVE  IsInjective(t) /\ x \notin Range(t)
      BY <3>1 DEF IsInjective
    <3>4. \A i \in 1 .. Len(t) : t[i] # x
      BY <3>1, <3>2, <3>3
    <3>5. \A i, j \in 1 .. Len(t) : t[i] = t[j] => i = j
      BY <3>1, <3>2, <3>3
    <3>. QED BY <3>1, <3>4, <3>5 DEF IsInjective, Range
  <2> HIDE DEF u
  <2>6. CASE x \in T
    BY <2>1, <2>2, <2>3, <2>4, <2>5, <2>6 DEF u
  <2>7. CASE x \notin T
    BY <2>1, <2>2, <2>3, <2>5, <2>7 DEF u
  <2>. QED BY <2>6, <2>7
<1>3. Good = Seq(S)
  <2>1. Good \in SUBSET Seq(S)
    OBVIOUS
  <2> HIDE DEF Good
  <2>. QED BY <1>1, <1>2, <2>1, GrownByAppend
<1>4. s \in Good
  <2> HIDE DEF Good
  <2>. QED BY <1>3
<1>. QED BY <1>4

-----------------------------------------------------------------------------
(* Walks, as iot_list_foreach() makes them.                                *)

(* What follows o in its list is behind it, and nothing is in between.     *)
LEMMA FollowerFacts ==
  ASSUME NEW S, NEW s \in Seq(S), IsInjective(s), NEW o \in Range(s), NEW none, none \notin S
  PROVE  LET f == FollowerOf(s, o, none)
         IN  /\ f \in S \cup {none}
             /\ f # none => f \in Range(s) /\ Before(s, o, f)
             /\ \A x : Before(s, o, x) => f # none /\ (x = f \/ Before(s, f, x))
<1> DEFINE f == FollowerOf(s, o, none)
           n == Len(s)
           place == CHOOSE i \in DOMAIN s : s[i] = o
<1>1. n \in Nat /\ DOMAIN s = 1 .. n /\ \A i \in 1 .. n : s[i] \in S
  BY LenProperties, ElementOfSeq
<1>2. place \in 1 .. n /\ s[place] = o
  BY <1>1 DEF Range
<1>3. f = IF place = n THEN none ELSE s[place + 1]
  BY DEF FollowerOf
<1> HIDE DEF place, n, f
<1>4. \A i \in 1 .. n : s[i] = o => i = place
  BY <1>1, <1>2 DEF IsInjective
<1>5. CASE place = n
  <2>1. \A x : ~Before(s, o, x)
    BY <1>1, <1>4, <1>5 DEF Before
  <2>. QED BY <1>3, <1>5, <2>1 DEF f
<1>6. CASE place # n
  <2>1. place + 1 \in 1 .. n /\ f = s[place + 1] /\ s[place + 1] \in S
    BY <1>1, <1>2, <1>3, <1>6
  <2>2. f \in Range(s)
    BY <1>1, <2>1 DEF Range
  <2>3. Before(s, o, f)
    BY <1>1, <1>2, <2>1 DEF Before
  <2>4. ASSUME NEW x, Before(s, o, x) PROVE x = f \/ Before(s, f, x)
    <3>1. PICK i \in 1 .. n : \E j \in 1 .. n : i < j /\ s[i] = o /\ s[j] = x
      BY <1>1, <2>4 DEF Before
    <3>2. PICK j \in 1 .. n : i < j /\ s[i] = o /\ s[j] = x
      BY <3>1
    <3>3. j = place + 1 \/ place + 1 < j
      BY <1>1, <1>2, <1>4, <3>2
    <3>. QED BY <1>1, <2>1, <3>2, <3>3 DEF Before
  <2>. QED BY <2>1, <2>2, <2>3, <2>4 DEF f
<1>. QED BY <1>5, <1>6 DEF f

(* A walk starts at the element that is before all others.                 *)
LEMMA FirstFacts ==
  ASSUME NEW S, NEW s \in Seq(S), NEW none, none \notin S
  PROVE  /\ FirstOf(s, none) \in S \cup {none}
         /\ FirstOf(s, none) = none <=> Range(s) = {}
         /\ FirstOf(s, none) # none => FirstOf(s, none) \in Range(s)
         /\ \A x \in Range(s) : x = FirstOf(s, none) \/ Before(s, FirstOf(s, none), x)
<1>1. Len(s) \in Nat /\ DOMAIN s = 1 .. Len(s) /\ \A i \in 1 .. Len(s) : s[i] \in S
  BY LenProperties, ElementOfSeq
<1>2. CASE s = <<>>
  <2>1. DOMAIN s = {}
    BY <1>2, EmptySeq, LenProperties
  <2>. QED BY <1>2, <2>1 DEF FirstOf, Range
<1>3. CASE s # <<>>
  <2>1. 1 \in 1 .. Len(s) /\ FirstOf(s, none) = s[1]
    BY <1>1, <1>3, EmptySeq DEF FirstOf
  <2>2. s[1] \in Range(s)
    BY <1>1, <2>1 DEF Range
  <2>3. ASSUME NEW x \in Range(s) PROVE x = s[1] \/ Before(s, s[1], x)
    <3>1. PICK i \in 1 .. Len(s) : s[i] = x
      BY <1>1 DEF Range
    <3>2. i = 1 \/ 1 < i
      OBVIOUS
    <3>. QED BY <1>1, <2>1, <3>1, <3>2 DEF Before
  <2>. QED BY <1>1, <2>1, <2>2, <2>3
<1>. QED BY <1>2, <1>3

(* Taking the first member off a list, as purge_deleted() does.            *)
LEMMA TailFacts ==
  ASSUME NEW S, NEW s \in Seq(S), s # <<>>, IsInjective(s)
  PROVE  /\ Head(s) \in Range(s) /\ Head(s) = s[1]
         /\ Tail(s) \in Seq(S) /\ IsInjective(Tail(s))
         /\ Range(Tail(s)) = Range(s) \ {Head(s)}
         /\ \A a, b : Before(Tail(s), a, b) => Before(s, a, b)
<1> DEFINE n == Len(s)
           t == Tail(s)
<1>1. n \in Nat /\ n # 0 /\ DOMAIN s = 1 .. n
  BY EmptySeq, LenProperties
<1>2. t \in Seq(S) /\ Len(t) = n - 1 /\ \A i \in 1 .. n - 1 : t[i] = s[i + 1]
  BY HeadTailProperties
<1>3. Head(s) = s[1] /\ 1 \in 1 .. n
  BY <1>1
<1> HIDE DEF t, n
<1>4. DOMAIN t = 1 .. n - 1
  BY <1>2, LenProperties
<1>5. \A i \in 1 .. n - 1 : i + 1 \in 1 .. n /\ i + 1 # 1
  BY <1>1
<1>6. \A i, j \in 1 .. n : s[i] = s[j] => i = j
  BY <1>1 DEF IsInjective
<1>7. IsInjective(t)
  <2>1. ASSUME NEW i \in 1 .. n - 1, NEW j \in 1 .. n - 1, t[i] = t[j] PROVE i = j
    <3>1. i + 1 = j + 1
      BY <1>2, <1>5, <1>6, <2>1
    <3>. QED BY <1>1, <3>1
  <2>. QED BY <1>4, <2>1 DEF IsInjective
<1>8. Range(t) = Range(s) \ {s[1]}
  <2>1. ASSUME NEW i \in 1 .. n - 1 PROVE t[i] \in Range(s) \ {s[1]}
    <3>1. t[i] = s[i + 1] /\ s[i + 1] # s[1]
      BY <1>2, <1>3, <1>5, <1>6
    <3>2. s[i + 1] \in Range(s)
      BY <1>1, <1>5 DEF Range
    <3>. QED BY <3>1, <3>2
  <2>2. ASSUME NEW i \in 1 .. n, s[i] # s[1] PROVE s[i] \in Range(t)
    <3>1. i - 1 \in 1 .. n - 1 /\ t[i - 1] = s[i]
      BY <1>1, <1>2, <2>2
    <3>. QED BY <1>4, <3>1 DEF Range
  <2>. QED BY <1>1, <1>4, <2>1, <2>2 DEF Range
<1>9. ASSUME NEW a, NEW b, Before(t, a, b) PROVE Before(s, a, b)
  <2>1. PICK i \in 1 .. n - 1 : \E j \in 1 .. n - 1 : i < j /\ t[i] = a /\ t[j] = b
    BY <1>4, <1>9 DEF Before
  <2>2. PICK j \in 1 .. n - 1 : i < j /\ t[i] = a /\ t[j] = b
    BY <2>1
  <2>3. i + 1 \in 1 .. n /\ j + 1 \in 1 .. n /\ i + 1 < j + 1 /\ s[i + 1] = a /\ s[j + 1] = b
    BY <1>1, <1>2, <1>5, <2>2
  <2>. QED BY <1>1, <2>3 DEF Before
<1>10. s[1] \in Range(s)
  BY <1>1, <1>3 DEF Range
<1>. QED BY <1>2, <1>3, <1>7, <1>8, <1>9, <1>10 DEF t

(* iot_list_delete() of an element, wherever it is.                        *)
LEMMA RemovedFacts ==
  ASSUME NEW S, NEW s \in Seq(S), IsInjective(s), NEW x
  PROVE  /\ RemoveFirst(s, x) \in Seq(S) /\ IsInjective(RemoveFirst(s, x))
         /\ Range(RemoveFirst(s, x)) = Range(s) \ {x}
<1>1. CASE x \in Range(s)
  BY <1>1, RemoveFirstFacts
<1>2. CASE x \notin Range(s)
  <2>1. DOMAIN s = 1 .. Len(s)
    BY LenProperties
  <2>2. RemoveFirst(s, x) = s
    BY <1>2, <2>1 DEF RemoveFirst, Range
  <2>. QED BY <1>2, <2>2
<1>. QED BY <1>1, <1>2

(* Putting a member in front of a list, as a nested call goes on a stack.  *)
LEMMA PushFacts ==
  ASSUME NEW S, NEW s \in Seq(S), NEW x \in S
  PROVE  /\ <<x>> \o s \in Seq(S) /\ Len(<<x>> \o s) = Len(s) + 1
         /\ (<<x>> \o s)[1] = x
         /\ \A i \in 1 .. Len(s) + 1 : i = 1 \/ (i - 1 \in 1 .. Len(s) /\ (<<x>> \o s)[i] = s[i - 1])
         /\ \A i \in 1 .. Len(s) : i + 1 \in 1 .. Len(s) + 1 /\ (<<x>> \o s)[i + 1] = s[i]
<1> DEFINE t == <<x>> \o s
           n == Len(s)
<1>1. n \in Nat /\ <<x>> \in Seq(S) /\ Len(<<x>>) = 1 /\ <<x>>[1] = x
  BY LenProperties
<1>2. /\ t \in Seq(S) /\ Len(t) = 1 + n
      /\ \A i \in 1 .. 1 + n : t[i] = IF i <= 1 THEN <<x>>[i] ELSE s[i - 1]
  BY <1>1, ConcatProperties
<1> HIDE DEF t, n
<1>3. 1 \in 1 .. 1 + n /\ t[1] = x
  BY <1>1, <1>2
<1>4. ASSUME NEW i \in 1 .. n + 1 PROVE i = 1 \/ (i - 1 \in 1 .. n /\ t[i] = s[i - 1])
  BY <1>1, <1>2
<1>5. ASSUME NEW i \in 1 .. n PROVE i + 1 \in 1 .. n + 1 /\ t[i + 1] = s[i]
  <2>1. i + 1 \in 1 .. 1 + n /\ ~(i + 1 <= 1) /\ (i + 1) - 1 = i /\ 1 + n = n + 1
    BY <1>1
  <2>2. t[i + 1] = s[(i + 1) - 1]
    BY <1>2, <2>1
  <2>. QED BY <2>1, <2>2
<1>. QED BY <1>1, <1>2, <1>3, <1>4, <1>5 DEF t, n

(* What stays keeps its order.                                             *)
LEMMA KeepBefore ==
  ASSUME NEW S, NEW s \in Seq(S), IsInjective(s), NEW T
  PROVE  \A a \in T, b \in T : Before(s, a, b) => Before(Keep(s, T), a, b)
<1> DEFINE k == Keep(s, T)
<1>1. /\ k \in Seq(S) /\ Range(k) = Range(s) \cap T /\ IsInjective(k)
      /\ \A a, b : Before(k, a, b) => Before(s, a, b)
  BY KeepFacts
<1> HIDE DEF k
<1>2. ASSUME NEW a \in T, NEW b \in T, Before(s, a, b) PROVE Before(k, a, b)
  <2>1. a # b /\ a \in Range(k) /\ b \in Range(k) /\ ~Before(s, b, a)
    BY <1>1, <1>2, BeforeOrder
  <2>2. Before(k, a, b) \/ Before(k, b, a)
    BY <1>1, <2>1, BeforeOrder
  <2>. QED BY <1>1, <2>1, <2>2
<1>. QED BY <1>2 DEF k

(* The members of a list of S are in S.                                    *)
LEMMA MembersOf ==
  ASSUME NEW S, NEW s \in Seq(S)
  PROVE  Range(s) \subseteq S
BY LenProperties, ElementOfSeq DEF Range

(* SetToSeq() of a finite set has each member in one place.                *)
LEMMA SetToSeqFacts ==
  ASSUME NEW S, IsFiniteSet(S)
  PROVE  LET s == SetToSeq(S)
         IN  /\ s \in [1 .. Cardinality(S) -> S] /\ s \in Seq(S) /\ Len(s) = Cardinality(S)
             /\ IsInjective(s) /\ \A x \in S : \E i \in DOMAIN s : s[i] = x
<1>1. PICK n \in Nat : n = Cardinality(S) BY FS_CardinalityType
<1>2. ExistsBijection(1 .. n, S) BY <1>1, FS_CardinalityType
<1>3. PICK f \in [1 .. n -> S] : IsInjective(f)
  BY <1>2 DEF ExistsBijection, Bijection, Injection, IsInjective
<1>4. PICK s : s = SetToSeq(S) OBVIOUS
<1>5. s \in [1 .. n -> S] /\ IsInjective(s) BY <1>1, <1>3, <1>4 DEF SetToSeq
<1>6. s \in Injection(1 .. n, S) BY <1>5 DEF Injection, IsInjective
<1>7. IsFiniteSet(1 .. n) /\ Cardinality(1 .. n) = n BY FS_Interval, <1>1
<1>8. s \in Surjection(1 .. n, S)
  BY <1>1, <1>6, <1>7, FS_Injection
<1>9. \A x \in S : \E i \in DOMAIN s : s[i] = x BY <1>5, <1>8 DEF Surjection
<1>10. s \in Seq(S) /\ Len(s) = n BY <1>5
<1>. QED BY <1>1, <1>4, <1>5, <1>9, <1>10

(* Two sequences without members in common, one behind the other.          *)
LEMMA ConcatFacts ==
  ASSUME NEW S, NEW s \in Seq(S), NEW t \in Seq(S), IsInjective(s), IsInjective(t),
         Range(s) \cap Range(t) = {}
  PROVE  /\ s \o t \in Seq(S) /\ IsInjective(s \o t)
         /\ Range(s \o t) = Range(s) \cup Range(t)
<1>1. PICK m \in Nat, n \in Nat : m = Len(s) /\ n = Len(t) BY LenProperties
<1>2. PICK w : w = s \o t OBVIOUS
<1>3. /\ w \in Seq(S) /\ Len(w) = m + n
      /\ \A i \in 1 .. m + n : w[i] = IF i <= m THEN s[i] ELSE t[i - m]
  BY <1>1, <1>2, ConcatProperties
<1>4. DOMAIN w = 1 .. m + n /\ DOMAIN s = 1 .. m /\ DOMAIN t = 1 .. n BY <1>1, <1>3, LenProperties
<1>5. \A i \in 1 .. m : w[i] = s[i] /\ s[i] \in Range(s) BY <1>1, <1>3, <1>4 DEF Range
<1>6. \A i \in 1 .. m + n : i > m => i - m \in 1 .. n /\ w[i] = t[i - m] /\ t[i - m] \in Range(t)
  BY <1>1, <1>3, <1>4 DEF Range
<1>7. IsInjective(w)
  <2>1. ASSUME NEW i \in 1 .. m + n, NEW j \in 1 .. m + n, w[i] = w[j] PROVE i = j
    <3>1. CASE i <= m /\ j <= m
      <4>1. i \in 1 .. m /\ j \in 1 .. m BY <1>1, <3>1
      <4>. QED BY <4>1, <1>4, <1>5, <2>1 DEF IsInjective
    <3>2. CASE i > m /\ j > m
      <4>1. i - m \in 1 .. n /\ j - m \in 1 .. n /\ t[i - m] = t[j - m] BY <1>6, <2>1, <3>2
      <4>2. i - m = j - m BY <4>1, <1>4 DEF IsInjective
      <4>. QED BY <1>1, <4>2
    <3>3. CASE (i <= m /\ j > m) \/ (i > m /\ j <= m)
      <4>1. ASSUME NEW a \in 1 .. m + n, a <= m PROVE w[a] \in Range(s) BY <1>1, <1>5, <4>1
      <4>2. ASSUME NEW a \in 1 .. m + n, a > m PROVE w[a] \in Range(t) BY <1>6, <4>2
      <4>. QED BY <2>1, <3>3, <4>1, <4>2
    <3>. QED BY <1>1, <3>1, <3>2, <3>3
  <2>. QED BY <2>1, <1>4 DEF IsInjective
<1>8. Range(w) = Range(s) \cup Range(t)
  <2>1. ASSUME NEW x \in Range(w) PROVE x \in Range(s) \cup Range(t)
    <3>1. PICK i \in 1 .. m + n : w[i] = x BY <1>4 DEF Range
    <3>2. i \in 1 .. m \/ i > m BY <1>1
    <3>. QED BY <3>1, <3>2, <1>5, <1>6
  <2>2. ASSUME NEW x \in Range(s) PROVE x \in Range(w)
    <3>1. PICK i \in 1 .. m : s[i] = x BY <1>4 DEF Range
    <3>2. i \in 1 .. m + n /\ w[i] = x BY <1>1, <1>5, <3>1
    <3>. QED BY <3>2, <1>4 DEF Range
  <2>3. ASSUME NEW x \in Range(t) PROVE x \in Range(w)
    <3>1. PICK j \in 1 .. n : t[j] = x BY <1>4 DEF Range
    <3>2. m + j \in 1 .. m + n /\ m + j > m /\ (m + j) - m = j BY <1>1
    <3>3. w[m + j] = x BY <1>6, <3>1, <3>2
    <3>. QED BY <3>2, <3>3, <1>4 DEF Range
  <2>. QED BY <2>1, <2>2, <2>3
<1>. QED BY <1>2, <1>3, <1>7, <1>8

(* The first of a sequence.                                                *)
LEMMA FrontFacts ==
  ASSUME NEW S, NEW s \in Seq(S), IsInjective(s), NEW k \in 0 .. Len(s)
  PROVE  /\ SubSeq(s, 1, k) \in Seq(S) /\ IsInjective(SubSeq(s, 1, k))
         /\ Range(SubSeq(s, 1, k)) \subseteq Range(s)
<1>1. PICK w : w = SubSeq(s, 1, k) OBVIOUS
<1>2. Len(s) \in Nat /\ DOMAIN s = 1 .. Len(s) /\ k \in Nat /\ k <= Len(s) BY LenProperties
<1>3. \A i \in 1 .. k : s[i] \in S BY <1>2, ElementOfSeq
<1>4. w \in [1 .. k -> S] /\ \A i \in 1 .. k : w[i] = s[i]
  <2>1. w = [i \in 1 .. k |-> s[i]] BY <1>1, <1>2, <1>3
  <2>. QED BY <2>1, <1>3
<1>5. w \in Seq(S) BY <1>2, <1>4
<1>6. DOMAIN w = 1 .. k /\ 1 .. k \subseteq 1 .. Len(s) BY <1>2, <1>4
<1>7. IsInjective(w) BY <1>2, <1>4, <1>6 DEF IsInjective
<1>8. Range(w) \subseteq Range(s) BY <1>2, <1>4, <1>6 DEF Range
<1>. QED BY <1>1, <1>5, <1>7, <1>8

(* An injective list is as long as it has members.                         *)
LEMMA LengthOf ==
  ASSUME NEW S, NEW s \in Seq(S), IsInjective(s)
  PROVE  IsFiniteSet(Range(s)) /\ Cardinality(Range(s)) = Len(s)
<1>1. PICK n \in Nat : n = Len(s) BY LenProperties
<1>2. DOMAIN s = 1 .. n BY <1>1, LenProperties
<1>3. s \in [1 .. n -> Range(s)] BY <1>1, <1>2, LenProperties DEF Range
<1>4. s \in Bijection(1 .. n, Range(s))
  BY <1>2, <1>3 DEF Bijection, Injection, Surjection, IsInjective, Range
<1>5. IsFiniteSet(1 .. n) /\ Cardinality(1 .. n) = n BY FS_Interval
<1>. QED BY <1>1, <1>4, <1>5, FS_Bijection DEF ExistsBijection

(* A function on the first n numbers is a list of length n.                *)
LEMMA SeqOfFunction ==
  ASSUME NEW S, NEW n \in Nat, NEW f \in [1 .. n -> S]
  PROVE  f \in Seq(S) /\ Len(f) = n
<1>1. f \in Seq(S)
  OBVIOUS
<1>2. DOMAIN f = 1 .. n
  OBVIOUS
<1>. QED BY <1>1, <1>2, LenProperties

(* Division of b * d + r by b.                                             *)
LEMMA QuotientOf ==
  ASSUME NEW b \in Nat \ {0}, NEW d \in Nat, NEW r \in 0 .. b - 1
  PROVE  (d * b + r) \div b = d /\ (d * b + r) % b = r
OBVIOUS
=============================================================================
