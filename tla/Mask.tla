-------------------------------- MODULE Mask --------------------------------
(***************************************************************************)
(* The bit masks of mask.h: words of W bits, a size that may lie inside    *)
(* the last word, and sizes that are fixed.  A word is the set of the      *)
(* bits that are 1 in it.                                                  *)
(*                                                                         *)
(* The functions trust their caller in places; the guards name where.      *)
(***************************************************************************)
EXTENDS Integers, SequencesExt, FiniteSetsExt

CONSTANTS W, MaxBit

ASSUME MaskAssumption == W \in Nat \ {0} /\ MaxBit \in Nat

VARIABLES
  m,     \* an iot_mask_t
  want   \* history: the bits its user has set and not cleared

maskVars == <<m, want>>

Bit == 0 .. MaxBit
Full == 0 .. W - 1
NWord(nbit) == (nbit + W - 1) \div W
Wrd(bit) == bit \div W + 1
Idx(bit) == bit % W
Below(bi) == 0 .. bi - 1
Above(bi) == bi + 1 .. W - 1

EmptyMask == [nbit |-> W, fixed |-> FALSE, inlined |-> FALSE, w |-> <<{}>>]
InlinedMask(n) ==
  [nbit |-> n, fixed |-> FALSE, inlined |-> TRUE, w |-> [i \in 1 .. NWord(n) |-> {}]]

Dynamic(x) == ~x.fixed /\ ~x.inlined

\* iot_mask_grow() is possible.
Growable(x, n) ==
  /\ x.fixed => n <= x.nbit
  /\ NWord(x.nbit) >= NWord(n) \/ Dynamic(x)

Grown(x, n) ==
  IF NWord(x.nbit) >= NWord(n) THEN x
  ELSE [x EXCEPT !.nbit = n,
                 !.w = @ \o [i \in 1 .. NWord(n) - Len(@) |-> {}]]

Shrunk(x, n) ==
  CASE NWord(x.nbit) < NWord(n) -> Grown(x, n)
    [] NWord(x.nbit) > NWord(n) /\ Dynamic(x) ->
         [x EXCEPT !.nbit = n, !.w = SubSeq(@, 1, NWord(n))]
    [] OTHER -> x

\* What the functions for many bits take from, or add to, word i.
AboveIn(i, bit) ==
  CASE i < Wrd(bit) -> {} [] i = Wrd(bit) -> Above(Idx(bit)) [] OTHER -> Full
BelowIn(i, bit) ==
  CASE i < Wrd(bit) -> Full [] i = Wrd(bit) -> Below(Idx(bit)) [] OTHER -> {}
M_RangeIn(i, l, h) ==
  CASE i = Wrd(l) -> {Idx(l)} \cup Above(Idx(l))
    [] i = Wrd(h) /\ i # Wrd(l) -> {Idx(h)} \cup Below(Idx(h))
    [] i \in Wrd(l) + 1 .. Wrd(h) - 1 -> Full
    [] OTHER -> {}
RangeIn(i, l, h) ==
  CASE i \notin Wrd(l) .. Wrd(h) -> {}
    [] i = Wrd(l) /\ i # Wrd(h) -> {Idx(l)} \cup Above(Idx(l))
    [] i = Wrd(h) /\ i # Wrd(l) -> {Idx(h)} \cup Below(Idx(h))
    [] i = Wrd(l) /\ i = Wrd(h) ->
         {Idx(l), Idx(h)} \cup (Above(Idx(l)) \cap Below(Idx(h)))
    [] OTHER -> Full

With(x, F(_)) == [x EXCEPT !.w = [i \in DOMAIN @ |-> @[i] \cup F(i)]]
Without(x, F(_)) == [x EXCEPT !.w = [i \in DOMAIN @ |-> @[i] \ F(i)]]

-----------------------------------------------------------------------------
(* Questions.                                                              *)

Bits(x) == {bit \in 0 .. W * Len(x.w) - 1 : Idx(bit) \in x.w[Wrd(bit)]}

IotMaskTest(x, bit) == bit < x.nbit /\ Idx(bit) \in x.w[Wrd(bit)]

Lowest(i, S) == IF S = {} THEN -1 ELSE (i - 1) * W + Min(S)

\* The first bit in words from one on: the word of that one is cut.
NextIn(words, bit) ==
  LET cut(i) == IF i = Wrd(bit) THEN words[i] \ Below(Idx(bit)) ELSE words[i]
      hit == {i \in Wrd(bit) .. Len(words) : cut(i) # {}}
  IN  IF hit = {} THEN -1 ELSE Lowest(Min(hit), cut(Min(hit)))

IotMaskNextSet(x, bit) == NextIn(x.w, bit)
IotMaskNextClear(x, bit) == NextIn([i \in DOMAIN x.w |-> Full \ x.w[i]], bit)

-----------------------------------------------------------------------------
(* Changes of one mask.                                                    *)

\* Bits of the last word that are beyond its size: iot_mask_test() and
\* iot_mask_clear() do not see them, the other functions do.
Aligned(x) == x.nbit % W = 0

IotMaskSet(bit) ==
  IF ~Growable(m, bit + 1) THEN UNCHANGED maskVars
  ELSE LET x == Grown(m, bit + 1) IN
       /\ m' = [x EXCEPT !.w[Wrd(bit)] = @ \cup {Idx(bit)},
                         !.nbit = IF x.nbit < bit + 1 THEN bit + 1 ELSE @]
       /\ want' = want \cup {bit}

IotMaskClear(bit) ==
  /\ m' = IF m.nbit < bit + 1 THEN m
          ELSE [m EXCEPT !.w[Wrd(bit)] = @ \ {Idx(bit)}]
  /\ want' = want \ {bit}

\* An index beyond the size is one its caller has to refuse (alloc_entry).
IotMaskAlloc ==
  LET roomy == {i \in DOMAIN m.w : m.w[i] # Full}
      bit == Lowest(Min(roomy), Full \ m.w[Min(roomy)])
  IN  /\ roomy # {} /\ bit < m.nbit
      /\ m' = [m EXCEPT !.w[Wrd(bit)] = @ \cup {Idx(bit)}]
      /\ want' = want \cup {bit}

IotMaskClearAbove(bit) ==
  /\ m' = IF Len(m.w) < Wrd(bit) THEN m ELSE Without(m, LAMBDA i : AboveIn(i, bit))
  /\ want' = want \ (bit + 1 .. W * Len(m.w))

IotMaskSetAbove(bit) ==
  /\ Aligned(m)
  /\ m' = IF Len(m.w) < Wrd(bit) THEN m ELSE With(m, LAMBDA i : AboveIn(i, bit))
  /\ want' = want \cup (bit + 1 .. W * Len(m.w) - 1)

\* Of a bit beyond the size the last bit of the mask is taken, which is then
\* neither set nor cleared.
IotMaskClearBelow(bit) ==
  /\ bit < m.nbit
  /\ m' = Without(m, LAMBDA i : BelowIn(i, bit))
  /\ want' = want \ (0 .. bit - 1)

IotMaskSetBelow(bit) ==
  /\ bit < m.nbit
  /\ m' = With(m, LAMBDA i : BelowIn(i, bit))
  /\ want' = want \cup (0 .. bit - 1)

\* A range that begins beyond the size is written to words the mask has not.
Least(a, b) == IF a < b THEN a ELSE b
Ends(a, b) == [l |-> Least(a, b), h |-> Least(a + b - Least(a, b), m.nbit - 1)]

ClearRange(a, b) ==
  LET r == Ends(a, b) IN Without(m, LAMBDA i : RangeIn(i, r.l, r.h))

IotMaskClearRange(a, b) ==
  /\ Least(a, b) < m.nbit
  /\ m' = ClearRange(a, b)
  /\ want' = want \ ((a .. b) \cup (b .. a))

IotMaskSetRange(a, b) ==
  /\ Least(a, b) < m.nbit
  /\ LET r == Ends(a, b) IN m' = With(m, LAMBDA i : RangeIn(i, r.l, r.h))
  /\ want' = want \cup {bit \in (a .. b) \cup (b .. a) : bit < m.nbit}

\* Only the first word of a mask that cannot be made small is cleared.
IotMaskReset ==
  /\ Dynamic(m) \/ Len(m.w) = 1
  /\ m' = IF Dynamic(m) /\ m.nbit > W THEN EmptyMask ELSE [m EXCEPT !.w[1] = {}]
  /\ want' = {}

Resized(x) == m' = x /\ want' = {bit \in want : bit < W * Len(x.w)}

IotMaskGrow(n) == Growable(m, n) /\ Resized(Grown(m, n))

\* Bits that stay in the last word beyond a smaller size are not cleared.
IotMaskShrink(n) ==
  /\ n % W = 0
  /\ NWord(m.nbit) < NWord(n) => Growable(m, n)
  /\ Resized(Shrunk(m, n))

IotMaskLock(n) ==
  LET k == IF n = 0 THEN m.nbit ELSE n
      g == IF m.nbit < k THEN Grown(m, k) ELSE m
      x == IF g.nbit > k THEN Shrunk(g, k) ELSE g
  IN  /\ m.nbit < k => Growable(m, k)
      /\ k % W = 0
      /\ Resized([x EXCEPT !.fixed = TRUE])

IotMaskUnlock == Resized([m EXCEPT !.fixed = FALSE])

-----------------------------------------------------------------------------
(* Changes by another mask, which must not be the one of fewer words: they *)
(* read as many words of both as the larger one has.                       *)

Sized(bits, n) ==
  [nbit |-> n, fixed |-> FALSE, inlined |-> FALSE,
   w |-> [i \in 1 .. NWord(n) |-> {b \in Full : (i - 1) * W + b \in bits}]]

Combined(x, src, F(_, _)) ==
  [x EXCEPT !.w = [i \in DOMAIN @ |-> F(@[i], src.w[i])]]

IotMaskOr(src) ==
  LET x == Grown(m, src.nbit) IN
  /\ src.nbit > m.nbit => Growable(m, src.nbit)
  /\ Len(src.w) >= Len(m.w)
  /\ Aligned(src) /\ Aligned(m)
  /\ m' = Combined(x, src, LAMBDA d, s : d \cup s)
  /\ want' = want \cup Bits(src)

IotMaskXor(src) ==
  LET x == Grown(m, src.nbit) IN
  /\ src.nbit > m.nbit => Growable(m, src.nbit)
  /\ Len(src.w) >= Len(m.w)
  /\ Aligned(src) /\ Aligned(m)
  /\ m' = Combined(x, src, LAMBDA d, s : (d \ s) \cup (s \ d))
  /\ want' = (want \ Bits(src)) \cup (Bits(src) \ want)

\* A mask that cannot be made smaller keeps its upper words.
IotMaskAnd(src) ==
  LET x == IF src.nbit < m.nbit THEN Shrunk(m, src.nbit) ELSE m IN
  /\ Len(x.w) <= Len(src.w)
  /\ Aligned(src)
  /\ m' = Combined(x, src, LAMBDA d, s : d \cap s)
  /\ want' = want \cap Bits(src)

IotMaskNot ==
  /\ Aligned(m)
  /\ m' = [m EXCEPT !.w = [i \in DOMAIN @ |-> Full \ @[i]]]
  /\ want' = (0 .. m.nbit - 1) \ want

MaskInit == m \in {EmptyMask, InlinedMask(W), InlinedMask(W + 1)} /\ want = {}

MaskNext ==
  \/ \E bit \in Bit :
       \/ IotMaskSet(bit) \/ IotMaskClear(bit)
       \/ IotMaskClearAbove(bit) \/ IotMaskSetAbove(bit)
       \/ IotMaskClearBelow(bit) \/ IotMaskSetBelow(bit)
       \/ IotMaskGrow(bit + 1) \/ IotMaskShrink(bit + 1)
  \/ \E a, b \in Bit : IotMaskClearRange(a, b) \/ IotMaskSetRange(a, b)
  \/ \E n \in {0} \cup {bit + 1 : bit \in Bit} : IotMaskLock(n)
  \/ IotMaskAlloc \/ IotMaskReset \/ IotMaskUnlock \/ IotMaskNot
  \/ \E n \in {W, MaxBit + 1} : \E bits \in SUBSET (0 .. n - 1) :
       LET src == Sized(bits, n) IN
       IotMaskOr(src) \/ IotMaskXor(src) \/ IotMaskAnd(src)

MaskSpec == MaskInit /\ [][MaskNext]_maskVars

-----------------------------------------------------------------------------
(* Properties.                                                             *)

(* Whatever was done to a mask, and however often it was given more or     *)
(* fewer words on the way, the bits in it are those its user put there,    *)
(* and the functions that ask for one bit, for the next one that is set    *)
(* and for the next one that is clear agree about them.                    *)
MaskHoldsBits ==
  /\ Bits(m) = want /\ Len(m.w) = NWord(m.nbit)
  /\ \A bit \in Bit : IotMaskTest(m, bit) = (bit \in want)
  /\ \A bit \in 0 .. W * Len(m.w) - 1 :
       LET least(S) == IF S = {} THEN -1 ELSE Min(S)
           after(S) == {b \in S : b >= bit}
       IN  /\ IotMaskNextSet(m, bit) = least(after(want))
           /\ IotMaskNextClear(m, bit) =
                least(after(0 .. W * Len(m.w) - 1) \ want)
=============================================================================
