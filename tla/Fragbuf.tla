------------------------------- MODULE Fragbuf -------------------------------
(* Fragment collector buffers, src/src/common/fragbuf.c: what is received is *)
(* appended to a buffer in pieces of any size, and whole messages are pulled *)
(* from its beginning.  In a framed buffer a message is preceded by its      *)
(* length, a big-endian number of HeaderLen digits (32 bits in the code).    *)
(*                                                                           *)
(* A buffer is a record of its allocated size, its contents (used is their   *)
(* length) and whether it is framed.  iot_fragbuf_pull() frees a message     *)
(* when it is called for the next one: its datap argument is NULL at the     *)
(* start of an iteration, and here the argument started is FALSE.            *)
EXTENDS Integers, SequencesExt

CONSTANTS Radix,         \* the values of a byte (256 in the code)
          HeaderLen      \* the bytes of a length (4 in the code)

ASSUME FragbufAssumption == Radix \in Nat \ {0, 1} /\ HeaderLen \in Nat \ {0}

Byte == 0 .. Radix - 1

\* Be32(ds): be32toh().  Header(n): htobe32(), the digits that are read as n.
Be32(ds)  == FoldLeft(LAMBDA n, d : n * Radix + d, 0, ds)
Header(n) == CHOOSE ds \in [1 .. HeaderLen -> Byte] : Be32(ds) = n

Frame(m)    == Header(Len(m)) \o m
Frames(ms)  == FoldLeft(LAMBDA bytes, m : bytes \o Frame(m), <<>>, ms)

Buffer == [size : Nat, data : Seq(Byte), framed : BOOLEAN]

FragbufCreate(framed) == [size |-> 0, data |-> <<>>, framed |-> framed]

Max0(n) == IF n > 0 THEN n ELSE 0

FragbufEnsure(buf, n) ==
  [buf EXCEPT !.size = @ + Max0(n - (@ - Len(buf.data)))]

\* iot_fragbuf_alloc() of what is about to be read, the read, and
\* iot_fragbuf_trim() of what it left unused.
FragbufFill(buf, pending, bytes) ==
  [FragbufEnsure(buf, pending) EXCEPT !.data = @ \o bytes]

FirstLen(data)   == Be32(SubSeq(data, 1, HeaderLen))
Whole(data)      == Len(data) >= HeaderLen /\ Len(data) >= HeaderLen + FirstLen(data)
First(data)      == SubSeq(data, HeaderLen + 1, HeaderLen + FirstLen(data))

M_AfterFirst(data) == SubSeq(data, FirstLen(data) + 1, Len(data))

AfterFirst(data) == SubSeq(data, HeaderLen + FirstLen(data) + 1, Len(data))

Pulled(buf)    == [ok |-> TRUE, msg |-> First(buf.data), buf |-> buf]
NotPulled(buf) == [ok |-> FALSE, msg |-> <<>>, buf |-> buf]

\* A framed buffer.  The message the iteration is at is freed first; what is
\* left must be longer than a header for the iteration to go on.
PullFramed(buf, started) ==
  LET rest == [buf EXCEPT !.data = AfterFirst(@)] IN
  CASE ~started /\ Whole(buf.data) -> Pulled(buf)
    [] started /\ Whole(buf.data)
         -> IF Len(rest.data) > HeaderLen /\ Whole(rest.data)
              THEN Pulled(rest) ELSE NotPulled(rest)
    [] OTHER -> NotPulled(buf)

\* An unframed buffer hands out everything it has, once.
PullUnframed(buf, started) ==
  IF started THEN NotPulled([buf EXCEPT !.data = <<>>])
             ELSE [ok |-> TRUE, msg |-> buf.data, buf |-> buf]

FragbufPull(buf, started) ==
  CASE buf.data = <<>> -> NotPulled(buf)
    [] buf.framed      -> PullFramed(buf, started)
    [] OTHER           -> PullUnframed(buf, started)

\* iot_fragbuf_missing(): offs moves on by a frame at a time until it is past
\* what is used, but the length is read at ptr, which stays at the first frame.
FragbufMissing(buf) ==
  LET step == HeaderLen + FirstLen(buf.data)
      offs == step * ((Len(buf.data) + step - 1) \div step)
  IN  IF ~buf.framed \/ buf.data = <<>> THEN 0 ELSE offs - Len(buf.data)
===============================================================================
