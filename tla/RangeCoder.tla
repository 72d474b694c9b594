----------------------------- MODULE RangeCoder -----------------------------
(* The binary range coder: the encoder of LzmaEnc.c with its output buffer,  *)
(* and the decoder of the format.  Bytes have Base values, code and range    *)
(* four of them, and there are Base probabilities: the code's numbers made   *)
(* small, so that carries run through the bytes held back.                   *)
EXTENDS Integers, Sequences

CONSTANTS
  Base,       \* values of a byte; a probability has as many
  BufSize,    \* RC_BUF_SIZE
  CoderBits,  \* how many bits are coded
  WriteLimit  \* how many bytes the output takes, among others: a set

kTopValue == Base ^ 3
Full == Base ^ 4
ProbInit == Base \div 2

VARIABLES
  coder,  \* CRangeEnc, the probability of the context, and what was written
  sent    \* the bits coded, as <<direct, bit>>
coderVars == <<coder, sent>>

ProbUp(prob) == prob + ((Base - prob) \div 2)
ProbDown(prob) == prob - (prob \div 2)
Bound(range, prob) == (range \div Base) * prob

(* RangeEnc_ShiftLow: the high byte of low goes out, or waits for the carry  *)
(* while it is the largest.                                                  *)
FlushStream(c) ==
  LET fits == Len(c.written) + Len(c.buf) <= c.limit
  IN  [c EXCEPT !.res = IF @ = "ok" /\ ~fits THEN "write" ELSE @,
                !.written = IF c.res = "ok" /\ fits THEN @ \o c.buf ELSE @,
                !.processed = @ + Len(c.buf), !.buf = << >>]
PutByte(c, b) ==
  LET put == [c EXCEPT !.buf = Append(@, b)]
  IN  IF Len(put.buf) = BufSize THEN FlushStream(put) ELSE put
RECURSIVE PutHeld(_, _)
PutHeld(c, b) ==
  IF c.cacheSize = 0 THEN c ELSE PutHeld([PutByte(c, b) EXCEPT !.cacheSize = @ - 1], b)
(* A slip: the carry stops at the first of the bytes held back.              *)
ShiftLowNoCarry(c) ==
  LET low == c.low % Full
      high == c.low \div Full
      next == [c EXCEPT !.low = (low * Base) % Full]
  IN  IF low >= (Base - 1) * kTopValue /\ high = 0 THEN [next EXCEPT !.cacheSize = @ + 1]
      ELSE PutHeld([PutByte(next, (c.cache + high) % Base) EXCEPT !.cache = low \div kTopValue],
                   Base - 1)
ShiftLow(c) ==
  LET low == c.low % Full
      high == c.low \div Full
      next == [c EXCEPT !.low = (low * Base) % Full]
  IN  IF low >= (Base - 1) * kTopValue /\ high = 0 THEN [next EXCEPT !.cacheSize = @ + 1]
      ELSE PutHeld([PutByte(next, (c.cache + high) % Base) EXCEPT !.cache = low \div kTopValue],
                   (high + Base - 1) % Base)
Norm(c) == IF c.range < kTopValue THEN ShiftLow([c EXCEPT !.range = @ * Base]) ELSE c
FlushData(c) == ShiftLow(ShiftLow(ShiftLow(ShiftLow(ShiftLow(c)))))

(* The decoder: range and code, at byte next.                                *)
ByteAt(bytes, n) == IF n <= Len(bytes) THEN bytes[n] ELSE 0
DecoderOf(bytes) ==
  [bytes |-> bytes, next |-> 6, range |-> Full - 1,
   code |-> ((ByteAt(bytes, 2) * Base + ByteAt(bytes, 3)) * Base + ByteAt(bytes, 4)) * Base
            + ByteAt(bytes, 5)]
Refilled(d) ==
  IF d.range >= kTopValue THEN d
  ELSE [d EXCEPT !.range = @ * Base, !.code = @ * Base + ByteAt(d.bytes, d.next),
                 !.next = @ + 1]
BitOf(d, prob) == IF d.code < Bound(d.range, prob) THEN 0 ELSE 1
AfterBit(d, prob) ==
  LET bound == Bound(d.range, prob)
  IN  IF BitOf(d, prob) = 0 THEN [d EXCEPT !.range = bound]
      ELSE [d EXCEPT !.range = @ - bound, !.code = @ - bound]
RECURSIVE DecodedBits(_, _, _, _)
DecodedBits(d0, kinds, prob, out) ==
  LET d == Refilled(d0)
      half == d.range \div 2
      bit == IF Head(kinds) THEN IF d.code < half THEN 0 ELSE 1 ELSE BitOf(d, prob)
      next == IF Head(kinds)
              THEN [d EXCEPT !.range = half, !.code = IF bit = 1 THEN @ - half ELSE @]
              ELSE AfterBit(d, prob)
      prob2 == IF Head(kinds) THEN prob ELSE IF bit = 0 THEN ProbUp(prob) ELSE ProbDown(prob)
  IN  IF kinds = << >> THEN out ELSE DecodedBits(next, Tail(kinds), prob2, Append(out, bit))

CoderInit ==
  /\ coder \in [low : {0}, range : {Full - 1}, cache : {0}, cacheSize : {0}, buf : {<< >>},
                processed : {0}, res : {"ok"}, written : {<< >>}, prob : {ProbInit},
                limit : WriteLimit, ended : {FALSE}]
  /\ sent = << >>
(* RC_BIT.                                                                   *)
CodeBit(bit) ==
  /\ ~coder.ended /\ Len(sent) < CoderBits
  /\ LET bound == Bound(coder.range, coder.prob)
     IN  coder' = Norm(IF bit = 0
           THEN [coder EXCEPT !.range = bound, !.prob = ProbUp(@)]
           ELSE [coder EXCEPT !.range = @ - bound, !.low = @ + bound, !.prob = ProbDown(@)])
  /\ sent' = Append(sent, <<FALSE, bit>>)
(* A bit of even odds.                                                       *)
CodeDirect(bit) ==
  /\ ~coder.ended /\ Len(sent) < CoderBits
  /\ LET half == coder.range \div 2
     IN  coder' = Norm([coder EXCEPT !.range = half, !.low = @ + half * bit])
  /\ sent' = Append(sent, <<TRUE, bit>>)
CoderEnds ==
  /\ ~coder.ended
  /\ coder' = [FlushStream(FlushData(coder)) EXCEPT !.ended = TRUE]
  /\ UNCHANGED sent
CoderNext == (\E bit \in 0 .. 1 : CodeBit(bit) \/ CodeDirect(bit)) \/ CoderEnds

(* A stream that was taken whole decodes to the bits that were coded; no     *)
(* byte is still held back, and its length is the one counted.               *)
BitsReturn ==
  coder.ended /\ coder.res = "ok" =>
    /\ Len(coder.written) = coder.processed /\ coder.cacheSize = 0
    /\ coder.written[1] = 0
    /\ DecodedBits(DecoderOf(coder.written), [i \in DOMAIN sent |-> sent[i][1]],
                   ProbInit, << >>)
         = [i \in DOMAIN sent |-> sent[i][2]]
=============================================================================
