---------------------------- MODULE Bcj2Encoder -----------------------------
(* The BCJ2 encoder (Bcj2Enc.c): the bytes go to the main stream; behind a   *)
(* marker (e8, e9 or 0f 8x) a bit in the range coder's stream tells whether  *)
(* the four bytes of its offset went, as an absolute address, to the call or *)
(* the jump stream.  Input comes in pieces and each of the four buffers may  *)
(* be full at any time; bytes that are not decided yet wait in temp.         *)
EXTENDS RangeCoder

CONSTANTS
  BranchInputs,  \* the inputs: sequences of pieces, each a sequence of bytes
                 \* that is encoded to its end (END_BLOCK)
  BranchPieces,  \* sizes in which input is given
  BranchRooms    \* room given in the buffers: of the main and rc streams

VARIABLES
  code,   \* the pieces of the input
  bj,     \* CBcj2Enc, and its four streams
  branch  \* which piece is being encoded, how much of it was given, how many
          \* pieces sizes and rooms there are

branchVars == <<code, bj, branch>>

(* Offsets: the four bytes stand for a number in reach only if both high     *)
(* ones are small.                                                           *)
Relat(w) ==
  IF w[3] # "xx" \/ w[4] # "xx" THEN 100
  ELSE CASE w[1] = "xx" -> 0 [] w[1] = "8x" -> -7 [] OTHER -> 5
RelatLimit == 50
IsMark(prev, b) == b \in {"e8", "e9"} \/ (b = "8x" /\ prev = "0f")
Contexts == {"e8", "e9", "0f", "8x", "xx"} \X {"e8", "e9", "8x"}
ContextOf(prev, b) == <<IF b = "e8" THEN prev ELSE "xx", b>>

(* Bcj2_RangeEnc_ShiftLow: stops when the buffer is full.                    *)
RECURSIVE RcOut(_, _)
RcOut(p, high) ==
  IF p.cacheSize = 0 \/ p.room["rc"] = 0 THEN p
  ELSE RcOut([p EXCEPT !.rc = Append(@, (p.cache + high) % Base), !.room["rc"] = @ - 1,
                       !.cache = Base - 1, !.cacheSize = @ - 1], high)
RcShiftLow(p) ==
  LET low == p.low % Full
      high == p.low \div Full
      holds == low >= (Base - 1) * kTopValue /\ high = 0
      put == IF holds THEN p ELSE RcOut(p, high)
  IN  IF ~holds /\ put.cacheSize > 0 THEN [put EXCEPT !.state = "rc"]
      ELSE [put EXCEPT !.cache = IF holds THEN @ ELSE low \div kTopValue,
                       !.cacheSize = @ + 1, !.low = (low * Base) % Full]
RcNorm(p) ==
  IF p.range >= kTopValue THEN p
  ELSE LET q == RcShiftLow(p) IN IF q.state = "rc" THEN q ELSE [q EXCEPT !.range = @ * Base]
RcBit(p, context, bit) ==
  LET prob == p.probs[context]
      bound == Bound(p.range, prob)
  IN  IF bit = 0 THEN [p EXCEPT !.range = bound, !.probs[context] = ProbUp(@)]
      ELSE [p EXCEPT !.range = @ - bound, !.low = @ + bound, !.probs[context] = ProbDown(@)]

RECURSIVE RcFlush(_)
RcFlush(p) ==
  IF p.flushRem = 0 THEN [p EXCEPT !.state = "finished"]
  ELSE LET q == RcShiftLow(p)
       IN  IF q.state = "rc" THEN q ELSE RcFlush([q EXCEPT !.flushRem = @ - 1])

(* Bcj2Enc_Encode_2 over the bytes in, of which p.src are taken.             *)
Small(a, b) == IF a < b THEN a ELSE b
Prev(p, in, n) == IF n = 0 THEN p.context ELSE in[n]
MainOut(p, in, n) ==
  [p EXCEPT !.main = @ \o SubSeq(in, p.src + 1, n), !.room["main"] = @ - (n - p.src),
            !.ip = @ + (n - p.src), !.src = n, !.context = Prev(p, in, n)]
(* A marker needs its four bytes in this piece, and an offset that leads     *)
(* into the file and is not too far.  A marker that began in the piece       *)
(* before is left alone.                                                     *)
Converts(p, in) ==
  LET n == p.src
      ip == p.ip - p.fileIp
      relat == Relat(SubSeq(in, n + 1, n + 4))
  IN  /\ Len(in) - n >= 4
      /\ ip > (IF in[n] = "8x" THEN 1 ELSE 0)
      /\ ip + 4 + relat \in 0 .. p.fileSize - 1 /\ relat < RelatLimit
Which(b) == IF b = "e8" THEN "call" ELSE "jump"
WriteWord(p, stream) ==
  IF p.room[stream] = 0 THEN [p EXCEPT !.state = stream]
  ELSE [p EXCEPT !.words[stream] = Append(@, p.target), !.room[stream] = @ - 1]

(* The four bytes behind the marker go to their stream.                      *)
TakeWord(p, in) ==
  LET n == p.src
  IN  WriteWord([p EXCEPT !.ip = @ + 4, !.src = @ + 4, !.context = in[n + 4],
                        !.target = <<SubSeq(in, n + 1, n + 4), p.ip + 4>>], Which(in[n]))
NoMarker(p, in, mode) ==
  IF p.src # Len(in) THEN [p EXCEPT !.state = "main"]
  ELSE IF mode # "end_stream" THEN p
  ELSE RcFlush([p EXCEPT !.flushing = TRUE])
RECURSIVE EncodeLoop(_, _, _)
(* Behind a marker: p.src is its last byte.                                  *)
AtMarker(p, context, in, mode) ==
  LET taken == TakeWord(RcBit(p, context, 1), in)
  IN  IF ~Converts(p, in) THEN EncodeLoop(RcBit(p, context, 0), in, mode)
      ELSE IF taken.state # "orig" THEN taken ELSE EncodeLoop(taken, in, mode)
EncodeFrom(p, in, mode) ==
  LET room == Small(p.room["main"], Len(in) - p.src)
      marks == {n \in p.src + 1 .. p.src + room : IsMark(Prev(p, in, n - 1), in[n])}
      n == CHOOSE n \in marks : \A k \in marks : n <= k
  IN  IF p.state = "rc" THEN p
      ELSE IF marks = {} THEN NoMarker(MainOut(p, in, p.src + room), in, mode)
      ELSE IF Len(in) - n < 4 /\ mode = "continue" THEN MainOut(p, in, n - 1)
      ELSE AtMarker(MainOut(p, in, n), ContextOf(Prev(p, in, n - 1), in[n]), in, mode)
EncodeLoop(p, in, mode) == EncodeFrom(RcNorm(p), in, mode)

Encode2(p, in, mode) ==
  LET q == IF p.state \in {"call", "jump"} THEN WriteWord([p EXCEPT !.state = "orig"], p.state)
           ELSE [p EXCEPT !.state = "orig"]
  IN  IF p.flushing THEN RcFlush([p EXCEPT !.state = "orig"])
      ELSE IF q.state # "orig" THEN q
      ELSE EncodeLoop(q, in, mode)

(* Bcj2Enc_Encode: what is left over goes to temp, and the bytes in temp are *)
(* encoded first, with as few of the new ones as they need.                  *)
Undecided(in, n) == SubSeq(in, n + 1, Len(in))
(* A slip: temp keeps the bytes that are given back.                         *)
GivenBackKept(p, src, extra) == [p EXCEPT !.src = src - Small(extra, Len(p.temp))]
GivenBack(p, src, extra) ==
  LET back == Small(extra, Len(p.temp))
  IN  [p EXCEPT !.src = src - back, !.temp = SubSeq(@, 1, Len(@) - back)]
EncodeRest(p, in, mode) ==
  LET q == Encode2(p, in, mode)
  IN  IF q.state = "orig" THEN [q EXCEPT !.temp = Undecided(in, q.src), !.src = Len(in)] ELSE q
RECURSIVE EncodeTemp(_, _, _, _)
EncodeTemp(p, in, mode, extra) ==
  LET src == p.src
      more == src # Len(in)
      q0 == Encode2([p EXCEPT !.src = 0], p.temp, IF more THEN "continue" ELSE mode)
      q == [q0 EXCEPT !.temp = Undecided(@, q0.src)]
  IN  IF q.state # "orig" THEN GivenBack(q, src, extra)
      ELSE IF ~more THEN [q EXCEPT !.src = src]
      ELSE IF extra >= Len(q.temp)
      THEN EncodeRest([q EXCEPT !.src = src - Len(q.temp), !.temp = << >>], in, mode)
      ELSE EncodeTemp([q EXCEPT !.temp = Append(@, in[src + 1]), !.src = src + 1],
                      in, mode, extra + 1)
Encode(p, in, mode) ==
  IF p.temp = << >> THEN EncodeRest(p, in, mode) ELSE EncodeTemp(p, in, mode, 0)

-----------------------------------------------------------------------------
Rooms == [main : BranchRooms, rc : BranchRooms, call : {1}, jump : {1}]
BranchStart(room) ==
  [state |-> "orig", context |-> "xx", flushRem |-> 5, flushing |-> FALSE, cache |-> 0,
   range |-> Full - 1, low |-> 0, cacheSize |-> 1, ip |-> 0, fileIp |-> 0, fileSize |-> 0,
   temp |-> << >>, src |-> 0, target |-> << >>, probs |-> [c \in Contexts |-> ProbInit],
   main |-> << >>, rc |-> << >>, words |-> [call |-> << >>, jump |-> << >>], room |-> room]
BranchInit ==
  /\ code \in BranchInputs
  /\ \E room \in Rooms, piece \in BranchPieces :
       /\ bj = [BranchStart(room) EXCEPT !.fileSize = Len(code[1])]
       /\ branch = [n |-> 1, given |-> << >>, done |-> 0, mode |-> "continue",
                    room |-> room, piece |-> piece]

Piece == code[branch.n]
EndMode == IF branch.n = Len(code) THEN "end_stream" ELSE "end_block"
(* The caller gives input when there is none left: some bytes of the piece,  *)
(* then its end.                                                             *)
GiveInput ==
  /\ bj.state = "orig" /\ bj.src = Len(branch.given) /\ branch.mode = "continue"
  /\ LET size == Small(branch.piece, Len(Piece) - branch.done)
         in == SubSeq(Piece, branch.done + 1, branch.done + size)
         last == branch.done + size = Len(Piece)
         modes == (IF last THEN {EndMode} ELSE {}) \cup (IF size > 0 THEN {"continue"} ELSE {})
     IN  \E mode \in modes :
           /\ bj' = Encode([bj EXCEPT !.src = 0], in, mode)
           /\ branch' = [branch EXCEPT !.given = in, !.done = @ + size, !.mode = mode]
  /\ UNCHANGED code
(* It empties the buffer that is full and calls again.                       *)
GiveRoom ==
  /\ bj.state \in {"main", "rc", "call", "jump"}
  /\ bj' = Encode([bj EXCEPT !.room[bj.state] = branch.room[bj.state]],
                  branch.given, branch.mode)
  /\ UNCHANGED <<code, branch>>
NextPiece ==
  /\ bj.state = "orig" /\ branch.mode = "end_block"
  /\ bj' = [bj EXCEPT !.fileIp = bj.ip, !.fileSize = Len(code[branch.n + 1]), !.src = 0]
  /\ branch' = [branch EXCEPT !.n = @ + 1, !.given = << >>, !.done = 0, !.mode = "continue"]
  /\ UNCHANGED code
BranchNext == GiveInput \/ GiveRoom \/ NextPiece

(* The four streams merged again: the bits from the range coder's stream,    *)
(* the words back to offsets.                                                *)
RECURSIVE Merged(_, _)
Merged(d, out) ==
  LET b == d.main[d.src + 1]
      prev == d.prev
      f == Refilled(d)
      context == ContextOf(prev, b)
      bit == BitOf(f, d.probs[context])
      next == [AfterBit(f, d.probs[context]) EXCEPT
                 !.probs[context] = IF bit = 0 THEN ProbUp(@) ELSE ProbDown(@),
                 !.src = @ + 1, !.prev = b]
      words == d.words[Which(b)]
      word == words[1]
  IN  IF d.src = Len(d.main) THEN out
      ELSE IF ~IsMark(prev, b)
      THEN Merged([d EXCEPT !.src = @ + 1, !.prev = b], Append(out, b))
      ELSE IF bit = 0 THEN Merged(next, Append(out, b))
      ELSE IF words = << >> \/ word[2] # Len(out) + 5 THEN <<"wrong">>
      ELSE Merged([next EXCEPT !.prev = word[1][4], !.words[Which(b)] = Tail(words)],
                  Append(out, b) \o word[1])
MergedStreams(p) ==
  LET d == DecoderOf(p.rc)
  IN  Merged([bytes |-> d.bytes, next |-> d.next, range |-> d.range, code |-> d.code,
              main |-> p.main, words |-> p.words, src |-> 0, prev |-> "xx",
              probs |-> [c \in Contexts |-> ProbInit]], << >>)

(* The streams when every piece is given at once and no buffer is ever full. *)
Plenty == [main |-> 99, rc |-> 99, call |-> 99, jump |-> 99]
RECURSIVE AtOnce(_, _)
AtOnce(p, n) ==
  LET q == Encode2([p EXCEPT !.src = 0, !.fileIp = p.ip, !.fileSize = Len(code[n])], code[n],
                   IF n = Len(code) THEN "end_stream" ELSE "end_block")
  IN  IF n = Len(code) THEN q ELSE AtOnce(q, n + 1)
(* A piece by itself, at its place.                                          *)
RECURSIVE Alone(_, _)
Alone(n, ip) ==
  LET start == [BranchStart(Plenty) EXCEPT !.ip = ip, !.fileIp = ip, !.fileSize = Len(code[n])]
      p == Encode2(start, code[n], "end_block")
      rest == Alone(n + 1, ip + Len(code[n]))
  IN  IF n > Len(code) THEN [main |-> << >>, call |-> << >>, jump |-> << >>]
      ELSE [main |-> p.main \o rest.main, call |-> p.words.call \o rest.call,
            jump |-> p.words.jump \o rest.jump]
RECURSIVE Joined(_)
Joined(pieces) == IF pieces = << >> THEN << >> ELSE Head(pieces) \o Joined(Tail(pieces))

(* However the input is given and the buffers fill, the streams are the same *)
(* and merge to the input; what one piece becomes does not depend on the     *)
(* bytes of another; and temp never holds more than it has room for.         *)
BranchesMerge ==
  /\ Len(bj.temp) <= 4
  /\ (bj.state = "orig" => bj.src = Len(branch.given))
  /\ (bj.state = "orig" /\ branch.mode = "end_block" => bj.temp = << >>)
  /\ (bj.state = "finished" =>
        LET once == AtOnce(BranchStart(Plenty), 1)
            alone == Alone(1, 0)
        IN  /\ <<bj.main, bj.rc, bj.words>> = <<once.main, once.rc, once.words>>
            /\ <<bj.main, bj.words.call, bj.words.jump>>
                 = <<alone.main, alone.call, alone.jump>>
            /\ MergedStreams(bj) = Joined(code))
=============================================================================
