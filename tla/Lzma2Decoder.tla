------------------------------ MODULE Lzma2Decoder -----------------------------
(***************************************************************************)
(* Lzma2Dec.c: the automaton of LZMA2 chunk headers (Lzma2Dec_UpdateState) *)
(* and its two users, Lzma2Dec_DecodeToDic with Lzma2Dec_DecodeToBuf       *)
(* around it, and Lzma2Dec_Parse, which finds the chunks without decoding  *)
(* them.  Both may be given input and room in pieces of any size.          *)
(***************************************************************************)
EXTENDS LzmaStreams

VARIABLES stream,  \* the stream that is read
          src,     \* how many of its bytes have been taken
          dec,     \* CLzma2Dec
          call,    \* the call in progress
          text     \* every byte written, as <<chunk, place in it>> (history)

vars == <<stream, src, dec, call, text>>

Idle == [pc |-> "idle", kind |-> "dic", limit |-> 0, from |-> 0, size |-> 0,
         end |-> 0, mode |-> "any", curMode |-> "any", res |-> "ok",
         status |-> "none"]

-----------------------------------------------------------------------------
(* start is LzmaDec's remainLen: 2 and 1 before the range coder is filled,   *)
(* with and without new probabilities, 0 behind it.  probs tells whether     *)
(* the probabilities belong to the properties (history).                     *)
Init ==
  /\ stream \in ChunkStreams
  /\ src = 0 /\ text = <<>>
  /\ \E kind \in {"dic", "buf", "parse"} : call = [Idle EXCEPT !.kind = kind]
  /\ dec = [state |-> "CONTROL", control |-> 0, needInitLevel |-> 224,
            isExtraMode |-> FALSE, unpackSize |-> 0, packSize |-> 0,
            dicPos |-> 0, start |-> 2, probs |-> FALSE]

InHeader == dec.state \in {"CONTROL", "UNPACK0", "UNPACK1", "PACK0", "PACK1", "PROP"}
InData == dec.state \in {"DATA", "DATA_CONT"}
IsUncompressed(d) == d.control < 128

(* Lzma2Dec_UpdateState *)
Control(d, b) ==
  LET e == [d EXCEPT !.isExtraMode = FALSE, !.control = b]
  IN IF b = 0 THEN [e EXCEPT !.state = "FINISHED"]
     ELSE IF b = 1 THEN [e EXCEPT !.needInitLevel = 192, !.state = "UNPACK0"]
     ELSE IF b < 128 /\ (b > 2 \/ d.needInitLevel = 224)
     THEN [e EXCEPT !.state = "ERROR"]
     ELSE IF b < 128 THEN [e EXCEPT !.state = "UNPACK0"]
     ELSE IF b < d.needInitLevel THEN [e EXCEPT !.state = "ERROR"]
     ELSE [e EXCEPT !.needInitLevel = 0, !.state = "UNPACK0",
                    !.unpackSize = (b % 32) * 65536]
HasProp(control) == (control \div 64) % 2 = 1
PropOK(b) == b < 9 * 5 * 5 /\ (b % 9) + ((b \div 9) % 5) <= 4

UpdateState(d, b) ==
  CASE d.state = "CONTROL" -> Control(d, b)
    [] d.state = "UNPACK0" ->
         [d EXCEPT !.unpackSize = @ + b * 256, !.state = "UNPACK1"]
    [] d.state = "UNPACK1" ->
         [d EXCEPT !.unpackSize = @ + b + 1,
                   !.state = IF IsUncompressed(d) THEN "DATA" ELSE "PACK0"]
    [] d.state = "PACK0" -> [d EXCEPT !.packSize = b * 256, !.state = "PACK1"]
    [] d.state = "PACK1" ->
         [d EXCEPT !.packSize = @ + b + 1,
                   !.state = IF HasProp(d.control) THEN "PROP" ELSE "DATA"]
    [] d.state = "PROP" ->
         IF PropOK(b) THEN [d EXCEPT !.state = "DATA", !.probs = FALSE]
                      ELSE [d EXCEPT !.state = "ERROR"]
    [] OTHER -> [d EXCEPT !.state = "ERROR"]

(* LzmaDec_InitDicAndState *)
InitDicAndState(d, initDic, initState) ==
  [d EXCEPT !.start = IF initDic \/ initState THEN 2 ELSE 1]

-----------------------------------------------------------------------------
(* Calls.  After an error a caller gives up. *)
Ready(kind) == call.pc = "idle" /\ call.kind = kind /\ dec.state /= "ERROR"
DecodeToDic(limit, n, mode) ==
  /\ Ready("dic") /\ src + n <= Size(stream)
  /\ dec.dicPos <= limit
  /\ call' = [Idle EXCEPT !.pc = "decode", !.limit = limit, !.from = dec.dicPos,
                          !.end = src + n, !.mode = mode, !.curMode = mode]
  /\ UNCHANGED <<stream, src, dec, text>>

(* A round of Lzma2Dec_DecodeToBuf *)
RoundOf(c, pos, size) ==
  [c EXCEPT !.pc = "decode", !.from = pos, !.size = size,
            !.limit   = IF DicBufSize - pos >= size THEN pos + size ELSE DicBufSize,
            !.curMode = IF DicBufSize - pos >= size THEN c.mode ELSE "any"]

DecodeToBuf(size, n, mode) ==
  LET pos == WrapRing(dec.dicPos)
  IN /\ Ready("buf") /\ src + n <= Size(stream)
     /\ call' = RoundOf([Idle EXCEPT !.kind = "buf", !.end = src + n, !.mode = mode],
                        pos, size)
     /\ dec' = [dec EXCEPT !.dicPos = pos]
     /\ UNCHANGED <<stream, src, text>>

(* Lzma2Dec_Parse; mode "end" is checkFinishBlock *)
Parse(size, n, mode) ==
  /\ Ready("parse") /\ src + n <= Size(stream)
  /\ call' = [Idle EXCEPT !.pc = "parse", !.kind = "parse", !.size = size,
                          !.end = src + n, !.mode = mode, !.curMode = mode]
  /\ UNCHANGED <<stream, src, dec, text>>

Return(res, status) ==
  call' = [call EXCEPT !.pc = "return", !.res = res, !.status = status]
DataError == /\ dec' = [dec EXCEPT !.state = "ERROR"] /\ Return("data", "none")

-----------------------------------------------------------------------------
(* The chunk the input stands in: its control byte has been taken. *)
Chunk == CHOOSE i \in 1 .. Len(stream) :
           Places(stream)[i] < src /\ src <= Places(stream)[i + 1]
Room == call.limit - dec.dicPos
Full == Room = 0
InSize == call.end - src
Tokens(i, from, n) == [k \in 1 .. n |-> <<i, from + k>>]

DecodeEnds ==       \* the returns at the head of the loop
  /\ call.pc = "decode"
  /\ \/ dec.state = "ERROR" /\ Return("data", "none")
     \/ dec.state = "FINISHED" /\ Return("ok", "finished_with_mark")
     \/ /\ InHeader \/ InData
        /\ Full /\ call.curMode = "any" /\ Return("ok", "not_finished")
  /\ UNCHANGED <<stream, src, dec, text>>
Decoding == call.pc = "decode" /\ ~(Full /\ call.curMode = "any")

DecodeHeader ==
  /\ Decoding /\ InHeader
  /\ IF InSize = 0
     THEN Return("ok", "needs_more_input") /\ UNCHANGED <<src, dec>>
     ELSE \E d \in {UpdateState(dec, ByteAt(stream, src))} :
             /\ src' = src + 1
             /\ IF Full /\ d.state /= "FINISHED"
                THEN dec' = [d EXCEPT !.state = "ERROR"] /\ Return("data", "none")
                ELSE dec' = d /\ UNCHANGED call
  /\ UNCHANGED <<stream, text>>

(* An uncompressed chunk, or the next piece of one *)
CopyPiece ==
  /\ Decoding /\ InData /\ IsUncompressed(dec)
  /\ LET n == Lesser(InSize, Lesser(Room, dec.unpackSize))
         d == IF dec.state = "DATA"
              THEN InitDicAndState(dec, dec.control = 1, FALSE) ELSE dec
         left == dec.unpackSize - n
     IN IF InSize = 0
        THEN Return("ok", "needs_more_input") /\ UNCHANGED <<src, dec, text>>
        ELSE IF n = 0
        THEN DataError /\ UNCHANGED <<src, text>>
        ELSE /\ src' = src + n
             /\ text' = text \o Tokens(Chunk, stream[Chunk].unpack - dec.unpackSize, n)
             /\ dec' = [d EXCEPT !.dicPos = @ + n, !.unpackSize = left,
                                 !.state = IF left = 0 THEN "CONTROL" ELSE "DATA_CONT"]
             /\ UNCHANGED call
  /\ UNCHANGED stream

(***************************************************************************)
(* What LzmaDec_DecodeToDic does when it is given n bytes and room bytes   *)
(* of room, used bytes into a chunk c and made bytes into its text: how    *)
(* many bytes it takes and writes, its result and status.                  *)
(***************************************************************************)
Outcome(in, wrote, res, status) ==
  [in |-> in, wrote |-> wrote, res |-> res, status |-> status]
LzmaDecode(c, used, made, n, room, mode) ==
  LET all  == used + n
      goal == made + room
      stops == c.stop \in 1 .. all
      last == IF stops THEN c.stop ELSE all
      res  == IF c.clean THEN "ok" ELSE "data"
      status == IF c.clean THEN "finished_with_mark" ELSE "none"
      ready == {k \in InitSize .. last : c.yield[k] >= goal}
      k    == CHOOSE k \in ready : \A j \in ready : k <= j
      at   == IF k > used THEN k ELSE used
      more == {j \in k + 1 .. last : c.yield[j] > c.yield[k]}
      j    == CHOOSE j \in more : \A h \in more : j <= h
  IN IF all > 0 /\ ~c.head
     THEN Outcome(IF InitSize - used < n THEN InitSize - used ELSE n, 0, "data", "none")
     ELSE IF all < InitSize
     THEN Outcome(n, 0, "ok", "needs_more_input")
     ELSE IF ready = {}
     THEN IF stops
          THEN Outcome(c.stop - used, c.yield[c.stop] - made, res, status)
          ELSE Outcome(n, c.yield[all] - made, "ok", "needs_more_input")
     ELSE IF c.yield[k] = goal /\ k \in c.exact
     THEN Outcome(at - used, room, "ok", "maybe_finished_without_mark")
     ELSE IF mode = "any"
     THEN Outcome(at - used, room, "ok", "not_finished")
     ELSE IF c.yield[k] > goal
     THEN Outcome(at - used, room, "data", "none")
     ELSE IF more /= {}
     THEN Outcome(j - used, room, "data", "none")
     ELSE IF stops
     THEN Outcome(c.stop - used, room, res, status)
     ELSE Outcome(n, room, "ok", "needs_more_input")

(* Slip: a chunk is done when its text is. *)
ChunkDoneEarly(d, r) ==
  r.status = "maybe_finished_without_mark" /\ d.unpackSize = 0
ChunkDone(d, r) ==
  /\ r.status = "maybe_finished_without_mark"
  /\ d.unpackSize = 0 /\ d.packSize = 0

(* The piece of the LZMA chunk the call has input and room for; mine is dec *)
(* with the chunk begun.                                                    *)
ChunkBegun ==
  IF dec.state = "DATA"
  THEN [InitDicAndState(dec, dec.control >= 224, dec.control >= 160)
          EXCEPT !.state = "DATA_CONT"]
  ELSE dec
PieceOf(c) ==
  LET whole == Room >= dec.unpackSize
  IN LzmaDecode(c, c.pack - dec.packSize, c.unpack - dec.unpackSize,
                Lesser(InSize, dec.packSize),
                IF whole THEN dec.unpackSize ELSE Room,
                IF whole THEN "end" ELSE "any")
AfterPiece(mine, c, r) ==
  LET runs == c.pack - dec.packSize + r.in >= InitSize /\ c.head
  IN [mine EXCEPT !.packSize = @ - r.in, !.unpackSize = @ - r.wrote,
        !.dicPos = @ + r.wrote,
        !.probs = @ \/ (runs /\ mine.start = 2),
        !.start = IF runs THEN 0 ELSE @]
Still(r) == r.in = 0 /\ r.wrote = 0
Broken(d, r) == \/ r.res /= "ok"
                \/ r.status = "needs_more_input" /\ d.packSize = 0
                \/ r.status /= "needs_more_input" /\ Still(r) /\ ~ChunkDone(d, r)

LzmaPiece ==
  /\ Decoding /\ InData /\ ~IsUncompressed(dec)
  /\ \E c \in {stream[Chunk]} : \E r \in {PieceOf(c)} :
       \E d \in {AfterPiece(ChunkBegun, c, r)} :
         /\ src' = src + r.in
         /\ text' = text \o Tokens(Chunk, c.unpack - dec.unpackSize, r.wrote)
         /\ IF Broken(d, r)
            THEN dec' = [d EXCEPT !.state = "ERROR"] /\ Return("data", "none")
            ELSE IF r.status = "needs_more_input"
            THEN dec' = d /\ Return("ok", "needs_more_input")
            ELSE /\ dec' = IF Still(r) THEN [d EXCEPT !.state = "CONTROL"] ELSE d
                 /\ UNCHANGED call
  /\ UNCHANGED stream

-----------------------------------------------------------------------------
(* The loop of Lzma2Dec_Parse *)
ParseEnds ==
  /\ call.pc = "parse"
  /\ \/ dec.state = "ERROR" /\ Return("data", "none")
     \/ dec.state = "FINISHED" /\ Return("ok", "finished_with_mark")
     \/ /\ InHeader \/ InData
        /\ call.size = 0 /\ (call.mode = "any" \/ InData)
        /\ Return("ok", "not_finished")
  /\ UNCHANGED <<stream, src, dec, text>>

(* Slip: a reset of the properties begins a block. *)
NewBlockProps(control) == control = 1 \/ control >= 192
NewBlock(control) == control = 1 \/ control >= 224
ParseHeader ==
  /\ call.pc = "parse" /\ InHeader /\ ~(call.size = 0 /\ call.mode = "any")
  /\ IF InSize = 0
     THEN Return("ok", "needs_more_input") /\ UNCHANGED <<src, dec>>
     ELSE \E d \in {UpdateState(dec, ByteAt(stream, src))} :
             /\ src' = src + 1 /\ dec' = d
             /\ IF d.state = "UNPACK0" /\ NewBlock(d.control)
                THEN Return("ok", "new_block")
                ELSE IF call.size = 0 /\ d.state /= "FINISHED"
                THEN Return("ok", "not_finished")
                ELSE IF d.state = "DATA"
                THEN Return("ok", "new_chunk")
                ELSE UNCHANGED call
  /\ UNCHANGED <<stream, text>>

ParseCopy ==
  /\ call.pc = "parse" /\ InData /\ call.size > 0 /\ IsUncompressed(dec)
  /\ LET n == Lesser(InSize, Lesser(dec.unpackSize, call.size))
         left == dec.unpackSize - n
     IN IF InSize = 0
        THEN Return("ok", "needs_more_input") /\ UNCHANGED <<src, dec>>
        ELSE /\ src' = src + n
             /\ dec' = [dec EXCEPT !.dicPos = @ + n, !.unpackSize = left,
                                   !.state = IF left = 0 THEN "CONTROL" ELSE "DATA_CONT"]
             /\ call' = [call EXCEPT !.size = @ - n]
  /\ UNCHANGED <<stream, text>>

ExtraMode == [dec EXCEPT !.isExtraMode = TRUE]
ParseLzma ==
  /\ call.pc = "parse" /\ InData /\ call.size > 0 /\ ~IsUncompressed(dec)
  /\ LET d == ExtraMode
         first == InSize > 0 /\ dec.state = "DATA"
         n == Lesser(InSize, dec.packSize)
         rem == Lesser(call.size, dec.unpackSize)
     IN IF InSize = 0 /\ dec.packSize /= 0
        THEN Return("ok", "needs_more_input") /\ dec' = d /\ UNCHANGED src
        ELSE IF first /\ ByteAt(stream, src) /= 0
        THEN /\ src' = src + 1
             /\ dec' = [d EXCEPT !.packSize = @ - 1, !.state = "ERROR"]
             /\ Return("data", "none")
        ELSE /\ src' = src + n
             /\ IF n < dec.packSize
                THEN /\ dec' = [d EXCEPT !.state = "DATA_CONT", !.packSize = @ - n]
                     /\ UNCHANGED call
                ELSE /\ dec' = [d EXCEPT !.packSize = 0, !.dicPos = @ + rem,
                                  !.unpackSize = @ - rem,
                                  !.state = IF dec.unpackSize = rem THEN "CONTROL"
                                            ELSE "DATA_CONT"]
                     /\ call' = [call EXCEPT !.size = @ - rem]
  /\ UNCHANGED <<stream, text>>

(* Slip: DecodeToBuf goes on as long as it wants more. *)
DeliverOn ==
  /\ call.pc = "return"
  /\ LET left == call.size - (dec.dicPos - call.from)
         pos  == WrapRing(dec.dicPos)
     IN IF call.kind = "buf" /\ call.res = "ok" /\ left > 0
        THEN call' = RoundOf(call, pos, left) /\ dec' = [dec EXCEPT !.dicPos = pos]
        ELSE call' = [Idle EXCEPT !.kind = call.kind] /\ UNCHANGED dec
  /\ UNCHANGED <<stream, src, text>>

(* The caller gets what was written; DecodeToBuf may begin another round. *)
Deliver ==
  /\ call.pc = "return"
  /\ LET made == dec.dicPos - call.from
         pos  == WrapRing(dec.dicPos)
     IN IF call.kind = "buf" /\ call.res = "ok" /\ made > 0 /\ call.size > made
        THEN /\ call' = RoundOf(call, pos, call.size - made)
             /\ dec' = [dec EXCEPT !.dicPos = pos]
        ELSE call' = [Idle EXCEPT !.kind = call.kind] /\ UNCHANGED dec
  /\ UNCHANGED <<stream, src, text>>

Run == \/ DecodeEnds \/ DecodeHeader \/ CopyPiece \/ LzmaPiece
       \/ ParseEnds \/ ParseHeader \/ ParseCopy \/ ParseLzma \/ Deliver
Call == \E n \in Offers \cup {Size(stream) - src}, mode \in {"any", "end"} :
          \/ \E limit \in 0 .. DicBufSize : DecodeToDic(limit, n, mode)
          \/ \E size \in 0 .. DicBufSize + 1 : DecodeToBuf(size, n, mode)
          \/ \E size \in 0 .. DicBufSize + 1 : Parse(size, n, mode)
Next == Run \/ Call

Spec == Init /\ [][Next]_vars
FairSpec == Spec /\ WF_vars(Run)

-----------------------------------------------------------------------------
(* What a stream says, chunk by chunk. *)

Need(s) == LET N[i \in 1 .. Len(s)] ==    \* what chunk i must reset
                 IF i = 1 THEN 224
                 ELSE IF s[i - 1].control = 1 THEN 192
                 ELSE IF s[i - 1].control >= 128 THEN 0 ELSE N[i - 1]
           IN N
HeaderOK(s, i) ==
  LET c == s[i] IN
  CASE c.control \in {0, 1} -> TRUE
    [] c.control = 2 -> Need(s)[i] < 224
    [] c.control >= 128 -> c.control >= Need(s)[i] /\ (c.control >= 192 => c.prop)
    [] OTHER -> FALSE
DataOK(c) ==
  c.control >= 128 => /\ c.head /\ c.pack >= InitSize /\ c.pack \in c.exact
                      /\ c.yield[c.pack] = c.unpack /\ c.stop \in {0, c.pack}
                      /\ c.yield[c.pack - 1] < c.unpack \/ c.pack = InitSize
ChunkOK(s, i) == HeaderOK(s, i) /\ DataOK(s[i])
HeadOK(c) == c.control >= 128 => c.head

(* How many bytes a decoder can write that has the first p bytes *)
Brings(c, k) ==     \* of chunk c, with k bytes of its data
  IF k <= 0 \/ c.control = 0 THEN 0
  ELSE IF k >= DataSize(c) THEN c.unpack
  ELSE IF c.control < 128 THEN k ELSE c.yield[k]
Reach(s, p) ==
  LET R[i \in 0 .. Len(s)] ==
        IF i = 0 THEN 0
        ELSE R[i - 1] + Brings(s[i], p - Places(s)[i] - Len(Header(s[i])))
  IN R[Len(s)]

Current == IF src = 0 THEN 1 ELSE Chunk

(* The text of the first chunks, and of all *)
TextOf(s) ==
  LET T[i \in 0 .. Len(s)] ==
        IF i = 0 THEN <<>>
        ELSE T[i - 1] \o (IF s[i].control = 0 THEN <<>> ELSE Tokens(i, 0, s[i].unpack))
  IN T
Whole == TextOf(stream)[Len(stream)]
Decodes == call.kind /= "parse"

TypeOK ==
  /\ src \in 0 .. Size(stream)
  /\ dec.unpackSize \in 0 .. 256 /\ dec.packSize \in 0 .. 256
  /\ dec.needInitLevel \in {0, 192, 224}
  /\ call.pc \in {"idle", "decode", "parse", "return"}
  /\ Decodes => dec.dicPos \in 0 .. DicBufSize
  /\ Decodes /\ call.pc /= "idle" => dec.dicPos \in call.from .. call.limit

(* However input and room are cut: what is written is the text of the      *)
(* chunks in order, without a gap, and a chunk is only left when all of it *)
(* was as its header says (Lzma2Dec_DecodeToDic).                          *)
TextExact ==
  Decodes => /\ Len(text) <= Len(Whole) /\ text = SubSeq(Whole, 1, Len(text))
             /\ \A i \in 1 .. Current - 1 : ChunkOK(stream, i)

(* Decoding and parsing stay in step with the chunks of the input: the     *)
(* sizes that are left lead to the end of the chunk.                       *)
InStep ==
  LET next == Places(stream)[Current + 1]
  IN /\ dec.state = "CONTROL" => src = 0 \/ src = next
     /\ InData => src + (IF IsUncompressed(dec) THEN dec.unpackSize
                                                ELSE dec.packSize) = next
     /\ dec.state = "UNPACK0" => dec.unpackSize = 0

(* LZMA data is only decoded with probabilities that were set up for the   *)
(* properties in force: what a copied chunk forgets of a pending reset,    *)
(* needInitLevel makes the next LZMA chunk demand.                         *)
ProbsInitialised ==
  dec.state = "DATA_CONT" /\ ~IsUncompressed(dec) /\ dec.start = 0 => dec.probs

(* Chunks are decoded one behind the other, each with what it needs. *)
ChunksExact == TextExact /\ InStep /\ ProbsInitialised

(* The results of Lzma2Dec_DecodeToDic mean what Lzma2Dec.h says. *)
DecodeVerdict ==
  Decodes /\ call.pc = "return" =>
    CASE call.status = "finished_with_mark" ->
           stream[Current].control = 0 /\ src = Places(stream)[Current + 1]
      [] call.status = "needs_more_input" -> src = call.end
      [] call.status = "not_finished" -> Full /\ call.curMode = "any"
      [] OTHER -> /\ call.res = "data"
                  /\ \/ ~ChunkOK(stream, Current)
                     \/ Full /\ call.curMode = "end" /\ stream[Current].control /= 0

(* Lzma2Dec_Parse stops behind the control byte of exactly those chunks    *)
(* that reset the dictionary, and behind each header, and passes nothing a *)
(* decoder would refuse by its header or first byte.                       *)
ParseVerdict ==
  ~Decodes =>
    /\ \A i \in 1 .. Current - 1 : HeaderOK(stream, i) /\ HeadOK(stream[i])
    /\ call.pc = "return" =>
         LET c == stream[Current]
             begin == Places(stream)[Current]
         IN CASE call.status = "new_block" ->
                   src = begin + 1 /\ (c.control = 1 \/ c.control >= 224)
              [] call.status = "new_chunk" ->
                   src = begin + Len(Header(c)) /\ dec.unpackSize = c.unpack
              [] call.status = "finished_with_mark" ->
                   c.control = 0 /\ src = begin + 1
              [] call.status = "needs_more_input" -> src = call.end
              [] call.status = "not_finished" -> call.size = 0
              [] OTHER -> ~HeaderOK(stream, Current) \/ ~HeadOK(c)

(* What a parser has counted, and Lzma2Dec_GetUnpackExtra, bound what a    *)
(* decoder can have written at the same place of the input.                *)
UnpackExtra == IF dec.isExtraMode THEN dec.unpackSize ELSE 0
ParseBound ==
  /\ ~Decodes
  /\ \A i \in 1 .. Current : ChunkOK(stream, i)
  => /\ dec.dicPos <= Reach(stream, src)
     /\ Reach(stream, src) <= dec.dicPos + UnpackExtra

(* The verdicts of both readers *)
VerdictsExact == DecodeVerdict /\ ParseVerdict /\ ParseBound

(* Every call returns: each round takes input, fills the room or leaves. *)
CallReturns == (call.pc /= "idle") ~> (call.pc = "idle")
=============================================================================
