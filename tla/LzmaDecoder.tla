------------------------------ MODULE LzmaDecoder ------------------------------
(***************************************************************************)
(* The LZMA decoder of LzmaDec.c: LzmaDec_DecodeToDic, which may be given  *)
(* its input and its room in pieces of any size, and LzmaDec_DecodeToBuf   *)
(* around it, which uses the dictionary as a ring.                         *)
(*                                                                         *)
(* Positions in the stream are absolute: src is the caller's pointer       *)
(* behind the bytes the decoder has taken, and the bytes in tempBuf are    *)
(* the last ones in front of it.                                           *)
(***************************************************************************)
EXTENDS LzmaStreams

VARIABLES stream,   \* the stream that is decoded
          src,      \* how many of its bytes the decoder has taken
          sym,      \* how many symbols it has decoded
          dec,      \* CLzmaDec
          call,     \* the call in progress and its local variables
          out       \* everything the caller has been given (history)

vars == <<stream, src, sym, dec, call, out>>

-----------------------------------------------------------------------------
Idle == [pc |-> "idle", kind |-> "dic", limit |-> 0, from |-> 0, size |-> 0,
         end |-> 0, mode |-> "any", curMode |-> "any", bufLimit |-> 0,
         res |-> "ok", status |-> "not_specified"]

(* LzmaDec_Allocate makes the ring at least as large as the dictionary; a   *)
(* caller of LzmaDec_DecodeToDic brings a buffer of any size, and does not  *)
(* write beyond its end (7zDec.c).                                          *)
Init == /\ stream \in Streams
        /\ src = 0 /\ sym = 0 /\ out = <<>>
        /\ \E kind \in {"dic", "buf"} :
             /\ call = [Idle EXCEPT !.kind = kind]
             /\ kind = "buf" => stream.dicSize <= DicBufSize
        /\ dec = [remainLen |-> kMatchSpecLenStart + 2, tempBufSize |-> 0,
                  dic |-> [i \in 0 .. DicBufSize - 1 |-> 0], dicPos |-> 0,
                  processedPos |-> 0, checkDicSize |-> 0, reps |-> <<1, 1, 1, 1>>]

DicSize == stream.dicSize

(* The next symbol; the last bytes of a stream never make a whole one. *)
NextSymbol == IF sym < Len(stream.syms)
         THEN stream.syms[sym + 1]
         ELSE [kind |-> "lit", bytes |-> RequiredMax, len |-> 1, dist |-> 1,
               rep |-> 1, byte |-> 0]
CodeIsZero == sym \in stream.exact

Begin == src - dec.tempBufSize       \* where the range coder stands
InSize == call.end - src

(***************************************************************************)
(* LzmaDec_DecodeToDic is called with room up to dicLimit.  A stream is     *)
(* read through one of the two interfaces (LzmaDec.h: do not mix them).    *)
(***************************************************************************)
DecodeToDic(limit, n, mode) ==
  /\ call.pc = "idle" /\ call.kind = "dic" /\ src + n <= stream.size
  /\ dec.dicPos <= limit
  /\ call' = [Idle EXCEPT !.pc = "start", !.limit = limit, !.from = dec.dicPos,
                          !.end = src + n, !.mode = mode, !.curMode = mode]
  /\ UNCHANGED <<stream, src, sym, dec, out>>

(* One round of LzmaDec_DecodeToBuf: dicPos wraps, the room is cut at the *)
(* end of the ring.                                                       *)
RoundOf(c, pos, size) ==
  [c EXCEPT !.pc = "start", !.from = pos, !.size = size,
            !.limit   = IF size > DicBufSize - pos THEN DicBufSize ELSE pos + size,
            !.curMode = IF size > DicBufSize - pos THEN "any" ELSE c.mode]

DecodeToBuf(size, n, mode) ==
  LET pos == WrapRing(dec.dicPos)
  IN /\ call.pc = "idle" /\ call.kind = "buf" /\ src + n <= stream.size
     /\ call' = RoundOf([Idle EXCEPT !.kind = "buf", !.end = src + n, !.mode = mode], pos, size)
     /\ dec' = [dec EXCEPT !.dicPos = pos]
     /\ UNCHANGED <<stream, src, sym, out>>

Return(res, status) ==
  call' = [call EXCEPT !.pc = "return", !.res = res, !.status = status]

(***************************************************************************)
(* The first bytes: the range coder is filled, and with them the decoder   *)
(* knows a first symbol that nothing in front of it allows.                *)
(***************************************************************************)
Refused == dec.remainLen > kMatchSpecLenStart + 2
Starting == dec.remainLen > kMatchSpecLenStart /\ ~Refused
Collected == Lesser(InitSize, dec.tempBufSize + InSize)
BadFirst == /\ dec.checkDicSize = 0 /\ dec.processedPos = 0
            /\ NextSymbol.kind = "rep"

StartRefused ==
  /\ call.pc = "start" /\ Refused
  /\ Return(IF dec.remainLen = kMatchSpecLen_Error_Data THEN "data" ELSE "fail",
            "not_specified")
  /\ UNCHANGED <<stream, src, sym, dec, out>>

CollectInit ==
  /\ call.pc = "start" /\ Starting
  /\ src' = Begin + Collected
  /\ LET bad == Collected > 0 /\ ~stream.head
         d == [dec EXCEPT !.tempBufSize = Collected]
     IN IF bad \/ Collected < InitSize \/ BadFirst
        THEN /\ dec' = d
             /\ IF bad \/ Collected = InitSize
                THEN Return("data", "not_specified")
                ELSE Return("ok", "needs_more_input")
        ELSE /\ dec' = [d EXCEPT !.tempBufSize = 0, !.remainLen = 0,
                          !.reps = IF dec.remainLen = kMatchSpecLenStart + 2
                                   THEN <<1, 1, 1, 1>> ELSE @]
             /\ call' = [call EXCEPT !.pc = "loop"]
  /\ UNCHANGED <<stream, sym, out>>

StartRunning ==
  /\ call.pc = "start" /\ dec.remainLen <= kMatchSpecLenStart
  /\ call' = [call EXCEPT !.pc = "loop"]
  /\ UNCHANGED <<stream, src, sym, dec, out>>

-----------------------------------------------------------------------------
(* Slip: the bytes are copied at once, as memcpy would. *)
CopyMatchAtOnce(d, n) ==
  [d EXCEPT !.dic = [j \in 0 .. DicBufSize - 1 |->
      IF d.dicPos <= j /\ j < d.dicPos + n
      THEN d.dic[(j - d.reps[1] + DicBufSize) % DicBufSize] ELSE d.dic[j]],
    !.dicPos = @ + n, !.processedPos = @ + n]

(* n bytes from the distance reps[1], each read after the one before it is *)
(* written                                                                 *)
CopyMatch(d, n) ==
  [d EXCEPT !.dic = [j \in 0 .. DicBufSize - 1 |->
      IF d.dicPos <= j /\ j < d.dicPos + n
      THEN d.dic[(d.dicPos + ((j - d.dicPos) % d.reps[1])
                           - d.reps[1] + DicBufSize) % DicBufSize]
      ELSE d.dic[j]],
    !.dicPos = @ + n, !.processedPos = @ + n]

(* LzmaDec_WriteRem: what is left of the last match *)
WriteRem(d, limit) ==
  LET n == Lesser(limit - d.dicPos, d.remainLen)
      c == IF d.checkDicSize = 0 /\ DicSize - d.processedPos <= n
           THEN [d EXCEPT !.checkDicSize = DicSize] ELSE d
  IN IF n = 0 THEN d
     ELSE [CopyMatch(c, n) EXCEPT !.remainLen = d.remainLen - n]

(* Slip: the end mark is accepted without looking at the code. *)
AtMarkAnyCode ==
  /\ call.pc = "loop" /\ dec.remainLen = kMatchSpecLenStart
  /\ Return("ok", "finished_with_mark")
  /\ UNCHANGED <<stream, src, sym, dec, out>>

(***************************************************************************)
(* The head of the loop: the end mark, then the rest of a match, then the  *)
(* decision whether there is room.                                         *)
(***************************************************************************)
AtMark ==
  /\ call.pc = "loop" /\ dec.remainLen = kMatchSpecLenStart
  /\ IF CodeIsZero THEN Return("ok", "finished_with_mark")
                   ELSE Return("data", "not_specified")
  /\ UNCHANGED <<stream, src, sym, dec, out>>

LoopHead ==
  /\ call.pc = "loop" /\ dec.remainLen /= kMatchSpecLenStart
  /\ LET d == WriteRem(dec, call.limit)
         full == d.dicPos >= call.limit
     IN /\ dec' = d
        /\ IF full /\ d.remainLen = 0 /\ CodeIsZero
           THEN Return("ok", "maybe_finished_without_mark")
           ELSE IF full /\ call.curMode = "any"
           THEN Return("ok", "not_finished")
           ELSE IF full /\ d.remainLen /= 0
           THEN Return("data", "not_finished")
           ELSE call' = [call EXCEPT !.pc = "try"]
  /\ UNCHANGED <<stream, src, sym, out>>

-----------------------------------------------------------------------------
(* Look ahead with LzmaDec_TryDummy, on src or on tempBuf, when the input  *)
(* may not hold a whole symbol or only an end mark may follow.             *)

CheckEndMarkNow == dec.dicPos >= call.limit
Avail == IF dec.tempBufSize = 0 THEN InSize
         ELSE Lesser(RequiredMax, dec.tempBufSize + InSize)
LookAhead == Avail < RequiredMax \/ CheckEndMarkNow
Whole == NextSymbol.bytes <= Avail
MayBeMark == NextSymbol.kind \in {"match", "end"}

Unexpected == /\ dec' = [dec EXCEPT !.remainLen = kMatchSpecLen_Error_Data - 1]
              /\ Return("fail", "not_specified")
              /\ UNCHANGED src

(* Slip: the bytes that were in tempBuf before are not counted. *)
NeedMoreInputNew ==
  /\ call.pc = "try" /\ LookAhead /\ ~Whole
  /\ src' = Begin + Avail
  /\ dec' = [dec EXCEPT !.tempBufSize = Avail - dec.tempBufSize]
  /\ Return("ok", "needs_more_input")
  /\ UNCHANGED <<stream, sym, out>>

(* DUMMY_INPUT_EOF: what there is goes to tempBuf. *)
NeedMoreInput ==
  /\ call.pc = "try" /\ LookAhead /\ ~Whole
  /\ IF Avail >= RequiredMax
     THEN Unexpected
     ELSE /\ src' = Begin + Avail
          /\ dec' = [dec EXCEPT !.tempBufSize = Avail]
          /\ Return("ok", "needs_more_input")
  /\ UNCHANGED <<stream, sym, out>>

(* LZMA_FINISH_END, and the next symbol is no match: not the end. *)
NotTheEnd ==
  /\ call.pc = "try" /\ LookAhead /\ Whole
  /\ CheckEndMarkNow /\ ~MayBeMark
  /\ IF NextSymbol.bytes < dec.tempBufSize
     THEN Unexpected
     ELSE /\ src' = Begin + NextSymbol.bytes
          /\ dec' = [dec EXCEPT !.tempBufSize = NextSymbol.bytes]
          /\ Return("data", "not_finished")
  /\ UNCHANGED <<stream, sym, out>>

(* bufLimit is where the loop of LZMA_DECODE_REAL may begin no more symbol; *)
(* behind a look ahead, or in tempBuf, it decodes one.                      *)
StartReal ==
  /\ call.pc = "try"
  /\ (LookAhead => Whole) /\ (CheckEndMarkNow => MayBeMark)
  /\ IF LookAhead /\ NextSymbol.bytes < dec.tempBufSize
     THEN Unexpected
     ELSE /\ call' = [call EXCEPT !.pc = "real",
                        !.bufLimit = IF LookAhead \/ dec.tempBufSize > 0 THEN Begin
                                     ELSE call.end - RequiredMax]
          /\ UNCHANGED <<src, dec>>
  /\ UNCHANGED <<stream, sym, out>>

-----------------------------------------------------------------------------
(* One symbol in the dictionary *)
Decode(d, y, limit) ==
  LET e == [d EXCEPT !.reps = Reps(d.reps, y)]
      n == Lesser(limit - d.dicPos, y.len)
      near == y.dist <= (IF d.checkDicSize = 0 THEN d.processedPos
                                               ELSE d.checkDicSize)
  IN CASE y.kind = "lit" ->
            [d EXCEPT !.dic[d.dicPos] = y.byte, !.dicPos = @ + 1,
                      !.processedPos = @ + 1]
       [] y.kind = "end" -> [d EXCEPT !.remainLen = kMatchSpecLenStart]
       [] y.kind = "match" /\ ~near ->
            [e EXCEPT !.remainLen = kMatchSpecLen_Error_Data]
       [] OTHER -> [CopyMatch(e, n) EXCEPT !.remainLen = y.len - n]

(* LzmaDec_DecodeReal2: the decoder stops where the dictionary gets full *)
(* for the first time, to set checkDicSize.                              *)
RealLimit == IF dec.checkDicSize = 0
             THEN Lesser(call.limit, dec.dicPos + DicSize - dec.processedPos)
             ELSE call.limit
Checked(d) == IF d.checkDicSize = 0 /\ d.processedPos >= DicSize
              THEN [d EXCEPT !.checkDicSize = DicSize] ELSE d

(***************************************************************************)
(* One iteration of LZMA_DECODE_REAL.  late is 1 if the last byte of the   *)
(* symbol is only read by the normalization of the next one or by the one  *)
(* behind the loop.  With the loop ends LzmaDec_DecodeToDic's iteration:   *)
(* it counts the bytes and empties tempBuf.                                *)
(***************************************************************************)
Symbol ==
  /\ call.pc = "real"
  /\ \E late \in {0, 1} :
       LET d == Decode(dec, NextSymbol, RealLimit)
           buf == Begin + NextSymbol.bytes
           more == /\ d.remainLen = 0 /\ d.dicPos < RealLimit
                   /\ buf - late < call.bufLimit
           lost == IF dec.tempBufSize = 0 THEN buf > call.end
                   ELSE NextSymbol.bytes < dec.tempBufSize \/ NextSymbol.bytes > RequiredMax
       IN /\ late <= NextSymbol.bytes
          /\ IF lost /\ ~more THEN Unexpected
             ELSE /\ src' = buf
                  /\ dec' = [IF more THEN d ELSE Checked(d) EXCEPT !.tempBufSize = 0]
                  /\ IF d.remainLen = kMatchSpecLen_Error_Data
                     THEN Return("data", "not_specified")
                     ELSE call' = [call EXCEPT !.pc = IF more THEN "real" ELSE "loop"]
  /\ sym' = sym + 1
  /\ UNCHANGED <<stream, out>>

(* Slip: DecodeToBuf goes on as long as it wants more. *)
DeliverOn ==
  /\ call.pc = "return"
  /\ out' = out \o [i \in 1 .. dec.dicPos - call.from |-> dec.dic[call.from + i - 1]]
  /\ LET left == call.size - (dec.dicPos - call.from)
         pos  == WrapRing(dec.dicPos)
     IN IF call.kind = "buf" /\ call.res = "ok" /\ left > 0
        THEN call' = RoundOf(call, pos, left) /\ dec' = [dec EXCEPT !.dicPos = pos]
        ELSE call' = [Idle EXCEPT !.kind = call.kind] /\ UNCHANGED dec
  /\ UNCHANGED <<stream, src, sym>>

(* The caller takes what was written; LzmaDec_DecodeToBuf goes on while    *)
(* there was something and it wants more.                                  *)
Deliver ==
  /\ call.pc = "return"
  /\ out' = out \o [i \in 1 .. dec.dicPos - call.from |-> dec.dic[call.from + i - 1]]
  /\ LET made == dec.dicPos - call.from
         left == call.size - made
         pos  == WrapRing(dec.dicPos)
     IN IF call.kind = "buf" /\ call.res = "ok" /\ made > 0 /\ left > 0
        THEN /\ call' = RoundOf(call, pos, left)
             /\ dec' = [dec EXCEPT !.dicPos = pos]
        ELSE /\ call' = [Idle EXCEPT !.kind = call.kind]
             /\ UNCHANGED dec
  /\ UNCHANGED <<stream, src, sym>>

Run == \/ StartRefused \/ CollectInit \/ StartRunning \/ AtMark \/ LoopHead
       \/ NeedMoreInput \/ NotTheEnd \/ StartReal \/ Symbol \/ Deliver
Call == \E n \in 0 .. stream.size, mode \in {"any", "end"} :
          \/ \E limit \in 0 .. DicBufSize : DecodeToDic(limit, n, mode)
          \/ \E size \in 0 .. DicBufSize + 1 : DecodeToBuf(size, n, mode)
Next == Run \/ Call

Spec == Init /\ [][Next]_vars
FairSpec == Spec /\ WF_vars(Run)

-----------------------------------------------------------------------------
Taken == /\ dec.tempBufSize \in 0 .. (IF InitSize > RequiredMax THEN InitSize
                                                              ELSE RequiredMax)
         /\ src \in dec.tempBufSize .. stream.size
         /\ sym \in 0 .. Len(stream.syms)

(* Types: in particular the decoder writes no byte beyond the limit it was *)
(* given.                                                                  *)
TypeOK ==
  /\ Taken
  /\ dec.remainLen \in 0 .. kMatchSpecLen_Error_Data
  /\ dec.dicPos \in 0 .. DicBufSize
  /\ call.pc /= "idle" => dec.dicPos \in call.from .. call.limit
  /\ dec.processedPos \in Nat /\ dec.checkDicSize \in {0, DicSize}
  /\ call.pc \in {"idle", "start", "loop", "try", "real", "return"}

Pending == IF call.pc = "idle" THEN <<>>
           ELSE [i \in 1 .. dec.dicPos - call.from |-> dec.dic[call.from + i - 1]]
Running == dec.remainLen <= kMatchSpecLenStart
Owed == IF dec.remainLen < kMatchSpecLenStart THEN dec.remainLen ELSE 0
Text == Told(stream)[sym].text

(* However input and room are cut into pieces: what the decoder has written *)
(* is the text of the symbols it has decoded, without what a match still    *)
(* owes (LzmaDec_DecodeToDic, LzmaDec_WriteRem, LzmaDec_DecodeToBuf).       *)
OutputExact == out \o Pending = SubSeq(Text, 1, Len(Text) - Owed)

(* The bytes taken from the caller are those of the decoded symbols and, in *)
(* tempBuf, those of one more symbol that is not decoded yet: no byte is    *)
(* taken twice, skipped or taken too early (tempBuf, TryDummy, srcLen).     *)
InputAccounted ==
  IF Running THEN /\ Begin = Place(stream)[sym]
                  /\ dec.tempBufSize <= NextSymbol.bytes
                  /\ src <= call.end \/ call.pc = "idle"
  ELSE sym = 0 => Begin = 0 /\ dec.tempBufSize <= InitSize

(* What the comment over LzmaDec_DecodeReal2 says of checkDicSize: it tells *)
(* whether the dictionary has been full, exactly, at every match distance.  *)
DictionaryChecked ==
  LET total == Len(out) + Len(Pending)
  IN call.pc /= "real" =>
       IF total < DicSize THEN dec.processedPos = total /\ dec.checkDicSize = 0
                          ELSE dec.checkDicSize = DicSize

(* What the decoder carries from call to call fits what it has decoded. *)
StateExact == InputAccounted /\ DictionaryChecked

BadStream == \/ ~stream.head
             \/ sym = 0 /\ NextSymbol.kind = "rep"
             \/ ~Told(stream)[sym].good
             \/ /\ sym > 0 /\ stream.syms[sym].kind = "end"
                /\ ~CodeIsZero
(* The verdict depends on the stream and on what the caller asked for, not *)
(* on the pieces: a data error is an error of the stream, or more text     *)
(* than LZMA_FINISH_END allows; more input is asked for only when all is   *)
(* taken and no symbol is whole; SZ_ERROR_FAIL is never returned.          *)
VerdictExact ==
  call.pc = "return" =>
    CASE call.status = "finished_with_mark" ->
           sym > 0 /\ stream.syms[sym].kind = "end" /\ CodeIsZero
      [] call.status = "needs_more_input" ->
           /\ src = call.end /\ dec.remainLen \notin 1 .. kMatchSpecLenStart
           /\ dec.tempBufSize < IF Running THEN NextSymbol.bytes ELSE InitSize
      [] call.status = "maybe_finished_without_mark" ->
           /\ dec.dicPos = call.limit /\ dec.remainLen = 0 /\ CodeIsZero
           /\ call.res = "ok"
      [] call.status = "not_finished" ->
           /\ dec.dicPos = call.limit
           /\ call.res = IF call.curMode = "any" THEN "ok" ELSE "data"
           /\ call.res = "data" => /\ ~(dec.remainLen = 0 /\ CodeIsZero)
                                   /\ dec.remainLen > 0 \/ NextSymbol.kind /= "end"
      [] OTHER -> call.res = "data" /\ BadStream

(* Every call returns: each round of the loop decodes a symbol, fills the *)
(* room or leaves.                                                        *)
CallReturns == (call.pc /= "idle") ~> (call.pc = "idle")
=============================================================================
