---------------------------- MODULE Bcj2Decoder -----------------------------
(* Bcj2Dec_Decode (Bcj2.c) as SzFolder_Decode2 (7zDec.c) uses it: one call  *)
(* that merges four streams into the output buffer, of which the main       *)
(* stream lies in the end of that very buffer.                              *)
EXTENDS Integers, Sequences

CONSTANTS Word,            \* the words of the call and jump streams
          Absolute(_, _),  \* word - ip, as bytes
          Mains, Calls,    \* what the streams of a folder may be
          RcSizes,         \* sizes of the range coder's stream
          MaxSize          \* the largest size of a buffer

MainByte == {"e8", "e9", "0f", "8x", "xx"}

ASSUME DecoderAssumption ==
  /\ Mains \subseteq Seq(MainByte)
  /\ Calls \subseteq Seq(Word)
  /\ RcSizes \subseteq Nat
  /\ MaxSize \in Nat
  /\ \A w \in Word, p \in 0 .. MaxSize : Absolute(w, p) \in [1 .. 4 -> MainByte]

VARIABLES out,             \* the output buffer
          outSize,
          src,             \* bufs[BCJ2_STREAM_MAIN], up to outSize
          calls, jumps,    \* bufs and lims of the call and jump streams
          rc,              \* bytes left in the range coder's stream
          destPos,            \* up to outSize
          ip,
          prev,            \* the byte written last (v)
          state,
          pc,              \* where Bcj2Dec_Decode is
          sres

bufVars == <<out, src, destPos, ip, prev>>
bcj2Vars == <<out, outSize, src, calls, jumps, rc, destPos, ip, prev, state, pc, sres>>

States == {"RC", "MAIN", "CALL", "JUMP", "ORIG", "ORIG_n", "ERROR"}

Bcj2TypeOK ==
  /\ outSize \in 0 .. MaxSize
  /\ out \in [0 .. outSize - 1 -> MainByte]
  /\ src \in 0 .. outSize /\ destPos \in 0 .. outSize
  /\ calls \in Seq(Word) /\ jumps \in Seq(Word)
  /\ rc \in Nat /\ ip \in Nat
  /\ prev \in MainByte
  /\ state \in States
  /\ pc \in {"start", "head", "copy", "word", "returned", "done"}
  /\ sres \in {"none", "SZ_OK", "SZ_ERROR_DATA"}

(* The test in SzFolder_Decode2: the streams are as long as the output.     *)
SizesFit(m, c, j, n) == n = Len(m) + 4 * Len(c) + 4 * Len(j)

(* The main stream has been decoded into the end of the output buffer.      *)
Bcj2Init ==
  \E m \in Mains, fill \in MainByte :
    /\ calls \in Calls /\ jumps \in Calls /\ rc \in RcSizes
    /\ outSize \in 0 .. MaxSize /\ SizesFit(m, calls, jumps, outSize)
    /\ src = outSize - Len(m)
    /\ out = [k \in 0 .. outSize - 1 |-> IF k < src THEN fill ELSE m[k - src + 1]]
    /\ destPos = 0 /\ ip = 0 /\ prev = "xx" /\ state = "RC"
    /\ pc = "start" /\ sres = "none"

Return(s) == pc' = "returned" /\ state' = s

-----------------------------------------------------------------------------
(* The first five bytes of the range coder's stream.                        *)
Start ==
  /\ pc = "start"
  /\ \/ rc < 5 /\ rc' = 0 /\ Return("RC") /\ UNCHANGED sres
     \/ rc >= 5 /\ rc' = rc - 5 /\ pc' = "head" /\ UNCHANGED <<state, sres>>
     \/ /\ rc' \in {rc - 1, rc - 5} \cap Nat
        /\ pc' = "done" /\ state' = "ERROR" /\ sres' = "SZ_ERROR_DATA"
  /\ UNCHANGED <<bufVars, outSize, calls, jumps>>

(* A round of the main loop: the range is kept above kTopValue.             *)
Normalize ==
  /\ pc = "head"
  /\ \/ pc' = "copy" /\ UNCHANGED <<rc, state>>
     \/ rc > 0 /\ rc' = rc - 1 /\ pc' = "copy" /\ UNCHANGED state
     \/ rc = 0 /\ Return("RC") /\ UNCHANGED rc
  /\ UNCHANGED <<bufVars, outSize, calls, jumps, sres>>

IsMarker(p, b) == b \in {"e8", "e9"} \/ (p = "0f" /\ b = "8x")

(* The copying loop ends at the end of the main stream or of the output,    *)
(* or behind a marker; the range coder then says what becomes of that.      *)
CopyStops ==
  /\ pc = "copy"
  /\ src = outSize \/ destPos = outSize
  /\ Return(IF src = outSize THEN "MAIN" ELSE "ORIG")
  /\ UNCHANGED <<bufVars, outSize, calls, jumps, rc, sres>>

Moved(o, s, d) == [o EXCEPT ![d] = o[s]]

Copy ==
  /\ pc = "copy"
  /\ src # outSize /\ destPos # outSize
  /\ out' = Moved(out, src, destPos)
  /\ src' = src + 1 /\ destPos' = destPos + 1 /\ ip' = ip + 1 /\ prev' = out[src]
  /\ pc' \in IF IsMarker(prev, out[src]) THEN {"head", "word"} ELSE {"copy"}
  /\ UNCHANGED <<outSize, calls, jumps, rc, state, sres>>

-----------------------------------------------------------------------------
Smaller(m, n) == IF m < n THEN m ELSE n

(* The word w is taken: its address goes to the output, as much of it as    *)
(* there is room for.                                                       *)
Overwrite(o, d, n, v) ==
  [k \in DOMAIN o |-> IF k \in d .. d + n - 1 THEN v[k - d + 1] ELSE o[k]]

PutWord(w) ==
  LET room == Smaller(4, outSize - destPos)
      v    == Absolute(w, ip + 4) IN
  /\ out' = Overwrite(out, destPos, room, v)
  /\ destPos' = destPos + room /\ ip' = ip + 4 /\ prev' = v[4]
  /\ IF room < 4 THEN Return("ORIG_n") /\ rc' \in {rc, rc - 1} \cap Nat
                 ELSE pc' = "head" /\ UNCHANGED <<state, rc>>
  /\ UNCHANGED <<outSize, src, sres>>

(* The stream of the word has ended.                                        *)
NoWord(s) ==
  /\ Return(s) /\ rc' \in {rc, rc - 1} \cap Nat
  /\ UNCHANGED <<bufVars, outSize, calls, jumps, sres>>

ConvertCall ==
  /\ pc = "word" /\ prev = "e8"
  /\ IF calls = << >> THEN NoWord("CALL")
     ELSE PutWord(Head(calls)) /\ calls' = Tail(calls) /\ UNCHANGED jumps

(* Slip: the word of the jump stream is used, its pointer stays.            *)
ConvertJumpStays ==
  /\ pc = "word" /\ prev # "e8"
  /\ IF jumps = << >> THEN NoWord("JUMP")
     ELSE PutWord(Head(jumps)) /\ UNCHANGED <<calls, jumps>>

ConvertJump ==
  /\ pc = "word" /\ prev # "e8"
  /\ IF jumps = << >> THEN NoWord("JUMP")
     ELSE PutWord(Head(jumps)) /\ jumps' = Tail(jumps) /\ UNCHANGED calls

-----------------------------------------------------------------------------
(* Bcj2Dec_IsMaybeFinished: code = 0 is the range coder's business.         *)
MaybeFinished == state = "MAIN"

(* Slip: the caller only looks at the sizes.                                *)
AcceptedBySize == rc = 0 /\ src = outSize /\ calls = << >> /\ jumps = << >> /\ destPos = outSize

(* What SzFolder_Decode2 asks for after the call.                           *)
Accepted ==
  /\ src = outSize /\ calls = << >> /\ jumps = << >> /\ rc = 0
  /\ destPos = outSize /\ MaybeFinished

Check ==
  /\ pc = "returned"
  /\ pc' = "done"
  /\ \/ sres' = "SZ_ERROR_DATA"
     \/ Accepted /\ sres' = "SZ_OK"
  /\ UNCHANGED <<bufVars, outSize, calls, jumps, rc, state>>

Bcj2Next == Start \/ Normalize \/ CopyStops \/ Copy \/ ConvertCall \/ ConvertJump \/ Check

Bcj2Spec == Bcj2Init /\ [][Bcj2Next]_bcj2Vars

-----------------------------------------------------------------------------
(* The writer never runs over what the reader has not read: the bytes in    *)
(* between are those the words still bring (Bcj2.h, conditions for dest to  *)
(* overlap).  So every word fits, and the output is full only when the main *)
(* stream is used up.                                                       *)
WriterBehindReader == src - destPos = 4 * Len(calls) + 4 * Len(jumps)
NeverCutShort == state \notin {"ORIG", "ORIG_n"}

(* Decoding in place is the merge of four streams that lie apart, and it is *)
(* only accepted at the end of all of them.                                 *)
Unread(o, s, n) == [k \in 1 .. n - s |-> o[s + k - 1]]
Written(o, d)   == [k \in 1 .. d |-> o[k - 1]]

Merge == INSTANCE Bcj2Merge WITH
  todo    <- Unread(out, src, outSize),
  merged  <- Written(out, destPos),
  due     <- IF pc = "word" \/ state \in {"CALL", "JUMP"}
             THEN IF prev = "e8" THEN "call" ELSE "jump" ELSE "none",
  verdict <- sres
ImplementsMerge == Merge!MergeSpec
=============================================================================
