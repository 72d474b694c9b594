----------------------------- MODULE Bcj2Merge ------------------------------
(* What BCJ2 decoding promises (Bcj2.h): the bytes of the main stream in    *)
(* order, and after a marker that is to be converted the next word of the   *)
(* call or the jump stream as an absolute address.  The streams and the     *)
(* output are apart; nothing here knows of buffers.                         *)
EXTENDS Integers, Sequences

CONSTANTS Word,            \* the words of the call and jump streams
          Absolute(_, _)   \* the four bytes of a word that ends at a position

VARIABLES todo,            \* what is left of the main stream
          calls, jumps,    \* what is left of the call and jump streams
          merged,          \* the output
          due,             \* the stream a converted marker waits for, or "none"
          verdict          \* what SzFolder_Decode2 makes of it

mergeVars == <<todo, calls, jumps, merged, due, verdict>>

(* A marker is e8, e9, or 8x behind 0f; e8 belongs to the call stream.      *)
Before == IF merged = << >> THEN "xx" ELSE merged[Len(merged)]
IsMarker(p, b) == b \in {"e8", "e9"} \/ (p = "0f" /\ b = "8x")
StreamOf(b) == IF b = "e8" THEN "call" ELSE "jump"

MergeInit == merged = << >> /\ due = "none" /\ verdict = "none"

CopyByte ==
  /\ due = "none" /\ verdict = "none" /\ todo # << >>
  /\ merged' = Append(merged, Head(todo))
  /\ todo' = Tail(todo)
  /\ due' \in IF IsMarker(Before, Head(todo)) THEN {"none", StreamOf(Head(todo))} ELSE {"none"}
  /\ UNCHANGED <<calls, jumps, verdict>>

Convert ==
  /\ verdict = "none"
  /\ \/ /\ due = "call" /\ calls # << >>
        /\ merged' = merged \o Absolute(Head(calls), Len(merged) + 4)
        /\ calls' = Tail(calls) /\ UNCHANGED jumps
     \/ /\ due = "jump" /\ jumps # << >>
        /\ merged' = merged \o Absolute(Head(jumps), Len(merged) + 4)
        /\ jumps' = Tail(jumps) /\ UNCHANGED calls
  /\ due' = "none"
  /\ UNCHANGED <<todo, verdict>>

(* It may give up any time; it only succeeds with all streams used up.      *)
Finish ==
  /\ verdict = "none"
  /\ \/ verdict' = "SZ_ERROR_DATA"
     \/ /\ verdict' = "SZ_OK"
        /\ todo = << >> /\ calls = << >> /\ jumps = << >> /\ due = "none"
  /\ UNCHANGED <<todo, calls, jumps, merged, due>>

MergeNext == CopyByte \/ Convert \/ Finish

MergeSpec == MergeInit /\ [][MergeNext]_mergeVars
=============================================================================
