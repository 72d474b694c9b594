----------------------------- MODULE LookStream -----------------------------
(* CLookToRead2 (7zStream.c) over a file (7zFile.c): the stream the archive *)
(* is read through.  It has a buffer and two positions, its own in the      *)
(* buffer and the one of the file, which runs ahead.  The stream is used by *)
(* one thread at a time, under the critical section of the archive handle.  *)
EXTENDS Integers, Sequences

CONSTANTS File,      \* the bytes of the file
          Byte,      \* what a byte may be
          bufSize,   \* bytes in the buffer
          MaxAsk     \* bound: sizes and positions clients ask for

ASSUME StreamAssumption ==
  /\ File \in Seq(Byte)
  /\ bufSize \in Nat \ {0}
  /\ MaxAsk \in Nat

VARIABLES fpos,      \* position of the file handle
          buf,       \* the buffer
          pos, size, \* the bytes of buf that are read ahead
          asked,     \* what the last call asked for
          shown,     \* bytes the last Look returned and that may be skipped
          given,     \* the bytes the last call handed out
          res,       \* its SRes
          want,      \* LookInStream_Read2: bytes still to read
          from,      \* ... the position it started from
          dest       \* ... what it has put into the destination

lookVars   == <<fpos, buf, pos, size>>
answerVars == <<asked, shown, given, res>>
readVars   == <<want, from, dest>>
vars == <<lookVars, answerVars, readVars>>

Cells == 0 .. bufSize - 1
Codes == {"SZ_OK", "SZ_ERROR_READ"}
Least(m, n) == IF m < n THEN m ELSE n

TypeOK ==
  /\ fpos \in Nat
  /\ buf \in [Cells -> Byte]
  /\ size \in 0 .. bufSize /\ pos \in 0 .. size
  /\ asked \in Nat
  /\ shown \in 0 .. size - pos
  /\ given \in Seq(Byte)
  /\ res \in Codes
  /\ want \in Nat /\ from \in Nat
  /\ dest \in Seq(Byte)

Init ==
  /\ fpos = 0
  /\ buf \in [Cells -> Byte]
  /\ pos = 0 /\ size = 0
  /\ asked = 0 /\ shown = 0 /\ given = << >> /\ res = "SZ_OK"
  /\ want = 0 /\ from = 0 /\ dest = << >>

-----------------------------------------------------------------------------
Rest(p) == IF p < Len(File) THEN Len(File) - p ELSE 0

(* File_Read: n bytes of the file handle are read, k arrive.  Fewer than    *)
(* all there are only arrive with an error.                                 *)
FileRead(n, k) ==
  /\ k \in 0 .. Least(n, Rest(fpos))
  /\ fpos' = fpos + k
  /\ res' \in Codes
  /\ res' = "SZ_OK" => k = Least(n, Rest(fpos))

(* The buffer filled from its start with k bytes of the file.               *)
Filled(k) == [j \in Cells |-> IF j < k THEN File[fpos + j + 1] ELSE buf[j]]

Ahead == size - pos

(* The n bytes of a buffer b from position p on.                            *)
Buffered(b, p, n) == [j \in 1 .. n |-> b[p + j - 1]]

(* LookToRead2_Look_Exact(n): an empty buffer is filled with what is asked  *)
(* for, not more.                                                           *)
Look(n) ==
  /\ want = 0
  /\ IF Ahead = 0 /\ n # 0
     THEN \E k \in 0 .. bufSize :
            /\ FileRead(Least(n, bufSize), k)
            /\ buf' = Filled(k)
            /\ pos' = 0 /\ size' = k
     ELSE UNCHANGED lookVars /\ res' = "SZ_OK"
  /\ asked' = n
  /\ shown' = Least(n, size' - pos')
  /\ given' = Buffered(buf', pos', shown')
  /\ UNCHANGED readVars

(* LookToRead2_Skip, by no more than the last Look has shown.               *)
Skip(n) ==
  /\ want = 0
  /\ n <= shown
  /\ pos' = pos + n
  /\ shown' = shown - n
  /\ asked' = n /\ given' = << >> /\ res' = "SZ_OK"
  /\ UNCHANGED <<fpos, buf, size, readVars>>

(* Slip: the file handle is moved, the buffer is kept.                      *)
SeekKeepsBuffer(p) ==
  /\ want = 0
  /\ asked' = p /\ shown' = 0 /\ given' = << >>
  /\ res' \in Codes
  /\ fpos' = IF res' = "SZ_OK" THEN p ELSE fpos
  /\ UNCHANGED <<buf, pos, size, readVars>>

(* LookToRead2_Seek to the position p.  A File_Seek that fails leaves the   *)
(* handle where it is, but what was read ahead is gone.  SZ_SEEK_CUR counts *)
(* from the position of the handle, which is ahead of the stream's: it is   *)
(* only called on a stream nobody has read from yet (SzArEx_Open2).         *)
Seek(p) ==
  /\ want = 0
  /\ pos' = 0 /\ size' = 0
  /\ asked' = p /\ shown' = 0 /\ given' = << >>
  /\ res' \in Codes
  /\ fpos' = IF res' = "SZ_OK" THEN p ELSE fpos
  /\ UNCHANGED <<buf, readVars>>

-----------------------------------------------------------------------------
(* LookInStream_Read2 of n bytes at the position of the stream.             *)
StartRead(n) ==
  /\ want = 0
  /\ want' = n /\ from' = fpos - Ahead /\ dest' = << >>
  /\ UNCHANGED <<lookVars, answerVars>>

(* LookToRead2_Read of what is still wanted: from the buffer while it has   *)
(* bytes, then from the file directly.                                      *)
ReadAhead ==
  /\ Ahead # 0
  /\ pos' = pos + Least(want, Ahead)
  /\ given' = Buffered(buf, pos, Least(want, Ahead))
  /\ res' = "SZ_OK"
  /\ UNCHANGED <<fpos, buf, size>>

(* Slip: the file is read although the buffer is not empty.                 *)
ReadDirectFirst ==
  /\ \E k \in 0 .. want :
       /\ FileRead(want, k)
       /\ given' = SubSeq(File, fpos + 1, fpos + k)
  /\ UNCHANGED <<buf, pos, size>>

ReadDirect ==
  /\ Ahead = 0
  /\ \E k \in 0 .. want :
       /\ FileRead(want, k)
       /\ given' = SubSeq(File, fpos + 1, fpos + k)
  /\ UNCHANGED <<buf, pos, size>>

(* One round of the loop: an error or the end of the file ends it.          *)
ReadMore ==
  /\ want # 0
  /\ ReadAhead \/ ReadDirect
  /\ asked' = want /\ shown' = 0
  /\ dest' = dest \o given'
  /\ want' = IF res' = "SZ_OK" /\ given' # << >> THEN want - Len(given') ELSE 0
  /\ UNCHANGED from

Next ==
  \/ ReadMore
  \/ \E n \in 0 .. MaxAsk : Look(n) \/ Skip(n) \/ Seek(n) \/ StartRead(n)

Spec == Init /\ [][Next]_vars

-----------------------------------------------------------------------------
(* The buffer, the position in it and the position of the file handle are   *)
(* one stream of bytes to its clients: whatever they call in whatever order *)
(* and whatever fails, they get the bytes at their position, and an end of  *)
(* the file only where it is.                                               *)
Stream == INSTANCE ByteStream WITH at <- fpos - Ahead
ImplementsByteStream == Stream!StreamSpec

(* LookInStream_Read2 fills its destination with consecutive bytes of the   *)
(* file from where the stream stood, also when it drains the buffer first.  *)
ReadContiguous == dest = SubSeq(File, from + 1, from + Len(dest))
=============================================================================
