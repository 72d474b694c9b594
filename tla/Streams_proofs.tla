--------------------------- MODULE Streams_proofs ---------------------------
(* CLookToRead2 implements the byte stream and Bcj2Dec_Decode the merge of  *)
(* its four streams, whatever the file, the streams, the buffer and the     *)
(* calls; and what FolderDecode proves of SzAr_DecodeFolder holds where the *)
(* three of them are put side by side.                                      *)
EXTENDS MCStreams, FiniteSetTheorems, SequenceTheorems, TLAPS

-----------------------------------------------------------------------------
(* LookStream                                                               *)

At == fpos - Ahead

(* What is read ahead are the bytes in front of the file's position.        *)
AheadInv ==
  /\ Ahead <= fpos
  /\ Ahead # 0 => fpos <= Len(File)
  /\ \A j \in pos .. size - 1 : buf[j] = File[fpos - size + j + 1]

(* The loop of LookInStream_Read2.                                          *)
ReadInv ==
  /\ ReadContiguous
  /\ want # 0 => At = from + Len(dest)
  /\ dest # << >> => from + Len(dest) <= Len(File)

LookInv == TypeOK /\ AheadInv /\ ReadInv

-----------------------------------------------------------------------------
(* Two ways to write n bytes of the file from position p on.                *)
LEMMA SliceOfFile ==
  ASSUME NEW p \in Nat, NEW n \in Nat, p + n <= Len(File)
  PROVE  /\ SubSeq(File, p + 1, p + n) \in Seq(Byte)
         /\ Len(SubSeq(File, p + 1, p + n)) = n
         /\ [j \in 1 .. n |-> File[p + j]] = SubSeq(File, p + 1, p + n)
<1> DEFINE s == SubSeq(File, p + 1, p + n)
           f == [j \in 1 .. n |-> File[p + j]]
<1>1. File \in Seq(Byte) /\ Len(File) \in Nat  BY StreamAssumption, LenProperties
<1>2. \A j \in 1 .. n : File[p + j] \in Byte
  BY <1>1, ElementOfSeq
<1>3. CASE n = 0
  <2>1. s = << >>  BY <1>1, <1>3, SubSeqEmpty
  <2>2. f = << >>  BY <1>3
  <2> QED  BY <2>1, <2>2, <1>3
<1>4. CASE n # 0
  <2>1. p + 1 \in 1 .. Len(File) + 1 /\ p + n \in 0 .. Len(File)  BY <1>1, <1>4
  <2>2. /\ s \in Seq(Byte)
        /\ Len(s) = n
        /\ \A j \in 1 .. n : s[j] = File[p + j]
    <3>1. /\ SubSeq(File, p + 1, p + n) \in Seq(Byte)
          /\ Len(SubSeq(File, p + 1, p + n)) = n
          /\ \A j \in 1 .. (p + n) - (p + 1) + 1 :
               SubSeq(File, p + 1, p + n)[j] = File[(p + 1) + j - 1]
      BY <1>1, <1>4, <2>1, SubSeqProperties
    <3> QED  BY <3>1
  <2>3. f \in Seq(Byte) /\ Len(f) = n  BY <1>2
  <2>4. \A j \in 1 .. n : f[j] = s[j]  BY <2>2
  <2>5. f = s  BY <2>2, <2>3, <2>4, SeqEqual
  <2> QED  BY <2>2, <2>5
<1> QED  BY <1>3, <1>4

(* Two neighbouring slices are one.                                         *)
LEMMA SlicesJoin ==
  ASSUME NEW p \in Nat, NEW m \in Nat, NEW n \in Nat, p + m + n <= Len(File)
  PROVE  SubSeq(File, p + 1, p + m) \o SubSeq(File, p + m + 1, p + m + n)
           = SubSeq(File, p + 1, p + m + n)
<1>1. File \in Seq(Byte) /\ Len(File) \in Nat  BY StreamAssumption, LenProperties
<1>2. CASE m + n = 0
  <2>1. /\ SubSeq(File, p + 1, p + m) = << >>
        /\ SubSeq(File, p + m + 1, p + m + n) = << >>
        /\ SubSeq(File, p + 1, p + m + n) = << >>
    BY <1>1, <1>2, SubSeqEmpty
  <2> QED  BY <2>1
<1>3. CASE m + n # 0
  <2>1. /\ p + 1 \in 1 .. Len(File) + 1
        /\ p + m \in p + 1 - 1 .. p + m + n
        /\ p + m + n \in 0 .. Len(File)
    BY <1>1
  <2> QED  BY <1>1, <1>3, <2>1, ConcatAdjacentSubSeq
<1> QED  BY <1>2, <1>3

LEMMA RestType == ASSUME NEW p \in Nat  PROVE Rest(p) \in Nat
BY StreamAssumption, LenProperties DEF Rest

(* What a File_Read delivers is what stands in the file there.              *)
LEMMA FileReadFacts ==
  ASSUME TypeOK, NEW n \in Nat, NEW k, FileRead(n, k)
  PROVE  /\ k \in Nat /\ k <= n /\ k <= Rest(fpos)
         /\ k # 0 => fpos + k <= Len(File)
         /\ fpos' = fpos + k /\ fpos' \in Nat
         /\ res' \in Codes
         /\ res' = "SZ_OK" /\ k = 0 => n = 0 \/ Rest(fpos) = 0
<1>1. Len(File) \in Nat  BY StreamAssumption, LenProperties
<1>2. Rest(fpos) \in Nat  BY RestType DEF TypeOK
<1> QED  BY <1>1, <1>2 DEF FileRead, Least, TypeOK, Rest

-----------------------------------------------------------------------------
(* The mapping: ByteStream's Rest and Bytes are the ones used here.         *)
LEMMA SameRest == \A p \in Nat : Stream!Rest(p) = Rest(p)
BY DEF Stream!Rest, Rest

LEMMA LookInit == Init => LookInv /\ Stream!StreamInit
<1> SUFFICES ASSUME Init PROVE LookInv /\ Stream!StreamInit  OBVIOUS
<1>1. << >> \in Seq(Byte) /\ Len(<< >>) = 0  BY EmptySeq
<1>2. SubSeq(File, 0 + 1, 0 + Len(<< >>)) = << >>  BY <1>1, SubSeqEmpty
<1>3. TypeOK  BY <1>1, StreamAssumption DEF Init, TypeOK, Codes
<1>4. AheadInv  BY DEF Init, AheadInv, Ahead
<1>5. ReadInv  BY <1>2 DEF Init, ReadInv, ReadContiguous
<1>6. Stream!StreamInit  BY DEF Init, Stream!StreamInit, Ahead
<1> QED  BY <1>3, <1>4, <1>5, <1>6 DEF LookInv

(* Look: the buffer is filled or not, the position of the stream is kept.   *)
LEMMA LookFills ==
  ASSUME LookInv, NEW n \in 0 .. MaxAsk, Look(n)
  PROVE  /\ fpos' \in Nat /\ size' \in 0 .. bufSize /\ pos' \in 0 .. size'
         /\ buf' \in [Cells -> Byte]
         /\ res' \in Codes
         /\ AheadInv'
         /\ At' = At
         /\ res' = "SZ_OK" /\ size' = pos' => n = 0 \/ Rest(At) = 0
<1>1. n \in Nat /\ bufSize \in Nat \ {0} /\ Len(File) \in Nat /\ fpos \in Nat
      /\ size \in 0 .. bufSize /\ pos \in 0 .. size
  BY StreamAssumption, LenProperties DEF LookInv, TypeOK
<1>2. CASE ~(Ahead = 0 /\ n # 0)
  <2>1. /\ fpos' = fpos /\ buf' = buf /\ pos' = pos /\ size' = size
        /\ res' = "SZ_OK"
    BY <1>2 DEF Look, lookVars
  <2>2. AheadInv' /\ At' = At  BY <2>1 DEF LookInv, AheadInv, At, Ahead
  <2>3. size' = pos' => n = 0  BY <1>1, <1>2, <2>1 DEF Ahead
  <2> QED  BY <1>1, <2>1, <2>2, <2>3 DEF LookInv, TypeOK, Codes
<1>3. CASE Ahead = 0 /\ n # 0
  <2>1. PICK k \in 0 .. bufSize :
           /\ FileRead(Least(n, bufSize), k)
           /\ buf' = Filled(k)
           /\ pos' = 0 /\ size' = k
    BY <1>3 DEF Look
  <2>2. Least(n, bufSize) \in Nat \ {0}  BY <1>1, <1>3 DEF Least
  <2>3. /\ k <= Rest(fpos)
        /\ k # 0 => fpos + k <= Len(File)
        /\ fpos' = fpos + k /\ fpos' \in Nat
        /\ res' \in Codes
        /\ res' = "SZ_OK" /\ k = 0 => Rest(fpos) = 0
    BY <2>1, <2>2, FileReadFacts DEF LookInv
  <2>4. At = fpos  BY <1>1, <1>3 DEF At
  <2>5. At' = At  BY <1>1, <2>1, <2>3, <2>4 DEF At, Ahead
  <2>6. \A j \in Cells : j < k => File[fpos + j + 1] \in Byte
    <3>1. SUFFICES ASSUME NEW j \in Cells, j < k
                   PROVE  File[fpos + j + 1] \in Byte
      OBVIOUS
    <3>2. fpos + j + 1 \in 1 .. Len(File)  BY <1>1, <2>1, <2>3, <3>1 DEF Cells
    <3> QED  BY <3>2, StreamAssumption, ElementOfSeq
  <2>7. buf' \in [Cells -> Byte]  BY <2>1, <2>6 DEF Filled, LookInv, TypeOK
  <2>8. \A j \in 0 .. k - 1 : buf'[j] = File[fpos + j + 1]
    BY <1>1, <2>1 DEF Filled, Cells
  <2>9. AheadInv'
    <3>1. \A j \in 0 .. k - 1 : fpos' - k + j + 1 = fpos + j + 1  BY <1>1, <2>1, <2>3
    <3>2. \A j \in pos' .. size' - 1 : buf'[j] = File[fpos' - size' + j + 1]
      BY <2>1, <2>8, <3>1
    <3>3. k \in Nat /\ Ahead' = k
      <4>1. k \in Nat /\ pos' = 0 /\ size' = k  BY <1>1, <2>1
      <4> QED  BY ONLY <4>1 DEF Ahead
    <3>4. Ahead' <= fpos'  BY ONLY <1>1, <2>3, <3>3
    <3>5. Ahead' # 0 => fpos' <= Len(File)  BY ONLY <2>3, <3>3
    <3> QED  BY ONLY <3>2, <3>4, <3>5 DEF AheadInv
  <2> QED  BY <1>1, <2>1, <2>3, <2>4, <2>5, <2>7, <2>9
<1> QED  BY <1>2, <1>3

(* The positions and the buffer, and what the bytes read ahead are: those   *)
(* at the position of the stream.                                           *)
LookOK ==
  /\ fpos \in Nat /\ size \in 0 .. bufSize /\ pos \in 0 .. size
  /\ AheadInv

Shows(n) ==
  /\ n <= Rest(At)
  /\ n # 0 => At + n <= Len(File)
  /\ Buffered(buf, pos, n) = SubSeq(File, At + 1, At + n)
  /\ Buffered(buf, pos, n) \in Seq(Byte)
  /\ Len(Buffered(buf, pos, n)) = n

ShowsAll ==
  /\ At \in Nat
  /\ Ahead # 0 => Rest(At) # 0
  /\ \A n \in 0 .. Ahead : Shows(n)

LEMMA LookShows == LookOK => ShowsAll
<1> SUFFICES ASSUME LookOK PROVE ShowsAll  OBVIOUS
<1>1. /\ fpos \in Nat /\ size \in Nat /\ pos \in 0 .. size
      /\ Ahead = size - pos /\ Ahead \in Nat /\ At = fpos - Ahead
      /\ Ahead <= fpos
      /\ Ahead # 0 => fpos <= Len(File)
      /\ Len(File) \in Nat
  BY StreamAssumption, LenProperties DEF LookOK, AheadInv, Ahead, At
<1>2. At \in Nat /\ (Ahead # 0 => Rest(At) # 0)  BY <1>1 DEF Rest
<1>3. SUFFICES ASSUME NEW n \in 0 .. Ahead PROVE Shows(n)
  BY <1>2 DEF ShowsAll
<1>4. n \in Nat /\ n <= Rest(At) /\ (n # 0 => At + n <= Len(File))
  BY <1>1 DEF Rest
<1>5. CASE n = 0
  <2>1. Buffered(buf, pos, n) = << >>  BY <1>5 DEF Buffered
  <2>2. SubSeq(File, At + 1, At + n) = << >>  BY <1>2, <1>5, SubSeqEmpty
  <2>3. << >> \in Seq(Byte) /\ Len(<< >>) = 0  BY EmptySeq
  <2> QED  BY <1>4, <1>5, <2>1, <2>2, <2>3 DEF Shows
<1>6. CASE n # 0
  <2>1. \A j \in 1 .. n : buf[pos + j - 1] = File[At + j]
    <3>1. SUFFICES ASSUME NEW j \in 1 .. n
                   PROVE  buf[pos + j - 1] = File[At + j]
      OBVIOUS
    <3>2. pos + j - 1 \in pos .. size - 1 /\ fpos - size + (pos + j - 1) + 1 = At + j
      BY <1>1, <1>4
    <3> QED  BY <3>2 DEF LookOK, AheadInv
  <2>2. Buffered(buf, pos, n) = [j \in 1 .. n |-> File[At + j]]
    BY <2>1 DEF Buffered
  <2>3. /\ Buffered(buf, pos, n) = SubSeq(File, At + 1, At + n)
        /\ SubSeq(File, At + 1, At + n) \in Seq(Byte)
        /\ Len(SubSeq(File, At + 1, At + n)) = n
    BY <1>2, <1>4, <1>6, <2>2, SliceOfFile
  <2> QED  BY <1>4, <2>3 DEF Shows
<1> QED  BY <1>5, <1>6

(* Arithmetic: the smaller of two sizes, the room between two positions.    *)
LEMMA LeastFacts ==
  ASSUME NEW m \in Nat, NEW n \in Nat
  PROVE  /\ Least(m, n) \in 0 .. n /\ Least(m, n) <= m
         /\ Least(m, n) = 0 => m = 0 \/ n = 0
BY DEF Least

LEMMA RoomFacts ==
  ASSUME NEW a \in Nat, NEW b \in 0 .. a
  PROVE  b \in Nat /\ a - b \in Nat /\ (a - b = 0 => a = b)
OBVIOUS

LEMMA MinusNothing == \A f \in Nat, a \in {0} : f - a = f
OBVIOUS

LEMMA LookStep ==
  ASSUME LookInv, NEW n \in 0 .. MaxAsk, Look(n)
  PROVE  LookInv' /\ Stream!Look
<1>1. /\ fpos' \in Nat /\ size' \in 0 .. bufSize /\ pos' \in 0 .. size'
      /\ buf' \in [Cells -> Byte]
      /\ res' \in Codes
  BY LookFills, Zenon
<1>8. /\ AheadInv'
      /\ At' = At
      /\ res' = "SZ_OK" /\ size' = pos' => n = 0 \/ Rest(At) = 0
  BY LookFills, Zenon
<1>2. bufSize \in Nat /\ n \in Nat  BY StreamAssumption
<1>9. size' \in Nat /\ pos' \in Nat /\ pos' <= size' /\ size' <= bufSize
  BY <1>1, <1>2
<1>3. /\ shown' \in 0 .. size' - pos' /\ shown' <= n
      /\ shown' = 0 => n = 0 \/ size' = pos'
  <2>1. size' - pos' \in Nat /\ (size' - pos' = 0 => size' = pos')
    BY <1>1, <1>9, RoomFacts
  <2>2. shown' = Least(n, size' - pos')  BY DEF Look
  <2> QED  BY <1>2, <2>1, <2>2, LeastFacts
<1>4. /\ At \in Nat
      /\ shown' <= Rest(At)
      /\ given' = SubSeq(File, At + 1, At + shown')
      /\ given' \in Seq(Byte)
  <2>1. ShowsAll'
    <3>1. LookOK'  BY <1>1, <1>8 DEF LookOK
    <3> QED  BY <3>1, LookShows, PTL
  <2>2. given' = Buffered(buf', pos', shown')  BY DEF Look
  <2>3. shown' \in 0 .. Ahead'  BY <1>3 DEF Ahead
  <2>4. At' \in Nat /\ Shows(shown)'  BY <2>1, <2>3 DEF ShowsAll, Shows
  <2> QED  BY <1>8, <2>2, <2>4 DEF Shows
<1>5. TypeOK'
  BY <1>1, <1>2, <1>3, <1>4, <1>9 DEF Look, TypeOK, readVars, LookInv
<1>6. ReadInv'
  BY <1>8 DEF Look, readVars, LookInv, ReadInv, ReadContiguous
<1>7. Stream!Look
  <2>1. Rest(At) \in Nat  BY <1>4, RestType
  <2>2. Stream!Rest(At) = Rest(At)  BY <1>4, SameRest
  <2>3. shown' \in 0 .. Stream!Rest(At)  BY <1>3, <1>4, <1>9, <2>1, <2>2
  <2>4. Stream!Hand(shown')
    BY <1>1, <1>2, <1>3, <1>4, <1>8, <1>9, <2>2 DEF Stream!Hand, Stream!Bytes, Look, Codes, At
  <2> QED  BY <1>8, <2>3, <2>4 DEF Stream!Look, At
<1> QED  BY <1>8, <1>5, <1>6, <1>7 DEF LookInv

LEMMA SkipStep ==
  ASSUME LookInv, NEW n \in 0 .. MaxAsk, Skip(n)
  PROVE  LookInv' /\ Stream!Skip
<1>1. /\ n \in Nat /\ bufSize \in Nat /\ Len(File) \in Nat
      /\ fpos \in Nat /\ size \in 0 .. bufSize /\ pos \in 0 .. size
      /\ shown \in 0 .. size - pos
  BY StreamAssumption, LenProperties DEF LookInv, TypeOK
<1>2. /\ n <= shown /\ pos' = pos + n /\ size' = size /\ fpos' = fpos /\ buf' = buf
      /\ shown' = shown - n /\ asked' = n /\ given' = << >> /\ res' = "SZ_OK"
      /\ want = 0 /\ want' = want /\ from' = from /\ dest' = dest
  BY DEF Skip, readVars
<1>3. /\ pos' \in 0 .. size' /\ shown' \in 0 .. size' - pos'
      /\ Ahead' = Ahead - n /\ Ahead \in Nat /\ n <= Ahead /\ At' = At + n
  BY <1>1, <1>2 DEF Ahead, At
<1>4. TypeOK'
  BY <1>1, <1>2, <1>3, EmptySeq DEF LookInv, TypeOK, Codes
<1>5. AheadInv'
  <2>1. \A j \in pos' .. size' - 1 : j \in pos .. size - 1  BY <1>1, <1>2
  <2>2. Ahead <= fpos /\ (Ahead # 0 => fpos <= Len(File))
    BY DEF LookInv, AheadInv
  <2>3. Ahead' <= fpos' /\ (Ahead' # 0 => fpos' <= Len(File))
    BY <1>1, <1>2, <1>3, <2>2
  <2> QED  BY <1>2, <2>1, <2>3 DEF LookInv, AheadInv
<1>6. ReadInv'  BY <1>2 DEF LookInv, ReadInv, ReadContiguous
<1>7. Stream!Skip
  <2>1. n \in 0 .. shown  BY <1>1, <1>2
  <2>2. (fpos - Ahead)' = (fpos - Ahead) + n  BY <1>3 DEF At
  <2> QED  BY <1>2, <2>1, <2>2 DEF Stream!Skip
<1> QED  BY <1>4, <1>5, <1>6, <1>7 DEF LookInv

LEMMA SeekStep ==
  ASSUME LookInv, NEW p \in 0 .. MaxAsk, Seek(p)
  PROVE  LookInv' /\ Stream!Seek
<1>1. /\ p \in Nat /\ bufSize \in Nat /\ fpos \in Nat
  BY StreamAssumption DEF LookInv, TypeOK
<1>2. /\ pos' = 0 /\ size' = 0 /\ buf' = buf /\ asked' = p /\ shown' = 0
      /\ given' = << >> /\ res' \in Codes
      /\ fpos' = IF res' = "SZ_OK" THEN p ELSE fpos
      /\ want = 0 /\ want' = want /\ from' = from /\ dest' = dest
  BY DEF Seek, readVars
<1>3. fpos' \in Nat /\ Ahead' = 0  BY <1>1, <1>2 DEF Ahead
<1>4. TypeOK'
  BY <1>1, <1>2, <1>3, EmptySeq DEF LookInv, TypeOK
<1>5. AheadInv'  BY <1>2, <1>3 DEF AheadInv
<1>6. ReadInv'  BY <1>2 DEF LookInv, ReadInv, ReadContiguous
<1>7. Stream!Seek
  <2>1. fpos' - Ahead' = fpos'  BY <1>3, MinusNothing
  <2> QED  BY <1>1, <1>2, <1>3, <2>1 DEF Stream!Seek, Codes
<1> QED  BY <1>4, <1>5, <1>6, <1>7 DEF LookInv

(* The first position of a LookInStream_Read2 is the stream's; nothing has  *)
(* been answered yet.                                                       *)
LEMMA StartReadStep ==
  ASSUME LookInv, NEW n \in 0 .. MaxAsk, StartRead(n)
  PROVE  LookInv' /\ UNCHANGED Stream!streamVars
<1>1. n \in Nat  BY StreamAssumption
<1>2. /\ want' = n /\ from' = At /\ dest' = << >>
      /\ fpos' = fpos /\ buf' = buf /\ pos' = pos /\ size' = size
      /\ asked' = asked /\ shown' = shown /\ given' = given /\ res' = res
  BY DEF StartRead, lookVars, answerVars, At
<1>3. At \in Nat /\ At' = At
  <2>1. LookOK  BY DEF LookInv, TypeOK, LookOK
  <2> QED  BY <1>2, <2>1, LookShows DEF ShowsAll, At, Ahead
<1>4. TypeOK'  BY <1>1, <1>2, <1>3, EmptySeq DEF LookInv, TypeOK
<1>5. AheadInv'  BY <1>2 DEF LookInv, AheadInv, Ahead
<1>6. ReadInv'
  <2>1. Len(<< >>) = 0 /\ SubSeq(File, At + 1, At + 0) = << >>
    BY <1>3, EmptySeq, SubSeqEmpty
  <2>2. At' = from' + 0 /\ Len(dest') = 0 /\ dest' = << >>
    BY <1>2, <1>3, <2>1
  <2>3. SubSeq(File, from' + 1, from' + 0) = << >>  BY <1>2, <2>1
  <2> QED  BY <2>2, <2>3 DEF ReadInv, ReadContiguous
<1> QED  BY <1>2, <1>4, <1>5, <1>6 DEF LookInv, Stream!streamVars, Ahead

(* A round of LookInStream_Read2: what it delivers, from the buffer or the  *)
(* file, are the next bytes, and the stream stands behind them.             *)
LEMMA RoundDelivers ==
  ASSUME LookInv, ReadMore
  PROVE  /\ fpos' \in Nat /\ pos' \in 0 .. size' /\ size' = size /\ buf' = buf
         /\ AheadInv'
         /\ res' \in Codes
         /\ given' \in Seq(Byte) /\ Len(given') \in 0 .. want
         /\ Len(given') <= Rest(At)
         /\ At \in Nat /\ At' = At + Len(given')
         /\ Len(given') # 0 => At + Len(given') <= Len(File)
         /\ given' = SubSeq(File, At + 1, At + Len(given'))
         /\ res' = "SZ_OK" /\ Len(given') = 0 => Rest(At) = 0
<1>1. /\ want \in Nat \ {0} /\ fpos \in Nat /\ bufSize \in Nat /\ Len(File) \in Nat
      /\ size \in Nat /\ pos \in 0 .. size
      /\ Ahead \in Nat /\ Ahead = size - pos
  BY StreamAssumption, LenProperties DEF LookInv, TypeOK, ReadMore, Ahead
<1>2. ShowsAll
  <2>1. LookOK  BY DEF LookInv, TypeOK, LookOK
  <2> QED  BY <2>1, LookShows
<1>3. CASE ReadAhead
  <2> DEFINE n == Least(want, Ahead)
  <2>1. n \in 0 .. Ahead /\ n <= want /\ n # 0
    BY <1>1, <1>3, LeastFacts DEF ReadAhead
  <2>2. Shows(n) /\ At \in Nat  BY <1>2, <2>1 DEF ShowsAll
  <2>3. /\ given' = Buffered(buf, pos, n)
        /\ pos' = pos + n /\ size' = size /\ buf' = buf /\ fpos' = fpos
        /\ res' = "SZ_OK"
    BY <1>3 DEF ReadAhead
  <2> HIDE DEF n
  <2>4. pos' \in 0 .. size' /\ At' = At + n /\ Ahead' = Ahead - n
    BY <1>1, <2>1, <2>3 DEF At, Ahead
  <2>5. AheadInv'
    <3>1. \A j \in pos' .. size' - 1 : j \in pos .. size - 1  BY <1>1, <2>1, <2>3
    <3>2. Ahead' <= fpos' /\ (Ahead' # 0 => fpos' <= Len(File))
      BY <1>1, <2>1, <2>3, <2>4 DEF LookInv, AheadInv
    <3> QED  BY <2>3, <3>1, <3>2 DEF LookInv, AheadInv
  <2> QED  BY <1>1, <2>1, <2>2, <2>3, <2>4, <2>5 DEF Shows, Codes
<1>4. CASE ReadDirect
  <2>1. PICK k \in 0 .. want : /\ FileRead(want, k)
                               /\ given' = SubSeq(File, fpos + 1, fpos + k)
    BY <1>4 DEF ReadDirect
  <2>2. /\ k \in Nat /\ k <= want /\ k <= Rest(fpos)
        /\ k # 0 => fpos + k <= Len(File)
        /\ fpos' = fpos + k /\ fpos' \in Nat
        /\ res' \in Codes
        /\ res' = "SZ_OK" /\ k = 0 => Rest(fpos) = 0
    BY <1>1, <2>1, FileReadFacts DEF LookInv
  <2>3. /\ At = fpos /\ At' = fpos' /\ Ahead = 0 /\ Ahead' = 0
        /\ pos' = pos /\ size' = size /\ buf' = buf /\ pos = size
    BY <1>1, <1>4, <2>2 DEF ReadDirect, At, Ahead
  <2>4. given' \in Seq(Byte) /\ Len(given') = k
    <3>1. CASE k = 0
      <4>1. given' = << >>  BY <1>1, <2>1, <3>1, SubSeqEmpty
      <4> QED  BY <3>1, <4>1, EmptySeq
    <3>2. CASE k # 0  BY <1>1, <2>1, <2>2, <3>2, SliceOfFile
    <3> QED  BY <3>1, <3>2
  <2>5. AheadInv'  BY <1>1, <2>2, <2>3 DEF AheadInv
  <2> QED  BY <1>1, <2>1, <2>2, <2>3, <2>4, <2>5
<1> QED  BY <1>3, <1>4 DEF ReadMore

LEMMA ReadMoreStep ==
  ASSUME LookInv, ReadMore
  PROVE  LookInv' /\ Stream!Read
<1> DEFINE g == Len(given')
<1>1. /\ fpos' \in Nat /\ pos' \in 0 .. size' /\ size' = size /\ buf' = buf
      /\ AheadInv'
      /\ res' \in Codes
      /\ given' \in Seq(Byte) /\ g \in 0 .. want /\ g <= Rest(At)
      /\ At \in Nat /\ At' = At + g
      /\ g # 0 => At + g <= Len(File)
      /\ given' = SubSeq(File, At + 1, At + g)
      /\ res' = "SZ_OK" /\ g = 0 => Rest(At) = 0
  BY RoundDelivers, Zenon
<1> HIDE DEF g
<1>2. /\ want \in Nat \ {0} /\ from \in Nat /\ dest \in Seq(Byte) /\ Len(dest) \in Nat
      /\ bufSize \in Nat /\ size \in 0 .. bufSize /\ Len(File) \in Nat /\ g \in Nat
  BY <1>1, StreamAssumption, LenProperties DEF LookInv, TypeOK, ReadMore
<1>3. /\ asked' = want /\ shown' = 0 /\ from' = from
      /\ dest' = dest \o given'
      /\ want' = IF res' = "SZ_OK" /\ given' # << >> THEN want - g ELSE 0
  BY DEF ReadMore, g
<1>4. want' \in Nat  BY <1>1, <1>2, <1>3
<1>5. dest' \in Seq(Byte) /\ Len(dest') = Len(dest) + g
  BY <1>1, <1>2, <1>3, ConcatProperties DEF g
<1>6. TypeOK'
  <2>1. size' \in Nat  BY <1>1, <1>2
  <2>2. size' - pos' \in Nat  BY <1>1, <2>1, RoomFacts
  <2>3. shown' \in 0 .. size' - pos'  BY <1>3, <2>2
  <2> QED  BY <1>1, <1>2, <1>3, <1>4, <1>5, <2>3 DEF LookInv, TypeOK
<1>7. ReadInv'
  <2>1. At = from + Len(dest) /\ dest = SubSeq(File, from + 1, from + Len(dest))
    BY <1>2 DEF LookInv, ReadInv, ReadContiguous
  <2>2. dest' = SubSeq(File, from' + 1, from' + Len(dest'))
    <3>1. CASE g = 0
      <4>1. given' = << >>  BY <1>1, <3>1, EmptySeq DEF g
      <4>2. dest' = dest  BY <1>2, <1>3, <4>1, ConcatEmptySeq
      <4> QED  BY <1>3, <2>1, <4>2
    <3>2. CASE g # 0
      <4>1. from + Len(dest) + g <= Len(File)  BY <1>1, <2>1, <3>2
      <4>2. dest' = SubSeq(File, from + 1, from + Len(dest) + g)
        BY <1>1, <1>2, <1>3, <2>1, <4>1, SlicesJoin
      <4>3. from + Len(dest) + g = from' + Len(dest')  BY <1>2, <1>3, <1>5
      <4> QED  BY <1>3, <4>2, <4>3
    <3> QED  BY <3>1, <3>2
  <2>3. want' # 0 => At' = from' + Len(dest')  BY <1>1, <1>2, <1>3, <1>5, <2>1
  <2>4. dest' # << >> => from' + Len(dest') <= Len(File)
    <3>1. CASE g = 0
      <4>1. given' = << >>  BY <1>1, <3>1, EmptySeq DEF g
      <4>2. dest' = dest  BY <1>2, <1>3, <4>1, ConcatEmptySeq
      <4> QED  BY <1>3, <4>2 DEF LookInv, ReadInv
    <3>2. CASE g # 0  BY <1>1, <1>2, <1>3, <1>5, <2>1, <3>2
    <3> QED  BY <3>1, <3>2
  <2> QED  BY <2>2, <2>3, <2>4 DEF ReadInv, ReadContiguous
<1>8. Stream!Read
  <2>1. Stream!Rest(At) = Rest(At) /\ Rest(At) \in Nat
    BY <1>1, SameRest, RestType
  <2>2. g \in 0 .. Stream!Rest(At)  BY <1>1, <1>2, <2>1
  <2>3. Stream!Hand(g)
    BY <1>1, <1>2, <1>3, <2>1 DEF Stream!Hand, Stream!Bytes, Codes, At
  <2> QED  BY <1>1, <1>3, <2>2, <2>3 DEF Stream!Read, At
<1> QED  BY <1>1, <1>6, <1>7, <1>8 DEF LookInv

-----------------------------------------------------------------------------
LEMMA StreamStep == LookInv /\ [Next]_vars => LookInv' /\ [Stream!StreamNext]_Stream!streamVars
<1> SUFFICES ASSUME LookInv, [Next]_vars
             PROVE  LookInv' /\ [Stream!StreamNext]_Stream!streamVars
  OBVIOUS
<1>1. CASE ReadMore  BY <1>1, ReadMoreStep DEF Stream!StreamNext
<1>2. ASSUME NEW n \in 0 .. MaxAsk, Look(n) \/ Skip(n) \/ Seek(n) \/ StartRead(n)
      PROVE  LookInv' /\ [Stream!StreamNext]_Stream!streamVars
  BY <1>2, LookStep, SkipStep, SeekStep, StartReadStep DEF Stream!StreamNext
<1>3. CASE UNCHANGED vars
  <2>1. /\ fpos' = fpos /\ buf' = buf /\ pos' = pos /\ size' = size
        /\ asked' = asked /\ shown' = shown /\ given' = given /\ res' = res
        /\ want' = want /\ from' = from /\ dest' = dest
    BY <1>3 DEF vars, lookVars, answerVars, readVars
  <2>2. TypeOK'  BY <2>1 DEF LookInv, TypeOK
  <2>3. AheadInv' /\ ReadInv'
    BY <2>1 DEF LookInv, AheadInv, ReadInv, ReadContiguous, Ahead, At
  <2>4. UNCHANGED Stream!streamVars  BY <2>1 DEF Stream!streamVars, Ahead
  <2> QED  BY <2>2, <2>3, <2>4 DEF LookInv
<1> QED  BY <1>1, <1>2, <1>3 DEF Next

(* Whatever is called and whatever fails, the state of the stream is of its *)
(* types and what LookInStream_Read2 has delivered is one piece of the file *)
(* (7zStream.c).                                                            *)
THEOREM StreamSafety == Spec => [](TypeOK /\ ReadContiguous)
<1>1. LookInv => TypeOK /\ ReadContiguous  BY DEF LookInv, ReadInv
<1> QED  BY LookInit, StreamStep, <1>1, PTL DEF Spec

(* CLookToRead2 implements the stream its clients rely on.                  *)
THEOREM StreamRefinement == Spec => ImplementsByteStream
BY LookInit, StreamStep, PTL DEF Spec, ImplementsByteStream, Stream!StreamSpec

-----------------------------------------------------------------------------
(* Bcj2Decoder                                                              *)

(* What the copying loop and the words leave in ip and v.                   *)
PlaceInv ==
  /\ ip = destPos
  /\ prev = IF destPos = 0 THEN "xx" ELSE out[destPos - 1]

(* The state is only set on returning, and then the verdict is still open.  *)
PhaseInv ==
  /\ pc \notin {"returned", "done"} => state = "RC"
  /\ pc # "done" => sres = "none"

Bcj2Inv == Bcj2TypeOK /\ WriterBehindReader /\ NeverCutShort /\ PlaceInv /\ PhaseInv

-----------------------------------------------------------------------------
(* The bytes written and those not read yet are sequences of bytes.         *)
LEMMA UnreadType ==
  ASSUME NEW n \in Nat, NEW o \in [0 .. n - 1 -> MainByte], NEW s \in Nat, s <= n
  PROVE  /\ Unread(o, s, n) \in Seq(MainByte) /\ Len(Unread(o, s, n)) = n - s
         /\ \A k \in 1 .. n - s : Unread(o, s, n)[k] = o[s + k - 1]
<1>1. \A k \in 1 .. n - s : s + k - 1 \in 0 .. n - 1  OBVIOUS
<1>2. n - s \in Nat  OBVIOUS
<1> QED  BY <1>1, <1>2 DEF Unread

LEMMA WrittenType ==
  ASSUME NEW n \in Nat, NEW o \in [0 .. n - 1 -> MainByte], NEW d \in Nat, d <= n
  PROVE  /\ Written(o, d) \in Seq(MainByte) /\ Len(Written(o, d)) = d
         /\ \A k \in 1 .. d : Written(o, d)[k] = o[k - 1]
<1>1. \A k \in 1 .. d : k - 1 \in 0 .. n - 1  OBVIOUS
<1> QED  BY <1>1 DEF Written

(* A byte copied from the reader's to the writer's place.                   *)
LEMMA CopyMaps ==
  ASSUME NEW n \in Nat, NEW o \in [0 .. n - 1 -> MainByte],
         NEW s \in Nat, s < n, NEW d \in Nat, d <= s
  PROVE  /\ Moved(o, s, d) \in [0 .. n - 1 -> MainByte] /\ Moved(o, s, d)[d] = o[s]
         /\ Unread(o, s, n) # << >> /\ Head(Unread(o, s, n)) = o[s]
         /\ Unread(Moved(o, s, d), s + 1, n) = Tail(Unread(o, s, n))
         /\ Written(Moved(o, s, d), d + 1) = Append(Written(o, d), o[s])
<1> DEFINE o2 == Moved(o, s, d)
           s2 == s + 1
           d2 == d + 1
<1>1. /\ o[s] \in MainByte /\ o2 \in [0 .. n - 1 -> MainByte] /\ o2[d] = o[s]
      /\ \A k \in 0 .. n - 1 : k # d => o2[k] = o[k]
  BY DEF Moved
<1>0. s2 \in Nat /\ s2 <= n /\ d2 \in Nat /\ d2 <= n /\ s2 = s + 1 /\ d2 = d + 1
  OBVIOUS
<1> HIDE DEF o2, s2, d2
<1>2. /\ Unread(o, s, n) \in Seq(MainByte) /\ Len(Unread(o, s, n)) = n - s
      /\ \A k \in 1 .. n - s : Unread(o, s, n)[k] = o[s + k - 1]
      /\ Written(o, d) \in Seq(MainByte) /\ Len(Written(o, d)) = d
      /\ \A k \in 1 .. d : Written(o, d)[k] = o[k - 1]
  <2>1. s <= n /\ d <= n  OBVIOUS
  <2> QED  BY <2>1, UnreadType, WrittenType
<1>3. /\ Unread(o2, s2, n) \in Seq(MainByte) /\ Len(Unread(o2, s2, n)) = n - s2
      /\ \A k \in 1 .. n - s2 : Unread(o2, s2, n)[k] = o2[s2 + k - 1]
      /\ Written(o2, d2) \in Seq(MainByte) /\ Len(Written(o2, d2)) = d2
      /\ \A k \in 1 .. d2 : Written(o2, d2)[k] = o2[k - 1]
  <2>1. s2 \in Nat /\ s2 <= n /\ d2 \in Nat /\ d2 <= n  BY <1>0
  <2> QED  BY <1>1, <2>1, UnreadType, WrittenType
<1>4. Unread(o, s, n) # << >> /\ Head(Unread(o, s, n)) = o[s]
  <2>1. Unread(o, s, n) # << >>  BY <1>2, EmptySeq
  <2>2. Head(Unread(o, s, n)) = Unread(o, s, n)[1]  BY <1>2, <2>1, HeadTailProperties
  <2> QED  BY <1>2, <2>1, <2>2
<1>5. Unread(o2, s2, n) = Tail(Unread(o, s, n))
  <2> DEFINE t == Tail(Unread(o, s, n))
  <2>1. /\ t \in Seq(MainByte) /\ Len(t) = n - s - 1
        /\ \A k \in 1 .. n - s - 1 : t[k] = Unread(o, s, n)[k + 1]
    BY <1>2, <1>4, HeadTailProperties
  <2>2. \A k \in 1 .. n - s - 1 : t[k] = o2[s2 + k - 1]
    BY <1>0, <1>1, <1>2, <2>1
  <2> HIDE DEF t
  <2>3. Len(Unread(o2, s2, n)) = Len(t)  BY <1>0, <1>3, <2>1
  <2>4. \A k \in 1 .. Len(t) : Unread(o2, s2, n)[k] = t[k]  BY <1>0, <1>3, <2>1, <2>2
  <2>5. Unread(o2, s2, n) = t  BY <1>3, <2>1, <2>3, <2>4, SeqEqual
  <2> QED  BY <2>5 DEF t
<1>6. Written(o2, d2) = Append(Written(o, d), o[s])
  <2> DEFINE t == Append(Written(o, d), o[s])
  <2>1. /\ t \in Seq(MainByte) /\ Len(t) = d + 1 /\ t[d + 1] = o[s]
        /\ \A k \in 1 .. d : t[k] = Written(o, d)[k]
    BY <1>1, <1>2, AppendProperties
  <2>2. \A k \in 1 .. d + 1 : t[k] = o2[k - 1]
    BY <1>1, <1>2, <2>1
  <2> HIDE DEF t
  <2>3. Len(Written(o2, d2)) = Len(t)  BY <1>0, <1>3, <2>1
  <2>4. \A k \in 1 .. Len(t) : Written(o2, d2)[k] = t[k]  BY <1>0, <1>3, <2>1, <2>2
  <2>5. Written(o2, d2) = t  BY <1>3, <2>1, <2>3, <2>4, SeqEqual
  <2> QED  BY <2>5 DEF t
<1> QED  BY <1>1, <1>4, <1>5, <1>6 DEF o2, s2, d2

(* A word put in front of the reader.                                       *)
LEMMA WordMaps ==
  ASSUME NEW n \in Nat, NEW o \in [0 .. n - 1 -> MainByte],
         NEW s \in Nat, s <= n, NEW d \in Nat, d + 4 <= s,
         NEW v \in [1 .. 4 -> MainByte]
  PROVE  /\ Overwrite(o, d, 4, v) \in [0 .. n - 1 -> MainByte]
         /\ Overwrite(o, d, 4, v)[d + 3] = v[4]
         /\ Unread(Overwrite(o, d, 4, v), s, n) = Unread(o, s, n)
         /\ Written(Overwrite(o, d, 4, v), d + 4) = Written(o, d) \o v
<1> DEFINE o2 == Overwrite(o, d, 4, v)
           d2 == d + 4
<1>1. /\ o2 \in [0 .. n - 1 -> MainByte]
      /\ \A k \in 0 .. n - 1 : o2[k] = IF k \in d .. d + 3 THEN v[k - d + 1] ELSE o[k]
  <2>1. o2 = [k \in 0 .. n - 1 |-> IF k \in d .. d + 3 THEN v[k - d + 1] ELSE o[k]]
    BY DEF Overwrite
  <2>2. \A k \in d .. d + 3 : v[k - d + 1] \in MainByte  OBVIOUS
  <2> QED  BY <2>1, <2>2
<1>0. d2 \in Nat /\ d2 <= n /\ d2 = d + 4  OBVIOUS
<1> HIDE DEF o2, d2
<1>2. /\ Unread(o, s, n) \in Seq(MainByte) /\ Len(Unread(o, s, n)) = n - s
      /\ \A k \in 1 .. n - s : Unread(o, s, n)[k] = o[s + k - 1]
      /\ Written(o, d) \in Seq(MainByte) /\ Len(Written(o, d)) = d
      /\ \A k \in 1 .. d : Written(o, d)[k] = o[k - 1]
  <2>1. d <= n  OBVIOUS
  <2> QED  BY <2>1, UnreadType, WrittenType
<1>3. /\ Unread(o2, s, n) \in Seq(MainByte) /\ Len(Unread(o2, s, n)) = n - s
      /\ \A k \in 1 .. n - s : Unread(o2, s, n)[k] = o2[s + k - 1]
      /\ Written(o2, d2) \in Seq(MainByte) /\ Len(Written(o2, d2)) = d2
      /\ \A k \in 1 .. d2 : Written(o2, d2)[k] = o2[k - 1]
  <2>1. d2 \in Nat /\ d2 <= n /\ s \in Nat /\ s <= n /\ n \in Nat  BY <1>0
  <2>2. o2 \in [0 .. n - 1 -> MainByte]  BY <1>1
  <2>3. /\ Unread(o2, s, n) \in Seq(MainByte) /\ Len(Unread(o2, s, n)) = n - s
        /\ \A k \in 1 .. n - s : Unread(o2, s, n)[k] = o2[s + k - 1]
    BY <2>1, <2>2, UnreadType
  <2>4. /\ Written(o2, d2) \in Seq(MainByte) /\ Len(Written(o2, d2)) = d2
        /\ \A k \in 1 .. d2 : Written(o2, d2)[k] = o2[k - 1]
    BY <2>1, <2>2, WrittenType
  <2> QED  BY <2>3, <2>4
<1>4. Unread(o2, s, n) = Unread(o, s, n)
  <2>1. \A k \in 1 .. n - s : s + k - 1 \in 0 .. n - 1 /\ s + k - 1 \notin d .. d + 3
    OBVIOUS
  <2>2. \A k \in 1 .. n - s : Unread(o2, s, n)[k] = Unread(o, s, n)[k]
    BY <1>1, <1>2, <1>3, <2>1
  <2> QED  BY <1>2, <1>3, <2>2, SeqEqual
<1>5. Written(o2, d2) = Written(o, d) \o v
  <2> DEFINE t == Written(o, d) \o v
  <2>1. v \in Seq(MainByte) /\ Len(v) = 4
    <3>1. [k \in 1 .. 4 |-> v[k]] \in Seq(MainByte) /\ Len([k \in 1 .. 4 |-> v[k]]) = 4
      OBVIOUS
    <3>2. v = [k \in 1 .. 4 |-> v[k]]  OBVIOUS
    <3> QED  BY <3>1, <3>2
  <2>2. /\ t \in Seq(MainByte) /\ Len(t) = d + 4
        /\ \A k \in 1 .. d + 4 : t[k] = IF k <= d THEN Written(o, d)[k] ELSE v[k - d]
    <3> DEFINE u == Written(o, d)
    <3>1. u \in Seq(MainByte) /\ Len(u) = d  BY <1>2
    <3> HIDE DEF u
    <3>2. /\ u \o v \in Seq(MainByte) /\ Len(u \o v) = Len(u) + Len(v)
          /\ \A k \in 1 .. Len(u) + Len(v) :
               (u \o v)[k] = IF k <= Len(u) THEN u[k] ELSE v[k - Len(u)]
      BY <2>1, <3>1, ConcatProperties
    <3>3. /\ u \o v \in Seq(MainByte) /\ Len(u \o v) = d + 4
          /\ \A k \in 1 .. d + 4 : (u \o v)[k] = IF k <= d THEN u[k] ELSE v[k - d]
      BY <2>1, <3>1, <3>2
    <3> QED  BY <3>3 DEF u
  <2>3. \A k \in 1 .. d + 4 : t[k] = o2[k - 1]
    <3> SUFFICES ASSUME NEW k \in 1 .. d + 4 PROVE t[k] = o2[k - 1]  OBVIOUS
    <3>1. k - 1 \in 0 .. n - 1  OBVIOUS
    <3>2. CASE k <= d
      <4>1. k \in 1 .. d /\ k - 1 \notin d .. d + 3  BY <3>2
      <4> HIDE DEF t
      <4> QED  BY <1>1, <1>2, <2>2, <3>1, <3>2, <4>1
    <3>3. CASE ~(k <= d)
      <4>1. k - 1 \in d .. d + 3 /\ (k - 1) - d + 1 = k - d  BY <3>3
      <4> HIDE DEF t
      <4> QED  BY <1>1, <2>2, <3>1, <3>3, <4>1
    <3> QED  BY <3>2, <3>3
  <2> HIDE DEF t
  <2>4. Len(Written(o2, d2)) = Len(t)  BY <1>0, <1>3, <2>2
  <2>5. \A k \in 1 .. Len(t) : Written(o2, d2)[k] = t[k]  BY <1>0, <1>3, <2>2, <2>3
  <2>6. Written(o2, d2) = t  BY <1>3, <2>2, <2>4, <2>5, SeqEqual
  <2> QED  BY <2>6 DEF t
<1>6. o2[d + 3] = v[4]
  <2>1. d + 3 \in 0 .. n - 1 /\ d + 3 \in d .. d + 3 /\ (d + 3) - d + 1 = 4  OBVIOUS
  <2> QED  BY <1>1, <2>1
<1> QED  BY <1>1, <1>4, <1>5, <1>6 DEF o2, d2

-----------------------------------------------------------------------------
LEMMA DecoderInit == Bcj2Init => Bcj2Inv /\ Merge!MergeInit
<1> SUFFICES ASSUME Bcj2Init PROVE Bcj2Inv /\ Merge!MergeInit  OBVIOUS
<1>1. PICK m \in Mains, fill \in MainByte :
        /\ calls \in Calls /\ jumps \in Calls /\ rc \in RcSizes
        /\ outSize \in 0 .. MaxSize /\ SizesFit(m, calls, jumps, outSize)
        /\ src = outSize - Len(m)
        /\ out = [k \in 0 .. outSize - 1 |-> IF k < src THEN fill ELSE m[k - src + 1]]
        /\ destPos = 0 /\ ip = 0 /\ prev = "xx" /\ state = "RC"
        /\ pc = "start" /\ sres = "none"
  BY DEF Bcj2Init
<1>2. /\ m \in Seq(MainByte) /\ Len(m) \in Nat /\ calls \in Seq(Word) /\ jumps \in Seq(Word)
      /\ Len(calls) \in Nat /\ Len(jumps) \in Nat /\ rc \in Nat /\ MaxSize \in Nat
  BY <1>1, DecoderAssumption, LenProperties
<1>3. outSize \in Nat /\ src \in 0 .. outSize /\ src = 4 * Len(calls) + 4 * Len(jumps)
  BY <1>1, <1>2 DEF SizesFit
<1>4. out \in [0 .. outSize - 1 -> MainByte]
  <2>1. \A k \in 0 .. outSize - 1 : ~(k < src) => m[k - src + 1] \in MainByte
    <3> SUFFICES ASSUME NEW k \in 0 .. outSize - 1, ~(k < src)
                 PROVE  m[k - src + 1] \in MainByte
      OBVIOUS
    <3>1. k - src + 1 \in 1 .. Len(m)  BY <1>1, <1>2, <1>3
    <3> QED  BY <1>2, <3>1, ElementOfSeq
  <2> QED  BY <1>1, <2>1
<1>5. Bcj2TypeOK  BY <1>1, <1>2, <1>3, <1>4 DEF Bcj2TypeOK, MainByte, States
<1>6. WriterBehindReader /\ NeverCutShort /\ PlaceInv /\ PhaseInv
  BY <1>1, <1>2, <1>3 DEF WriterBehindReader, NeverCutShort, PlaceInv, PhaseInv
<1>7. Written(out, destPos) = << >>  BY <1>1 DEF Written
<1>8. Merge!MergeInit  BY <1>1, <1>7 DEF Merge!MergeInit
<1> QED  BY <1>5, <1>6, <1>8 DEF Bcj2Inv

(* The buffers, and what the merge sees of them, stay as they are.          *)
LEMMA BuffersStay ==
  ASSUME Bcj2Inv, UNCHANGED <<bufVars, outSize, calls, jumps>>,
         rc' \in Nat, state' \in States, NeverCutShort',
         pc' \in {"start", "head", "copy", "word", "returned", "done"},
         sres' \in {"none", "SZ_OK", "SZ_ERROR_DATA"}, PhaseInv'
  PROVE  /\ Bcj2Inv'
         /\ Unread(out, src, outSize)' = Unread(out, src, outSize)
         /\ Written(out, destPos)' = Written(out, destPos)
<1>1. /\ out' = out /\ src' = src /\ destPos' = destPos /\ ip' = ip /\ prev' = prev
      /\ outSize' = outSize /\ calls' = calls /\ jumps' = jumps
  BY DEF bufVars
<1>2. Bcj2TypeOK'  BY <1>1 DEF Bcj2Inv, Bcj2TypeOK
<1>3. WriterBehindReader' /\ PlaceInv'  BY <1>1 DEF Bcj2Inv, WriterBehindReader, PlaceInv
<1> QED  BY <1>1, <1>2, <1>3 DEF Bcj2Inv

LEMMA StartStep ==
  ASSUME Bcj2Inv, Start
  PROVE  Bcj2Inv' /\ [Merge!MergeNext]_Merge!mergeVars
<1>1. /\ UNCHANGED <<bufVars, outSize, calls, jumps>>
      /\ rc \in Nat /\ state = "RC" /\ sres = "none" /\ pc = "start"
  BY DEF Start, Bcj2Inv, Bcj2TypeOK, PhaseInv
<1>2. /\ rc' \in Nat /\ state' \in {"RC", "ERROR"}
      /\ pc' \in {"returned", "head", "done"}
      /\ \/ pc' # "done" /\ sres' = sres /\ state' = "RC"
         \/ pc' = "done" /\ sres' = "SZ_ERROR_DATA"
  BY <1>1 DEF Start, Return
<1>3. PhaseInv' /\ NeverCutShort'  BY <1>1, <1>2 DEF PhaseInv, NeverCutShort
<1>4. /\ Bcj2Inv'
      /\ Unread(out, src, outSize)' = Unread(out, src, outSize)
      /\ Written(out, destPos)' = Written(out, destPos)
  <2>1. state' \in States  BY <1>2 DEF States
  <2>2. sres' \in {"none", "SZ_OK", "SZ_ERROR_DATA"}  BY <1>1, <1>2
  <2> QED  BY <1>1, <1>2, <1>3, <2>1, <2>2, BuffersStay
<1>5. calls' = calls /\ jumps' = jumps /\ prev' = prev  BY <1>1 DEF bufVars
<1>6. CASE pc' # "done"
  BY <1>1, <1>2, <1>4, <1>5, <1>6 DEF Merge!mergeVars
<1>7. CASE pc' = "done"
  <2>1. Merge!Finish  BY <1>1, <1>2, <1>4, <1>5, <1>7 DEF Merge!Finish
  <2> QED  BY <1>4, <2>1 DEF Merge!MergeNext
<1> QED  BY <1>6, <1>7

LEMMA NormalizeStep ==
  ASSUME Bcj2Inv, Normalize
  PROVE  Bcj2Inv' /\ [Merge!MergeNext]_Merge!mergeVars
<1>1. /\ UNCHANGED <<bufVars, outSize, calls, jumps>>
      /\ rc \in Nat /\ state = "RC" /\ sres = "none" /\ pc = "head"
      /\ sres' = sres
  BY DEF Normalize, Bcj2Inv, Bcj2TypeOK, PhaseInv
<1>2. rc' \in Nat /\ state' = "RC" /\ pc' \in {"returned", "copy"}
  BY <1>1 DEF Normalize, Return
<1>3. PhaseInv' /\ NeverCutShort'  BY <1>1, <1>2 DEF PhaseInv, NeverCutShort
<1>4. /\ Bcj2Inv'
      /\ Unread(out, src, outSize)' = Unread(out, src, outSize)
      /\ Written(out, destPos)' = Written(out, destPos)
  <2>1. state' \in States  BY <1>2 DEF States
  <2> QED  BY <1>1, <1>2, <1>3, <2>1, BuffersStay
<1>5. calls' = calls /\ jumps' = jumps /\ prev' = prev  BY <1>1 DEF bufVars
<1> QED  BY <1>1, <1>2, <1>4, <1>5 DEF Merge!mergeVars

(* The loop only ends with the main stream: the writer is not past the      *)
(* reader, so a full output means that nothing is left to read.             *)
LEMMA CopyStopsStep ==
  ASSUME Bcj2Inv, CopyStops
  PROVE  Bcj2Inv' /\ [Merge!MergeNext]_Merge!mergeVars
<1>1. /\ UNCHANGED <<bufVars, outSize, calls, jumps>>
      /\ rc' \in Nat /\ state = "RC" /\ sres = "none" /\ pc = "copy"
      /\ sres' = sres /\ pc' = "returned"
  BY DEF CopyStops, Bcj2Inv, Bcj2TypeOK, PhaseInv, Return
<1>2. src = outSize
  <2>1. /\ Len(calls) \in Nat /\ Len(jumps) \in Nat /\ outSize \in Nat
        /\ src \in 0 .. outSize /\ destPos \in 0 .. outSize
        /\ src - destPos = 4 * Len(calls) + 4 * Len(jumps)
    BY DecoderAssumption, LenProperties DEF Bcj2Inv, Bcj2TypeOK, WriterBehindReader
  <2> QED  BY <2>1 DEF CopyStops
<1>3. state' = "MAIN"  BY <1>2 DEF CopyStops, Return
<1>4. PhaseInv' /\ NeverCutShort'  BY <1>1, <1>3 DEF PhaseInv, NeverCutShort
<1>5. /\ Bcj2Inv'
      /\ Unread(out, src, outSize)' = Unread(out, src, outSize)
      /\ Written(out, destPos)' = Written(out, destPos)
  <2>1. state' \in States  BY <1>3 DEF States
  <2> QED  BY <1>1, <1>4, <2>1, BuffersStay
<1>6. calls' = calls /\ jumps' = jumps /\ prev' = prev  BY <1>1 DEF bufVars
<1> QED  BY <1>1, <1>3, <1>5, <1>6 DEF Merge!mergeVars

LEMMA CheckStep ==
  ASSUME Bcj2Inv, Check
  PROVE  Bcj2Inv' /\ [Merge!MergeNext]_Merge!mergeVars
<1>1. /\ UNCHANGED <<bufVars, outSize, calls, jumps>>
      /\ rc' \in Nat /\ sres = "none" /\ pc = "returned" /\ pc' = "done"
      /\ state' = state /\ state \in States
      /\ sres' = "SZ_ERROR_DATA" \/ (Accepted /\ sres' = "SZ_OK")
  BY DEF Check, Bcj2Inv, Bcj2TypeOK, PhaseInv
<1>2. PhaseInv' /\ NeverCutShort'  BY <1>1 DEF Bcj2Inv, PhaseInv, NeverCutShort
<1>3. /\ Bcj2Inv'
      /\ Unread(out, src, outSize)' = Unread(out, src, outSize)
      /\ Written(out, destPos)' = Written(out, destPos)
  <2>1. sres' \in {"none", "SZ_OK", "SZ_ERROR_DATA"}  BY <1>1
  <2> QED  BY <1>1, <1>2, <2>1, BuffersStay
<1>4. calls' = calls /\ jumps' = jumps /\ prev' = prev  BY <1>1 DEF bufVars
<1>5. Accepted => Unread(out, src, outSize) = << >> /\ calls = << >> /\ jumps = << >> /\ state = "MAIN"
  <2>1. outSize \in Nat  BY DecoderAssumption DEF Bcj2Inv, Bcj2TypeOK
  <2> QED  BY <2>1 DEF Accepted, MaybeFinished, Unread
<1>6. Merge!Finish
  BY <1>1, <1>3, <1>4, <1>5 DEF Merge!Finish
<1> QED  BY <1>3, <1>6 DEF Merge!MergeNext

LEMMA CopyStep ==
  ASSUME Bcj2Inv, Copy
  PROVE  Bcj2Inv' /\ [Merge!MergeNext]_Merge!mergeVars
<1> DEFINE todo == Unread(out, src, outSize)
           merged == Written(out, destPos)
<1>1. /\ outSize \in Nat /\ out \in [0 .. outSize - 1 -> MainByte]
      /\ src \in Nat /\ src < outSize /\ destPos \in Nat /\ destPos <= src
      /\ Len(calls) \in Nat /\ Len(jumps) \in Nat
      /\ src - destPos = 4 * Len(calls) + 4 * Len(jumps)
  BY DecoderAssumption, LenProperties DEF Bcj2Inv, Bcj2TypeOK, WriterBehindReader, Copy
<1>2. /\ pc = "copy" /\ state = "RC" /\ sres = "none"
      /\ ip = destPos /\ prev = IF destPos = 0 THEN "xx" ELSE out[destPos - 1]
  BY DEF Copy, Bcj2Inv, PhaseInv, PlaceInv
<1>3. /\ out' = Moved(out, src, destPos)
      /\ src' = src + 1 /\ destPos' = destPos + 1 /\ ip' = ip + 1 /\ prev' = out[src]
      /\ outSize' = outSize /\ calls' = calls /\ jumps' = jumps
      /\ rc' = rc /\ state' = state /\ sres' = sres
      /\ pc' \in IF IsMarker(prev, out[src]) THEN {"head", "word"} ELSE {"copy"}
  BY DEF Copy
<1>4. /\ Moved(out, src, destPos) \in [0 .. outSize - 1 -> MainByte]
      /\ Moved(out, src, destPos)[destPos] = out[src]
      /\ todo # << >> /\ Head(todo) = out[src]
      /\ Unread(Moved(out, src, destPos), src + 1, outSize) = Tail(todo)
      /\ Written(Moved(out, src, destPos), destPos + 1) = Append(merged, out[src])
  <2>1. /\ outSize \in Nat /\ out \in [0 .. outSize - 1 -> MainByte]
        /\ src \in Nat /\ src < outSize /\ destPos \in Nat /\ destPos <= src
    BY <1>1
  <2>2. /\ Moved(out, src, destPos) \in [0 .. outSize - 1 -> MainByte]
        /\ Moved(out, src, destPos)[destPos] = out[src]
        /\ Unread(out, src, outSize) # << >> /\ Head(Unread(out, src, outSize)) = out[src]
        /\ Unread(Moved(out, src, destPos), src + 1, outSize) = Tail(Unread(out, src, outSize))
        /\ Written(Moved(out, src, destPos), destPos + 1) = Append(Written(out, destPos), out[src])
    BY <2>1, CopyMaps, ZenonT(60)
  <2> QED  BY <2>2
<1>5. out[src] \in MainByte /\ pc' \in {"head", "word", "copy"}  BY <1>1, <1>3
<1>6. Bcj2TypeOK'
  <2>1. src' \in 0 .. outSize' /\ destPos' \in 0 .. outSize' /\ ip' \in Nat
    BY <1>1, <1>2, <1>3
  <2> QED  BY <1>3, <1>4, <1>5, <2>1 DEF Bcj2Inv, Bcj2TypeOK
<1>7. WriterBehindReader' /\ NeverCutShort'
  BY <1>1, <1>2, <1>3 DEF WriterBehindReader, NeverCutShort
<1>8. PlaceInv'
  <2>1. destPos' # 0 /\ destPos' - 1 = destPos /\ ip' = destPos'  BY <1>1, <1>2, <1>3
  <2> QED  BY <1>3, <1>4, <2>1 DEF PlaceInv
<1>9. PhaseInv'  BY <1>2, <1>3, <1>5 DEF PhaseInv
<1>10. Merge!CopyByte
  <2>1. Merge!Before = prev
    <3>1. /\ merged \in Seq(MainByte) /\ Len(merged) = destPos
          /\ \A k \in 1 .. destPos : merged[k] = out[k - 1]
      BY <1>1, WrittenType
    <3>2. CASE destPos = 0
      <4>1. merged = << >>  BY <3>1, <3>2, EmptySeq
      <4> QED  BY <1>2, <3>2, <4>1 DEF Merge!Before
    <3>3. CASE destPos # 0
      <4>1. merged # << >>  BY <3>1, <3>3, EmptySeq
      <4>2. merged[destPos] = out[destPos - 1]  BY <1>1, <3>1, <3>3
      <4> QED  BY <1>2, <3>1, <3>3, <4>1, <4>2 DEF Merge!Before
    <3> QED  BY <3>2, <3>3
  <2>2. Merge!IsMarker(Merge!Before, Head(todo)) = IsMarker(prev, out[src])
    BY <1>4, <2>1 DEF Merge!IsMarker, IsMarker
  <2>3. (IF pc' = "word" \/ state' \in {"CALL", "JUMP"}
         THEN IF prev' = "e8" THEN "call" ELSE "jump" ELSE "none")
          \in IF IsMarker(prev, out[src])
              THEN {"none", Merge!StreamOf(Head(todo))} ELSE {"none"}
    BY <1>2, <1>3, <1>4 DEF Merge!StreamOf
  <2> QED  BY <1>2, <1>3, <1>4, <2>2, <2>3 DEF Merge!CopyByte
<1> QED  BY <1>6, <1>7, <1>8, <1>9, <1>10 DEF Bcj2Inv, Merge!MergeNext

(* A word always fits in front of the reader, whose distance is made of the *)
(* words that are left.                                                     *)
LEMMA WordFits ==
  ASSUME Bcj2Inv, NEW w \in Word, PutWord(w), pc = "word",
         src - destPos >= 4
  PROVE  /\ out' \in [0 .. outSize - 1 -> MainByte]
         /\ Unread(out', src', outSize') = Unread(out, src, outSize)
         /\ Written(out', destPos') = Written(out, destPos) \o Absolute(w, Len(Written(out, destPos)) + 4)
         /\ destPos' = destPos + 4 /\ destPos' \in 0 .. outSize /\ src' = src /\ ip' = destPos'
         /\ prev' = out'[destPos' - 1] /\ prev' \in MainByte
         /\ outSize' = outSize /\ rc' = rc /\ sres' = sres
         /\ pc' = "head" /\ state' = state
<1>1. /\ outSize \in 0 .. MaxSize /\ MaxSize \in Nat
      /\ out \in [0 .. outSize - 1 -> MainByte]
      /\ src \in Nat /\ src <= outSize /\ destPos \in Nat /\ destPos + 4 <= src
      /\ ip = destPos
  BY DecoderAssumption DEF Bcj2Inv, Bcj2TypeOK, PlaceInv
<1>2. Smaller(4, outSize - destPos) = 4  BY <1>1 DEF Smaller
<1>3. Absolute(w, ip + 4) \in [1 .. 4 -> MainByte]
  <2>1. ip + 4 \in 0 .. MaxSize  BY <1>1
  <2> QED  BY <2>1, DecoderAssumption
<1>4. /\ out' = Overwrite(out, destPos, 4, Absolute(w, ip + 4))
      /\ destPos' = destPos + 4 /\ ip' = ip + 4 /\ prev' = Absolute(w, ip + 4)[4]
      /\ pc' = "head" /\ state' = state /\ rc' = rc
      /\ outSize' = outSize /\ src' = src /\ sres' = sres
  BY <1>2 DEF PutWord
<1> DEFINE v == Absolute(w, ip + 4)
<1>5. /\ Overwrite(out, destPos, 4, v) \in [0 .. outSize - 1 -> MainByte]
      /\ Overwrite(out, destPos, 4, v)[destPos + 3] = v[4]
      /\ Unread(Overwrite(out, destPos, 4, v), src, outSize) = Unread(out, src, outSize)
      /\ Written(Overwrite(out, destPos, 4, v), destPos + 4) = Written(out, destPos) \o v
  <2>1. outSize \in Nat  BY <1>1
  <2>2. v \in [1 .. 4 -> MainByte]  BY <1>3
  <2>3. out \in [0 .. outSize - 1 -> MainByte]  BY <1>1
  <2>4. src \in Nat /\ src <= outSize  BY <1>1
  <2>5. destPos \in Nat /\ destPos + 4 <= src  BY <1>1
  <2> HIDE DEF v
  <2> QED  BY <2>1, <2>2, <2>3, <2>4, <2>5, WordMaps, ZenonT(60)
<1>6. Len(Written(out, destPos)) = destPos
  <2>1. outSize \in Nat /\ destPos <= outSize  BY <1>1
  <2> QED  BY <1>1, <2>1, WrittenType
<1>7. destPos' - 1 = destPos + 3 /\ destPos' \in 0 .. outSize /\ v[4] \in MainByte
  BY <1>1, <1>3, <1>4
<1> QED  BY <1>1, <1>4, <1>5, <1>6, <1>7

(* A stream without a word left ends the call.                              *)
LEMMA NoWordStep ==
  ASSUME Bcj2Inv, pc = "word", NEW s \in {"CALL", "JUMP"}, NoWord(s)
  PROVE  Bcj2Inv' /\ UNCHANGED Merge!mergeVars
<1>1. /\ UNCHANGED <<bufVars, outSize, calls, jumps>>
      /\ rc \in Nat /\ state = "RC" /\ sres = "none"
      /\ sres' = sres /\ pc' = "returned" /\ state' = s
      /\ rc' \in {rc, rc - 1} \cap Nat
  BY DEF NoWord, Return, Bcj2Inv, Bcj2TypeOK, PhaseInv
<1>2. rc' \in Nat  BY <1>1
<1>3. PhaseInv' /\ NeverCutShort'  BY <1>1 DEF PhaseInv, NeverCutShort
<1>4. /\ Bcj2Inv'
      /\ Unread(out, src, outSize)' = Unread(out, src, outSize)
      /\ Written(out, destPos)' = Written(out, destPos)
  <2>1. state' \in States  BY <1>1 DEF States
  <2> QED  BY <1>1, <1>2, <1>3, <2>1, BuffersStay
<1>5. calls' = calls /\ jumps' = jumps /\ prev' = prev  BY <1>1 DEF bufVars
<1> QED  BY <1>1, <1>4, <1>5 DEF Merge!mergeVars

(* What a word leaves of its stream.                                        *)
LEMMA WordTaken ==
  ASSUME NEW c \in Seq(Word), c # << >>
  PROVE  /\ Head(c) \in Word /\ Tail(c) \in Seq(Word)
         /\ Len(c) \in Nat /\ Len(Tail(c)) \in Nat /\ Len(c) = Len(Tail(c)) + 1
BY HeadTailProperties, LenProperties, EmptySeq

LEMMA ConvertCallStep ==
  ASSUME Bcj2Inv, ConvertCall
  PROVE  Bcj2Inv' /\ [Merge!MergeNext]_Merge!mergeVars
<1>1. CASE calls = << >>
  BY <1>1, NoWordStep DEF ConvertCall
<1>2. CASE calls # << >>
  <2>1. /\ PutWord(Head(calls)) /\ calls' = Tail(calls) /\ jumps' = jumps
        /\ pc = "word" /\ prev = "e8" /\ state = "RC" /\ sres = "none"
        /\ calls \in Seq(Word) /\ jumps \in Seq(Word)
    BY <1>2 DEF ConvertCall, Bcj2Inv, Bcj2TypeOK, PhaseInv
  <2>2. /\ Head(calls) \in Word /\ Tail(calls) \in Seq(Word)
        /\ Len(calls) \in Nat /\ Len(Tail(calls)) \in Nat
        /\ Len(calls) = Len(Tail(calls)) + 1 /\ Len(jumps) \in Nat
    BY <1>2, <2>1, WordTaken, LenProperties
  <2>3. src \in Int /\ destPos \in Nat /\ src - destPos = 4 * Len(calls) + 4 * Len(jumps)
    BY DEF Bcj2Inv, Bcj2TypeOK, WriterBehindReader
  <2>4. src - destPos >= 4  BY <2>2, <2>3
  <2>5. /\ out' \in [0 .. outSize - 1 -> MainByte]
        /\ Unread(out', src', outSize') = Unread(out, src, outSize)
        /\ Written(out', destPos') = Written(out, destPos) \o Absolute(Head(calls), Len(Written(out, destPos)) + 4)
        /\ destPos' = destPos + 4 /\ destPos' \in 0 .. outSize /\ src' = src /\ ip' = destPos'
        /\ prev' = out'[destPos' - 1] /\ prev' \in MainByte
        /\ outSize' = outSize /\ rc' = rc /\ sres' = sres
        /\ pc' = "head" /\ state' = state
    BY <2>1, <2>2, <2>4, WordFits
  <2>6. Bcj2TypeOK'
    <3>1. ip' \in Nat  BY <2>3, <2>5
    <3> QED  BY <2>1, <2>2, <2>5, <3>1 DEF Bcj2Inv, Bcj2TypeOK
  <2>7. WriterBehindReader'
    <3>1. src - (destPos + 4) = 4 * Len(calls') + 4 * Len(jumps')
      BY <2>1, <2>2, <2>3
    <3> QED  BY <2>5, <3>1 DEF WriterBehindReader
  <2>8. NeverCutShort' /\ PhaseInv' /\ PlaceInv'
    BY <2>1, <2>3, <2>5 DEF NeverCutShort, PhaseInv, PlaceInv
  <2>9. Merge!Convert  BY <1>2, <2>1, <2>5 DEF Merge!Convert
  <2> QED  BY <2>6, <2>7, <2>8, <2>9 DEF Bcj2Inv, Merge!MergeNext
<1> QED  BY <1>1, <1>2

LEMMA ConvertJumpStep ==
  ASSUME Bcj2Inv, ConvertJump
  PROVE  Bcj2Inv' /\ [Merge!MergeNext]_Merge!mergeVars
<1>1. CASE jumps = << >>
  BY <1>1, NoWordStep DEF ConvertJump
<1>2. CASE jumps # << >>
  <2>1. /\ PutWord(Head(jumps)) /\ jumps' = Tail(jumps) /\ calls' = calls
        /\ pc = "word" /\ prev # "e8" /\ state = "RC" /\ sres = "none"
        /\ calls \in Seq(Word) /\ jumps \in Seq(Word)
    BY <1>2 DEF ConvertJump, Bcj2Inv, Bcj2TypeOK, PhaseInv
  <2>2. /\ Head(jumps) \in Word /\ Tail(jumps) \in Seq(Word)
        /\ Len(jumps) \in Nat /\ Len(Tail(jumps)) \in Nat
        /\ Len(jumps) = Len(Tail(jumps)) + 1 /\ Len(calls) \in Nat
    BY <1>2, <2>1, WordTaken, LenProperties
  <2>3. src \in Int /\ destPos \in Nat /\ src - destPos = 4 * Len(calls) + 4 * Len(jumps)
    BY DEF Bcj2Inv, Bcj2TypeOK, WriterBehindReader
  <2>4. src - destPos >= 4  BY <2>2, <2>3
  <2>5. /\ out' \in [0 .. outSize - 1 -> MainByte]
        /\ Unread(out', src', outSize') = Unread(out, src, outSize)
        /\ Written(out', destPos') = Written(out, destPos) \o Absolute(Head(jumps), Len(Written(out, destPos)) + 4)
        /\ destPos' = destPos + 4 /\ destPos' \in 0 .. outSize /\ src' = src /\ ip' = destPos'
        /\ prev' = out'[destPos' - 1] /\ prev' \in MainByte
        /\ outSize' = outSize /\ rc' = rc /\ sres' = sres
        /\ pc' = "head" /\ state' = state
    BY <2>1, <2>2, <2>4, WordFits
  <2>6. Bcj2TypeOK'
    <3>1. ip' \in Nat  BY <2>3, <2>5
    <3> QED  BY <2>1, <2>2, <2>5, <3>1 DEF Bcj2Inv, Bcj2TypeOK
  <2>7. WriterBehindReader'
    <3>1. src - (destPos + 4) = 4 * Len(calls') + 4 * Len(jumps')
      BY <2>1, <2>2, <2>3
    <3> QED  BY <2>5, <3>1 DEF WriterBehindReader
  <2>8. NeverCutShort' /\ PhaseInv' /\ PlaceInv'
    BY <2>1, <2>3, <2>5 DEF NeverCutShort, PhaseInv, PlaceInv
  <2>9. Merge!Convert  BY <1>2, <2>1, <2>5 DEF Merge!Convert
  <2> QED  BY <2>6, <2>7, <2>8, <2>9 DEF Bcj2Inv, Merge!MergeNext
<1> QED  BY <1>1, <1>2

-----------------------------------------------------------------------------
LEMMA DecoderStep == Bcj2Inv /\ [Bcj2Next]_bcj2Vars => Bcj2Inv' /\ [Merge!MergeNext]_Merge!mergeVars
<1> SUFFICES ASSUME Bcj2Inv, [Bcj2Next]_bcj2Vars
             PROVE  Bcj2Inv' /\ [Merge!MergeNext]_Merge!mergeVars
  OBVIOUS
<1>1. CASE Bcj2Next
  BY <1>1, StartStep, NormalizeStep, CopyStopsStep, CopyStep, ConvertCallStep,
     ConvertJumpStep, CheckStep DEF Bcj2Next
<1>2. CASE UNCHANGED bcj2Vars
  <2>1. /\ out' = out /\ src' = src /\ destPos' = destPos /\ ip' = ip /\ prev' = prev
        /\ outSize' = outSize /\ calls' = calls /\ jumps' = jumps
        /\ rc' = rc /\ state' = state /\ pc' = pc /\ sres' = sres
    BY <1>2 DEF bcj2Vars
  <2>2. Bcj2Inv'
    BY <2>1 DEF Bcj2Inv, Bcj2TypeOK, WriterBehindReader, NeverCutShort, PlaceInv, PhaseInv
  <2>3. UNCHANGED Merge!mergeVars  BY <2>1 DEF Merge!mergeVars
  <2> QED  BY <2>2, <2>3
<1> QED  BY <1>1, <1>2

(* In a folder whose streams are as long as its output, the writer stays    *)
(* behind the reader by exactly the words that are to come, and no word is  *)
(* ever cut at the end of the output (Bcj2.c, 7zDec.c).                     *)
THEOREM DecoderSafety == Bcj2Spec => [](Bcj2TypeOK /\ WriterBehindReader /\ NeverCutShort)
<1>1. Bcj2Inv => Bcj2TypeOK /\ WriterBehindReader /\ NeverCutShort  BY DEF Bcj2Inv
<1> QED  BY DecoderInit, DecoderStep, <1>1, PTL DEF Bcj2Spec

(* Bcj2Dec_Decode in one buffer computes the merge of separate streams.     *)
THEOREM DecoderImplementsMerge == Bcj2Spec => ImplementsMerge
BY DecoderInit, DecoderStep, PTL DEF Bcj2Spec, ImplementsMerge, Merge!MergeSpec

-----------------------------------------------------------------------------
(* The decoder of a folder                                                  *)

LEMMA DecodeCounts == \A S : Decode!Cardinality(S) = Cardinality(S)
BY DEF Decode!Cardinality, Cardinality

(* Behind coders of one stream each, the next input has the coder's number. *)
LEMMA FirstInOfSimple ==
  ASSUME NEW f, NEW c \in Nat, \A i \in 0 .. c - 1 : f.coders[i + 1].streams = 1
  PROVE  Decode!FirstIn(f, c) = c
<1>1. Decode!Inputs(f, c) = (0 .. c - 1) \X {0}
  <2>1. \A i \in 0 .. c - 1 : 0 .. f.coders[i + 1].streams - 1 = {0}
    OBVIOUS
  <2> QED BY <2>1 DEF Decode!Inputs
<1>2. IsFiniteSet(0 .. c - 1) /\ Cardinality(0 .. c - 1) = c
  BY FS_Interval
<1>3. IsFiniteSet({0}) /\ Cardinality({0}) = 1
  BY FS_Singleton
<1>4. Cardinality((0 .. c - 1) \X {0}) = c * 1
  BY <1>2, <1>3, FS_Product
<1> QED BY <1>1, <1>4, DecodeCounts DEF Decode!FirstIn

(* The three kinds of folder that are supported.                            *)
LEMMA SupportedKinds ==
  ASSUME Decode!Supported(folder)
  PROVE  \/ Decode!NumCoders = 1 /\ folder.packStreams = <<0>> /\ folder.bonds = << >>
         \/ /\ Decode!NumCoders = 2 /\ folder.packStreams = <<0>>
            /\ folder.bonds = <<[in |-> 1, out |-> 0]>>
         \/ Decode!NumCoders = 4 /\ Decode!StandardGraph(folder)
BY DEF Decode!Supported, Decode!NumCoders

(* What a supported folder looks like.                                      *)
LEMMA SupportedShape ==
  ASSUME folder \in Folders, Decode!Supported(folder)
  PROVE  /\ Decode!NumCoders \in {1, 2, 4}
         /\ folder.sizes \in Seq(Nat) /\ Len(folder.sizes) = Decode!NumCoders
         /\ folder.packPositions \in Seq(Nat)
         /\ Len(folder.packPositions) = IF Decode!NumCoders = 4 THEN 5 ELSE 2
         /\ \A i \in 0 .. (IF Decode!NumCoders = 4 THEN 3 ELSE 0) :
              /\ Decode!PackPosition(i) \in Nat /\ Decode!PackEnd(i) \in Nat
              /\ Decode!PackPosition(i) <= Decode!PackEnd(i)
         /\ \A i \in 1 .. Decode!NumCoders : folder.sizes[i] \in Nat
<1>1. Decode!WellFormed(folder)
  BY FolderAssumption
<1>2. Decode!NumCoders \in {1, 2, 4}
  BY SupportedKinds
<1>3. Len(folder.packStreams) = IF Decode!NumCoders = 4 THEN 4 ELSE 1
  <2>1. Decode!NumCoders # 4 => folder.packStreams = <<0>>
    BY SupportedKinds
  <2>2. Decode!NumCoders = 4 => folder.packStreams = <<2, 6, 1, 0>>
    BY SupportedKinds DEF Decode!StandardGraph
  <2> QED BY <2>1, <2>2
<1>4. folder.packPositions \in Seq(Nat) /\ Len(folder.packPositions) = IF Decode!NumCoders = 4 THEN 5 ELSE 2
  BY <1>1, <1>3 DEF Decode!WellFormed
<1>5. \A i \in 1 .. Len(folder.packStreams) : folder.packPositions[i] <= folder.packPositions[i + 1]
  BY <1>1 DEF Decode!WellFormed
<1>6. folder.sizes \in Seq(Nat) /\ Len(folder.sizes) = Decode!NumCoders
  BY <1>1 DEF Decode!WellFormed, Decode!NumCoders
<1>7. ASSUME NEW i \in 0 .. (IF Decode!NumCoders = 4 THEN 3 ELSE 0)
      PROVE  /\ Decode!PackPosition(i) \in Nat /\ Decode!PackEnd(i) \in Nat
             /\ Decode!PackPosition(i) <= Decode!PackEnd(i)
  <2>1. i + 1 \in 1 .. Len(folder.packStreams) /\ i + 1 \in 1 .. Len(folder.packPositions)
        /\ i + 2 \in 1 .. Len(folder.packPositions) /\ i + 2 = (i + 1) + 1
    BY <1>3, <1>4, <1>2
  <2> QED BY <1>4, <1>5, <2>1 DEF Decode!PackPosition, Decode!PackEnd
<1>8. \A i \in 1 .. Decode!NumCoders : folder.sizes[i] \in Nat
  BY <1>6
<1> QED BY <1>2, <1>4, <1>6, <1>7, <1>8

(* The output of the last coder is the folder's.                            *)
LEMMA LastCoderUnpacks ==
  ASSUME folder \in Folders, Decode!Supported(folder)
  PROVE  Decode!UnpackStream = Decode!NumCoders - 1
<1>1. Decode!NumCoders \in {1, 2, 4}
  BY SupportedShape
<1>2. CASE Decode!NumCoders = 1
  <2>1. folder.bonds = << >>
    BY <1>2, SupportedKinds
  <2> QED BY <2>1, <1>2 DEF Decode!UnpackStream
<1>3. CASE Decode!NumCoders = 2
  <2>1. folder.bonds = <<[in |-> 1, out |-> 0]>>
    BY <1>3, SupportedKinds
  <2>2. \A c \in 0 .. 1 :
          (\A i \in 1 .. Len(folder.bonds) : folder.bonds[i].out # c) <=> c = 1
    BY <2>1
  <2> QED BY <2>2, <1>3 DEF Decode!UnpackStream
<1>4. CASE Decode!NumCoders = 4
  <2>1. folder.bonds = <<[in |-> 5, out |-> 0], [in |-> 4, out |-> 1], [in |-> 3, out |-> 2]>>
    BY <1>4, SupportedKinds DEF Decode!StandardGraph
  <2>2. \A c \in 0 .. 3 :
          (\A i \in 1 .. Len(folder.bonds) : folder.bonds[i].out # c) <=> c = 3
    BY <2>1
  <2> QED BY <2>2, <1>4 DEF Decode!UnpackStream
<1> QED BY <1>1, <1>2, <1>3, <1>4

(* The methods of a supported folder's coders.                              *)
LEMMA SupportedMethods ==
  ASSUME Decode!Supported(folder)
  PROVE  /\ folder.coders[1].method \in Decode!MainMethods
         /\ Decode!NumCoders = 2 => folder.coders[2].method \in Decode!Filters
         /\ Decode!NumCoders = 4 => /\ folder.coders[2].method \in Decode!MainMethods
                             /\ folder.coders[3].method \in Decode!MainMethods
                             /\ folder.coders[4].method = "BCJ2"
BY DEF Decode!Supported, Decode!IsSupportedCoder, Decode!NumCoders

(* What the loop over the coders may take for granted.                      *)
LEMMA FineFacts ==
  ASSUME Decode!IInv, Decode!Fine
  PROVE  /\ Decode!Supported(folder) /\ Decode!NumCoders \in {1, 2, 4}
         /\ \A i \in 1 .. Decode!NumCoders : folder.sizes[i] \in Nat
         /\ \A i \in 0 .. (IF Decode!NumCoders = 4 THEN 3 ELSE 0) :
              /\ Decode!PackPosition(i) \in Nat /\ Decode!PackEnd(i) \in Nat
              /\ Decode!PackPosition(i) <= Decode!PackEnd(i)
         /\ outSizeF = folder.sizes[Decode!NumCoders]
<1>1. folder \in Folders /\ Decode!Supported(folder) /\ outSizeF = folder.sizes[Decode!UnpackStream + 1]
  BY DEF Decode!IInv, Decode!TypeOK, Decode!FolderRight
<1>2. Decode!UnpackStream = Decode!NumCoders - 1 /\ Decode!NumCoders \in {1, 2, 4}
  BY <1>1, LastCoderUnpacks, SupportedShape
<1>3. outSizeF = folder.sizes[Decode!NumCoders]
  BY <1>1, <1>2
<1> QED BY <1>1, <1>2, <1>3, SupportedShape

LEMMA InitInv == Decode!Init => Decode!IInv
<1> SUFFICES ASSUME Decode!Init PROVE Decode!IInv
  OBVIOUS
<1>1. Decode!NumCoders \in Nat
  <2>1. Decode!WellFormed(folder)
    BY FolderAssumption DEF Decode!Init
  <2> QED BY <2>1 DEF Decode!Init, Decode!WellFormed, Decode!NumCoders
<1>5. Decode!BufTypeOK
  BY FolderAssumption DEF Decode!Init, Decode!BufTypeOK
<1>6. Decode!RunTypeOK
  <2>1. /\ pcF = "check" /\ ci = 0 /\ buffer = "out" /\ limit = 0 /\ made = 0 /\ si = 0
        /\ atF = 0 /\ inSize = 0 /\ seen = 0 /\ probs = FALSE /\ resF = "SZ_OK"
    BY DEF Decode!Init
  <2>2. SizeMax \in Nat /\ Window \in Nat
    BY FolderAssumption
  <2>3. buffer \in Decode!Buffers
    BY <2>1 DEF Decode!Buffers
  <2>4. probs \in BOOLEAN
    BY <2>1
  <2> QED BY <1>1, <2>1, <2>2, <2>3, <2>4 DEF Decode!RunTypeOK
<1>2. ~Decode!Fine /\ ~Decode!Placed /\ ~Decode!Reading
  BY DEF Decode!Init, Decode!Fine, Decode!Running, Decode!Placed, Decode!Reading
<1>3. Decode!SpaceRight
  BY <1>2, FolderAssumption DEF Decode!SpaceRight, Decode!Used, Decode!Init, Decode!Temps
<1>4. Decode!StageRight
  BY DEF Decode!Init, Decode!StageRight
<1>7. Decode!TypeOK
  BY <1>5, <1>6 DEF Decode!Init, Decode!TypeOK
<1> QED BY <1>2, <1>3, <1>4, <1>7 DEF Decode!IInv, Decode!FolderRight, Decode!PlaceRight,
  Decode!InputRight, Decode!SourceRight

LEMMA Bounds == SizeMax \in Nat /\ Window \in Nat
BY FolderAssumption

(* A coder that fails leaves nothing to keep but the types, the sizes of    *)
(* the buffers and the decoder's state, which is gone.                      *)
LEMMA FailKeeps ==
  ASSUME Decode!TypeOK', Decode!Used' <= SizeMax, (tempSize3 <= outSizeF)', probs' = FALSE,
         NEW e \in Decode!Errors, Decode!Fail(e)
  PROVE  Decode!IInv'
<1>1. pcF' = "free" /\ resF' # "SZ_OK"
  BY DEF Decode!Fail, Decode!Errors
<1>2. ~Decode!Fine' /\ ~Decode!Placed' /\ ~Decode!Reading'
  BY <1>1 DEF Decode!Fine, Decode!Running, Decode!Placed, Decode!Reading
<1>3. Decode!SpaceRight'
  BY <1>2 DEF Decode!SpaceRight
<1>4. Decode!StageRight'
  BY <1>1 DEF Decode!StageRight
<1> QED BY <1>2, <1>3, <1>4 DEF Decode!IInv, Decode!FolderRight, Decode!PlaceRight,
  Decode!InputRight, Decode!SourceRight

(* What the loops do not touch stays as it is.                              *)
LEMMA SpaceKeeps ==
  ASSUME Decode!TypeOK, Decode!SpaceRight, UNCHANGED <<Decode!caseVars, tempSizes, tempSize3>>
  PROVE  Decode!Used' <= SizeMax /\ (tempSize3 <= outSizeF)'
BY DEF Decode!SpaceRight, Decode!Used, Decode!caseVars

LEMMA FolderCheckStep ==
  ASSUME Decode!IInv, Decode!CheckFolder
  PROVE  Decode!IInv'
<1> USE DEF Decode!CheckFolder
<1>0. probs = FALSE
  BY DEF Decode!IInv, Decode!StageRight, Decode!TypeOK, Decode!RunTypeOK
<1>1. UNCHANGED <<folder, outSizeF, ci, buffer, limit, made, si, atF, inSize, seen, probs,
                  tempBuf, tempSizes, tempSize3, source>>
  BY DEF Decode!caseVars, Decode!runVars, Decode!bufVars
<1>2. CASE pcF' = "coder" /\ UNCHANGED resF /\ outSizeF = folder.sizes[Decode!UnpackStream + 1]
           /\ Decode!Supported(folder)
  <2>1. Decode!RunTypeOK'
    BY <1>1, <1>2 DEF Decode!IInv, Decode!TypeOK, Decode!RunTypeOK, Decode!NumCoders
  <2>2. Decode!TypeOK'
    BY <1>1, <2>1 DEF Decode!IInv, Decode!TypeOK, Decode!BufTypeOK
  <2>3. ci = 0 /\ Decode!Fine' /\ ~Decode!Placed' /\ ~Decode!Reading'
    BY <1>2 DEF Decode!IInv, Decode!StageRight, Decode!Fine, Decode!Running, Decode!Placed,
      Decode!Reading
  <2>4. Decode!FolderRight'
    BY <1>1, <1>2 DEF Decode!FolderRight, Decode!UnpackStream, Decode!NumCoders
  <2>5. Decode!SpaceRight'
    BY <1>1, <2>3 DEF Decode!IInv, Decode!SpaceRight, Decode!Used
  <2>6. Decode!SourceRight' /\ Decode!PlaceRight' /\ Decode!InputRight'
    BY <1>1, <2>3 DEF Decode!SourceRight, Decode!PlaceRight, Decode!InputRight
  <2>7. Decode!StageRight'
    BY <1>0, <1>1, <1>2, <2>3 DEF Decode!StageRight
  <2> QED BY <2>2, <2>4, <2>5, <2>6, <2>7 DEF Decode!IInv
<1>3. CASE Decode!Fail("SZ_ERROR_FAIL") \/ Decode!Fail("SZ_ERROR_UNSUPPORTED")
  <2>1. "SZ_ERROR_FAIL" \in Decode!Errors /\ "SZ_ERROR_UNSUPPORTED" \in Decode!Errors
    BY DEF Decode!Errors
  <2>2. Decode!RunTypeOK'
    BY <1>1, <1>3, <2>1 DEF Decode!IInv, Decode!TypeOK, Decode!RunTypeOK, Decode!NumCoders,
      Decode!Fail
  <2>3. Decode!TypeOK'
    BY <1>1, <2>2 DEF Decode!IInv, Decode!TypeOK, Decode!BufTypeOK
  <2> QED BY <1>0, <1>1, <1>3, <2>1, <2>3, SpaceKeeps, FailKeeps DEF Decode!IInv, Decode!caseVars
<1> QED BY <1>2, <1>3

(* A temporary buffer for one of the coders that get one.                   *)
LEMMA PlaceTemp ==
  ASSUME Decode!IInv, pcF = "coder", Decode!NumCoders = 4, ci \in {0, 1, 3},
         Decode!AllocTemp(Decode!PlaceOf[ci + 1],
                   IF ci = 3 THEN Decode!PackEnd(1) - Decode!PackPosition(1) ELSE folder.sizes[ci + 1],
                   Decode!StreamOf[ci + 1]),
         UNCHANGED <<Decode!caseVars, ci, probs>>
  PROVE  Decode!IInv'
<1> DEFINE n == IF ci = 3 THEN Decode!PackEnd(1) - Decode!PackPosition(1) ELSE folder.sizes[ci + 1]
           b == Decode!PlaceOf[ci + 1]
<1>0. UNCHANGED <<folder, outSizeF, ci, probs>> /\ probs = FALSE
  BY DEF Decode!IInv, Decode!StageRight, Decode!TypeOK, Decode!RunTypeOK, Decode!caseVars
<1>1. Decode!Fine /\ ~Decode!Placed /\ ~Decode!Reading
  BY DEF Decode!Fine, Decode!Running, Decode!Placed, Decode!Reading
<1>2. n \in Nat
  BY <1>1, FineFacts
<1>3. b \in Decode!Temps /\ b = CASE ci = 0 -> "temp1" [] ci = 1 -> "temp0" [] ci = 3 -> "temp2"
  BY DEF Decode!Temps, Decode!PlaceOf
<1>4. CASE Decode!Fail("SZ_ERROR_MEM") /\ UNCHANGED <<Decode!runVars, Decode!bufVars>>
  <2>1. "SZ_ERROR_MEM" \in Decode!Errors
    BY DEF Decode!Errors
  <2>2. Decode!RunTypeOK'
    BY <1>0, <1>4, <2>1 DEF Decode!IInv, Decode!TypeOK, Decode!RunTypeOK, Decode!NumCoders,
      Decode!Fail, Decode!runVars
  <2>3. Decode!TypeOK'
    BY <1>0, <1>4, <2>2 DEF Decode!IInv, Decode!TypeOK, Decode!BufTypeOK, Decode!bufVars
  <2> QED BY <1>0, <1>4, <2>1, <2>3, SpaceKeeps, FailKeeps DEF Decode!IInv, Decode!caseVars,
    Decode!bufVars
<1>5. CASE /\ Decode!Used + n <= SizeMax
           /\ tempBuf' = tempBuf \cup {b} /\ tempSizes' = [tempSizes EXCEPT ![b] = n]
           /\ buffer' = b /\ limit' = n /\ made' = 0 /\ si' = Decode!StreamOf[ci + 1]
           /\ pcF' = "seek"
           /\ UNCHANGED <<resF, tempSize3, source, atF, inSize, seen>>
  <2>0. /\ outSizeF \in Nat /\ \A t \in Decode!Temps : tempSizes[t] \in Nat
        /\ tempSizes \in [Decode!Temps -> 0 .. SizeMax]
    BY DEF Decode!IInv, Decode!TypeOK, Decode!BufTypeOK
  <2>1. n \in 0 .. SizeMax
    BY <1>2, <1>5, <2>0, Bounds DEF Decode!Used, Decode!Temps
  <2>2. Decode!BufTypeOK'
    BY <1>3, <1>5, <2>1 DEF Decode!IInv, Decode!TypeOK, Decode!BufTypeOK
  <2>3. b \in Decode!Buffers /\ Decode!StreamOf[ci + 1] \in 0 .. 3
    BY <1>3 DEF Decode!Buffers, Decode!StreamOf
  <2>4. Decode!RunTypeOK'
    <3>1. /\ pcF' = "seek" /\ limit' = n /\ made' = 0 /\ buffer' = b /\ si' \in 0 .. 3
          /\ UNCHANGED <<resF, atF, inSize, seen>>
      BY <1>5, <2>3
    <3>2. limit' \in 0 .. SizeMax /\ made' \in 0 .. limit' /\ buffer' \in Decode!Buffers
      BY <2>1, <2>3, <3>1
    <3>3. Decode!NumCoders' = Decode!NumCoders
      BY <1>0 DEF Decode!NumCoders
    <3> QED BY <1>0, <3>1, <3>2, <3>3 DEF Decode!IInv, Decode!TypeOK, Decode!RunTypeOK
  <2>5. Decode!TypeOK'
    BY <1>0, <2>2, <2>4 DEF Decode!IInv, Decode!TypeOK
  <2>6. Decode!Fine' /\ Decode!Placed' /\ ~Decode!Reading'
    BY <1>5 DEF Decode!Fine, Decode!Running, Decode!Placed, Decode!Reading
  <2>7. Decode!FolderRight'
    BY <1>0, <1>1 DEF Decode!IInv, Decode!FolderRight, Decode!UnpackStream, Decode!NumCoders
  <2>8. Decode!PlaceRight'
    <3>1. Decode!NumCoders' = 4 /\ ci' = ci /\ ci < 4 /\ folder' = folder
      BY <1>0 DEF Decode!NumCoders
    <3>2. limit' = IF ci' = 3 THEN (Decode!PackEnd(1) - Decode!PackPosition(1))' ELSE folder'.sizes[ci' + 1]
      BY <1>5, <3>1 DEF Decode!PackEnd, Decode!PackPosition
    <3> QED BY <1>5, <3>1, <3>2 DEF Decode!PlaceRight
  <2>9. Decode!Used' <= SizeMax
    <3>1. \A t \in Decode!Temps : tempSizes'[t] = IF t = b THEN n ELSE tempSizes[t]
      BY <1>5, <2>0
    <3> QED BY <1>0, <1>2, <1>3, <1>5, <2>0, <3>1, Bounds DEF Decode!Used, Decode!Temps
  <2>10. Decode!SpaceRight'
    <3>1. \A t \in Decode!Temps : tempSizes'[t] = IF t = b THEN n ELSE tempSizes[t]
      BY <1>5, <2>0
    <3>2. "temp0" \in Decode!Temps /\ "temp1" \in Decode!Temps
      BY DEF Decode!Temps
    <3>3. Decode!NumCoders' = 4 /\ folder' = folder /\ ci' = ci /\ tempSize3' = tempSize3
      BY <1>0, <1>5 DEF Decode!NumCoders
    <3>4. tempSizes'["temp1"] = folder.sizes[1]
      BY <1>1, <1>3, <3>1, <3>2 DEF Decode!IInv, Decode!SpaceRight
    <3>5. ci > 0 => tempSizes'["temp0"] = folder.sizes[2]
      BY <1>1, <1>3, <3>1, <3>2 DEF Decode!IInv, Decode!SpaceRight
    <3>6. ci > 2 => tempSize3' = folder.sizes[3]
      BY <1>1, <3>3 DEF Decode!IInv, Decode!SpaceRight
    <3>7. tempSize3' <= outSizeF'
      BY <1>0, <3>3 DEF Decode!IInv, Decode!SpaceRight
    <3> QED BY <2>9, <3>3, <3>4, <3>5, <3>6, <3>7 DEF Decode!SpaceRight
  <2>11. Decode!SourceRight'
    BY <1>0, <1>1, <1>5 DEF Decode!IInv, Decode!SourceRight, Decode!NumCoders
  <2>12. Decode!InputRight' /\ Decode!StageRight'
    BY <1>0, <1>5, <2>6 DEF Decode!InputRight, Decode!StageRight
  <2> QED BY <2>5, <2>7, <2>8, <2>10, <2>11, <2>12 DEF Decode!IInv
<1> QED BY <1>4, <1>5 DEF Decode!AllocTemp

LEMMA PlaceRcStep ==
  ASSUME Decode!IInv, Decode!PlaceRc
  PROVE  Decode!IInv'
<1>1. Decode!Fine /\ ci = 3
  BY DEF Decode!PlaceRc, Decode!Fine, Decode!Running
<1>2. Decode!NumCoders = 4
  BY <1>1, FineFacts DEF Decode!IInv, Decode!TypeOK, Decode!RunTypeOK
<1>3. Decode!PlaceOf[ci + 1] = "temp2" /\ Decode!StreamOf[ci + 1] = 1
  BY <1>1 DEF Decode!PlaceOf, Decode!StreamOf
<1> QED BY <1>1, <1>2, <1>3, PlaceTemp DEF Decode!PlaceRc

LEMMA PlaceOutputStep ==
  ASSUME Decode!IInv, Decode!PlaceOutput
  PROVE  Decode!IInv'
<1>0. /\ UNCHANGED <<folder, outSizeF, ci, probs>> /\ probs = FALSE
      /\ Decode!Fine /\ ~Decode!Placed /\ ~Decode!Reading /\ pcF = "coder" /\ ci < Decode!NumCoders
      /\ Decode!coder.method \in Decode!MainMethods
  BY DEF Decode!IInv, Decode!StageRight, Decode!TypeOK, Decode!RunTypeOK, Decode!PlaceOutput,
    Decode!caseVars, Decode!Fine, Decode!Running, Decode!Placed, Decode!Reading
<1>1. CASE /\ Decode!NumCoders # 4
           /\ buffer' = "out" /\ limit' = outSizeF /\ made' = 0 /\ si' = 0
           /\ pcF' = "seek"
           /\ UNCHANGED <<Decode!bufVars, resF, atF, inSize, seen>>
  <2>1. ci = 0
    <3>1. ci \in Nat
      BY DEF Decode!IInv, Decode!TypeOK, Decode!RunTypeOK
    <3>2. Decode!NumCoders = 2 => folder.coders[2].method \notin Decode!MainMethods
      BY <1>0, FineFacts, SupportedMethods DEF Decode!Filters, Decode!MainMethods
    <3> QED BY <1>0, <1>1, <3>1, <3>2, FineFacts DEF Decode!coder
  <2>2. Decode!TypeOK'
    <3>1. Decode!RunTypeOK'
      <4>1. "out" \in Decode!Buffers
        BY DEF Decode!Buffers
      <4> QED BY <1>0, <1>1, <4>1, Bounds DEF Decode!IInv, Decode!TypeOK, Decode!RunTypeOK,
        Decode!NumCoders
    <3> QED BY <1>0, <1>1, <3>1 DEF Decode!IInv, Decode!TypeOK, Decode!BufTypeOK, Decode!bufVars
  <2>3. Decode!Fine' /\ Decode!Placed' /\ ~Decode!Reading' /\ Decode!NumCoders' # 4
    BY <1>0, <1>1 DEF Decode!Fine, Decode!Running, Decode!Placed, Decode!Reading, Decode!NumCoders
  <2>4. Decode!FolderRight'
    BY <1>0 DEF Decode!IInv, Decode!FolderRight, Decode!UnpackStream, Decode!NumCoders
  <2>5. Decode!PlaceRight'
    BY <1>0, <1>1, <2>1 DEF Decode!PlaceRight, Decode!NumCoders
  <2>6. Decode!SpaceRight'
    BY <1>0, <1>1, <2>3, SpaceKeeps DEF Decode!SpaceRight, Decode!IInv, Decode!caseVars,
      Decode!bufVars
  <2>7. Decode!SourceRight'
    BY <1>0, <2>1, <2>3 DEF Decode!SourceRight
  <2>8. Decode!InputRight' /\ Decode!StageRight'
    BY <1>0, <1>1, <2>3 DEF Decode!InputRight, Decode!StageRight
  <2> QED BY <2>2, <2>4, <2>5, <2>6, <2>7, <2>8 DEF Decode!IInv
<1>2. CASE Decode!NumCoders = 4 /\ ci < 2 /\ Decode!AllocTemp(IF ci = 0 THEN "temp1" ELSE "temp0",
                                               folder.sizes[ci + 1], Decode!PackIndex[ci + 1])
  <2>1. ci \in {0, 1}
    BY <1>2 DEF Decode!IInv, Decode!TypeOK, Decode!RunTypeOK
  <2>2. /\ Decode!PlaceOf[ci + 1] = (IF ci = 0 THEN "temp1" ELSE "temp0")
        /\ Decode!StreamOf[ci + 1] = Decode!PackIndex[ci + 1]
    BY <2>1 DEF Decode!PlaceOf, Decode!StreamOf, Decode!PackIndex
  <2> QED BY <1>0, <1>2, <2>1, <2>2, PlaceTemp DEF Decode!PlaceOutput
<1>3. CASE /\ Decode!NumCoders = 4 /\ ci = 2
           /\ IF folder.sizes[ci + 1] > outSizeF
              THEN Decode!Fail("SZ_ERROR_PARAM") /\ UNCHANGED <<Decode!bufVars, Decode!runVars>>
              ELSE /\ tempSize3' = folder.sizes[ci + 1]
                   /\ buffer' = "end" /\ limit' = folder.sizes[ci + 1]
                   /\ made' = 0 /\ si' = Decode!PackIndex[3]
                   /\ pcF' = "seek"
                   /\ UNCHANGED <<resF, tempBuf, tempSizes, source, atF, inSize, seen>>
  <2>1. CASE folder.sizes[3] > outSizeF
    <3>1. "SZ_ERROR_PARAM" \in Decode!Errors
      BY DEF Decode!Errors
    <3>2. Decode!Fail("SZ_ERROR_PARAM") /\ UNCHANGED <<Decode!bufVars, Decode!runVars>>
      BY <1>3, <2>1
    <3>3. Decode!RunTypeOK'
      BY <1>0, <3>1, <3>2 DEF Decode!IInv, Decode!TypeOK, Decode!RunTypeOK, Decode!NumCoders,
        Decode!Fail, Decode!runVars
    <3>4. Decode!TypeOK'
      BY <1>0, <3>2, <3>3 DEF Decode!IInv, Decode!TypeOK, Decode!BufTypeOK, Decode!bufVars
    <3> QED BY <1>0, <3>1, <3>2, <3>4, SpaceKeeps, FailKeeps DEF Decode!IInv, Decode!caseVars,
      Decode!bufVars
  <2>2. CASE ~(folder.sizes[3] > outSizeF)
    <3>1. /\ tempSize3' = folder.sizes[3] /\ buffer' = "end" /\ limit' = folder.sizes[3]
          /\ made' = 0 /\ si' = 0 /\ pcF' = "seek"
          /\ UNCHANGED <<resF, tempBuf, tempSizes, source, atF, inSize, seen>>
      BY <1>3, <2>2 DEF Decode!PackIndex
    <3>2. folder.sizes[3] \in Nat /\ outSizeF \in 0 .. SizeMax
      BY <1>0, <1>3, FineFacts DEF Decode!IInv, Decode!TypeOK
    <3>3. folder.sizes[3] \in 0 .. SizeMax /\ folder.sizes[3] <= outSizeF
      BY <2>2, <3>2, Bounds
    <3>4. "end" \in Decode!Buffers
      BY DEF Decode!Buffers
    <3>5. Decode!RunTypeOK'
      BY <1>0, <3>1, <3>3, <3>4, Bounds DEF Decode!IInv, Decode!TypeOK, Decode!RunTypeOK,
        Decode!NumCoders
    <3>6. Decode!TypeOK'
      BY <1>0, <3>1, <3>3, <3>5 DEF Decode!IInv, Decode!TypeOK, Decode!BufTypeOK
    <3>7. Decode!Fine' /\ Decode!Placed' /\ ~Decode!Reading' /\ Decode!NumCoders' = 4 /\ ci' = 2
      BY <1>0, <1>3, <3>1 DEF Decode!Fine, Decode!Running, Decode!Placed, Decode!Reading,
        Decode!NumCoders
    <3>8. Decode!FolderRight'
      BY <1>0 DEF Decode!IInv, Decode!FolderRight, Decode!UnpackStream, Decode!NumCoders
    <3>9. Decode!PlaceRight'
      BY <1>0, <1>3, <3>1 DEF Decode!PlaceRight, Decode!NumCoders, Decode!PlaceOf, Decode!StreamOf
    <3>10. Decode!SpaceRight'
      BY <1>0, <1>3, <3>1, <3>3, <3>7 DEF Decode!IInv, Decode!SpaceRight, Decode!Used
    <3>11. Decode!SourceRight'
      BY <1>0, <1>3, <3>1, <3>7 DEF Decode!IInv, Decode!SourceRight
    <3>12. Decode!InputRight' /\ Decode!StageRight'
      BY <1>0, <3>1, <3>7 DEF Decode!InputRight, Decode!StageRight
    <3> QED BY <3>6, <3>8, <3>9, <3>10, <3>11, <3>12 DEF Decode!IInv
  <2> QED BY <2>1, <2>2
<1> QED BY <1>1, <1>2, <1>3 DEF Decode!PlaceOutput

(* A step inside the loop of one coder.                                     *)
LEMMA LoopKeeps ==
  ASSUME Decode!IInv, Decode!Placed, Decode!Placed',
         UNCHANGED <<folder, outSizeF, ci, buffer, limit, si, tempBuf, tempSizes, tempSize3, source>>
  PROVE  Decode!FolderRight' /\ Decode!PlaceRight' /\ Decode!SpaceRight' /\ Decode!SourceRight' /\ Decode!BufTypeOK'
<1>1. Decode!Fine /\ Decode!Fine' /\ Decode!NumCoders' = Decode!NumCoders
  BY DEF Decode!Fine, Decode!Running, Decode!Placed, Decode!Reading, Decode!NumCoders
<1>2. Decode!FolderRight'
  BY <1>1 DEF Decode!IInv, Decode!FolderRight, Decode!UnpackStream, Decode!NumCoders
<1>3. Decode!PlaceRight'
  BY <1>1 DEF Decode!IInv, Decode!PlaceRight, Decode!PackEnd, Decode!PackPosition
<1>4. Decode!SpaceRight'
  BY <1>1 DEF Decode!IInv, Decode!SpaceRight, Decode!Used
<1>5. Decode!SourceRight'
  BY <1>1 DEF Decode!IInv, Decode!SourceRight
<1> QED BY <1>2, <1>3, <1>4, <1>5 DEF Decode!IInv, Decode!TypeOK, Decode!BufTypeOK

LEMMA FailStep ==
  ASSUME Decode!IInv, NEW e \in Decode!Errors, Decode!Fail(e), probs' = FALSE,
         made' \in 0 .. limit, atF' \in Nat, inSize' \in Nat, seen' \in 0 .. Window,
         UNCHANGED <<folder, outSizeF, ci, buffer, limit, si, tempBuf, tempSizes, tempSize3, source>>
  PROVE  Decode!IInv'
<1>1. Decode!RunTypeOK'
  BY DEF Decode!IInv, Decode!TypeOK, Decode!RunTypeOK, Decode!Fail, Decode!NumCoders
<1>2. Decode!TypeOK'
  BY <1>1 DEF Decode!IInv, Decode!TypeOK, Decode!BufTypeOK
<1> QED BY <1>2, SpaceKeeps, FailKeeps DEF Decode!IInv, Decode!caseVars

LEMMA FolderSeekStep ==
  ASSUME Decode!IInv, Decode!SeekTo
  PROVE  Decode!IInv'
<1>0. /\ UNCHANGED <<folder, outSizeF, ci, buffer, limit, made, si, seen, probs,
                     tempBuf, tempSizes, tempSize3, source>>
      /\ Decode!Placed /\ Decode!Fine /\ probs = FALSE
  BY DEF Decode!SeekTo, Decode!caseVars, Decode!bufVars, Decode!Placed, Decode!Fine,
    Decode!Running, Decode!IInv, Decode!StageRight, Decode!TypeOK, Decode!RunTypeOK
<1>1. made \in 0 .. limit /\ atF \in Nat /\ inSize \in Nat /\ seen \in 0 .. Window
  BY DEF Decode!IInv, Decode!TypeOK, Decode!RunTypeOK
<1>2. "SZ_ERROR_DATA" \in Decode!Errors /\ "SZ_ERROR_READ" \in Decode!Errors
  BY DEF Decode!Errors
<1>3. CASE Decode!Fail("SZ_ERROR_READ") /\ UNCHANGED <<atF, inSize>>
  BY <1>0, <1>1, <1>2, <1>3, FailStep
<1>4. CASE /\ atF' = Decode!PackPosition(si) /\ inSize' = Decode!PackEnd(si) - Decode!PackPosition(si)
           /\ IF Decode!coder.method = "Copy" /\ inSize' # limit THEN Decode!Fail("SZ_ERROR_DATA")
              ELSE pcF' = (IF Decode!Copies THEN "look" ELSE "alloc") /\ UNCHANGED resF
  <2>0. si \in 0 .. (IF Decode!NumCoders = 4 THEN 3 ELSE 0)
    BY <1>0 DEF Decode!IInv, Decode!PlaceRight, Decode!TypeOK, Decode!RunTypeOK
  <2>1. atF' \in Nat /\ inSize' \in Nat /\ Decode!PackPosition(si) \in Nat /\ Decode!PackEnd(si) \in Nat
    BY <1>0, <1>4, <2>0, FineFacts
  <2>2. CASE Decode!coder.method = "Copy" /\ inSize' # limit
    BY <1>0, <1>1, <1>2, <1>4, <2>1, <2>2, FailStep
  <2>3. CASE ~(Decode!coder.method = "Copy" /\ inSize' # limit)
    <3>1. pcF' = (IF Decode!Copies THEN "look" ELSE "alloc") /\ UNCHANGED resF
      BY <1>4, <2>3
    <3>2. pcF' \in {"look", "alloc"} /\ (Decode!Copies => pcF' = "look")
      BY <3>1
    <3>3. Decode!RunTypeOK'
      BY <1>0, <1>1, <2>1, <3>1, <3>2 DEF Decode!IInv, Decode!TypeOK, Decode!RunTypeOK,
        Decode!NumCoders
    <3>4. Decode!Placed'
      BY <3>2 DEF Decode!Placed, Decode!Reading
    <3>5. Decode!TypeOK' /\ Decode!FolderRight' /\ Decode!PlaceRight' /\ Decode!SpaceRight' /\ Decode!SourceRight'
      BY <1>0, <3>3, <3>4, LoopKeeps DEF Decode!IInv, Decode!TypeOK
    <3>6. Decode!Copies' = Decode!Copies
      BY <1>0 DEF Decode!Copies, Decode!coder
    <3>7. Decode!Copies => made = 0 /\ inSize' = limit
      <4>1. made = 0
        BY DEF Decode!IInv, Decode!SeekTo, Decode!StageRight
      <4>2. CASE Decode!coder.method = "Copy"
        BY <2>3, <4>1, <4>2
      <4>3. CASE Decode!coder.method = "BCJ2"
        <5>1. Decode!NumCoders = 4 /\ ci = 3
          BY <1>0, <4>3, FineFacts, SupportedMethods
          DEF Decode!coder, Decode!MainMethods, Decode!Filters, Decode!IInv, Decode!PlaceRight,
            Decode!TypeOK, Decode!RunTypeOK
        <5>2. si = 1 /\ limit = Decode!PackEnd(1) - Decode!PackPosition(1)
          BY <1>0, <5>1 DEF Decode!IInv, Decode!PlaceRight, Decode!StreamOf
        <5> QED BY <1>4, <4>1, <5>2
      <4> QED BY <4>2, <4>3 DEF Decode!Copies
    <3>8. Decode!InputRight'
      <4>1. Decode!PackPosition(si)' = Decode!PackPosition(si) /\ Decode!PackEnd(si)' = Decode!PackEnd(si)
        BY <1>0 DEF Decode!PackPosition, Decode!PackEnd
      <4> QED BY <1>0, <1>1, <1>4, <2>1, <3>2, <3>6, <3>7, <4>1 DEF Decode!InputRight
    <3>9. Decode!StageRight'
      BY <1>0, <3>2 DEF Decode!StageRight
    <3> QED BY <3>5, <3>8, <3>9 DEF Decode!IInv
  <2> QED BY <2>2, <2>3
<1> QED BY <1>3, <1>4 DEF Decode!SeekTo

LEMMA AllocStep ==
  ASSUME Decode!IInv, Decode!AllocProbs
  PROVE  Decode!IInv'
<1>0. /\ UNCHANGED <<folder, outSizeF, ci, buffer, limit, made, si, atF, inSize, seen,
                     tempBuf, tempSizes, tempSize3, source>>
      /\ Decode!Placed /\ pcF = "alloc" /\ probs = FALSE /\ ~Decode!Copies
  BY DEF Decode!AllocProbs, Decode!caseVars, Decode!runVars, Decode!bufVars, Decode!Placed,
    Decode!Reading, Decode!IInv, Decode!InputRight, Decode!StageRight,
         Decode!TypeOK, Decode!RunTypeOK
<1>1. made \in 0 .. limit /\ atF \in Nat /\ inSize \in Nat /\ seen \in 0 .. Window
  BY DEF Decode!IInv, Decode!TypeOK, Decode!RunTypeOK
<1>2. CASE probs' = TRUE /\ pcF' = "look" /\ UNCHANGED resF
  <2>1. Decode!RunTypeOK'
    BY <1>0, <1>1, <1>2 DEF Decode!IInv, Decode!TypeOK, Decode!RunTypeOK, Decode!NumCoders
  <2>2. Decode!Placed' /\ Decode!Copies' = Decode!Copies
    BY <1>0, <1>2 DEF Decode!Placed, Decode!Reading, Decode!Copies, Decode!coder
  <2>3. Decode!TypeOK' /\ Decode!FolderRight' /\ Decode!PlaceRight' /\ Decode!SpaceRight' /\ Decode!SourceRight'
    BY <1>0, <2>1, <2>2, LoopKeeps DEF Decode!IInv, Decode!TypeOK
  <2>4. Decode!InputRight'
    BY <1>0, <1>2, <2>2 DEF Decode!IInv, Decode!InputRight, Decode!PackPosition, Decode!PackEnd,
      Decode!Reading
  <2>5. Decode!StageRight'
    BY <1>0, <1>2, <2>2 DEF Decode!StageRight
  <2> QED BY <2>3, <2>4, <2>5 DEF Decode!IInv
<1>3. CASE /\ \E e \in {"SZ_ERROR_MEM", "SZ_ERROR_UNSUPPORTED", "SZ_ERROR_DATA"} : Decode!Fail(e)
           /\ UNCHANGED probs
  <2>1. {"SZ_ERROR_MEM", "SZ_ERROR_UNSUPPORTED", "SZ_ERROR_DATA"} \subseteq Decode!Errors
    BY DEF Decode!Errors
  <2> QED BY <1>0, <1>1, <1>3, <2>1, FailStep
<1> QED BY <1>2, <1>3 DEF Decode!AllocProbs

LEMMA FolderLookStep ==
  ASSUME Decode!IInv, Decode!Look
  PROVE  Decode!IInv'
<1>0. /\ UNCHANGED <<folder, outSizeF, ci, buffer, limit, made, si, atF, inSize,
                     tempBuf, tempSizes, tempSize3, source>>
      /\ Decode!Placed /\ pcF = "look"
  BY DEF Decode!Look, Decode!caseVars, Decode!bufVars, Decode!Placed, Decode!Reading
<1>1. made \in 0 .. limit /\ atF \in Nat /\ inSize \in Nat /\ seen \in 0 .. Window
  BY DEF Decode!IInv, Decode!TypeOK, Decode!RunTypeOK
<1>2. CASE /\ seen' \in {n \in 0 .. Window : n <= inSize}
           /\ pcF' = "chunk" /\ UNCHANGED <<probs, resF>>
  <2>1. Decode!RunTypeOK'
    BY <1>0, <1>1, <1>2 DEF Decode!IInv, Decode!TypeOK, Decode!RunTypeOK, Decode!NumCoders
  <2>2. Decode!Placed' /\ Decode!Copies' = Decode!Copies
    BY <1>0, <1>2 DEF Decode!Placed, Decode!Reading, Decode!Copies, Decode!coder
  <2>3. Decode!TypeOK' /\ Decode!FolderRight' /\ Decode!PlaceRight' /\ Decode!SpaceRight' /\ Decode!SourceRight'
    BY <1>0, <2>1, <2>2, LoopKeeps DEF Decode!IInv, Decode!TypeOK
  <2>4. Decode!InputRight'
    BY <1>0, <1>2, <2>2 DEF Decode!IInv, Decode!InputRight, Decode!PackPosition, Decode!PackEnd,
      Decode!Reading
  <2>5. Decode!StageRight'
    BY <1>0, <1>2, <2>2 DEF Decode!IInv, Decode!StageRight
  <2> QED BY <2>3, <2>4, <2>5 DEF Decode!IInv
<1>3. CASE Decode!Fail("SZ_ERROR_READ") /\ probs' = FALSE /\ UNCHANGED seen
  <2>1. "SZ_ERROR_READ" \in Decode!Errors
    BY DEF Decode!Errors
  <2> QED BY <1>0, <1>1, <1>3, <2>1, FailStep
<1> QED BY <1>2, <1>3 DEF Decode!Look

LEMMA CopyChunkStep ==
  ASSUME Decode!IInv, Decode!CopyChunk
  PROVE  Decode!IInv'
<1>0. /\ UNCHANGED <<folder, outSizeF, ci, buffer, limit, si, seen, probs,
                     tempBuf, tempSizes, tempSize3, source>>
      /\ Decode!Placed /\ Decode!Reading /\ pcF = "chunk" /\ Decode!Copies /\ probs = FALSE
  BY DEF Decode!CopyChunk, Decode!caseVars, Decode!bufVars, Decode!Placed, Decode!Reading,
    Decode!IInv, Decode!StageRight, Decode!TypeOK, Decode!RunTypeOK
<1>1. made \in 0 .. limit /\ atF \in Nat /\ inSize \in Nat /\ seen \in 0 .. Window /\ limit \in Nat
  BY DEF Decode!IInv, Decode!TypeOK, Decode!RunTypeOK
<1>2. seen <= inSize /\ made + inSize = limit /\ atF >= Decode!PackPosition(si) /\ atF + inSize <= Decode!PackEnd(si)
  BY <1>0 DEF Decode!IInv, Decode!InputRight
<1>3. CASE seen = 0
  <2>1. "SZ_ERROR_INPUT_EOF" \in Decode!Errors
    BY DEF Decode!Errors
  <2>2. Decode!Fail("SZ_ERROR_INPUT_EOF") /\ UNCHANGED <<made, atF, inSize>>
    BY <1>3 DEF Decode!CopyChunk
  <2> QED BY <1>0, <1>1, <2>1, <2>2, FailStep
<1>4. CASE seen # 0
  <2>0. /\ made' = made + seen /\ atF' = atF + seen /\ inSize' = inSize - seen
        /\ pcF' = "look" /\ UNCHANGED resF
    BY <1>4 DEF Decode!CopyChunk
  <2>1. made' \in 0 .. limit' /\ atF' \in Nat /\ inSize' \in Nat /\ made' + inSize' = limit'
    BY <1>0, <1>1, <1>2, <2>0
  <2>2. Decode!RunTypeOK'
    BY <1>0, <1>1, <2>0, <2>1 DEF Decode!IInv, Decode!TypeOK, Decode!RunTypeOK, Decode!NumCoders
  <2>3. Decode!Placed' /\ Decode!Copies' = Decode!Copies
    BY <1>0, <2>0 DEF Decode!Placed, Decode!Reading, Decode!Copies, Decode!coder
  <2>4. Decode!TypeOK' /\ Decode!FolderRight' /\ Decode!PlaceRight' /\ Decode!SpaceRight' /\ Decode!SourceRight'
    BY <1>0, <2>2, <2>3, LoopKeeps DEF Decode!IInv, Decode!TypeOK
  <2>5. Decode!PackPosition(si)' = Decode!PackPosition(si) /\ Decode!PackEnd(si)' = Decode!PackEnd(si)
    BY <1>0 DEF Decode!PackPosition, Decode!PackEnd
  <2>6. Decode!PackPosition(si) \in Nat /\ Decode!PackEnd(si) \in Nat
    <3>1. Decode!Fine
      BY <1>0 DEF Decode!Fine, Decode!Running
    <3>2. si \in 0 .. (IF Decode!NumCoders = 4 THEN 3 ELSE 0)
      BY <1>0 DEF Decode!IInv, Decode!PlaceRight, Decode!TypeOK, Decode!RunTypeOK
    <3> QED BY <3>1, <3>2, FineFacts
  <2>7. Decode!InputRight'
    BY <1>1, <1>2, <2>0, <2>1, <2>3, <2>5, <2>6 DEF Decode!InputRight
  <2>8. Decode!StageRight'
    BY <1>0, <2>0 DEF Decode!StageRight
  <2> QED BY <2>4, <2>7, <2>8 DEF Decode!IInv
<1> QED BY <1>3, <1>4

(* A coder that is through has filled its buffer.                           *)
LEMMA DoneKeeps ==
  ASSUME Decode!IInv, Decode!Reading, Decode!CoderDone(limit),
         made' \in 0 .. limit, atF' \in Nat, inSize' \in Nat,
         UNCHANGED <<folder, outSizeF, buffer, limit, si, seen, tempBuf, tempSizes, tempSize3, resF>>
  PROVE  Decode!IInv'
<1>0. /\ Decode!Placed /\ Decode!Fine /\ ci < Decode!NumCoders /\ ci \in 0 .. 3 /\ probs' = FALSE
      /\ Decode!NumCoders \in {1, 2, 4} /\ limit \in 0 .. SizeMax
  <2>1. Decode!Placed /\ Decode!Fine
    BY DEF Decode!Placed, Decode!Reading, Decode!Fine, Decode!Running
  <2> QED BY <2>1, FineFacts DEF Decode!IInv, Decode!PlaceRight, Decode!TypeOK, Decode!RunTypeOK,
    Decode!CoderDone
<1>1. IF Decode!coder.method = "BCJ2" THEN pcF' = "merge" /\ ci' = ci ELSE pcF' = "coder" /\ ci' = ci + 1
  BY DEF Decode!CoderDone
<1>2. Decode!coder.method = "BCJ2" => ci = 3 /\ Decode!NumCoders = 4
  BY <1>0, FineFacts, SupportedMethods DEF Decode!coder, Decode!MainMethods, Decode!Filters
<1>3. Decode!NumCoders = 4 /\ ci = 3 => Decode!coder.method = "BCJ2"
  BY <1>0, FineFacts, SupportedMethods DEF Decode!coder
<1>4. Decode!NumCoders' = Decode!NumCoders /\ Decode!Fine' /\ ~Decode!Placed' /\ ~Decode!Reading'
  BY <1>1 DEF Decode!NumCoders, Decode!Fine, Decode!Running, Decode!Placed, Decode!Reading
<1>5. source' = [source EXCEPT ![buffer] = [by |-> ci, bytes |-> limit]] /\ buffer \in Decode!Buffers
  BY DEF Decode!CoderDone, Decode!IInv, Decode!TypeOK, Decode!RunTypeOK
<1>6. Decode!BufTypeOK'
  BY <1>0, <1>5 DEF Decode!IInv, Decode!TypeOK, Decode!BufTypeOK
<1>7. Decode!RunTypeOK'
  <2>1. pcF' \in {"merge", "coder"} /\ ci' \in 0 .. Decode!NumCoders'
    BY <1>0, <1>1, <1>4
  <2> QED BY <1>0, <2>1 DEF Decode!IInv, Decode!TypeOK, Decode!RunTypeOK
<1>8. Decode!TypeOK'
  BY <1>6, <1>7 DEF Decode!IInv, Decode!TypeOK
<1>9. Decode!FolderRight'
  BY <1>0 DEF Decode!IInv, Decode!FolderRight, Decode!UnpackStream, Decode!NumCoders
<1>10. Decode!SpaceRight'
  <2>1. Decode!NumCoders = 4 => ci' \in {ci, ci + 1} /\ (ci' = ci => ci = 3)
    BY <1>0, <1>1, <1>2
  <2> QED BY <1>0, <1>4, <2>1 DEF Decode!IInv, Decode!SpaceRight, Decode!Used
<1>11. Decode!SourceRight'
  <2>0. source \in [Decode!Buffers -> [by : -1 .. 3, bytes : 0 .. SizeMax]]
    BY DEF Decode!IInv, Decode!TypeOK, Decode!BufTypeOK
  <2>1. ASSUME Decode!NumCoders = 4, NEW c \in 0 .. 2, ci' > c
        PROVE  source'[Decode!PlaceOf[c + 1]] = [by |-> c, bytes |-> folder.sizes[c + 1]]
    <3>1. buffer = Decode!PlaceOf[ci + 1] /\ (ci # 3 => limit = folder.sizes[ci + 1])
      BY <1>0, <2>1 DEF Decode!IInv, Decode!PlaceRight
    <3>2. Decode!PlaceOf[c + 1] \in Decode!Buffers
      BY DEF Decode!PlaceOf, Decode!Buffers, Decode!Temps
    <3>3. CASE c = ci
      BY <1>5, <2>0, <3>1, <3>2, <3>3
    <3>4. CASE c # ci
      <4>1. ci > c
        BY <1>0, <1>1, <2>1, <3>4
      <4>2. Decode!PlaceOf[c + 1] # buffer
        BY <1>0, <3>1, <3>4 DEF Decode!PlaceOf
      <4> QED BY <1>0, <1>5, <2>0, <2>1, <3>2, <4>1, <4>2 DEF Decode!IInv, Decode!SourceRight
    <3> QED BY <3>3, <3>4
  <2>2. Decode!NumCoders = 4 => ci' # 4
    BY <1>0, <1>1, <1>3
  <2>3. Decode!NumCoders # 4 => source'["out"] = [by |-> ci' - 1, bytes |-> outSizeF']
    <3>1. Decode!NumCoders # 4 => buffer = "out" /\ limit = outSizeF /\ ci = 0 /\ ci' = 1
      BY <1>0, <1>1, <1>2 DEF Decode!IInv, Decode!PlaceRight
    <3> QED BY <1>5, <2>0, <3>1
  <2> QED BY <1>4, <2>1, <2>2, <2>3 DEF Decode!SourceRight
<1>12. Decode!StageRight' /\ Decode!PlaceRight' /\ Decode!InputRight'
  BY <1>0, <1>1, <1>2, <1>4 DEF Decode!StageRight, Decode!PlaceRight, Decode!InputRight
<1> QED BY <1>8, <1>9, <1>10, <1>11, <1>12 DEF Decode!IInv

LEMMA CopyDoneStep ==
  ASSUME Decode!IInv, Decode!CopyDone
  PROVE  Decode!IInv'
<1>1. /\ Decode!Reading /\ made = limit
      /\ UNCHANGED <<folder, outSizeF, buffer, limit, made, si, atF, inSize, seen,
                     tempBuf, tempSizes, tempSize3, resF>>
  BY DEF Decode!CopyDone, Decode!Reading, Decode!IInv, Decode!InputRight, Decode!TypeOK,
    Decode!RunTypeOK, Decode!caseVars, Decode!runVars
<1>2. Decode!CoderDone(limit)
  BY <1>1 DEF Decode!CopyDone
<1> QED BY <1>1, <1>2, DoneKeeps DEF Decode!IInv, Decode!TypeOK, Decode!RunTypeOK

LEMMA DecodeStep ==
  ASSUME Decode!IInv, Decode!DecodeChunk
  PROVE  Decode!IInv'
<1>0. /\ UNCHANGED <<folder, outSizeF, buffer, limit, si, seen, tempBuf, tempSizes, tempSize3>>
      /\ Decode!Placed /\ Decode!Reading /\ Decode!Fine /\ pcF = "chunk" /\ ~Decode!Copies
  BY DEF Decode!DecodeChunk, Decode!caseVars, Decode!Placed, Decode!Reading, Decode!Fine,
    Decode!Running
<1>1. made \in 0 .. limit /\ atF \in Nat /\ inSize \in Nat /\ seen \in 0 .. Window /\ limit \in Nat
  BY DEF Decode!IInv, Decode!TypeOK, Decode!RunTypeOK
<1>2. seen <= inSize /\ atF >= Decode!PackPosition(si) /\ atF + inSize <= Decode!PackEnd(si)
  BY <1>0 DEF Decode!IInv, Decode!InputRight
<1>3. "SZ_ERROR_DATA" \in Decode!Errors /\ "SZ_ERROR_FAIL" \in Decode!Errors
  BY DEF Decode!Errors
<1>4. CASE /\ \E e \in {"SZ_ERROR_DATA", "SZ_ERROR_FAIL"} : Decode!Fail(e)
           /\ probs' = FALSE
           /\ UNCHANGED <<ci, made, atF, inSize, source>>
  BY <1>0, <1>1, <1>3, <1>4, FailStep
<1>5. ASSUME NEW k \in 0 .. seen, NEW p \in 0 .. limit - made,
             NEW status \in {"FINISHED_WITH_MARK", "MAYBE_FINISHED_WITHOUT_MARK",
                             "NEEDS_MORE_INPUT"},
             made' = made + p, inSize' = inSize - k,
             IF Decode!MayEnd(k, p, status) /\ Decode!Whole(k, p)
             THEN Decode!CoderDone(made + p) /\ UNCHANGED <<atF, resF>>
             ELSE IF Decode!MayEnd(k, p, status) \/ Decode!Stuck(k, p)
             THEN Decode!Fail("SZ_ERROR_DATA") /\ probs' = FALSE /\ UNCHANGED <<ci, atF, source>>
             ELSE atF' = atF + k /\ pcF' = "look" /\ UNCHANGED <<ci, probs, source, resF>>
      PROVE  Decode!IInv'
  <2>0. made' \in 0 .. limit /\ inSize' \in Nat
    BY <1>0, <1>1, <1>2, <1>5
  <2>1. CASE Decode!MayEnd(k, p, status) /\ Decode!Whole(k, p)
    <3>1. Decode!CoderDone(limit) /\ UNCHANGED <<atF, resF>>
      BY <1>5, <2>1 DEF Decode!Whole
    <3> QED BY <1>0, <1>1, <2>0, <3>1, DoneKeeps
  <2>2. CASE ~(Decode!MayEnd(k, p, status) /\ Decode!Whole(k, p)) /\ (Decode!MayEnd(k, p, status) \/ Decode!Stuck(k, p))
    <3>1. Decode!Fail("SZ_ERROR_DATA") /\ probs' = FALSE /\ UNCHANGED <<ci, atF, source>>
      BY <1>5, <2>2
    <3> QED BY <1>0, <1>1, <1>3, <2>0, <3>1, FailStep
  <2>3. CASE ~Decode!MayEnd(k, p, status) /\ ~Decode!Stuck(k, p)
    <3>0. atF' = atF + k /\ pcF' = "look" /\ UNCHANGED <<ci, probs, source, resF>>
      BY <1>5, <2>3
    <3>1. atF' \in Nat
      BY <1>1, <3>0
    <3>2. Decode!RunTypeOK'
      BY <1>0, <1>1, <2>0, <3>0, <3>1 DEF Decode!IInv, Decode!TypeOK, Decode!RunTypeOK,
        Decode!NumCoders
    <3>3. Decode!Placed' /\ Decode!Copies' = Decode!Copies
      BY <1>0, <3>0 DEF Decode!Placed, Decode!Reading, Decode!Copies, Decode!coder
    <3>4. Decode!TypeOK' /\ Decode!FolderRight' /\ Decode!PlaceRight' /\ Decode!SpaceRight' /\ Decode!SourceRight'
      BY <1>0, <3>0, <3>2, <3>3, LoopKeeps DEF Decode!IInv, Decode!TypeOK
    <3>5. Decode!PackPosition(si)' = Decode!PackPosition(si) /\ Decode!PackEnd(si)' = Decode!PackEnd(si)
      BY <1>0 DEF Decode!PackPosition, Decode!PackEnd
    <3>6. Decode!PackPosition(si) \in Nat /\ Decode!PackEnd(si) \in Nat
      <4>1. si \in 0 .. (IF Decode!NumCoders = 4 THEN 3 ELSE 0)
        BY <1>0 DEF Decode!IInv, Decode!PlaceRight, Decode!TypeOK, Decode!RunTypeOK
      <4> QED BY <1>0, <4>1, FineFacts
    <3>7. atF' >= Decode!PackPosition(si)' /\ atF' + inSize' <= Decode!PackEnd(si)'
      BY <1>1, <1>2, <1>5, <3>0, <3>5, <3>6
    <3>8. Decode!InputRight'
      BY <1>0, <3>0, <3>3, <3>7 DEF Decode!InputRight
    <3>9. Decode!StageRight'
      BY <1>0, <3>0, <3>3 DEF Decode!StageRight
    <3> QED BY <3>4, <3>8, <3>9 DEF Decode!IInv
  <2> QED BY <2>1, <2>2, <2>3
<1> QED BY <1>4, <1>5 DEF Decode!DecodeChunk

(* The steps behind a coder: filters, BCJ2 and the end of the loop.         *)
LEMMA FilterStep ==
  ASSUME Decode!IInv, Decode!Filter
  PROVE  Decode!IInv'
<1>0. /\ UNCHANGED <<folder, outSizeF, buffer, limit, made, si, atF, inSize, seen, probs,
                     tempBuf, tempSizes, tempSize3>>
      /\ Decode!Fine /\ pcF = "coder" /\ ci = 1 /\ Decode!NumCoders = 2 /\ probs = FALSE
  BY DEF Decode!Filter, Decode!caseVars, Decode!runVars, Decode!Fine, Decode!Running,
    Decode!IInv, Decode!StageRight, Decode!TypeOK, Decode!RunTypeOK
<1>1. made \in 0 .. limit /\ atF \in Nat /\ inSize \in Nat /\ seen \in 0 .. Window
  BY DEF Decode!IInv, Decode!TypeOK, Decode!RunTypeOK
<1>2. CASE Decode!Fail("SZ_ERROR_UNSUPPORTED") /\ UNCHANGED <<ci, source>>
  <2>1. "SZ_ERROR_UNSUPPORTED" \in Decode!Errors
    BY DEF Decode!Errors
  <2> QED BY <1>0, <1>1, <1>2, <2>1, FailStep
<1>3. CASE ci' = 2 /\ source' = [source EXCEPT !["out"].by = 1] /\ UNCHANGED <<pcF, resF>>
  <2>1. Decode!NumCoders' = 2 /\ Decode!Fine' /\ ~Decode!Placed' /\ ~Decode!Reading'
    BY <1>0, <1>3 DEF Decode!NumCoders, Decode!Fine, Decode!Running, Decode!Placed, Decode!Reading
  <2>2. source["out"] = [by |-> 0, bytes |-> outSizeF]
    BY <1>0 DEF Decode!IInv, Decode!SourceRight
  <2>3. source \in [Decode!Buffers -> [by : -1 .. 3, bytes : 0 .. SizeMax]] /\ "out" \in Decode!Buffers
    BY DEF Decode!IInv, Decode!TypeOK, Decode!BufTypeOK, Decode!Buffers
  <2>4. source'["out"] = [by |-> 1, bytes |-> outSizeF] /\ source' \in [Decode!Buffers -> [by : -1 .. 3, bytes : 0 .. SizeMax]]
    BY <1>3, <2>2, <2>3
  <2>5. Decode!RunTypeOK'
    BY <1>0, <1>3, <2>1 DEF Decode!IInv, Decode!TypeOK, Decode!RunTypeOK
  <2>6. Decode!TypeOK'
    BY <1>0, <2>4, <2>5 DEF Decode!IInv, Decode!TypeOK, Decode!BufTypeOK
  <2>7. Decode!FolderRight'
    BY <1>0 DEF Decode!IInv, Decode!FolderRight, Decode!UnpackStream, Decode!NumCoders
  <2>8. Decode!SpaceRight'
    BY <1>0, <2>1 DEF Decode!IInv, Decode!SpaceRight, Decode!Used
  <2>9. Decode!SourceRight'
    BY <1>0, <1>3, <2>1, <2>4 DEF Decode!SourceRight
  <2>10. Decode!StageRight' /\ Decode!PlaceRight' /\ Decode!InputRight'
    BY <1>0, <1>3, <2>1 DEF Decode!StageRight, Decode!PlaceRight, Decode!InputRight
  <2> QED BY <2>6, <2>7, <2>8, <2>9, <2>10 DEF Decode!IInv
<1> QED BY <1>2, <1>3 DEF Decode!Filter

LEMMA MergeStep ==
  ASSUME Decode!IInv, Decode!Merge
  PROVE  Decode!IInv'
<1>0. /\ UNCHANGED <<folder, outSizeF, ci, buffer, limit, made, si, atF, inSize, seen, probs,
                     tempBuf, tempSizes, tempSize3, source>>
      /\ Decode!Fine /\ pcF = "merge" /\ ci = 3 /\ Decode!NumCoders = 4 /\ probs = FALSE
  BY DEF Decode!Merge, Decode!caseVars, Decode!runVars, Decode!bufVars, Decode!Fine,
    Decode!Running, Decode!IInv, Decode!StageRight, Decode!TypeOK, Decode!RunTypeOK
<1>1. made \in 0 .. limit /\ atF \in Nat /\ inSize \in Nat /\ seen \in 0 .. Window
  BY DEF Decode!IInv, Decode!TypeOK, Decode!RunTypeOK
<1>2. CASE ~Decode!SizesFit
  <2>1. "SZ_ERROR_DATA" \in Decode!Errors
    BY DEF Decode!Errors
  <2> QED BY <1>0, <1>1, <1>2, <2>1, FailStep DEF Decode!Merge
<1>3. CASE Decode!SizesFit
  <2>0. pcF' = "convert" /\ UNCHANGED resF
    BY <1>3 DEF Decode!Merge
  <2>1. Decode!NumCoders' = 4 /\ Decode!Fine' /\ ~Decode!Placed' /\ ~Decode!Reading'
    BY <1>0, <2>0 DEF Decode!NumCoders, Decode!Fine, Decode!Running, Decode!Placed, Decode!Reading
  <2>2. Decode!RunTypeOK'
    BY <1>0, <1>1, <2>0, <2>1 DEF Decode!IInv, Decode!TypeOK, Decode!RunTypeOK
  <2>3. Decode!TypeOK'
    BY <1>0, <2>2 DEF Decode!IInv, Decode!TypeOK, Decode!BufTypeOK
  <2>4. Decode!FolderRight'
    BY <1>0 DEF Decode!IInv, Decode!FolderRight, Decode!UnpackStream, Decode!NumCoders
  <2>5. Decode!SpaceRight'
    BY <1>0, <2>1 DEF Decode!IInv, Decode!SpaceRight, Decode!Used
  <2>6. Decode!SourceRight'
    BY <1>0, <2>1 DEF Decode!IInv, Decode!SourceRight
  <2>7. Decode!SizesFit'
    BY <1>0, <1>3 DEF Decode!SizesFit
  <2>8. Decode!StageRight' /\ Decode!PlaceRight' /\ Decode!InputRight'
    BY <1>0, <2>0, <2>1, <2>7 DEF Decode!StageRight, Decode!PlaceRight, Decode!InputRight
  <2> QED BY <2>3, <2>4, <2>5, <2>6, <2>8 DEF Decode!IInv
<1> QED BY <1>2, <1>3

LEMMA ConvertStep ==
  ASSUME Decode!IInv, Decode!Convert
  PROVE  Decode!IInv'
<1>0. /\ UNCHANGED <<folder, outSizeF, buffer, limit, made, si, atF, inSize, seen, probs,
                     tempBuf, tempSizes, tempSize3>>
      /\ Decode!Fine /\ pcF = "convert" /\ ci = 3 /\ Decode!NumCoders = 4 /\ probs = FALSE
  BY DEF Decode!Convert, Decode!caseVars, Decode!runVars, Decode!Fine, Decode!Running,
    Decode!IInv, Decode!StageRight, Decode!TypeOK, Decode!RunTypeOK
<1>1. made \in 0 .. limit /\ atF \in Nat /\ inSize \in Nat /\ seen \in 0 .. Window
  BY DEF Decode!IInv, Decode!TypeOK, Decode!RunTypeOK
<1>2. CASE Decode!Fail("SZ_ERROR_DATA") /\ UNCHANGED <<ci, source>>
  <2>1. "SZ_ERROR_DATA" \in Decode!Errors
    BY DEF Decode!Errors
  <2> QED BY <1>0, <1>1, <1>2, <2>1, FailStep
<1>3. CASE /\ source' = [source EXCEPT !["out"] = [by |-> 3, bytes |-> outSizeF]]
           /\ pcF' = "coder" /\ ci' = 4 /\ UNCHANGED resF
  <2>1. Decode!NumCoders' = 4 /\ Decode!Fine' /\ ~Decode!Placed' /\ ~Decode!Reading'
    BY <1>0, <1>3 DEF Decode!NumCoders, Decode!Fine, Decode!Running, Decode!Placed, Decode!Reading
  <2>2. source \in [Decode!Buffers -> [by : -1 .. 3, bytes : 0 .. SizeMax]] /\ "out" \in Decode!Buffers
    BY DEF Decode!IInv, Decode!TypeOK, Decode!BufTypeOK, Decode!Buffers
  <2>3. [by |-> 3, bytes |-> outSizeF] \in [by : -1 .. 3, bytes : 0 .. SizeMax]
    BY DEF Decode!IInv, Decode!TypeOK
  <2>4. Decode!BufTypeOK'
    BY <1>0, <1>3, <2>2, <2>3 DEF Decode!IInv, Decode!TypeOK, Decode!BufTypeOK
  <2>5. Decode!RunTypeOK'
    BY <1>0, <1>1, <1>3, <2>1 DEF Decode!IInv, Decode!TypeOK, Decode!RunTypeOK
  <2>6. Decode!TypeOK'
    BY <1>0, <2>4, <2>5 DEF Decode!IInv, Decode!TypeOK
  <2>7. Decode!FolderRight'
    BY <1>0 DEF Decode!IInv, Decode!FolderRight, Decode!UnpackStream, Decode!NumCoders
  <2>8. Decode!SpaceRight'
    BY <1>0, <1>3, <2>1 DEF Decode!IInv, Decode!SpaceRight, Decode!Used
  <2>9. Decode!SourceRight'
    <3>1. \A c \in 0 .. 2 : Decode!PlaceOf[c + 1] \in Decode!Buffers /\ Decode!PlaceOf[c + 1] # "out"
      BY DEF Decode!PlaceOf, Decode!Buffers, Decode!Temps
    <3>2. \A c \in 0 .. 2 : source'[Decode!PlaceOf[c + 1]] = source[Decode!PlaceOf[c + 1]]
      BY <1>3, <2>2, <3>1
    <3>3. \A c \in 0 .. 2 : source[Decode!PlaceOf[c + 1]] = [by |-> c, bytes |-> folder.sizes[c + 1]]
      BY <1>0 DEF Decode!IInv, Decode!SourceRight
    <3>4. source'["out"] = [by |-> 3, bytes |-> outSizeF]
      BY <1>3, <2>2
    <3> QED BY <1>0, <2>1, <3>2, <3>3, <3>4 DEF Decode!SourceRight
  <2>10. Decode!StageRight' /\ Decode!PlaceRight' /\ Decode!InputRight'
    BY <1>0, <1>3, <2>1 DEF Decode!StageRight, Decode!PlaceRight, Decode!InputRight
  <2> QED BY <2>6, <2>7, <2>8, <2>9, <2>10 DEF Decode!IInv
<1> QED BY <1>2, <1>3 DEF Decode!Convert

LEMMA EndStep ==
  ASSUME Decode!IInv, Decode!CodersDone
  PROVE  Decode!IInv'
<1>0. /\ UNCHANGED <<folder, outSizeF, ci, buffer, limit, made, si, atF, inSize, seen, probs,
                     tempBuf, tempSizes, tempSize3, source, resF>>
      /\ Decode!Fine /\ pcF = "coder" /\ ci = Decode!NumCoders /\ pcF' = "free" /\ probs = FALSE
  BY DEF Decode!CodersDone, Decode!caseVars, Decode!runVars, Decode!bufVars, Decode!Fine,
    Decode!Running, Decode!IInv, Decode!StageRight, Decode!TypeOK, Decode!RunTypeOK
<1>1. ~Decode!Placed' /\ ~Decode!Reading' /\ Decode!NumCoders' = Decode!NumCoders
  BY <1>0 DEF Decode!Placed, Decode!Reading, Decode!NumCoders
<1>2. Decode!RunTypeOK'
  BY <1>0, <1>1 DEF Decode!IInv, Decode!TypeOK, Decode!RunTypeOK
<1>3. Decode!TypeOK'
  BY <1>0, <1>2 DEF Decode!IInv, Decode!TypeOK, Decode!BufTypeOK
<1>4. Decode!FolderRight'
  BY <1>0 DEF Decode!IInv, Decode!FolderRight, Decode!UnpackStream, Decode!NumCoders
<1>5. Decode!SpaceRight'
  BY <1>0, <1>1 DEF Decode!IInv, Decode!SpaceRight, Decode!Used
<1>6. Decode!SourceRight'
  BY <1>0, <1>1 DEF Decode!IInv, Decode!SourceRight
<1>7. Decode!StageRight' /\ Decode!PlaceRight' /\ Decode!InputRight'
  BY <1>0, <1>1 DEF Decode!StageRight, Decode!PlaceRight, Decode!InputRight
<1> QED BY <1>3, <1>4, <1>5, <1>6, <1>7 DEF Decode!IInv

LEMMA FreeStep ==
  ASSUME Decode!IInv, Decode!FreeTemps
  PROVE  Decode!IInv'
<1>0. /\ UNCHANGED <<folder, outSizeF, ci, buffer, limit, made, si, atF, inSize, seen, probs,
                     tempSizes, tempSize3, source>>
      /\ pcF = "free" /\ pcF' = "done" /\ tempBuf' = {} /\ probs = FALSE
      /\ resF' \in IF resF = "SZ_OK" THEN {"SZ_OK", "SZ_ERROR_CRC"} ELSE {resF}
  BY DEF Decode!FreeTemps, Decode!caseVars, Decode!runVars, Decode!IInv, Decode!StageRight,
    Decode!TypeOK, Decode!RunTypeOK
<1>1. ~Decode!Placed' /\ ~Decode!Reading' /\ Decode!NumCoders' = Decode!NumCoders
  BY <1>0 DEF Decode!Placed, Decode!Reading, Decode!NumCoders
<1>2. Decode!Fine' => Decode!Fine /\ resF = "SZ_OK"
  BY <1>0 DEF Decode!Fine, Decode!Running
<1>3. Decode!RunTypeOK'
  <2>1. resF' \in Decode!Errors \cup {"SZ_OK"}
    BY <1>0 DEF Decode!IInv, Decode!TypeOK, Decode!RunTypeOK, Decode!Errors
  <2> QED BY <1>0, <1>1, <2>1 DEF Decode!IInv, Decode!TypeOK, Decode!RunTypeOK
<1>4. Decode!TypeOK'
  BY <1>0, <1>3 DEF Decode!IInv, Decode!TypeOK, Decode!BufTypeOK
<1>5. Decode!FolderRight'
  BY <1>0, <1>2 DEF Decode!IInv, Decode!FolderRight, Decode!UnpackStream, Decode!NumCoders
<1>6. Decode!SpaceRight'
  BY <1>0, <1>1, <1>2 DEF Decode!IInv, Decode!SpaceRight, Decode!Used
<1>7. Decode!SourceRight'
  BY <1>0, <1>1, <1>2 DEF Decode!IInv, Decode!SourceRight
<1>8. Decode!StageRight' /\ Decode!PlaceRight' /\ Decode!InputRight'
  BY <1>0, <1>1, <1>2 DEF Decode!IInv, Decode!StageRight, Decode!PlaceRight, Decode!InputRight
<1> QED BY <1>4, <1>5, <1>6, <1>7, <1>8 DEF Decode!IInv

LEMMA StutterStep ==
  ASSUME Decode!IInv, UNCHANGED Decode!vars
  PROVE  Decode!IInv'
BY DEF Decode!vars, Decode!caseVars, Decode!runVars, Decode!bufVars, Decode!IInv, Decode!TypeOK,
  Decode!RunTypeOK, Decode!BufTypeOK, Decode!FolderRight, Decode!PlaceRight,
       Decode!InputRight, Decode!SpaceRight, Decode!SourceRight, Decode!StageRight, Decode!Fine, Decode!Running, Decode!Placed, Decode!Reading, Decode!NumCoders,
       Decode!UnpackStream, Decode!PackPosition, Decode!PackEnd, Decode!Copies, Decode!coder, Decode!Used, Decode!SizesFit

LEMMA InvStep == Decode!IInv /\ [Decode!Next]_Decode!vars => Decode!IInv'
BY FolderCheckStep, PlaceOutputStep, PlaceRcStep, FolderSeekStep, AllocStep, FolderLookStep, CopyChunkStep, CopyDoneStep,
   DecodeStep, FilterStep, MergeStep, ConvertStep, EndStep, FreeStep, StutterStep DEF Decode!Next

-----------------------------------------------------------------------------
(* What the invariant says of the inputs.                                   *)
LEMMA OneStreamEach ==
  ASSUME Decode!Supported(folder), NEW c \in 0 .. Decode!NumCoders - 1, Decode!NumCoders \in {1, 2, 4}
  PROVE  Decode!FirstIn(folder, c) = c
<1>1. ASSUME Decode!NumCoders \in {2, 4}
      PROVE  /\ folder.coders[1].streams = 1
             /\ Decode!NumCoders = 4 => folder.coders[2].streams = 1 /\ folder.coders[3].streams = 1
  BY <1>1 DEF Decode!Supported, Decode!IsSupportedCoder, Decode!NumCoders
<1>2. \A i \in 0 .. c - 1 : folder.coders[i + 1].streams = 1
  <2>1. c \in {0, 1, 2, 3} /\ (c > 0 => Decode!NumCoders \in {2, 4}) /\ (c > 1 => Decode!NumCoders = 4)
    OBVIOUS
  <2> TAKE i \in 0 .. c - 1
  <2>2. i \in {0, 1, 2} /\ c > 0 /\ (i > 0 => Decode!NumCoders = 4)
    BY <2>1
  <2>3. CASE i = 0
    BY <1>1, <2>1, <2>2, <2>3
  <2>4. CASE i = 1
    BY <1>1, <2>1, <2>2, <2>4
  <2>5. CASE i = 2
    BY <1>1, <2>1, <2>2, <2>5
  <2> QED BY <2>2, <2>3, <2>4, <2>5
<1> QED BY <1>2, FirstInOfSimple

LEMMA OwnStream == Decode!IInv => Decode!ReadsOwnStream
<1> SUFFICES ASSUME Decode!IInv, pcF = "chunk"
             PROVE  /\ folder.packStreams[si + 1] = Decode!OwnInput
                    /\ atF >= Decode!PackPosition(si) /\ atF + seen <= Decode!PackEnd(si)
  BY DEF Decode!ReadsOwnStream
<1>1. Decode!Placed /\ Decode!Reading /\ Decode!Fine
  BY DEF Decode!Placed, Decode!Reading, Decode!Fine, Decode!Running
<1>2. /\ Decode!Supported(folder) /\ Decode!NumCoders \in {1, 2, 4} /\ ci \in 0 .. Decode!NumCoders - 1
      /\ si \in 0 .. (IF Decode!NumCoders = 4 THEN 3 ELSE 0)
  BY <1>1, FineFacts DEF Decode!IInv, Decode!PlaceRight, Decode!TypeOK, Decode!RunTypeOK
<1>3. Decode!FirstIn(folder, ci) = ci
  BY <1>2, OneStreamEach
<1>4. CASE Decode!NumCoders # 4
  <2>1. ci = 0 /\ si = 0
    BY <1>1, <1>4 DEF Decode!IInv, Decode!PlaceRight
  <2>2. Decode!coder.method # "BCJ2"
    BY <1>2, <2>1, SupportedMethods DEF Decode!coder, Decode!MainMethods
  <2>3. folder.packStreams = <<0>>
    BY <1>2, <1>4, SupportedKinds
  <2>4. folder.packStreams[si + 1] = Decode!OwnInput
    BY <1>3, <2>1, <2>2, <2>3 DEF Decode!OwnInput
  <2> QED BY <1>1, <1>2, <2>4, FineFacts DEF Decode!IInv, Decode!InputRight, Decode!TypeOK,
    Decode!RunTypeOK
<1>5. CASE Decode!NumCoders = 4
  <2>1. si = Decode!StreamOf[ci + 1] /\ ci \in {0, 1, 2, 3}
    BY <1>1, <1>2, <1>5 DEF Decode!IInv, Decode!PlaceRight
  <2>2. Decode!coder.method = "BCJ2" <=> ci = 3
    BY <1>2, <1>5, <2>1, SupportedMethods DEF Decode!coder, Decode!MainMethods
  <2>3. folder.packStreams = <<2, 6, 1, 0>>
    BY <1>2, <1>5, SupportedKinds DEF Decode!StandardGraph
  <2>4. folder.packStreams[si + 1] = IF ci = 3 THEN 6 ELSE ci
    BY <2>1, <2>3 DEF Decode!StreamOf
  <2>5. folder.packStreams[si + 1] = Decode!OwnInput
    <3>1. CASE ci = 3
      BY <1>3, <2>2, <2>4, <3>1 DEF Decode!OwnInput
    <3>2. CASE ci # 3
      BY <1>3, <2>1, <2>2, <2>4, <3>2 DEF Decode!OwnInput
    <3> QED BY <3>1, <3>2
  <2> QED BY <1>1, <1>2, <2>5, FineFacts DEF Decode!IInv, Decode!InputRight, Decode!TypeOK,
    Decode!RunTypeOK
<1> QED BY <1>4, <1>5

(* The sum is that of numbers, not of numbers modulo the size_t: what is    *)
(* allocated fits into the address space next to the output.                *)
LEMMA NoWrap ==
  ASSUME Decode!IInv, Decode!SizesFit
  PROVE  outSizeF - tempSize3 = tempSizes["temp0"] + tempSizes["temp1"]
<1> DEFINE sum == tempSize3 + tempSizes["temp0"] + tempSizes["temp1"]
<1>1. /\ tempSize3 \in Nat /\ outSizeF \in Nat
      /\ \A t \in {"temp0", "temp1", "temp2"} : tempSizes[t] \in Nat
  BY DEF Decode!IInv, Decode!TypeOK, Decode!BufTypeOK, Decode!Temps
<1>2. sum \in Nat /\ sum < SizeMax + 1
  BY <1>1, Bounds DEF Decode!IInv, Decode!SpaceRight, Decode!Used
<1>3. sum % (SizeMax + 1) = sum
  BY <1>2, Bounds
<1>4. sum % (SizeMax + 1) = outSizeF
  BY DEF Decode!SizesFit
<1>5. outSizeF = sum
  BY <1>3, <1>4
<1> QED BY <1>1, <1>5

LEMMA ReadyToMerge == Decode!IInv => Decode!MergeReady
<1> SUFFICES ASSUME Decode!IInv, pcF = "convert" PROVE Decode!MergeReady
  BY DEF Decode!MergeReady
<1>1. Decode!Fine /\ ci = 3 /\ Decode!NumCoders = 4 /\ Decode!SizesFit
  BY DEF Decode!Fine, Decode!Running, Decode!IInv, Decode!StageRight
<1>2. Decode!Supported(folder) /\ Decode!FirstIn(folder, 3) = 3
  BY <1>1, FineFacts, OneStreamEach
<1>3. folder.bonds = <<[in |-> 5, out |-> 0], [in |-> 4, out |-> 1], [in |-> 3, out |-> 2]>>
  BY <1>1, <1>2, SupportedKinds DEF Decode!StandardGraph
<1>4. \A c \in 0 .. 2 : source[Decode!PlaceOf[c + 1]] = [by |-> c, bytes |-> folder.sizes[c + 1]]
  BY <1>1 DEF Decode!IInv, Decode!SourceRight
<1>5. /\ source["temp1"] = [by |-> 0, bytes |-> folder.sizes[1]]
      /\ source["temp0"] = [by |-> 1, bytes |-> folder.sizes[2]]
      /\ source["end"] = [by |-> 2, bytes |-> folder.sizes[3]]
  BY <1>4 DEF Decode!PlaceOf
<1>6. ASSUME NEW i \in 1 .. Len(folder.bonds)
      PROVE  source[Decode!InputBuffer[folder.bonds[i].in - Decode!FirstIn(folder, 3) + 1]] =
               [by |-> folder.bonds[i].out, bytes |-> folder.sizes[folder.bonds[i].out + 1]]
  <2>1. i \in {1, 2, 3}
    BY <1>3
  <2>2. Decode!InputBuffer[1] = "end" /\ Decode!InputBuffer[2] = "temp0" /\ Decode!InputBuffer[3] = "temp1"
    BY DEF Decode!InputBuffer
  <2>3. CASE i = 1
    BY <1>2, <1>3, <1>5, <2>2, <2>3
  <2>4. CASE i = 2
    BY <1>2, <1>3, <1>5, <2>2, <2>4
  <2>5. CASE i = 3
    BY <1>2, <1>3, <1>5, <2>2, <2>5
  <2> QED BY <2>1, <2>3, <2>4, <2>5
<1> QED BY <1>1, <1>6, NoWrap DEF Decode!MergeReady

LEMMA WholeOutput == Decode!IInv => Decode!OkMeansWhole
<1> SUFFICES ASSUME Decode!IInv, pcF = "done", resF = "SZ_OK"
             PROVE  source["out"] = [by |-> Decode!UnpackStream, bytes |-> outSizeF]
  BY DEF Decode!OkMeansWhole
<1>1. Decode!Fine /\ ci = Decode!NumCoders
  BY DEF Decode!Fine, Decode!IInv, Decode!StageRight
<1>2. Decode!UnpackStream = Decode!NumCoders - 1 /\ Decode!NumCoders \in {1, 2, 4}
  BY <1>1, FineFacts, LastCoderUnpacks DEF Decode!IInv, Decode!TypeOK
<1> QED BY <1>1, <1>2 DEF Decode!IInv, Decode!SourceRight

LEMMA InvGood == Decode!IInv => Decode!InputsRight /\ Decode!OkMeansWhole /\ Decode!NothingLeft
<1>1. Decode!IInv => Decode!NothingLeft
  BY DEF Decode!IInv, Decode!StageRight, Decode!NothingLeft
<1> QED BY <1>1, OwnStream, ReadyToMerge, WholeOutput DEF Decode!InputsRight

(* Whatever the folder, the sizes, the chunks the stream is read in and the *)
(* way the decoders go: each coder is shown its own packed stream and no    *)
(* byte of another, BCJ2 starts on four full buffers that the folder's      *)
(* bonds connect to its inputs, SZ_OK is said of a whole output only, and   *)
(* no buffer and no decoder state outlives the call.                        *)
THEOREM FolderSafety == Decode!Spec => [](Decode!InputsRight /\ Decode!OkMeansWhole /\ Decode!NothingLeft)
BY InitInv, InvStep, InvGood, PTL DEF Decode!Spec

-----------------------------------------------------------------------------
(* Side by side                                                             *)

(* A step of the whole is a step of the folder's decoder or leaves it alone.*)
LEMMA FolderKeeps == Decode!IInv /\ [StreamsNext]_streamsVars => Decode!IInv'
<1> SUFFICES ASSUME Decode!IInv, [StreamsNext]_streamsVars PROVE Decode!IInv'
  OBVIOUS
<1>1. Decode!Next \/ UNCHANGED folderVars
  BY DEF StreamsNext, FolderNext, streamsVars
<1>2. UNCHANGED folderVars => UNCHANGED Decode!vars
  BY DEF folderVars, Decode!vars, Decode!caseVars, Decode!runVars, Decode!bufVars
<1> QED BY <1>1, <1>2, InvStep

(* SzAr_DecodeFolder next to the other streams, for every set of folders    *)
(* that SzGetNextFolderItem lets through: see FolderSafety.                 *)
THEOREM FoldersDecoded == StreamsSpec => [](InputsRight /\ OkMeansWhole /\ NothingLeft)
<1>1. StreamsInit => Decode!IInv
  BY InitInv DEF StreamsInit
<1>2. Decode!IInv => InputsRight /\ OkMeansWhole /\ NothingLeft
  BY InvGood DEF InputsRight, OkMeansWhole, NothingLeft
<1> QED BY <1>1, <1>2, FolderKeeps, PTL DEF StreamsSpec
=============================================================================
