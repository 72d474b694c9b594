----------------------------- MODULE SzStreamInfo -----------------------------
(* SzReadStreamsInfo (7zArcIn.c) reads the lists of a header once, to check  *)
(* and to measure them, and keeps three of them as slices of the header:     *)
(* sdNumSubStreams, sdSizes and sdCRCs.  SzReadHeader2 reads the slices      *)
(* again, entry by entry, the CRCs without a look at the end of their slice. *)
(*                                                                           *)
(* Bytes are chosen when they are read first; those of ReadSubStreamsInfo    *)
(* are kept.  A property that is skipped leaves no trace and is left out.    *)
(* The folders themselves are in module SzFolders, the tables in SzFileTable.*)
EXTENDS Integers, FiniteSetsExt, SequencesExt

CONSTANTS NumFoldersMax,   \* bound on the folders
          NumPacksMax,     \* bound on the packed streams
          U64,             \* 2^64: positions are UInt64
          RangeLimit,      \* CSzAr.RangeLimit
          PackSizes,       \* sizes and offsets of packed streams
          Counts,          \* encodings of numbers of streams
          Sizes,           \* encodings of sizes
          BitsInByte,      \* 8
          Null             \* NULL

VARIABLES bytes,  \* the bytes of ReadSubStreamsInfo so far
          sdPos,  \* sd->Data, as an offset in bytes
          ar,     \* CSzAr: PackPositions, NumFolders, FolderCRCs.Defs
          ssi,    \* CSubStreamInfo
          loc,    \* local variables
          pc

vars == <<bytes, sdPos, ar, ssi, loc, pc>>

(* EIdEnum                                                                   *)
End == 0
Size == 9
CRC == 10
NumUnpackStream == 13

Init ==
  /\ bytes = << >> /\ sdPos = 0
  /\ ar = [PackPositions |-> << >>, NumFolders |-> 0, FolderCRCs |-> Null]
  /\ ssi = [NumTotalSubStreams |-> 0, NumSubDigests |-> 0,
            sdNumSubStreams |-> Null, sdSizes |-> Null, sdCRCs |-> Null]
  /\ loc = [dataOffset |-> 0, left |-> 0, streams |-> 0, digests |-> 0, sizes |-> 0,
            folder |-> 0, num |-> 0, rem |-> 0, entry |-> 0,
            digestIndex |-> 0, digestsDefs |-> Null, digestsVals |-> Null]
  /\ pc = "pack info"

To(from, to) == pc = from /\ pc' = to

(* Any reading may find the header at its end.                               *)
EndOfData ==
  /\ pc \in {"pack info", "pack size", "unpack info", "sub", "count", "sizes", "next"}
  /\ pc' = "failed"
  /\ UNCHANGED <<bytes, sdPos, ar, ssi, loc>>

-----------------------------------------------------------------------------
(* SzReadStreamsInfo: each of the three parts may be missing.                *)
SkipPart ==
  /\ \/ To("pack info", "unpack info")
     \/ To("unpack info", "sub info")
  /\ UNCHANGED <<bytes, sdPos, ar, ssi, loc>>

ReadPackInfo ==
  /\ To("pack info", "pack size")
  /\ \E offset \in PackSizes, n \in 0 .. NumPacksMax :
       /\ offset <= RangeLimit
       /\ loc' = [loc EXCEPT !.dataOffset = offset, !.left = n]
  /\ ar' = [ar EXCEPT !.PackPositions = <<0>>]
  /\ UNCHANGED <<bytes, sdPos, ssi>>

PackSum == Last(ar.PackPositions)

ReadPackSize ==
  /\ pc = "pack size" /\ loc.left > 0
  /\ \E size \in PackSizes :
       LET sum == (PackSum + size) % U64
       IN IF sum < size
          THEN pc' = "failed" /\ UNCHANGED <<ar, loc>>
          ELSE /\ ar' = [ar EXCEPT !.PackPositions = Append(@, sum)]
               /\ loc' = [loc EXCEPT !.left = @ - 1]
               /\ UNCHANGED pc
  /\ UNCHANGED <<bytes, sdPos, ssi>>

PacksFit == PackSum <= RangeLimit - loc.dataOffset

PackInfoEnd ==
  /\ loc.left = 0
  /\ To("pack size", IF PacksFit THEN "unpack info" ELSE "failed")
  /\ UNCHANGED <<bytes, sdPos, ar, ssi, loc>>

(* ReadUnpackInfo behind the scan of the folders: the CRCs of the folders.   *)
(* Bound: folders are tried without packed streams, which nothing behind     *)
(* looks at.                                                                 *)
ReadUnpackInfo ==
  /\ To("unpack info", "sub info")
  /\ ar.PackPositions = << >>
  /\ \E n \in 0 .. NumFoldersMax :
     \E defs \in {Null} \cup SUBSET (0 .. n - 1) :
       ar' = [ar EXCEPT !.NumFolders = n, !.FolderCRCs = defs]
  /\ UNCHANGED <<bytes, sdPos, ssi, loc>>

HasCrc(f) == ar.FolderCRCs # Null /\ f \in ar.FolderCRCs

NoSubStreamsInfo ==
  /\ To("sub info", "entries")
  /\ ssi' = [ssi EXCEPT !.NumTotalSubStreams = ar.NumFolders]
  /\ UNCHANGED <<bytes, sdPos, ar, loc>>

-----------------------------------------------------------------------------
(* Numbers.  The ones at the head of the first byte count the bytes behind   *)
(* it (module MCHeaders lists encodings).                                    *)
Ones(b) == Cardinality({i \in 1 .. 8 : b >= 256 - 2 ^ (8 - i)})

ReadLength(b) == Ones(b) + 1

(* The low bytes come first, the rest of the first byte is above them.       *)
(* Encodings with more than two bytes have zeros above these two here.       *)
ReadValue(s) ==
  CASE Ones(s[1]) = 0 -> s[1]
    [] Ones(s[1]) = 1 -> (s[1] % 64) * 256 + s[2]
    [] OTHER -> s[2] + 256 * s[3]

(* Slip: the last of the eight bytes is not skipped.                         *)
SkipLengthShort(b) ==
  CASE b < 128 -> 1
    [] b >= 128 /\ b < 192 -> 2
    [] OTHER -> 1 + Min({7} \cup {i \in 2 .. 7 : (b \div 2 ^ (7 - i)) % 2 = 0})

(* SkipNumbers: i runs from 2 to 8 while the bits of the first byte are set. *)
SkipLength(b) ==
  CASE b < 128 -> 1
    [] b >= 128 /\ b < 192 -> 2
    [] OTHER -> 1 + Min({8} \cup {i \in 2 .. 7 : (b \div 2 ^ (7 - i)) % 2 = 0})

Read(s, n) == bytes' = bytes \o s /\ sdPos' = sdPos + n
ReadId(id) == Read(<<id>>, 1)

-----------------------------------------------------------------------------
(* ReadSubStreamsInfo *)
SubStreamsBegin ==
  /\ To("sub info", "sub")
  /\ loc' = [loc EXCEPT !.streams = ar.NumFolders, !.digests = 0, !.sizes = 0]
  /\ UNCHANGED <<bytes, sdPos, ar, ssi>>

(* The list of counts may come again; numUnpackSizesInData then goes on.     *)
CountsBegin ==
  /\ To("sub", "count")
  /\ ssi.sdNumSubStreams = Null \/ (ar.NumFolders = 1 /\ Len(bytes) <= 4)  \* bound
  /\ ReadId(NumUnpackStream)
  /\ ssi' = [ssi EXCEPT !.sdNumSubStreams = <<sdPos', sdPos'>>]
  /\ loc' = [loc EXCEPT !.streams = 0, !.digests = 0, !.folder = 0]
  /\ UNCHANGED ar

(* A lone stream whose folder has a CRC needs no digest.                     *)
Digests(n, f) == IF n # 1 \/ ~HasCrc(f) THEN n ELSE 0

ReadCount ==
  /\ pc = "count" /\ loc.folder < ar.NumFolders
  /\ \E s \in Counts :
       /\ Read(s, ReadLength(s[1]))
       /\ loc' = [loc EXCEPT
            !.folder  = @ + 1,
            !.streams = @ + ReadValue(s),
            !.sizes   = IF ReadValue(s) = 0 THEN @ ELSE @ + ReadValue(s) - 1,
            !.digests = @ + Digests(ReadValue(s), loc.folder)]
  /\ UNCHANGED <<ar, ssi, pc>>

CountsEnd ==
  /\ To("count", "sub") /\ loc.folder = ar.NumFolders
  /\ ssi' = [ssi EXCEPT !.sdNumSubStreams[2] = sdPos]
  /\ UNCHANGED <<bytes, sdPos, ar, loc>>

(* The first other property ends the counting.                               *)
NumSubDigests ==
  IF ssi.sdNumSubStreams # Null THEN loc.digests
  ELSE Cardinality({f \in 0 .. ar.NumFolders - 1 : ~HasCrc(f)})

Counted == [ssi EXCEPT !.NumTotalSubStreams = loc.streams,
                       !.NumSubDigests = NumSubDigests]
SizesBegin ==
  /\ To("sub", "sizes")
  /\ ReadId(Size)
  /\ ssi' = [Counted EXCEPT !.sdSizes = <<sdPos', sdPos'>>]
  /\ loc' = [loc EXCEPT !.left = loc.sizes]
  /\ UNCHANGED ar

SkipSize ==
  /\ pc = "sizes" /\ loc.left > 0
  /\ \E s \in Sizes : Read(s, SkipLength(s[1]))
  /\ loc' = [loc EXCEPT !.left = @ - 1]
  /\ UNCHANGED <<ar, ssi, pc>>

SizesEnd ==
  /\ To("sizes", "next") /\ loc.left = 0
  /\ ssi' = [ssi EXCEPT !.sdSizes[2] = sdPos]
  /\ UNCHANGED <<bytes, sdPos, ar, loc>>

(* SkipBitUi32s: a byte that says whether all are defined, the bits, a CRC   *)
(* of four bytes for every bit that is set.  The bits behind the last item   *)
(* may be anything.                                                          *)
NumBytes(n) == (n + BitsInByte - 1) \div BitsInByte
BitOf(s, i) ==
  (s[(i \div BitsInByte) + 1] \div 2 ^ (BitsInByte - 1 - (i % BitsInByte))) % 2 = 1
CountDefinedBits(s, n) == Cardinality({i \in 0 .. n - 1 : BitOf(s, i)})
Crcs(n) == [i \in 1 .. 4 * n |-> 0]

BitUi32s(n) ==
  {<<1>> \o Crcs(n)} \cup
  {<<0>> \o s \o Crcs(CountDefinedBits(s, n)) :
     s \in [1 .. NumBytes(n) -> 0 .. 2 ^ BitsInByte - 1]}

SkipCrcs ==
  \/ /\ To("sub", "next")
     /\ \E s \in BitUi32s(NumSubDigests) :
          /\ Read(<<CRC>> \o s, 1 + Len(s))
          /\ ssi' = [Counted EXCEPT !.sdCRCs = <<sdPos + 1, sdPos'>>]
     /\ UNCHANGED <<ar, loc>>
  \/ /\ To("next", "next")
     /\ ssi.sdCRCs = Null               \* bound: once
     /\ \E s \in BitUi32s(ssi.NumSubDigests) :
          /\ Read(<<CRC>> \o s, 1 + Len(s))
          /\ ssi' = [ssi EXCEPT !.sdCRCs = <<sdPos + 1, sdPos'>>]
     /\ UNCHANGED <<ar, loc>>

SubStreamsEnd ==
  /\ \/ To("sub", "entries") /\ ssi' = Counted
     \/ To("next", "entries") /\ UNCHANGED ssi
  /\ ReadId(End)
  /\ UNCHANGED <<ar, loc>>

-----------------------------------------------------------------------------
(* SzReadHeader2 reads the slices: the head of sdCRCs ...                    *)
OpenCrcs ==
  /\ To("entries", "entry")
  /\ LET at == ssi.sdCRCs[1]
     IN loc' = [loc EXCEPT !.folder = 0, !.num = 0, !.rem = 0, !.entry = 0,
          !.digestsDefs = IF ssi.sdCRCs = Null THEN Null
                          ELSE IF bytes[at + 1] # 0 THEN Null ELSE at + 1,
          !.digestsVals = IF ssi.sdCRCs = Null THEN Null
                          ELSE IF bytes[at + 1] # 0 THEN at + 1
                          ELSE at + 1 + NumBytes(ssi.NumSubDigests)]
  /\ UNCHANGED <<bytes, sdPos, ar, ssi>>

(* ... the number of streams of the next folder ...                          *)
At(slice) == SubSeq(bytes, slice[1] + 1, slice[2])
Holds(slice) == slice[1] < slice[2] /\ ReadLength(bytes[slice[1] + 1]) <= Len(At(slice))
NextCount == IF ssi.sdNumSubStreams = Null THEN 1 ELSE ReadValue(At(ssi.sdNumSubStreams))
CountRead == [ssi EXCEPT !.sdNumSubStreams =
                IF @ = Null THEN Null ELSE <<@[1] + ReadLength(bytes[@[1] + 1]), @[2]>>]

Entries == ssi.NumTotalSubStreams        \* those with data
NoCount == ssi.sdNumSubStreams # Null /\ ~Holds(ssi.sdNumSubStreams)

NextFolder ==
  /\ loc.rem = 0 /\ loc.entry < Entries
  /\ IF loc.folder = ar.NumFolders \/ NoCount
     THEN To("entry", "mismatch") /\ UNCHANGED <<ssi, loc>>
     ELSE /\ To("entry", "entry")
          /\ ssi' = CountRead
          /\ loc' = [loc EXCEPT !.num = NextCount, !.rem = NextCount,
                       !.folder = IF NextCount = 0 THEN @ + 1 ELSE @]
  /\ UNCHANGED <<bytes, sdPos, ar>>

(* ... and for every stream its size, unless it is the last of its folder,   *)
(* and its CRC, unless it is the one of the folder.                          *)
Defined == loc.digestsDefs = Null
             \/ BitOf(SubSeq(bytes, loc.digestsDefs + 1, Len(bytes)), loc.digestIndex)
IsLast == loc.rem = 1
CrcRead == loc.digestsVals # Null /\ ~(IsLast /\ loc.num = 1 /\ HasCrc(loc.folder))
SizeShort == ~IsLast /\ (ssi.sdSizes = Null \/ ~Holds(ssi.sdSizes))

ReadEntry ==
  /\ loc.rem > 0
  /\ IF SizeShort
     THEN /\ To("entry", IF ssi.sdSizes = Null THEN "failed" ELSE "mismatch")
          /\ UNCHANGED <<ssi, loc>>
     ELSE /\ To("entry", "entry")
          /\ ssi' = IF IsLast THEN ssi
                    ELSE [ssi EXCEPT !.sdSizes[1] = @ + ReadLength(bytes[@ + 1])]
          /\ loc' = [loc EXCEPT !.rem = @ - 1, !.entry = @ + 1,
               !.folder = IF IsLast THEN @ + 1 ELSE @,
               !.digestsVals = IF CrcRead /\ Defined THEN @ + 4 ELSE @,
               !.digestIndex = IF CrcRead THEN @ + 1 ELSE @]
  /\ UNCHANGED <<bytes, sdPos, ar>>

(* Behind the entries: folders without streams.                              *)
LeftFolders ==
  /\ loc.rem = 0 /\ loc.entry = Entries
  /\ IF loc.folder = ar.NumFolders
     THEN /\ To("entry", IF ssi.sdNumSubStreams = Null THEN "done"
                         ELSE IF ssi.sdNumSubStreams[1] = ssi.sdNumSubStreams[2]
                         THEN "done" ELSE "mismatch")
          /\ UNCHANGED <<ssi, loc>>
     ELSE IF ssi.sdNumSubStreams = Null \/ NoCount \/ NextCount # 0
     THEN To("entry", "mismatch") /\ UNCHANGED <<ssi, loc>>
     ELSE /\ To("entry", "entry")
          /\ ssi' = CountRead
          /\ loc' = [loc EXCEPT !.folder = @ + 1]
  /\ UNCHANGED <<bytes, sdPos, ar>>

Next ==
  \/ EndOfData \/ SkipPart
  \/ ReadPackInfo \/ ReadPackSize \/ PackInfoEnd \/ ReadUnpackInfo \/ NoSubStreamsInfo
  \/ SubStreamsBegin \/ CountsBegin \/ ReadCount \/ CountsEnd
  \/ SizesBegin \/ SkipSize \/ SizesEnd \/ SkipCrcs \/ SubStreamsEnd
  \/ OpenCrcs \/ NextFolder \/ ReadEntry \/ LeftFolders

-----------------------------------------------------------------------------
(* The second reading finds in the slices what the first has measured: it    *)
(* never lacks a count or a size, and no folder or count is left.            *)
ReadingsAgree == pc # "mismatch"

(* The CRCs and their bits, which are read unchecked, lie in their slice, and*)
(* all of them have been read in the end.                                    *)
CrcsInside ==
  loc.digestsVals # Null =>
    /\ loc.digestsVals <= ssi.sdCRCs[2]
    /\ loc.digestIndex <= ssi.NumSubDigests
    /\ pc = "done" => /\ loc.digestsVals = ssi.sdCRCs[2]
                      /\ loc.digestIndex = ssi.NumSubDigests

(* The packed streams lie one behind the other in the part of the file in    *)
(* front of the header.                                                      *)
PacksInside ==
  ar.PackPositions # << >> /\ pc \notin {"pack size", "failed"} =>
    /\ \A i \in 2 .. Len(ar.PackPositions) :
         ar.PackPositions[i - 1] <= ar.PackPositions[i]
    /\ loc.dataOffset + PackSum <= RangeLimit

(* Altogether: what SzReadStreamsInfo lets through can be used as it is.     *)
StreamInfoExact == ReadingsAgree /\ CrcsInside /\ PacksInside
=============================================================================
