---------------------------- MODULE SzFileTable ----------------------------
(* The index of a parsed archive: the last part of SzReadHeader2            *)
(* (7zArcIn.c:1289-1470), which turns the lists of the header into the      *)
(* tables SzArEx_Extract works with (module SolidBlock).  A header is the    *)
(* record hdr, chosen at the start; its shape is what the reading functions *)
(* before this part let through:                                            *)
(*   folderSize    unpack size of every folder                              *)
(*   folderCrc     folders that have a CRC of their own                     *)
(*   counts        streams of every folder (sdNumSubStreams), or Absent     *)
(*   sizes         sizes of the streams that are not the last of a folder   *)
(*   digests       positions in sdCRCs that hold a CRC, or Absent           *)
(*   numFiles      number of entries                                        *)
(*   emptyStreams  entries without a stream, or Absent                      *)
(*   emptyFiles    of these, the ones that are files, or Absent             *)
EXTENDS Naturals, Sequences, FiniteSetsExt

CONSTANTS Headers,    \* the headers to be read
          U64,        \* 2^64: unpackPos is a UInt64
          ByteBits,   \* 8: entries that share a byte of IsDirs and CRCs.Defs
          Absent,     \* a list the header does not have
          NoFolder,   \* the (UInt32)-1 in FileToFolder
          Junk        \* memory that is allocated and not yet written

VARIABLES hdr,    \* the header
          pc,     \* the loop that runs; "done" and "failed" end the reading
          at,     \* the loop variables and reading positions
          mask,   \* mask, isDirMask and crcMask; the bit is a number
          db      \* the tables of CSzArEx

vars == <<hdr, pc, at, mask, db>>

-----------------------------------------------------------------------------
(* The lists of the header.                                                 *)
Folders(h)    == DOMAIN h.folderSize
NumFolders(h) == Cardinality(Folders(h))
Entries(h)    == 0 .. h.numFiles - 1

Count(h, f) == IF h.counts = Absent THEN 1 ELSE h.counts[f]

(* A lone stream takes the CRC of its folder, if there is one.              *)
FolderCrcServes(h, f) == Count(h, f) = 1 /\ f \in h.folderCrc
DigestsOf(h, f) == IF FolderCrcServes(h, f) THEN 0 ELSE Count(h, f)
SizesOf(h, f)   == IF Count(h, f) = 0 THEN 0 ELSE Count(h, f) - 1

NumTotalSubStreams(h) == MapThenSumSet(LAMBDA f : Count(h, f), Folders(h))
NumSubDigests(h)      == MapThenSumSet(LAMBDA f : DigestsOf(h, f), Folders(h))
NumSizesInData(h)     == MapThenSumSet(LAMBDA f : SizesOf(h, f), Folders(h))

IsEmptyStream(h, e) == h.emptyStreams # Absent /\ e \in h.emptyStreams
NumEmptyStreams(h)  ==
  IF h.emptyStreams = Absent THEN 0 ELSE Cardinality(h.emptyStreams)

-----------------------------------------------------------------------------
NoCrc == <<"none", 0>>
FreshMask == [bit |-> 0, dirs |-> {}, crcs |-> {}]
ByteOf(e) == e \div ByteBits

Init ==
  /\ hdr \in Headers
  /\ pc = "check"
  /\ at = [i |-> 0, folder |-> 0, rem |-> 0, num |-> 0, pos |-> 0, size |-> 0,
           emptyFile |-> 0, digest |-> 0, val |-> 0]
  /\ mask = FreshMask
  /\ db = [UnpackPositions |-> [e \in 0 .. hdr.numFiles |-> Junk],
           FolderToFile    |-> [f \in 0 .. NumFolders(hdr) |-> Junk],
           FileToFolder    |-> [e \in Entries(hdr) |-> Junk],
           IsDirs          |-> [b \in {ByteOf(e) : e \in Entries(hdr)} |-> {}],
           CrcDefs         |-> [b \in {ByteOf(e) : e \in Entries(hdr)} |-> Junk],
           CrcVals         |-> [e \in Entries(hdr) |-> Junk]]

Step(from, to) == pc = from /\ pc' = to /\ UNCHANGED hdr

(* numFiles - numEmptyStreams != ssi.NumTotalSubStreams *)
Check ==
  /\ Step("check", IF hdr.numFiles - NumEmptyStreams(hdr) = NumTotalSubStreams(hdr)
                   THEN "file" ELSE "failed")
  /\ UNCHANGED <<at, mask, db>>

(* A full byte of the bit vectors at the head of the loop, and the last one *)
(* behind it.                                                               *)
FlushDue == mask.bit = ByteBits \/ (at.i = hdr.numFiles /\ mask.bit # 0)

FlushByte ==
  /\ Step("file", "file")
  /\ FlushDue
  /\ db' = [db EXCEPT !.IsDirs[ByteOf(at.i - 1)] = mask.dirs,
                      !.CrcDefs[ByteOf(at.i - 1)] = mask.crcs]
  /\ mask' = FreshMask
  /\ UNCHANGED at

(* The head of the loop body, for the entry at.i.                           *)
AtEntry(to) == Step("file", to) /\ ~FlushDue /\ at.i < hdr.numFiles
EntryBegun  == [db EXCEPT !.UnpackPositions[at.i] = at.pos,
                          !.CrcVals[at.i] = NoCrc]

IsDirEntry == hdr.emptyFiles = Absent \/ at.emptyFile \notin hdr.emptyFiles

(* An entry without a stream; it may stand between two of one folder.       *)
EmptyEntry ==
  /\ AtEntry("file")
  /\ IsEmptyStream(hdr, at.i)
  /\ db' = [EntryBegun EXCEPT !.FileToFolder[at.i] =
              IF at.rem = 0 THEN NoFolder ELSE at.folder]
  /\ mask' = [mask EXCEPT !.bit = @ + 1,
                          !.dirs = IF IsDirEntry THEN @ \cup {mask.bit} ELSE @]
  /\ at' = [at EXCEPT !.i = @ + 1,
                      !.emptyFile = IF hdr.emptyFiles = Absent THEN @ ELSE @ + 1]

DataEntry ==
  /\ AtEntry(IF at.rem = 0 THEN "folder" ELSE "stream")
  /\ ~IsEmptyStream(hdr, at.i)
  /\ db' = EntryBegun
  /\ UNCHANGED <<at, mask>>

-----------------------------------------------------------------------------
FolderSize == hdr.folderSize[at.folder]
Add(p, v)  == (p + v) % U64

(* The folder the entry lies in is the next one that has streams.           *)
OpenFolder ==
  /\ Step("folder", "stream")
  /\ at.folder < NumFolders(hdr)
  /\ Count(hdr, at.folder) # 0
  /\ db' = [db EXCEPT !.FolderToFile[at.folder] = at.i]
  /\ at' = [at EXCEPT !.num = Count(hdr, at.folder), !.rem = Count(hdr, at.folder)]
  /\ UNCHANGED mask

SkipFolder ==
  /\ Step("folder", IF Add(at.pos, FolderSize) < FolderSize
                    THEN "failed" ELSE "folder")
  /\ at.folder < NumFolders(hdr)
  /\ Count(hdr, at.folder) = 0
  /\ db' = [db EXCEPT !.FolderToFile[at.folder] = at.i]
  /\ at' = [at EXCEPT !.num = 0, !.rem = 0, !.folder = @ + 1,
                      !.pos = Add(@, FolderSize)]
  /\ UNCHANGED mask

(* Where the CRC of the entry at.i comes from: its folder, the next digest, *)
(* or nowhere ("gap": sdCRCs has a position for it, but no value).          *)
CrcSource ==
  IF at.rem = 1 /\ at.num = 1 /\ at.folder \in hdr.folderCrc THEN "folder"
  ELSE IF hdr.digests = Absent THEN "none"
  ELSE IF at.digest \in hdr.digests THEN "digest" ELSE "gap"

EntryCrc == CASE CrcSource = "folder" -> <<"folder", at.folder>>
              [] CrcSource = "digest" -> <<"digest", at.val>>
              [] OTHER                -> NoCrc

(* The entry takes the next stream, which ends at pos in the table.         *)
PlaceStream(pos, folder, size) ==
  /\ db' = [db EXCEPT !.FileToFolder[at.i] = at.folder, !.CrcVals[at.i] = EntryCrc]
  /\ mask' = [mask EXCEPT !.bit = @ + 1,
                !.crcs = IF EntryCrc = NoCrc THEN @ ELSE @ \cup {mask.bit}]
  /\ at' = [at EXCEPT !.i = @ + 1, !.rem = @ - 1,
                      !.pos = pos, !.folder = folder, !.size = size,
                      !.digest = IF CrcSource \in {"digest", "gap"} THEN @ + 1 ELSE @,
                      !.val    = IF CrcSource = "digest" THEN @ + 1 ELSE @]

(* The last stream of a folder fills it up.                                 *)
FolderStart == db.UnpackPositions[db.FolderToFile[at.folder]]

(* Slip: the folder is taken to start at its last stream.                   *)
FolderEndFromHere == Add(at.pos, FolderSize)

FolderEnd == Add(FolderStart, FolderSize)

(* Slips: a last stream must have data; the sizes are not compared.         *)
LastNotEmpty  == at.pos - FolderStart < FolderSize /\ FolderEnd >= FolderSize
LastUnchecked == FolderEnd >= FolderSize

LastFits == at.pos - FolderStart <= FolderSize /\ FolderEnd >= FolderSize

LastStream ==
  /\ Step("stream", "file")
  /\ at.rem = 1 /\ LastFits
  /\ PlaceStream(FolderEnd, at.folder + 1, at.size)

(* The others have their size in the header.                                *)
NextSize  == hdr.sizes[at.size + 1]
InnerFits == at.size < Len(hdr.sizes) /\ Add(at.pos, NextSize) >= NextSize

InnerStream ==
  /\ Step("stream", "file")
  /\ at.rem # 1 /\ InnerFits
  /\ PlaceStream(Add(at.pos, NextSize), at.folder, at.size + 1)

(* return SZ_ERROR_ARCHIVE                                                  *)
StreamFails ==
  /\ Step("stream", "failed")
  /\ IF at.rem = 1 THEN ~LastFits ELSE ~InnerFits
  /\ UNCHANGED <<at, mask, db>>

-----------------------------------------------------------------------------
(* Behind the loop: the end of the last entry, and the folders that are     *)
(* left, which must be without streams.                                     *)
EndOfEntries ==
  /\ Step("file", IF at.rem # 0 THEN "failed" ELSE "tail")
  /\ ~FlushDue /\ at.i = hdr.numFiles
  /\ db' = [db EXCEPT !.UnpackPositions[at.i] = at.pos]
  /\ UNCHANGED <<at, mask>>

EndFolder ==
  /\ pc = "tail"
  /\ db' = [db EXCEPT !.FolderToFile[at.folder] = at.i]
  /\ \/ /\ at.folder = NumFolders(hdr)
        /\ Step("tail", "done")
        /\ UNCHANGED at
     \/ /\ at.folder < NumFolders(hdr)
        /\ Step("tail", IF hdr.counts = Absent \/ Count(hdr, at.folder) # 0
                        THEN "failed" ELSE "tail")
        /\ at' = [at EXCEPT !.folder = @ + 1]
  /\ UNCHANGED mask

Ended == pc \in {"done", "failed"} /\ UNCHANGED vars

Next ==
  \/ Check \/ FlushByte \/ EmptyEntry \/ DataEntry
  \/ OpenFolder \/ SkipFolder
  \/ LastStream \/ InnerStream \/ StreamFails
  \/ EndOfEntries \/ EndFolder
  \/ Ended

Spec == Init /\ [][Next]_vars

-----------------------------------------------------------------------------
TypeOK ==
  /\ pc \in {"check", "file", "folder", "stream", "tail", "done", "failed"}
  /\ at.i \in 0 .. hdr.numFiles
  /\ at.folder \in 0 .. NumFolders(hdr)
  /\ at.pos \in 0 .. U64 - 1
  /\ at.size \in 0 .. NumSizesInData(hdr)
  /\ at.digest \in 0 .. NumSubDigests(hdr)
  /\ at.emptyFile \in 0 .. NumEmptyStreams(hdr)
  /\ mask.bit \in 0 .. ByteBits
  /\ mask.dirs \subseteq 0 .. mask.bit - 1
  /\ mask.crcs \subseteq 0 .. mask.bit - 1

(* What the format says (DOC/7zFormat.txt): the entries with data take the  *)
(* streams of the folders one after the other.  Streams are numbered from 0.*)
StreamOf(e)  == Cardinality({g \in 0 .. e - 1 : ~IsEmptyStream(hdr, g)})
Before(Op(_), f) == MapThenSumSet(Op, {g \in Folders(hdr) : g < f})
FirstStream(f) == Before(LAMBDA g : Count(hdr, g), f)
FolderOfStream(k) ==
  CHOOSE f \in Folders(hdr) :
    FirstStream(f) <= k /\ k < FirstStream(f) + Count(hdr, f)

StoredSize(f, n) == hdr.sizes[Before(LAMBDA g : SizesOf(hdr, g), f) + n + 1]
StoredSizes(f, n) == MapThenSumSet(LAMBDA m : StoredSize(f, m), 0 .. n - 1)

(* Number, offset and size of stream k within its folder.                   *)
NumberOf(k) == k - FirstStream(FolderOfStream(k))
OffsetOf(k) == StoredSizes(FolderOfStream(k), NumberOf(k))
SizeOf(k) ==
  LET f == FolderOfStream(k)
  IN IF NumberOf(k) < SizesOf(hdr, f) THEN StoredSize(f, NumberOf(k))
     ELSE hdr.folderSize[f] - StoredSizes(f, SizesOf(hdr, f))

DigestOf(k) ==
  Before(LAMBDA g : DigestsOf(hdr, g), FolderOfStream(k)) + NumberOf(k)
CrcOf(k) ==
  IF FolderCrcServes(hdr, FolderOfStream(k)) THEN <<"folder", FolderOfStream(k)>>
  ELSE IF hdr.digests # Absent /\ DigestOf(k) \in hdr.digests
  THEN <<"digest", Cardinality({d \in hdr.digests : d < DigestOf(k)})>>
  ELSE NoCrc

DataEntries == {e \in Entries(hdr) : ~IsEmptyStream(hdr, e)}
FileSize(e) == db.UnpackPositions[e + 1] - db.UnpackPositions[e]
FileOffset(e) ==
  db.UnpackPositions[e] - db.UnpackPositions[db.FolderToFile[db.FileToFolder[e]]]

(* Folders that hold no stream are empty, as writers leave them.            *)
UnusedEmpty == \A f \in Folders(hdr) : Count(hdr, f) = 0 => hdr.folderSize[f] = 0

(* An accepted archive is listed and extracted as the format says: every    *)
(* entry with data lies where its stream lies, and has its size.            *)
EntriesLocated ==
  pc = "done" /\ UnusedEmpty =>
    /\ \A e \in DataEntries :
         /\ db.FileToFolder[e] = FolderOfStream(StreamOf(e))
         /\ FileOffset(e) = OffsetOf(StreamOf(e))
         /\ FileSize(e) = SizeOf(StreamOf(e))
    /\ \A e \in Entries(hdr) \ DataEntries : FileSize(e) = 0

(* "nSize; // uncompressed size in bytes" (7zArchive.h:42): the size that   *)
(* getEntryInfo reads from the tables.                                      *)
UncompressedSizes ==
  pc = "done" => \A e \in DataEntries : FileSize(e) = SizeOf(StreamOf(e))

(* The two bit vectors, which are written a byte at a time, say of every    *)
(* entry whether it is a directory and whether it has a CRC, and the CRC is *)
(* the one of its stream: a CRC of another entry would fail the extraction. *)
IsDir(e)  == e % ByteBits \in db.IsDirs[ByteOf(e)]
HasCrc(e) == e % ByteBits \in db.CrcDefs[ByteOf(e)]

EmptyNumber(e) == Cardinality({g \in 0 .. e - 1 : IsEmptyStream(hdr, g)})

EntryFlags ==
  pc = "done" =>
    /\ \A e \in DataEntries :
         /\ ~IsDir(e)
         /\ HasCrc(e) <=> CrcOf(StreamOf(e)) # NoCrc
         /\ db.CrcVals[e] = CrcOf(StreamOf(e))
    /\ \A e \in Entries(hdr) \ DataEntries :
         /\ ~HasCrc(e)
         /\ IsDir(e) <=> hdr.emptyFiles = Absent
                           \/ EmptyNumber(e) \notin hdr.emptyFiles

(* An entry of the index is what the header says of it: its place, its size *)
(* and its flags.                                                           *)
EntriesExact == EntriesLocated /\ EntryFlags

(* A header that agrees with itself is not refused.                         *)
WellFormed ==
  /\ hdr.numFiles - NumEmptyStreams(hdr) = NumTotalSubStreams(hdr)
  /\ Len(hdr.sizes) = NumSizesInData(hdr)
  /\ \A f \in Folders(hdr) : StoredSizes(f, SizesOf(hdr, f)) <= hdr.folderSize[f]
  /\ MapThenSumSet(LAMBDA f : hdr.folderSize[f], Folders(hdr)) < U64
  /\ UnusedEmpty

WellFormedAccepted == WellFormed => pc # "failed"

(* Whatever the header says, an entry of an accepted archive lies inside    *)
(* the block SzArEx_Extract decodes for it, and all tables are filled in.   *)
InsideBlock ==
  pc = "done" =>
    /\ \A e \in 0 .. hdr.numFiles : db.UnpackPositions[e] # Junk
    /\ \A f \in 0 .. NumFolders(hdr) : db.FolderToFile[f] \in 0 .. hdr.numFiles
    /\ \A e \in Entries(hdr) : db.FileToFolder[e] # NoFolder =>
         /\ db.FileToFolder[e] \in Folders(hdr)
         /\ db.FolderToFile[db.FileToFolder[e]] <= e
         /\ db.UnpackPositions[e] <= db.UnpackPositions[e + 1]
         /\ db.UnpackPositions[db.FolderToFile[db.FileToFolder[e]]]
              <= db.UnpackPositions[e]
         /\ FileOffset(e) + FileSize(e) <= hdr.folderSize[db.FileToFolder[e]]
=============================================================================
