------------------------------ MODULE MCHeaders ------------------------------
(* The parts of header reading, each on its own: the two parsers of folders   *)
(* (SzFolders), the streams' lists (SzStreamInfo), the properties of the      *)
(* files (SzFilesInfo) and the tables made of them (SzFileTable).             *)
EXTENDS SzFolders

CONSTANTS NoFolderIndex, Absent, Junk, \* model values
          TableFolders, TableStreams, TableFiles, TableU64, ByteBits,
          TableSizes,    \* sizes of folders and streams
          FlagSizes,     \* ... where CRCs, digests and kinds of empty entries vary
          NumFoldersMax, NumPacksMax, RangeLimit, PackSizes,
          CountCodes, SizeCodes, InfoU64,  \* SzStreamInfo
          FilesMax, PropsMax, NamesMax, TempBufs  \* SzFilesInfo

ASSUME TableAssumption ==
  /\ TableU64 \in Nat \ {0} /\ TableSizes \cup FlagSizes \subseteq 0 .. TableU64 - 1
  /\ {TableFolders, TableStreams, TableFiles} \subseteq Nat /\ ByteBits \in Nat \ {0}
  /\ \A x \in 0 .. TableU64 - 1 : x # Junk

VARIABLES part,                               \* the part that runs
          hdr, tablePc, at, mask, db,         \* SzFileTable
          bytes, sdPos, infoAr, ssi, loc, infoPc,  \* SzStreamInfo
          p, empty, names, files, filesPc     \* SzFilesInfo

(* Small headers for SzFileTable: up to TableFolders folders of up to           *)
(* TableStreams streams and TableFiles entries.                               *)
Lists == INSTANCE SzFileTable WITH
  Headers <- {}, U64 <- TableU64, NoFolder <- NoFolderIndex, pc <- tablePc

FolderSets == {0 .. n - 1 : n \in 0 .. TableFolders}

(* Folders with their sizes, CRCs and numbers of streams.                   *)
Bases(sizes, flags) ==
  UNION {[folderSize : [F -> sizes],
          folderCrc : IF flags THEN SUBSET F ELSE {{}},
          counts : {Absent} \cup [F -> 0 .. TableStreams],
          numFiles : 0 .. TableFiles] : F \in FolderSets}

(* ReadSubStreamsInfo reads the sizes of all streams, or none.              *)
SizeLists(b, sizes) == UNION {[1 .. k -> sizes] : k \in {0, Lists!NumSizesInData(b)} \cap Nat}
DigestSets(b, flags) ==
  {Absent} \cup IF flags THEN SUBSET (0 .. Lists!NumSubDigests(b) - 1) ELSE {}

(* As many entries with data as there are streams, or one more.             *)
EmptySets(b) ==
  {S \in SUBSET Lists!Entries(b) :
     \/ b.numFiles - Cardinality(S) = Lists!NumTotalSubStreams(b)
     \/ S = {} /\ b.numFiles = Lists!NumTotalSubStreams(b) + 1}
EmptyFileSets(S, flags) ==
  {Absent} \cup IF flags THEN SUBSET (0 .. Cardinality(S) - 1) ELSE {}

HeadersOf(sizes, flags) ==
  UNION {UNION {{[folderSize |-> b.folderSize, folderCrc |-> b.folderCrc,
                  counts |-> b.counts, numFiles |-> b.numFiles,
                  sizes |-> s, digests |-> d,
                  emptyStreams |-> IF S = {} THEN Absent ELSE S,
                  emptyFiles |-> IF S = {} THEN Absent ELSE E] :
                   s \in SizeLists(b, sizes), d \in DigestSets(b, flags),
                   E \in EmptyFileSets(S, flags)} :
                S \in EmptySets(b)} : b \in Bases(sizes, flags)}

SmallHeaders == HeadersOf(TableSizes, FALSE) \cup HeadersOf(FlagSizes, TRUE)

Table == INSTANCE SzFileTable WITH
  Headers <- SmallHeaders, U64 <- TableU64, NoFolder <- NoFolderIndex, pc <- tablePc

-----------------------------------------------------------------------------
(* The same number in one byte and in nine.                                   *)
Long(n) == <<255, n, 0, 0, 0, 0, 0, 0, 0>>
SomeCounts == {<<0>>, <<1>>, <<128, 2>>, Long(3)}
SomeSizes == {<<128, 2>>, Long(0)}
Info == INSTANCE SzStreamInfo WITH
  U64 <- InfoU64, Counts <- CountCodes, Sizes <- SizeCodes, BitsInByte <- ByteBits,
  Null <- Absent, ar <- infoAr, pc <- infoPc

(* One buffer of additional streams, for one value.                           *)
OneBuffer == <<1>>
Files == INSTANCE SzFilesInfo WITH NULL <- Absent, loc <- files, pc <- filesPc

(* An encoding is as long as its first byte says.                             *)
ASSUME InfoAssumption ==
  /\ InfoU64 \in Nat \ {0} /\ RangeLimit \in Nat /\ PackSizes \subseteq 0 .. InfoU64 - 1
  /\ NumFoldersMax \in Nat /\ NumPacksMax \in Nat
  /\ \A s \in CountCodes \cup SizeCodes :
       s \in Seq(0 .. 255) /\ s # << >> /\ Len(s) = Info!ReadLength(s[1])
  /\ Absent \notin Nat /\ Absent \notin Nat \X Nat
ASSUME FilesAssumption ==
  /\ TempBufs \in Seq(Nat) /\ {FilesMax, PropsMax, NamesMax} \subseteq Nat
  /\ \A S \in SUBSET (0 .. FilesMax - 1) : S # Absent

tableVars == <<hdr, tablePc, at, mask, db>>
infoVars == <<bytes, sdPos, infoAr, ssi, loc, infoPc>>
filesVars == <<p, empty, names, files, filesPc>>
headersVars == <<part, vars, tableVars, infoVars, filesVars>>

-----------------------------------------------------------------------------
SomeHeader == [folderSize |-> << >>, folderCrc |-> {}, counts |-> Absent, sizes |-> << >>,
               digests |-> Absent, numFiles |-> 0, emptyStreams |-> Absent,
               emptyFiles |-> Absent]

(* A part that does not run stands at one state.                              *)
HeadersInit ==
  /\ part \in {"folders", "table", "info", "files"}
  /\ part = "table" \/ hdr = SomeHeader
  /\ part = "files" \/ p = [numFiles |-> 0, vals |-> << >>]
  /\ Init /\ Info!Init
  /\ (part = "files" /\ Files!Init)
       \/ (part # "files" /\ empty = Absent /\ names = Absent /\ files = Absent
             /\ filesPc = "off")
  /\ (part = "table" /\ Table!Init)
       \/ (part # "table" /\ tablePc = "off" /\ at = Absent /\ mask = Absent /\ db = Absent)

HeadersNext ==
  \/ part = "folders" /\ Next /\ UNCHANGED <<part, tableVars, infoVars, filesVars>>
  \/ part = "table" /\ Table!Next /\ UNCHANGED <<part, vars, infoVars, filesVars>>
  \/ part = "info" /\ Info!Next /\ UNCHANGED <<part, vars, tableVars, filesVars>>
  \/ part = "files" /\ Files!Next /\ UNCHANGED <<part, vars, tableVars, infoVars>>
HeadersSpec == HeadersInit /\ [][HeadersNext]_headersVars

-----------------------------------------------------------------------------
(* The properties of the instances, see there.                                *)
EntriesExact == part = "table" => Table!EntriesExact
WellFormedAccepted == part = "table" => Table!WellFormedAccepted
InsideBlock == part = "table" => Table!InsideBlock
UncompressedSizes == part = "table" => Table!UncompressedSizes
StreamInfoExact == part = "info" => Info!StreamInfoExact
FilesInfoExact == part = "files" => Files!FilesInfoExact
=============================================================================
