----------------------------- MODULE SolidBlock -----------------------------
(* SzArEx_Extract (7zArcIn.c) inside SevenZArchive::extractToMemory         *)
(* (7zArchive.cpp): the cache of one decoded solid block that both keep     *)
(* between calls.  An extraction of entry i is                              *)
(*    ExtractNothing, BlockHit or StartBlock, DecodeFolder, then SliceOK,   *)
(* and any failure ends in FailAndReset.  ArchiveHandle sequences the       *)
(* steps and says which thread takes them.  It is what a miss of the decode *)
(* cache is answered from, and allocates from the same Addr.                *)
EXTENDS Naturals, Sequences, DecodeCache

(* A parsed .7z archive: the tables of CSzArEx (archive/lzma/C/7z.h) and,   *)
(* for reference, the contents they describe.  The archive does not change  *)
(* while a handle is open.                                                  *)
CONSTANTS Free,             \* what an address holds while it is not allocated
          Byte,             \* the bytes that occur in the archive
          BadByte,          \* what a decoder leaves behind when it fails
          NumFiles,         \* entries of the archive
          Folders,          \* solid blocks
          NoFolder,         \* the (UInt32)-1 in FileToFolder and blockIndex
          FileToFolder,     \* solid block of an entry, NoFolder if it is empty
          FolderToFile,     \* first entry of a solid block
          UnpackPositions,  \* running total of the entries' sizes
          Block,            \* what the packed stream of a block decodes to
          Content,          \* what each entry contains
          HasCrc,           \* entries for which the archive stores a CRC
          Damaged,          \* of these, the ones whose CRC does not fit
          SizeMax           \* largest value of a size_t

Files == 0 .. NumFiles - 1

(* The tables locate every entry inside the block that holds it.            *)
Described(i) ==
  LET f == FileToFolder[i]
      start == UnpackPositions[i] - UnpackPositions[FolderToFile[f]]
  IN IF f = NoFolder
     THEN Content[i] = << >>
     ELSE /\ f \in Folders
          /\ FolderToFile[f] <= i
          /\ UnpackPositions[FolderToFile[f]] <= UnpackPositions[i]
          /\ UnpackPositions[i + 1] - UnpackPositions[i] = Len(Content[i])
          /\ start + Len(Content[i]) <= Len(Block[f])
          /\ SubSeq(Block[f], start + 1, start + Len(Content[i])) = Content[i]

ASSUME DbAssumption ==
  /\ NumFiles \in Nat
  /\ NoFolder \notin Folders
  /\ BadByte \notin Byte
  /\ SizeMax \in Nat
  /\ FileToFolder \in [Files -> Folders \cup {NoFolder}]
  /\ FolderToFile \in [Folders -> 0 .. NumFiles]
  /\ UnpackPositions \in [0 .. NumFiles -> Nat]
  /\ Block \in [Folders -> Seq(Byte)]
  /\ Content \in [Files -> Seq(Byte)]
  /\ HasCrc \subseteq Files
  /\ Damaged \subseteq HasCrc
  /\ \A i \in HasCrc : FileToFolder[i] # NoFolder
  /\ \A i \in Files : Described(i)

(* CrcCalc(...) == p->CRCs.Vals[i], taking the CRC to tell contents apart.  *)
CrcPasses(i, data) ==
  i \in HasCrc => data = Content[i] /\ i \notin Damaged

-----------------------------------------------------------------------------

VARIABLES heap,           \* what each address holds
          blockIndex,     \* blockIndex_: the block outBuffer belongs to
          outBuffer,      \* outBuffer_: the decoded block, or Null
          outBufferSize   \* outBufferSize_

blockVars == <<heap, blockIndex, outBuffer, outBufferSize>>

Buffer == Seq(Byte \cup {BadByte})

ASSUME BlockAssumption == Free \notin Buffer

BlockTypeOK ==
  /\ heap \in [Addr -> Buffer \cup {Free}]
  /\ blockIndex \in Folders \cup {NoFolder}
  /\ outBuffer \in Addr \cup {Null}
  /\ outBufferSize \in Nat

(* The heap after free(p).                                                  *)
Freed(p) == [a \in Addr |-> IF a = p THEN Free ELSE heap[a]]

(* What reading the block buffer yields: nothing when it is Null.           *)
BlockData == IF outBuffer = Null THEN << >> ELSE heap[outBuffer]

Garbage(n) == [k \in 1 .. n |-> BadByte]

FolderOf(i)      == FileToFolder[i]
UnpackSize(f)    == Len(Block[f])
FileOffset(i)    == UnpackPositions[i] - UnpackPositions[FolderToFile[FolderOf(i)]]
FileSize(i)      == UnpackPositions[i + 1] - UnpackPositions[i]

BlockInit ==
  /\ blockIndex = NoFolder
  /\ outBuffer = Null
  /\ outBufferSize = 0

-----------------------------------------------------------------------------
(* An entry without data: the cached block is dropped.                      *)
ExtractNothing(i) ==
  /\ FolderOf(i) = NoFolder
  /\ heap' = Freed(outBuffer)
  /\ blockIndex' = NoFolder
  /\ outBuffer' = Null
  /\ outBufferSize' = 0

(* The block of entry i is the cached one.                                  *)
BlockCached(i) == outBuffer # Null /\ blockIndex = FolderOf(i)

BlockHit(i) ==
  /\ FolderOf(i) # NoFolder
  /\ BlockCached(i)
  /\ UNCHANGED blockVars

(* Another block is needed: unpackSize != unpackSizeSpec.                   *)
BlockTooLarge(i) ==
  /\ FolderOf(i) # NoFolder
  /\ ~BlockCached(i)
  /\ UnpackSize(FolderOf(i)) > SizeMax
  /\ UNCHANGED blockVars

(* Drop the cached block and allocate room for the block of entry i; ok     *)
(* tells whether ISzAlloc_Alloc succeeds.                                   *)
StartBlock(i, ok) ==
  LET f == FolderOf(i)
      n == UnpackSize(FolderOf(i))
  IN /\ f # NoFolder
     /\ ~BlockCached(i)
     /\ n <= SizeMax
     /\ blockIndex' = f
     /\ outBufferSize' = n
     /\ IF n = 0 \/ ~ok
        THEN /\ ok \/ n # 0
             /\ heap' = Freed(outBuffer)
             /\ outBuffer' = Null
        ELSE \E a \in Addr :
               /\ Freed(outBuffer)[a] = Free
               /\ outBuffer' = a
               /\ heap' = [Freed(outBuffer) EXCEPT ![a] = Garbage(n)]

(* SzAr_DecodeFolder: the whole block, or an error part of the way.         *)
DecodeFolder(f, ok) ==
  /\ heap' = IF outBuffer = Null THEN heap
             ELSE [heap EXCEPT ![outBuffer] =
                     IF ok THEN Block[f] ELSE Garbage(UnpackSize(f))]
  /\ UNCHANGED <<blockIndex, outBuffer, outBufferSize>>

(* The checks behind the decoding, and the bytes of entry i.                *)
FileBytes(i) ==
  IF FolderOf(i) = NoFolder THEN << >>
  ELSE SubSeq(BlockData, FileOffset(i) + 1, FileOffset(i) + FileSize(i))

SliceOK(i) ==
  FolderOf(i) # NoFolder =>
    /\ FileOffset(i) + FileSize(i) <= outBufferSize
    /\ CrcPasses(i, FileBytes(i))

(* Slip: a failed extraction that leaves the block where it is.             *)
FailAndKeep == UNCHANGED blockVars

(* res != SZ_OK: free(outBuffer_) and resetCache().                         *)
FailAndReset ==
  /\ heap' = Freed(outBuffer)
  /\ blockIndex' = NoFolder
  /\ outBuffer' = Null
  /\ outBufferSize' = 0

(* A cached block is a block decoded to its end: SzArEx_Extract trusts it   *)
(* without looking at it again, and an entry without a CRC is handed out    *)
(* from it unchecked.                                                       *)
BlockValid ==
  outBuffer # Null => /\ blockIndex # NoFolder
                      /\ heap[outBuffer] = Block[blockIndex]
                      /\ outBufferSize = UnpackSize(blockIndex)
=============================================================================
