---------------------------- MODULE ArchiveLife ----------------------------
(* What an open archive holds: OpenArchive and CloseArchive                 *)
(* (plugin/7zPlugin.cpp), SevenZArchive::open and its destructor            *)
(* (archive/7zArchive.cpp) around SzArEx_Open (7zArcIn.c), cut at every     *)
(* allocation and every step that can fail.  What the header says is        *)
(* abstracted to the ways its reading can go.                               *)
CONSTANTS Addr,      \* addresses the allocator may return
          Null       \* NULL

VARIABLES heap,       \* the addresses that are allocated
          ptr,        \* what the pointers of each owner hold
          fault,      \* something was freed that was not allocated
          fileOpen,   \* fileStream_.file holds an open file
          isOpen,     \* isOpen_
          pc,
          lost        \* history: allocated, and the pointer was overwritten

vars == <<heap, ptr, fault, fileOpen, isOpen, pc, lost>>

(* The ArchiveHandle itself and lookStream_.buf; the tables of db_.db, the  *)
(* names, the times, and the index tables of db_; outBuffer_; and the       *)
(* locals of SzArEx_Open2 and SzReadHeader.  "mtime" and "ctime" are two    *)
(* fields of db_: each is filled by a property of its own.                  *)
FileTables == {"names", "mtime", "ctime"}
Tables == FileTables \cup {"db", "index"}
Locals == {"buf", "tempAr", "tempBuf", "tempBufs"}
Owners == {"handle", "look", "outBuffer"} \cup Tables \cup Locals

Init ==
  /\ heap = {} /\ ptr = [o \in Owners |-> Null] /\ fault = FALSE
  /\ fileOpen = FALSE /\ isOpen = FALSE
  /\ pc = "closed"
  /\ lost = {}

Step(from, to) == pc = from /\ pc' = to

Alloc(o) ==
  \E a \in Addr \ heap :
    /\ heap' = heap \cup {a}
    /\ ptr' = [ptr EXCEPT ![o] = a]
    /\ UNCHANGED fault

(* free() of what the owners S hold; the owners N of them are set to NULL.  *)
FreeAll(S, N) ==
  /\ heap' = heap \ {ptr[o] : o \in S}
  /\ ptr' = [o \in Owners |-> IF o \in N THEN Null ELSE ptr[o]]
  /\ fault' = (fault \/ \E o \in S : ptr[o] # Null /\ ptr[o] \notin heap)

Release(S) == FreeAll(S, S)

NoMemory   == UNCHANGED <<heap, ptr, fault>>
NoArchive  == UNCHANGED <<fileOpen, isOpen>>
Only(from, to) == Step(from, to) /\ NoArchive

-----------------------------------------------------------------------------
(* OpenArchive.                                                             *)
NewHandle == Only("closed", "file") /\ Alloc("handle")

OpenFile ==
  /\ Step("file", "look")
  /\ fileOpen' = TRUE
  /\ NoMemory /\ UNCHANGED isOpen

OpenFileFails == Only("file", "delete") /\ NoMemory

AllocLook == Only("look", "start") /\ Alloc("look")

AllocLookFails ==
  /\ Step("look", "delete")
  /\ fileOpen' = FALSE
  /\ NoMemory /\ UNCHANGED isOpen

(* SzArEx_Open2: the start header.  An archive may have no other header.    *)
StartHeader ==
  /\ \/ Only("start", "buf")
     \/ Only("start", "opened")
     \/ Only("start", "fail")
  /\ NoMemory

AllocBuf ==
  \/ Only("buf", "read") /\ Alloc("buf")
  \/ Only("buf", "fail") /\ NoMemory

ReadHeader ==
  /\ \/ Only("read", "encoded")
     \/ Only("read", "streams")
     \/ Only("read", "drop")
  /\ NoMemory

-----------------------------------------------------------------------------
(* k7zIdEncodedHeader: SzReadAndDecodePackedStreams into tempBuf.           *)
EncodedTables ==
  \/ Only("encoded", "encodedBuf") /\ Alloc("tempAr")
  \/ Only("encoded", "encodedFails") /\ (NoMemory \/ Alloc("tempAr"))

EncodedBuf ==
  \/ Only("encodedBuf", "encodedData") /\ Alloc("tempBuf")
  \/ Only("encodedBuf", "encodedFails") /\ NoMemory

EncodedData ==
  /\ \/ Only("encodedData", "encodedDone")
     \/ Only("encodedData", "encodedFails")
  /\ NoMemory

(* Slip: tempBuf is left behind.                                            *)
EncodedFailsLeak == Only("encodedFails", "drop") /\ Release({"tempAr"})

EncodedFails == Only("encodedFails", "drop") /\ Release({"tempAr", "tempBuf"})

(* The decoded header takes the place of the encoded one.                   *)
EncodedDone ==
  /\ Only("encodedDone", "streams") \/ Only("encodedDone", "drop")
  /\ heap' = heap \ {ptr["tempAr"], ptr["buf"]}
  /\ ptr' = [ptr EXCEPT !["buf"] = ptr["tempBuf"], !["tempBuf"] = Null,
                        !["tempAr"] = Null]
  /\ fault' = (fault \/ \E o \in {"tempAr", "buf"} : ptr[o] \notin heap)

(* res != SZ_OK before SzReadHeader.                                        *)
Drop == Only("drop", "fail") /\ Release({"buf"})

-----------------------------------------------------------------------------
(* SzReadHeader2: additional streams, main streams, files.  Any of them may *)
(* be missing; a failure leaves what it has allocated.                      *)
AdditionalStreams ==
  \/ Only("streams", "main") /\ (NoMemory \/ Alloc("tempBufs"))
  \/ Only("streams", "headerFails") /\ (NoMemory \/ Alloc("tempBufs"))

MainStreams ==
  \/ Only("main", "files") /\ (NoMemory \/ Alloc("db"))
  \/ Only("main", "headerDone") /\ (NoMemory \/ Alloc("db"))
  \/ Only("main", "headerFails") /\ (NoMemory \/ Alloc("db"))

(* k7zIdName, k7zIdMTime or k7zIdCTime.  The address of the new table, or   *)
(* the NULL of a malloc that fails, overwrites the pointer whatever it held: *)
(* a property that comes again loses the table of the first one.            *)
FileTable(o) ==
  /\ lost' = lost \cup ({ptr[o]} \ {Null})
  /\ \/ Only("files", "files") /\ Alloc(o)
     \/ Only("files", "headerFails") /\ Alloc(o)
     \/ /\ Only("files", "headerFails")
        /\ ptr' = [ptr EXCEPT ![o] = Null]
        /\ UNCHANGED <<heap, fault>>

FilesInfo ==
  \/ Only("files", "headerDone") /\ Alloc("index")
  \/ Only("files", "headerFails") /\ (NoMemory \/ Alloc("index"))

(* Slip: the additional streams are kept.                                   *)
HeaderDoneKeeps ==
  /\ Only("headerDone", "opened") \/ Only("headerDone", "fail")
       \/ Only("headerFails", "fail")
  /\ Release({"buf"})

(* SzReadHeader frees tempBufs, SzArEx_Open2 frees buf; bytes that are left *)
(* in the header are an error.                                              *)
HeaderDone ==
  /\ \/ Only("headerDone", "opened")
     \/ Only("headerDone", "fail")
     \/ Only("headerFails", "fail")
  /\ Release({"tempBufs", "buf"})

-----------------------------------------------------------------------------
(* res != SZ_OK: SzArEx_Free in SzArEx_Open and once more in open, and the  *)
(* rest of what open has acquired.  lookStream_.buf keeps its value.        *)
OpenFails ==
  /\ Step("fail", "delete")
  /\ FreeAll(Tables \cup {"look"}, Tables)
  /\ fileOpen' = FALSE
  /\ UNCHANGED isOpen

(* What ~SevenZArchive frees.                                               *)
Destroyed == IF isOpen THEN Tables \cup {"look", "outBuffer"} ELSE {}

(* delete ar: the handle goes, and its members with it.                     *)
Delete ==
  /\ FreeAll(Destroyed \cup {"handle"}, Owners)
  /\ fileOpen' = (fileOpen /\ ~isOpen)
  /\ isOpen' = FALSE

DeleteFailed == Step("delete", "closed") /\ Delete

Opened ==
  /\ Step("opened", "open")
  /\ isOpen' = TRUE
  /\ NoMemory /\ UNCHANGED fileOpen

(* extractToMemory: another block, or none, or a failure.                   *)
Extract ==
  /\ Only("open", "open")
  /\ \/ Release({"outBuffer"})
     \/ /\ ptr["outBuffer"] = Null
        /\ Alloc("outBuffer")

CloseArchive == Step("open", "closed") /\ Delete

Next ==
  \/ \E o \in FileTables : FileTable(o)
  \/ /\ \/ NewHandle \/ OpenFile \/ OpenFileFails
        \/ AllocLook \/ AllocLookFails
        \/ StartHeader \/ AllocBuf \/ ReadHeader
        \/ EncodedTables \/ EncodedBuf \/ EncodedData \/ EncodedFails
        \/ EncodedDone \/ Drop
        \/ AdditionalStreams \/ MainStreams \/ FilesInfo \/ HeaderDone
        \/ OpenFails \/ Opened \/ DeleteFailed
        \/ Extract \/ CloseArchive
     /\ UNCHANGED lost

Spec == Init /\ [][Next]_vars

-----------------------------------------------------------------------------
(* Nothing is freed that is not allocated, although a failed open leaves    *)
(* lookStream_.buf pointing to freed memory and frees db_ twice.            *)
NoDoubleFree == ~fault

(* A failed OpenArchive and a CloseArchive leave nothing behind but the     *)
(* tables a repeated property has lost, wherever the opening broke off, and *)
(* they have freed everything once.                                         *)
NothingLeft == NoDoubleFree /\ (pc = "closed" => heap = lost /\ ~fileOpen)

(* While the host holds the archive, the destructor will find it open, its  *)
(* pointers are good and none of them shared, and what opening it took on   *)
(* the way is given back, but for what a repeated property has lost.        *)
HandleUsable ==
  pc = "open" =>
    /\ isOpen /\ fileOpen
    /\ {ptr["handle"], ptr["look"]} \subseteq heap
    /\ heap \ lost = {ptr[o] : o \in Owners \ Locals} \ {Null}

(* "call SzArEx_Free(&db, allocImp.Free) to free allocated items in db"     *)
(* (DOC/7zC.txt:142): a closed archive leaves nothing allocated.            *)
AllFreed == pc = "closed" => heap = {}
=============================================================================
