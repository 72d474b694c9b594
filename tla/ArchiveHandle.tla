--------------------------- MODULE ArchiveHandle ---------------------------
(* One ArchiveHandle of plugin/7zPlugin.cpp, shared by the threads of the   *)
(* host: FileDecode under the handle's critical section, with the LRU cache *)
(* of decoded entries (DecodeCache) above the solid-block cache of          *)
(* SevenZArchive (SolidBlock), and OpenArchive / CloseArchive around it.    *)
(* FileDecode is cut at every C call, so that the critical section alone    *)
(* keeps two calls apart.                                                   *)
EXTENDS SolidBlock

CONSTANTS Threads,     \* threads of the host
          NoOwner,     \* the critical section is free
          Untouched    \* a buffer or path FileDecode has not written to

VARIABLES open,        \* the host holds the handle
          cs,          \* owner of CRITICAL_SECTION cs
          pc,          \* where each thread is in FileDecode
          req,         \* its archiveIdx and output mode
          buf,         \* its malloc'ed buf (FILE mode)
          entry,       \* its cacheEntry (FILE mode)
          remaining,   \* bytes WriteFile still has to take
          out,         \* the host's buffer, or the output file
          reply        \* the AMPE_ code of its last call

threadVars == <<cs, pc, req, buf, entry, remaining, out, reply>>
vars == <<blockVars, cacheVars, open, threadVars>>

ASSUME HandleAssumption ==
  /\ NoOwner \notin Threads
  /\ Files \subseteq Indices
  /\ Untouched \notin Seq(Byte)

Modes == {"MEM", "FILE"}
Request == [index : Indices, mode : Modes]
NoRequest == [index |-> Untouched, mode |-> "none"]

Outside == {"idle", "enter", "done"}
Inside == {"find", "extract", "decode", "slice", "fail", "giveup", "insert",
           "create", "write", "leave"}

Codes == {"none", "AMPE_OK", "AMPE_Error", "AMPE_WriteError",
          "AMPE_InvalidParam", "AMPE_Abort"}

TypeOK ==
  /\ BlockTypeOK
  /\ CacheTypeOK
  /\ open \in BOOLEAN
  /\ cs \in Threads \cup {NoOwner}
  /\ pc \in [Threads -> Outside \cup Inside]
  /\ req \in [Threads -> Request \cup {NoRequest}]
  /\ buf \in [Threads -> Addr \cup {Null}]
  /\ entry \in [Threads -> Slots \cup {Null}]
  /\ remaining \in [Threads -> Nat]
  /\ out \in [Threads -> Buffer \cup {Untouched}]
  /\ reply \in [Threads -> Codes]

Index(t) == req[t].index
Mem(t)   == req[t].mode = "MEM"

-----------------------------------------------------------------------------
(* One step of thread t from one place of FileDecode to another.            *)
Goto(t, from, to) == pc[t] = from /\ pc' = [pc EXCEPT ![t] = to]

Return(t, code) == reply' = [reply EXCEPT ![t] = code]

Init ==
  /\ heap = [a \in Addr |-> Free]
  /\ BlockInit
  /\ FreshCache
  /\ open = FALSE
  /\ cs = NoOwner
  /\ pc = [t \in Threads |-> "idle"]
  /\ req = [t \in Threads |-> NoRequest]
  /\ buf = [t \in Threads |-> Null]
  /\ entry = [t \in Threads |-> Null]
  /\ remaining = [t \in Threads |-> 0]
  /\ out = [t \in Threads |-> Untouched]
  /\ reply = [t \in Threads |-> "none"]

(* OpenArchive that succeeds: a new handle.  Its failures leave nothing     *)
(* behind (module ArchiveLife).                                             *)
OpenArchive ==
  /\ ~open
  /\ open' = TRUE
  /\ blockIndex' = NoFolder
  /\ outBuffer' = Null
  /\ outBufferSize' = 0
  /\ cache' = [s \in Slots |-> EmptyEntry]
  /\ lruSeqGen' = 0
  /\ UNCHANGED <<heap, threadVars>>

(* CloseArchive; the host must not close a handle it still uses.            *)
CloseArchive ==
  /\ open
  /\ \A t \in Threads : pc[t] \in {"idle", "done"}
  /\ open' = FALSE
  /\ heap' = [a \in Addr |->
                IF a = outBuffer \/ \E s \in Slots : cache[s].data = a
                THEN Free ELSE heap[a]]
  /\ blockIndex' = NoFolder
  /\ outBuffer' = Null
  /\ outBufferSize' = 0
  /\ cache' = [s \in Slots |-> EmptyEntry]
  /\ lruSeqGen' = 0
  /\ UNCHANGED threadVars

-----------------------------------------------------------------------------
(* FileDecode, up to EnterCriticalSection.                                  *)
Call(t) ==
  /\ open
  /\ Goto(t, "idle", "enter")
  /\ \E r \in Request : req' = [req EXCEPT ![t] = r]
  /\ UNCHANGED <<blockVars, cacheVars, open, cs, buf, entry, remaining, out, reply>>

(* A null parameter, or both or neither of the two output modes.            *)
RefuseCall(t) ==
  /\ open
  /\ Goto(t, "idle", "done")
  /\ \E c \in {"AMPE_InvalidParam", "AMPE_Abort"} : Return(t, c)
  /\ UNCHANGED <<blockVars, cacheVars, open, cs, req, buf, entry, remaining, out>>

Enter(t) ==
  /\ Goto(t, "enter", "find")
  /\ cs = NoOwner
  /\ cs' = t
  /\ UNCHANGED <<blockVars, cacheVars, open, req, buf, entry, remaining, out, reply>>

(* cacheFind succeeds: MEM mode copies the entry out, FILE mode goes on to  *)
(* the output file.                                                         *)
FindHitMem(t) ==
  /\ Mem(t)
  /\ Goto(t, "find", "leave")
  /\ CacheHit(Index(t))
  /\ out' = [out EXCEPT ![t] = heap[cache[First(SlotsOf(Index(t)))].data]]
  /\ Return(t, "AMPE_OK")
  /\ UNCHANGED <<blockVars, open, cs, req, buf, entry, remaining>>

FindHitFile(t) ==
  /\ ~Mem(t)
  /\ Goto(t, "find", "create")
  /\ CacheHit(Index(t))
  /\ entry' = [entry EXCEPT ![t] = First(SlotsOf(Index(t)))]
  /\ UNCHANGED <<blockVars, open, cs, req, buf, remaining, out, reply>>

(* Slip: MEM mode extracts without a look at the cache.                     *)
FindMissAlways(t) ==
  /\ Mem(t)
  /\ Goto(t, "find", "extract")
  /\ UNCHANGED <<blockVars, cacheVars, open, cs, req, buf, entry, remaining, out, reply>>

FindMissMem(t) ==
  /\ Mem(t)
  /\ Goto(t, "find", "extract")
  /\ CacheMiss(Index(t))
  /\ UNCHANGED <<blockVars, cacheVars, open, cs, req, buf, entry, remaining, out, reply>>

(* FILE mode mallocs the buffer it extracts into.                           *)
FindMissFile(t) ==
  /\ ~Mem(t)
  /\ CacheMiss(Index(t))
  /\ \/ \E a \in Addr :
          /\ Goto(t, "find", "extract")
          /\ heap[a] = Free
          /\ heap' = [heap EXCEPT ![a] = << >>]
          /\ buf' = [buf EXCEPT ![t] = a]
     \/ Goto(t, "find", "giveup") /\ UNCHANGED <<heap, buf>>
  /\ UNCHANGED <<blockIndex, outBuffer, outBufferSize, cacheVars, open, cs, req,
                 entry, remaining, out, reply>>

-----------------------------------------------------------------------------
(* extractToMemory refuses an index that is not in the archive.             *)
BadIndex(t) ==
  /\ Goto(t, "extract", "giveup")
  /\ Index(t) \notin Files
  /\ UNCHANGED <<blockVars, cacheVars, open, cs, req, buf, entry, remaining, out, reply>>

(* SzArEx_Extract up to the decoding.                                       *)
Extract(t) ==
  /\ Index(t) \in Files
  /\ \/ Goto(t, "extract", "slice") /\ ExtractNothing(Index(t))
     \/ Goto(t, "extract", "slice") /\ BlockHit(Index(t))
     \/ Goto(t, "extract", "fail") /\ BlockTooLarge(Index(t))
     \/ Goto(t, "extract", "decode") /\ StartBlock(Index(t), TRUE)
     \/ Goto(t, "extract", "fail") /\ StartBlock(Index(t), FALSE)
  /\ UNCHANGED <<cacheVars, open, cs, req, buf, entry, remaining, out, reply>>

Decode(t) ==
  /\ \/ Goto(t, "decode", "slice") /\ DecodeFolder(FolderOf(Index(t)), TRUE)
     \/ Goto(t, "decode", "fail") /\ DecodeFolder(FolderOf(Index(t)), FALSE)
  /\ UNCHANGED <<cacheVars, open, cs, req, buf, entry, remaining, out, reply>>

(* The entry's bytes are copied to the host's buffer or to buf.             *)
Slice(t) ==
  /\ Goto(t, "slice", "insert")
  /\ SliceOK(Index(t))
  /\ IF Mem(t)
     THEN out' = [out EXCEPT ![t] = FileBytes(Index(t))] /\ UNCHANGED heap
     ELSE heap' = [heap EXCEPT ![buf[t]] = FileBytes(Index(t))] /\ UNCHANGED out
  /\ UNCHANGED <<blockIndex, outBuffer, outBufferSize, cacheVars, open, cs, req,
                 buf, entry, remaining, reply>>

SliceFails(t) ==
  /\ Goto(t, "slice", "fail")
  /\ ~SliceOK(Index(t))
  /\ UNCHANGED <<blockVars, cacheVars, open, cs, req, buf, entry, remaining, out, reply>>

Fail(t) ==
  /\ Goto(t, "fail", "giveup")
  /\ FailAndReset
  /\ UNCHANGED <<cacheVars, open, cs, req, buf, entry, remaining, out, reply>>

(* Slip: buf is forgotten on the error path.                                *)
GiveUpLeaks(t) ==
  /\ Goto(t, "giveup", "leave")
  /\ buf' = [buf EXCEPT ![t] = Null]
  /\ Return(t, "AMPE_Error")
  /\ UNCHANGED <<blockVars, cacheVars, open, cs, req, entry, remaining, out>>

(* extractToMemory returned false, or buf could not be allocated.           *)
GiveUp(t) ==
  /\ Goto(t, "giveup", "leave")
  /\ heap' = Freed(buf[t])
  /\ buf' = [buf EXCEPT ![t] = Null]
  /\ Return(t, "AMPE_Error")
  /\ UNCHANGED <<blockIndex, outBuffer, outBufferSize, cacheVars, open, cs, req,
                 entry, remaining, out>>

-----------------------------------------------------------------------------
(* MEM mode caches a copy, if there is memory for one.                      *)
InsertMem(t) ==
  /\ Mem(t)
  /\ Goto(t, "insert", "leave")
  /\ \/ \E a \in Addr :
          /\ heap[a] = Free
          /\ heap' = [Freed(cache[InsertSlot].data) EXCEPT ![a] = out[t]]
          /\ CacheInsert(Index(t), a)
     \/ UNCHANGED <<heap, cacheVars>>
  /\ Return(t, "AMPE_OK")
  /\ UNCHANGED <<blockIndex, outBuffer, outBufferSize, open, cs, req, buf, entry,
                 remaining, out>>

(* FILE mode hands its buffer over to the cache.                            *)
InsertFile(t) ==
  /\ ~Mem(t)
  /\ Goto(t, "insert", "create")
  /\ heap' = Freed(cache[InsertSlot].data)
  /\ CacheInsert(Index(t), buf[t])
  /\ entry' = [entry EXCEPT ![t] = InsertSlot]
  /\ buf' = [buf EXCEPT ![t] = Null]
  /\ UNCHANGED <<blockIndex, outBuffer, outBufferSize, open, cs, req, remaining,
                 out, reply>>

EntryData(t) == heap[cache[entry[t]].data]

CreateFile(t) ==
  /\ Goto(t, "create", "write")
  /\ out' = [out EXCEPT ![t] = << >>]
  /\ remaining' = [remaining EXCEPT ![t] = Len(EntryData(t))]
  /\ UNCHANGED <<blockVars, cacheVars, open, cs, req, buf, entry, reply>>

(* Slip: a partial WriteFile counts as the whole.                           *)
WriteFileOnce(t) ==
  /\ Goto(t, "write", "write")
  /\ remaining[t] > 0
  /\ \E k \in 0 .. remaining[t] : out' = [out EXCEPT ![t] = SubSeq(EntryData(t), 1, k)]
  /\ remaining' = [remaining EXCEPT ![t] = 0]
  /\ UNCHANGED <<blockVars, cacheVars, open, cs, req, buf, entry, reply>>

(* WriteFile takes any part of what is left.                                *)
WriteFile(t) ==
  /\ Goto(t, "write", "write")
  /\ remaining[t] > 0
  /\ \E k \in 0 .. remaining[t] :
       LET done == Len(EntryData(t)) - remaining[t]
       IN /\ out' = [out EXCEPT ![t] =
                       out[t] \o SubSeq(EntryData(t), done + 1, done + k)]
          /\ remaining' = [remaining EXCEPT ![t] = remaining[t] - k]
  /\ UNCHANGED <<blockVars, cacheVars, open, cs, req, buf, entry, reply>>

(* CreateFile or WriteFile fails; what was written stays.                   *)
WriteFails(t) ==
  /\ \/ Goto(t, "create", "leave")
     \/ Goto(t, "write", "leave") /\ remaining[t] > 0
  /\ Return(t, "AMPE_WriteError")
  /\ UNCHANGED <<blockVars, cacheVars, open, cs, req, buf, entry, remaining, out>>

Written(t) ==
  /\ Goto(t, "write", "leave")
  /\ remaining[t] = 0
  /\ Return(t, "AMPE_OK")
  /\ UNCHANGED <<blockVars, cacheVars, open, cs, req, buf, entry, remaining, out>>

(* Slip: a return that skips LeaveCriticalSection.                          *)
LeaveLocked(t) ==
  /\ Goto(t, "leave", "done")
  /\ entry' = [entry EXCEPT ![t] = Null]
  /\ remaining' = [remaining EXCEPT ![t] = 0]
  /\ UNCHANGED <<blockVars, cacheVars, open, cs, req, buf, out, reply>>

(* ~CsLock; the locals of FileDecode are gone.                              *)
Leave(t) ==
  /\ Goto(t, "leave", "done")
  /\ cs' = NoOwner
  /\ entry' = [entry EXCEPT ![t] = Null]
  /\ remaining' = [remaining EXCEPT ![t] = 0]
  /\ UNCHANGED <<blockVars, cacheVars, open, req, buf, out, reply>>

(* The host has used the result.                                            *)
Take(t) ==
  /\ Goto(t, "done", "idle")
  /\ req' = [req EXCEPT ![t] = NoRequest]
  /\ out' = [out EXCEPT ![t] = Untouched]
  /\ reply' = [reply EXCEPT ![t] = "none"]
  /\ UNCHANGED <<blockVars, cacheVars, open, cs, buf, entry, remaining>>

(* What a thread does between EnterCriticalSection and its return.          *)
Work(t) ==
  \/ FindHitMem(t) \/ FindHitFile(t) \/ FindMissMem(t) \/ FindMissFile(t)
  \/ BadIndex(t) \/ Extract(t) \/ Decode(t) \/ Slice(t) \/ SliceFails(t)
  \/ Fail(t) \/ GiveUp(t) \/ InsertMem(t) \/ InsertFile(t)
  \/ CreateFile(t) \/ WriteFile(t) \/ WriteFails(t) \/ Written(t) \/ Leave(t)

Next ==
  \/ OpenArchive \/ CloseArchive
  \/ \E t \in Threads :
       Call(t) \/ RefuseCall(t) \/ Enter(t) \/ Work(t) \/ Take(t)

Spec == Init /\ [][Next]_vars

(* The operating system runs a thread that can run: one inside the critical *)
(* section, or some one of those that wait for it, for a Windows critical   *)
(* section is no queue.                                                     *)
CallGoes == \E t \in Threads : Enter(t) \/ Work(t)
FairSpec == Spec /\ WF_vars(CallGoes)

-----------------------------------------------------------------------------
(* At most one thread is between EnterCriticalSection and                   *)
(* LeaveCriticalSection, and it is the owner.                               *)
MutualExclusion ==
  \A t \in Threads : pc[t] \in Inside <=> cs = t

(* "guards arch + cache" (7zPlugin.cpp:35), the arch half: whenever no      *)
(* thread is in the middle of an extraction, the solid block SzArEx_Extract *)
(* keeps for the next call is completely decoded.                           *)
Extracting(t) == pc[t] \in {"decode", "slice", "fail"}
BlockCacheValid == (\A t \in Threads : ~Extracting(t)) => BlockValid

(* ... and the cache half: an entry holds exactly the bytes of its index,   *)
(* and no index has two entries.                                            *)
CacheValid ==
  \A s \in Slots : cache[s].index # FreeIndex =>
    /\ cache[s].index \in Files \ Damaged
    /\ cache[s].data \in Addr
    /\ heap[cache[s].data] = Content[cache[s].index]

(* The two together: what either cache answers with is what was asked for.  *)
CachesValid == BlockCacheValid /\ CacheValid

(* Everything allocated has one owner: a cache slot, the block buffer or    *)
(* the local buf of a thread.  So nothing leaks, nothing is freed twice and *)
(* no pointer outlives what it points to, whatever fails on the way, and    *)
(* CloseArchive returns the heap as OpenArchive found it.                   *)
Live(p) == p # Null => heap[p] # Free

NoDangling ==
  /\ \A s \in Slots : Live(cache[s].data)
  /\ Live(outBuffer)
  /\ \A t \in Threads : Live(buf[t])

NoAlias ==
  /\ \A r, s \in Slots :
       r # s /\ cache[r].data = cache[s].data => cache[r].data = Null
  /\ \A s \in Slots : cache[s].data = outBuffer => outBuffer = Null
  /\ \A s \in Slots, t \in Threads : cache[s].data = buf[t] => buf[t] = Null
  /\ \A t \in Threads : outBuffer = buf[t] => buf[t] = Null
  /\ \A t, u \in Threads : t # u /\ buf[t] = buf[u] => buf[t] = Null

NoLeak ==
  \A a \in Addr : heap[a] # Free =>
    \/ a = outBuffer
    \/ \E s \in Slots : a = cache[s].data
    \/ \E t \in Threads : a = buf[t]

OwnedOnce == NoDangling /\ NoAlias /\ NoLeak

(* The thread's calls, as the host sees them.                               *)
Status(t) == IF pc[t] = "idle" THEN "idle"
             ELSE IF pc[t] = "done" THEN "done" ELSE "pending"

Service ==
  INSTANCE DecodeService WITH
    status <- [t \in Threads |-> Status(t)],
    asked  <- req,
    answer <- [t \in Threads |-> IF pc[t] = "done" THEN reply[t] ELSE "none"],
    result <- [t \in Threads |-> IF pc[t] = "done" THEN out[t] ELSE Untouched]

(* FileDecode with its two caches and its failures answers like a decoder   *)
(* that has none: AMPE_OK comes with the bytes of the entry asked for, a    *)
(* failed extraction leaves the host's buffer alone, a failed write leaves  *)
(* a prefix of the entry in the file.                                       *)
ImplementsService == Service!ServiceSpec

(* A thread waits for the critical section; a thread has its answer.        *)
CallWaits == \E t \in Threads : pc[t] = "enter"
CallReturned == \E t \in Threads : pc[t] = "done"
=============================================================================
