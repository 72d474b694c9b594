------------------------------ MODULE MtCoder ------------------------------
(* MtCoder.c: several threads encode the blocks of one input.  A thread owns  *)
(* readEvent while it reads a block and takes the next place in a ring of     *)
(* blocks; it codes the block on its own; whoever finishes the block that is  *)
(* next to be written writes it and all ready ones behind it.                 *)
(* This is the build without MTCODER_USE_WRITE_THREAD, as MtCoder.h has it.   *)
(* Failures of the system's synchronisation functions are not modelled.       *)
EXTENDS Integers, Sequences, FiniteSets

CONSTANTS
  ThreadsMax,   \* numThreadsMax
  ExtraBlocks,  \* numBlocksMax grows by up to 3 when blocks are small
  BlockSize,    \* blockSize
  Lengths,      \* sizes of inputs
  CodeCalls,    \* calls of MtCoder_Code on one coder
  CodeFaults    \* failures of callbacks, memory and thread creation

ASSUME CoderBounds ==
  /\ ThreadsMax \in Nat \ {0} /\ ExtraBlocks \in 0..3 /\ BlockSize \in Nat \ {0}
  /\ Lengths \subseteq Nat /\ CodeCalls \in Nat /\ CodeFaults \in Nat

VARIABLES
  caller,      \* MtCoder_Code: calls made, whether one waits, its result
  input,       \* size of the input, and whether it is a stream or in memory
  readEvent, finishedEvent, blocksSemaphore,
  mtc,         \* the variables of CMtCoder that are numbers and results
  blocks,      \* CMtCoderBlock: res, bufIndex, finished
  ReadyBlocks, \* places of finished blocks that wait for their turn
  freeBlocks,  \* freeBlockHead and freeBlockList
  bufs,        \* the piece of input each output buffer holds the code of
  coders,      \* the threads
  ending,      \* ThreadFunc behind ThreadFunc2: the part of its end that is open
  written,     \* the pieces written to the output, in order
  codeFaults,  \* failures so far
  late         \* whether a call was made before all threads were back at startEvent

coderVars == <<caller, input, readEvent, finishedEvent, blocksSemaphore, mtc,
  blocks, ReadyBlocks, freeBlocks, bufs, coders, ending, written, codeFaults,
  late>>

Coders == 1..ThreadsMax
RingBlocks == ThreadsMax + ThreadsMax \div 8 + 1 + ExtraBlocks
Places == 0..(RingBlocks - 1)
Next1(i) == (i + 1) % RingBlocks
NoBuf == -1
NoPiece == [from |-> 0, size |-> 0]

NoBlock == [res |-> "OK", buf |-> NoBuf, finished |-> FALSE]
Asleep(pc) == [pc |-> pc, bi |-> 0, buf |-> NoBuf, res |-> "OK",
               finished |-> FALSE, piece |-> NoPiece]

(* count: what InterlockedIncrement gave a thread that has not come back to   *)
(* startEvent since, or 0; last: it has found itself the last one and will    *)
(* set finishedEvent; start: startEvent was set while it was at work.         *)
Back == [count |-> 0, last |-> FALSE, start |-> FALSE]
Sleeps(t) == coders[t].pc \in {"off", "idle"}

CoderInit ==
  /\ caller = [calls |-> 0, waits |-> FALSE, res |-> "OK"]
  /\ input = [size |-> 0, isStream |-> FALSE, expected |-> FALSE]
  /\ readEvent = FALSE /\ finishedEvent = FALSE /\ blocksSemaphore = 0
  /\ mtc = [stopReading |-> FALSE, readProcessed |-> 0, blockIndex |-> 0,
            writeIndex |-> 0, readRes |-> "OK", writeRes |-> "OK",
            progressRes |-> "OK", numStarted |-> 0, numFinished |-> 0]
  /\ blocks = [i \in Places |-> NoBlock] /\ ReadyBlocks = {}
  /\ freeBlocks = <<>> /\ bufs = [i \in Places |-> NoPiece]
  /\ coders = [t \in Coders |-> Asleep("off")]
  /\ ending = [t \in Coders |-> Back]
  /\ written = <<>> /\ codeFaults = 0 /\ late = FALSE

(* MtProgress_SetError: the first error stays.                               *)
SetError(m, res) ==
  IF m.progressRes = "OK" THEN [m EXCEPT !.progressRes = res] ELSE m

Fault == codeFaults < CodeFaults /\ codeFaults' = codeFaults + 1
NoFault == UNCHANGED codeFaults

-----------------------------------------------------------------------------
(* MtCoderThread_CreateAndStart, in a step that sets coders to cs otherwise. A *)
(* thread that sleeps reads next, once the end of its last call is behind it;  *)
(* one that is at work finds startEvent set when it comes back.                *)
Start(t, cs) ==
  /\ coders' = IF Sleeps(t) THEN [cs EXCEPT ![t] = Asleep("read")] ELSE cs
  /\ ending' = [ending EXCEPT ![t].start = ~Sleeps(t) /\ ending[t].count = 0]

(* MtCoder_Code up to its wait for finishedEvent.                            *)
CallCode ==
  /\ ~caller.waits /\ caller.calls < CodeCalls
  /\ \E n \in Lengths, s, x \in BOOLEAN :
       input' = [size |-> n, isStream |-> s, expected |-> x]
  /\ finishedEvent' = FALSE /\ blocksSemaphore' = RingBlocks
  /\ ReadyBlocks' = {}
  /\ freeBlocks' = [i \in 1..RingBlocks |-> i - 1]
  /\ written' = <<>>
  /\ late' = (late \/ \E t \in Coders : ending[t].count # 0)
  /\ UNCHANGED <<blocks, bufs>>
  /\ mtc' = [stopReading |-> FALSE, readProcessed |-> 0, blockIndex |-> 0,
             writeIndex |-> 0, readRes |-> "OK", writeRes |-> "OK",
             progressRes |-> "OK", numStarted |-> 1, numFinished |-> 0]
  /\ \/ /\ NoFault /\ readEvent' = TRUE
        /\ Start(1, coders)
        /\ caller' = [calls |-> caller.calls + 1, waits |-> TRUE, res |-> "OK"]
     \/ /\ coders[1].pc = "off" /\ Fault /\ readEvent' = FALSE
        /\ UNCHANGED <<coders, ending>>
        /\ caller' = [calls |-> caller.calls + 1, waits |-> FALSE, res |-> "THREAD"]

(* The end of MtCoder_Code: finishedEvent, and the result of the call.       *)
ReturnCode ==
  LET res == CASE mtc.readRes # "OK"     -> mtc.readRes
               [] mtc.progressRes # "OK" -> mtc.progressRes
               [] OTHER                  -> mtc.writeRes IN
  /\ caller.waits /\ caller.res = "OK" /\ finishedEvent
  /\ finishedEvent' = FALSE
  /\ caller' = [caller EXCEPT !.waits = res # "OK", !.res = res]
  /\ UNCHANGED <<input, readEvent, blocksSemaphore, mtc, blocks, ReadyBlocks,
                 freeBlocks, bufs, coders, ending, written, codeFaults>>

(* After an error MtCoder_Free ends the threads and waits for each.          *)
FreeThreads ==
  /\ caller.waits /\ caller.res # "OK"
  /\ \A t \in Coders : Sleeps(t) /\ ending[t].count = 0
  /\ coders' = [t \in Coders |-> Asleep("off")]
  /\ caller' = [caller EXCEPT !.waits = FALSE]
  /\ UNCHANGED <<input, readEvent, finishedEvent, blocksSemaphore, mtc, blocks,
                 ReadyBlocks, freeBlocks, bufs, ending, written, codeFaults>>

-----------------------------------------------------------------------------
(* ThreadFunc2.                                                              *)
At(t, pc) == coders[t].pc = pc

(* Event_Wait(&mtc->readEvent), and the one for startEvent ahead of it.      *)
HasRead(t) == At(t, "read") /\ ending[t].count = 0 /\ readEvent

StopThread(t) ==
  /\ HasRead(t) /\ mtc.stopReading
  /\ coders' = [coders EXCEPT ![t].pc = "end"]
  /\ UNCHANGED <<caller, input, readEvent, finishedEvent, blocksSemaphore, mtc,
                 blocks, ReadyBlocks, freeBlocks, bufs, ending, written, codeFaults>>

Reading(t) ==
  /\ HasRead(t) /\ ~mtc.stopReading
  /\ readEvent' = FALSE
  /\ UNCHANGED <<caller, input, finishedEvent, blocksSemaphore, blocks,
                 ReadyBlocks, freeBlocks, bufs, ending, written>>

HaveRead(t, res, finished, piece) ==
  coders' = [coders EXCEPT ![t] = [Asleep("place") EXCEPT !.res = res,
                                    !.finished = finished, !.piece = piece]]

ReadAfterError(t) ==
  /\ Reading(t) /\ mtc.progressRes # "OK"
  /\ HaveRead(t, mtc.progressRes, TRUE, NoPiece)
  /\ UNCHANGED <<mtc, codeFaults>>

ReadInput(t) ==
  LET rest == input.size - mtc.readProcessed
      size == IF BlockSize > rest THEN rest ELSE BlockSize
      upTo == mtc.readProcessed + size IN
  /\ Reading(t) /\ mtc.progressRes = "OK" /\ NoFault
  /\ HaveRead(t, "OK", IF input.isStream THEN size # BlockSize ELSE upTo = input.size,
              [from |-> mtc.readProcessed, size |-> size])
  /\ mtc' = [mtc EXCEPT !.readProcessed = upTo]

(* No memory for the thread's buffer, or the stream cannot be read.          *)
ReadFails(t) ==
  /\ Reading(t) /\ mtc.progressRes = "OK" /\ input.isStream /\ Fault
  /\ \E res \in {"MEM", "READ"} :
       /\ HaveRead(t, res, TRUE, NoPiece)
       /\ mtc' = SetError([mtc EXCEPT !.readRes = res], res)

(* After Semaphore_Wait: the place of the block, the next thread, and the    *)
(* readEvent for the others.                                                 *)
TakePlace(t) ==
  LET c == coders[t]
      res == IF c.res = "OK" THEN mtc.progressRes ELSE c.res
      finished == c.finished \/ res # "OK"
      start == /\ ~finished /\ mtc.numStarted < ThreadsMax
               /\ ~(input.expected /\ mtc.readProcessed = input.size)
      next == mtc.numStarted + 1
      Took(r, f) == [c EXCEPT !.bi = mtc.blockIndex, !.res = r, !.finished = f,
                              !.pc = IF r = "OK" THEN "buffer" ELSE "publish"]
      Placed(f) == [mtc EXCEPT !.blockIndex = Next1(@), !.stopReading = @ \/ f] IN
  /\ At(t, "place") /\ blocksSemaphore > 0
  /\ blocksSemaphore' = blocksSemaphore - 1 /\ readEvent' = TRUE
  /\ \/ /\ ~start /\ NoFault
        /\ mtc' = Placed(finished)
        /\ coders' = [coders EXCEPT ![t] = Took(res, finished)] /\ UNCHANGED ending
     \/ /\ start /\ NoFault
        /\ mtc' = [Placed(FALSE) EXCEPT !.numStarted = next]
        /\ Start(next, [coders EXCEPT ![t] = Took(res, FALSE)])
     \/ /\ start /\ coders[next].pc = "off" /\ Fault
        /\ mtc' = SetError(Placed(TRUE), "THREAD")
        /\ coders' = [coders EXCEPT ![t] = Took("THREAD", TRUE)] /\ UNCHANGED ending
  /\ UNCHANGED <<caller, input, finishedEvent, blocks, ReadyBlocks, freeBlocks,
                 bufs, written>>

TakeBuffer(t) ==
  /\ At(t, "buffer")
  /\ coders' = [coders EXCEPT ![t].buf = Head(freeBlocks), ![t].pc = "code"]
  /\ freeBlocks' = Tail(freeBlocks)
  /\ UNCHANGED <<caller, input, readEvent, finishedEvent, blocksSemaphore, mtc,
                 blocks, ReadyBlocks, bufs, ending, written, codeFaults>>

(* mtCallback->Code fills the output buffer, or fails.                       *)
CodeBlock(t) ==
  /\ At(t, "code")
  /\ \/ /\ NoFault /\ UNCHANGED mtc
        /\ bufs' = [bufs EXCEPT ![coders[t].buf] = coders[t].piece]
        /\ coders' = [coders EXCEPT ![t].pc = "publish"]
     \/ /\ Fault /\ UNCHANGED bufs
        /\ mtc' = SetError(mtc, "CODE")
        /\ coders' = [coders EXCEPT ![t].pc = "publish", ![t].res = "CODE"]
  /\ UNCHANGED <<caller, input, readEvent, finishedEvent, blocksSemaphore, blocks,
                 ReadyBlocks, freeBlocks, ending, written>>

GoOn(res, finished) == IF finished \/ res # "OK" THEN "end" ELSE "read"

(* The block is entered in the ring; if it is the next to be written this    *)
(* thread writes, otherwise it is left to the thread that writes.            *)
Publish(t) ==
  LET c == coders[t] IN
  /\ At(t, "publish")
  /\ blocks' = [blocks EXCEPT ![c.bi] = [res |-> c.res, buf |-> c.buf,
                                         finished |-> c.finished]]
  /\ \/ /\ mtc.writeIndex = c.bi
        /\ mtc' = [mtc EXCEPT !.writeIndex = -1]
        /\ coders' = [coders EXCEPT ![t].pc = "write",
             ![t].res = IF mtc.writeRes # "OK" THEN mtc.writeRes ELSE @]
        /\ UNCHANGED ReadyBlocks
     \/ /\ mtc.writeIndex # c.bi
        /\ ReadyBlocks' = ReadyBlocks \cup {c.bi}
        /\ coders' = [coders EXCEPT ![t].pc = GoOn(c.res, c.finished)]
        /\ UNCHANGED mtc
  /\ UNCHANGED <<caller, input, readEvent, finishedEvent, blocksSemaphore,
                 freeBlocks, bufs, ending, written, codeFaults>>

WriteBlock(t) ==
  LET c == coders[t]
      write == c.res = "OK" /\ c.buf # NoBuf IN
  /\ At(t, "write")
  /\ \/ /\ ~write /\ NoFault /\ UNCHANGED <<mtc, written>>
        /\ coders' = [coders EXCEPT ![t].pc = "next"]
     \/ /\ write /\ NoFault /\ UNCHANGED mtc
        /\ written' = Append(written, bufs[c.buf])
        /\ coders' = [coders EXCEPT ![t].pc = "next"]
     \/ /\ write /\ Fault /\ UNCHANGED written
        /\ mtc' = SetError([mtc EXCEPT !.writeRes = "WRITE"], "WRITE")
        /\ coders' = [coders EXCEPT ![t].pc = "next", ![t].res = "WRITE"]
  /\ UNCHANGED <<caller, input, readEvent, finishedEvent, blocksSemaphore, blocks,
                 ReadyBlocks, freeBlocks, bufs, ending>>

(* Slip: a block that was written stays marked as ready.                     *)
NextBlockStays(t) ==
  LET c == coders[t]
      wi == Next1(c.bi)
      b == blocks[wi] IN
  /\ At(t, "next")
  /\ freeBlocks' = IF c.buf = NoBuf THEN freeBlocks ELSE <<c.buf>> \o freeBlocks
  /\ blocksSemaphore' = blocksSemaphore + 1
  /\ \/ /\ wi \in ReadyBlocks
        /\ UNCHANGED ReadyBlocks
        /\ coders' = [coders EXCEPT ![t] = [c EXCEPT !.pc = "write", !.bi = wi,
             !.buf = b.buf, !.finished = b.finished,
             !.res = IF @ = "OK" THEN b.res ELSE @]]
        /\ UNCHANGED mtc
     \/ /\ wi \notin ReadyBlocks
        /\ mtc' = [mtc EXCEPT !.writeIndex = wi]
        /\ coders' = [coders EXCEPT ![t].pc = GoOn(c.res, c.finished)]
        /\ UNCHANGED ReadyBlocks
  /\ UNCHANGED <<caller, input, readEvent, finishedEvent, blocks, bufs, ending,
                 written, codeFaults>>

(* The buffer is free again, and the block behind is written if it is ready. *)
NextBlock(t) ==
  LET c == coders[t]
      wi == Next1(c.bi)
      b == blocks[wi] IN
  /\ At(t, "next")
  /\ freeBlocks' = IF c.buf = NoBuf THEN freeBlocks ELSE <<c.buf>> \o freeBlocks
  /\ blocksSemaphore' = blocksSemaphore + 1
  /\ \/ /\ wi \in ReadyBlocks
        /\ ReadyBlocks' = ReadyBlocks \ {wi}
        /\ coders' = [coders EXCEPT ![t] = [c EXCEPT !.pc = "write", !.bi = wi,
             !.buf = b.buf, !.finished = b.finished,
             !.res = IF @ = "OK" THEN b.res ELSE @]]
        /\ UNCHANGED mtc
     \/ /\ wi \notin ReadyBlocks
        /\ mtc' = [mtc EXCEPT !.writeIndex = wi]
        /\ coders' = [coders EXCEPT ![t].pc = GoOn(c.res, c.finished)]
        /\ UNCHANGED ReadyBlocks
  /\ UNCHANGED <<caller, input, readEvent, finishedEvent, blocks, bufs, ending,
                 written, codeFaults>>

(* ThreadFunc behind ThreadFunc2: a thread counts itself, compares the count *)
(* with the threads that are started by then, and the last one wakes the     *)
(* caller.                                                                   *)
Finish(t) ==
  /\ At(t, "end")
  /\ mtc' = [mtc EXCEPT !.numFinished = @ + 1]
  /\ coders' = [coders EXCEPT ![t] = Asleep(IF ending[t].start THEN "read" ELSE "idle")]
  /\ ending' = [ending EXCEPT ![t] = [Back EXCEPT !.count = mtc.numFinished + 1]]
  /\ UNCHANGED <<caller, input, readEvent, finishedEvent, blocksSemaphore, blocks,
                 ReadyBlocks, freeBlocks, bufs, written, codeFaults>>

Compare(t) ==
  /\ ending[t].count # 0 /\ ~ending[t].last
  /\ ending' = [ending EXCEPT ![t] = IF @.count = mtc.numStarted
                                     THEN [@ EXCEPT !.last = TRUE] ELSE Back]
  /\ UNCHANGED <<caller, input, readEvent, finishedEvent, blocksSemaphore, mtc,
                 blocks, ReadyBlocks, freeBlocks, bufs, coders, written, codeFaults>>

SetFinished(t) ==
  /\ ending[t].last
  /\ finishedEvent' = TRUE
  /\ ending' = [ending EXCEPT ![t] = Back]
  /\ UNCHANGED <<caller, input, readEvent, blocksSemaphore, mtc, blocks,
                 ReadyBlocks, freeBlocks, bufs, coders, written, codeFaults>>

CoderStep(t) ==
  \/ StopThread(t) \/ ReadAfterError(t) \/ ReadInput(t) \/ ReadFails(t)
  \/ TakePlace(t) \/ TakeBuffer(t) \/ CodeBlock(t) \/ Publish(t)
  \/ WriteBlock(t) \/ NextBlock(t) \/ Finish(t) \/ Compare(t) \/ SetFinished(t)

CoderGoes ==
  /\ ReturnCode \/ FreeThreads \/ \E t \in Coders : CoderStep(t)
  /\ UNCHANGED late
CoderNext == CallCode \/ CoderGoes

(* Some thread that can go on does; nothing is assumed of which.             *)
CoderFair == WF_coderVars(CoderGoes)

CoderSpec == CoderInit /\ [][CoderNext]_coderVars /\ CoderFair

-----------------------------------------------------------------------------
(* Whatever thread writes, the output is the code of the input from its      *)
(* start, in order and without a gap, as long as no error is recorded (after  *)
(* a Code that failed the blocks behind it may still be written).            *)
EndOf(s) == IF s = <<>> THEN 0 ELSE s[Len(s)].from + s[Len(s)].size
InOrder ==
  mtc.progressRes = "OK" => \A i \in DOMAIN written :
    written[i].from = (IF i = 1 THEN 0 ELSE written[i - 1].from + written[i - 1].size)

(* MtCoder_Code returns SZ_OK only for the whole input, and never while a    *)
(* thread still works on the call: numFinishedThreads is compared with a     *)
(* numStartedThreads that another thread may be about to raise.              *)
OkIsWhole ==
  ~caller.waits /\ caller.res = "OK" /\ caller.calls > 0 => EndOf(written) = input.size
ReturnsWhole ==
  ~caller.waits => OkIsWhole /\ \A t \in Coders : Sleeps(t)

(* The output of MtCoder_Code is that of one thread, up to a call made while *)
(* a thread of the call before was still to compare the count it got: that   *)
(* one may take itself for the last thread of the new call.                  *)
CoderExact == ~late => InOrder /\ ReturnsWhole

(* The caller is inside MtCoder_Code, waiting for finishedEvent.             *)
CodeWaits == caller.waits
=============================================================================
