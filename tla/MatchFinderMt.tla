--------------------------- MODULE MatchFinderMt ---------------------------
(* LzFindMt.c: the match finder of the encoder in three threads.  The hash    *)
(* thread reads the stream into the window and looks up the heads of the      *)
(* hash chains, the tree thread (BT) searches the binary tree, the caller     *)
(* (LZ) takes the matches.  Between two of them lies a ring of blocks with    *)
(* two semaphores, freeSemaphore and filledSemaphore.  A thread that reads a  *)
(* block holds the critical section of its ring, because the hash thread may  *)
(* move the window: it takes both sections and adjusts both pointers.         *)
(* Positions count from the start of the stream; that they are 32-bit numbers *)
(* that are reduced now and then is not modelled here, nor are the trees.     *)
EXTENDS Integers, FiniteSets

CONSTANTS
  FinderHistory,  \* historySize
  FinderMaxLen,   \* matchMaxLen
  FinderHash,     \* numHashBytes
  HashBlocks, HashBlockSize,  \* kMtHashNumBlocks, kMtHashBlockSize
  BtBlocks, BtBlockSize,      \* kMtBtNumBlocks, kMtBtBlockSize
  WindowReserve,  \* what GetBlockSize adds to the sizes that must be kept
  StreamSizes,    \* sizes of streams
  Starts          \* how often the encoder starts

ASSUME FinderBounds ==
  /\ {FinderHistory, FinderMaxLen, FinderHash, HashBlocks, HashBlockSize, BtBlocks,
      BtBlockSize, WindowReserve} \subseteq Nat \ {0}
  /\ FinderMaxLen >= FinderHash /\ FinderHash >= 2 /\ HashBlockSize > 2
  /\ BtBlockSize > 4 * FinderMaxLen       \* MatchFinderMt_Create
  /\ StreamSizes \subseteq Nat /\ Starts \in Nat

VARIABLES
  lz,      \* the caller: its position, pointer, block and what it waits for
  bt,      \* the tree thread
  hasher,  \* the hash thread
  window,  \* CMatchFinder: base is the position of the first byte of bufBase
  syncs,   \* CMtSync of each ring
  hashBuf, btBuf   \* the rings of blocks

finderVars == <<lz, bt, hasher, window, syncs, hashBuf, btBuf>>

Rings == {"hash", "bt"}
NumBlocks(r) == IF r = "hash" THEN HashBlocks ELSE BtBlocks
Lesser(a, b) == IF a < b THEN a ELSE b

(* Slip: the window keeps nothing for the blocks between the threads.         *)
KeepBeforeHistory == FinderHistory + 1

(* MatchFinderMt_Create and MatchFinder_Create.                               *)
KeepBefore == FinderHistory + HashBlocks * HashBlockSize + BtBlocks * BtBlockSize + 1
KeepAfter == FinderMaxLen + HashBlockSize
WindowSize == KeepBefore + KeepAfter + WindowReserve

NoHashBlock == [first |-> 0, num |-> 0, avail |-> 0]
NoBtBlock == [first |-> 0, num |-> 0, avail |-> 0, items |-> 2]

Stopped == [needStart |-> TRUE, stop |-> FALSE, exit |-> TRUE, canStart |-> FALSE,
            wasStopped |-> FALSE, free |-> 0, filled |-> 0, cs |-> "none",
            entered |-> FALSE, processed |-> 0]

FinderInit ==
  /\ lz = [pc |-> "off", starts |-> 0, pos |-> 0, ptr |-> 0, block |-> 0, left |-> 0,
           avail |-> 0, size |-> 0]
  /\ bt = [pc |-> "start", block |-> 0, hashBlock |-> 0, pos |-> 0, ptr |-> 0,
           left |-> 0, avail |-> 0, cur |-> 2, done |-> 0, sum |-> 0]
  /\ hasher = [pc |-> "start", block |-> 0]
  /\ window = [base |-> 0, buffer |-> 0, read |-> 0, end |-> FALSE]
  /\ syncs = [r \in Rings |-> Stopped]
  /\ hashBuf = [i \in 0..(HashBlocks - 1) |-> NoHashBlock]
  /\ btBuf = [i \in 0..(BtBlocks - 1) |-> NoBtBlock]

(* A semaphore at its maximum stays there: Semaphore_Release1 fails.          *)
Release(s, r) == [s EXCEPT ![r].free = IF @ < NumBlocks(r) THEN @ + 1 ELSE @]
Filled(s, r) == [s EXCEPT ![r].filled = IF @ < NumBlocks(r) THEN @ + 1 ELSE @]
Unlock(s, r) == [s EXCEPT ![r].cs = "none", ![r].entered = FALSE]

(* MtSync_GetNextBlock: up to its wait, and behind it.                        *)
GiveBlock(r) ==
  IF syncs[r].needStart
  THEN [syncs EXCEPT ![r] = [@ EXCEPT !.processed = 1, !.needStart = FALSE,
          !.stop = FALSE, !.exit = FALSE, !.wasStopped = FALSE, !.canStart = TRUE]]
  ELSE Release(Unlock([syncs EXCEPT ![r].processed = @ + 1], r), r)
NextBlockIndex(r) == IF syncs[r].needStart THEN 0 ELSE syncs[r].processed

CanTake(r) == syncs[r].filled > 0 /\ syncs[r].cs = "none"
TakeBlock(r, who) ==
  [syncs EXCEPT ![r].filled = @ - 1, ![r].cs = who, ![r].entered = TRUE]

(* Slip: a thread that waits for a free block is not woken up to stop.        *)
SendStopSilent(r) ==
  [IF syncs[r].entered THEN Unlock(syncs, r) ELSE syncs EXCEPT ![r].stop = TRUE]

(* MtSync_StopWriting up to its wait for wasStopped.                          *)
SendStop(r) ==
  LET s == IF syncs[r].entered THEN Unlock(syncs, r) ELSE syncs IN
  Release([s EXCEPT ![r].stop = TRUE], r)
HasStopped(r) ==
  [syncs EXCEPT ![r].wasStopped = FALSE, ![r].needStart = TRUE]

-----------------------------------------------------------------------------
(* The caller.  MatchFinderMt_InitMt and MatchFinderMt_Init.                  *)
Startable == \A r \in Rings : syncs[r].needStart /\ ~syncs[r].entered

StartFinder ==
  /\ lz.pc = "off" /\ lz.starts < Starts
  /\ \E n \in StreamSizes :
       lz' = [pc |-> "ready", starts |-> lz.starts + 1, pos |-> 0, ptr |-> 0,
              block |-> 0, left |-> 0, avail |-> 0, size |-> n]
  /\ syncs' = [r \in Rings |->
       IF Startable THEN [syncs[r] EXCEPT !.free = NumBlocks(r), !.filled = 0]
       ELSE syncs[r]]
  /\ bt' = [bt EXCEPT !.pos = 0, !.ptr = 0, !.left = 0, !.avail = 0]
  /\ window' = [base |-> 0, buffer |-> 0, read |-> 0, end |-> FALSE]
  /\ UNCHANGED <<hasher, hashBuf, btBuf>>

(* MatchFinderMt_GetNumAvailableBytes with an empty block.  The encoder does  *)
(* not ask again when it was told that no bytes are left.                     *)
NeedBtBlock ==
  /\ lz.pc = "ready" /\ lz.left = 0
  /\ syncs["bt"].needStart \/ lz.avail > 0
  /\ lz' = [lz EXCEPT !.pc = "wait", !.block = NextBlockIndex("bt") % BtBlocks]
  /\ syncs' = GiveBlock("bt")
  /\ UNCHANGED <<bt, hasher, window, hashBuf, btBuf>>

GetNextBlock_Bt ==
  /\ lz.pc = "wait" /\ CanTake("bt")
  /\ syncs' = TakeBlock("bt", "lz")
  /\ lz' = [lz EXCEPT !.pc = "ready", !.left = btBuf[lz.block].num,
                      !.avail = btBuf[lz.block].avail]
  /\ UNCHANGED <<bt, hasher, window, hashBuf, btBuf>>

(* MatchFinderMt_GetMatches, and one round of MatchFinderMt_Skip.             *)
GetMatches ==
  /\ lz.pc = "ready" /\ lz.left > 0
  /\ lz' = [lz EXCEPT !.pos = @ + 1, !.ptr = @ + 1, !.left = @ - 1, !.avail = @ - 1]
  /\ UNCHANGED <<bt, hasher, window, syncs, hashBuf, btBuf>>

(* MatchFinderMt_ReleaseStream, at any time.                                  *)
ReleaseStream ==
  /\ lz.pc = "ready"
  /\ \/ /\ syncs["bt"].needStart
        /\ lz' = [lz EXCEPT !.pc = "off"] /\ UNCHANGED syncs
     \/ /\ ~syncs["bt"].needStart
        /\ lz' = [lz EXCEPT !.pc = "stopping"] /\ syncs' = SendStop("bt")
  /\ UNCHANGED <<bt, hasher, window, hashBuf, btBuf>>

StreamReleased ==
  /\ lz.pc = "stopping" /\ syncs["bt"].wasStopped
  /\ lz' = [lz EXCEPT !.pc = "off"]
  /\ syncs' = HasStopped("bt")
  /\ UNCHANGED <<bt, hasher, window, hashBuf, btBuf>>

(* MatchFinderMt_Destruct behind ReleaseStream: both threads are told to end. *)
Destruct ==
  /\ lz.pc = "off" /\ lz.starts = Starts
  /\ lz' = [lz EXCEPT !.pc = "closing"]
  /\ syncs' = [r \in Rings |-> [syncs[r] EXCEPT !.exit = TRUE, !.canStart = TRUE]]
  /\ UNCHANGED <<bt, hasher, window, hashBuf, btBuf>>

Closed ==
  /\ lz.pc = "closing" /\ bt.pc = "gone" /\ hasher.pc = "gone"
  /\ lz' = [lz EXCEPT !.pc = "closed"]
  /\ UNCHANGED <<bt, hasher, window, syncs, hashBuf, btBuf>>

-----------------------------------------------------------------------------
(* BtThreadFunc.                                                              *)
BtStart ==
  /\ bt.pc = "start" /\ syncs["bt"].canStart
  /\ syncs' = [syncs EXCEPT !["bt"].canStart = FALSE]
  /\ bt' = [bt EXCEPT !.pc = IF syncs["bt"].exit THEN "gone" ELSE "top", !.block = 0]
  /\ UNCHANGED <<lz, hasher, window, hashBuf, btBuf>>

BtTakeFree ==
  /\ bt.pc = "top" /\ syncs["bt"].free > 0
  /\ syncs' = [syncs EXCEPT !["bt"].free = @ - 1]
  /\ bt' = [bt EXCEPT !.pc = IF syncs["bt"].stop THEN "stop" ELSE "lock"]
  /\ UNCHANGED <<lz, hasher, window, hashBuf, btBuf>>

(* BtFillBlock begins.                                                        *)
BtLock ==
  /\ bt.pc = "lock"
  /\ \/ syncs["hash"].needStart /\ UNCHANGED syncs
     \/ /\ ~syncs["hash"].needStart /\ syncs["hash"].cs = "none"
        /\ syncs' = [syncs EXCEPT !["hash"].cs = "bt", !["hash"].entered = TRUE]
  /\ bt' = [bt EXCEPT !.pc = "fill", !.cur = 2, !.done = 0, !.sum = bt.avail]
  /\ UNCHANGED <<lz, hasher, window, hashBuf, btBuf>>

BtLimit == BtBlockSize - FinderMaxLen * 2

(* BtGetMatches: positions whose heads are there.  A position takes one place *)
(* in the block, and two for each match; matches have lengths from            *)
(* numHashBytes to matchMaxLen.                                               *)
BtSearch ==
  /\ bt.pc = "fill" /\ bt.cur < BtLimit /\ bt.left > 0
  /\ \E places \in {1, 1 + 2 * (FinderMaxLen - FinderHash + 1)} :
       LET room == (BtLimit - bt.cur + places - 1) \div places
           n == Lesser(bt.left, room) IN
       bt' = [bt EXCEPT !.cur = @ + n * places, !.done = @ + n, !.left = @ - n,
                        !.avail = @ - n, !.pos = @ + n, !.ptr = @ + n]
  /\ UNCHANGED <<lz, hasher, window, syncs, hashBuf, btBuf>>

BtNeedHash ==
  /\ bt.pc = "fill" /\ bt.cur < BtLimit /\ bt.left = 0
  /\ bt' = [bt EXCEPT !.pc = "wait", !.hashBlock = NextBlockIndex("hash") % HashBlocks]
  /\ syncs' = GiveBlock("hash")
  /\ UNCHANGED <<lz, hasher, window, hashBuf, btBuf>>

(* The next block of heads; one with fewer bytes than numHashBytes is the     *)
(* end of the stream, and its bytes get entries without matches.              *)
BtTakeHash ==
  LET h == hashBuf[bt.hashBlock]
      atEnd == h.avail < FinderHash IN
  /\ bt.pc = "wait" /\ CanTake("hash")
  /\ syncs' = TakeBlock("hash", "bt")
  /\ bt' = [bt EXCEPT !.pc = IF atEnd THEN "done" ELSE "fill", !.left = h.num,
              !.avail = IF atEnd THEN 0 ELSE h.avail, !.sum = bt.done + h.avail,
              !.cur = IF atEnd THEN @ + h.avail ELSE @,
              !.done = IF atEnd THEN @ + h.avail ELSE @]
  /\ UNCHANGED <<lz, hasher, window, hashBuf, btBuf>>

(* The block is done: the lock is given back and the caller gets the block.   *)
(* At the end of the stream bt.pos was not moved over the last bytes.         *)
BtDone ==
  /\ bt.pc = "done" \/ (bt.pc = "fill" /\ bt.cur >= BtLimit)
  /\ btBuf' = [btBuf EXCEPT ![bt.block] =
       [first |-> IF bt.pc = "done" THEN bt.pos + hashBuf[bt.hashBlock].avail - bt.done
                  ELSE bt.pos - bt.done,
        num |-> bt.done, avail |-> bt.sum, items |-> bt.cur]]
  /\ syncs' = Filled(Unlock(syncs, "hash"), "bt")
  /\ bt' = [bt EXCEPT !.pc = "top", !.block = (@ + 1) % BtBlocks]
  /\ UNCHANGED <<lz, hasher, window, hashBuf>>

(* The tree thread stops the hash thread before it reports that it stopped.   *)
BtStopHash ==
  /\ bt.pc = "stop"
  /\ \/ /\ syncs["hash"].needStart
        /\ syncs' = [syncs EXCEPT !["bt"].wasStopped = TRUE]
        /\ bt' = [bt EXCEPT !.pc = "start"]
     \/ /\ ~syncs["hash"].needStart
        /\ syncs' = SendStop("hash")
        /\ bt' = [bt EXCEPT !.pc = "stopping"]
  /\ UNCHANGED <<lz, hasher, window, hashBuf, btBuf>>

BtStopped ==
  /\ bt.pc = "stopping" /\ syncs["hash"].wasStopped
  /\ syncs' = [HasStopped("hash") EXCEPT !["bt"].wasStopped = TRUE]
  /\ bt' = [bt EXCEPT !.pc = "start"]
  /\ UNCHANGED <<lz, hasher, window, hashBuf, btBuf>>

-----------------------------------------------------------------------------
(* HashThreadFunc.                                                            *)
HashStart ==
  /\ hasher.pc = "start" /\ syncs["hash"].canStart
  /\ syncs' = [syncs EXCEPT !["hash"].canStart = FALSE]
  /\ hasher' = [pc |-> IF syncs["hash"].exit THEN "gone" ELSE "top", block |-> 0]
  /\ UNCHANGED <<lz, bt, window, hashBuf, btBuf>>

Position == window.base + window.buffer
NeedMove == ~window.end /\ WindowSize - window.buffer <= KeepAfter

HashLockBt ==
  /\ hasher.pc = "top" /\ NeedMove /\ syncs["bt"].cs = "none"
  /\ syncs' = [syncs EXCEPT !["bt"].cs = "hash"]
  /\ hasher' = [hasher EXCEPT !.pc = "move"]
  /\ UNCHANGED <<lz, bt, window, hashBuf, btBuf>>

(* MatchFinder_MoveBlock keeps keepSizeBefore bytes; the pointers of the      *)
(* other threads move along.                                                  *)
HashMove ==
  LET offset == window.buffer - KeepBefore IN
  /\ hasher.pc = "move" /\ syncs["hash"].cs = "none"
  /\ window' = [window EXCEPT !.base = @ + offset, !.buffer = KeepBefore]
  /\ lz' = [lz EXCEPT !.ptr = @ - offset]
  /\ bt' = [bt EXCEPT !.ptr = @ - offset]
  /\ syncs' = [syncs EXCEPT !["bt"].cs = "none"]
  /\ hasher' = [hasher EXCEPT !.pc = "top"]
  /\ UNCHANGED <<hashBuf, btBuf>>

(* MatchFinder_ReadBlock: the stream gives any number of bytes at a time, and *)
(* none only at its end; enough are read for the longest match.               *)
ReadBlock(n) ==
  LET rest == lz.size - window.read
      space == WindowSize - (window.read - window.base)
      most == Lesser(rest, space)
      enough == KeepAfter + 1 - (window.read - Position) IN
  IF window.end \/ window.read - Position > KeepAfter
  THEN n = 0
  ELSE n \in {most, Lesser(enough, most)}

HashFill ==
  /\ hasher.pc = "top" /\ ~NeedMove /\ syncs["hash"].free > 0
  /\ \/ /\ syncs["hash"].stop
        /\ hasher' = [hasher EXCEPT !.pc = "stopped"]
        /\ syncs' = [syncs EXCEPT !["hash"].free = @ - 1]
        /\ UNCHANGED <<window, hashBuf>>
     \/ /\ ~syncs["hash"].stop
        /\ \E n \in 0..lz.size :
             LET read == window.read + n
                 avail == read - Position
                 num == IF avail >= FinderHash
                        THEN Lesser(avail - FinderHash + 1, HashBlockSize - 2) ELSE 0 IN
             /\ ReadBlock(n)
             /\ window' = [window EXCEPT !.read = read,
                  !.end = @ \/ avail <= KeepAfter,
                  !.buffer = @ + IF num > 0 THEN num ELSE avail]
             /\ hashBuf' = [hashBuf EXCEPT ![hasher.block] =
                  [first |-> Position, num |-> num, avail |-> avail]]
        /\ syncs' = Filled([syncs EXCEPT !["hash"].free = @ - 1], "hash")
        /\ hasher' = [hasher EXCEPT !.block = (@ + 1) % HashBlocks]
  /\ UNCHANGED <<lz, bt, btBuf>>

HashStopped ==
  /\ hasher.pc = "stopped"
  /\ syncs' = [syncs EXCEPT !["hash"].wasStopped = TRUE]
  /\ hasher' = [hasher EXCEPT !.pc = "start"]
  /\ UNCHANGED <<lz, bt, window, hashBuf, btBuf>>

-----------------------------------------------------------------------------
LzStep == NeedBtBlock \/ GetNextBlock_Bt \/ GetMatches \/ ReleaseStream
          \/ StreamReleased \/ Closed
BtStep == BtStart \/ BtTakeFree \/ BtLock \/ BtSearch \/ BtNeedHash \/ BtTakeHash
          \/ BtDone \/ BtStopHash \/ BtStopped
HashStep == HashStart \/ HashLockBt \/ HashMove \/ HashFill \/ HashStopped

FinderStep == LzStep \/ BtStep \/ HashStep
FinderNext == StartFinder \/ Destruct \/ FinderStep

(* Some thread that can go on does.                                           *)
FinderFair == WF_finderVars(FinderStep)
FinderSpec == FinderInit /\ [][FinderNext]_finderVars /\ FinderFair

-----------------------------------------------------------------------------
(* A thread that holds the lock of its ring finds the byte of its position    *)
(* where its pointer shows, with all the bytes a match may begin with in the  *)
(* window behind it: the hash thread never moves or overwrites them, however  *)
(* far it is ahead.                                                           *)
Sees(pos, ptr) ==
  /\ window.base + ptr = pos
  /\ window.base = 0 \/ pos - FinderHistory >= window.base
WindowKept ==
  /\ syncs["bt"].cs = "lz" => Sees(lz.pos, lz.ptr)
  /\ (syncs["hash"].cs = "bt" /\ bt.left > 0) =>
       /\ Sees(bt.pos, bt.ptr)
       /\ LET h == hashBuf[bt.hashBlock] IN bt.pos = h.first + h.num - bt.left
  /\ window.read - window.base <= WindowSize

(* The caller gets every position of the stream once and in order, is told    *)
(* of no byte that was not read, of enough bytes for the longest match unless *)
(* the stream ends, and of the end only at the end.                           *)
Delivered ==
  syncs["bt"].cs = "lz" =>
    /\ btBuf[lz.block].items <= BtBlockSize
    /\ lz.left > 0 =>
         /\ lz.pos = btBuf[lz.block].first + btBuf[lz.block].num - lz.left
         /\ lz.pos + lz.avail <= window.read
         /\ lz.avail >= Lesser(FinderMaxLen, lz.size - lz.pos)
    /\ (lz.avail = 0) = (lz.pos = lz.size)

FinderExact == WindowKept /\ Delivered /\ (lz.pc = "off" => Startable)

(* The caller waits for a block, for the threads to stop or for their end.    *)
FinderWaits == lz.pc \in {"wait", "stopping", "closing"}
=============================================================================
