---------------------------- MODULE Threads_proofs ----------------------------
(* Two parts of the SDK that run in several threads.                         *)
(*                                                                           *)
(* MtCoder: the output of MtCoder_Code is that of one thread, for any number *)
(* of threads, any size of the ring, any input, any number of failures, until *)
(* a call overtakes a thread of the one before (late).  The                  *)
(* argument is about the part of the ring that is taken: k places from the   *)
(* place w of the block that is written next.  Each of them has one owner, a *)
(* thread or ReadyBlocks; each owner has a buffer of its own, or none; and   *)
(* the pieces of input in them lie one behind the other, from the end of     *)
(* what is written to the start of what is being read.                       *)
(*                                                                           *)
(* MatchFinderMt: the caller sees every position of its stream.  Here the    *)
(* argument is about the blocks of both rings: the live ones, from the one   *)
(* its reader holds to the one that was filled last, lie one behind the      *)
(* other and reach to the position of the writer; and no block is so large   *)
(* that a position which may still be read is moved out of the window.       *)
EXTENDS MtCoder, MatchFinderMt, FiniteSetTheorems, TLAPS

Results == {"OK", "THREAD", "MEM", "READ", "CODE", "WRITE"}
Pieces == [from : Nat, size : Nat]
States == {"off", "idle", "read", "place", "buffer", "code", "publish", "write", "next", "end"}
Placed == {"buffer", "code", "publish", "write", "next"}
Writing == {"write", "next"}
MaybeBuf == Places \cup {NoBuf}

CoderRecord == [pc : States, bi : Places, buf : MaybeBuf, res : Results,
                finished : BOOLEAN, piece : Pieces]
BlockRecord == [res : Results, buf : MaybeBuf, finished : BOOLEAN]
EndingRecord == [count : Nat, last : BOOLEAN, start : BOOLEAN]
MtcRecord == [stopReading : BOOLEAN, readProcessed : Nat, blockIndex : Places,
              writeIndex : Places \cup {-1}, readRes : Results, writeRes : Results,
              progressRes : Results, numStarted : Nat, numFinished : Nat]

TypeInv ==
  /\ caller \in [calls : Nat, waits : BOOLEAN, res : Results]
  /\ input \in [size : Nat, isStream : BOOLEAN, expected : BOOLEAN]
  /\ readEvent \in BOOLEAN /\ finishedEvent \in BOOLEAN /\ blocksSemaphore \in Nat
  /\ mtc \in MtcRecord
  /\ blocks \in [Places -> BlockRecord] /\ ReadyBlocks \subseteq Places
  /\ freeBlocks \in Seq(Places) /\ bufs \in [Places -> Pieces]
  /\ coders \in [Coders -> CoderRecord] /\ ending \in [Coders -> EndingRecord]
  /\ written \in Seq(Pieces) /\ codeFaults \in Nat

-----------------------------------------------------------------------------
(* Who waits for whom.  One thread reads at a time; the caller is woken when *)
(* all threads it started have finished.                                     *)
Done == {t \in 1 .. mtc.numStarted : coders[t].pc = "idle"}

OneReader ==
  \A t \in Coders : coders[t].pc = "place" =>
    /\ ~readEvent /\ coders[t].buf = NoBuf
    /\ \A u \in Coders : coders[u].pc = "place" => u = t

(* The call is over but for what the caller does itself.                     *)
Settled == finishedEvent \/ ~caller.waits \/ caller.res # "OK"

Threads ==
  /\ mtc.numStarted <= ThreadsMax
  /\ \A t \in Coders : t > mtc.numStarted => Sleeps(t)
  /\ caller.waits =>
       /\ mtc.numStarted > 0 /\ mtc.numFinished = Cardinality(Done)
       /\ \A t \in 1 .. mtc.numStarted : coders[t].pc # "off"
       /\ finishedEvent => mtc.numFinished = mtc.numStarted
  /\ finishedEvent => caller.waits /\ caller.res = "OK"
  /\ Settled => \A t \in Coders : Sleeps(t)

(* The counts that are still to be compared are different, and the one that  *)
(* is numStarted is there only until finishedEvent is set.                   *)
Open(t) ==
  /\ t <= mtc.numStarted /\ coders[t].pc = "idle" /\ ending[t].count <= mtc.numFinished
  /\ \A u \in Coders : ending[u].count = ending[t].count => u = t
  /\ Settled => ending[t].count # mtc.numStarted

Endings ==
  \A t \in Coders :
    /\ ~ending[t].start
    /\ ending[t].count # 0 => Open(t)
    /\ ending[t].last => ending[t].count # 0 /\ ending[t].count = mtc.numStarted

(* Every failure is recorded in progressRes, and without one a thread ends   *)
(* only when the input is read.                                              *)
Fine == mtc.progressRes = "OK"

Errors ==
  Fine => /\ mtc.readRes = "OK" /\ mtc.writeRes = "OK"
          /\ \A t \in Coders : ~Sleeps(t) => coders[t].res = "OK"
          /\ \A i \in ReadyBlocks : blocks[i].res = "OK"

Ended ==
  /\ mtc.readProcessed <= input.size
  /\ Fine /\ mtc.stopReading => mtc.readProcessed = input.size
  /\ Fine /\ caller.waits /\ mtc.numFinished > 0 => mtc.readProcessed = input.size
  /\ Fine => \A t \in Coders : ~Sleeps(t) /\ (coders[t].finished \/ coders[t].pc = "end")
                                 => mtc.readProcessed = input.size
  /\ Fine => \A i \in ReadyBlocks : blocks[i].finished => mtc.readProcessed = input.size

-----------------------------------------------------------------------------
(* The ring: place j from w on, and the places taken.                        *)
Slot(w, j) == IF w + j < RingBlocks THEN w + j ELSE w + j - RingBlocks
Taken(w, k) == {Slot(w, j) : j \in 0 .. (k - 1)}

Owners(w, k, gb) ==
  /\ \A t \in Coders : coders[t].pc \in Placed =>
       /\ coders[t].bi \in Taken(w, k) \ ReadyBlocks
       /\ coders[t].buf = gb[coders[t].bi]
       /\ coders[t].pc = "buffer" => coders[t].buf = NoBuf
       /\ \A u \in Coders : coders[u].pc \in Placed /\ coders[u].bi = coders[t].bi => u = t
  /\ \A i \in ReadyBlocks : i \in Taken(w, k) /\ i # w /\ blocks[i].buf = gb[i]
  /\ \A i \in Taken(w, k) : \/ i \in ReadyBlocks
                            \/ \E t \in Coders : coders[t].pc \in Placed /\ coders[t].bi = i

Writer(w) ==
  /\ mtc.writeIndex \in {-1, w}
  /\ \A t \in Coders : coders[t].pc \in Writing => coders[t].bi = w /\ mtc.writeIndex = -1
  /\ mtc.writeIndex = -1 => \E t \in Coders : coders[t].pc \in Writing

(* The buffers: gb[i] is that of the block at place i.                       *)
WithBuf(gb) == {i \in Places : gb[i] # NoBuf}
Buffers(w, k, gb) ==
  /\ WithBuf(gb) \subseteq Taken(w, k)
  /\ \A i, j \in WithBuf(gb) : gb[i] = gb[j] => i = j
  /\ \A n \in 1 .. Len(freeBlocks) : \A i \in WithBuf(gb) : freeBlocks[n] # gb[i]
  /\ \A m, n \in 1 .. Len(freeBlocks) : freeBlocks[m] = freeBlocks[n] => m = n
  /\ Len(freeBlocks) + Cardinality(WithBuf(gb)) = RingBlocks

(* The data: gp[i] is the piece of input of the block at place i.            *)
To(p) == p.from + p.size
RingEnd(w, k, gp) == IF k = 0 THEN EndOf(written) ELSE To(gp[Slot(w, k - 1)])
Contents(gp, gb) ==
  /\ \A t \in Coders :
       /\ coders[t].pc \in {"buffer", "code"} => coders[t].piece = gp[coders[t].bi]
       /\ coders[t].pc \in {"code", "publish", "write", "next"} => coders[t].buf # NoBuf
       /\ coders[t].pc \in {"publish", "write", "next"} => bufs[coders[t].buf] = gp[coders[t].bi]
  /\ \A i \in ReadyBlocks : gb[i] # NoBuf /\ bufs[gb[i]] = gp[i]
Chain(w, k, gp) ==
  /\ \A j \in 0 .. (k - 2) : To(gp[Slot(w, j)]) = gp[Slot(w, j + 1)].from
  /\ k > 0 => EndOf(written) = IF \E t \in Coders : coders[t].pc = "next"
                               THEN To(gp[w]) ELSE gp[w].from
  /\ \A t \in Coders : coders[t].pc = "place" =>
       coders[t].piece.from = RingEnd(w, k, gp) /\ To(coders[t].piece) = mtc.readProcessed
  /\ (\A t \in Coders : coders[t].pc # "place") => RingEnd(w, k, gp) = mtc.readProcessed

Ring(w, k, gp, gb) ==
  /\ blocksSemaphore = RingBlocks - k /\ mtc.blockIndex = Slot(w, k)
  /\ Owners(w, k, gb) /\ Writer(w) /\ Buffers(w, k, gb)
  /\ Fine => Contents(gp, gb) /\ Chain(w, k, gp)

SomeRing ==
  \E w \in Places, k \in 0 .. RingBlocks, gp \in [Places -> Pieces], gb \in [Places -> MaybeBuf] :
    Ring(w, k, gp, gb)

IInv == /\ TypeInv /\ OneReader /\ Threads /\ Endings /\ Errors /\ Ended /\ InOrder /\ OkIsWhole
        /\ caller.waits => SomeRing

-----------------------------------------------------------------------------
(* The ring as a ring.                                                       *)
LEMMA RingSize == RingBlocks \in Nat /\ RingBlocks > ThreadsMax /\ ThreadsMax \in Nat \ {0}
BY CoderBounds DEF RingBlocks

LEMMA NextIsSlot ==
  ASSUME NEW i \in Places
  PROVE  Next1(i) = (IF i + 1 = RingBlocks THEN 0 ELSE i + 1) /\ Next1(i) \in Places
BY RingSize DEF Next1, Places

LEMMA SlotIn ==
  ASSUME NEW w \in Places, NEW j \in 0 .. RingBlocks
  PROVE  Slot(w, j) \in Places /\ Slot(w, 0) = w
BY RingSize DEF Slot, Places

LEMMA SlotNext ==
  ASSUME NEW w \in Places, NEW j \in 0 .. (RingBlocks - 1)
  PROVE  /\ Slot(w, j + 1) = Next1(Slot(w, j))
         /\ Slot(Next1(w), j) = Slot(w, j + 1)
BY RingSize, NextIsSlot, SlotIn DEF Slot, Places

LEMMA SlotOne ==
  ASSUME NEW w \in Places, NEW i \in 0 .. (RingBlocks - 1), NEW j \in 0 .. (RingBlocks - 1),
         Slot(w, i) = Slot(w, j)
  PROVE  i = j
BY RingSize DEF Slot, Places

(* The place behind the taken ones is free, and taking it adds it.           *)
LEMMA TakenMore ==
  ASSUME NEW w \in Places, NEW k \in 0 .. (RingBlocks - 1)
  PROVE  /\ Slot(w, k) \notin Taken(w, k)
         /\ Taken(w, k + 1) = Taken(w, k) \cup {Slot(w, k)}
         /\ Taken(w, k + 1) \subseteq Places
<1>1. \A j \in 0 .. (k - 1) : Slot(w, j) # Slot(w, k)
  BY SlotOne, RingSize
<1>2. \A j \in 0 .. k : Slot(w, j) \in Places
  BY SlotIn, RingSize
<1>3. (k + 1) - 1 = k /\ 0 .. k = (0 .. (k - 1)) \cup {k}
  BY RingSize
<1> QED  BY <1>1, <1>2, <1>3 DEF Taken

(* When the block at w is released, the others are taken from its successor. *)
LEMMA TakenLess ==
  ASSUME NEW w \in Places, NEW k \in 1 .. RingBlocks
  PROVE  /\ w \in Taken(w, k)
         /\ Taken(Next1(w), k - 1) = Taken(w, k) \ {w}
<1>1. \A j \in 0 .. (k - 2) : Slot(Next1(w), j) = Slot(w, j + 1)
  BY SlotNext, RingSize
<1>2. \A j \in 1 .. (k - 1) : Slot(w, j) # Slot(w, 0) /\ Slot(w, 0) = w
  BY SlotOne, SlotIn, RingSize
<1>3. w \in Taken(w, k)
  BY SlotIn, RingSize DEF Taken
<1>4. ASSUME NEW i \in Taken(Next1(w), k - 1) PROVE i \in Taken(w, k) \ {w}
  <2>1. PICK j \in 0 .. (k - 2) : i = Slot(Next1(w), j)  BY <1>4, RingSize DEF Taken
  <2>2. i = Slot(w, j + 1) /\ j + 1 \in 1 .. (k - 1)  BY <2>1, <1>1, RingSize
  <2> QED  BY <2>2, <1>2, RingSize DEF Taken
<1>5. ASSUME NEW i \in Taken(w, k) \ {w} PROVE i \in Taken(Next1(w), k - 1)
  <2>1. PICK j \in 0 .. (k - 1) : i = Slot(w, j)  BY <1>5 DEF Taken
  <2>2. j # 0  BY <2>1, <1>5, SlotIn, RingSize
  <2>3. j - 1 \in 0 .. (k - 2) /\ (j - 1) + 1 = j /\ (k - 1) - 1 = k - 2  BY <2>1, <2>2, RingSize
  <2> QED  BY <2>1, <2>3, <1>1 DEF Taken
<1> QED  BY <1>3, <1>4, <1>5
-----------------------------------------------------------------------------
(* Types.                                                                    *)
LEMMA PlacesCount == IsFiniteSet(Places) /\ Cardinality(Places) = RingBlocks
<1>1. 0 \in Int /\ RingBlocks - 1 \in Int /\ RingBlocks > 0  BY RingSize
<1>2. /\ IsFiniteSet(0 .. (RingBlocks - 1))
      /\ Cardinality(0 .. (RingBlocks - 1))
           = IF 0 > RingBlocks - 1 THEN 0 ELSE (RingBlocks - 1) - 0 + 1
  BY <1>1, FS_Interval
<1>3. (IF 0 > RingBlocks - 1 THEN 0 ELSE (RingBlocks - 1) - 0 + 1) = RingBlocks  BY RingSize
<1> QED  BY <1>2, <1>3 DEF Places

(* A thread that is to take a buffer finds one: there are as many as places, *)
(* and its own place has none.                                               *)
LEMMA BufferLeft ==
  ASSUME TypeInv, NEW w \in Places, NEW k \in 0 .. RingBlocks,
         NEW gb \in [Places -> MaybeBuf], Owners(w, k, gb), Buffers(w, k, gb),
         NEW t \in Coders, coders[t].pc = "buffer"
  PROVE  freeBlocks # << >>
<1> DEFINE i == coders[t].bi
<1>1. i \in Places /\ gb[i] = NoBuf
  BY DEF TypeInv, CoderRecord, Owners, Placed
<1>2. WithBuf(gb) \subseteq Places \ {i}  BY <1>1 DEF WithBuf
<1>3. IsFiniteSet(Places \ {i}) /\ Cardinality(Places \ {i}) = RingBlocks - 1
  BY <1>1, PlacesCount, FS_RemoveElement
<1>4. Cardinality(WithBuf(gb)) <= RingBlocks - 1
  BY <1>2, <1>3, FS_Subset
<1>5. Cardinality(WithBuf(gb)) \in Nat
  BY <1>2, <1>3, FS_Subset, FS_CardinalityType
<1>6. Len(freeBlocks) # 0  BY <1>4, <1>5, RingSize DEF Buffers, TypeInv
<1> QED  BY <1>6

(* What CallCode leaves to the threads has its types.                        *)
LEMMA AsleepType ==
  ASSUME NEW pc \in States
  PROVE  Asleep(pc) \in CoderRecord
BY RingSize DEF Asleep, CoderRecord, Places, NoPiece, Pieces, MaybeBuf, Results, NoBuf

LEMMA BackType == Back \in EndingRecord
BY DEF Back, EndingRecord

LEMMA TypeInit == ASSUME CoderInit PROVE TypeInv
<1>1. Asleep("off") \in CoderRecord  BY AsleepType DEF States
<1>2. coders \in [Coders -> CoderRecord]  BY <1>1 DEF CoderInit
<1>3. NoBlock \in BlockRecord  BY DEF NoBlock, BlockRecord, Results, MaybeBuf
<1>4. blocks \in [Places -> BlockRecord]  BY <1>3 DEF CoderInit
<1>5. NoPiece \in Pieces /\ 0 \in Places  BY RingSize DEF NoPiece, Pieces, Places
<1>6. bufs \in [Places -> Pieces] /\ freeBlocks \in Seq(Places) /\ written \in Seq(Pieces)
  BY <1>5 DEF CoderInit
<1>7. mtc \in MtcRecord
  BY <1>5 DEF CoderInit, Results, MtcRecord
<1>8. caller \in [calls : Nat, waits : BOOLEAN, res : Results]  BY DEF CoderInit, Results
<1>9. ending \in [Coders -> EndingRecord]  BY BackType DEF CoderInit
<1> QED  BY <1>2, <1>4, <1>6, <1>7, <1>8, <1>9 DEF CoderInit, TypeInv

(* A thread that slept and is started reads next.                            *)
LEMMA StartsOne ==
  ASSUME NEW t \in Coders, NEW cs \in [Coders -> CoderRecord], Sleeps(t),
         ending \in [Coders -> EndingRecord], ~ending[t].start, Start(t, cs)
  PROVE  /\ coders' = [cs EXCEPT ![t] = Asleep("read")]
         /\ coders' \in [Coders -> CoderRecord] /\ ending' = ending
<1>1. Asleep("read") \in CoderRecord  BY AsleepType DEF States
<1>2. [ending[t] EXCEPT !.start = FALSE] = ending[t]  BY DEF EndingRecord
<1>3. ending' = [ending EXCEPT ![t] = [ending[t] EXCEPT !.start = FALSE]]  BY DEF Start
<1>4. ending' = ending  BY <1>2, <1>3
<1>5. coders' = [cs EXCEPT ![t] = Asleep("read")]  BY DEF Start
<1> QED  BY <1>1, <1>4, <1>5

LEMMA CallStarts ==
  ASSUME TypeInv, CallCode, \A t \in Coders : Sleeps(t) /\ ~ending[t].start
  PROVE  /\ ending' = ending
         /\ \/ /\ caller' = [calls |-> caller.calls + 1, waits |-> TRUE, res |-> "OK"]
               /\ coders' = [coders EXCEPT ![1] = Asleep("read")]
            \/ /\ caller' = [calls |-> caller.calls + 1, waits |-> FALSE, res |-> "THREAD"]
               /\ coders' = coders
<1>1. 1 \in Coders /\ coders \in [Coders -> CoderRecord] /\ ending \in [Coders -> EndingRecord]
  BY RingSize DEF Coders, TypeInv
<1>2. Start(1, coders) => coders' = [coders EXCEPT ![1] = Asleep("read")] /\ ending' = ending
  BY <1>1, StartsOne
<1> QED  BY <1>2 DEF CallCode

LEMMA TypeCall ==
  ASSUME TypeInv, CallCode, \A t \in Coders : Sleeps(t) /\ ~ending[t].start
  PROVE  TypeInv'
<1>1. Asleep("read") \in CoderRecord  BY AsleepType DEF States
<1>2. RingBlocks \in Nat /\ [i \in 1 .. RingBlocks |-> i - 1] \in Seq(Places) /\ 0 \in Places
  BY RingSize DEF Places
<1>3. coders' \in [Coders -> CoderRecord] /\ ending' \in [Coders -> EndingRecord]
  BY <1>1, CallStarts DEF TypeInv
<1>4. input' \in [size : Nat, isStream : BOOLEAN, expected : BOOLEAN]
  BY CoderBounds DEF CallCode
<1>5. caller' \in [calls : Nat, waits : BOOLEAN, res : Results]
  <2> DEFINE n == caller.calls + 1
  <2>1. \/ caller' = [calls |-> n, waits |-> TRUE, res |-> "OK"]
        \/ caller' = [calls |-> n, waits |-> FALSE, res |-> "THREAD"]
    BY DEF CallCode
  <2>2. n \in Nat  BY DEF TypeInv
  <2> HIDE DEF n
  <2>3. "OK" \in Results /\ "THREAD" \in Results  BY DEF Results
  <2>4. CASE caller' = [calls |-> n, waits |-> TRUE, res |-> "OK"]  BY <2>2, <2>3, <2>4
  <2>5. CASE caller' = [calls |-> n, waits |-> FALSE, res |-> "THREAD"]  BY <2>2, <2>3, <2>5
  <2> QED  BY <2>1, <2>4, <2>5
<1>6. codeFaults' \in Nat  BY DEF CallCode, TypeInv, Fault, NoFault
<1>7. mtc' \in MtcRecord
  <2>1. mtc' = [stopReading |-> FALSE, readProcessed |-> 0, blockIndex |-> 0,
             writeIndex |-> 0, readRes |-> "OK", writeRes |-> "OK",
             progressRes |-> "OK", numStarted |-> 1, numFinished |-> 0]
    BY DEF CallCode
  <2> QED  BY <1>2, <2>1 DEF Results, MtcRecord
<1>8. readEvent' \in BOOLEAN /\ finishedEvent' \in BOOLEAN /\ blocksSemaphore' \in Nat
      /\ ReadyBlocks' = {} /\ written' = << >> /\ freeBlocks' \in Seq(Places)
  BY <1>2 DEF CallCode
<1>9. blocks' \in [Places -> BlockRecord] /\ bufs' \in [Places -> Pieces]
  BY DEF CallCode, TypeInv
<1> QED  BY <1>3, <1>4, <1>5, <1>6, <1>7, <1>8, <1>9 DEF TypeInv

LEMMA TypeReturn == ASSUME TypeInv, ReturnCode PROVE TypeInv'
<1>1. caller' \in [calls : Nat, waits : BOOLEAN, res : Results]
  <2> DEFINE res == CASE mtc.readRes # "OK"     -> mtc.readRes
                      [] mtc.progressRes # "OK" -> mtc.progressRes
                      [] OTHER                  -> mtc.writeRes
             waits == res # "OK"
  <2>1. res \in Results /\ waits \in BOOLEAN  BY DEF TypeInv, MtcRecord
  <2>2. caller' = [caller EXCEPT !.waits = waits, !.res = res]  BY DEF ReturnCode
  <2> HIDE DEF res, waits
  <2> QED  BY <2>1, <2>2 DEF TypeInv
<1> QED  BY <1>1 DEF ReturnCode, TypeInv

LEMMA TypeFree == ASSUME TypeInv, FreeThreads PROVE TypeInv'
<1>1. Asleep("off") \in CoderRecord  BY AsleepType DEF States
<1>2. coders' \in [Coders -> CoderRecord]  BY <1>1 DEF FreeThreads
<1>3. caller' \in [calls : Nat, waits : BOOLEAN, res : Results]  BY DEF FreeThreads, TypeInv
<1> QED  BY <1>2, <1>3 DEF FreeThreads, TypeInv

(* The two ends of reading a block.                                          *)
LEMMA HaveReadType ==
  ASSUME TypeInv, NEW t \in Coders, NEW res \in Results, NEW finished \in BOOLEAN,
         NEW piece \in Pieces, HaveRead(t, res, finished, piece)
  PROVE  /\ coders' \in [Coders -> CoderRecord]
         /\ \A u \in Coders \ {t} : coders'[u] = coders[u]
         /\ coders'[t].pc = "place" /\ coders'[t].res = res /\ coders'[t].buf = NoBuf
         /\ coders'[t].finished = finished /\ coders'[t].piece = piece
<1> DEFINE r == [Asleep("place") EXCEPT !.res = res, !.finished = finished, !.piece = piece]
<1>1. Asleep("place") \in CoderRecord  BY AsleepType DEF States
<1>2. /\ r \in CoderRecord /\ r.pc = "place" /\ r.res = res /\ r.buf = NoBuf
      /\ r.finished = finished /\ r.piece = piece
  BY <1>1 DEF CoderRecord, Asleep
<1>3. coders' = [coders EXCEPT ![t] = r]  BY DEF HaveRead
<1> HIDE DEF r
<1> QED  BY <1>2, <1>3 DEF TypeInv

LEMMA NoPieceType == NoPiece \in Pieces
BY DEF NoPiece, Pieces

LEMMA ReadError ==
  ASSUME TypeInv, NEW t \in Coders, ReadAfterError(t) \/ ReadFails(t)
  PROVE  /\ TypeInv' /\ mtc'.progressRes # "OK"
         /\ mtc' = [mtc EXCEPT !.readRes = mtc'.readRes, !.progressRes = mtc'.progressRes]
         /\ coders[t].pc = "read" /\ readEvent /\ ~readEvent'
         /\ coders'[t].pc = "place" /\ coders'[t].buf = NoBuf
         /\ \A u \in Coders \ {t} : coders'[u] = coders[u]
<1>1. CASE ReadAfterError(t)
  <2>1. HaveRead(t, mtc.progressRes, TRUE, NoPiece) /\ mtc.progressRes \in Results
    BY <1>1 DEF ReadAfterError, TypeInv, MtcRecord
  <2>2. coders' \in [Coders -> CoderRecord] /\ coders'[t].pc = "place" /\ coders'[t].buf = NoBuf
        /\ \A u \in Coders \ {t} : coders'[u] = coders[u]
    BY <2>1, HaveReadType, NoPieceType
  <2> QED  BY <1>1, <2>2 DEF ReadAfterError, Reading, HasRead, At, TypeInv, MtcRecord
<1>2. CASE ReadFails(t)
  <2>1. PICK res \in {"MEM", "READ"} : /\ HaveRead(t, res, TRUE, NoPiece)
                                       /\ mtc' = SetError([mtc EXCEPT !.readRes = res], res)
    BY <1>2 DEF ReadFails
  <2>X. res \in Results  BY DEF Results
  <2>2. coders' \in [Coders -> CoderRecord] /\ coders'[t].pc = "place" /\ coders'[t].buf = NoBuf
        /\ \A u \in Coders \ {t} : coders'[u] = coders[u]
    BY <2>1, <2>X, HaveReadType, NoPieceType
  <2>3. \/ mtc' = [mtc EXCEPT !.readRes = res] /\ mtc.progressRes # "OK"
        \/ mtc' = [mtc EXCEPT !.readRes = res, !.progressRes = res]
    BY <2>1 DEF SetError, TypeInv
  <2>4. mtc' \in MtcRecord
    BY <2>3 DEF TypeInv, Results, MtcRecord
  <2>5. mtc'.progressRes # "OK"
        /\ mtc' = [mtc EXCEPT !.readRes = mtc'.readRes, !.progressRes = mtc'.progressRes]
    BY <2>3 DEF TypeInv, MtcRecord
  <2>6. codeFaults' \in Nat  BY <1>2 DEF ReadFails, Fault, TypeInv
  <2>7. TypeInv'  BY <1>2, <2>2, <2>4, <2>6 DEF ReadFails, Reading, TypeInv
  <2> QED  BY <1>2, <2>2, <2>5, <2>7 DEF ReadFails, Reading, HasRead, At
<1> QED  BY <1>1, <1>2

LEMMA ReadWell ==
  ASSUME TypeInv, mtc.readProcessed <= input.size, NEW t \in Coders, ReadInput(t)
  PROVE  /\ TypeInv' /\ mtc.progressRes = "OK"
         /\ mtc' = [mtc EXCEPT !.readProcessed = mtc'.readProcessed]
         /\ mtc'.readProcessed <= input.size
         /\ coders[t].pc = "read" /\ readEvent /\ ~readEvent'
         /\ coders'[t].pc = "place" /\ coders'[t].buf = NoBuf /\ coders'[t].res = "OK"
         /\ coders'[t].piece.from = mtc.readProcessed
         /\ To(coders'[t].piece) = mtc'.readProcessed
         /\ coders'[t].finished => mtc'.readProcessed = input.size
         /\ \A u \in Coders \ {t} : coders'[u] = coders[u]
<1> DEFINE rest == input.size - mtc.readProcessed
           size == IF BlockSize > rest THEN rest ELSE BlockSize
           upTo == mtc.readProcessed + size
           finished == IF input.isStream THEN size # BlockSize ELSE upTo = input.size
           piece == [from |-> mtc.readProcessed, size |-> size]
<1>1. rest \in Nat /\ size \in Nat /\ upTo \in Nat /\ upTo <= input.size
  BY CoderBounds DEF TypeInv, MtcRecord
<1>2. finished \in BOOLEAN /\ (finished => upTo = input.size)
  <2>1. size # BlockSize => upTo = input.size  BY CoderBounds DEF TypeInv, MtcRecord
  <2>2. input.isStream \in BOOLEAN  BY DEF TypeInv
  <2> HIDE DEF size, upTo
  <2> QED  BY <2>1, <2>2
<1>3. piece \in Pieces /\ piece.from = mtc.readProcessed /\ To(piece) = upTo
  BY <1>1 DEF Pieces, To, TypeInv, MtcRecord
<1>4. HaveRead(t, "OK", finished, piece) /\ mtc' = [mtc EXCEPT !.readProcessed = upTo]
  BY DEF ReadInput
<1> HIDE DEF rest, size, upTo, finished, piece
<1>5. /\ coders' \in [Coders -> CoderRecord]
      /\ \A u \in Coders \ {t} : coders'[u] = coders[u]
      /\ coders'[t].pc = "place" /\ coders'[t].res = "OK" /\ coders'[t].buf = NoBuf
      /\ coders'[t].finished = finished /\ coders'[t].piece = piece
  BY <1>2, <1>3, <1>4, HaveReadType DEF Results
<1>6. mtc' \in MtcRecord
      /\ mtc'.readProcessed = upTo
  BY <1>1, <1>4 DEF TypeInv, MtcRecord
<1>7. TypeInv'  BY <1>5, <1>6 DEF ReadInput, Reading, NoFault, TypeInv
<1> QED  BY <1>1, <1>2, <1>3, <1>4, <1>5, <1>6, <1>7 DEF ReadInput, Reading, HasRead, At

(* TakePlace: the thread goes on at the place blockIndex, and may start      *)
(* another one.                                                              *)
Wakes(t, n) == /\ n = mtc.numStarted + 1 /\ n \in Coders /\ n # t
                /\ mtc'.numStarted = n /\ coders'[n] = Asleep("read")
                /\ \A u \in Coders \ {t, n} : coders'[u] = coders[u]
StartsNone(t) == /\ mtc'.numStarted = mtc.numStarted
                 /\ \A u \in Coders \ {t} : coders'[u] = coders[u]

LEMMA TakesPlace ==
  ASSUME TypeInv, Threads, Endings, Errors, NEW t \in Coders, TakePlace(t)
  PROVE  /\ TypeInv' /\ ending' = ending
         /\ mtc' = [mtc EXCEPT !.blockIndex = Next1(mtc.blockIndex),
                               !.stopReading = mtc'.stopReading,
                               !.numStarted = mtc'.numStarted,
                               !.progressRes = mtc'.progressRes]
         /\ coders[t].pc = "place"
         /\ coders'[t].pc \in {"buffer", "publish"} /\ coders'[t].bi = mtc.blockIndex
         /\ coders'[t].buf = coders[t].buf /\ coders'[t].piece = coders[t].piece
         /\ Fine' => /\ Fine /\ coders'[t].pc = "buffer" /\ coders'[t].res = "OK"
                     /\ coders'[t].finished = coders[t].finished
                     /\ mtc'.stopReading => mtc.stopReading \/ coders[t].finished
         /\ StartsNone(t) \/ \E n \in Coders : Wakes(t, n)
<1> DEFINE c == coders[t]
           res == IF c.res = "OK" THEN mtc.progressRes ELSE c.res
           finished == c.finished \/ res # "OK"
           next == mtc.numStarted + 1
           Took(r, f) == [c EXCEPT !.bi = mtc.blockIndex, !.res = r, !.finished = f,
                                   !.pc = IF r = "OK" THEN "buffer" ELSE "publish"]
           Behind(f) == [mtc EXCEPT !.blockIndex = Next1(@), !.stopReading = @ \/ f]
           Keeps(d) == /\ d \in CoderRecord /\ d.pc \in {"buffer", "publish"}
                       /\ d.bi = mtc.blockIndex /\ d.buf = c.buf /\ d.piece = c.piece
           MtcAs == mtc' = [mtc EXCEPT !.blockIndex = Next1(mtc.blockIndex),
                               !.stopReading = mtc'.stopReading,
                               !.numStarted = mtc'.numStarted,
                               !.progressRes = mtc'.progressRes]
<1>1. res \in Results /\ finished \in BOOLEAN /\ c \in CoderRecord /\ c.pc = "place"
      /\ mtc.blockIndex \in Places /\ Next1(mtc.blockIndex) \in Places
  BY NextIsSlot DEF TypeInv, TakePlace, At, CoderRecord, MtcRecord
<1>2. (Fine => res = "OK" /\ finished = c.finished) /\ (res = "OK" => Fine)
  BY <1>1 DEF Errors, Fine, Sleeps, TypeInv, CoderRecord, Results
<1>A. Start(next, [coders EXCEPT ![t] = Took(res, FALSE)]) /\ next <= ThreadsMax =>
        /\ coders' = [coders EXCEPT ![t] = Took(res, FALSE), ![next] = Asleep("read")]
        /\ ending' = ending
  <2> DEFINE d == Took(res, FALSE)
             cs == [coders EXCEPT ![t] = d]
  <2> SUFFICES ASSUME Start(next, cs), next <= ThreadsMax
               PROVE  coders' = [cs EXCEPT ![next] = Asleep("read")] /\ ending' = ending
    OBVIOUS
  <2>1. next \in Coders /\ next > mtc.numStarted
    BY RingSize DEF TypeInv, MtcRecord, Coders
  <2>2. ending \in [Coders -> EndingRecord] /\ ~ending[next].start /\ Sleeps(next)
    BY <2>1 DEF TypeInv, Endings, Threads
  <2> HIDE DEF c, res, next
  <2>3. d \in CoderRecord  BY <1>1 DEF CoderRecord, States
  <2> HIDE DEF Took, d
  <2>4. cs \in [Coders -> CoderRecord]  BY <2>3 DEF TypeInv
  <2> HIDE DEF cs
  <2> QED  BY <2>1, <2>2, <2>4, StartsOne
<1>3. /\ next = mtc.numStarted + 1 /\ blocksSemaphore' \in Nat /\ readEvent' = TRUE
      /\ ending' = ending
      /\ \/ /\ mtc' = Behind(finished) /\ coders' = [coders EXCEPT ![t] = Took(res, finished)]
            /\ NoFault
         \/ /\ next <= ThreadsMax /\ mtc' = [Behind(FALSE) EXCEPT !.numStarted = next]
            /\ coders' = [coders EXCEPT ![t] = Took(res, FALSE), ![next] = Asleep("read")]
            /\ finished = FALSE /\ NoFault
         \/ /\ mtc' = SetError(Behind(TRUE), "THREAD") /\ Fault
            /\ coders' = [coders EXCEPT ![t] = Took("THREAD", TRUE)]
      /\ UNCHANGED <<caller, input, finishedEvent, blocks, ReadyBlocks, freeBlocks, bufs, written>>
  BY <1>A, RingSize DEF TakePlace, TypeInv, MtcRecord
<1>E. ending' = ending  BY <1>3
<1>4. t \in 1 .. mtc.numStarted /\ mtc.numStarted \in Nat
  BY <1>1 DEF Threads, Sleeps, TypeInv, Coders, MtcRecord
<1>5. ASSUME coders' \in [Coders -> CoderRecord], mtc' \in MtcRecord, NoFault \/ Fault
      PROVE  TypeInv'
  BY <1>3, <1>5 DEF TypeInv, NoFault, Fault
<1>6. CASE /\ mtc' = Behind(finished) /\ coders' = [coders EXCEPT ![t] = Took(res, finished)]
           /\ NoFault
  <2> HIDE DEF c, res, finished
  <2>1. Keeps(Took(res, finished)) /\ Took(res, finished).finished = finished
        /\ Took(res, finished).res = res
        /\ (res = "OK" => Took(res, finished).pc = "buffer")
    BY <1>1 DEF CoderRecord, States
  <2>2. mtc' \in MtcRecord /\ MtcAs /\ mtc'.progressRes = mtc.progressRes
        /\ mtc'.stopReading = (mtc.stopReading \/ finished)
        /\ mtc'.numStarted = mtc.numStarted
    BY <1>1, <1>6 DEF TypeInv, MtcRecord
  <2> HIDE DEF Took, Behind
  <2>3. /\ coders' \in [Coders -> CoderRecord] /\ coders'[t] = Took(res, finished)
        /\ \A u \in Coders \ {t} : coders'[u] = coders[u]
    BY <1>6, <2>1 DEF TypeInv
  <2>4. TypeInv'  BY <1>5, <1>6, <2>2, <2>3
  <2>5. StartsNone(t)  BY <2>2, <2>3 DEF StartsNone
  <2> HIDE DEF MtcAs
  <2>6. Fine' => Fine /\ coders'[t].pc = "buffer" /\ coders'[t].res = "OK"
                 /\ coders'[t].finished = coders[t].finished
                 /\ (mtc'.stopReading => mtc.stopReading \/ coders[t].finished)
    BY <1>2, <2>1, <2>2, <2>3 DEF Fine, c
  <2> QED  BY <1>1, <1>E, <2>1, <2>2, <2>3, <2>4, <2>5, <2>6 DEF c, MtcAs
<1>7. CASE /\ next <= ThreadsMax /\ mtc' = [Behind(FALSE) EXCEPT !.numStarted = next]
           /\ coders' = [coders EXCEPT ![t] = Took(res, FALSE), ![next] = Asleep("read")]
           /\ finished = FALSE /\ NoFault
  <2>1. next \in Coders /\ next # t /\ next \in Nat /\ next = mtc.numStarted + 1
    BY <1>4, <1>7, RingSize DEF Coders
  <2> HIDE DEF c, res, finished, next
  <2> DEFINE d == Took(res, FALSE)
  <2>2. Keeps(d) /\ d.finished = FALSE /\ d.res = res /\ (res = "OK" => d.pc = "buffer")
    BY <1>1 DEF CoderRecord, States
  <2>3. mtc' \in MtcRecord /\ MtcAs /\ mtc'.progressRes = mtc.progressRes
        /\ mtc'.stopReading = mtc.stopReading /\ mtc'.numStarted = next
    BY <1>1, <1>7, <2>1 DEF TypeInv, MtcRecord
  <2>4. Asleep("read") \in CoderRecord  BY AsleepType DEF States
  <2>5. coders' = [coders EXCEPT ![t] = d, ![next] = Asleep("read")]  BY <1>7
  <2> HIDE DEF Took, Behind, d
  <2>6. /\ coders' \in [Coders -> CoderRecord] /\ coders'[t] = d
        /\ coders'[next] = Asleep("read")
        /\ \A u \in Coders \ {t, next} : coders'[u] = coders[u]
    BY <2>1, <2>2, <2>4, <2>5 DEF TypeInv
  <2>7. TypeInv'  BY <1>5, <1>7, <2>3, <2>6
  <2>8. Wakes(t, next)  BY <2>1, <2>3, <2>6 DEF Wakes
  <2> HIDE DEF MtcAs
  <2>9. Fine' => Fine /\ coders'[t].pc = "buffer" /\ coders'[t].res = "OK"
                 /\ coders'[t].finished = coders[t].finished
                 /\ (mtc'.stopReading => mtc.stopReading \/ coders[t].finished)
    BY <1>2, <1>7, <2>2, <2>3, <2>6 DEF Fine, c
  <2> QED  BY <1>1, <1>E, <2>1, <2>2, <2>3, <2>6, <2>7, <2>8, <2>9 DEF c, MtcAs
<1>8. CASE /\ mtc' = SetError(Behind(TRUE), "THREAD") /\ Fault
           /\ coders' = [coders EXCEPT ![t] = Took("THREAD", TRUE)]
  <2> DEFINE d == Took("THREAD", TRUE)
  <2> HIDE DEF c, res, finished
  <2>1. Keeps(d)
    BY <1>1 DEF CoderRecord, States, Results
  <2>2. mtc' \in MtcRecord /\ MtcAs /\ mtc'.progressRes # "OK" /\ mtc'.numStarted = mtc.numStarted
    <3>1. mtc.progressRes = "OK" => mtc' = [Behind(TRUE) EXCEPT !.progressRes = "THREAD"]
      BY <1>8 DEF SetError, TypeInv
    <3>2. mtc.progressRes # "OK" => mtc' = Behind(TRUE)
      BY <1>8 DEF SetError, TypeInv
    <3>3. "THREAD" \in Results  BY DEF Results
    <3> QED  BY <1>1, <3>1, <3>2, <3>3 DEF TypeInv, MtcRecord
  <2>3. coders' = [coders EXCEPT ![t] = d]  BY <1>8
  <2> HIDE DEF Took, Behind, d
  <2>4. /\ coders' \in [Coders -> CoderRecord] /\ coders'[t] = d
        /\ \A u \in Coders \ {t} : coders'[u] = coders[u]
    BY <2>1, <2>3 DEF TypeInv
  <2>5. TypeInv'  BY <1>5, <1>8, <2>2, <2>4
  <2>6. StartsNone(t)  BY <2>2, <2>4 DEF StartsNone
  <2> QED  BY <1>1, <1>E, <2>1, <2>2, <2>4, <2>5, <2>6 DEF Fine, c
<1> QED  BY <1>3, <1>6, <1>7, <1>8

(* The other steps, field by field.  Others(t): no other thread changes.     *)
Others(t) == \A u \in Coders \ {t} : coders'[u] = coders[u]
SameBlock(t) == /\ coders'[t].bi = coders[t].bi /\ coders'[t].buf = coders[t].buf
                /\ coders'[t].finished = coders[t].finished /\ coders'[t].piece = coders[t].piece

LEMMA Stops ==
  ASSUME TypeInv, NEW t \in Coders, StopThread(t)
  PROVE  /\ TypeInv' /\ Others(t) /\ SameBlock(t) /\ coders'[t].res = coders[t].res
         /\ coders[t].pc = "read" /\ coders'[t].pc = "end" /\ mtc.stopReading
BY DEF StopThread, HasRead, At, TypeInv, CoderRecord, States, Others, SameBlock

LEMMA TakesBuffer ==
  ASSUME TypeInv, NEW t \in Coders, TakeBuffer(t), freeBlocks # << >>
  PROVE  /\ TypeInv' /\ Others(t)
         /\ coders[t].pc = "buffer" /\ coders'[t].pc = "code"
         /\ coders'[t].bi = coders[t].bi /\ coders'[t].buf = freeBlocks[1]
         /\ coders'[t].res = coders[t].res /\ coders'[t].finished = coders[t].finished
         /\ coders'[t].piece = coders[t].piece
         /\ freeBlocks' = Tail(freeBlocks) /\ freeBlocks[1] \in Places
<1>1. Head(freeBlocks) = freeBlocks[1] /\ freeBlocks[1] \in Places /\ Tail(freeBlocks) \in Seq(Places)
  BY DEF TypeInv
<1>2. /\ coders' \in [Coders -> CoderRecord] /\ Others(t)
      /\ coders[t].pc = "buffer" /\ coders'[t].pc = "code"
      /\ coders'[t].bi = coders[t].bi /\ coders'[t].buf = freeBlocks[1]
      /\ coders'[t].res = coders[t].res /\ coders'[t].finished = coders[t].finished
      /\ coders'[t].piece = coders[t].piece
  BY <1>1 DEF TakeBuffer, At, TypeInv, CoderRecord, States, MaybeBuf, Others
<1>3. TypeInv'  BY <1>1, <1>2 DEF TakeBuffer, TypeInv
<1> QED  BY <1>1, <1>2, <1>3 DEF TakeBuffer

LEMMA Codes ==
  ASSUME TypeInv, NEW t \in Coders, CodeBlock(t)
  PROVE  /\ TypeInv' /\ Others(t) /\ SameBlock(t)
         /\ coders[t].pc = "code" /\ coders'[t].pc = "publish"
         /\ mtc' = [mtc EXCEPT !.progressRes = mtc'.progressRes]
         /\ Fine' => /\ mtc' = mtc /\ coders'[t].res = coders[t].res
                     /\ bufs' = [bufs EXCEPT ![coders[t].buf] = coders[t].piece]
<1>1. /\ coders[t] \in CoderRecord /\ coders[t].pc = "code" /\ coders[t].piece \in Pieces
  BY DEF CodeBlock, At, TypeInv, CoderRecord
<1>2. CASE /\ NoFault /\ UNCHANGED mtc
           /\ bufs' = [bufs EXCEPT ![coders[t].buf] = coders[t].piece]
           /\ coders' = [coders EXCEPT ![t].pc = "publish"]
  <2>1. /\ coders' \in [Coders -> CoderRecord] /\ Others(t) /\ SameBlock(t)
        /\ coders'[t].pc = "publish" /\ coders'[t].res = coders[t].res
    BY <1>1, <1>2 DEF TypeInv, CoderRecord, States, Others, SameBlock
  <2>2. bufs' \in [Places -> Pieces]  BY <1>1, <1>2 DEF TypeInv
  <2>3. TypeInv'  BY <1>2, <2>1, <2>2 DEF CodeBlock, NoFault, TypeInv
  <2> QED  BY <1>1, <1>2, <2>1, <2>3 DEF TypeInv, MtcRecord
<1>3. CASE Fault /\ UNCHANGED bufs /\ mtc' = SetError(mtc, "CODE")
           /\ coders' = [coders EXCEPT ![t].pc = "publish", ![t].res = "CODE"]
  <2>1. /\ coders' \in [Coders -> CoderRecord] /\ Others(t) /\ SameBlock(t)
        /\ coders'[t].pc = "publish"
    BY <1>1, <1>3 DEF TypeInv, CoderRecord, States, Results, Others, SameBlock
  <2>2. mtc' \in MtcRecord /\ mtc'.progressRes # "OK"
        /\ mtc' = [mtc EXCEPT !.progressRes = mtc'.progressRes]
    BY <1>3 DEF SetError, TypeInv, MtcRecord, Results
  <2>3. TypeInv'  BY <1>3, <2>1, <2>2 DEF CodeBlock, Fault, TypeInv
  <2> QED  BY <1>1, <2>1, <2>2, <2>3 DEF Fine
<1> QED  BY <1>2, <1>3 DEF CodeBlock

LEMMA Publishes ==
  ASSUME TypeInv, NEW t \in Coders, Publish(t)
  PROVE  /\ TypeInv' /\ Others(t) /\ SameBlock(t) /\ coders[t].pc = "publish"
         /\ blocks' = [blocks EXCEPT ![coders[t].bi] = [res |-> coders[t].res,
                             buf |-> coders[t].buf, finished |-> coders[t].finished]]
         /\ mtc' = [mtc EXCEPT !.writeIndex = mtc'.writeIndex]
         /\ \/ /\ mtc.writeIndex = coders[t].bi /\ mtc'.writeIndex = -1
               /\ coders'[t].pc = "write" /\ ReadyBlocks' = ReadyBlocks
               /\ mtc.writeRes = "OK" => coders'[t].res = coders[t].res
            \/ /\ mtc.writeIndex # coders[t].bi /\ mtc'.writeIndex = mtc.writeIndex
               /\ coders'[t].pc = GoOn(coders[t].res, coders[t].finished)
               /\ coders'[t].res = coders[t].res
               /\ ReadyBlocks' = ReadyBlocks \cup {coders[t].bi}
<1>1. /\ coders[t] \in CoderRecord /\ coders[t].pc = "publish" /\ coders[t].bi \in Places
      /\ coders[t].buf \in MaybeBuf /\ coders[t].res \in Results /\ coders[t].finished \in BOOLEAN
  BY DEF Publish, At, TypeInv, CoderRecord
<1>2. [res |-> coders[t].res, buf |-> coders[t].buf, finished |-> coders[t].finished] \in BlockRecord
  BY <1>1 DEF BlockRecord
<1>3. blocks' \in [Places -> BlockRecord]  BY <1>2 DEF Publish, TypeInv
<1>4. CASE /\ mtc.writeIndex = coders[t].bi
           /\ mtc' = [mtc EXCEPT !.writeIndex = -1]
           /\ coders' = [coders EXCEPT ![t].pc = "write",
                ![t].res = IF mtc.writeRes # "OK" THEN mtc.writeRes ELSE @]
           /\ UNCHANGED ReadyBlocks
  <2>1. /\ coders' \in [Coders -> CoderRecord] /\ Others(t) /\ SameBlock(t)
        /\ coders'[t].pc = "write" /\ (mtc.writeRes = "OK" => coders'[t].res = coders[t].res)
    BY <1>1, <1>4 DEF TypeInv, MtcRecord, CoderRecord, States, Others, SameBlock
  <2>2. mtc' \in MtcRecord /\ mtc'.writeIndex = -1
        /\ mtc' = [mtc EXCEPT !.writeIndex = mtc'.writeIndex]
    BY <1>4 DEF TypeInv, MtcRecord
  <2>3. TypeInv'  BY <1>3, <1>4, <2>1, <2>2 DEF Publish, TypeInv
  <2> QED  BY <1>1, <1>4, <2>1, <2>2, <2>3 DEF Publish
<1>5. CASE /\ mtc.writeIndex # coders[t].bi
           /\ ReadyBlocks' = ReadyBlocks \cup {coders[t].bi}
           /\ coders' = [coders EXCEPT ![t].pc = GoOn(coders[t].res, coders[t].finished)]
           /\ UNCHANGED mtc
  <2>1. GoOn(coders[t].res, coders[t].finished) \in States  BY DEF GoOn, States
  <2>2. /\ coders' \in [Coders -> CoderRecord] /\ Others(t) /\ SameBlock(t)
        /\ coders'[t].pc = GoOn(coders[t].res, coders[t].finished)
        /\ coders'[t].res = coders[t].res
    BY <1>1, <1>5, <2>1 DEF TypeInv, CoderRecord, Others, SameBlock
  <2>3. TypeInv'  BY <1>1, <1>3, <1>5, <2>2 DEF Publish, TypeInv
  <2> QED  BY <1>1, <1>5, <2>2, <2>3 DEF Publish, TypeInv, MtcRecord
<1> QED  BY <1>4, <1>5 DEF Publish

LEMMA Writes ==
  ASSUME TypeInv, NEW t \in Coders, WriteBlock(t)
  PROVE  /\ TypeInv' /\ Others(t) /\ SameBlock(t)
         /\ coders[t].pc = "write" /\ coders'[t].pc = "next"
         /\ mtc' = [mtc EXCEPT !.writeRes = mtc'.writeRes, !.progressRes = mtc'.progressRes]
         /\ Fine' => /\ mtc' = mtc /\ coders'[t].res = coders[t].res
                     /\ coders[t].res = "OK" /\ coders[t].buf # NoBuf =>
                          written' = Append(written, bufs[coders[t].buf])
<1>1. /\ coders[t] \in CoderRecord /\ coders[t].pc = "write" /\ coders[t].buf \in MaybeBuf
  BY DEF WriteBlock, At, TypeInv, CoderRecord
<1> DEFINE write == coders[t].res = "OK" /\ coders[t].buf # NoBuf
<1>2. CASE ~write /\ NoFault /\ UNCHANGED <<mtc, written>>
           /\ coders' = [coders EXCEPT ![t].pc = "next"]
  <2>1. /\ coders' \in [Coders -> CoderRecord] /\ Others(t) /\ SameBlock(t)
        /\ coders'[t].pc = "next" /\ coders'[t].res = coders[t].res
    BY <1>1, <1>2 DEF TypeInv, CoderRecord, States, Others, SameBlock
  <2>2. TypeInv'  BY <1>2, <2>1 DEF WriteBlock, NoFault, TypeInv
  <2> QED  BY <1>1, <1>2, <2>1, <2>2 DEF TypeInv, MtcRecord
<1>3. CASE write /\ NoFault /\ UNCHANGED mtc /\ written' = Append(written, bufs[coders[t].buf])
           /\ coders' = [coders EXCEPT ![t].pc = "next"]
  <2>1. /\ coders' \in [Coders -> CoderRecord] /\ Others(t) /\ SameBlock(t)
        /\ coders'[t].pc = "next" /\ coders'[t].res = coders[t].res
    BY <1>1, <1>3 DEF TypeInv, CoderRecord, States, Others, SameBlock
  <2>2. bufs[coders[t].buf] \in Pieces  BY <1>1, <1>3 DEF TypeInv, MaybeBuf
  <2>3. written' \in Seq(Pieces)  BY <1>3, <2>2 DEF TypeInv
  <2>4. TypeInv'  BY <1>3, <2>1, <2>3 DEF WriteBlock, NoFault, TypeInv
  <2> QED  BY <1>1, <1>3, <2>1, <2>4 DEF TypeInv, MtcRecord
<1>4. CASE /\ Fault /\ UNCHANGED written
           /\ mtc' = SetError([mtc EXCEPT !.writeRes = "WRITE"], "WRITE")
           /\ coders' = [coders EXCEPT ![t].pc = "next", ![t].res = "WRITE"]
  <2>1. /\ coders' \in [Coders -> CoderRecord] /\ Others(t) /\ SameBlock(t)
        /\ coders'[t].pc = "next"
    BY <1>1, <1>4 DEF TypeInv, CoderRecord, States, Results, Others, SameBlock
  <2>2. \/ mtc' = [mtc EXCEPT !.writeRes = "WRITE"] /\ mtc.progressRes # "OK"
        \/ mtc' = [mtc EXCEPT !.writeRes = "WRITE", !.progressRes = "WRITE"]
    BY <1>4 DEF SetError, TypeInv, MtcRecord
  <2>3. mtc' \in MtcRecord  BY <2>2 DEF TypeInv, MtcRecord, Results
  <2>4. mtc'.progressRes # "OK"
        /\ mtc' = [mtc EXCEPT !.writeRes = mtc'.writeRes, !.progressRes = mtc'.progressRes]
    BY <2>2 DEF TypeInv, MtcRecord
  <2>5. TypeInv'  BY <1>4, <2>1, <2>3 DEF WriteBlock, Fault, TypeInv
  <2> QED  BY <1>1, <2>1, <2>4, <2>5 DEF Fine
<1> QED  BY <1>2, <1>3, <1>4 DEF WriteBlock

LEMMA Nexts ==
  ASSUME TypeInv, NEW t \in Coders, NextBlock(t)
  PROVE  LET wi == Next1(coders[t].bi) IN
         /\ TypeInv' /\ Others(t) /\ coders[t].pc = "next"
         /\ wi \in Places /\ coders[t].bi \in Places
         /\ mtc' = [mtc EXCEPT !.writeIndex = mtc'.writeIndex]
         /\ freeBlocks' = IF coders[t].buf = NoBuf THEN freeBlocks ELSE <<coders[t].buf>> \o freeBlocks
         /\ \/ /\ wi \in ReadyBlocks /\ ReadyBlocks' = ReadyBlocks \ {wi}
               /\ mtc'.writeIndex = mtc.writeIndex
               /\ coders'[t].pc = "write" /\ coders'[t].bi = wi
               /\ coders'[t].buf = blocks[wi].buf /\ coders'[t].finished = blocks[wi].finished
               /\ coders[t].res = "OK" => coders'[t].res = blocks[wi].res
            \/ /\ wi \notin ReadyBlocks /\ ReadyBlocks' = ReadyBlocks
               /\ mtc'.writeIndex = wi /\ SameBlock(t) /\ coders'[t].res = coders[t].res
               /\ coders'[t].pc = GoOn(coders[t].res, coders[t].finished)
<1> DEFINE wi == Next1(coders[t].bi)
           b == blocks[wi]
<1>1. /\ coders[t] \in CoderRecord /\ coders[t].pc = "next" /\ coders[t].bi \in Places
      /\ coders[t].buf \in MaybeBuf /\ wi \in Places
  BY NextIsSlot DEF NextBlock, At, TypeInv, CoderRecord
<1>2. b \in BlockRecord  BY <1>1 DEF TypeInv
<1>3. freeBlocks' \in Seq(Places)
  <2>1. coders[t].buf # NoBuf => <<coders[t].buf>> \in Seq(Places)  BY <1>1 DEF MaybeBuf
  <2> QED  BY <2>1 DEF NextBlock, TypeInv
<1>4. blocksSemaphore' \in Nat  BY DEF NextBlock, TypeInv
<1>5. CASE /\ wi \in ReadyBlocks /\ ReadyBlocks' = ReadyBlocks \ {wi} /\ UNCHANGED mtc
           /\ coders' = [coders EXCEPT ![t] = [coders[t] EXCEPT !.pc = "write", !.bi = wi,
                !.buf = b.buf, !.finished = b.finished, !.res = IF @ = "OK" THEN b.res ELSE @]]
  <2> HIDE DEF wi, b
  <2> DEFINE d == [coders[t] EXCEPT !.pc = "write", !.bi = wi,
                !.buf = b.buf, !.finished = b.finished, !.res = IF @ = "OK" THEN b.res ELSE @]
  <2>1. /\ d \in CoderRecord /\ d.pc = "write" /\ d.bi = wi /\ d.buf = b.buf
        /\ d.finished = b.finished /\ (coders[t].res = "OK" => d.res = b.res)
    BY <1>1, <1>2 DEF CoderRecord, BlockRecord, States
  <2>2. coders' = [coders EXCEPT ![t] = d]  BY <1>5
  <2> HIDE DEF d
  <2>3. coders' \in [Coders -> CoderRecord] /\ coders'[t] = d /\ Others(t)
    BY <2>1, <2>2 DEF TypeInv, Others
  <2>4. TypeInv'  BY <1>3, <1>4, <1>5, <2>3 DEF NextBlock, TypeInv
  <2>5. mtc' = [mtc EXCEPT !.writeIndex = mtc'.writeIndex] /\ mtc'.writeIndex = mtc.writeIndex
    BY <1>5 DEF TypeInv, MtcRecord
  <2> QED  BY <1>1, <1>5, <2>1, <2>3, <2>4, <2>5 DEF NextBlock, wi, b
<1>6. CASE /\ wi \notin ReadyBlocks /\ UNCHANGED ReadyBlocks
           /\ mtc' = [mtc EXCEPT !.writeIndex = wi]
           /\ coders' = [coders EXCEPT ![t].pc = GoOn(coders[t].res, coders[t].finished)]
  <2> HIDE DEF wi
  <2>1. GoOn(coders[t].res, coders[t].finished) \in States  BY DEF GoOn, States
  <2>2. /\ coders' \in [Coders -> CoderRecord] /\ Others(t) /\ SameBlock(t)
        /\ coders'[t].pc = GoOn(coders[t].res, coders[t].finished)
        /\ coders'[t].res = coders[t].res
    BY <1>1, <1>6, <2>1 DEF TypeInv, CoderRecord, Others, SameBlock
  <2>3. mtc' \in MtcRecord /\ mtc'.writeIndex = wi
        /\ mtc' = [mtc EXCEPT !.writeIndex = mtc'.writeIndex]
    BY <1>1, <1>6 DEF TypeInv, MtcRecord
  <2>4. TypeInv'  BY <1>3, <1>4, <1>6, <2>2, <2>3 DEF NextBlock, TypeInv
  <2> QED  BY <1>1, <1>6, <2>2, <2>3, <2>4 DEF NextBlock, wi
<1> QED  BY <1>5, <1>6 DEF NextBlock

LEMMA Finishes ==
  ASSUME TypeInv, NEW t \in Coders, ~ending[t].start, Finish(t)
  PROVE  /\ TypeInv' /\ Others(t)
         /\ coders[t].pc = "end" /\ coders'[t].pc = "idle"
         /\ mtc' = [mtc EXCEPT !.numFinished = mtc.numFinished + 1]
         /\ \A u \in Coders \ {t} : ending'[u] = ending[u]
         /\ ending'[t].count = mtc.numFinished + 1 /\ ~ending'[t].last /\ ~ending'[t].start
<1> DEFINE n == mtc.numFinished + 1
<1>1. Asleep("idle") \in CoderRecord /\ Asleep("idle").pc = "idle" /\ n \in Nat
  BY AsleepType DEF States, Asleep, TypeInv, MtcRecord
<1>2. coders' \in [Coders -> CoderRecord] /\ coders'[t].pc = "idle" /\ Others(t)
  BY <1>1 DEF Finish, TypeInv, Others
<1>3. mtc' = [mtc EXCEPT !.numFinished = n] /\ ending' = [ending EXCEPT ![t] = [Back EXCEPT !.count = n]]
  BY DEF Finish
<1> HIDE DEF n
<1>4. mtc' \in MtcRecord  BY <1>1, <1>3 DEF TypeInv, MtcRecord
<1>5. /\ ending' \in [Coders -> EndingRecord] /\ \A u \in Coders \ {t} : ending'[u] = ending[u]
      /\ ending'[t].count = n /\ ~ending'[t].last /\ ~ending'[t].start
  BY <1>1, <1>3 DEF TypeInv, Back, EndingRecord
<1>6. TypeInv'  BY <1>2, <1>4, <1>5 DEF Finish, TypeInv
<1> QED  BY <1>2, <1>3, <1>5, <1>6 DEF Finish, At, n
-----------------------------------------------------------------------------
(* What most steps leave as it was.                                          *)
LEMMA ActiveWaits ==
  ASSUME TypeInv, Threads, NEW t \in Coders, ~Sleeps(t)
  PROVE  /\ caller.waits /\ ~finishedEvent /\ caller.res = "OK" /\ ~Settled
         /\ t \in 1 .. mtc.numStarted
BY DEF Threads, Settled, TypeInv, MtcRecord, Coders

LEMMA ThreadsKeep ==
  ASSUME TypeInv, Threads, Endings, NEW t \in Coders, Others(t), ~Sleeps(t), ~Sleeps(t)',
         caller' = caller, finishedEvent' = finishedEvent, ending' = ending,
         mtc'.numStarted = mtc.numStarted, mtc'.numFinished = mtc.numFinished
  PROVE  Threads' /\ Endings'
<1>1. \A u \in Coders : /\ Sleeps(u)' <=> Sleeps(u)
                        /\ coders'[u].pc = "idle" <=> coders[u].pc = "idle"
                        /\ coders'[u].pc = "off" <=> coders[u].pc = "off"
  BY DEF Others, Sleeps
<1>2. 1 .. mtc.numStarted \subseteq Coders
  BY RingSize DEF Threads, Coders, TypeInv, MtcRecord
<1>3. Done' = Done  BY <1>1, <1>2 DEF Done
<1>4. Settled' <=> Settled  BY DEF Settled
<1>5. Threads'  BY <1>1, <1>2, <1>3, <1>4 DEF Threads
<1>6. Endings'  BY <1>1, <1>4 DEF Endings, Open
<1> QED  BY <1>5, <1>6

LEMMA OneReaderKeeps ==
  ASSUME OneReader, NEW t \in Coders, Others(t), coders'[t].pc # "place",
         readEvent' => readEvent
  PROVE  OneReader'
BY DEF OneReader, Others

LEMMA OwnersKeep ==
  ASSUME NEW w, NEW k, NEW gb, Owners(w, k, gb), NEW t \in Coders, Others(t),
         coders[t].pc \in Placed <=> coders'[t].pc \in Placed,
         coders'[t].pc \in Placed => coders'[t].bi = coders[t].bi /\ coders'[t].buf = coders[t].buf,
         coders'[t].pc = "buffer" => coders[t].pc = "buffer",
         ReadyBlocks' = ReadyBlocks, blocks' = blocks
  PROVE  Owners(w, k, gb)'
<1>1. \A u \in Coders :
        /\ coders[u].pc \in Placed <=> coders'[u].pc \in Placed
        /\ coders'[u].pc \in Placed => coders'[u].bi = coders[u].bi /\ coders'[u].buf = coders[u].buf
        /\ coders'[u].pc = "buffer" => coders[u].pc = "buffer"
  BY DEF Others
<1> HIDE DEF Placed
<1> QED  BY <1>1 DEF Owners

LEMMA WriterKeeps ==
  ASSUME NEW w, Writer(w), NEW t \in Coders, Others(t),
         coders[t].pc \in Writing <=> coders'[t].pc \in Writing,
         coders'[t].pc \in Writing => coders'[t].bi = coders[t].bi,
         mtc'.writeIndex = mtc.writeIndex
  PROVE  Writer(w)'
<1>1. \A u \in Coders :
        /\ coders[u].pc \in Writing <=> coders'[u].pc \in Writing
        /\ coders'[u].pc \in Writing => coders'[u].bi = coders[u].bi
  BY DEF Others
<1> QED  BY <1>1 DEF Writer

LEMMA BuffersKeep ==
  ASSUME NEW w, NEW k, NEW gb, Buffers(w, k, gb), freeBlocks' = freeBlocks
  PROVE  Buffers(w, k, gb)'
BY DEF Buffers

(* Steps of threads that have no place in the ring.                          *)
LEMMA QuietRing ==
  ASSUME NEW w, NEW k, NEW gp, NEW gb, Ring(w, k, gp, gb), NEW t \in Coders, Others(t),
         coders[t].pc \notin Placed, coders'[t].pc \notin Placed,
         UNCHANGED <<blocksSemaphore, blocks, ReadyBlocks, freeBlocks, bufs, written>>,
         mtc'.blockIndex = mtc.blockIndex, mtc'.writeIndex = mtc.writeIndex, Fine' => Fine,
         Fine' => \A u \in Coders : coders'[u].pc = "place" =>
           coders'[u].piece.from = RingEnd(w, k, gp) /\ To(coders'[u].piece) = mtc'.readProcessed,
         Fine' => ((\A u \in Coders : coders'[u].pc # "place") => RingEnd(w, k, gp) = mtc'.readProcessed)
  PROVE  Ring(w, k, gp, gb)'
<1>1. Owners(w, k, gb)'  BY OwnersKeep DEF Ring, Placed
<1>2. Writer(w)'  BY WriterKeeps DEF Ring, Placed, Writing
<1>3. Buffers(w, k, gb)'  BY BuffersKeep DEF Ring
<1>4. Fine' => Contents(gp, gb)'
  <2>1. \A u \in Coders : coders'[u].pc \in Placed => coders'[u] = coders[u]  BY DEF Others
  <2> QED  BY <2>1 DEF Ring, Contents, Placed
<1>5. Fine' => Chain(w, k, gp)'
  <2>1. (\E u \in Coders : coders'[u].pc = "next") <=> \E u \in Coders : coders[u].pc = "next"
    BY DEF Others, Placed
  <2>2. RingEnd(w, k, gp)' = RingEnd(w, k, gp) /\ (EndOf(written))' = EndOf(written)
    BY DEF RingEnd, EndOf
  <2> QED  BY <2>1, <2>2 DEF Ring, Chain
<1> QED  BY <1>1, <1>2, <1>3, <1>4, <1>5 DEF Ring

(* The steps of one thread after another.                                    *)
LEMMA StopStep == ASSUME IInv, NEW t \in Coders, StopThread(t) PROVE IInv'
<1>1. /\ TypeInv' /\ Others(t) /\ SameBlock(t) /\ coders'[t].res = coders[t].res
      /\ coders[t].pc = "read" /\ coders'[t].pc = "end" /\ mtc.stopReading
  BY Stops DEF IInv
<1>2. /\ UNCHANGED <<caller, ending, input, readEvent, finishedEvent, blocksSemaphore, mtc,
                     blocks, ReadyBlocks, freeBlocks, bufs, written, codeFaults>>
  BY DEF StopThread
<1>3. ~Sleeps(t) /\ ~Sleeps(t)' /\ caller.waits
  BY <1>1, ActiveWaits DEF Sleeps, IInv
<1>4. Threads' /\ Endings'  BY <1>1, <1>2, <1>3, ThreadsKeep DEF IInv
<1>5. OneReader'  BY <1>1, <1>2, OneReaderKeeps DEF IInv
<1>6. Errors'  BY <1>1, <1>2, <1>3 DEF IInv, Errors, Fine, Others, Sleeps
<1>7. Ended'  BY <1>1, <1>2, <1>3 DEF IInv, Ended, Fine, Others, Sleeps
<1>8. SomeRing'
  <2>1. PICK w \in Places, k \in 0 .. RingBlocks, gp \in [Places -> Pieces],
             gb \in [Places -> MaybeBuf] : Ring(w, k, gp, gb)
    BY <1>3 DEF IInv, SomeRing
  <2>2. \A u \in Coders : /\ coders'[u].pc = "place" <=> coders[u].pc = "place"
                          /\ coders'[u].pc = "place" => coders'[u] = coders[u]
    BY <1>1 DEF Others
  <2>3. coders[t].pc \notin Placed /\ coders'[t].pc \notin Placed  BY <1>1 DEF Placed
  <2>4. Fine' <=> Fine  BY <1>2 DEF Fine
  <2>5. Fine' => \A u \in Coders : coders'[u].pc = "place" =>
           coders'[u].piece.from = RingEnd(w, k, gp) /\ To(coders'[u].piece) = mtc'.readProcessed
    BY <1>2, <2>1, <2>2, <2>4 DEF Ring, Chain
  <2>6. Fine' => ((\A u \in Coders : coders'[u].pc # "place") => RingEnd(w, k, gp) = mtc'.readProcessed)
    BY <1>2, <2>1, <2>2, <2>4 DEF Ring, Chain
  <2>7. Ring(w, k, gp, gb)'  BY <1>1, <1>2, <2>1, <2>3, <2>4, <2>5, <2>6, QuietRing
  <2> QED  BY <2>7 DEF SomeRing
<1> QED  BY <1>1, <1>2, <1>3, <1>4, <1>5, <1>6, <1>7, <1>8 DEF IInv, InOrder, OkIsWhole

LEMMA ReadErrorStep ==
  ASSUME IInv, NEW t \in Coders, ReadAfterError(t) \/ ReadFails(t)
  PROVE  IInv'
<1>1. /\ TypeInv' /\ mtc'.progressRes # "OK"
      /\ mtc' = [mtc EXCEPT !.readRes = mtc'.readRes, !.progressRes = mtc'.progressRes]
      /\ coders[t].pc = "read" /\ readEvent /\ ~readEvent'
      /\ coders'[t].pc = "place" /\ coders'[t].buf = NoBuf
      /\ Others(t)
  BY ReadError DEF IInv, Others
<1>2. UNCHANGED <<caller, ending, input, finishedEvent, blocksSemaphore, blocks, ReadyBlocks,
                  freeBlocks, bufs, written>>
  BY DEF ReadAfterError, ReadFails, Reading
<1>3. /\ mtc'.blockIndex = mtc.blockIndex /\ mtc'.writeIndex = mtc.writeIndex
      /\ mtc'.numStarted = mtc.numStarted /\ mtc'.numFinished = mtc.numFinished
      /\ mtc'.readProcessed = mtc.readProcessed /\ ~Fine'
  BY <1>1 DEF IInv, TypeInv, MtcRecord, Fine
<1>4. ~Sleeps(t) /\ ~Sleeps(t)' /\ caller.waits
  BY <1>1, ActiveWaits DEF Sleeps, IInv
<1>5. Threads' /\ Endings'  BY <1>1, <1>2, <1>3, <1>4, ThreadsKeep DEF IInv
<1>6. OneReader'  BY <1>1 DEF IInv, OneReader, Others
<1>7. Errors' /\ Ended' /\ InOrder'
  BY <1>1, <1>2, <1>3 DEF IInv, Errors, Ended, InOrder, Fine
<1>8. SomeRing'
  <2>1. PICK w \in Places, k \in 0 .. RingBlocks, gp \in [Places -> Pieces],
             gb \in [Places -> MaybeBuf] : Ring(w, k, gp, gb)
    BY <1>4 DEF IInv, SomeRing
  <2>2. coders[t].pc \notin Placed /\ coders'[t].pc \notin Placed  BY <1>1 DEF Placed
  <2>3. Ring(w, k, gp, gb)'  BY <1>1, <1>2, <1>3, <2>1, <2>2, QuietRing
  <2> QED  BY <2>3 DEF SomeRing
<1> QED  BY <1>1, <1>2, <1>4, <1>5, <1>6, <1>7, <1>8 DEF IInv, OkIsWhole

(* The piece that is read starts where the last one taken ends.              *)
LEMMA ReadStep == ASSUME IInv, NEW t \in Coders, ReadInput(t) PROVE IInv'
<1>1. /\ TypeInv' /\ mtc.progressRes = "OK"
      /\ mtc' = [mtc EXCEPT !.readProcessed = mtc'.readProcessed]
      /\ mtc'.readProcessed <= input.size
      /\ coders[t].pc = "read" /\ readEvent /\ ~readEvent'
      /\ coders'[t].pc = "place" /\ coders'[t].buf = NoBuf /\ coders'[t].res = "OK"
      /\ coders'[t].piece.from = mtc.readProcessed
      /\ To(coders'[t].piece) = mtc'.readProcessed
      /\ coders'[t].finished => mtc'.readProcessed = input.size
      /\ Others(t)
  BY ReadWell DEF IInv, Ended, Others
<1>2. UNCHANGED <<caller, ending, input, finishedEvent, blocksSemaphore, blocks, ReadyBlocks,
                  freeBlocks, bufs, written>> /\ ~mtc.stopReading
  BY DEF ReadInput, Reading
<1>3. /\ mtc'.blockIndex = mtc.blockIndex /\ mtc'.writeIndex = mtc.writeIndex
      /\ mtc'.numStarted = mtc.numStarted /\ mtc'.numFinished = mtc.numFinished
      /\ mtc'.readRes = mtc.readRes /\ mtc'.writeRes = mtc.writeRes
      /\ mtc'.stopReading = mtc.stopReading /\ Fine /\ Fine'
  BY <1>1 DEF IInv, TypeInv, MtcRecord, Fine
<1>4. ~Sleeps(t) /\ ~Sleeps(t)' /\ caller.waits
  BY <1>1, ActiveWaits DEF Sleeps, IInv
<1>5. Threads' /\ Endings'  BY <1>1, <1>2, <1>3, <1>4, ThreadsKeep DEF IInv
<1>6. OneReader'  BY <1>1 DEF IInv, OneReader, Others
<1>7. Errors'  BY <1>1, <1>2, <1>3, <1>4 DEF IInv, Errors, Others, Sleeps
<1>8. mtc.readProcessed = input.size => mtc'.readProcessed = input.size
  <2>1. coders'[t].piece \in Pieces  BY <1>1 DEF TypeInv, CoderRecord
  <2>2. mtc'.readProcessed >= mtc.readProcessed
    <3>1. coders'[t].piece.size \in Nat  BY <2>1 DEF Pieces
    <3>2. mtc.readProcessed \in Nat  BY DEF IInv, TypeInv, MtcRecord
    <3>3. mtc'.readProcessed = mtc.readProcessed + coders'[t].piece.size  BY <1>1 DEF To
    <3> QED  BY <3>1, <3>2, <3>3
  <2> QED  BY <1>1, <2>2 DEF IInv, TypeInv, MtcRecord
<1>9. Ended'
  BY <1>1, <1>2, <1>3, <1>4, <1>8 DEF IInv, Ended, Others, Sleeps
<1>10. SomeRing'
  <2>1. PICK w \in Places, k \in 0 .. RingBlocks, gp \in [Places -> Pieces],
             gb \in [Places -> MaybeBuf] : Ring(w, k, gp, gb)
    BY <1>4 DEF IInv, SomeRing
  <2>2. coders[t].pc \notin Placed /\ coders'[t].pc \notin Placed  BY <1>1 DEF Placed
  <2>3. \A u \in Coders : coders[u].pc # "place"  BY <1>1 DEF IInv, OneReader
  <2>4. RingEnd(w, k, gp) = mtc.readProcessed  BY <1>3, <2>1, <2>3 DEF Ring, Chain
  <2>5. \A u \in Coders : coders'[u].pc = "place" => u = t  BY <2>3 , <1>1 DEF Others
  <2>6. Ring(w, k, gp, gb)'  BY <1>1, <1>2, <1>3, <2>1, <2>2, <2>4, <2>5, QuietRing
  <2> QED  BY <2>6 DEF SomeRing
<1> QED  BY <1>1, <1>2, <1>4, <1>5, <1>6, <1>7, <1>9, <1>10 DEF IInv, InOrder, OkIsWhole

LEMMA CountedAll ==
  ASSUME NEW n \in Nat, NEW D \in SUBSET (1 .. n)
  PROVE  IsFiniteSet(D) /\ Cardinality(D) \in 0 .. n /\ (Cardinality(D) = n => D = 1 .. n)
<1>1. /\ IsFiniteSet(1 .. n)
      /\ Cardinality(1 .. n) = IF 1 > n THEN 0 ELSE n - 1 + 1
  BY FS_Interval
<1>2. Cardinality(1 .. n) = n  BY <1>1
<1>3. IsFiniteSet(D) /\ Cardinality(D) <= n /\ (Cardinality(D) = n => D = 1 .. n)
  BY <1>1, <1>2, FS_Subset
<1>4. Cardinality(D) \in Nat  BY <1>3, FS_CardinalityType
<1> QED  BY <1>3, <1>4

LEMMA FinishStep == ASSUME IInv, NEW t \in Coders, Finish(t) PROVE IInv'
<1>1. /\ TypeInv' /\ Others(t)
      /\ coders[t].pc = "end" /\ coders'[t].pc = "idle"
      /\ mtc' = [mtc EXCEPT !.numFinished = mtc.numFinished + 1]
      /\ \A u \in Coders \ {t} : ending'[u] = ending[u]
      /\ ending'[t].count = mtc.numFinished + 1 /\ ~ending'[t].last /\ ~ending'[t].start
  BY Finishes DEF IInv, Endings
<1>2. UNCHANGED <<caller, input, readEvent, finishedEvent, blocksSemaphore, blocks, ReadyBlocks,
                  freeBlocks, bufs, written, codeFaults>>
  BY DEF Finish
<1>3. /\ mtc'.blockIndex = mtc.blockIndex /\ mtc'.writeIndex = mtc.writeIndex
      /\ mtc'.numStarted = mtc.numStarted /\ mtc'.numFinished = mtc.numFinished + 1
      /\ mtc'.readRes = mtc.readRes /\ mtc'.writeRes = mtc.writeRes
      /\ mtc'.readProcessed = mtc.readProcessed
      /\ mtc'.stopReading = mtc.stopReading /\ (Fine' <=> Fine)
  BY <1>1 DEF IInv, TypeInv, MtcRecord, Fine
<1>4. ~Sleeps(t) /\ Sleeps(t)' /\ caller.waits /\ ~Settled /\ t \in 1 .. mtc.numStarted
  BY <1>1, ActiveWaits DEF Sleeps, IInv
<1>5. 1 .. mtc.numStarted \subseteq Coders
  BY RingSize DEF IInv, Threads, Coders, TypeInv, MtcRecord
<1>6. Threads' /\ Endings'
  <2>1. Done' = Done \cup {t} /\ t \notin Done
    BY <1>1, <1>3, <1>4, <1>5 DEF Done, Others
  <2>2. mtc.numFinished = Cardinality(Done)  BY <1>4 DEF IInv, Threads
  <2>3. IsFiniteSet(Done)
    BY CountedAll DEF IInv, TypeInv, MtcRecord, Done
  <2>4. Cardinality(Done') = Cardinality(Done) + 1  BY <2>1, <2>3, FS_AddElement
  <2>5. mtc'.numFinished = Cardinality(Done)'  BY <1>3, <2>2, <2>4
  <2>6. ~Settled'  BY <1>2, <1>4 DEF Settled
  <2>7. \A u \in Coders : u > mtc'.numStarted => Sleeps(u)'
    BY <1>1, <1>3 DEF IInv, Threads, Others, Sleeps
  <2>8. \A u \in 1 .. mtc'.numStarted : coders'[u].pc # "off"
    BY <1>1, <1>3, <1>4, <1>5 DEF IInv, Threads, Others
  <2>9. Threads'
    BY <1>2, <1>3, <1>4, <2>5, <2>6, <2>7, <2>8 DEF IInv, Threads, Settled
  <2>10. mtc.numFinished \in Nat /\ ending[t].count = 0
    BY <1>1 DEF IInv, TypeInv, MtcRecord, Endings, Open
  <2>11. \A u \in Coders \ {t} : ending[u].count <= mtc.numFinished /\ ending[u].count \in Nat
    BY <2>10 DEF IInv, Endings, Open, TypeInv, EndingRecord
  <2>12. ASSUME NEW u \in Coders, ending'[u].count # 0 PROVE Open(u)'
    <3>1. CASE u = t  BY <1>1, <1>3, <1>4, <2>6, <2>10, <2>11, <3>1 DEF Open
    <3>2. CASE u # t
      <4>1. Open(u) /\ ending'[u] = ending[u] /\ coders'[u] = coders[u]
        BY <1>1, <2>12, <3>2 DEF IInv, Endings, Others
      <4>2. ending[u].count # mtc.numFinished + 1  BY <2>10, <2>11, <3>2
      <4>3. \A v \in Coders : ending'[v].count = ending'[u].count => v = u
        BY <1>1, <4>1, <4>2 DEF Open
      <4>4. ending'[u].count <= mtc'.numFinished  BY <1>3, <2>10, <2>11, <3>2, <4>1
      <4> QED  BY <1>3, <2>6, <4>1, <4>3, <4>4 DEF Open
    <3> QED  BY <3>1, <3>2
  <2>13. \A u \in Coders : ~ending'[u].start
                           /\ (ending'[u].last => ending'[u].count # 0 /\ ending'[u].count = mtc'.numStarted)
    BY <1>1, <1>3 DEF IInv, Endings
  <2> QED  BY <2>9, <2>12, <2>13 DEF Endings
<1>7. OneReader'  BY <1>1, <1>2, OneReaderKeeps DEF IInv
<1>8. Errors'  BY <1>1, <1>2, <1>3, <1>4 DEF IInv, Errors, Others, Sleeps
<1>9. Ended'
  <2>1. Fine => mtc.readProcessed = input.size  BY <1>1, <1>4 DEF IInv, Ended
  <2> QED  BY <1>2, <1>3, <2>1 DEF IInv, Ended
<1>10. SomeRing'
  <2>1. PICK w \in Places, k \in 0 .. RingBlocks, gp \in [Places -> Pieces],
             gb \in [Places -> MaybeBuf] : Ring(w, k, gp, gb)
    BY <1>4 DEF IInv, SomeRing
  <2>2. coders[t].pc \notin Placed /\ coders'[t].pc \notin Placed  BY <1>1 DEF Placed
  <2>3. \A u \in Coders : /\ coders'[u].pc = "place" <=> coders[u].pc = "place"
                          /\ coders'[u].pc = "place" => coders'[u] = coders[u]
    BY <1>1 DEF Others
  <2>4. Fine' => \A u \in Coders : coders'[u].pc = "place" =>
           coders'[u].piece.from = RingEnd(w, k, gp) /\ To(coders'[u].piece) = mtc'.readProcessed
    BY <1>3, <2>1, <2>3 DEF Ring, Chain
  <2>5. Fine' => ((\A u \in Coders : coders'[u].pc # "place") => RingEnd(w, k, gp) = mtc'.readProcessed)
    BY <1>3, <2>1, <2>3 DEF Ring, Chain
  <2>6. Ring(w, k, gp, gb)'  BY <1>1, <1>2, <1>3, <2>1, <2>2, <2>4, <2>5, QuietRing
  <2> QED  BY <2>6 DEF SomeRing
<1> QED  BY <1>1, <1>2, <1>3, <1>4, <1>6, <1>7, <1>8, <1>9, <1>10 DEF IInv, InOrder, OkIsWhole, Fine

(* A block takes the place behind the last one.                              *)
LEMMA PlaceStep == ASSUME IInv, NEW t \in Coders, TakePlace(t) PROVE IInv'
<1> DEFINE p == mtc.blockIndex
           c == coders[t]
<1>1. /\ TypeInv' /\ ending' = ending
      /\ mtc' = [mtc EXCEPT !.blockIndex = Next1(mtc.blockIndex),
                            !.stopReading = mtc'.stopReading,
                            !.numStarted = mtc'.numStarted,
                            !.progressRes = mtc'.progressRes]
      /\ coders[t].pc = "place"
      /\ coders'[t].pc \in {"buffer", "publish"} /\ coders'[t].bi = p
      /\ coders'[t].buf = c.buf /\ coders'[t].piece = c.piece
      /\ Fine' => /\ Fine /\ coders'[t].pc = "buffer" /\ coders'[t].res = "OK"
                  /\ coders'[t].finished = c.finished
                  /\ mtc'.stopReading => mtc.stopReading \/ c.finished
      /\ StartsNone(t) \/ \E n \in Coders : Wakes(t, n)
  BY TakesPlace DEF IInv
<1>2. /\ blocksSemaphore > 0 /\ blocksSemaphore' = blocksSemaphore - 1 /\ readEvent'
      /\ UNCHANGED <<caller, input, finishedEvent, blocks, ReadyBlocks, freeBlocks,
                     bufs, written>>
  BY DEF TakePlace
<1>3. /\ mtc'.blockIndex = Next1(p) /\ mtc'.writeIndex = mtc.writeIndex
      /\ mtc'.numFinished = mtc.numFinished /\ mtc'.readProcessed = mtc.readProcessed
      /\ mtc'.readRes = mtc.readRes /\ mtc'.writeRes = mtc.writeRes
  BY <1>1 DEF IInv, TypeInv, MtcRecord
<1>4. ~Sleeps(t) /\ ~Sleeps(t)' /\ caller.waits /\ ~Settled /\ t \in 1 .. mtc.numStarted
  BY <1>1, ActiveWaits DEF Sleeps, IInv
<1> DEFINE Kept(u) == coders'[u] = coders[u]
           Woken(u) == /\ coders[u].pc \in {"off", "idle"} /\ coders'[u].pc = "read"
                       /\ coders'[u].res = "OK" /\ ~coders'[u].finished
<1>5. \A u \in Coders \ {t} : Kept(u) \/ Woken(u)
  <2>1. CASE StartsNone(t)  BY <2>1 DEF StartsNone
  <2>2. CASE \E n \in Coders : Wakes(t, n)
    <3>1. PICK n \in Coders : Wakes(t, n)  BY <2>2
    <3>2. n > mtc.numStarted  BY <3>1 DEF Wakes, IInv, TypeInv, MtcRecord
    <3>3. Sleeps(n)  BY <3>2 DEF IInv, Threads
    <3>4. Woken(n)  BY <3>1, <3>3 DEF Wakes, Asleep, Sleeps
    <3>5. \A u \in Coders \ {t, n} : Kept(u)  BY <3>1 DEF Wakes
    <3> QED  BY <3>4, <3>5
  <2> QED  BY <1>1, <2>1, <2>2
<1>6. Threads' /\ Endings'
  <2>1. CASE StartsNone(t)
    BY <1>1, <1>2, <1>3, <1>4, <2>1, ThreadsKeep DEF StartsNone, Others, IInv
  <2>2. ASSUME NEW n \in Coders, Wakes(t, n) PROVE Threads' /\ Endings'
    <3>1. /\ n = mtc.numStarted + 1 /\ mtc'.numStarted = n /\ n <= ThreadsMax
          /\ mtc.numStarted \in Nat /\ n # t /\ coders'[n].pc = "read"
          /\ \A u \in Coders \ {t, n} : coders'[u] = coders[u]
      BY <2>2, RingSize DEF Wakes, IInv, TypeInv, MtcRecord, Coders, Asleep
    <3>2. 1 .. n = (1 .. mtc.numStarted) \cup {n} /\ n \notin 1 .. mtc.numStarted
      BY <3>1
    <3>3. 1 .. n \subseteq Coders  BY <3>1, RingSize DEF Coders
    <3>4. Done' = Done  BY <1>4, <3>1, <3>2, <3>3 DEF Done, Sleeps
    <3>5. \A u \in Coders : u > n => Sleeps(u)'
      BY <1>4, <3>1 DEF IInv, Threads, Sleeps, Coders
    <3>6. \A u \in 1 .. n : coders'[u].pc # "off"
      BY <1>4, <3>1, <3>2, <3>3 DEF IInv, Threads, Sleeps
    <3>7. ~Settled'  BY <1>2, <1>4 DEF Settled
    <3>8. Threads'
      BY <1>2, <1>3, <1>4, <3>1, <3>4, <3>5, <3>6, <3>7 DEF IInv, Threads, Settled
    <3>9. mtc.numFinished # mtc.numStarted /\ mtc.numFinished <= mtc.numStarted
      <4>1. mtc.numFinished = Cardinality(Done) /\ t \notin Done
        BY <1>1, <1>4 DEF IInv, Threads, Done
      <4>2. Cardinality(Done) <= mtc.numStarted /\ (Cardinality(Done) = mtc.numStarted => Done = 1 .. mtc.numStarted)
        <5>1. Done \in SUBSET (1 .. mtc.numStarted)  BY DEF Done
        <5> QED  BY <3>1, <5>1, CountedAll
      <4> QED  BY <1>4, <4>1, <4>2
    <3>10. \A u \in Coders : ending[u].count # 0 => u # n /\ u # t /\ coders'[u] = coders[u]
      BY <1>1, <3>1 DEF IInv, Endings, Open
    <3>11. \A u \in Coders : ~ending[u].last
      BY <3>1, <3>9 DEF IInv, TypeInv, EndingRecord, MtcRecord, Endings, Open
    <3>12. ASSUME NEW u \in Coders, ending[u].count # 0 PROVE Open(u)'
      <4>1. Open(u) /\ coders'[u] = coders[u]  BY <3>10, <3>12 DEF IInv, Endings
      <4>2. u <= n  BY <3>1, <4>1 DEF Open, Coders
      <4> QED  BY <1>1, <1>3, <3>1, <3>7, <4>1, <4>2 DEF Open
    <3>13. Endings'  BY <1>1, <3>11, <3>12 DEF IInv, Endings
    <3> QED  BY <3>8, <3>13
  <2> QED  BY <1>1, <2>1, <2>2
<1>7. \A u \in Coders : coders'[u].pc # "place"
  BY <1>1, <1>5 DEF IInv, OneReader
<1>8. OneReader'  BY <1>7 DEF OneReader
<1>9. Errors'
  BY <1>1, <1>2, <1>3, <1>4, <1>5 DEF IInv, Errors, Fine, Sleeps
<1>10. Ended'
  <2>1. Fine' => (mtc'.stopReading => mtc.readProcessed = input.size)
    BY <1>1, <1>4 DEF IInv, Ended, Fine
  <2>2. Fine' => \A u \in Coders : ~Sleeps(u)' /\ (coders'[u].finished \/ coders'[u].pc = "end")
                                 => mtc.readProcessed = input.size
    BY <1>1, <1>4, <1>5 DEF IInv, Ended, Fine, Sleeps
  <2> QED  BY <1>1, <1>2, <1>3, <1>4, <2>1, <2>2 DEF IInv, Ended, Fine
<1>11. SomeRing'
  <2>1. PICK w \in Places, k \in 0 .. RingBlocks, gp \in [Places -> Pieces],
             gb \in [Places -> MaybeBuf] : Ring(w, k, gp, gb)
    BY <1>4 DEF IInv, SomeRing
  <2>2. k \in 0 .. (RingBlocks - 1) /\ k + 1 \in 0 .. RingBlocks /\ p = Slot(w, k)
    BY <1>2, <2>1, RingSize DEF Ring
  <2>3. /\ p \notin Taken(w, k) /\ Taken(w, k + 1) = Taken(w, k) \cup {p} /\ p \in Places
        /\ Next1(p) = Slot(w, k + 1)
    BY <2>2, TakenMore, SlotNext, SlotIn, RingSize
  <2>4. c.piece \in Pieces /\ c.buf = NoBuf
    BY <1>1 DEF IInv, TypeInv, CoderRecord, OneReader
  <2>5. PICK gq \in [Places -> Pieces] :
          gq[p] = c.piece /\ \A i \in Taken(w, k) : gq[i] = gp[i]
    <3>1. [gp EXCEPT ![p] = c.piece] \in [Places -> Pieces]  BY <2>4
    <3>2. [gp EXCEPT ![p] = c.piece][p] = c.piece  BY <2>3
    <3>3. \A i \in Taken(w, k) : i # p /\ i \in Places  BY <2>2, <2>3, TakenMore
    <3> HIDE DEF c, p
    <3>4. \A i \in Taken(w, k) : [gp EXCEPT ![p] = c.piece][i] = gp[i]  BY <3>3
    <3> QED  BY <3>1, <3>2, <3>4
  <2>6. Owners(w, k, gb) /\ Writer(w) /\ Buffers(w, k, gb)  BY <2>1 DEF Ring
  <2>7. gb[p] = NoBuf  BY <2>3, <2>6 DEF Buffers, WithBuf
  <2>8. \A u \in Coders \ {t} : coders'[u].pc \in Placed \/ coders[u].pc \in Placed
                                => coders'[u] = coders[u]
    BY <1>5 DEF Placed
  <2>9. Owners(w, k + 1, gb)'
    <3>1. coders[t].pc \notin Placed /\ coders'[t].pc \in Placed /\ coders'[t].pc # "code"
      BY <1>1 DEF Placed
    <3>2. ReadyBlocks \subseteq Taken(w, k)  BY <2>6 DEF Owners
    <3>3. ASSUME NEW u \in Coders, coders'[u].pc \in Placed
          PROVE  /\ coders'[u].bi \in Taken(w, k + 1) \ ReadyBlocks
                 /\ coders'[u].buf = gb[coders'[u].bi]
                 /\ coders'[u].pc = "buffer" => coders'[u].buf = NoBuf
                 /\ \A v \in Coders : coders'[v].pc \in Placed /\ coders'[v].bi = coders'[u].bi => v = u
      <4>1. CASE u = t
        BY <1>1, <2>3, <2>4, <2>6, <2>7, <2>8, <3>2, <4>1 DEF Owners
      <4>2. CASE u # t
        BY <1>1, <2>3, <2>6, <2>8, <3>3, <4>2 DEF Owners
      <4> QED  BY <4>1, <4>2
    <3>4. \A i \in ReadyBlocks : i \in Taken(w, k + 1) /\ i # w /\ blocks[i].buf = gb[i]
      BY <2>3, <2>6 DEF Owners
    <3>5. \A i \in Taken(w, k + 1) : \/ i \in ReadyBlocks
                                     \/ \E u \in Coders : coders'[u].pc \in Placed /\ coders'[u].bi = i
      BY <1>1, <2>3, <2>6, <2>8, <3>1 DEF Owners
    <3> QED  BY <1>2, <3>3, <3>4, <3>5 DEF Owners
  <2>10. Writer(w)'
    <3>1. coders[t].pc \notin Writing /\ coders'[t].pc \notin Writing  BY <1>1 DEF Writing
    <3>2. \A u \in Coders \ {t} : coders'[u].pc \in Writing \/ coders[u].pc \in Writing
                                => coders'[u] = coders[u]
      BY <2>8 DEF Placed, Writing
    <3> QED  BY <1>3, <2>6, <3>1, <3>2 DEF Writer
  <2>11. Buffers(w, k + 1, gb)'
    BY <1>2, <2>3, <2>6 DEF Buffers
  <2>12. ASSUME Fine' PROVE Contents(gq, gb)'
    <3>1. Contents(gp, gb) /\ coders'[t].pc = "buffer"  BY <1>1, <2>1, <2>12 DEF Ring
    <3>2. \A u \in Coders \ {t} : coders'[u].pc \in Placed =>
            coders'[u] = coders[u] /\ gq[coders[u].bi] = gp[coders[u].bi]
      BY <2>5, <2>6, <2>8 DEF Owners
    <3>3. \A i \in ReadyBlocks : gq[i] = gp[i]  BY <2>5, <2>6 DEF Owners
    <3>4. ASSUME NEW u \in Coders
          PROVE  /\ coders'[u].pc \in {"buffer", "code"} => coders'[u].piece = gq[coders'[u].bi]
                 /\ coders'[u].pc \in {"code", "publish", "write", "next"} => coders'[u].buf # NoBuf
                 /\ coders'[u].pc \in {"publish", "write", "next"} =>
                      bufs'[coders'[u].buf] = gq[coders'[u].bi]
      <4>1. CASE u = t  BY <1>1, <2>5, <3>1, <4>1
      <4>2. CASE u # t  BY <1>2, <3>1, <3>2, <4>2 DEF Contents, Placed
      <4> QED  BY <4>1, <4>2
    <3>5. \A i \in ReadyBlocks : gb[i] # NoBuf /\ bufs[gb[i]] = gq[i]
      BY <3>1, <3>3 DEF Contents
    <3> QED  BY <1>2, <3>4, <3>5 DEF Contents
  <2>13. ASSUME Fine' PROVE Chain(w, k + 1, gq)'
    <3>1. /\ Chain(w, k, gp) /\ c.piece.from = RingEnd(w, k, gp)
          /\ To(c.piece) = mtc.readProcessed
      BY <1>1, <2>1, <2>13 DEF Ring, Chain
    <3>2. \A j \in 0 .. (k - 1) : Slot(w, j) \in Taken(w, k)  BY DEF Taken
    <3>3. Slot(w, 0) = w  BY SlotIn, RingSize
    <3>4. ASSUME NEW j \in 0 .. ((k + 1) - 2)
          PROVE  To(gq[Slot(w, j)]) = gq[Slot(w, j + 1)].from
      <4>1. CASE j = k - 1
        <5>1. j + 1 = k /\ k > 0 /\ j \in 0 .. (k - 1)  BY <4>1, <2>2, RingSize
        <5>2. RingEnd(w, k, gp) = To(gp[Slot(w, j)])  BY <4>1, <5>1, <2>2, RingSize DEF RingEnd
        <5> QED  BY <2>2, <2>5, <3>1, <3>2, <5>1, <5>2
      <4>2. CASE j # k - 1
        <5>1. j \in 0 .. (k - 2) /\ j \in 0 .. (k - 1) /\ j + 1 \in 0 .. (k - 1)
          BY <4>2, <2>2, RingSize
        <5> QED  BY <2>5, <3>1, <3>2, <5>1 DEF Chain
      <4> QED  BY <4>1, <4>2
    <3>5. (\E u \in Coders : coders'[u].pc = "next") <=> \E u \in Coders : coders[u].pc = "next"
      BY <1>1, <1>5
    <3>6. EndOf(written) = IF \E u \in Coders : coders[u].pc = "next"
                           THEN To(gq[w]) ELSE gq[w].from
      <4>1. CASE k = 0
        <5>1. Taken(w, k) = {}  BY <4>1 DEF Taken
        <5>2. ~ \E u \in Coders : coders[u].pc = "next"
          BY <2>6, <5>1 DEF Owners, Placed
        <5>3. p = w /\ EndOf(written) = c.piece.from  BY <2>2, <3>1, <3>3, <4>1 DEF RingEnd
        <5> QED  BY <2>5, <5>2, <5>3
      <4>2. CASE k # 0
        <5>1. w \in Taken(w, k) /\ k > 0  BY <2>2, <3>2, <3>3, <4>2, RingSize
        <5> QED  BY <2>5, <3>1, <5>1 DEF Chain
      <4> QED  BY <4>1, <4>2
    <3>7. RingEnd(w, k + 1, gq)' = mtc'.readProcessed
      <4>1. (k + 1) - 1 = k /\ k + 1 # 0  BY <2>2, RingSize
      <4>2. RingEnd(w, k + 1, gq)' = To(gq[p])  BY <2>2, <4>1 DEF RingEnd
      <4> QED  BY <1>3, <2>5, <3>1, <4>2
    <3>8. (EndOf(written))' = EndOf(written) /\ k + 1 > 0  BY <1>2, <2>2, RingSize DEF EndOf
    <3> QED  BY <1>7, <3>4, <3>5, <3>6, <3>7, <3>8 DEF Chain
  <2>14. blocksSemaphore' = RingBlocks - (k + 1) /\ mtc'.blockIndex = Slot(w, k + 1)
    BY <1>2, <1>3, <2>1, <2>2, <2>3, RingSize DEF Ring
  <2>15. Ring(w, k + 1, gq, gb)'  BY <2>9, <2>10, <2>11, <2>12, <2>13, <2>14 DEF Ring
  <2> QED  BY <2>2, <2>5, <2>15 DEF SomeRing
<1>12. InOrder'  BY <1>1, <1>2 DEF IInv, InOrder, Fine
<1> QED  BY <1>1, <1>2, <1>4, <1>6, <1>8, <1>9, <1>10, <1>11, <1>12 DEF IInv, OkIsWhole

(* The thread takes a free buffer: of its place from now on.                 *)
LEMMA BufferStep == ASSUME IInv, NEW t \in Coders, TakeBuffer(t) PROVE IInv'
<1>1. ~Sleeps(t) /\ caller.waits /\ coders[t].pc = "buffer"
  BY ActiveWaits DEF TakeBuffer, At, Sleeps, IInv
<1>2. PICK w \in Places, k \in 0 .. RingBlocks, gp \in [Places -> Pieces],
           gb \in [Places -> MaybeBuf] : Ring(w, k, gp, gb)
  BY <1>1 DEF IInv, SomeRing
<1>3. Owners(w, k, gb) /\ Writer(w) /\ Buffers(w, k, gb)  BY <1>2 DEF Ring
<1>4. freeBlocks # << >>  BY <1>1, <1>3, BufferLeft DEF IInv
<1>5. /\ TypeInv' /\ Others(t) /\ coders'[t].pc = "code"
      /\ coders'[t].bi = coders[t].bi /\ coders'[t].buf = freeBlocks[1]
      /\ coders'[t].res = coders[t].res /\ coders'[t].finished = coders[t].finished
      /\ coders'[t].piece = coders[t].piece
      /\ freeBlocks' = Tail(freeBlocks) /\ freeBlocks[1] \in Places
  BY <1>4, TakesBuffer DEF IInv
<1>6. UNCHANGED <<caller, ending, input, readEvent, finishedEvent, blocksSemaphore, mtc,
                  blocks, ReadyBlocks, bufs, written, codeFaults>>
  BY DEF TakeBuffer
<1>7. ~Sleeps(t)'  BY <1>5 DEF Sleeps
<1>8. Threads' /\ Endings'  BY <1>1, <1>5, <1>6, <1>7, ThreadsKeep DEF IInv
<1>9. OneReader'  BY <1>5, <1>6, OneReaderKeeps DEF IInv
<1>10. Errors'  BY <1>1, <1>5, <1>6 DEF IInv, Errors, Fine, Others, Sleeps
<1>11. Ended'  BY <1>1, <1>5, <1>6 DEF IInv, Ended, Fine, Others, Sleeps
<1>12. PICK b \in Places : b = coders[t].bi
  BY DEF IInv, TypeInv, CoderRecord
<1>13. PICK n \in Places : n = freeBlocks[1]  BY <1>5
<1>14. PICK gb2 \in [Places -> MaybeBuf] : gb2 = [gb EXCEPT ![b] = n]
  BY DEF MaybeBuf
<1>15. gb2[b] = n /\ n # NoBuf /\ \A i \in Places \ {b} : gb2[i] = gb[i]
  <2>1. n # NoBuf  BY RingSize DEF Places, NoBuf
  <2> QED  BY <1>14, <2>1
<1>16. b \in Taken(w, k) /\ b \notin ReadyBlocks /\ gb[b] = NoBuf
       /\ Taken(w, k) \subseteq Places
  <2>1. Taken(w, k) \subseteq Places  BY SlotIn, RingSize DEF Taken
  <2> QED  BY <1>1, <1>3, <1>12, <2>1 DEF Owners, Placed
<1>17. \A u \in Coders : coders[u].pc \in Placed /\ u # t => coders[u].bi # b
  BY <1>1, <1>3, <1>12 DEF Owners, Placed
<1>18. Owners(w, k, gb2)'
  <2>1. coders[t].pc \in Placed /\ coders'[t].pc \in Placed  BY <1>1, <1>5 DEF Placed
  <2>2. \A u \in Coders : /\ coders'[u].pc \in Placed <=> coders[u].pc \in Placed
                          /\ coders'[u].bi = coders[u].bi
                          /\ u # t => coders'[u] = coders[u]
    BY <1>5, <2>1 DEF Others
  <2>3. \A u \in Coders : coders'[u].pc \in Placed =>
          /\ coders'[u].bi \in Taken(w, k) \ ReadyBlocks
          /\ coders'[u].buf = gb2[coders'[u].bi]
          /\ coders'[u].pc = "buffer" => coders'[u].buf = NoBuf
    <3>1. ASSUME NEW u \in Coders, coders'[u].pc \in Placed, u # t
          PROVE  /\ coders'[u].bi \in Taken(w, k) \ ReadyBlocks
                 /\ coders'[u].buf = gb2[coders'[u].bi]
                 /\ coders'[u].pc = "buffer" => coders'[u].buf = NoBuf
      BY <1>3, <1>15, <1>16, <1>17, <2>2, <3>1 DEF Owners
    <3>2. /\ coders'[t].bi \in Taken(w, k) \ ReadyBlocks
          /\ coders'[t].buf = gb2[coders'[t].bi] /\ coders'[t].pc # "buffer"
      BY <1>5, <1>12, <1>13, <1>15, <1>16
    <3> QED  BY <3>1, <3>2
  <2>4. \A i \in ReadyBlocks : i \in Taken(w, k) /\ i # w /\ blocks[i].buf = gb2[i]
    BY <1>3, <1>15, <1>16 DEF Owners
  <2>5. \A i \in Taken(w, k) : \/ i \in ReadyBlocks
                               \/ \E u \in Coders : coders'[u].pc \in Placed /\ coders'[u].bi = i
    BY <1>3, <2>2 DEF Owners
  <2>6. \A u, v \in Coders : coders'[u].pc \in Placed /\ coders'[v].pc \in Placed
                             /\ coders'[v].bi = coders'[u].bi => v = u
    BY <1>3, <2>2 DEF Owners
  <2> QED  BY <1>6, <2>3, <2>4, <2>5, <2>6 DEF Owners
<1>19. Writer(w)'
  <2>1. coders[t].pc \notin Writing /\ coders'[t].pc \notin Writing  BY <1>1, <1>5 DEF Writing
  <2> QED  BY <1>3, <1>5, <1>6, <2>1, WriterKeeps
<1>20. Buffers(w, k, gb2)'
  <2>1. WithBuf(gb2) = WithBuf(gb) \cup {b} /\ b \notin WithBuf(gb)
    BY <1>15, <1>16 DEF WithBuf
  <2>2. \A i \in WithBuf(gb) : gb2[i] = gb[i] /\ gb[i] # n
    <3>1. 1 \in 1 .. Len(freeBlocks)  BY <1>4 DEF IInv, TypeInv
    <3> QED  BY <1>3, <1>13, <1>15, <1>16, <3>1 DEF Buffers, WithBuf
  <2>3. /\ Len(freeBlocks') = Len(freeBlocks) - 1
        /\ \A j \in 1 .. Len(freeBlocks') :
             /\ j + 1 \in 1 .. Len(freeBlocks) /\ freeBlocks'[j] = freeBlocks[j + 1]
    BY <1>4, <1>5 DEF IInv, TypeInv
  <2>4. \A i, j \in WithBuf(gb2) : gb2[i] = gb2[j] => i = j
    BY <1>3, <1>15, <2>1, <2>2 DEF Buffers
  <2>5. \A j \in 1 .. Len(freeBlocks') : \A i \in WithBuf(gb2) : freeBlocks'[j] # gb2[i]
    <3>1. \A j \in 1 .. Len(freeBlocks') : freeBlocks'[j] # n
      <4>1. 1 \in 1 .. Len(freeBlocks) /\ Len(freeBlocks) \in Nat  BY <1>4 DEF IInv, TypeInv
      <4>2. \A j \in 1 .. Len(freeBlocks') : j + 1 # 1  BY <2>3, <4>1
      <4> QED  BY <1>3, <1>13, <2>3, <4>1, <4>2 DEF Buffers
    <3> QED  BY <1>3, <1>15, <2>1, <2>2, <2>3, <3>1 DEF Buffers
  <2>6. \A i, j \in 1 .. Len(freeBlocks') : freeBlocks'[i] = freeBlocks'[j] => i = j
    BY <1>3, <2>3 DEF Buffers
  <2>7. Len(freeBlocks') + Cardinality(WithBuf(gb2)) = RingBlocks
    <3>1. IsFiniteSet(WithBuf(gb))
      BY PlacesCount, FS_Subset DEF WithBuf
    <3>2. Cardinality(WithBuf(gb2)) = Cardinality(WithBuf(gb)) + 1
          /\ Cardinality(WithBuf(gb)) \in Nat
      BY <2>1, <3>1, FS_AddElement, FS_CardinalityType
    <3>3. Len(freeBlocks) \in Nat  BY DEF IInv, TypeInv
    <3> QED  BY <1>3, <2>3, <3>2, <3>3, RingSize DEF Buffers
  <2>8. WithBuf(gb2) \subseteq Taken(w, k)  BY <1>3, <1>16, <2>1 DEF Buffers
  <2> QED  BY <2>4, <2>5, <2>6, <2>7, <2>8 DEF Buffers
<1>21. ASSUME Fine' PROVE Contents(gp, gb2)'
  <2>1. Contents(gp, gb)  BY <1>2, <1>6, <1>21 DEF Ring, Fine
  <2>2. \A i \in ReadyBlocks : gb2[i] # NoBuf /\ bufs[gb2[i]] = gp[i]
    <3>1. ReadyBlocks \subseteq Places \ {b}  BY <1>16 DEF IInv, TypeInv
    <3> QED  BY <1>15, <2>1, <3>1 DEF Contents
  <2>3. \A u \in Coders \ {t} : coders'[u] = coders[u]  BY <1>5 DEF Others
  <2>4. coders'[t].buf # NoBuf /\ coders'[t].piece = gp[coders'[t].bi]
    BY <1>1, <1>5, <1>13, <1>15, <2>1 DEF Contents
  <2> QED  BY <1>5, <1>6, <2>1, <2>2, <2>3, <2>4 DEF Contents
<1>22. ASSUME Fine' PROVE Chain(w, k, gp)'
  <2>1. Chain(w, k, gp)  BY <1>2, <1>6, <1>22 DEF Ring, Fine
  <2>2. \A u \in Coders : /\ coders'[u].pc = "place" <=> coders[u].pc = "place"
                          /\ coders'[u].pc = "next" <=> coders[u].pc = "next"
                          /\ coders'[u].piece = coders[u].piece
    BY <1>1, <1>5 DEF Others
  <2>3. RingEnd(w, k, gp)' = RingEnd(w, k, gp) /\ (EndOf(written))' = EndOf(written)
    BY <1>6 DEF RingEnd, EndOf
  <2> QED  BY <1>6, <2>1, <2>2, <2>3 DEF Chain
<1>23. Ring(w, k, gp, gb2)'
  BY <1>2, <1>6, <1>18, <1>19, <1>20, <1>21, <1>22 DEF Ring
<1>24. SomeRing'  BY <1>23 DEF SomeRing
<1> QED  BY <1>5, <1>6, <1>8, <1>9, <1>10, <1>11, <1>24 DEF IInv, InOrder, OkIsWhole, Fine

(* The code of a piece goes to a buffer nobody else has.                     *)
LEMMA CodeStep == ASSUME IInv, NEW t \in Coders, CodeBlock(t) PROVE IInv'
<1>1. /\ TypeInv' /\ Others(t) /\ SameBlock(t)
      /\ coders[t].pc = "code" /\ coders'[t].pc = "publish"
      /\ mtc' = [mtc EXCEPT !.progressRes = mtc'.progressRes]
      /\ Fine' => /\ mtc' = mtc /\ coders'[t].res = coders[t].res
                  /\ bufs' = [bufs EXCEPT ![coders[t].buf] = coders[t].piece]
  BY Codes DEF IInv
<1>2. UNCHANGED <<caller, ending, input, readEvent, finishedEvent, blocksSemaphore, blocks,
                  ReadyBlocks, freeBlocks, written>>
  BY DEF CodeBlock
<1>3. /\ mtc'.blockIndex = mtc.blockIndex /\ mtc'.writeIndex = mtc.writeIndex
      /\ mtc'.numStarted = mtc.numStarted /\ mtc'.numFinished = mtc.numFinished
      /\ mtc'.readProcessed = mtc.readProcessed /\ (Fine' => Fine)
  BY <1>1 DEF IInv, TypeInv, MtcRecord, Fine
<1>4. ~Sleeps(t) /\ ~Sleeps(t)' /\ caller.waits
  BY <1>1, ActiveWaits DEF Sleeps, IInv
<1>5. Threads' /\ Endings'  BY <1>1, <1>2, <1>3, <1>4, ThreadsKeep DEF IInv
<1>6. OneReader'  BY <1>1, <1>2, OneReaderKeeps DEF IInv
<1>7. Errors'  BY <1>1, <1>2, <1>3, <1>4 DEF IInv, Errors, Fine, Others, Sleeps
<1>8. Ended'  BY <1>1, <1>2, <1>3, <1>4 DEF IInv, Ended, Fine, Others, Sleeps, SameBlock
<1>9. PICK w \in Places, k \in 0 .. RingBlocks, gp \in [Places -> Pieces],
           gb \in [Places -> MaybeBuf] : Ring(w, k, gp, gb)
  BY <1>4 DEF IInv, SomeRing
<1>10. Owners(w, k, gb)'
  BY <1>1, <1>2, <1>9, OwnersKeep DEF Ring, SameBlock, Placed
<1>11. Writer(w)'
  BY <1>1, <1>3, <1>9, WriterKeeps DEF Ring, SameBlock, Writing
<1>12. Buffers(w, k, gb)'  BY <1>2, <1>9, BuffersKeep DEF Ring
<1>13. ASSUME Fine' PROVE Contents(gp, gb)'
  <2>1. Contents(gp, gb) /\ Owners(w, k, gb) /\ Buffers(w, k, gb)
    BY <1>3, <1>9, <1>13 DEF Ring
  <2> DEFINE b == coders[t].bi
             n == coders[t].buf
             p == coders[t].piece
  <2>2. b \in Places /\ n = gb[b] /\ n # NoBuf /\ b \in WithBuf(gb) /\ n \in Places
        /\ p = gp[b] /\ b \notin ReadyBlocks
    BY <1>1, <2>1 DEF IInv, TypeInv, CoderRecord, Owners, Contents, Placed, WithBuf, MaybeBuf
  <2>3. bufs' = [bufs EXCEPT ![n] = p]  BY <1>1, <1>13
  <2> HIDE DEF n, p
  <2>4. bufs'[n] = p /\ \A i \in Places \ {n} : bufs'[i] = bufs[i]
    BY <2>2, <2>3 DEF IInv, TypeInv
  <2>5. \A i \in Places : i # b /\ gb[i] # NoBuf => bufs'[gb[i]] = bufs[gb[i]]
    <3>1. ASSUME NEW i \in Places, i # b, gb[i] # NoBuf PROVE gb[i] \in Places \ {n}
      BY <2>1, <2>2, <3>1 DEF Buffers, WithBuf, MaybeBuf
    <3> QED  BY <2>4, <3>1
  <2>6. ASSUME NEW u \in Coders, u # t
        PROVE  /\ coders'[u] = coders[u]
               /\ coders[u].pc \in {"publish", "write", "next"} =>
                    bufs'[coders[u].buf] = gp[coders[u].bi]
    <3>1. coders'[u] = coders[u]  BY <1>1, <2>6 DEF Others
    <3>2. CASE coders[u].pc \in {"publish", "write", "next"}
      <4>1. /\ coders[u].bi \in Places /\ coders[u].bi # b
            /\ coders[u].buf = gb[coders[u].bi] /\ coders[u].buf # NoBuf
            /\ bufs[coders[u].buf] = gp[coders[u].bi]
        BY <1>1, <2>1, <2>6, <3>2 DEF IInv, TypeInv, CoderRecord, Owners, Contents, Placed
      <4> QED  BY <2>5, <3>1, <4>1
    <3> QED  BY <3>1, <3>2
  <2>7. \A i \in ReadyBlocks : gb[i] # NoBuf /\ bufs'[gb[i]] = gp[i]
    BY <2>1, <2>2, <2>5 DEF Contents, IInv, TypeInv
  <2>8. coders'[t].buf = n /\ coders'[t].bi = b  BY <1>1 DEF SameBlock, n
  <2>9. ASSUME NEW u \in Coders
        PROVE  /\ coders'[u].pc \in {"buffer", "code"} => coders'[u].piece = gp[coders'[u].bi]
               /\ coders'[u].pc \in {"code", "publish", "write", "next"} => coders'[u].buf # NoBuf
               /\ coders'[u].pc \in {"publish", "write", "next"} =>
                    bufs'[coders'[u].buf] = gp[coders'[u].bi]
    <3>1. CASE u = t  BY <1>1, <2>2, <2>4, <2>8, <3>1
    <3>2. CASE u # t  BY <2>1, <2>6, <3>2 DEF Contents
    <3> QED  BY <3>1, <3>2
  <2> QED  BY <1>2, <2>7, <2>9 DEF Contents
<1>14. ASSUME Fine' PROVE Chain(w, k, gp)'
  <2>1. Chain(w, k, gp)  BY <1>3, <1>9, <1>14 DEF Ring
  <2>2. \A u \in Coders : /\ coders'[u].pc = "place" <=> coders[u].pc = "place"
                          /\ coders'[u].pc = "next" <=> coders[u].pc = "next"
                          /\ coders'[u].piece = coders[u].piece
    BY <1>1 DEF Others, SameBlock
  <2>3. RingEnd(w, k, gp)' = RingEnd(w, k, gp) /\ (EndOf(written))' = EndOf(written)
    BY <1>2 DEF RingEnd, EndOf
  <2> QED  BY <1>3, <2>1, <2>2, <2>3 DEF Chain
<1>15. Ring(w, k, gp, gb)'
  BY <1>2, <1>3, <1>9, <1>10, <1>11, <1>12, <1>13, <1>14 DEF Ring
<1>16. SomeRing'  BY <1>15 DEF SomeRing
<1>17. InOrder'  BY <1>2, <1>3 DEF IInv, InOrder, Fine
<1> QED  BY <1>1, <1>2, <1>4, <1>5, <1>6, <1>7, <1>8, <1>16, <1>17 DEF IInv, OkIsWhole

(* A finished block is written by its thread if it is at w, or left in       *)
(* ReadyBlocks: then the thread that writes is at w, or one will be.         *)
LEMMA PublishStep == ASSUME IInv, NEW t \in Coders, Publish(t) PROVE IInv'
<1>1. /\ TypeInv' /\ Others(t) /\ SameBlock(t) /\ coders[t].pc = "publish"
      /\ blocks' = [blocks EXCEPT ![coders[t].bi] = [res |-> coders[t].res,
                          buf |-> coders[t].buf, finished |-> coders[t].finished]]
      /\ mtc' = [mtc EXCEPT !.writeIndex = mtc'.writeIndex]
      /\ \/ /\ mtc.writeIndex = coders[t].bi /\ mtc'.writeIndex = -1
            /\ coders'[t].pc = "write" /\ ReadyBlocks' = ReadyBlocks
            /\ mtc.writeRes = "OK" => coders'[t].res = coders[t].res
         \/ /\ mtc.writeIndex # coders[t].bi /\ mtc'.writeIndex = mtc.writeIndex
            /\ coders'[t].pc = GoOn(coders[t].res, coders[t].finished)
            /\ coders'[t].res = coders[t].res
            /\ ReadyBlocks' = ReadyBlocks \cup {coders[t].bi}
  BY Publishes DEF IInv
<1>2. UNCHANGED <<caller, ending, input, readEvent, finishedEvent, blocksSemaphore,
                  freeBlocks, bufs, written, codeFaults>>
  BY DEF Publish
<1>3. /\ mtc'.blockIndex = mtc.blockIndex
      /\ mtc'.numStarted = mtc.numStarted /\ mtc'.numFinished = mtc.numFinished
      /\ mtc'.readProcessed = mtc.readProcessed /\ (Fine' <=> Fine)
      /\ mtc'.readRes = mtc.readRes /\ mtc'.writeRes = mtc.writeRes
      /\ mtc'.stopReading = mtc.stopReading
  BY <1>1 DEF IInv, TypeInv, MtcRecord, Fine
<1>4. coders'[t].pc \in {"write", "read", "end"}  BY <1>1 DEF GoOn
<1>5. ~Sleeps(t) /\ ~Sleeps(t)' /\ caller.waits
  BY <1>1, <1>4, ActiveWaits DEF Sleeps, IInv
<1>6. Threads' /\ Endings'  BY <1>1, <1>2, <1>3, <1>5, ThreadsKeep DEF IInv
<1>7. OneReader'  BY <1>1, <1>2, <1>4, OneReaderKeeps DEF IInv
<1> DEFINE b == coders[t].bi
<1>8. /\ b \in Places
      /\ blocks'[b].res = coders[t].res /\ blocks'[b].buf = coders[t].buf
      /\ blocks'[b].finished = coders[t].finished
      /\ \A i \in Places \ {b} : blocks'[i] = blocks[i]
  BY <1>1 DEF IInv, TypeInv, CoderRecord
<1>9. ReadyBlocks' \subseteq ReadyBlocks \cup {b} /\ ReadyBlocks \subseteq Places
  BY <1>1 DEF IInv, TypeInv
<1>10. Fine => coders[t].res = "OK" /\ mtc.writeRes = "OK" /\ coders'[t].res = "OK"
  BY <1>1, <1>5 DEF IInv, Errors
<1>11. Errors'
  BY <1>1, <1>3, <1>8, <1>9, <1>10 DEF IInv, Errors, Others, Sleeps
<1>12. Ended'
  <2>1. Fine => (coders[t].finished => mtc.readProcessed = input.size)
    BY <1>5 DEF IInv, Ended
  <2>2. Fine => (coders'[t].finished \/ coders'[t].pc = "end" => coders[t].finished)
    BY <1>1, <1>10 DEF GoOn, SameBlock
  <2>3. Fine => \A u \in Coders : ~Sleeps(u)' /\ (coders'[u].finished \/ coders'[u].pc = "end")
                                 => mtc.readProcessed = input.size
    BY <1>1, <2>1, <2>2 DEF IInv, Ended, Others, Sleeps
  <2>4. Fine => \A i \in ReadyBlocks' : blocks'[i].finished => mtc.readProcessed = input.size
    BY <1>8, <1>9, <2>1 DEF IInv, Ended
  <2> QED  BY <1>2, <1>3, <2>3, <2>4 DEF IInv, Ended
<1>13. PICK w \in Places, k \in 0 .. RingBlocks, gp \in [Places -> Pieces],
           gb \in [Places -> MaybeBuf] : Ring(w, k, gp, gb)
  BY <1>5 DEF IInv, SomeRing
<1>14. Owners(w, k, gb) /\ Writer(w) /\ Buffers(w, k, gb)  BY <1>13 DEF Ring
<1>15. /\ b \in Taken(w, k) \ ReadyBlocks /\ coders[t].buf = gb[b]
       /\ \A u \in Coders : coders[u].pc \in Placed /\ coders[u].bi = b => u = t
  BY <1>1, <1>14 DEF Owners, Placed
<1>16. Buffers(w, k, gb)'  BY <1>2, <1>14, BuffersKeep
<1>17. ASSUME mtc.writeIndex = b PROVE SomeRing'
  <2>1. /\ mtc'.writeIndex = -1 /\ coders'[t].pc = "write" /\ ReadyBlocks' = ReadyBlocks
        /\ b = w /\ mtc.writeIndex # -1
    BY <1>1, <1>8, <1>14, <1>17, RingSize DEF Writer, Places
  <2>2. \A u \in Coders : coders[u].pc \notin Writing  BY <1>14, <2>1 DEF Writer
  <2>3. \A u \in Coders : /\ coders'[u].pc \in Placed <=> coders[u].pc \in Placed
                          /\ coders'[u].bi = coders[u].bi /\ coders'[u].buf = coders[u].buf
                          /\ coders'[u].pc = "buffer" => coders[u].pc = "buffer"
    BY <1>1, <2>1 DEF Others, SameBlock, Placed
  <2>4. \A i \in ReadyBlocks : blocks'[i] = blocks[i]  BY <1>8, <1>9, <1>15
  <2>5. Owners(w, k, gb)'
    <3> HIDE DEF Placed
    <3> QED  BY <1>14, <2>1, <2>3, <2>4 DEF Owners
  <2>6. Writer(w)'  BY <1>1, <2>1, <2>2 DEF Writer, Writing, Others, SameBlock
  <2>7. ASSUME Fine' PROVE Contents(gp, gb)'
    <3>1. Contents(gp, gb)  BY <1>3, <1>13, <2>7 DEF Ring
    <3> QED  BY <1>1, <1>2, <2>1, <3>1 DEF Contents, Others, SameBlock
  <2>8. ASSUME Fine' PROVE Chain(w, k, gp)'
    <3>1. Chain(w, k, gp)  BY <1>3, <1>13, <2>8 DEF Ring
    <3>2. \A u \in Coders : /\ coders'[u].pc = "place" <=> coders[u].pc = "place"
                            /\ coders'[u].pc = "next" <=> coders[u].pc = "next"
                            /\ coders'[u].piece = coders[u].piece
      BY <1>1, <2>1 DEF Others, SameBlock
    <3>3. RingEnd(w, k, gp)' = RingEnd(w, k, gp) /\ (EndOf(written))' = EndOf(written)
      BY <1>2 DEF RingEnd, EndOf
    <3> QED  BY <1>3, <3>1, <3>2, <3>3 DEF Chain
  <2>9. Ring(w, k, gp, gb)'
    BY <1>2, <1>3, <1>13, <1>16, <2>5, <2>6, <2>7, <2>8 DEF Ring
  <2> QED  BY <2>9 DEF SomeRing
<1>18. ASSUME mtc.writeIndex # b PROVE SomeRing'
  <2>1. /\ mtc'.writeIndex = mtc.writeIndex /\ coders'[t].pc \in {"read", "end"}
        /\ ReadyBlocks' = ReadyBlocks \cup {b}
    BY <1>1, <1>18 DEF GoOn
  <2>2. b # w
    <3>1. ASSUME b = w PROVE FALSE
      <4>1. PICK u \in Coders : coders[u].pc \in Writing
        BY <1>14, <1>18, <3>1 DEF Writer
      <4>2. u = t  BY <1>14, <1>15, <3>1, <4>1 DEF Writer, Writing, Placed
      <4> QED  BY <1>1, <4>1, <4>2 DEF Writing
    <3> QED  BY <3>1
  <2>3. \A u \in Coders : coders'[u].pc \in Placed =>
          u # t /\ coders'[u] = coders[u] /\ coders[u].bi # b
    BY <1>1, <1>15, <2>1 DEF Others, Placed
  <2>4. \A u \in Coders : coders[u].pc \in Placed /\ u # t => coders'[u] = coders[u]
    BY <1>1 DEF Others
  <2>5. Owners(w, k, gb)'
    <3>1. \A u \in Coders : coders'[u].pc \in Placed =>
       /\ coders'[u].bi \in Taken(w, k) \ ReadyBlocks'
       /\ coders'[u].buf = gb[coders'[u].bi]
       /\ coders'[u].pc = "buffer" => coders'[u].buf = NoBuf
       /\ \A v \in Coders : coders'[v].pc \in Placed /\ coders'[v].bi = coders'[u].bi => v = u
      BY <1>14, <2>1, <2>3 DEF Owners
    <3>2. \A i \in ReadyBlocks' : i \in Taken(w, k) /\ i # w /\ blocks'[i].buf = gb[i]
      BY <1>8, <1>9, <1>14, <1>15, <2>1, <2>2 DEF Owners
    <3>3. \A i \in Taken(w, k) : \/ i \in ReadyBlocks'
                            \/ \E u \in Coders : coders'[u].pc \in Placed /\ coders'[u].bi = i
      BY <1>14, <2>1, <2>4 DEF Owners
    <3> QED  BY <3>1, <3>2, <3>3 DEF Owners
  <2>6. Writer(w)'
    <3>1. coders[t].pc \notin Writing /\ coders'[t].pc \notin Writing  BY <1>1, <2>1 DEF Writing
    <3> QED  BY <1>1, <1>14, <2>1, <3>1, WriterKeeps
  <2>7. ASSUME Fine' PROVE Contents(gp, gb)'
    <3>1. Contents(gp, gb)  BY <1>3, <1>13, <2>7 DEF Ring
    <3>2. gb[b] # NoBuf /\ bufs[gb[b]] = gp[b]  BY <1>1, <1>15, <3>1 DEF Contents
    <3> QED  BY <1>1, <1>2, <2>1, <3>1, <3>2 DEF Contents, Others
  <2>8. ASSUME Fine' PROVE Chain(w, k, gp)'
    <3>1. Chain(w, k, gp)  BY <1>3, <1>13, <2>8 DEF Ring
    <3>2. \A u \in Coders : /\ coders'[u].pc = "place" <=> coders[u].pc = "place"
                            /\ coders'[u].pc = "next" <=> coders[u].pc = "next"
                            /\ coders'[u].piece = coders[u].piece
      BY <1>1, <2>1 DEF Others, SameBlock
    <3>3. RingEnd(w, k, gp)' = RingEnd(w, k, gp) /\ (EndOf(written))' = EndOf(written)
      BY <1>2 DEF RingEnd, EndOf
    <3> QED  BY <1>3, <3>1, <3>2, <3>3 DEF Chain
  <2>9. Ring(w, k, gp, gb)'
    BY <1>2, <1>3, <1>13, <1>16, <2>5, <2>6, <2>7, <2>8 DEF Ring
  <2> QED  BY <2>9 DEF SomeRing
<1>19. SomeRing'  BY <1>17, <1>18
<1>20. InOrder'  BY <1>2, <1>3 DEF IInv, InOrder, Fine
<1> QED  BY <1>1, <1>2, <1>5, <1>6, <1>7, <1>11, <1>12, <1>19, <1>20 DEF IInv, OkIsWhole

(* Only the thread at w writes, and what is written ends where its piece     *)
(* starts.                                                                   *)
LEMMA WriteStep == ASSUME IInv, NEW t \in Coders, WriteBlock(t) PROVE IInv'
<1>1. /\ TypeInv' /\ Others(t) /\ SameBlock(t)
      /\ coders[t].pc = "write" /\ coders'[t].pc = "next"
      /\ mtc' = [mtc EXCEPT !.writeRes = mtc'.writeRes, !.progressRes = mtc'.progressRes]
      /\ Fine' => /\ mtc' = mtc /\ coders'[t].res = coders[t].res
                  /\ coders[t].res = "OK" /\ coders[t].buf # NoBuf =>
                       written' = Append(written, bufs[coders[t].buf])
  BY Writes DEF IInv
<1>2. UNCHANGED <<caller, ending, input, readEvent, finishedEvent, blocksSemaphore, blocks,
                  ReadyBlocks, freeBlocks, bufs>>
  BY DEF WriteBlock
<1>3. /\ mtc'.blockIndex = mtc.blockIndex /\ mtc'.writeIndex = mtc.writeIndex
      /\ mtc'.numStarted = mtc.numStarted /\ mtc'.numFinished = mtc.numFinished
      /\ mtc'.readProcessed = mtc.readProcessed /\ (Fine' => Fine)
  BY <1>1 DEF IInv, TypeInv, MtcRecord, Fine
<1>4. ~Sleeps(t) /\ ~Sleeps(t)' /\ caller.waits
  BY <1>1, ActiveWaits DEF Sleeps, IInv
<1>5. Threads' /\ Endings'  BY <1>1, <1>2, <1>3, <1>4, ThreadsKeep DEF IInv
<1>6. OneReader'  BY <1>1, <1>2, OneReaderKeeps DEF IInv
<1>7. Errors'  BY <1>1, <1>2, <1>3, <1>4 DEF IInv, Errors, Fine, Others, Sleeps
<1>8. Ended'  BY <1>1, <1>2, <1>3, <1>4 DEF IInv, Ended, Fine, Others, Sleeps, SameBlock
<1>9. PICK w \in Places, k \in 0 .. RingBlocks, gp \in [Places -> Pieces],
           gb \in [Places -> MaybeBuf] : Ring(w, k, gp, gb)
  BY <1>4 DEF IInv, SomeRing
<1>10. Owners(w, k, gb) /\ Writer(w) /\ Buffers(w, k, gb)  BY <1>9 DEF Ring
<1>11. Owners(w, k, gb)'
  BY <1>1, <1>2, <1>10, OwnersKeep DEF SameBlock, Placed
<1>12. Writer(w)'
  BY <1>1, <1>3, <1>10, WriterKeeps DEF SameBlock, Writing
<1>13. Buffers(w, k, gb)'  BY <1>2, <1>10, BuffersKeep
<1>14. /\ coders[t].bi = w /\ w \in Taken(w, k) /\ k > 0
       /\ \A u \in Coders : coders[u].pc \in Writing => u = t
  <2>1. coders[t].bi = w  BY <1>1, <1>10 DEF Writer, Writing
  <2>2. w \in Taken(w, k)  BY <1>1, <1>10, <2>1 DEF Owners, Placed
  <2>3. k > 0  BY <2>2, RingSize DEF Taken
  <2>4. \A u \in Coders : coders[u].pc \in Writing => u = t
    BY <1>1, <1>10, <2>1 DEF Writer, Owners, Writing, Placed
  <2> QED  BY <2>1, <2>2, <2>3, <2>4
<1>15. ASSUME Fine'
       PROVE  /\ Contents(gp, gb) /\ Chain(w, k, gp) /\ Fine
              /\ EndOf(written) = gp[w].from /\ written' = Append(written, gp[w])
              /\ gp[w] \in Pieces /\ written \in Seq(Pieces)
  <2>1. Contents(gp, gb) /\ Chain(w, k, gp) /\ Fine  BY <1>3, <1>9, <1>15 DEF Ring
  <2>2. coders[t].res = "OK"  BY <1>4, <2>1 DEF IInv, Errors
  <2>3. coders[t].buf # NoBuf /\ bufs[coders[t].buf] = gp[w]
    BY <1>1, <1>14, <2>1 DEF Contents
  <2>4. \A u \in Coders : coders[u].pc # "next"  BY <1>1, <1>14 DEF Writing
  <2>5. EndOf(written) = gp[w].from  BY <1>14, <2>1, <2>4 DEF Chain
  <2> QED  BY <1>1, <1>15, <2>1, <2>2, <2>3, <2>5 DEF IInv, TypeInv
<1>16. ASSUME Fine' PROVE (EndOf(written))' = To(gp[w])
  <2>1. written' # << >> /\ written'[Len(written')] = gp[w]  BY <1>15, <1>16
  <2> QED  BY <2>1 DEF EndOf, To
<1>17. ASSUME Fine' PROVE Contents(gp, gb)'
  <2> QED  BY <1>1, <1>2, <1>15, <1>17 DEF Contents, Others, SameBlock
<1>18. ASSUME Fine' PROVE Chain(w, k, gp)'
  <2>1. Chain(w, k, gp)  BY <1>15, <1>18
  <2>2. \A u \in Coders : /\ coders'[u].pc = "place" <=> coders[u].pc = "place"
                          /\ coders'[u].piece = coders[u].piece
    BY <1>1 DEF Others, SameBlock
  <2>3. RingEnd(w, k, gp)' = RingEnd(w, k, gp)  BY <1>14 DEF RingEnd
  <2>4. \E u \in Coders : coders'[u].pc = "next"  BY <1>1
  <2> QED  BY <1>3, <1>16, <1>18, <2>1, <2>2, <2>3, <2>4 DEF Chain
<1>19. Ring(w, k, gp, gb)'
  BY <1>2, <1>3, <1>9, <1>11, <1>12, <1>13, <1>17, <1>18 DEF Ring
<1>20. SomeRing'  BY <1>19 DEF SomeRing
<1>21. InOrder'
  <2> SUFFICES ASSUME Fine', NEW i \in DOMAIN written'
      PROVE written'[i].from = IF i = 1 THEN 0 ELSE written'[i - 1].from + written'[i - 1].size
    BY DEF InOrder, Fine
  <2>1. /\ written' = Append(written, gp[w]) /\ written \in Seq(Pieces) /\ gp[w] \in Pieces
        /\ EndOf(written) = gp[w].from /\ Fine
    BY <1>15
  <2>2. /\ Len(written) \in Nat /\ DOMAIN written = 1 .. Len(written)
        /\ DOMAIN written' = 1 .. (Len(written) + 1)
        /\ written'[Len(written) + 1] = gp[w]
        /\ \A j \in 1 .. Len(written) : written'[j] = written[j]
    BY <2>1
  <2>3. \A j \in DOMAIN written :
          written[j].from = IF j = 1 THEN 0 ELSE written[j - 1].from + written[j - 1].size
    BY <2>1 DEF IInv, InOrder, Fine
  <2>4. CASE i \in 1 .. Len(written)
    <3>1. i # 1 => i - 1 \in 1 .. Len(written)  BY <2>2, <2>4
    <3>2. written'[i] = written[i] /\ (i # 1 => written'[i - 1] = written[i - 1])
      BY <2>2, <2>4, <3>1
    <3>3. written[i].from = IF i = 1 THEN 0 ELSE written[i - 1].from + written[i - 1].size
      BY <2>2, <2>3, <2>4
    <3> QED  BY <3>2, <3>3
  <2>5. CASE i = Len(written) + 1
    <3>1. CASE written = << >>
      <4>1. Len(written) = 0 /\ EndOf(written) = 0  BY <3>1 DEF EndOf
      <4>2. i = 1 /\ written'[i] = gp[w]  BY <2>2, <2>5, <4>1
      <4> QED  BY <2>1, <4>1, <4>2
    <3>2. CASE written # << >>
      <4>1. Len(written) > 0 /\ i # 1 /\ i - 1 = Len(written) /\ Len(written) \in 1 .. Len(written)
        BY <2>1, <2>2, <2>5, <3>2
      <4>2. EndOf(written) = written[Len(written)].from + written[Len(written)].size
        BY <3>2 DEF EndOf
      <4>3. written'[i - 1] = written[Len(written)] /\ written'[i] = gp[w]  BY <2>2, <2>5, <4>1
      <4> QED  BY <2>1, <4>1, <4>2, <4>3
    <3> QED  BY <3>1, <3>2
  <2> QED  BY <2>2, <2>4, <2>5
<1> QED  BY <1>1, <1>2, <1>4, <1>5, <1>6, <1>7, <1>8, <1>20, <1>21 DEF IInv, OkIsWhole

(* The buffer of the block that was written is free again.                   *)
LEMMA BufferBack ==
  ASSUME TypeInv, NEW w \in Places, NEW k \in 1 .. RingBlocks,
         NEW gb \in [Places -> MaybeBuf], NEW gb2 \in [Places -> MaybeBuf], NEW x,
         Buffers(w, k, gb), x = gb[w], gb2[w] = NoBuf,
         \A i \in Places \ {w} : gb2[i] = gb[i],
         freeBlocks' = IF x = NoBuf THEN freeBlocks ELSE <<x>> \o freeBlocks
  PROVE  Buffers(Next1(w), k - 1, gb2)'
<1>1. w \in Taken(w, k) /\ Taken(Next1(w), k - 1) = Taken(w, k) \ {w}  BY TakenLess
<1>2. WithBuf(gb2) = WithBuf(gb) \ {w}  BY DEF WithBuf
<1>3. WithBuf(gb2) \subseteq Taken(Next1(w), k - 1)  BY <1>1, <1>2 DEF Buffers
<1>4. \A i \in WithBuf(gb2) : gb2[i] = gb[i] /\ i \in WithBuf(gb)
  BY <1>2 DEF WithBuf
<1>5. \A i, j \in WithBuf(gb2) : gb2[i] = gb2[j] => i = j  BY <1>4 DEF Buffers
<1>6. IsFiniteSet(WithBuf(gb)) /\ Cardinality(WithBuf(gb)) \in Nat
  BY PlacesCount, FS_Subset, FS_CardinalityType DEF WithBuf
<1>7. Len(freeBlocks) \in Nat /\ freeBlocks \in Seq(Places)  BY DEF TypeInv
<1>8. CASE x = NoBuf
  <2>1. w \notin WithBuf(gb)  BY <1>8 DEF WithBuf
  <2>2. WithBuf(gb2) = WithBuf(gb) /\ freeBlocks' = freeBlocks  BY <1>2, <1>8, <2>1
  <2>3. \A n \in 1 .. Len(freeBlocks) : \A i \in WithBuf(gb2) : freeBlocks[n] # gb2[i]
    BY <1>4 DEF Buffers
  <2>4. \A m, n \in 1 .. Len(freeBlocks) : freeBlocks[m] = freeBlocks[n] => m = n
    BY DEF Buffers
  <2>5. Len(freeBlocks) + Cardinality(WithBuf(gb2)) = RingBlocks  BY <2>2 DEF Buffers
  <2> QED  BY <1>3, <1>5, <2>2, <2>3, <2>4, <2>5 DEF Buffers
<1>9. CASE x # NoBuf
  <2>1. w \in WithBuf(gb) /\ x \in Places  BY <1>9 DEF WithBuf, MaybeBuf
  <2>2. Cardinality(WithBuf(gb2)) = Cardinality(WithBuf(gb)) - 1
    BY <1>2, <1>6, <2>1, FS_RemoveElement
  <2>3. /\ freeBlocks' = <<x>> \o freeBlocks /\ <<x>> \in Seq(Places) /\ Len(<<x>>) = 1
    BY <1>9, <2>1
  <2>4. /\ Len(freeBlocks') = Len(freeBlocks) + 1 /\ freeBlocks'[1] = x
        /\ \A n \in 1 .. Len(freeBlocks') : n # 1 =>
             n - 1 \in 1 .. Len(freeBlocks) /\ freeBlocks'[n] = freeBlocks[n - 1]
    BY <1>7, <2>3
  <2>5. \A i \in WithBuf(gb2) : gb[i] # x
    BY <1>2, <1>4, <2>1 DEF Buffers
  <2>6. \A n \in 1 .. Len(freeBlocks) : freeBlocks[n] # x  BY <2>1 DEF Buffers
  <2>7. ASSUME NEW n \in 1 .. Len(freeBlocks'), NEW i \in WithBuf(gb2)
        PROVE  freeBlocks'[n] # gb2[i]
    <3>1. gb2[i] = gb[i] /\ i \in WithBuf(gb) /\ gb[i] # x  BY <1>4, <2>5
    <3>2. n # 1 => freeBlocks[n - 1] # gb[i]  BY <2>4, <3>1 DEF Buffers
    <3> QED  BY <2>4, <3>1, <3>2
  <2>8. \A m, n \in 1 .. Len(freeBlocks') : freeBlocks'[m] = freeBlocks'[n] => m = n
    <3>1. ASSUME NEW m \in 1 .. Len(freeBlocks'), NEW n \in 1 .. Len(freeBlocks'),
                 freeBlocks'[m] = freeBlocks'[n]
          PROVE  m = n
      <4>1. CASE m = 1 /\ n # 1  BY <2>4, <2>6, <3>1, <4>1
      <4>2. CASE m # 1 /\ n = 1  BY <2>4, <2>6, <3>1, <4>2
      <4>3. CASE m # 1 /\ n # 1
        <5>1. freeBlocks[m - 1] = freeBlocks[n - 1] /\ m - 1 \in 1 .. Len(freeBlocks)
              /\ n - 1 \in 1 .. Len(freeBlocks)
          BY <2>4, <3>1, <4>3
        <5>2. m - 1 = n - 1  BY <5>1 DEF Buffers
        <5> QED  BY <5>2
      <4> QED  BY <4>1, <4>2, <4>3
    <3> QED  BY <3>1
  <2>9. Len(freeBlocks') + Cardinality(WithBuf(gb2)) = RingBlocks
    BY <1>6, <1>7, <2>2, <2>4 DEF Buffers
  <2> QED  BY <1>3, <1>5, <2>7, <2>8, <2>9 DEF Buffers
<1> QED  BY <1>8, <1>9

(* The data of the ring when its first place is released.                    *)
LEMMA ChainBack ==
  ASSUME TypeInv, NEW w \in Places, NEW k \in 1 .. RingBlocks, NEW gp, Chain(w, k, gp),
         written' = written, mtc'.readProcessed = mtc.readProcessed,
         \E u \in Coders : coders[u].pc = "next",
         \A u \in Coders : coders'[u].pc # "next",
         \A u \in Coders : /\ coders'[u].pc = "place" <=> coders[u].pc = "place"
                           /\ coders'[u].pc = "place" => coders'[u].piece = coders[u].piece
  PROVE  Chain(Next1(w), k - 1, gp)'
<1>1. \A j \in 0 .. (k - 1) : Slot(Next1(w), j) = Slot(w, j + 1)
  BY SlotNext, RingSize
<1>2. EndOf(written) = To(gp[w]) /\ Slot(w, 0) = w
  BY SlotIn, RingSize DEF Chain
<1>3. (EndOf(written))' = EndOf(written)  BY DEF EndOf
<1>4. ASSUME NEW j \in 0 .. ((k - 1) - 2)
      PROVE  To(gp[Slot(Next1(w), j)]) = gp[Slot(Next1(w), j + 1)].from
  <2>1. j \in 0 .. (k - 1) /\ j + 1 \in 0 .. (k - 1) /\ j + 1 \in 0 .. (k - 2)
    BY <1>4, RingSize
  <2> QED  BY <1>1, <2>1 DEF Chain
<1>5. k - 1 > 0 => EndOf(written) = gp[Next1(w)].from
  <2>1. ASSUME k - 1 > 0 PROVE 0 \in 0 .. (k - 2) /\ 0 \in 0 .. (k - 1)
    BY <2>1, RingSize
  <2>2. ASSUME k - 1 > 0 PROVE Next1(w) = Slot(w, 1)
    <3>1. Slot(Next1(w), 0) = Next1(w)  BY SlotIn, NextIsSlot, RingSize
    <3> QED  BY <1>1, <2>1, <2>2, <3>1
  <2> QED  BY <1>2, <2>1, <2>2 DEF Chain
<1>6. RingEnd(Next1(w), k - 1, gp)' = RingEnd(w, k, gp)
  <2>1. CASE k = 1
    <3>1. k - 1 = 0 /\ k # 0  BY <2>1
    <3> QED  BY <1>2, <1>3, <3>1 DEF RingEnd
  <2>2. CASE k # 1
    <3>1. k - 1 # 0 /\ k # 0 /\ (k - 1) - 1 \in 0 .. (k - 1) /\ ((k - 1) - 1) + 1 = k - 1
      BY <2>2, RingSize
    <3>2. Slot(Next1(w), (k - 1) - 1) = Slot(w, k - 1)  BY <1>1, <3>1
    <3> QED  BY <3>1, <3>2 DEF RingEnd
  <2> QED  BY <2>1, <2>2
<1> QED  BY <1>3, <1>4, <1>5, <1>6 DEF Chain

(* The first place is released, and the writer goes on to the next or leaves *)
(* it to whoever finishes it.                                                *)
LEMMA NextStep == ASSUME IInv, NEW t \in Coders, NextBlock(t) PROVE IInv'
<1> DEFINE wi == Next1(coders[t].bi)
<1>1. /\ TypeInv' /\ Others(t) /\ coders[t].pc = "next"
      /\ wi \in Places /\ coders[t].bi \in Places
      /\ mtc' = [mtc EXCEPT !.writeIndex = mtc'.writeIndex]
      /\ freeBlocks' = IF coders[t].buf = NoBuf THEN freeBlocks ELSE <<coders[t].buf>> \o freeBlocks
      /\ \/ /\ wi \in ReadyBlocks /\ ReadyBlocks' = ReadyBlocks \ {wi}
            /\ mtc'.writeIndex = mtc.writeIndex
            /\ coders'[t].pc = "write" /\ coders'[t].bi = wi
            /\ coders'[t].buf = blocks[wi].buf /\ coders'[t].finished = blocks[wi].finished
            /\ coders[t].res = "OK" => coders'[t].res = blocks[wi].res
         \/ /\ wi \notin ReadyBlocks /\ ReadyBlocks' = ReadyBlocks
            /\ mtc'.writeIndex = wi /\ SameBlock(t) /\ coders'[t].res = coders[t].res
            /\ coders'[t].pc = GoOn(coders[t].res, coders[t].finished)
  BY Nexts DEF IInv
<1>2. /\ UNCHANGED <<caller, ending, input, readEvent, finishedEvent, blocks, bufs, written, codeFaults>>
      /\ blocksSemaphore' = blocksSemaphore + 1
  BY DEF NextBlock
<1>3. /\ mtc'.blockIndex = mtc.blockIndex
      /\ mtc'.numStarted = mtc.numStarted /\ mtc'.numFinished = mtc.numFinished
      /\ mtc'.readProcessed = mtc.readProcessed /\ (Fine' <=> Fine)
      /\ mtc'.readRes = mtc.readRes /\ mtc'.writeRes = mtc.writeRes
      /\ mtc'.stopReading = mtc.stopReading
  BY <1>1 DEF IInv, TypeInv, MtcRecord, Fine
<1>4. coders'[t].pc \in {"write", "read", "end"} /\ ReadyBlocks' \subseteq ReadyBlocks
  BY <1>1 DEF GoOn
<1>5. ~Sleeps(t) /\ ~Sleeps(t)' /\ caller.waits
  BY <1>1, <1>4, ActiveWaits DEF Sleeps, IInv
<1>6. Threads' /\ Endings'  BY <1>1, <1>2, <1>3, <1>5, ThreadsKeep DEF IInv
<1>7. OneReader'  BY <1>1, <1>2, <1>4, OneReaderKeeps DEF IInv
<1>8. Fine => /\ coders[t].res = "OK" /\ coders'[t].res = "OK"
              /\ coders'[t].finished \/ coders'[t].pc = "end" => mtc.readProcessed = input.size
  <2>1. Fine => coders[t].res = "OK" /\ (coders[t].finished => mtc.readProcessed = input.size)
    BY <1>5 DEF IInv, Errors, Ended
  <2>2. CASE wi \in ReadyBlocks
    <3>1. Fine => blocks[wi].res = "OK" /\ (blocks[wi].finished => mtc.readProcessed = input.size)
      BY <2>2 DEF IInv, Errors, Ended
    <3> QED  BY <1>1, <2>1, <2>2, <3>1
  <2>3. CASE wi \notin ReadyBlocks
    BY <1>1, <2>1, <2>3 DEF GoOn, SameBlock
  <2> QED  BY <2>2, <2>3
<1>9. Errors'
  BY <1>1, <1>2, <1>3, <1>4, <1>8 DEF IInv, Errors, Others, Sleeps
<1>10. Ended'
  <2>1. Fine => \A u \in Coders : ~Sleeps(u)' /\ (coders'[u].finished \/ coders'[u].pc = "end")
                                 => mtc.readProcessed = input.size
    BY <1>1, <1>8 DEF IInv, Ended, Others, Sleeps
  <2> QED  BY <1>2, <1>3, <1>4, <2>1 DEF IInv, Ended
<1>11. PICK w \in Places, k \in 0 .. RingBlocks, gp \in [Places -> Pieces],
           gb \in [Places -> MaybeBuf] : Ring(w, k, gp, gb)
  BY <1>5 DEF IInv, SomeRing
<1>12. Owners(w, k, gb) /\ Writer(w) /\ Buffers(w, k, gb)  BY <1>11 DEF Ring
<1>13. /\ coders[t].bi = w /\ w \in Taken(w, k) \ ReadyBlocks /\ k \in 1 .. RingBlocks
       /\ coders[t].buf = gb[w] /\ mtc.writeIndex = -1
       /\ \A u \in Coders : coders[u].pc \in Writing => u = t
       /\ \A u \in Coders : coders[u].pc \in Placed /\ coders[u].bi = w => u = t
  <2>1. coders[t].bi = w /\ mtc.writeIndex = -1  BY <1>1, <1>12 DEF Writer, Writing
  <2>2. /\ w \in Taken(w, k) \ ReadyBlocks /\ coders[t].buf = gb[w]
        /\ \A u \in Coders : coders[u].pc \in Placed /\ coders[u].bi = w => u = t
    BY <1>1, <1>12, <2>1 DEF Owners, Placed
  <2>3. k \in 1 .. RingBlocks  BY <2>2, RingSize DEF Taken
  <2>4. \A u \in Coders : coders[u].pc \in Writing => u = t
    BY <1>12, <2>2 DEF Writer, Writing, Placed
  <2> QED  BY <2>1, <2>2, <2>3, <2>4
<1>14. PICK w2 \in Places : w2 = Next1(w)  BY NextIsSlot
<1>15. PICK k2 \in 0 .. RingBlocks : k2 = k - 1  BY <1>13, RingSize
<1>16. wi = w2 /\ Taken(w2, k2) = Taken(w, k) \ {w}  BY <1>13, <1>14, <1>15, TakenLess
<1>17. PICK gb2 \in [Places -> MaybeBuf] :
         gb2[w] = NoBuf /\ \A i \in Places \ {w} : gb2[i] = gb[i]
  <2>1. [gb EXCEPT ![w] = NoBuf] \in [Places -> MaybeBuf]  BY DEF MaybeBuf
  <2> QED  BY <2>1
<1>18. Buffers(w2, k2, gb2)'
  <2>1. TypeInv  BY DEF IInv
  <2> QED  BY <1>1, <1>12, <1>13, <1>14, <1>15, <1>17, <2>1, BufferBack
<1>19. blocksSemaphore' = RingBlocks - k2 /\ mtc'.blockIndex = Slot(w2, k2)
  <2>1. k2 \in 0 .. (RingBlocks - 1) /\ k2 + 1 = k  BY <1>13, <1>15, RingSize
  <2>2. Slot(w2, k2) = Slot(w, k)  BY <1>14, <2>1, SlotNext
  <2> QED  BY <1>2, <1>3, <1>11, <1>15, <2>2, RingSize DEF Ring
<1>20. Taken(w, k) \subseteq Places /\ ReadyBlocks \subseteq Places
  <2>1. Taken(w, k) \subseteq Places  BY SlotIn, RingSize DEF Taken
  <2>2. ReadyBlocks \subseteq Places  BY DEF IInv, TypeInv
  <2> QED  BY <2>1, <2>2
<1>21. \A u \in Coders \ {t} : /\ coders'[u] = coders[u]
                               /\ coders[u].pc \in Placed => coders[u].bi # w
  BY <1>1, <1>13 DEF Others
<1>22. Owners(w2, k2, gb2)' /\ Writer(w2)'
  <2>1. ASSUME NEW u \in Coders, coders'[u].pc \in Placed, u # t
        PROVE  /\ coders'[u].bi \in Taken(w2, k2) \ ReadyBlocks'
               /\ coders'[u].buf = gb2[coders'[u].bi]
               /\ coders'[u].pc = "buffer" => coders'[u].buf = NoBuf
               /\ coders'[u].bi \notin ReadyBlocks
               /\ \A v \in Coders \ {t} : coders'[v].pc \in Placed /\ coders'[v].bi = coders'[u].bi => v = u
    BY <1>4, <1>12, <1>16, <1>17, <1>20, <1>21, <2>1 DEF Owners
  <2>2. CASE wi \in ReadyBlocks
    <3>1. /\ ReadyBlocks' = ReadyBlocks \ {w2} /\ mtc'.writeIndex = -1
          /\ coders'[t].pc = "write" /\ coders'[t].bi = w2 /\ coders'[t].buf = blocks[w2].buf
      BY <1>1, <1>13, <1>16, <2>2
    <3>2. w2 \in ReadyBlocks /\ w2 \in Taken(w2, k2) /\ blocks[w2].buf = gb2[w2] /\ w2 # w
      BY <1>12, <1>13, <1>16, <1>17, <2>2 DEF Owners
    <3>3. \A u \in Coders : coders'[u].pc \in Placed =>
       /\ coders'[u].bi \in Taken(w2, k2) \ ReadyBlocks'
       /\ coders'[u].buf = gb2[coders'[u].bi]
       /\ coders'[u].pc = "buffer" => coders'[u].buf = NoBuf
       /\ \A v \in Coders : coders'[v].pc \in Placed /\ coders'[v].bi = coders'[u].bi => v = u
      BY <2>1, <3>1, <3>2
    <3>4. \A i \in ReadyBlocks' : i \in Taken(w2, k2) /\ i # w2 /\ blocks[i].buf = gb2[i]
      BY <1>12, <1>13, <1>16, <1>17, <1>20, <3>1 DEF Owners
    <3>5. \A i \in Taken(w2, k2) : \/ i \in ReadyBlocks'
                            \/ \E u \in Coders : coders'[u].pc \in Placed /\ coders'[u].bi = i
      <4>1. coders'[t].pc \in Placed  BY <3>1 DEF Placed
      <4>2. ASSUME NEW i \in Taken(w2, k2), i \notin ReadyBlocks
            PROVE  \E u \in Coders : coders'[u].pc \in Placed /\ coders'[u].bi = i
        <5>1. PICK u \in Coders : coders[u].pc \in Placed /\ coders[u].bi = i
          BY <1>12, <1>16, <4>2 DEF Owners
        <5>2. u # t  BY <1>13, <1>16, <4>2, <5>1
        <5> QED  BY <1>21, <5>1, <5>2
      <4> QED  BY <3>1, <4>1, <4>2
    <3>6. Writer(w2)'
      <4>1. \A u \in Coders : coders'[u].pc \in Writing => u = t  BY <1>13, <1>21
      <4> QED  BY <3>1, <4>1 DEF Writer, Writing
    <3>7. Owners(w2, k2, gb2)'  BY <1>2, <3>3, <3>4, <3>5 DEF Owners
    <3> QED  BY <3>6, <3>7
  <2>3. CASE wi \notin ReadyBlocks
    <3>1. /\ ReadyBlocks' = ReadyBlocks /\ mtc'.writeIndex = w2 /\ w2 \notin ReadyBlocks
          /\ coders'[t].pc \in {"read", "end"}
      BY <1>1, <1>16, <2>3 DEF GoOn
    <3>2. coders'[t].pc \notin Placed /\ coders'[t].pc \notin Writing
      BY <3>1 DEF Placed, Writing
    <3>3. \A u \in Coders : coders'[u].pc \in Placed =>
       /\ coders'[u].bi \in Taken(w2, k2) \ ReadyBlocks'
       /\ coders'[u].buf = gb2[coders'[u].bi]
       /\ coders'[u].pc = "buffer" => coders'[u].buf = NoBuf
       /\ \A v \in Coders : coders'[v].pc \in Placed /\ coders'[v].bi = coders'[u].bi => v = u
      BY <2>1, <3>2
    <3>4. \A i \in ReadyBlocks' : i \in Taken(w2, k2) /\ i # w2 /\ blocks[i].buf = gb2[i]
      BY <1>12, <1>13, <1>16, <1>17, <1>20, <3>1 DEF Owners
    <3>5. \A i \in Taken(w2, k2) : \/ i \in ReadyBlocks'
                            \/ \E u \in Coders : coders'[u].pc \in Placed /\ coders'[u].bi = i
      <4>2. ASSUME NEW i \in Taken(w2, k2), i \notin ReadyBlocks
            PROVE  \E u \in Coders : coders'[u].pc \in Placed /\ coders'[u].bi = i
        <5>1. PICK u \in Coders : coders[u].pc \in Placed /\ coders[u].bi = i
          BY <1>12, <1>16, <4>2 DEF Owners
        <5>2. u # t  BY <1>13, <1>16, <4>2, <5>1
        <5> QED  BY <1>21, <5>1, <5>2
      <4> QED  BY <3>1, <4>2
    <3>6. Writer(w2)'
      <4>1. \A u \in Coders : coders'[u].pc \notin Writing  BY <1>13, <1>21, <3>2
      <4>2. w2 # -1  BY RingSize DEF Places
      <4> QED  BY <3>1, <4>1, <4>2 DEF Writer
    <3>7. Owners(w2, k2, gb2)'  BY <1>2, <3>3, <3>4, <3>5 DEF Owners
    <3> QED  BY <3>6, <3>7
  <2> QED  BY <2>2, <2>3
<1>23. ASSUME Fine' PROVE Contents(gp, gb2)'
  <2>1. Contents(gp, gb)  BY <1>3, <1>11, <1>23 DEF Ring
  <2>2. \A i \in ReadyBlocks : gb2[i] = gb[i] /\ blocks[i].buf = gb[i]
    BY <1>12, <1>13, <1>17, <1>20 DEF Owners
  <2>3. /\ coders'[t].pc \in {"code", "publish", "write", "next"} => coders'[t].buf # NoBuf
        /\ coders'[t].pc \in {"publish", "write", "next"} =>
             bufs[coders'[t].buf] = gp[coders'[t].bi]
        /\ coders'[t].pc \notin {"buffer", "code"}
    <3>1. CASE wi \in ReadyBlocks  BY <1>1, <2>1, <2>2, <3>1 DEF Contents
    <3>2. CASE wi \notin ReadyBlocks
      <4>1. coders'[t].pc \in {"read", "end"}  BY <1>1, <3>2 DEF GoOn
      <4> QED  BY <4>1
    <3> QED  BY <3>1, <3>2
  <2>4. \A i \in ReadyBlocks' : gb2[i] # NoBuf /\ bufs[gb2[i]] = gp[i]
    BY <1>4, <2>1, <2>2 DEF Contents
  <2>5. \A u \in Coders \ {t} : coders'[u] = coders[u]  BY <1>21
  <2> QED  BY <1>2, <2>1, <2>3, <2>4, <2>5 DEF Contents
<1>24. ASSUME Fine' PROVE Chain(w2, k2, gp)'
  <2>1. Chain(w, k, gp) /\ TypeInv  BY <1>3, <1>11, <1>24 DEF Ring, IInv
  <2>2. \A u \in Coders : coders'[u].pc # "next"
    BY <1>4, <1>13, <1>21 DEF Writing
  <2>3. \A u \in Coders : /\ coders'[u].pc = "place" <=> coders[u].pc = "place"
                          /\ coders'[u].pc = "place" => coders'[u].piece = coders[u].piece
    BY <1>1, <1>4, <1>21
  <2> QED  BY <1>1, <1>2, <1>3, <1>13, <1>14, <1>15, <2>1, <2>2, <2>3, ChainBack
<1>25. Ring(w2, k2, gp, gb2)'  BY <1>18, <1>19, <1>22, <1>23, <1>24 DEF Ring
<1>26. SomeRing'  BY <1>25 DEF SomeRing
<1>27. InOrder'  BY <1>2, <1>3 DEF IInv, InOrder, Fine
<1> QED  BY <1>1, <1>2, <1>5, <1>6, <1>7, <1>9, <1>10, <1>26, <1>27 DEF IInv, OkIsWhole

(* A call starts with an empty ring and every buffer free.                   *)
LEMMA CallStep ==
  ASSUME IInv, CallCode, \A t \in Coders : ending[t].count = 0
  PROVE  IInv'
<1>A. \A t \in Coders : Sleeps(t) /\ ~ending[t].start /\ ~ending[t].last
  BY DEF CallCode, IInv, Threads, Endings, Settled
<1>1. TypeInv'  BY <1>A, TypeCall DEF IInv
<1>2. /\ ~caller.waits /\ finishedEvent' = FALSE /\ blocksSemaphore' = RingBlocks
      /\ ReadyBlocks' = {} /\ freeBlocks' = [i \in 1 .. RingBlocks |-> i - 1]
      /\ written' = << >> /\ blocks' = blocks /\ bufs' = bufs
      /\ mtc' = [stopReading |-> FALSE, readProcessed |-> 0, blockIndex |-> 0,
             writeIndex |-> 0, readRes |-> "OK", writeRes |-> "OK",
             progressRes |-> "OK", numStarted |-> 1, numFinished |-> 0]
  BY DEF CallCode
<1>3. /\ mtc'.stopReading = FALSE /\ mtc'.readProcessed = 0 /\ mtc'.blockIndex = 0
      /\ mtc'.writeIndex = 0 /\ mtc'.readRes = "OK" /\ mtc'.writeRes = "OK"
      /\ mtc'.progressRes = "OK" /\ mtc'.numStarted = 1 /\ mtc'.numFinished = 0
  BY <1>2
<1>4. \A t \in Coders : Sleeps(t)  BY <1>A
<1>5. 1 \in Coders /\ 1 .. 1 = {1}  BY RingSize DEF Coders
<1>6. \/ /\ caller'.waits = TRUE /\ caller'.res = "OK"
         /\ coders' = [coders EXCEPT ![1] = Asleep("read")]
      \/ /\ caller'.waits = FALSE /\ caller'.res = "THREAD"
         /\ coders' = coders
  <2> DEFINE n == caller.calls + 1
  <2>1. \/ /\ caller' = [calls |-> n, waits |-> TRUE, res |-> "OK"]
           /\ coders' = [coders EXCEPT ![1] = Asleep("read")]
        \/ /\ caller' = [calls |-> n, waits |-> FALSE, res |-> "THREAD"]
           /\ coders' = coders
    BY <1>A, CallStarts DEF IInv
  <2> HIDE DEF n
  <2>2. CASE /\ caller' = [calls |-> n, waits |-> TRUE, res |-> "OK"]
             /\ coders' = [coders EXCEPT ![1] = Asleep("read")]
    BY <2>2
  <2>3. CASE /\ caller' = [calls |-> n, waits |-> FALSE, res |-> "THREAD"]
             /\ coders' = coders
    BY <2>3
  <2> QED  BY <2>1, <2>2, <2>3
<1>7. \A t \in Coders \ {1} : Sleeps(t)' /\ coders'[t] = coders[t]
  BY <1>4, <1>6 DEF IInv, TypeInv, Sleeps
<1>8. \/ /\ caller'.waits = TRUE /\ caller'.res = "OK" /\ coders'[1].pc = "read" /\ coders'[1].res = "OK"
         /\ ~coders'[1].finished
      \/ caller'.waits = FALSE /\ caller'.res = "THREAD" /\ Sleeps(1)'
  BY <1>4, <1>5, <1>6 DEF IInv, TypeInv, Sleeps, Asleep
<1>9. \A t \in Coders : coders'[t].pc \in {"off", "idle", "read"}
  BY <1>7, <1>8 DEF Sleeps
<1>10. OneReader'  BY <1>9 DEF OneReader
<1>11. Threads'
  <2>1. \A t \in Coders : t > 1 => Sleeps(t)'  BY <1>7
  <2>2. CASE caller'.waits
    <3>1. Done' = {}  BY <1>3, <1>5, <1>8, <2>2 DEF Done
    <3>2. Cardinality({}) = 0  BY FS_EmptySet
    <3>3. mtc'.numFinished = Cardinality(Done)'  BY <1>3, <3>1, <3>2
    <3> QED  BY <1>2, <1>3, <1>5, <1>8, <2>1, <2>2, <3>3, RingSize DEF Threads, Settled
  <2>3. CASE ~caller'.waits
    <3>1. \A t \in Coders : Sleeps(t)'  BY <1>7, <1>8, <2>3
    <3> QED  BY <1>2, <1>3, <2>3, <3>1, RingSize DEF Threads, Settled
  <2> QED  BY <2>2, <2>3
<1>12. Errors'  BY <1>2, <1>3, <1>7, <1>8 DEF Errors, Sleeps
<1>13. Ended'
  <2>1. mtc'.readProcessed <= input'.size  BY <1>1, <1>3 DEF TypeInv
  <2>2. \A t \in Coders : ~Sleeps(t)' => ~coders'[t].finished /\ coders'[t].pc # "end"
    BY <1>7, <1>8
  <2> QED  BY <1>2, <1>3, <2>1, <2>2 DEF Ended
<1>14. InOrder'  BY <1>2 DEF InOrder
<1>15. caller'.waits => SomeRing'
  <2>1. PICK gp \in [Places -> Pieces] : TRUE
    <3>1. [i \in Places |-> NoPiece] \in [Places -> Pieces]  BY NoPieceType
    <3> QED  BY <3>1
  <2>2. PICK gb \in [Places -> MaybeBuf] : \A i \in Places : gb[i] = NoBuf
    <3>1. [i \in Places |-> NoBuf] \in [Places -> MaybeBuf]  BY DEF MaybeBuf
    <3> QED  BY <3>1
  <2>3. PICK w \in Places, k \in 0 .. RingBlocks : w = 0 /\ k = 0
    BY RingSize DEF Places
  <2>4. Taken(w, k) = {} /\ Slot(w, k) = 0
    <3>1. 0 .. (k - 1) = {}  BY <2>3
    <3> QED  BY <2>3, <3>1, RingSize DEF Taken, Slot
  <2>5. Owners(w, k, gb)'
    BY <1>2, <1>9, <2>4 DEF Owners, Placed
  <2>6. Writer(w)'
    BY <1>3, <1>9, <2>3 DEF Writer, Writing
  <2>7. Buffers(w, k, gb)'
    <3>1. WithBuf(gb) = {}  BY <2>2 DEF WithBuf
    <3>2. Cardinality({}) = 0  BY FS_EmptySet
    <3>3. /\ Len(freeBlocks') = RingBlocks
          /\ \A n \in 1 .. RingBlocks : freeBlocks'[n] = n - 1
      BY <1>2, RingSize
    <3> QED  BY <2>4, <3>1, <3>2, <3>3, RingSize DEF Buffers
  <2>8. Contents(gp, gb)'  BY <1>2, <1>9 DEF Contents
  <2>9. Chain(w, k, gp)'
    <3>1. 0 .. (k - 2) = {} /\ ~(k > 0)  BY <2>3
    <3>2. (EndOf(written))' = 0  BY <1>2 DEF EndOf
    <3>3. RingEnd(w, k, gp)' = 0  BY <2>3, <3>2 DEF RingEnd
    <3> QED  BY <1>3, <1>9, <3>1, <3>3 DEF Chain
  <2>10. Ring(w, k, gp, gb)'
    BY <1>2, <1>3, <2>3, <2>4, <2>5, <2>6, <2>7, <2>8, <2>9, RingSize DEF Ring
  <2> QED  BY <2>10 DEF SomeRing
<1>16. OkIsWhole'  BY <1>8 DEF OkIsWhole
<1>17. Endings'
  <2>1. ending' = ending  BY <1>A, CallStarts DEF IInv
  <2> QED  BY <1>A, <2>1 DEF Endings
<1> QED  BY <1>1, <1>10, <1>11, <1>12, <1>13, <1>14, <1>15, <1>16, <1>17 DEF IInv

(* When all threads are done no place is taken, and what is written is what  *)
(* was read: the whole input.                                                *)
LEMMA WholeWritten ==
  ASSUME IInv, caller.waits, finishedEvent, mtc.progressRes = "OK"
  PROVE  EndOf(written) = input.size
<1>1. \A t \in Coders : Sleeps(t)  BY DEF IInv, Threads, Settled
<1>2. PICK w \in Places, k \in 0 .. RingBlocks, gp \in [Places -> Pieces],
           gb \in [Places -> MaybeBuf] : Ring(w, k, gp, gb)
  BY DEF IInv, SomeRing
<1>3. \A t \in Coders : coders[t].pc \notin Placed /\ coders[t].pc # "place"
  BY <1>1 DEF Sleeps, Placed
<1>4. mtc.numFinished > 0
  BY DEF IInv, Threads, TypeInv, MtcRecord
<1>5. mtc.readProcessed = input.size  BY <1>4 DEF IInv, Ended, Fine
<1>6. k = 0
  <2>1. ASSUME k # 0 PROVE FALSE
    <3>1. w \in Taken(w, k)  BY <2>1, TakenLess, RingSize
    <3>2. w \in ReadyBlocks  BY <1>2, <1>3, <3>1 DEF Ring, Owners
    <3> QED  BY <1>2, <3>2 DEF Ring, Owners
  <2> QED  BY <2>1
<1>7. RingEnd(w, k, gp) = mtc.readProcessed  BY <1>2, <1>3 DEF Ring, Chain, Fine
<1> QED  BY <1>5, <1>6, <1>7 DEF RingEnd

LEMMA RingStays ==
  ASSUME SomeRing, UNCHANGED <<blocksSemaphore, mtc, blocks, ReadyBlocks, freeBlocks, bufs,
                               coders, written>>
  PROVE  SomeRing'
<1>1. PICK w \in Places, k \in 0 .. RingBlocks, gp \in [Places -> Pieces],
           gb \in [Places -> MaybeBuf] : Ring(w, k, gp, gb)
  BY DEF SomeRing
<1>2. Owners(w, k, gb)' /\ Writer(w)' /\ Buffers(w, k, gb)'
  BY <1>1 DEF Ring, Owners, Writer, Buffers
<1>3. Fine' => Contents(gp, gb)' /\ Chain(w, k, gp)'
  BY <1>1 DEF Ring, Contents, Chain, RingEnd, EndOf, Fine
<1>4. Ring(w, k, gp, gb)'  BY <1>1, <1>2, <1>3 DEF Ring
<1> QED  BY <1>4 DEF SomeRing

LEMMA ReturnStep == ASSUME IInv, ReturnCode PROVE IInv'
<1> DEFINE res == CASE mtc.readRes # "OK"     -> mtc.readRes
                    [] mtc.progressRes # "OK" -> mtc.progressRes
                    [] OTHER                  -> mtc.writeRes
<1>1. TypeInv'  BY TypeReturn DEF IInv
<1>2. /\ caller.waits /\ finishedEvent /\ ~finishedEvent'
      /\ UNCHANGED <<input, readEvent, blocksSemaphore, mtc, blocks, ReadyBlocks,
                 freeBlocks, bufs, coders, ending, written, codeFaults>>
  BY DEF ReturnCode
<1>3. caller'.waits = (res # "OK") /\ caller'.res = res /\ (res = "OK" => mtc.progressRes = "OK")
  BY DEF ReturnCode, IInv, TypeInv
<1>4. Settled /\ Settled' /\ \A t \in Coders : Sleeps(t)
  BY <1>2, <1>3 DEF IInv, Threads, Settled
<1>5. OneReader'  BY <1>2, <1>4 DEF OneReader, Sleeps
<1>6. Threads' /\ Endings'
  BY <1>2, <1>3, <1>4 DEF IInv, Threads, Sleeps, Done, Endings, Open
<1>7. Errors' /\ Ended'
  BY <1>2, <1>3, <1>4 DEF IInv, Errors, Ended, Fine, Sleeps
<1>8. InOrder'  BY <1>2 DEF IInv, InOrder
<1>9. OkIsWhole'
  <2>1. res = "OK" => EndOf(written) = input.size  BY <1>2, <1>3, WholeWritten
  <2>2. (EndOf(written))' = EndOf(written)  BY <1>2 DEF EndOf
  <2> QED  BY <1>2, <1>3, <2>1, <2>2 DEF OkIsWhole
<1>10. SomeRing'  BY <1>2, RingStays DEF IInv
<1> QED  BY <1>1, <1>3, <1>5, <1>6, <1>7, <1>8, <1>9, <1>10 DEF IInv

LEMMA FreeStep == ASSUME IInv, FreeThreads PROVE IInv'
<1>1. TypeInv'  BY TypeFree DEF IInv
<1>2. /\ caller.waits /\ caller.res # "OK" /\ \A t \in Coders : ending[t].count = 0
      /\ UNCHANGED <<input, readEvent, finishedEvent, blocksSemaphore, mtc, blocks,
                     ReadyBlocks, freeBlocks, bufs, ending, written, codeFaults>>
  BY DEF FreeThreads
<1>3. ~caller'.waits /\ caller'.res # "OK"  BY DEF FreeThreads, IInv, TypeInv
<1>4. \A t \in Coders : Sleeps(t)' /\ coders'[t].pc = "off"
  BY DEF FreeThreads, Asleep, Sleeps
<1>5. OneReader'  BY <1>4 DEF OneReader
<1>6. Threads'  BY <1>2, <1>3, <1>4 DEF IInv, Threads
<1>7. Endings'  BY <1>2 DEF IInv, Endings
<1>8. Errors' /\ Ended'
  BY <1>2, <1>3, <1>4 DEF IInv, Errors, Ended, Fine
<1>9. InOrder' /\ OkIsWhole'  BY <1>2, <1>3 DEF IInv, InOrder, OkIsWhole
<1> QED  BY <1>1, <1>3, <1>5, <1>6, <1>7, <1>8, <1>9 DEF IInv

(* The end of ThreadFunc: nothing changes but ending and finishedEvent.      *)
LEMMA EndingKeeps ==
  ASSUME IInv, TypeInv', Threads', Endings',
         UNCHANGED <<caller, input, readEvent, blocksSemaphore, mtc, blocks, ReadyBlocks,
                     freeBlocks, bufs, coders, written, codeFaults>>
  PROVE  IInv'
<1>1. OneReader' /\ Errors' /\ Ended' /\ InOrder' /\ OkIsWhole'
  BY DEF IInv, OneReader, Errors, Ended, InOrder, OkIsWhole, Fine, Sleeps, EndOf
<1>2. SomeRing => SomeRing'  BY RingStays
<1> QED  BY <1>1, <1>2 DEF IInv

LEMMA CompareStep == ASSUME IInv, NEW t \in Coders, Compare(t) PROVE IInv'
<1>1. /\ ending[t].count # 0 /\ ending[t] \in EndingRecord /\ Open(t) /\ ~ending[t].start
      /\ UNCHANGED <<caller, input, readEvent, finishedEvent, blocksSemaphore, mtc,
                 blocks, ReadyBlocks, freeBlocks, bufs, coders, written, codeFaults>>
  BY DEF Compare, IInv, TypeInv, Endings
<1> DEFINE e == IF ending[t].count = mtc.numStarted THEN [ending[t] EXCEPT !.last = TRUE] ELSE Back
<1>2. ending' = [ending EXCEPT ![t] = e]  BY DEF Compare
<1>3. e \in EndingRecord /\ ~e.start
      /\ \/ e.count = ending[t].count /\ e.count = mtc.numStarted
         \/ e.count = 0 /\ ~e.last
  BY <1>1 DEF EndingRecord, Back
<1> HIDE DEF e
<1>4. /\ ending' \in [Coders -> EndingRecord] /\ ending'[t] = e
      /\ \A u \in Coders \ {t} : ending'[u] = ending[u]
  BY <1>2, <1>3 DEF IInv, TypeInv
<1>5. TypeInv'  BY <1>1, <1>4 DEF IInv, TypeInv
<1>6. Threads'  BY <1>1 DEF IInv, Threads, Sleeps, Done, Settled
<1>7. Endings'
  <2>1. \A u \in Coders : ending'[u].count \in {0, ending[u].count}  BY <1>3, <1>4
  <2>2. ASSUME NEW u \in Coders, ending'[u].count # 0 PROVE Open(u)'
    <3>1. ending'[u].count = ending[u].count /\ Open(u)
      BY <2>1, <2>2 DEF IInv, Endings
    <3>2. \A v \in Coders : ending'[v].count = ending'[u].count => v = u
      BY <2>1, <2>2, <3>1 DEF Open
    <3> QED  BY <1>1, <3>1, <3>2 DEF Open, Settled
  <2>3. \A u \in Coders :
          /\ ~ending'[u].start
          /\ ending'[u].last => ending'[u].count # 0 /\ ending'[u].count = mtc'.numStarted
    BY <1>1, <1>3, <1>4 DEF IInv, Endings
  <2> QED  BY <2>2, <2>3 DEF Endings
<1> QED  BY <1>1, <1>5, <1>6, <1>7, EndingKeeps

(* The last thread: all have finished, so the caller may go on.              *)
LEMMA SetStep == ASSUME IInv, NEW t \in Coders, SetFinished(t) PROVE IInv'
<1>1. /\ ending[t].count # 0 /\ ending[t].count = mtc.numStarted /\ Open(t) /\ finishedEvent'
      /\ UNCHANGED <<caller, input, readEvent, blocksSemaphore, mtc,
                 blocks, ReadyBlocks, freeBlocks, bufs, coders, written, codeFaults>>
  BY DEF SetFinished, IInv, TypeInv, Endings
<1>2. /\ ending' \in [Coders -> EndingRecord] /\ ending'[t] = Back
      /\ \A u \in Coders \ {t} : ending'[u] = ending[u]
  BY BackType DEF SetFinished, IInv, TypeInv
<1>3. TypeInv'  BY <1>1, <1>2 DEF IInv, TypeInv
<1>4. ~Settled /\ caller.waits /\ caller.res = "OK"  BY <1>1 DEF Open, Settled
<1>5. mtc.numFinished = mtc.numStarted /\ Done = 1 .. mtc.numStarted
  <2>1. Done \in SUBSET (1 .. mtc.numStarted) /\ mtc.numStarted \in Nat
    BY DEF Done, IInv, TypeInv, MtcRecord
  <2>2. mtc.numFinished = Cardinality(Done)  BY <1>4 DEF IInv, Threads
  <2>3. mtc.numStarted <= mtc.numFinished  BY <1>1 DEF Open
  <2> QED  BY <2>1, <2>2, <2>3, CountedAll
<1>6. \A u \in Coders : Sleeps(u)
  <2>1. \A u \in Coders : u > mtc.numStarted \/ u \in 1 .. mtc.numStarted
    BY DEF IInv, TypeInv, MtcRecord, Coders
  <2> QED  BY <1>5, <2>1 DEF IInv, Threads, Done, Sleeps
<1>7. Threads'  BY <1>1, <1>4, <1>5, <1>6 DEF IInv, Threads, Sleeps, Done
<1>8. Endings'
  <2>1. \A u \in Coders : ending'[u].count \in {0, ending[u].count}  BY <1>2 DEF Back
  <2>2. ASSUME NEW u \in Coders, ending'[u].count # 0 PROVE Open(u)'
    <3>1. u # t /\ ending'[u].count = ending[u].count /\ Open(u)
      BY <1>2, <2>1, <2>2 DEF IInv, Endings, Back
    <3>2. \A v \in Coders : ending'[v].count = ending'[u].count => v = u
      BY <2>1, <2>2, <3>1 DEF Open
    <3>3. ending[u].count # mtc.numStarted  BY <1>1, <3>1 DEF Open
    <3> QED  BY <1>1, <3>1, <3>2, <3>3 DEF Open
  <2>3. \A u \in Coders :
          /\ ~ending'[u].start
          /\ ending'[u].last => ending'[u].count # 0 /\ ending'[u].count = mtc'.numStarted
    BY <1>1, <1>2 DEF IInv, Endings, Back
  <2> QED  BY <2>2, <2>3 DEF Endings
<1> QED  BY <1>1, <1>3, <1>7, <1>8, EndingKeeps

-----------------------------------------------------------------------------
LEMMA InvInit == ASSUME CoderInit PROVE IInv
<1>1. TypeInv  BY TypeInit
<1>2. \A t \in Coders : coders[t].pc = "off"  BY DEF CoderInit, Asleep
<1>3. /\ ~caller.waits /\ caller.calls = 0 /\ ~finishedEvent /\ ReadyBlocks = {}
      /\ mtc.numStarted = 0 /\ mtc.numFinished = 0 /\ mtc.readProcessed = 0
      /\ ~mtc.stopReading /\ mtc.readRes = "OK" /\ mtc.writeRes = "OK"
      /\ input.size = 0 /\ written = << >>
  BY DEF CoderInit
<1>4. OneReader /\ Errors /\ Ended
  BY <1>2, <1>3 DEF OneReader, Errors, Ended, Sleeps
<1>5. Threads /\ Endings
  <2>1. \A t \in Coders : ending[t] = Back  BY DEF CoderInit
  <2> QED  BY <1>2, <1>3, <2>1, RingSize DEF Threads, Sleeps, Endings, Back
<1>6. InOrder /\ OkIsWhole  BY <1>3 DEF InOrder, OkIsWhole
<1> QED  BY <1>1, <1>3, <1>4, <1>5, <1>6 DEF IInv

LEMMA InvNext == ASSUME IInv, ~late', [CoderNext]_coderVars PROVE IInv'
<1>1. CASE CallCode
  <2>1. \A t \in Coders : ending[t].count = 0  BY <1>1 DEF CallCode
  <2> QED  BY <1>1, <2>1, CallStep
<1>2. CASE ReturnCode  BY <1>2, ReturnStep
<1>3. CASE FreeThreads  BY <1>3, FreeStep
<1>4. ASSUME NEW t \in Coders, CoderStep(t) PROVE IInv'
  BY <1>4, StopStep, ReadErrorStep, ReadStep, PlaceStep, BufferStep, CodeStep, PublishStep,
     WriteStep, NextStep, FinishStep, CompareStep, SetStep DEF CoderStep
<1>5. CASE UNCHANGED coderVars
  <2>1. TypeInv' /\ Threads' /\ Endings'
    BY <1>5 DEF coderVars, IInv, TypeInv, Threads, Endings, Open, Settled, Done, Sleeps
  <2> QED  BY <1>5, <2>1, EndingKeeps DEF coderVars
<1> QED  BY <1>1, <1>2, <1>3, <1>4, <1>5 DEF CoderNext, CoderGoes

LEMMA InvExact == ASSUME IInv PROVE InOrder /\ ReturnsWhole
BY DEF IInv, ReturnsWhole, Threads, Settled

(* MtCoder_Code writes what one thread would write, whatever the number of   *)
(* threads, the size of the ring, the input, the interleaving and the        *)
(* failures: in order and without a gap, the whole input if it returns       *)
(* SZ_OK, and no thread is at work when it returns -- unless a call has been *)
(* made while a thread of the one before still had its count to compare.     *)
THEOREM CoderSafety == CoderSpec => []CoderExact
<1> DEFINE Inv == late \/ IInv
<1>1. CoderInit => Inv  BY InvInit
<1>2. Inv /\ [CoderNext]_coderVars => Inv'
  <2>1. ASSUME late, [CoderNext]_coderVars PROVE late'
    BY <2>1 DEF CoderNext, CoderGoes, CallCode, coderVars
  <2> QED  BY <2>1, InvNext
<1>3. Inv => CoderExact  BY InvExact DEF CoderExact
<1> QED  BY <1>1, <1>2, <1>3, PTL DEF CoderSpec

-----------------------------------------------------------------------------
(* MatchFinderMt: the invariant                                              *)
(* The place k behind place b of a ring of n.                                *)
Behind(b, k, n) == IF b + k < n THEN b + k ELSE b + k - n

(* What runs: the tree thread works for the caller (Active), and the caller  *)
(* takes its blocks (Serving).                                               *)
Active ==
  \/ lz.pc \in {"ready", "wait"}
  \/ lz.pc = "stopping" /\ bt.pc # "stopping" /\ ~syncs["bt"].wasStopped
Serving == lz.pc \in {"ready", "wait"} /\ ~syncs["bt"].needStart

(* The blocks of the hash ring from the one of the tree thread on; it holds  *)
(* its block until it asks for the next.                                     *)
Holding == ~syncs["hash"].needStart /\ bt.pc # "wait"
HashLive == syncs["hash"].filled + (IF Holding THEN 1 ELSE 0)
Hash(k) == hashBuf[Behind(bt.hashBlock, k, HashBlocks)]
Covered(h) == IF h.avail >= FinderHash THEN h.num ELSE h.avail
HashEnd(h) == h.first + Covered(h)

(* The position the tree thread is at; unlike bt.pos it is moved over the    *)
(* last bytes.  Pending positions are in the block that is being filled.     *)
Cur ==
  IF Holding THEN HashEnd(Hash(0)) - bt.left
  ELSE IF syncs["hash"].filled > 0 THEN Hash(0).first ELSE Position
Filling == bt.pc \in {"fill", "wait", "done"}
Pending == IF Filling THEN bt.done ELSE 0

(* The blocks of the tree ring from the one of the caller on.                *)
BtLive == syncs["bt"].filled + (IF lz.pc = "ready" THEN 1 ELSE 0)
Block(k) == btBuf[Behind(lz.block, k, BtBlocks)]
BlockEnd(b) == b.first + b.num
Busy == IF bt.pc \in {"lock", "fill", "wait", "done"} THEN 1 ELSE 0

-----------------------------------------------------------------------------
LzPcs == {"off", "ready", "wait", "stopping", "closing", "closed"}
BtPcs == {"start", "top", "lock", "fill", "wait", "done", "stop", "stopping", "gone"}
HasherPcs == {"start", "top", "move", "stopped", "gone"}
LzSet == [pc : LzPcs, starts : Nat, pos : Int, ptr : Int, block : 0 .. BtBlocks - 1,
          left : Int, avail : Int, size : Nat]
BtSet == [pc : BtPcs, block : 0 .. BtBlocks - 1, hashBlock : 0 .. HashBlocks - 1,
          pos : Int, ptr : Int, left : Int, avail : Int, cur : Int, done : Int, sum : Int]
HasherSet == [pc : HasherPcs, block : 0 .. HashBlocks - 1]
WindowSet == [base : Int, buffer : Int, read : Int, end : BOOLEAN]
SyncSet == [needStart : BOOLEAN, stop : BOOLEAN, exit : BOOLEAN, canStart : BOOLEAN,
            wasStopped : BOOLEAN, free : Int, filled : Int,
            cs : {"none", "lz", "hash", "bt"}, entered : BOOLEAN, processed : Nat]
HashBlockSet == [first : Int, num : Int, avail : Int]
BtBlockSet == [first : Int, num : Int, avail : Int, items : Int]

FinderTypes ==
  /\ lz \in LzSet /\ bt \in BtSet /\ hasher \in HasherSet /\ window \in WindowSet
  /\ syncs \in [Rings -> SyncSet]
  /\ hashBuf \in [0 .. HashBlocks - 1 -> HashBlockSet]
  /\ btBuf \in [0 .. BtBlocks - 1 -> BtBlockSet]

(* Who may run, and what it has been told                                    *)
Phases ==
  /\ lz.pc \in {"off", "closing", "closed"} => syncs["bt"].needStart
  /\ lz.pc \in {"wait", "stopping"} => ~syncs["bt"].needStart
  /\ syncs["bt"].needStart => bt.pc \in {"start", "gone"} /\ ~syncs["bt"].wasStopped
  /\ syncs["hash"].needStart => hasher.pc \in {"start", "gone"} /\ ~syncs["hash"].wasStopped
  /\ bt.pc \in {"start", "gone"} => syncs["hash"].needStart
  /\ bt.pc \in {"wait", "done", "stopping"} => ~syncs["hash"].needStart
  /\ syncs["bt"].canStart => bt.pc = "start"
  /\ syncs["hash"].canStart => hasher.pc = "start"
  /\ syncs["bt"].needStart /\ syncs["bt"].canStart => syncs["bt"].exit
  /\ syncs["hash"].needStart /\ syncs["hash"].canStart => syncs["hash"].exit
  /\ ~syncs["bt"].needStart => ~syncs["bt"].exit
  /\ ~syncs["hash"].needStart => ~syncs["hash"].exit
  /\ ~syncs["bt"].needStart /\ bt.pc = "start" =>
       syncs["bt"].canStart \/ syncs["bt"].wasStopped
  /\ ~syncs["hash"].needStart /\ hasher.pc = "start" =>
       syncs["hash"].canStart \/ syncs["hash"].wasStopped
  /\ syncs["bt"].wasStopped => bt.pc = "start" /\ lz.pc = "stopping"
                                 /\ ~syncs["bt"].canStart
  /\ syncs["hash"].wasStopped => hasher.pc = "start" /\ bt.pc = "stopping"
                                   /\ ~syncs["hash"].canStart
  /\ \/ syncs["bt"].needStart /\ syncs["bt"].canStart
     \/ syncs["hash"].needStart /\ syncs["hash"].canStart
     => lz.pc \in {"closing", "closed"}
  /\ bt.pc = "gone" \/ hasher.pc = "gone" => lz.pc \in {"closing", "closed"}
  /\ bt.pc \in {"stop", "stopping"} => lz.pc = "stopping"
  /\ syncs["bt"].stop /\ ~syncs["bt"].needStart => lz.pc = "stopping"
  /\ hasher.pc = "stopped" => bt.pc = "stopping"
  /\ syncs["hash"].stop /\ ~syncs["hash"].needStart => bt.pc = "stopping"

(* Who holds which lock                                                      *)
Locks ==
  /\ syncs["bt"].cs \in {"none", "lz", "hash"}
  /\ syncs["bt"].cs = "lz" <=> lz.pc = "ready" /\ ~syncs["bt"].needStart
  /\ syncs["bt"].cs = "hash" <=> hasher.pc = "move"
  /\ syncs["bt"].entered <=> syncs["bt"].cs = "lz"
  /\ syncs["hash"].cs \in {"none", "bt"}
  /\ syncs["hash"].cs = "bt" <=> bt.pc \in {"fill", "done"} /\ ~syncs["hash"].needStart
  /\ syncs["hash"].entered <=> syncs["hash"].cs = "bt"

(* The places of the rings                                                   *)
HashPlaces ==
  IF syncs["hash"].needStart \/ syncs["hash"].canStart
  THEN /\ window.base = 0 /\ window.buffer = 0 /\ window.read = 0 /\ ~window.end
       /\ syncs["hash"].free = HashBlocks /\ syncs["hash"].filled = 0
       /\ bt.pos = 0 /\ bt.left = 0 /\ bt.avail = 0
       /\ Filling => bt.done = 0 /\ bt.cur = 2 /\ bt.sum = 0
       /\ ~syncs["hash"].needStart => bt.pc = "wait" /\ bt.hashBlock = 0 /\ hasher.pc = "start"
                                        /\ syncs["hash"].processed = 1
  ELSE /\ syncs["hash"].free >= 0 /\ syncs["hash"].filled >= 0
       /\ syncs["hash"].free + HashLive = HashBlocks
       /\ syncs["hash"].processed > 0
       /\ bt.hashBlock = (syncs["hash"].processed - 1) % HashBlocks
       /\ hasher.block = Behind(bt.hashBlock, HashLive, HashBlocks)
BtPlaces ==
  /\ syncs["bt"].free >= 0 /\ syncs["bt"].filled >= 0
  /\ syncs["bt"].free + BtLive + Busy = BtBlocks
  /\ syncs["bt"].processed > 0
  /\ lz.block = (syncs["bt"].processed - 1) % BtBlocks
  /\ IF bt.pc = "start"
     THEN lz.pc = "wait" /\ lz.block = 0 /\ lz.pos = 0 /\ BtLive = 0 /\ syncs["bt"].canStart
     ELSE bt.block = Behind(lz.block, BtLive, BtBlocks)
Unstarted ==
  /\ syncs["hash"].needStart /\ lz.pos = 0 /\ lz.left = 0
  /\ syncs["bt"].free = BtBlocks /\ syncs["bt"].filled = 0

-----------------------------------------------------------------------------
WindowSound ==
  /\ 0 <= window.base /\ 0 <= window.buffer /\ Position <= window.read
  /\ window.read <= lz.size /\ window.read - window.base <= WindowSize
  /\ window.end => window.read = lz.size
  /\ hasher.pc = "move" => NeedMove
  /\ window.base + lz.ptr = lz.pos /\ window.base + bt.ptr = bt.pos

(* The blocks of heads lie one behind the other up to the position of the    *)
(* hash thread; only at the end of the stream does one see less than         *)
(* keepSizeAfter.                                                            *)
HashSound(h) ==
  /\ h.first >= 0 /\ h.avail >= 0 /\ h.first + h.avail <= window.read
  /\ h.num = IF h.avail >= FinderHash
             THEN Lesser(h.avail - FinderHash + 1, HashBlockSize - 2) ELSE 0
  /\ h.avail > KeepAfter \/ (h.first + h.avail = lz.size /\ window.end)
HashChain ==
  /\ \A k \in 0 .. HashLive - 1 : HashSound(Hash(k))
  /\ \A k \in 1 .. HashLive - 1 : Hash(k).first = HashEnd(Hash(k - 1))
  /\ HashLive > 0 => Position = HashEnd(Hash(HashLive - 1))
  /\ ~window.end => \A k \in 0 .. HashLive - 1 :
       Position - Hash(k).first <= (HashLive - k) * HashBlockSize

(* The tree thread                                                           *)
BtSound ==
  /\ bt.left >= 0
  /\ IF Holding THEN /\ bt.left <= Hash(0).num
                     /\ Cur + bt.avail = Hash(0).first + Hash(0).avail
     ELSE bt.left = 0
  /\ Cur = bt.pos \/ (window.end /\ bt.avail = 0 /\ Cur = lz.size /\ bt.left = 0)
  /\ Filling => bt.done >= 0 /\ bt.cur >= 2 + bt.done /\ bt.cur <= BtBlockSize
  /\ Filling /\ bt.pc # "done" /\ bt.done = 0 => bt.cur = 2
  /\ bt.pc = "wait" => bt.cur < BtLimit
  /\ bt.pc \in {"fill", "done"} /\ Holding =>
       Cur - bt.done + bt.sum = Hash(0).first + Hash(0).avail
  /\ bt.pc = "done" => /\ Hash(0).avail < FinderHash /\ bt.left = 0
                       /\ bt.pos = Hash(0).first \/ Hash(0).avail = 0

(* The blocks of matches lie one behind the other up to the one that is      *)
(* being filled; what follows the end of the stream is empty.                *)
BlockSound(b) ==
  /\ b.items <= BtBlockSize /\ 0 <= b.num /\ b.num <= b.avail
  /\ b.first + b.avail <= window.read
  /\ b.first + b.avail = lz.size \/ b.num + FinderMaxLen <= b.avail
AtEnd(b) == BlockEnd(b) = lz.size \/ (b.num = 0 /\ b.avail = 0)
Last == Block(BtLive - 1)
Over == BtLive > 0 /\ AtEnd(Last)
Reached == IF BtLive > 0 THEN BlockEnd(Last) ELSE lz.pos
BlockChain ==
  /\ lz.pc = "ready" =>
       /\ BlockSound(Block(0)) /\ 0 <= lz.left /\ lz.left <= Block(0).num
       /\ lz.pos = BlockEnd(Block(0)) - lz.left
       /\ lz.pos + lz.avail = Block(0).first + Block(0).avail
  /\ lz.pc = "wait" => /\ lz.left = 0
                       /\ BtLive > 0 => BlockSound(Block(0)) /\ Block(0).first = lz.pos
  /\ \A k \in 1 .. BtLive - 1 :
       \/ AtEnd(Block(k - 1))
       \/ BlockSound(Block(k)) /\ Block(k).first = BlockEnd(Block(k - 1))
  /\ IF Over THEN Cur = lz.size /\ Pending = 0 ELSE Reached = Cur - Pending
  /\ bt.pc # "done" /\ Cur # bt.pos => Over
  /\ bt.pc = "done" => Over \/ bt.pos = Hash(0).first
  /\ ~window.end => \A k \in 0 .. BtLive - 1 :
       Cur - Pending - Block(k).first <= (BtLive - k) * BtBlockSize

(* No byte that a match may begin with is moved out of the window.           *)
Kept(pos) == window.base = 0 \/ pos - FinderHistory >= window.base

HashSide == HashPlaces /\ HashChain /\ BtSound /\ Kept(bt.pos)
BtSide == BtPlaces /\ BlockChain /\ Kept(lz.pos)
FinderInv ==
  /\ FinderTypes /\ Phases /\ Locks /\ WindowSound
  /\ Active => HashSide
  /\ Serving => BtSide
  /\ lz.pc = "ready" /\ syncs["bt"].needStart => Unstarted

-----------------------------------------------------------------------------
(* Places of a ring                                                          *)
LEMMA RingPlace ==
  ASSUME NEW n \in Nat \ {0}, NEW b \in 0 .. n - 1, NEW k \in 0 .. n
  PROVE Behind(b, k, n) \in 0 .. n - 1 /\ Behind(b, 0, n) = b /\ Behind(b, n, n) = b
BY DEF Behind

LEMMA RingApart ==
  ASSUME NEW n \in Nat \ {0}, NEW b \in 0 .. n - 1,
         NEW j \in 0 .. n - 1, NEW k \in 0 .. n - 1, j # k
  PROVE Behind(b, j, n) # Behind(b, k, n)
BY DEF Behind

LEMMA RingNext ==
  ASSUME NEW n \in Nat \ {0}, NEW b \in 0 .. n - 1, NEW k \in 0 .. n - 1
  PROVE /\ Behind(Behind(b, 1, n), k, n) = Behind(b, k + 1, n)
        /\ (Behind(b, k, n) + 1) % n = Behind(b, k + 1, n)
<1>1. n \in Nat /\ n > 0 /\ b \in Nat /\ b < n /\ k \in Nat /\ k < n OBVIOUS
<1>2. Behind(Behind(b, 1, n), k, n) = Behind(b, k + 1, n) BY <1>1 DEF Behind
<1>3. Behind(b, k, n) + 1 \in 1 .. n BY <1>1 DEF Behind
<1>4. \A x \in 1 .. n : x % n = IF x = n THEN 0 ELSE x BY <1>1
<1>5. (Behind(b, k, n) + 1) % n = IF Behind(b, k, n) + 1 = n THEN 0 ELSE Behind(b, k, n) + 1
  BY <1>3, <1>4
<1> QED BY <1>1, <1>2, <1>5 DEF Behind

LEMMA RingCount ==
  ASSUME NEW n \in Nat \ {0}, NEW m \in Nat \ {0}
  PROVE /\ (m - 1) % n \in 0 .. n - 1 /\ m % n = Behind((m - 1) % n, 1, n)
        /\ 0 % n = 0
<1>1. PICK x \in Nat : x = m - 1 OBVIOUS
<1> DEFINE q == x \div n
           r == x % n
<1>2. q \in Int /\ r \in 0 .. n - 1 /\ x = n * q + r BY <1>1
<1> HIDE DEF q, r
<1>3. CASE r + 1 < n
  <2>1. m = n * q + (r + 1) BY <1>1, <1>2
  <2>2. m % n = r + 1 BY <2>1, <1>2, <1>3
  <2> QED BY <1>1, <1>2, <1>3, <2>2 DEF Behind, r
<1>4. CASE r + 1 = n
  <2>1. m = n * (q + 1) + 0 BY <1>1, <1>2, <1>4
  <2>2. m % n = 0 BY <2>1, <1>2
  <2> QED BY <1>1, <1>2, <1>4, <2>2 DEF Behind, r
<1> QED BY <1>2, <1>3, <1>4

LEMMA Product ==
  ASSUME NEW a \in Int, NEW b \in Int, NEW c \in Nat, a <= b
  PROVE a * c <= b * c /\ (a + 1) * c = a * c + c /\ a * c \in Int
OBVIOUS

(* The constants                                                             *)
LEMMA Sizes ==
  /\ FinderHistory \in Nat \ {0} /\ FinderMaxLen \in Nat /\ FinderHash \in Nat
  /\ FinderHash >= 2 /\ FinderMaxLen >= FinderHash
  /\ HashBlocks \in Nat \ {0} /\ BtBlocks \in Nat \ {0}
  /\ HashBlockSize \in Nat /\ HashBlockSize > 2
  /\ BtBlockSize \in Nat /\ BtBlockSize > 4 * FinderMaxLen
  /\ WindowReserve \in Nat \ {0} /\ StreamSizes \subseteq Nat
  /\ KeepAfter = FinderMaxLen + HashBlockSize /\ KeepBefore \in Nat
  /\ WindowSize = KeepBefore + KeepAfter + WindowReserve
  /\ BtLimit = BtBlockSize - FinderMaxLen * 2
BY FinderBounds DEF KeepBefore, KeepAfter, WindowSize, BtLimit

-----------------------------------------------------------------------------
(* Who may run and who holds which lock: one lemma for the steps of each     *)
(* thread.                                                                   *)
Control == Phases /\ Locks

LEMMA ControlBegins == FinderInit => Control
BY DEF FinderInit, Stopped, Control, Phases, Locks, Rings

(* The fields of the variables, for the steps below                          *)
LEMMA Fields ==
  ASSUME FinderTypes
  PROVE /\ lz \in LzSet /\ bt \in BtSet /\ hasher \in HasherSet /\ window \in WindowSet
        /\ syncs \in [Rings -> SyncSet] /\ syncs["bt"] \in SyncSet
        /\ syncs["hash"] \in SyncSet /\ "bt" \in Rings /\ "hash" \in Rings
        /\ \A r \in Rings : r = "bt" \/ r = "hash"
BY DEF FinderTypes, Rings

LEMMA LzControl ==
  ASSUME FinderTypes, Control, StartFinder \/ Destruct \/ LzStep
  PROVE Control'
<1>1. CASE StartFinder
  <2>1. lz.pc = "off" /\ lz'.pc = "ready" /\ bt'.pc = bt.pc /\ hasher' = hasher
    <3>1. lz.pc = "off" /\ hasher' = hasher BY <1>1 DEF StartFinder
    <3>2. lz'.pc = "ready"
      <4>1. PICK n \in StreamSizes :
              lz' = [pc |-> "ready", starts |-> lz.starts + 1, pos |-> 0, ptr |-> 0,
                     block |-> 0, left |-> 0, avail |-> 0, size |-> n]
        BY <1>1 DEF StartFinder
      <4> QED BY <4>1
    <3>3. bt' = [bt EXCEPT !.pos = 0, !.ptr = 0, !.left = 0, !.avail = 0] BY <1>1 DEF StartFinder
    <3>4. bt'.pc = bt.pc BY Fields, <3>3 DEF BtSet
    <3> QED BY <3>1, <3>2, <3>4
  <2>2. Startable BY Fields, <2>1 DEF Startable, Control, Phases, Locks
  <2>3. syncs' = [r \in Rings |-> [syncs[r] EXCEPT !.free = NumBlocks(r), !.filled = 0]]
    BY <1>1, <2>2 DEF StartFinder
  <2>4. ASSUME NEW r \in Rings
        PROVE  /\ syncs'[r].needStart = syncs[r].needStart /\ syncs'[r].stop = syncs[r].stop
               /\ syncs'[r].exit = syncs[r].exit /\ syncs'[r].canStart = syncs[r].canStart
               /\ syncs'[r].wasStopped = syncs[r].wasStopped /\ syncs'[r].cs = syncs[r].cs
               /\ syncs'[r].entered = syncs[r].entered
    BY Fields, <2>3, <2>4 DEF SyncSet
  <2>5. \A r \in Rings : syncs[r].needStart /\ ~syncs[r].entered BY <2>2 DEF Startable
  <2>6. Phases' BY Fields, <2>1, <2>4, <2>5 DEF Control, Phases
  <2>7. Locks' BY Fields, <2>1, <2>4, <2>5 DEF Control, Locks
  <2> QED BY <2>6, <2>7 DEF Control
<1>2. CASE Destruct
  <2>1. /\ lz.pc = "off" /\ lz'.pc = "closing" /\ bt' = bt /\ hasher' = hasher
        /\ syncs' = [r \in Rings |-> [syncs[r] EXCEPT !.exit = TRUE, !.canStart = TRUE]]
    BY Fields, <1>2 DEF Destruct, LzSet
  <2>2. Phases' BY Fields, <2>1 DEF SyncSet, Control, Phases
  <2>3. Locks' BY Fields, <2>1 DEF SyncSet, Control, Locks
  <2> QED BY <2>2, <2>3 DEF Control
<1>3. CASE NeedBtBlock
  <2>1. /\ lz.pc = "ready" /\ lz'.pc = "wait" /\ bt' = bt /\ hasher' = hasher
        /\ syncs' = GiveBlock("bt")
    BY Fields, <1>3 DEF NeedBtBlock, LzSet
  <2>2. Phases' BY Fields, <2>1 DEF GiveBlock, Release, Unlock, SyncSet, Control, Phases
  <2>3. Locks' BY Fields, <2>1 DEF GiveBlock, Release, Unlock, SyncSet, Control, Locks
  <2> QED BY <2>2, <2>3 DEF Control
<1>4. CASE GetNextBlock_Bt
  <2>1. /\ lz.pc = "wait" /\ lz'.pc = "ready" /\ bt' = bt /\ hasher' = hasher
        /\ CanTake("bt") /\ syncs' = TakeBlock("bt", "lz")
    BY Fields, <1>4 DEF GetNextBlock_Bt, LzSet
  <2>2. Phases' BY Fields, <2>1 DEF CanTake, TakeBlock, SyncSet, Control, Phases
  <2>3. Locks' BY Fields, <2>1 DEF CanTake, TakeBlock, SyncSet, Control, Locks
  <2> QED BY <2>2, <2>3 DEF Control
<1>5. CASE GetMatches
  <2>1. /\ lz'.pc = lz.pc /\ bt' = bt /\ hasher' = hasher /\ syncs' = syncs
    BY Fields, <1>5 DEF GetMatches, LzSet
  <2>2. Phases' BY Fields, <2>1 DEF SyncSet, Control, Phases
  <2>3. Locks' BY Fields, <2>1 DEF SyncSet, Control, Locks
  <2> QED BY <2>2, <2>3 DEF Control
<1>6. CASE ReleaseStream
  <2>1. /\ lz.pc = "ready" /\ bt' = bt /\ hasher' = hasher
        /\ \/ syncs["bt"].needStart /\ lz'.pc = "off" /\ syncs' = syncs
           \/ ~syncs["bt"].needStart /\ lz'.pc = "stopping" /\ syncs' = SendStop("bt")
    BY Fields, <1>6 DEF ReleaseStream, LzSet
  <2>2. Phases' BY Fields, <2>1 DEF SendStop, Release, Unlock, SyncSet, Control, Phases
  <2>3. CASE syncs["bt"].needStart
    <3>1. syncs' = syncs /\ lz'.pc = "off" BY <2>1, <2>3
    <3>2. Locks' BY <2>1, <2>3, <3>1 DEF Control, Locks
    <3> QED BY <2>2, <3>2 DEF Control
  <2>4. CASE ~syncs["bt"].needStart
    <3>1. syncs["bt"].cs = "lz" /\ syncs["bt"].entered BY <2>1, <2>4 DEF Control, Locks
    <3>2. /\ syncs'["hash"] = syncs["hash"] /\ syncs'["bt"].needStart = syncs["bt"].needStart
          /\ syncs'["bt"].cs = "none" /\ syncs'["bt"].entered = FALSE
      BY Fields, <2>1, <2>4, <3>1 DEF SendStop, Release, Unlock, SyncSet
    <3>3. Locks' BY <2>1, <2>4, <3>1, <3>2 DEF Control, Locks
    <3> QED BY <2>2, <3>3 DEF Control
  <2> QED BY <2>2, <2>3, <2>4 DEF Control
<1>7. CASE StreamReleased
  <2>1. /\ lz.pc = "stopping" /\ lz'.pc = "off" /\ bt' = bt /\ hasher' = hasher
        /\ syncs["bt"].wasStopped /\ syncs' = HasStopped("bt")
    BY Fields, <1>7 DEF StreamReleased, LzSet
  <2>2. Phases' BY Fields, <2>1 DEF HasStopped, SyncSet, Control, Phases
  <2>3. Locks' BY Fields, <2>1 DEF HasStopped, SyncSet, Control, Locks
  <2> QED BY <2>2, <2>3 DEF Control
<1>8. CASE Closed
  <2>1. /\ lz.pc = "closing" /\ lz'.pc = "closed" /\ bt' = bt /\ hasher' = hasher /\ syncs' = syncs
    BY Fields, <1>8 DEF Closed, LzSet
  <2>2. Phases' BY Fields, <2>1 DEF SyncSet, Control, Phases
  <2>3. Locks' BY Fields, <2>1 DEF SyncSet, Control, Locks
  <2> QED BY <2>2, <2>3 DEF Control
<1> QED BY <1>1, <1>2, <1>3, <1>4, <1>5, <1>6, <1>7, <1>8 DEF LzStep

LEMMA BtControl ==
  ASSUME FinderTypes, Control, BtStep
  PROVE Control'
<1>1. CASE BtStart
  <2>1. /\ bt.pc = "start" /\ syncs["bt"].canStart /\ lz' = lz /\ hasher' = hasher
        /\ bt'.pc = (IF syncs["bt"].exit THEN "gone" ELSE "top")
        /\ syncs' = [syncs EXCEPT !["bt"].canStart = FALSE]
    BY Fields, <1>1 DEF BtStart, BtSet
  <2>2. Phases' BY Fields, <2>1 DEF SyncSet, Control, Phases
  <2>3. Locks' BY Fields, <2>1 DEF SyncSet, Control, Locks
  <2> QED BY <2>2, <2>3 DEF Control
<1>2. CASE BtTakeFree
  <2>1. /\ bt.pc = "top" /\ lz' = lz /\ hasher' = hasher
        /\ bt'.pc = (IF syncs["bt"].stop THEN "stop" ELSE "lock")
        /\ syncs' = [syncs EXCEPT !["bt"].free = @ - 1]
    BY Fields, <1>2 DEF BtTakeFree, BtSet
  <2>2. Phases' BY Fields, <2>1 DEF SyncSet, Control, Phases
  <2>3. Locks' BY Fields, <2>1 DEF SyncSet, Control, Locks
  <2> QED BY <2>2, <2>3 DEF Control
<1>3. CASE BtLock
  <2>1. /\ bt.pc = "lock" /\ bt'.pc = "fill" /\ lz' = lz /\ hasher' = hasher
        /\ \/ syncs["hash"].needStart /\ syncs' = syncs
           \/ /\ ~syncs["hash"].needStart
              /\ syncs' = [syncs EXCEPT !["hash"].cs = "bt", !["hash"].entered = TRUE]
    BY Fields, <1>3 DEF BtLock, BtSet
  <2>2. Phases' BY Fields, <2>1 DEF SyncSet, Control, Phases
  <2>3. Locks' BY Fields, <2>1 DEF SyncSet, Control, Locks
  <2> QED BY <2>2, <2>3 DEF Control
<1>4. CASE BtSearch
  <2>1. /\ bt'.pc = bt.pc /\ lz' = lz /\ hasher' = hasher /\ syncs' = syncs
    BY Fields, <1>4 DEF BtSearch, BtSet
  <2>2. Phases' BY Fields, <2>1 DEF SyncSet, Control, Phases
  <2>3. Locks' BY Fields, <2>1 DEF SyncSet, Control, Locks
  <2> QED BY <2>2, <2>3 DEF Control
<1>5. CASE BtNeedHash
  <2>1. /\ bt.pc = "fill" /\ bt'.pc = "wait" /\ lz' = lz /\ hasher' = hasher
        /\ syncs' = GiveBlock("hash")
    BY Fields, <1>5 DEF BtNeedHash, BtSet
  <2>2. Phases' BY Fields, <2>1 DEF GiveBlock, Release, Unlock, SyncSet, Control, Phases
  <2>3. Locks' BY Fields, <2>1 DEF GiveBlock, Release, Unlock, SyncSet, Control, Locks
  <2> QED BY <2>2, <2>3 DEF Control
<1>6. CASE BtTakeHash
  <2>1. /\ bt.pc = "wait" /\ bt'.pc \in {"fill", "done"} /\ lz' = lz /\ hasher' = hasher
        /\ CanTake("hash") /\ syncs' = TakeBlock("hash", "bt")
    BY Fields, <1>6 DEF BtTakeHash, BtSet
  <2>2. Phases' BY Fields, <2>1 DEF CanTake, TakeBlock, SyncSet, Control, Phases
  <2>3. Locks' BY Fields, <2>1 DEF CanTake, TakeBlock, SyncSet, Control, Locks
  <2> QED BY <2>2, <2>3 DEF Control
<1>7. CASE BtDone
  <2>1. /\ bt.pc \in {"fill", "done"} /\ bt'.pc = "top" /\ lz' = lz /\ hasher' = hasher
        /\ syncs' = Filled(Unlock(syncs, "hash"), "bt")
    BY Fields, <1>7 DEF BtDone, BtSet
  <2>2. Phases' BY Fields, <2>1 DEF Filled, Unlock, SyncSet, Control, Phases
  <2>3. Locks' BY Fields, <2>1 DEF Filled, Unlock, SyncSet, Control, Locks
  <2> QED BY <2>2, <2>3 DEF Control
<1>8. CASE BtStopHash
  <2>1. /\ bt.pc = "stop" /\ lz' = lz /\ hasher' = hasher
        /\ \/ /\ syncs["hash"].needStart /\ bt'.pc = "start"
              /\ syncs' = [syncs EXCEPT !["bt"].wasStopped = TRUE]
           \/ /\ ~syncs["hash"].needStart /\ bt'.pc = "stopping"
              /\ syncs' = SendStop("hash")
    BY Fields, <1>8 DEF BtStopHash, BtSet
  <2>2. Phases' BY Fields, <2>1 DEF SendStop, Release, Unlock, SyncSet, Control, Phases
  <2>3. Locks' BY Fields, <2>1 DEF SendStop, Release, Unlock, SyncSet, Control, Locks
  <2> QED BY <2>2, <2>3 DEF Control
<1>9. CASE BtStopped
  <2>1. /\ bt.pc = "stopping" /\ bt'.pc = "start" /\ lz' = lz /\ hasher' = hasher
        /\ syncs["hash"].wasStopped
        /\ syncs' = [HasStopped("hash") EXCEPT !["bt"].wasStopped = TRUE]
    BY Fields, <1>9 DEF BtStopped, BtSet
  <2>2. Phases' BY Fields, <2>1 DEF HasStopped, SyncSet, Control, Phases
  <2>3. Locks' BY Fields, <2>1 DEF HasStopped, SyncSet, Control, Locks
  <2> QED BY <2>2, <2>3 DEF Control
<1> QED BY <1>1, <1>2, <1>3, <1>4, <1>5, <1>6, <1>7, <1>8, <1>9 DEF BtStep

LEMMA HashControl ==
  ASSUME FinderTypes, Control, HashStep
  PROVE Control'
<1>1. CASE HashStart
  <2>1. /\ hasher.pc = "start" /\ syncs["hash"].canStart /\ lz'.pc = lz.pc /\ bt'.pc = bt.pc
        /\ hasher'.pc = (IF syncs["hash"].exit THEN "gone" ELSE "top")
        /\ syncs' = [syncs EXCEPT !["hash"].canStart = FALSE]
    BY Fields, <1>1 DEF HashStart, HasherSet
  <2>2. Phases' BY Fields, <2>1 DEF SyncSet, Control, Phases
  <2>3. Locks' BY Fields, <2>1 DEF SyncSet, Control, Locks
  <2> QED BY <2>2, <2>3 DEF Control
<1>2. CASE HashLockBt
  <2>1. /\ hasher.pc = "top" /\ hasher'.pc = "move" /\ lz'.pc = lz.pc /\ bt'.pc = bt.pc
        /\ syncs["bt"].cs = "none" /\ syncs' = [syncs EXCEPT !["bt"].cs = "hash"]
    BY Fields, <1>2 DEF HashLockBt, HasherSet
  <2>2. Phases' BY Fields, <2>1 DEF SyncSet, Control, Phases
  <2>3. Locks' BY Fields, <2>1 DEF SyncSet, Control, Locks
  <2> QED BY <2>2, <2>3 DEF Control
<1>3. CASE HashMove
  <2>1. /\ hasher.pc = "move" /\ hasher'.pc = "top" /\ lz'.pc = lz.pc /\ bt'.pc = bt.pc
        /\ syncs' = [syncs EXCEPT !["bt"].cs = "none"]
    BY Fields, <1>3 DEF HashMove, HasherSet, LzSet, BtSet
  <2>2. Phases' BY Fields, <2>1 DEF SyncSet, Control, Phases
  <2>3. Locks' BY Fields, <2>1 DEF SyncSet, Control, Locks
  <2> QED BY <2>2, <2>3 DEF Control
<1>4. CASE HashFill
  <2>1. /\ hasher.pc = "top" /\ lz'.pc = lz.pc /\ bt'.pc = bt.pc
        /\ \/ /\ syncs["hash"].stop /\ hasher'.pc = "stopped"
              /\ syncs' = [syncs EXCEPT !["hash"].free = @ - 1]
           \/ /\ ~syncs["hash"].stop /\ hasher'.pc = "top"
              /\ syncs' = Filled([syncs EXCEPT !["hash"].free = @ - 1], "hash")
    BY Fields, <1>4 DEF HashFill, HasherSet
  <2>2. Phases' BY Fields, <2>1 DEF Filled, SyncSet, Control, Phases
  <2>3. Locks' BY Fields, <2>1 DEF Filled, SyncSet, Control, Locks
  <2> QED BY <2>2, <2>3 DEF Control
<1>5. CASE HashStopped
  <2>1. /\ hasher.pc = "stopped" /\ hasher'.pc = "start" /\ lz'.pc = lz.pc /\ bt'.pc = bt.pc
        /\ syncs' = [syncs EXCEPT !["hash"].wasStopped = TRUE]
    BY Fields, <1>5 DEF HashStopped, HasherSet
  <2>2. Phases' BY Fields, <2>1 DEF SyncSet, Control, Phases
  <2>3. Locks' BY Fields, <2>1 DEF SyncSet, Control, Locks
  <2> QED BY <2>2, <2>3 DEF Control
<1> QED BY <1>1, <1>2, <1>3, <1>4, <1>5 DEF HashStep

-----------------------------------------------------------------------------
(* The types of the variables                                                *)
LEMMA SyncTypes ==
  ASSUME syncs \in [Rings -> SyncSet], NEW r \in Rings
  PROVE /\ GiveBlock(r) \in [Rings -> SyncSet]
        /\ TakeBlock(r, "lz") \in [Rings -> SyncSet]
        /\ TakeBlock(r, "bt") \in [Rings -> SyncSet]
        /\ SendStop(r) \in [Rings -> SyncSet] /\ HasStopped(r) \in [Rings -> SyncSet]
        /\ NextBlockIndex(r) \in Nat
<1>1. HashBlocks \in Nat /\ BtBlocks \in Nat BY Sizes
<1>2. NumBlocks(r) \in Nat BY <1>1 DEF NumBlocks
<1>3. \A s \in [Rings -> SyncSet] : Unlock(s, r) \in [Rings -> SyncSet]
  <2> TAKE s \in [Rings -> SyncSet]
  <2>1. [s EXCEPT ![r].cs = "none", ![r].entered = FALSE] \in [Rings -> SyncSet]
    BY DEF SyncSet
  <2> QED BY <2>1 DEF Unlock
<1>4. \A s \in [Rings -> SyncSet] : Release(s, r) \in [Rings -> SyncSet]
  <2> TAKE s \in [Rings -> SyncSet]
  <2>1. s[r] \in SyncSet OBVIOUS
  <2>2. s[r].free \in Int BY <2>1 DEF SyncSet
  <2>3. PICK f \in Int : f = IF s[r].free < NumBlocks(r) THEN s[r].free + 1 ELSE s[r].free
    BY <2>2
  <2>4. Release(s, r) = [s EXCEPT ![r] = [@ EXCEPT !.free = f]]
    BY <2>3 DEF Release
  <2>5. [s[r] EXCEPT !.free = f] \in SyncSet BY <2>1 DEF SyncSet
  <2> QED BY <2>4, <2>5
<1>5. GiveBlock(r) \in [Rings -> SyncSet]
  <2>1. [syncs EXCEPT ![r] = [@ EXCEPT !.processed = 1, !.needStart = FALSE,
           !.stop = FALSE, !.exit = FALSE, !.wasStopped = FALSE, !.canStart = TRUE]]
          \in [Rings -> SyncSet]
    BY DEF SyncSet
  <2>2. [syncs EXCEPT ![r].processed = @ + 1] \in [Rings -> SyncSet] BY DEF SyncSet
  <2>3. Release(Unlock([syncs EXCEPT ![r].processed = @ + 1], r), r) \in [Rings -> SyncSet]
    BY <1>3, <1>4, <2>2
  <2> QED BY <2>1, <2>3 DEF GiveBlock
<1>6. TakeBlock(r, "lz") \in [Rings -> SyncSet] /\ TakeBlock(r, "bt") \in [Rings -> SyncSet]
  <2>1. syncs[r] \in SyncSet OBVIOUS
  <2>2. PICK f \in Int : f = syncs[r].filled - 1 BY <2>1 DEF SyncSet
  <2>3. \A who \in {"lz", "bt"} :
          [syncs[r] EXCEPT !.filled = f, !.cs = who, !.entered = TRUE] \in SyncSet
    BY <2>1 DEF SyncSet
  <2>4. \A who : TakeBlock(r, who)
          = [syncs EXCEPT ![r] = [@ EXCEPT !.filled = f, !.cs = who, !.entered = TRUE]]
    BY <2>2 DEF TakeBlock
  <2> QED BY <2>3, <2>4
<1>7. SendStop(r) \in [Rings -> SyncSet]
  <2> DEFINE s == IF syncs[r].entered THEN Unlock(syncs, r) ELSE syncs
  <2>1. s \in [Rings -> SyncSet] BY <1>3
  <2> HIDE DEF s
  <2>2. [s EXCEPT ![r].stop = TRUE] \in [Rings -> SyncSet] BY <2>1 DEF SyncSet
  <2>3. Release([s EXCEPT ![r].stop = TRUE], r) \in [Rings -> SyncSet] BY <1>4, <2>2
  <2> QED BY <2>3 DEF SendStop, s
<1>8. HasStopped(r) \in [Rings -> SyncSet] BY DEF HasStopped, SyncSet
<1>9. NextBlockIndex(r) \in Nat BY DEF NextBlockIndex, SyncSet
<1> QED BY <1>5, <1>6, <1>7, <1>8, <1>9

LEMMA FilledTypes ==
  ASSUME NEW s \in [Rings -> SyncSet], NEW r \in Rings
  PROVE Filled(s, r) \in [Rings -> SyncSet] /\ Unlock(s, r) \in [Rings -> SyncSet]
<1>1. HashBlocks \in Nat /\ BtBlocks \in Nat BY Sizes
<1>2. NumBlocks(r) \in Nat BY <1>1 DEF NumBlocks
<1>3. s[r] \in SyncSet OBVIOUS
<1>4. PICK f \in Int : f = IF s[r].filled < NumBlocks(r) THEN s[r].filled + 1 ELSE s[r].filled
  BY <1>2, <1>3 DEF SyncSet
<1>5. Filled(s, r) = [s EXCEPT ![r] = [@ EXCEPT !.filled = f]] BY <1>4 DEF Filled
<1>6. [s[r] EXCEPT !.filled = f] \in SyncSet BY <1>3 DEF SyncSet
<1>7. [s EXCEPT ![r].cs = "none", ![r].entered = FALSE] \in [Rings -> SyncSet] BY DEF SyncSet
<1> QED BY <1>5, <1>6, <1>7 DEF Unlock

LEMMA LzTypes ==
  ASSUME FinderTypes, StartFinder \/ Destruct \/ LzStep
  PROVE FinderTypes'
<1>0. /\ HashBlocks \in Nat \ {0} /\ BtBlocks \in Nat \ {0} /\ StreamSizes \subseteq Nat
      /\ 0 \in 0 .. BtBlocks - 1
  BY Sizes
<1>a. \A n \in Nat : n % BtBlocks \in 0 .. BtBlocks - 1 BY <1>0
<1>1. CASE StartFinder
  <2>1. lz' \in LzSet
    <3>1. PICK n \in StreamSizes :
            lz' = [pc |-> "ready", starts |-> lz.starts + 1, pos |-> 0, ptr |-> 0,
                   block |-> 0, left |-> 0, avail |-> 0, size |-> n]
      BY <1>1 DEF StartFinder
    <3>2. lz.starts + 1 \in Nat /\ n \in Nat BY Fields, <1>0 DEF LzSet
    <3> QED BY <1>0, <3>1, <3>2 DEF LzSet, LzPcs
  <2>2. bt' \in BtSet
    <3>1. bt' = [bt EXCEPT !.pos = 0, !.ptr = 0, !.left = 0, !.avail = 0]
      BY <1>1 DEF StartFinder
    <3>2. bt \in BtSet /\ 0 \in Int BY Fields
    <3>3. [bt EXCEPT !.pos = 0, !.ptr = 0, !.left = 0, !.avail = 0] \in BtSet
      BY <3>2 DEF BtSet
    <3> QED BY <3>1, <3>3
  <2>3. window' \in WindowSet
    <3>1. window' = [base |-> 0, buffer |-> 0, read |-> 0, end |-> FALSE]
      BY <1>1 DEF StartFinder
    <3> QED BY <3>1 DEF WindowSet
  <2>4. syncs' \in [Rings -> SyncSet]
    <3>1. \A r \in Rings : NumBlocks(r) \in Int BY <1>0 DEF NumBlocks
    <3>2. \A r \in Rings :
            [syncs[r] EXCEPT !.free = NumBlocks(r), !.filled = 0] \in SyncSet
      <4> TAKE r \in Rings
      <4>1. PICK s \in SyncSet : s = syncs[r] BY Fields
      <4>2. PICK m \in Int : m = NumBlocks(r) BY <3>1
      <4>3. PICK z \in Int : z = 0 OBVIOUS
      <4>4. [s EXCEPT !.free = m, !.filled = z] \in SyncSet BY DEF SyncSet
      <4> QED BY <4>1, <4>2, <4>3, <4>4
    <3>3. syncs' = [r \in Rings |->
            IF Startable THEN [syncs[r] EXCEPT !.free = NumBlocks(r), !.filled = 0]
            ELSE syncs[r]]
      BY <1>1 DEF StartFinder
    <3>4. \A r \in Rings : syncs[r] \in SyncSet BY Fields
    <3> QED BY <3>2, <3>3, <3>4
  <2> QED BY <1>1, <2>1, <2>2, <2>3, <2>4 DEF StartFinder, FinderTypes
<1>2. CASE Destruct
  <2>1. lz' \in LzSet BY Fields, <1>2 DEF Destruct, LzSet, LzPcs
  <2>2. syncs' \in [Rings -> SyncSet]
    <3>1. \A r \in Rings : [syncs[r] EXCEPT !.exit = TRUE, !.canStart = TRUE] \in SyncSet
      BY Fields DEF SyncSet
    <3> QED BY <1>2, <3>1 DEF Destruct
  <2> QED BY <1>2, <2>1, <2>2 DEF Destruct, FinderTypes
<1>3. CASE NeedBtBlock
  <2>1. syncs' \in [Rings -> SyncSet] /\ NextBlockIndex("bt") \in Nat
    BY Fields, SyncTypes, <1>3 DEF NeedBtBlock
  <2>2. NextBlockIndex("bt") % BtBlocks \in 0 .. BtBlocks - 1 BY <1>a, <2>1
  <2>3. lz' \in LzSet BY Fields, <1>3, <2>2 DEF NeedBtBlock, LzSet, LzPcs
  <2> QED BY <1>3, <2>1, <2>3 DEF NeedBtBlock, FinderTypes
<1>4. CASE GetNextBlock_Bt
  <2>1. syncs' \in [Rings -> SyncSet] BY Fields, SyncTypes, <1>4 DEF GetNextBlock_Bt
  <2>2. btBuf[lz.block] \in BtBlockSet BY <1>0 DEF FinderTypes, LzSet
  <2>3. btBuf[lz.block].num \in Int /\ btBuf[lz.block].avail \in Int BY <2>2 DEF BtBlockSet
  <2>4. lz' \in LzSet
    <3>1. lz' = [lz EXCEPT !.pc = "ready", !.left = btBuf[lz.block].num,
                           !.avail = btBuf[lz.block].avail]
      BY <1>4 DEF GetNextBlock_Bt
    <3>2. lz \in LzSet BY Fields
    <3>3. PICK n \in Int, a \in Int : n = btBuf[lz.block].num /\ a = btBuf[lz.block].avail
      BY <2>3
    <3>4. PICK q \in LzPcs : q = "ready" BY DEF LzPcs
    <3>5. [lz EXCEPT !.pc = q, !.left = n, !.avail = a] \in LzSet BY <3>2 DEF LzSet
    <3>6. lz' = [lz EXCEPT !.pc = q, !.left = n, !.avail = a] BY <3>1, <3>3, <3>4
    <3> QED BY <3>5, <3>6
  <2> QED BY <1>4, <2>1, <2>4 DEF GetNextBlock_Bt, FinderTypes
<1>5. CASE GetMatches
  <2>1. lz' \in LzSet
    <3>1. lz' = [lz EXCEPT !.pos = @ + 1, !.ptr = @ + 1, !.left = @ - 1, !.avail = @ - 1]
      BY <1>5 DEF GetMatches
    <3>2. lz \in LzSet BY Fields
    <3>3. PICK p \in Int, q \in Int, n \in Int, a \in Int :
            p = lz.pos + 1 /\ q = lz.ptr + 1 /\ n = lz.left - 1 /\ a = lz.avail - 1
      BY <3>2 DEF LzSet
    <3>4. [lz EXCEPT !.pos = p, !.ptr = q, !.left = n, !.avail = a] \in LzSet
      BY <3>2 DEF LzSet
    <3> QED BY <3>1, <3>3, <3>4
  <2> QED BY <1>5, <2>1 DEF GetMatches, FinderTypes
<1>6. CASE ReleaseStream
  <2>1. lz' \in LzSet BY Fields, <1>6 DEF ReleaseStream, LzSet, LzPcs
  <2>2. syncs' \in [Rings -> SyncSet] BY Fields, SyncTypes, <1>6 DEF ReleaseStream
  <2> QED BY <1>6, <2>1, <2>2 DEF ReleaseStream, FinderTypes
<1>7. CASE StreamReleased
  <2>1. lz' \in LzSet BY Fields, <1>7 DEF StreamReleased, LzSet, LzPcs
  <2>2. syncs' \in [Rings -> SyncSet] BY Fields, SyncTypes, <1>7 DEF StreamReleased
  <2> QED BY <1>7, <2>1, <2>2 DEF StreamReleased, FinderTypes
<1>8. CASE Closed
  <2>1. lz' \in LzSet BY Fields, <1>8 DEF Closed, LzSet, LzPcs
  <2> QED BY <1>8, <2>1 DEF Closed, FinderTypes
<1> QED BY <1>1, <1>2, <1>3, <1>4, <1>5, <1>6, <1>7, <1>8 DEF LzStep

LEMMA BtTypes ==
  ASSUME FinderTypes, BtStep
  PROVE FinderTypes'
<1>0. /\ HashBlocks \in Nat \ {0} /\ BtBlocks \in Nat \ {0}
      /\ 0 \in 0 .. BtBlocks - 1 /\ FinderHash \in Nat /\ FinderMaxLen \in Nat
      /\ FinderMaxLen >= FinderHash /\ BtLimit \in Int
  BY Sizes
<1>a. (\A n \in Nat : n % BtBlocks \in 0 .. BtBlocks - 1)
      /\ \A n \in Nat : n % HashBlocks \in 0 .. HashBlocks - 1
  BY <1>0
<1>b. hashBuf[bt.hashBlock] \in HashBlockSet BY DEF FinderTypes, BtSet
<1>c. hashBuf[bt.hashBlock].first \in Int /\ hashBuf[bt.hashBlock].num \in Int
      /\ hashBuf[bt.hashBlock].avail \in Int
  BY <1>b DEF HashBlockSet
<1>1. CASE BtStart
  <2>1. bt' \in BtSet BY Fields, <1>0, <1>1 DEF BtStart, BtSet, BtPcs
  <2>2. syncs' \in [Rings -> SyncSet] BY Fields, <1>1 DEF BtStart, SyncSet
  <2> QED BY <1>1, <2>1, <2>2 DEF BtStart, FinderTypes
<1>2. CASE BtTakeFree
  <2>1. bt' \in BtSet BY Fields, <1>2 DEF BtTakeFree, BtSet, BtPcs
  <2>2. syncs' \in [Rings -> SyncSet] BY Fields, <1>2 DEF BtTakeFree, SyncSet
  <2> QED BY <1>2, <2>1, <2>2 DEF BtTakeFree, FinderTypes
<1>3. CASE BtLock
  <2>1. bt' \in BtSet
    <3>1. bt' = [bt EXCEPT !.pc = "fill", !.cur = 2, !.done = 0, !.sum = bt.avail]
      BY <1>3 DEF BtLock
    <3>2. bt \in BtSet BY Fields
    <3>3. PICK a \in Int : a = bt.avail BY <3>2 DEF BtSet
    <3>4. PICK z \in Int, c \in Int : z = 0 /\ c = 2 OBVIOUS
    <3>5. PICK f \in BtPcs : f = "fill" BY DEF BtPcs
    <3>6. [bt EXCEPT !.pc = f, !.cur = c, !.done = z, !.sum = a] \in BtSet
      BY <3>2 DEF BtSet
    <3> QED BY <3>1, <3>3, <3>4, <3>5, <3>6
  <2>2. syncs' \in [Rings -> SyncSet] BY Fields, <1>3 DEF BtLock, SyncSet
  <2> QED BY <1>3, <2>1, <2>2 DEF BtLock, FinderTypes
<1>4. CASE BtSearch
  <2>1. PICK places \in {1, 1 + 2 * (FinderMaxLen - FinderHash + 1)} :
          LET room == (BtLimit - bt.cur + places - 1) \div places
              n == Lesser(bt.left, room) IN
          bt' = [bt EXCEPT !.cur = @ + n * places, !.done = @ + n, !.left = @ - n,
                           !.avail = @ - n, !.pos = @ + n, !.ptr = @ + n]
    BY <1>4 DEF BtSearch
  <2> DEFINE room == (BtLimit - bt.cur + places - 1) \div places
             n == Lesser(bt.left, room)
  <2>2. places \in Nat /\ places > 0 BY <1>0
  <2>3. bt.cur \in Int /\ bt.left \in Int BY Fields DEF BtSet
  <2>4. room \in Int BY <1>0, <2>2, <2>3
  <2>5. n \in Int BY <2>3, <2>4 DEF Lesser
  <2>6. n * places \in Int BY <2>2, <2>5
  <2>7. bt' = [bt EXCEPT !.cur = @ + n * places, !.done = @ + n, !.left = @ - n,
                           !.avail = @ - n, !.pos = @ + n, !.ptr = @ + n]
    BY <2>1
  <2> HIDE DEF n
  <2>8. PICK k : k = n * places OBVIOUS
  <2>9. bt' = [bt EXCEPT !.cur = @ + k, !.done = @ + n, !.left = @ - n,
                           !.avail = @ - n, !.pos = @ + n, !.ptr = @ + n]
    BY <2>7, <2>8
  <2>10. bt \in BtSet /\ k \in Int BY Fields, <2>6, <2>8
  <2>11. bt' \in BtSet
    <3>1. PICK c \in Int : c = bt.cur + k BY <2>3, <2>10
    <3>2. PICK d \in Int : d = bt.done + n BY <2>5, <2>10 DEF BtSet
    <3>3. PICK l \in Int, a \in Int : l = bt.left - n /\ a = bt.avail - n
      BY <2>5, <2>10 DEF BtSet
    <3>4. PICK p \in Int, q \in Int : p = bt.pos + n /\ q = bt.ptr + n
      BY <2>5, <2>10 DEF BtSet
    <3>5. [bt EXCEPT !.cur = c, !.done = d, !.left = l, !.avail = a, !.pos = p, !.ptr = q]
            \in BtSet
      BY <2>10 DEF BtSet
    <3> QED BY <2>9, <3>1, <3>2, <3>3, <3>4, <3>5
  <2> QED BY <1>4, <2>11 DEF BtSearch, FinderTypes
<1>5. CASE BtNeedHash
  <2>1. syncs' \in [Rings -> SyncSet] /\ NextBlockIndex("hash") \in Nat
    BY Fields, SyncTypes, <1>5 DEF BtNeedHash
  <2>2. NextBlockIndex("hash") % HashBlocks \in 0 .. HashBlocks - 1 BY <1>a, <2>1
  <2>3. bt' \in BtSet BY Fields, <1>5, <2>2 DEF BtNeedHash, BtSet, BtPcs
  <2> QED BY <1>5, <2>1, <2>3 DEF BtNeedHash, FinderTypes
<1>6. CASE BtTakeHash
  <2>1. syncs' \in [Rings -> SyncSet] BY Fields, SyncTypes, <1>6 DEF BtTakeHash
  <2>2. bt' \in BtSet
    <3> DEFINE h == hashBuf[bt.hashBlock]
               atEnd == h.avail < FinderHash
    <3>1. bt \in BtSet BY Fields
    <3>2. bt.cur \in Int /\ bt.done \in Int BY <3>1 DEF BtSet
    <3>3. PICK q \in BtPcs : q = IF atEnd THEN "done" ELSE "fill" BY DEF BtPcs
    <3>4. PICK a \in Int : a = IF atEnd THEN 0 ELSE h.avail BY <1>c
    <3>5. PICK c \in Int : c = IF atEnd THEN bt.cur + h.avail ELSE bt.cur BY <1>c, <3>2
    <3>6. PICK d \in Int : d = IF atEnd THEN bt.done + h.avail ELSE bt.done BY <1>c, <3>2
    <3>7. PICK m \in Int : m = bt.done + h.avail BY <1>c, <3>2
    <3>8. PICK k \in Int : k = h.num BY <1>c
    <3>9. bt' = [bt EXCEPT !.pc = q, !.left = k, !.avail = a, !.sum = m, !.cur = c, !.done = d]
      BY <1>6, <3>3, <3>4, <3>5, <3>6, <3>7, <3>8 DEF BtTakeHash
    <3>10. [bt EXCEPT !.pc = q, !.left = k, !.avail = a, !.sum = m, !.cur = c, !.done = d]
             \in BtSet
      BY <3>1 DEF BtSet
    <3> QED BY <3>9, <3>10
  <2> QED BY <1>6, <2>1, <2>2 DEF BtTakeHash, FinderTypes
<1>7. CASE BtDone
  <2>1. syncs' \in [Rings -> SyncSet]
    BY Fields, FilledTypes, <1>7 DEF BtDone
  <2>2. bt.block + 1 \in Nat /\ bt.pos \in Int /\ bt.done \in Int /\ bt.sum \in Int
        /\ bt.cur \in Int /\ bt.block \in 0 .. BtBlocks - 1
    BY Fields, <1>0 DEF BtSet
  <2>3. (bt.block + 1) % BtBlocks \in 0 .. BtBlocks - 1 BY <1>a, <2>2
  <2>4. bt' \in BtSet BY Fields, <1>7, <2>3 DEF BtDone, BtSet, BtPcs
  <2> DEFINE b == [first |-> IF bt.pc = "done"
                             THEN bt.pos + hashBuf[bt.hashBlock].avail - bt.done
                             ELSE bt.pos - bt.done,
                   num |-> bt.done, avail |-> bt.sum, items |-> bt.cur]
  <2>5. b \in BtBlockSet BY <1>c, <2>2 DEF BtBlockSet
  <2>6. btBuf' = [btBuf EXCEPT ![bt.block] = b] BY <1>7 DEF BtDone
  <2> HIDE DEF b
  <2>7. btBuf' \in [0 .. BtBlocks - 1 -> BtBlockSet] BY <2>2, <2>5, <2>6 DEF FinderTypes
  <2> QED BY <1>7, <2>1, <2>4, <2>7 DEF BtDone, FinderTypes
<1>8. CASE BtStopHash
  <2>1. bt' \in BtSet BY Fields, <1>8 DEF BtStopHash, BtSet, BtPcs
  <2>2. [syncs EXCEPT !["bt"].wasStopped = TRUE] \in [Rings -> SyncSet]
    BY Fields DEF SyncSet
  <2>3. SendStop("hash") \in [Rings -> SyncSet] BY Fields, SyncTypes
  <2>4. syncs' \in [Rings -> SyncSet] BY <1>8, <2>2, <2>3 DEF BtStopHash
  <2> QED BY <1>8, <2>1, <2>4 DEF BtStopHash, FinderTypes
<1>9. CASE BtStopped
  <2>1. bt' \in BtSet BY Fields, <1>9 DEF BtStopped, BtSet, BtPcs
  <2>2. PICK s \in [Rings -> SyncSet] : s = HasStopped("hash") BY Fields, SyncTypes
  <2>3. syncs' \in [Rings -> SyncSet]
    <3>1. syncs' = [s EXCEPT !["bt"].wasStopped = TRUE] BY <1>9, <2>2 DEF BtStopped
    <3>2. [s EXCEPT !["bt"].wasStopped = TRUE] \in [Rings -> SyncSet]
      BY Fields DEF SyncSet
    <3> QED BY <3>1, <3>2
  <2> QED BY <1>9, <2>1, <2>3 DEF BtStopped, FinderTypes
<1> QED BY <1>1, <1>2, <1>3, <1>4, <1>5, <1>6, <1>7, <1>8, <1>9 DEF BtStep

LEMMA HashTypes ==
  ASSUME FinderTypes, HashStep
  PROVE FinderTypes'
<1>0. /\ HashBlocks \in Nat \ {0} /\ 0 \in 0 .. HashBlocks - 1 /\ FinderHash \in Nat
      /\ HashBlockSize \in Nat /\ KeepBefore \in Int
  BY Sizes
<1>a. \A n \in Nat : n % HashBlocks \in 0 .. HashBlocks - 1 BY <1>0
<1>b. /\ window.base \in Int /\ window.buffer \in Int /\ window.read \in Int
      /\ window.end \in BOOLEAN
  BY Fields DEF WindowSet
<1>c. hasher.block \in 0 .. HashBlocks - 1 /\ hasher.block + 1 \in Nat
  BY Fields, <1>0 DEF HasherSet
<1>1. CASE HashStart
  <2>1. hasher' \in HasherSet BY Fields, <1>0, <1>1 DEF HashStart, HasherSet, HasherPcs
  <2>2. syncs' \in [Rings -> SyncSet] BY Fields, <1>1 DEF HashStart, SyncSet
  <2> QED BY <1>1, <2>1, <2>2 DEF HashStart, FinderTypes
<1>2. CASE HashLockBt
  <2>1. hasher' \in HasherSet BY Fields, <1>2 DEF HashLockBt, HasherSet, HasherPcs
  <2>2. syncs' \in [Rings -> SyncSet] BY Fields, <1>2 DEF HashLockBt, SyncSet
  <2> QED BY <1>2, <2>1, <2>2 DEF HashLockBt, FinderTypes
<1>3. CASE HashMove
  <2>1. hasher' \in HasherSet BY Fields, <1>3 DEF HashMove, HasherSet, HasherPcs
  <2>2. syncs' \in [Rings -> SyncSet] BY Fields, <1>3 DEF HashMove, SyncSet
  <2>3. lz' \in LzSet BY Fields, <1>0, <1>b, <1>3 DEF HashMove, LzSet
  <2>4. bt' \in BtSet BY Fields, <1>0, <1>b, <1>3 DEF HashMove, BtSet
  <2>5. window' \in WindowSet
    <3>1. PICK o \in Int : o = window.base + (window.buffer - KeepBefore) BY <1>0, <1>b
    <3>2. window' = [window EXCEPT !.base = o, !.buffer = KeepBefore]
      BY <1>3, <3>1 DEF HashMove
    <3>3. window \in WindowSet BY Fields
    <3> QED BY <1>0, <3>2, <3>3 DEF WindowSet
  <2> QED BY <1>3, <2>1, <2>2, <2>3, <2>4, <2>5 DEF HashMove, FinderTypes
<1>4. CASE HashFill
  <2>1. [syncs EXCEPT !["hash"].free = @ - 1] \in [Rings -> SyncSet] BY Fields DEF SyncSet
  <2>2. Filled([syncs EXCEPT !["hash"].free = @ - 1], "hash") \in [Rings -> SyncSet]
    BY Fields, FilledTypes, <2>1
  <2>3. syncs' \in [Rings -> SyncSet] BY <1>4, <2>1, <2>2 DEF HashFill
  <2>4. (hasher.block + 1) % HashBlocks \in 0 .. HashBlocks - 1 BY <1>a, <1>c
  <2>5. hasher' \in HasherSet BY Fields, <1>4, <2>4 DEF HashFill, HasherSet, HasherPcs
  <2>6. window' \in WindowSet /\ hashBuf' \in [0 .. HashBlocks - 1 -> HashBlockSet]
    <3>1. CASE syncs["hash"].stop BY <1>4, <3>1 DEF HashFill, FinderTypes
    <3>2. CASE ~syncs["hash"].stop
      <4>1. PICK n \in 0 .. lz.size :
             LET read == window.read + n
                 avail == read - Position
                 num == IF avail >= FinderHash
                        THEN Lesser(avail - FinderHash + 1, HashBlockSize - 2) ELSE 0 IN
             /\ window' = [window EXCEPT !.read = read,
                  !.end = @ \/ avail <= KeepAfter,
                  !.buffer = @ + IF num > 0 THEN num ELSE avail]
             /\ hashBuf' = [hashBuf EXCEPT ![hasher.block] =
                  [first |-> Position, num |-> num, avail |-> avail]]
        BY <1>4, <3>2 DEF HashFill
      <4> DEFINE read == window.read + n
                 avail == read - Position
                 num == IF avail >= FinderHash
                        THEN Lesser(avail - FinderHash + 1, HashBlockSize - 2) ELSE 0
      <4>2. n \in Int BY Fields DEF LzSet
      <4>3. read \in Int /\ avail \in Int /\ Position \in Int BY <1>b, <4>2 DEF Position
      <4>4. num \in Int BY <1>0, <4>3 DEF Lesser
      <4> HIDE DEF read, avail, num
      <4>5. PICK e \in BOOLEAN : e = (window.end \/ avail <= KeepAfter) BY <1>b
      <4>6. PICK m \in Int : m = window.buffer + (IF num > 0 THEN num ELSE avail)
        BY <1>b, <4>3, <4>4
      <4>7. window' = [window EXCEPT !.read = read, !.end = e, !.buffer = m]
        BY Fields, <4>1, <4>5, <4>6 DEF WindowSet, read, avail, num
      <4>8. hashBuf' = [hashBuf EXCEPT ![hasher.block] =
                  [first |-> Position, num |-> num, avail |-> avail]]
        BY <4>1 DEF read, avail, num
      <4>9. window' \in WindowSet BY Fields, <4>3, <4>7 DEF WindowSet
      <4>10. [first |-> Position, num |-> num, avail |-> avail] \in HashBlockSet
        BY <4>3, <4>4 DEF HashBlockSet
      <4>11. hashBuf' \in [0 .. HashBlocks - 1 -> HashBlockSet]
        BY <1>c, <4>8, <4>10 DEF FinderTypes
      <4> QED BY <4>9, <4>11
    <3> QED BY <3>1, <3>2
  <2> QED BY <1>4, <2>3, <2>5, <2>6 DEF HashFill, FinderTypes
<1>5. CASE HashStopped
  <2>1. hasher' \in HasherSet BY Fields, <1>5 DEF HashStopped, HasherSet, HasherPcs
  <2>2. syncs' \in [Rings -> SyncSet] BY Fields, <1>5 DEF HashStopped, SyncSet
  <2> QED BY <1>5, <2>1, <2>2 DEF HashStopped, FinderTypes
<1> QED BY <1>1, <1>2, <1>3, <1>4, <1>5 DEF HashStep

-----------------------------------------------------------------------------
(* The numbers in the variables                                              *)
LEMMA Numbers ==
  ASSUME FinderTypes
  PROVE /\ lz.pc \in LzPcs /\ lz.pos \in Int /\ lz.ptr \in Int /\ lz.left \in Int
        /\ lz.avail \in Int /\ lz.size \in Nat /\ lz.block \in 0 .. BtBlocks - 1
        /\ bt.pc \in BtPcs /\ bt.block \in 0 .. BtBlocks - 1
        /\ bt.hashBlock \in 0 .. HashBlocks - 1
        /\ bt.pos \in Int /\ bt.ptr \in Int /\ bt.left \in Int /\ bt.avail \in Int
        /\ bt.cur \in Int /\ bt.done \in Int /\ bt.sum \in Int
        /\ hasher.pc \in HasherPcs /\ hasher.block \in 0 .. HashBlocks - 1
        /\ window.base \in Int /\ window.buffer \in Int /\ window.read \in Int
        /\ window.end \in BOOLEAN /\ Position \in Int
<1>1. lz \in LzSet /\ bt \in BtSet /\ hasher \in HasherSet /\ window \in WindowSet BY Fields
<1> QED BY <1>1 DEF LzSet, BtSet, HasherSet, WindowSet, Position

LEMMA SyncNumbers ==
  ASSUME FinderTypes
  PROVE /\ syncs["hash"].free \in Int /\ syncs["hash"].filled \in Int
        /\ syncs["hash"].processed \in Nat /\ syncs["hash"].needStart \in BOOLEAN
        /\ syncs["hash"].canStart \in BOOLEAN
        /\ syncs["bt"].free \in Int /\ syncs["bt"].filled \in Int
        /\ syncs["bt"].processed \in Nat /\ syncs["bt"].needStart \in BOOLEAN
        /\ syncs["bt"].canStart \in BOOLEAN
        /\ HashLive \in Int /\ BtLive \in Int /\ Busy \in {0, 1}
<1>1. syncs["hash"] \in SyncSet /\ syncs["bt"] \in SyncSet BY Fields
<1> QED BY <1>1 DEF SyncSet, HashLive, BtLive, Busy

LEMMA Entries ==
  ASSUME FinderTypes, NEW k \in Int
  PROVE /\ k \in 0 .. HashBlocks =>
             Hash(k).first \in Int /\ Hash(k).num \in Int /\ Hash(k).avail \in Int
               /\ Covered(Hash(k)) \in Int /\ HashEnd(Hash(k)) \in Int
        /\ k \in 0 .. BtBlocks =>
             Block(k).first \in Int /\ Block(k).num \in Int /\ Block(k).avail \in Int
               /\ Block(k).items \in Int /\ BlockEnd(Block(k)) \in Int
        /\ Hash(0) = hashBuf[bt.hashBlock] /\ Block(0) = btBuf[lz.block]
<1>1. HashBlocks \in Nat \ {0} /\ BtBlocks \in Nat \ {0} BY Sizes
<1>2. bt.hashBlock \in 0 .. HashBlocks - 1 /\ lz.block \in 0 .. BtBlocks - 1 BY Numbers
<1>3. ASSUME k \in 0 .. HashBlocks
      PROVE Hash(k).first \in Int /\ Hash(k).num \in Int /\ Hash(k).avail \in Int
              /\ Covered(Hash(k)) \in Int /\ HashEnd(Hash(k)) \in Int
  <2>1. Behind(bt.hashBlock, k, HashBlocks) \in 0 .. HashBlocks - 1
    BY RingPlace, <1>1, <1>2, <1>3
  <2>2. Hash(k) \in HashBlockSet BY <2>1 DEF Hash, FinderTypes
  <2>3. Hash(k).first \in Int /\ Hash(k).num \in Int /\ Hash(k).avail \in Int
    BY <2>2 DEF HashBlockSet
  <2> QED BY <2>3 DEF Covered, HashEnd
<1>4. ASSUME k \in 0 .. BtBlocks
      PROVE Block(k).first \in Int /\ Block(k).num \in Int /\ Block(k).avail \in Int
              /\ Block(k).items \in Int /\ BlockEnd(Block(k)) \in Int
  <2>1. Behind(lz.block, k, BtBlocks) \in 0 .. BtBlocks - 1
    BY RingPlace, <1>1, <1>2, <1>4
  <2>2. Block(k) \in BtBlockSet BY <2>1 DEF Block, FinderTypes
  <2>3. Block(k).first \in Int /\ Block(k).num \in Int /\ Block(k).avail \in Int
          /\ Block(k).items \in Int
    BY <2>2 DEF BtBlockSet
  <2> QED BY <2>3 DEF BlockEnd
<1>5. Behind(bt.hashBlock, 0, HashBlocks) = bt.hashBlock /\ Behind(lz.block, 0, BtBlocks) = lz.block
  BY <1>1, <1>2 DEF Behind
<1> QED BY <1>3, <1>4, <1>5 DEF Hash, Block

(* The position of the tree thread and the blocks of its ring                *)
LEMMA CurNumber ==
  ASSUME FinderTypes
  PROVE Cur \in Int /\ Pending \in Int
<1>1. HashEnd(Hash(0)) \in Int /\ Hash(0).first \in Int BY Entries, Sizes
<1>2. bt.left \in Int /\ bt.done \in Int /\ Position \in Int BY Numbers
<1> QED BY <1>1, <1>2 DEF Cur, Pending

CurTyped == Cur \in Int /\ Pending \in Int
LEMMA CurAlways == FinderTypes => CurTyped
BY CurNumber DEF CurTyped

LEMMA CurNumberNext ==
  ASSUME FinderTypes'
  PROVE Cur' \in Int /\ Pending' \in Int
<1>1. CurTyped' BY CurAlways, PTL
<1> QED BY <1>1 DEF CurTyped

LEMMA NumbersNext ==
  ASSUME FinderTypes'
  PROVE /\ window'.read \in Int /\ syncs'["bt"].free \in Int /\ Busy' \in {0, 1}
<1>1. window' \in WindowSet /\ syncs'["bt"] \in SyncSet BY DEF FinderTypes, Rings
<1> QED BY <1>1 DEF WindowSet, SyncSet, Busy

LEMMA HashRoom ==
  ASSUME FinderTypes, HashPlaces
  PROVE HashLive \in 0 .. HashBlocks /\ (Holding => HashLive > 0)
          /\ syncs["hash"].filled >= 0
<1>1. HashBlocks \in Nat BY Sizes
<1> QED BY <1>1, SyncNumbers DEF HashPlaces, HashLive, Holding

LEMMA BtRoom ==
  ASSUME FinderTypes, BtPlaces
  PROVE BtLive \in 0 .. BtBlocks /\ BtLive + Busy <= BtBlocks /\ syncs["bt"].filled >= 0
BY SyncNumbers, Sizes DEF BtPlaces, BtLive

(* A step that leaves the hash ring and the position of the tree thread      *)
(* alone.                                                                    *)
HashFrame ==
  /\ bt'.pos = bt.pos /\ bt'.left = bt.left /\ bt'.avail = bt.avail
  /\ bt'.hashBlock = bt.hashBlock
  /\ \/ bt'.pc = bt.pc /\ bt'.done = bt.done /\ bt'.cur = bt.cur /\ bt'.sum = bt.sum
     \/ bt.pc \notin {"fill", "wait", "done"} /\ bt'.pc \notin {"fill", "wait", "done"}
  /\ window' = window /\ hashBuf' = hashBuf /\ lz'.size = lz.size
  /\ hasher'.block = hasher.block
  /\ syncs'["hash"].needStart = syncs["hash"].needStart
  /\ syncs'["hash"].canStart = syncs["hash"].canStart
  /\ syncs'["hash"].free = syncs["hash"].free
  /\ syncs'["hash"].filled = syncs["hash"].filled
  /\ syncs'["hash"].processed = syncs["hash"].processed

LEMMA HashSame ==
  ASSUME Control', HashFrame
  PROVE /\ HashSide => HashSide'
        /\ HashLive' = HashLive /\ Cur' = Cur /\ Pending' = Pending
        /\ Hash(0)' = Hash(0)
<1>1. Holding' = Holding /\ Filling' = Filling /\ Pending' = Pending
      /\ Position' = Position
  BY DEF HashFrame, Holding, Filling, Pending, Position
<1>2. HashLive' = HashLive BY <1>1 DEF HashFrame, HashLive
<1>3. \A k : Hash(k)' = Hash(k) BY DEF HashFrame, Hash
<1>4. Hash(0)' = Hash(0) BY <1>3
<1>5. Cur' = Cur BY <1>1, <1>4 DEF HashFrame, Cur, HashEnd, Covered
<1>6. HashPlaces => HashPlaces'
  <2>1. syncs'["hash"].canStart => hasher'.pc = "start" BY DEF Control, Phases
  <2> QED BY <1>1, <1>2, <2>1 DEF HashFrame, HashPlaces, Filling
<1>7. HashChain => HashChain'
  <2>1. \A k : HashSound(Hash(k))' = HashSound(Hash(k))
    BY <1>3 DEF HashFrame, HashSound
  <2>2. \A k : HashEnd(Hash(k))' = HashEnd(Hash(k)) BY <1>3 DEF HashEnd, Covered
  <2> QED BY <1>1, <1>2, <1>3, <2>1, <2>2 DEF HashFrame, HashChain
<1>8. BtSound => BtSound' BY <1>1, <1>4, <1>5 DEF HashFrame, BtSound, Filling
<1>9. Kept(bt.pos) => Kept(bt.pos)' BY DEF HashFrame, Kept
<1> QED BY <1>2, <1>4, <1>5, <1>6, <1>7, <1>8, <1>9, <1>1 DEF HashSide

(* A step that leaves the blocks of the caller alone: the tree thread may be *)
(* at work on its block.                                                     *)
BtFrame ==
  /\ lz'.pc = lz.pc /\ lz'.pos = lz.pos /\ lz'.left = lz.left /\ lz'.avail = lz.avail
  /\ lz'.block = lz.block /\ lz'.size = lz.size
  /\ btBuf' = btBuf /\ bt'.block = bt.block
  /\ (bt'.pc = "start") = (bt.pc = "start")
  /\ syncs'["bt"].needStart = syncs["bt"].needStart
  /\ syncs'["bt"].canStart = syncs["bt"].canStart
  /\ syncs'["bt"].filled = syncs["bt"].filled
  /\ syncs'["bt"].processed = syncs["bt"].processed
  /\ syncs'["bt"].free + Busy' = syncs["bt"].free + Busy /\ syncs'["bt"].free >= 0
  /\ window.read <= window'.read /\ (window.end => window'.end)

Follows ==
  /\ Cur' - Pending' = Cur - Pending
  /\ Over => Cur' = lz.size /\ Pending' = 0
  /\ bt'.pc # "done" /\ Cur' # bt'.pos => Over
  /\ bt'.pc = "done" => Over \/ bt'.pos = Hash(0)'.first

LEMMA BlocksSame ==
  ASSUME BtFrame
  PROVE /\ BtLive' = BtLive /\ (\A k : Block(k)' = Block(k))
        /\ Over' = Over /\ Reached' = Reached
        /\ \A k : AtEnd(Block(k))' = AtEnd(Block(k))
<1>1. BtLive' = BtLive BY DEF BtFrame, BtLive
<1>2. \A k : Block(k)' = Block(k) BY DEF BtFrame, Block
<1>3. \A k : AtEnd(Block(k))' = AtEnd(Block(k)) BY <1>2 DEF BtFrame, AtEnd, BlockEnd
<1>4. Last' = Last BY <1>1, <1>2 DEF BtFrame, Last, Block
<1>5. Over' = Over BY <1>1, <1>4 DEF BtFrame, Over, AtEnd, BlockEnd
<1>6. Reached' = Reached BY <1>1, <1>4 DEF BtFrame, Reached, BlockEnd
<1> QED BY <1>1, <1>2, <1>3, <1>5, <1>6

LEMMA BtSame ==
  ASSUME FinderTypes, FinderTypes', BtPlaces, BlockChain, BtFrame, Follows
  PROVE BtPlaces' /\ BlockChain'
<1>1. BtLive' = BtLive /\ (\A k : Block(k)' = Block(k)) /\ Over' = Over /\ Reached' = Reached
      /\ \A k : AtEnd(Block(k))' = AtEnd(Block(k))
  BY BlocksSame
<1>2. BtLive \in 0 .. BtBlocks BY BtRoom
<1>3. BtPlaces'
  <2>1. Busy \in {0, 1} /\ Busy' \in {0, 1} /\ BtLive \in Int
        /\ syncs["bt"].free \in Int /\ syncs'["bt"].free \in Int
    BY SyncNumbers, NumbersNext
  <2>2. syncs'["bt"].free + BtLive' + Busy' = BtBlocks
    BY <1>1, <2>1 DEF BtFrame, BtPlaces
  <2> QED BY <1>1, <2>2 DEF BtFrame, BtPlaces
<1>4. \A k \in 0 .. BtLive : BlockSound(Block(k)) => BlockSound(Block(k))'
  <2> TAKE k \in 0 .. BtLive
  <2>1. Block(k).first \in Int /\ Block(k).avail \in Int
        /\ window.read \in Int /\ window'.read \in Int
    BY <1>2, Entries, Numbers, NumbersNext, Sizes
  <2> QED BY <1>1, <2>1 DEF BtFrame, BlockSound
<1>5. Cur \in Int /\ Pending \in Int /\ Cur' \in Int /\ Pending' \in Int
  BY CurNumber, CurNumberNext
<1>6. /\ lz'.pc = "ready" =>
           /\ BlockSound(Block(0))' /\ 0 <= lz'.left /\ lz'.left <= Block(0)'.num
           /\ lz'.pos = BlockEnd(Block(0))' - lz'.left
           /\ lz'.pos + lz'.avail = Block(0)'.first + Block(0)'.avail
      /\ lz'.pc = "wait" => /\ lz'.left = 0
                            /\ BtLive' > 0 => BlockSound(Block(0))' /\ Block(0)'.first = lz'.pos
  <2>1. Block(0)' = Block(0) /\ BlockEnd(Block(0))' = BlockEnd(Block(0))
        /\ (BlockSound(Block(0)) => BlockSound(Block(0))')
    BY <1>1, <1>2, <1>4 DEF BlockEnd
  <2> QED BY <1>1, <2>1 DEF BtFrame, BlockChain
<1>7. \A k \in 1 .. BtLive' - 1 :
        \/ AtEnd(Block(k - 1))'
        \/ BlockSound(Block(k))' /\ Block(k)'.first = BlockEnd(Block(k - 1))'
  <2> SUFFICES ASSUME NEW k \in 1 .. BtLive - 1
               PROVE  \/ AtEnd(Block(k - 1))'
                      \/ BlockSound(Block(k))' /\ Block(k)'.first = BlockEnd(Block(k - 1))'
    BY <1>1
  <2>1. k \in 0 .. BtLive /\ Block(k)' = Block(k) /\ Block(k - 1)' = Block(k - 1)
    BY <1>1, <1>2
  <2>2. \/ AtEnd(Block(k - 1))
        \/ BlockSound(Block(k)) /\ Block(k).first = BlockEnd(Block(k - 1))
    BY DEF BlockChain
  <2>3. AtEnd(Block(k - 1))' = AtEnd(Block(k - 1)) BY <1>1
  <2> QED BY <1>4, <2>1, <2>2, <2>3 DEF BlockEnd
<1>8. /\ IF Over' THEN Cur' = lz'.size /\ Pending' = 0 ELSE Reached' = Cur' - Pending'
      /\ bt'.pc # "done" /\ Cur' # bt'.pos => Over'
      /\ bt'.pc = "done" => Over' \/ bt'.pos = Hash(0)'.first
  BY <1>1, <1>5 DEF BtFrame, Follows, BlockChain
<1>9. ~window'.end => \A k \in 0 .. BtLive' - 1 :
        Cur' - Pending' - Block(k)'.first <= (BtLive' - k) * BtBlockSize
  <2>1. window'.end \/ ~window.end BY DEF BtFrame
  <2>2. \A k : Block(k)'.first = Block(k).first BY <1>1
  <2> QED BY <1>1, <1>5, <2>1, <2>2 DEF Follows, BlockChain
<1>10. BlockChain' BY <1>6, <1>7, <1>8, <1>9 DEF BlockChain
<1> QED BY <1>3, <1>10

-----------------------------------------------------------------------------
(* What the calls of MtSync do to the counts of a ring                       *)
LEMMA Gives ==
  ASSUME FinderTypes, NEW r \in Rings, syncs' = GiveBlock(r)
  PROVE /\ \A q \in Rings : q # r => syncs'[q] = syncs[q]
        /\ ~syncs'[r].needStart /\ syncs'[r].filled = syncs[r].filled
        /\ syncs[r].needStart => syncs'[r].canStart /\ syncs'[r].processed = 1
                                   /\ syncs'[r].free = syncs[r].free
        /\ ~syncs[r].needStart =>
             /\ syncs'[r].canStart = syncs[r].canStart
             /\ syncs'[r].processed = syncs[r].processed + 1
             /\ syncs'[r].free = IF syncs[r].free < NumBlocks(r)
                                 THEN syncs[r].free + 1 ELSE syncs[r].free
<1>1. syncs \in [Rings -> SyncSet] BY Fields
<1>2. CASE syncs[r].needStart
  BY <1>1, <1>2 DEF GiveBlock, SyncSet
<1>3. CASE ~syncs[r].needStart
  BY <1>1, <1>3 DEF GiveBlock, Release, Unlock, SyncSet
<1> QED BY <1>2, <1>3

LEMMA Takes ==
  ASSUME FinderTypes, NEW r \in Rings, NEW who, syncs' = TakeBlock(r, who)
  PROVE /\ \A q \in Rings : q # r => syncs'[q] = syncs[q]
        /\ syncs'[r].needStart = syncs[r].needStart /\ syncs'[r].canStart = syncs[r].canStart
        /\ syncs'[r].filled = syncs[r].filled - 1 /\ syncs'[r].free = syncs[r].free
        /\ syncs'[r].processed = syncs[r].processed
<1>1. syncs \in [Rings -> SyncSet] BY Fields
<1> QED BY <1>1 DEF TakeBlock, SyncSet

(* The parts of the invariant that are about the work of the threads         *)
Works ==
  /\ WindowSound
  /\ Active => HashSide
  /\ Serving => BtSide
  /\ lz.pc = "ready" /\ syncs["bt"].needStart => Unstarted

LEMMA WindowSame ==
  ASSUME WindowSound, window' = window, lz'.pos = lz.pos, lz'.ptr = lz.ptr,
         lz'.size = lz.size, bt'.pos = bt.pos, bt'.ptr = bt.ptr,
         hasher'.pc = "move" => hasher.pc = "move"
  PROVE WindowSound'
BY DEF WindowSound, Position, NeedMove

-----------------------------------------------------------------------------
(* The steps of the caller                                                   *)
LEMMA StartFinderWorks ==
  ASSUME FinderTypes, Control, Works, StartFinder, Control'
  PROVE Works'
<1>1. PICK n \in StreamSizes :
        lz' = [pc |-> "ready", starts |-> lz.starts + 1, pos |-> 0, ptr |-> 0,
               block |-> 0, left |-> 0, avail |-> 0, size |-> n]
  BY DEF StartFinder
<1>2. /\ lz'.pc = "ready" /\ lz'.pos = 0 /\ lz'.ptr = 0 /\ lz'.left = 0 /\ lz'.size = n
      /\ n \in Nat
  BY <1>1, Sizes
<1>3. bt \in BtSet /\ bt' = [bt EXCEPT !.pos = 0, !.ptr = 0, !.left = 0, !.avail = 0]
  BY Fields DEF StartFinder
<1>4. bt'.pos = 0 /\ bt'.ptr = 0 /\ bt'.left = 0 /\ bt'.avail = 0 /\ bt'.pc = bt.pc
  BY <1>3 DEF BtSet
<1>5. window' = [base |-> 0, buffer |-> 0, read |-> 0, end |-> FALSE] /\ hasher' = hasher
      /\ hashBuf' = hashBuf
  BY DEF StartFinder
<1>6. /\ window'.base = 0 /\ window'.buffer = 0 /\ window'.read = 0 /\ window'.end = FALSE
      /\ Position' = 0
  BY <1>5 DEF Position
<1>7. lz.pc = "off" BY DEF StartFinder
<1>8. syncs["bt"].needStart /\ syncs["hash"].needStart BY <1>7 DEF Control, Phases
<1>9. bt.pc \in {"start", "gone"} /\ hasher.pc \in {"start", "gone"}
  BY <1>8 DEF Control, Phases
<1>10. ~syncs["bt"].entered /\ ~syncs["hash"].entered
  BY <1>7, <1>8 DEF Control, Locks
<1>11. Startable BY <1>8, <1>10, Fields DEF Startable
<1>12. syncs' = [r \in Rings |-> [syncs[r] EXCEPT !.free = NumBlocks(r), !.filled = 0]]
  BY <1>11 DEF StartFinder
<1>13. /\ syncs'["bt"].needStart /\ syncs'["hash"].needStart
       /\ syncs'["bt"].free = BtBlocks /\ syncs'["hash"].free = HashBlocks
       /\ syncs'["bt"].filled = 0 /\ syncs'["hash"].filled = 0
  BY Fields, <1>8, <1>12 DEF SyncSet, NumBlocks
<1>14. WindowSound'
  BY <1>2, <1>4, <1>5, <1>6, <1>9, Sizes DEF WindowSound
<1>15. HashSide'
  <2>1. ~Filling' /\ ~Holding' BY <1>4, <1>9, <1>13 DEF Filling, Holding
  <2>2. HashPlaces' BY <1>4, <1>6, <1>13, <2>1 DEF HashPlaces
  <2>3. HashLive' = 0 BY <1>13, <2>1 DEF HashLive
  <2>4. HashChain' BY <2>3 DEF HashChain
  <2>5. Cur' = 0 BY <1>6, <1>13, <2>1 DEF Cur
  <2>6. BtSound' BY <1>4, <1>9, <2>1, <2>5 DEF BtSound
  <2>7. Kept(bt.pos)' BY <1>6 DEF Kept
  <2> QED BY <2>2, <2>4, <2>6, <2>7 DEF HashSide
<1>16. ~Serving' BY <1>13 DEF Serving
<1>17. Unstarted' BY <1>2, <1>13 DEF Unstarted
<1> QED BY <1>14, <1>15, <1>16, <1>17 DEF Works

(* MatchFinderMt_GetNextBlock_Bt up to its wait: the block that was done is  *)
(* given back, and the next is the one behind it.                            *)
LEMMA NeedBtBlockWorks ==
  ASSUME FinderTypes, Control, Works, NeedBtBlock, Control'
  PROVE Works'
<1>1. /\ lz.pc = "ready" /\ lz.left = 0 /\ (syncs["bt"].needStart \/ lz.avail > 0)
      /\ syncs' = GiveBlock("bt") /\ bt' = bt /\ hasher' = hasher /\ window' = window
      /\ hashBuf' = hashBuf /\ btBuf' = btBuf
  BY DEF NeedBtBlock
<1>2. /\ lz'.pc = "wait" /\ lz'.block = NextBlockIndex("bt") % BtBlocks
      /\ lz'.pos = lz.pos /\ lz'.ptr = lz.ptr /\ lz'.left = 0 /\ lz'.size = lz.size
  BY <1>1, Fields DEF NeedBtBlock, LzSet
<1>3. syncs'["hash"] = syncs["hash"] BY Gives, Fields, <1>1
<1>4. HashFrame BY <1>1, <1>2, <1>3 DEF HashFrame
<1>5. WindowSound' BY WindowSame, <1>1, <1>2 DEF Works
<1>6. HashSide BY <1>1 DEF Works, Active
<1>7. HashSide' /\ Cur' = Cur /\ Pending' = Pending /\ Hash(0)' = Hash(0)
  BY HashSame, <1>4, <1>6
<1>8. Kept(lz.pos)' = Kept(lz.pos) BY <1>1, <1>2 DEF Kept
<1>9. /\ ~syncs'["bt"].needStart /\ syncs'["bt"].filled = syncs["bt"].filled
      /\ syncs["bt"].needStart => syncs'["bt"].canStart /\ syncs'["bt"].processed = 1
                                   /\ syncs'["bt"].free = syncs["bt"].free
      /\ ~syncs["bt"].needStart =>
             /\ syncs'["bt"].canStart = syncs["bt"].canStart
             /\ syncs'["bt"].processed = syncs["bt"].processed + 1
             /\ syncs'["bt"].free = IF syncs["bt"].free < BtBlocks
                                 THEN syncs["bt"].free + 1 ELSE syncs["bt"].free
  BY Gives, Fields, <1>1 DEF NumBlocks
<1>10. BtBlocks \in Nat \ {0} BY Sizes
<1>11. CASE syncs["bt"].needStart
  <2>1. Unstarted BY <1>1, <1>11 DEF Works
  <2>2. bt.pc = "start" BY <1>1, <1>11 DEF Control, Phases
  <2>3. lz'.block = 0 BY <1>2, <1>10, <1>11, RingCount DEF NextBlockIndex
  <2>4. BtLive' = 0 /\ Busy' = 0 BY <1>1, <1>2, <1>9, <2>1, <2>2 DEF BtLive, Busy, Unstarted
  <2>5. BtPlaces'
    <3>1. (1 - 1) % BtBlocks = 0 BY <1>10, RingCount
    <3> QED BY <1>1, <1>2, <1>9, <1>10, <1>11, <2>1, <2>2, <2>3, <2>4, <3>1
        DEF BtPlaces, Unstarted
  <2>6. ~Over' /\ Reached' = 0 BY <1>2, <2>1, <2>4 DEF Over, Reached, Unstarted
  <2>7. HashPlaces BY <1>6 DEF HashSide
  <2>8. Cur = 0 /\ Pending = 0 /\ bt.pos = 0
    BY <2>1, <2>2, <2>7 DEF HashPlaces, Cur, Pending, Holding, Filling, Position, Unstarted
  <2>9. BlockChain' BY <1>1, <1>2, <1>7, <2>2, <2>4, <2>6, <2>8 DEF BlockChain
  <2>10. Kept(lz.pos) BY <2>1, <2>7 DEF Kept, HashPlaces, Unstarted
  <2> QED BY <1>2, <1>5, <1>7, <1>8, <2>5, <2>9, <2>10 DEF Works, BtSide
<1>12. CASE ~syncs["bt"].needStart
  <2>1. BtPlaces /\ BlockChain /\ Kept(lz.pos) BY <1>1, <1>12 DEF Works, Serving, BtSide
  <2>2. bt.pc # "start" BY <1>1, <2>1 DEF BtPlaces
  <2>3. BtLive \in 1 .. BtBlocks /\ BtLive + Busy <= BtBlocks /\ BtLive = syncs["bt"].filled + 1
    BY BtRoom, <1>1, <2>1, SyncNumbers DEF BtLive
  <2>4. BtLive' = BtLive - 1 /\ Busy' = Busy
    BY <1>1, <1>2, <1>9, <2>3, SyncNumbers DEF BtLive, Busy
  <2>5. lz'.block = Behind(lz.block, 1, BtBlocks)
    <3>1. syncs["bt"].processed \in Nat \ {0} BY <2>1, SyncNumbers DEF BtPlaces
    <3> QED BY <1>2, <1>10, <1>12, <2>1, <3>1, RingCount DEF NextBlockIndex, BtPlaces
  <2>6. \A k \in 0 .. BtBlocks - 1 : Block(k)' = Block(k + 1)
    BY <1>1, <1>10, <2>5, RingNext, Numbers DEF Block
  <2>7. BtPlaces'
    <3>1. bt'.block = Behind(lz'.block, BtLive', BtBlocks)
      <4>1. BtLive - 1 \in 0 .. BtBlocks - 1 /\ (BtLive - 1) + 1 = BtLive BY <2>3, <1>10
      <4>2. Behind(Behind(lz.block, 1, BtBlocks), BtLive - 1, BtBlocks)
              = Behind(lz.block, BtLive, BtBlocks)
        BY RingNext, <1>10, Numbers, <4>1
      <4>3. bt.block = Behind(lz.block, BtLive, BtBlocks) BY <2>1, <2>2 DEF BtPlaces
      <4> QED BY <1>1, <2>4, <2>5, <4>2, <4>3
    <3>2. lz'.block = (syncs'["bt"].processed - 1) % BtBlocks
      BY <1>2, <1>9, <1>12, SyncNumbers DEF NextBlockIndex
    <3>3. syncs["bt"].free + BtLive + Busy = BtBlocks /\ syncs["bt"].free >= 0
          /\ syncs["bt"].filled >= 0
      BY <2>1 DEF BtPlaces
    <3>4. syncs'["bt"].free = syncs["bt"].free + 1
      BY <1>9, <1>10, <1>12, <2>3, <3>3, SyncNumbers
    <3> QED BY <1>1, <1>9, <1>12, <2>2, <2>3, <2>4, <3>1, <3>2, <3>3, <3>4, SyncNumbers
        DEF BtPlaces
  <2>8. Block(0).first \in Int /\ Block(0).num \in Int /\ Block(0).avail \in Int
    BY Entries, <1>10
  <2>9. lz.pos = BlockEnd(Block(0)) /\ ~AtEnd(Block(0))
    <3>1. /\ BlockSound(Block(0)) /\ lz.pos = BlockEnd(Block(0)) - lz.left
          /\ lz.pos + lz.avail = Block(0).first + Block(0).avail
      BY <1>1, <2>1 DEF BlockChain
    <3>2. window.read <= lz.size BY DEF Works, WindowSound
    <3> QED BY <1>1, <1>12, <2>8, <3>1, <3>2, Numbers DEF BlockSound, BlockEnd, AtEnd
  <2>10. BtLive > 1 => BlockSound(Block(1)) /\ Block(1).first = lz.pos
    <3>1. BtLive > 1 => 1 \in 1 .. BtLive - 1 BY <2>3
    <3> QED BY <2>1, <2>9, <3>1 DEF BlockChain
  <2>11. BtLive > 1 => Last' = Last
    <3> SUFFICES ASSUME BtLive > 1 PROVE Last' = Last OBVIOUS
    <3>1. PICK i \in 0 .. BtBlocks - 1 : i = BtLive - 2 BY <2>3, <1>10
    <3>2. i + 1 = BtLive - 1 /\ BtLive' - 1 = i BY <2>3, <2>4, <3>1
    <3>3. Block(i)' = Block(i + 1) BY <2>6
    <3> QED BY <3>2, <3>3 DEF Block, Last
  <2>12. window'.end = window.end /\ lz'.size = lz.size BY <1>1, <1>2
  <2>13. /\ Over' = Over
         /\ Reached' = Reached
    <3>1. CASE BtLive > 1
      <4>1. BtLive > 0 /\ BtLive' > 0 BY <2>3, <2>4, <3>1
      <4> QED BY <1>2, <2>11, <3>1, <4>1 DEF Over, Reached, AtEnd, BlockEnd
    <3>2. CASE ~(BtLive > 1)
      <4>1. BtLive = 1 /\ BtLive' = 0 BY <2>3, <2>4, <3>2
      <4>2. Last = Block(0) BY <4>1 DEF Last
      <4> QED BY <1>2, <2>9, <4>1, <4>2 DEF Over, Reached
    <3> QED BY <3>1, <3>2
  <2>14. BlockChain'
    <3>1. BtLive' > 0 => BlockSound(Block(0))' /\ Block(0)'.first = lz'.pos
      <4>1. Block(0)' = Block(1) BY <1>10, <2>6
      <4> QED BY <1>1, <1>2, <2>3, <2>4, <2>10, <4>1 DEF BlockSound
    <3>2. \A k \in 1 .. BtLive' - 1 :
            \/ AtEnd(Block(k - 1))'
            \/ BlockSound(Block(k))' /\ Block(k)'.first = BlockEnd(Block(k - 1))'
      <4> TAKE k \in 1 .. BtLive' - 1
      <4>1. k \in 0 .. BtBlocks - 1 /\ k - 1 \in 0 .. BtBlocks - 1 /\ k + 1 \in 1 .. BtLive - 1
            /\ (k - 1) + 1 = k /\ (k + 1) - 1 = k
        BY <1>10, <2>3, <2>4
      <4>2. Block(k)' = Block(k + 1) /\ Block(k - 1)' = Block(k) BY <2>6, <4>1
      <4>3. AtEnd(Block(k)) \/ (BlockSound(Block(k + 1)) /\ Block(k + 1).first = BlockEnd(Block(k)))
        BY <2>1, <4>1 DEF BlockChain
      <4> QED BY <1>1, <1>2, <4>2, <4>3 DEF BlockSound, AtEnd, BlockEnd
    <3>3. ~window'.end => \A k \in 0 .. BtLive' - 1 :
            Cur' - Pending' - Block(k)'.first <= (BtLive' - k) * BtBlockSize
      <4> SUFFICES ASSUME ~window'.end, NEW k \in 0 .. BtLive' - 1
                   PROVE  Cur' - Pending' - Block(k)'.first <= (BtLive' - k) * BtBlockSize
        OBVIOUS
      <4>1. k \in 0 .. BtBlocks - 1 /\ k + 1 \in 0 .. BtLive - 1 /\ BtLive - (k + 1) = BtLive' - k
        BY <1>10, <2>3, <2>4
      <4>2. Cur - Pending - Block(k + 1).first <= (BtLive - (k + 1)) * BtBlockSize
        BY <2>1, <2>12, <4>1 DEF BlockChain
      <4>3. Block(k)' = Block(k + 1) BY <2>6, <4>1
      <4> QED BY <1>7, <4>1, <4>2, <4>3
    <3>4. /\ IF Over' THEN Cur' = lz'.size /\ Pending' = 0 ELSE Reached' = Cur' - Pending'
          /\ bt'.pc # "done" /\ Cur' # bt'.pos => Over'
          /\ bt'.pc = "done" => Over' \/ bt'.pos = Hash(0)'.first
      BY <1>1, <1>2, <1>7, <2>1, <2>13 DEF BlockChain
    <3> QED BY <1>2, <3>1, <3>2, <3>3, <3>4 DEF BlockChain
  <2> QED BY <1>2, <1>5, <1>7, <1>8, <2>1, <2>7, <2>14 DEF Works, BtSide
<1> QED BY <1>11, <1>12

LEMMA GetNextBlockWorks ==
  ASSUME FinderTypes, Control, Works, GetNextBlock_Bt, Control'
  PROVE Works'
<1>1. /\ lz.pc = "wait" /\ CanTake("bt") /\ syncs' = TakeBlock("bt", "lz")
      /\ bt' = bt /\ hasher' = hasher /\ window' = window /\ hashBuf' = hashBuf /\ btBuf' = btBuf
  BY DEF GetNextBlock_Bt
<1>2. /\ lz'.pc = "ready" /\ lz'.block = lz.block /\ lz'.pos = lz.pos /\ lz'.ptr = lz.ptr
      /\ lz'.left = btBuf[lz.block].num /\ lz'.avail = btBuf[lz.block].avail /\ lz'.size = lz.size
  BY Fields DEF GetNextBlock_Bt, LzSet
<1>3. /\ syncs'["hash"] = syncs["hash"]
      /\ syncs'["bt"].needStart = syncs["bt"].needStart
      /\ syncs'["bt"].canStart = syncs["bt"].canStart
      /\ syncs'["bt"].filled = syncs["bt"].filled - 1 /\ syncs'["bt"].free = syncs["bt"].free
      /\ syncs'["bt"].processed = syncs["bt"].processed
  BY Takes, Fields, <1>1
<1>4. HashFrame BY <1>1, <1>2, <1>3 DEF HashFrame
<1>5. WindowSound' BY WindowSame, <1>1, <1>2 DEF Works
<1>6. HashSide BY <1>1 DEF Works, Active
<1>7. HashSide' /\ Cur' = Cur /\ Pending' = Pending /\ Hash(0)' = Hash(0)
  BY HashSame, <1>4, <1>6
<1>8. ~syncs["bt"].needStart BY <1>1 DEF Control, Phases
<1>9. BtPlaces /\ BlockChain /\ Kept(lz.pos) BY <1>1, <1>8 DEF Works, Serving, BtSide
<1>10. syncs["bt"].filled > 0 BY <1>1 DEF CanTake
<1>11. BtLive' = BtLive /\ BtLive > 0 /\ Busy' = Busy
  BY <1>1, <1>2, <1>3, <1>10, SyncNumbers DEF BtLive, Busy
<1>12. bt.pc # "start" BY <1>9, <1>11 DEF BtPlaces
<1>13. BtPlaces'
  BY <1>1, <1>2, <1>3, <1>9, <1>10, <1>11, <1>12, SyncNumbers DEF BtPlaces
<1>14. /\ \A k : Block(k)' = Block(k) BY <1>1, <1>2 DEF Block
<1>15. Last' = Last /\ Over' = Over /\ Reached' = Reached
  <2>1. Last' = Last BY <1>1, <1>2, <1>11 DEF Last, Block
  <2> QED BY <1>2, <1>11, <2>1 DEF Over, Reached, AtEnd, BlockEnd
<1>16. BlockChain'
  <2>1. Block(0) = btBuf[lz.block] /\ Block(0)' = Block(0)
        /\ Block(0).first \in Int /\ Block(0).num \in Int /\ Block(0).avail \in Int
    BY <1>14, Entries, Sizes
  <2>2. BlockSound(Block(0)) /\ Block(0).first = lz.pos BY <1>1, <1>9, <1>11 DEF BlockChain
  <2>3. /\ BlockSound(Block(0))' /\ 0 <= lz'.left /\ lz'.left <= Block(0)'.num
        /\ lz'.pos = BlockEnd(Block(0))' - lz'.left
        /\ lz'.pos + lz'.avail = Block(0)'.first + Block(0)'.avail
    BY <1>1, <1>2, <2>1, <2>2, Numbers DEF BlockSound, BlockEnd
  <2>4. \A k \in 1 .. BtLive' - 1 :
          \/ AtEnd(Block(k - 1))'
          \/ BlockSound(Block(k))' /\ Block(k)'.first = BlockEnd(Block(k - 1))'
    <3> TAKE k \in 1 .. BtLive' - 1
    <3>1. Block(k)' = Block(k) /\ Block(k - 1)' = Block(k - 1) BY <1>14
    <3>2. \/ AtEnd(Block(k - 1))
          \/ BlockSound(Block(k)) /\ Block(k).first = BlockEnd(Block(k - 1))
      BY <1>9, <1>11 DEF BlockChain
    <3> QED BY <1>1, <1>2, <3>1, <3>2 DEF BlockSound, AtEnd, BlockEnd
  <2>5. /\ IF Over' THEN Cur' = lz'.size /\ Pending' = 0 ELSE Reached' = Cur' - Pending'
        /\ bt'.pc # "done" /\ Cur' # bt'.pos => Over'
        /\ bt'.pc = "done" => Over' \/ bt'.pos = Hash(0)'.first
        /\ ~window'.end => \A k \in 0 .. BtLive' - 1 :
             Cur' - Pending' - Block(k)'.first <= (BtLive' - k) * BtBlockSize
    BY <1>1, <1>2, <1>7, <1>9, <1>11, <1>14, <1>15 DEF BlockChain
  <2> QED BY <1>2, <2>3, <2>4, <2>5 DEF BlockChain
<1>17. Kept(lz.pos)' BY <1>1, <1>2, <1>9 DEF Kept
<1> QED BY <1>3, <1>5, <1>7, <1>8, <1>13, <1>16, <1>17 DEF Works, BtSide

LEMMA GetMatchesWorks ==
  ASSUME FinderTypes, Control, Works, GetMatches, Control'
  PROVE Works'
<1>1. /\ lz.pc = "ready" /\ lz.left > 0 /\ syncs' = syncs
      /\ bt' = bt /\ hasher' = hasher /\ window' = window /\ hashBuf' = hashBuf /\ btBuf' = btBuf
  BY DEF GetMatches
<1>2. /\ lz'.pc = "ready" /\ lz'.block = lz.block /\ lz'.pos = lz.pos + 1
      /\ lz'.ptr = lz.ptr + 1 /\ lz'.left = lz.left - 1 /\ lz'.avail = lz.avail - 1
      /\ lz'.size = lz.size
  BY Fields, <1>1 DEF GetMatches, LzSet
<1>4. HashFrame BY <1>1, <1>2 DEF HashFrame
<1>5. WindowSound' BY <1>1, <1>2, Numbers DEF Works, WindowSound, Position, NeedMove
<1>6. HashSide BY <1>1 DEF Works, Active
<1>7. HashSide' /\ Cur' = Cur /\ Pending' = Pending /\ Hash(0)' = Hash(0)
  BY HashSame, <1>4, <1>6
<1>8. ~syncs["bt"].needStart BY <1>1 DEF Works, Unstarted
<1>9. BtPlaces /\ BlockChain /\ Kept(lz.pos) BY <1>1, <1>8 DEF Works, Serving, BtSide
<1>11. BtLive' = BtLive /\ BtLive > 0 /\ Busy' = Busy
  BY <1>1, <1>2, <1>9, SyncNumbers DEF BtLive, Busy, BtPlaces
<1>12. bt.pc # "start" BY <1>1, <1>9 DEF BtPlaces
<1>13. BtPlaces' BY <1>1, <1>2, <1>9, <1>11, <1>12 DEF BtPlaces
<1>14. /\ \A k : Block(k)' = Block(k) BY <1>1, <1>2 DEF Block
<1>15. Last' = Last /\ Over' = Over /\ Reached' = Reached
  <2>1. Last' = Last BY <1>1, <1>2, <1>11 DEF Last, Block
  <2> QED BY <1>2, <1>11, <2>1 DEF Over, Reached, AtEnd, BlockEnd
<1>16. BlockChain'
  <2>1. Block(0)' = Block(0)
        /\ Block(0).first \in Int /\ Block(0).num \in Int /\ Block(0).avail \in Int
    BY <1>14, Entries, Sizes
  <2>2. /\ BlockSound(Block(0)) /\ 0 <= lz.left /\ lz.left <= Block(0).num
        /\ lz.pos = BlockEnd(Block(0)) - lz.left
        /\ lz.pos + lz.avail = Block(0).first + Block(0).avail
    BY <1>1, <1>9 DEF BlockChain
  <2>3. /\ BlockSound(Block(0))' /\ 0 <= lz'.left /\ lz'.left <= Block(0)'.num
        /\ lz'.pos = BlockEnd(Block(0))' - lz'.left
        /\ lz'.pos + lz'.avail = Block(0)'.first + Block(0)'.avail
    BY <1>1, <1>2, <2>1, <2>2, Numbers DEF BlockSound, BlockEnd
  <2>4. \A k \in 1 .. BtLive' - 1 :
          \/ AtEnd(Block(k - 1))'
          \/ BlockSound(Block(k))' /\ Block(k)'.first = BlockEnd(Block(k - 1))'
    <3> TAKE k \in 1 .. BtLive' - 1
    <3>1. Block(k)' = Block(k) /\ Block(k - 1)' = Block(k - 1) BY <1>14
    <3>2. \/ AtEnd(Block(k - 1))
          \/ BlockSound(Block(k)) /\ Block(k).first = BlockEnd(Block(k - 1))
      BY <1>9, <1>11 DEF BlockChain
    <3> QED BY <1>1, <1>2, <3>1, <3>2 DEF BlockSound, AtEnd, BlockEnd
  <2>5. /\ IF Over' THEN Cur' = lz'.size /\ Pending' = 0 ELSE Reached' = Cur' - Pending'
        /\ bt'.pc # "done" /\ Cur' # bt'.pos => Over'
        /\ bt'.pc = "done" => Over' \/ bt'.pos = Hash(0)'.first
        /\ ~window'.end => \A k \in 0 .. BtLive' - 1 :
             Cur' - Pending' - Block(k)'.first <= (BtLive' - k) * BtBlockSize
    BY <1>1, <1>2, <1>7, <1>9, <1>11, <1>14, <1>15 DEF BlockChain
  <2> QED BY <1>2, <2>3, <2>4, <2>5 DEF BlockChain
<1>17. Kept(lz.pos)' BY <1>1, <1>2, <1>9, Numbers, Sizes DEF Kept
<1> QED BY <1>1, <1>5, <1>7, <1>8, <1>13, <1>16, <1>17 DEF Works, BtSide

(* The steps of the caller that end its work, or go on with the end of it    *)
LEMMA LzEndWorks ==
  ASSUME FinderTypes, Control, Works, Control',
         Destruct \/ ReleaseStream \/ StreamReleased \/ Closed
  PROVE Works'
<1>1. /\ bt' = bt /\ hasher' = hasher /\ window' = window /\ hashBuf' = hashBuf /\ btBuf' = btBuf
  BY DEF Destruct, ReleaseStream, StreamReleased, Closed
<1>2. lz'.pos = lz.pos /\ lz'.ptr = lz.ptr /\ lz'.size = lz.size
      /\ lz'.pc \notin {"ready", "wait"}
  BY Fields DEF Destruct, ReleaseStream, StreamReleased, Closed, LzSet
<1>3. WindowSound' BY WindowSame, <1>1, <1>2 DEF Works
<1>4. ~Serving' BY <1>2 DEF Serving
<1>5. Active' => HashSide'
  <2> SUFFICES ASSUME Active' PROVE HashSide' OBVIOUS
  <2>1. lz'.pc = "stopping" BY <1>2 DEF Active
  <2>2. ReleaseStream /\ lz.pc = "ready" /\ syncs' = SendStop("bt")
    BY Fields, <2>1 DEF Destruct, ReleaseStream, StreamReleased, Closed, LzSet
  <2>3. syncs'["hash"] = syncs["hash"]
    BY Fields, <2>2 DEF SendStop, Release, Unlock, SyncSet
  <2>4. HashFrame BY <1>1, <1>2, <2>3 DEF HashFrame
  <2>5. HashSide BY <2>2 DEF Works, Active
  <2> QED BY HashSame, <2>4, <2>5
<1> QED BY <1>2, <1>3, <1>4, <1>5 DEF Works

-----------------------------------------------------------------------------
(* The steps of the tree thread.  Before the caller has asked for a block    *)
(* neither thread does anything.                                             *)
LEMMA Idle ==
  ASSUME FinderTypes, Control, BtStep \/ HashStep
  PROVE ~(lz.pc = "ready" /\ syncs["bt"].needStart)
<1> SUFFICES ASSUME lz.pc = "ready", syncs["bt"].needStart PROVE FALSE OBVIOUS
<1>1. bt.pc = "start" /\ hasher.pc = "start" /\ ~syncs["bt"].canStart /\ ~syncs["hash"].canStart
  BY DEF Control, Phases
<1> QED BY <1>1 DEF BtStep, BtStart, BtTakeFree, BtLock, BtSearch, BtNeedHash, BtTakeHash,
      BtDone, BtStopHash, BtStopped, HashStep, HashStart, HashLockBt, HashMove, HashFill,
      HashStopped

LEMMA FollowsSame ==
  ASSUME BlockChain, Cur' = Cur, Pending' = Pending, bt'.pos = bt.pos,
         (bt'.pc = "done") = (bt.pc = "done"), Hash(0)' = Hash(0)
  PROVE Follows
BY DEF Follows, BlockChain

LEMMA ChainSame ==
  ASSUME window' = window, hashBuf' = hashBuf, lz'.size = lz.size,
         bt'.hashBlock = bt.hashBlock, HashLive' = HashLive
  PROVE /\ HashChain => HashChain'
        /\ Position' = Position /\ \A k : Hash(k)' = Hash(k)
<1>1. \A k : Hash(k)' = Hash(k) BY DEF Hash
<1>2. \A k : HashSound(Hash(k))' = HashSound(Hash(k)) BY <1>1 DEF HashSound
<1>3. \A k : HashEnd(Hash(k))' = HashEnd(Hash(k)) BY <1>1 DEF HashEnd, Covered
<1>4. Position' = Position BY DEF Position
<1> QED BY <1>1, <1>2, <1>3, <1>4 DEF HashChain

LEMMA BtStartWorks ==
  ASSUME FinderTypes, Control, Works, BtStart, Control'
  PROVE Works'
<1>0. ~(lz.pc = "ready" /\ syncs["bt"].needStart) BY Idle DEF BtStep
<1>1. /\ bt.pc = "start" /\ syncs["bt"].canStart /\ lz' = lz /\ hasher' = hasher
      /\ window' = window /\ hashBuf' = hashBuf /\ btBuf' = btBuf
  BY DEF BtStart
<1>2. /\ bt'.pc = (IF syncs["bt"].exit THEN "gone" ELSE "top") /\ bt'.block = 0
      /\ bt'.pos = bt.pos /\ bt'.ptr = bt.ptr /\ bt'.left = bt.left /\ bt'.avail = bt.avail
      /\ bt'.hashBlock = bt.hashBlock
  BY Fields DEF BtStart, BtSet
<1>3. /\ syncs'["hash"] = syncs["hash"] /\ syncs'["bt"].needStart = syncs["bt"].needStart
      /\ syncs'["bt"].free = syncs["bt"].free /\ syncs'["bt"].filled = syncs["bt"].filled
      /\ syncs'["bt"].processed = syncs["bt"].processed
      /\ syncs'["bt"].wasStopped = syncs["bt"].wasStopped
  BY Fields DEF BtStart, SyncSet
<1>4. HashFrame BY <1>1, <1>2, <1>3 DEF HashFrame
<1>5. WindowSound' BY WindowSame, <1>1, <1>2 DEF Works
<1>6. Active' => HashSide /\ HashSide'
  BY HashSame, <1>1, <1>2, <1>3, <1>4 DEF Works, Active
<1>7. Cur' = Cur /\ Pending' = Pending BY HashSame, <1>4
<1>8. Serving' => BtSide'
  <2> SUFFICES ASSUME Serving' PROVE BtSide' OBVIOUS
  <2>1. BtSide /\ lz.pc \in {"ready", "wait"} /\ ~syncs["bt"].needStart
    BY <1>1, <1>3 DEF Serving, Works
  <2>2. /\ lz.pc = "wait" /\ lz.block = 0 /\ lz.pos = 0 /\ BtLive = 0
    BY <1>1, <2>1 DEF BtSide, BtPlaces
  <2>3. bt'.pc = "top" BY <1>2, <2>1 DEF Control, Phases
  <2>4. BtLive' = 0 /\ Busy = 0 /\ Busy' = 0 BY <1>1, <1>3, <2>2, <2>3 DEF BtLive, Busy
  <2>5. Behind(0, 0, BtBlocks) = 0 BY Sizes DEF Behind
  <2>6. BtPlaces' BY <1>1, <1>2, <1>3, <2>1, <2>2, <2>3, <2>4, <2>5 DEF BtSide, BtPlaces
  <2>7. BlockChain'
    BY <1>1, <1>2, <1>7, <2>1, <2>2, <2>3, <2>4, Sizes DEF BtSide, BlockChain, Over, Reached
  <2>8. Kept(lz.pos)' BY <1>1, <2>1 DEF BtSide, Kept
  <2> QED BY <2>6, <2>7, <2>8 DEF BtSide
<1> QED BY <1>0, <1>1, <1>3, <1>5, <1>6, <1>8 DEF Works

LEMMA BtTakeFreeWorks ==
  ASSUME FinderTypes, Control, Works, BtTakeFree, Control', FinderTypes'
  PROVE Works'
<1>0. ~(lz.pc = "ready" /\ syncs["bt"].needStart) BY Idle DEF BtStep
<1>1. /\ bt.pc = "top" /\ syncs["bt"].free > 0 /\ lz' = lz /\ hasher' = hasher
      /\ window' = window /\ hashBuf' = hashBuf /\ btBuf' = btBuf
  BY DEF BtTakeFree
<1>2. /\ bt'.pc = (IF syncs["bt"].stop THEN "stop" ELSE "lock") /\ bt'.block = bt.block
      /\ bt'.pos = bt.pos /\ bt'.ptr = bt.ptr /\ bt'.left = bt.left /\ bt'.avail = bt.avail
      /\ bt'.hashBlock = bt.hashBlock
  BY Fields DEF BtTakeFree, BtSet
<1>3. /\ syncs'["hash"] = syncs["hash"] /\ syncs'["bt"].needStart = syncs["bt"].needStart
      /\ syncs'["bt"].free = syncs["bt"].free - 1 /\ syncs'["bt"].filled = syncs["bt"].filled
      /\ syncs'["bt"].processed = syncs["bt"].processed
      /\ syncs'["bt"].canStart = syncs["bt"].canStart
      /\ syncs'["bt"].wasStopped = syncs["bt"].wasStopped
  BY Fields DEF BtTakeFree, SyncSet
<1>4. HashFrame BY <1>1, <1>2, <1>3 DEF HashFrame
<1>5. WindowSound' BY WindowSame, <1>1, <1>2 DEF Works
<1>6. Active' => HashSide /\ HashSide'
  BY HashSame, <1>1, <1>2, <1>3, <1>4 DEF Works, Active
<1>7. Cur' = Cur /\ Pending' = Pending /\ Hash(0)' = Hash(0) BY HashSame, <1>4
<1>8. Serving' => BtSide'
  <2> SUFFICES ASSUME Serving' PROVE BtSide' OBVIOUS
  <2>1. BtSide /\ lz.pc \in {"ready", "wait"} /\ ~syncs["bt"].needStart
    BY <1>1, <1>3 DEF Serving, Works
  <2>2. bt'.pc = "lock" BY <1>2, <2>1 DEF Control, Phases
  <2>3. Busy = 0 /\ Busy' = 1 BY <1>1, <2>2 DEF Busy
  <2>4. BtFrame BY <1>1, <1>2, <1>3, <2>2, <2>3, SyncNumbers, Numbers DEF BtFrame
  <2>5. Follows BY FollowsSame, <1>1, <1>2, <1>7, <2>1, <2>2 DEF BtSide
  <2>6. BtPlaces' /\ BlockChain' BY BtSame, <2>1, <2>4, <2>5 DEF BtSide
  <2>7. Kept(lz.pos)' BY <1>1, <2>1 DEF BtSide, Kept
  <2> QED BY <2>6, <2>7 DEF BtSide
<1> QED BY <1>0, <1>1, <1>3, <1>5, <1>6, <1>8 DEF Works

LEMMA BtLockWorks ==
  ASSUME FinderTypes, Control, Works, BtLock, Control', FinderTypes'
  PROVE Works'
<1>0. ~(lz.pc = "ready" /\ syncs["bt"].needStart) BY Idle DEF BtStep
<1>1. /\ bt.pc = "lock" /\ lz' = lz /\ hasher' = hasher
      /\ window' = window /\ hashBuf' = hashBuf /\ btBuf' = btBuf
  BY DEF BtLock
<1>2. /\ bt'.pc = "fill" /\ bt'.block = bt.block /\ bt'.cur = 2 /\ bt'.done = 0
      /\ bt'.sum = bt.avail
      /\ bt'.pos = bt.pos /\ bt'.ptr = bt.ptr /\ bt'.left = bt.left /\ bt'.avail = bt.avail
      /\ bt'.hashBlock = bt.hashBlock
  BY Fields DEF BtLock, BtSet
<1>3. /\ syncs'["bt"] = syncs["bt"] /\ syncs'["hash"].needStart = syncs["hash"].needStart
      /\ syncs'["hash"].free = syncs["hash"].free /\ syncs'["hash"].filled = syncs["hash"].filled
      /\ syncs'["hash"].processed = syncs["hash"].processed
      /\ syncs'["hash"].canStart = syncs["hash"].canStart
  BY Fields DEF BtLock, SyncSet
<1>5. WindowSound' BY WindowSame, <1>1, <1>2 DEF Works
<1>6. Holding' = Holding /\ HashLive' = HashLive /\ Pending = 0 /\ Pending' = 0
  BY <1>1, <1>2, <1>3 DEF Holding, HashLive, Pending, Filling
<1>7. /\ HashChain => HashChain'
      /\ Position' = Position /\ \A k : Hash(k)' = Hash(k)
  BY ChainSame, <1>1, <1>2, <1>6
<1>8. Hash(0)' = Hash(0) BY <1>7
<1>9. Cur' = Cur BY <1>2, <1>3, <1>6, <1>7, <1>8 DEF Cur, HashEnd, Covered
<1>10. Active' => HashSide'
  <2> SUFFICES ASSUME Active' PROVE HashSide' OBVIOUS
  <2>1. HashSide BY <1>1, <1>2, <1>3 DEF Active, Works
  <2>2. HashPlaces' BY <1>1, <1>2, <1>3, <1>6, <2>1 DEF HashSide, HashPlaces
  <2>3. BtSound'
    <3>1. 2 <= BtBlockSize BY Sizes
    <3> QED BY <1>1, <1>2, <1>6, <1>8, <1>9, <2>1, <3>1, CurNumber, Numbers
        DEF HashSide, BtSound, Covered
  <2>4. Kept(bt.pos)' BY <1>1, <1>2, <2>1 DEF HashSide, Kept
  <2> QED BY <1>7, <2>1, <2>2, <2>3, <2>4 DEF HashSide
<1>11. Serving' => BtSide'
  <2> SUFFICES ASSUME Serving' PROVE BtSide' OBVIOUS
  <2>1. BtSide BY <1>1, <1>3 DEF Serving, Works
  <2>2. Busy = 1 /\ Busy' = 1 BY <1>1, <1>2 DEF Busy
  <2>3. BtFrame BY <1>1, <1>2, <1>3, <2>1, <2>2, SyncNumbers, Numbers DEF BtFrame, BtSide, BtPlaces
  <2>4. Follows BY FollowsSame, <1>1, <1>2, <1>6, <1>8, <1>9, <2>1 DEF BtSide
  <2>5. BtPlaces' /\ BlockChain' BY BtSame, <2>1, <2>3, <2>4 DEF BtSide
  <2>6. Kept(lz.pos)' BY <1>1, <2>1 DEF BtSide, Kept
  <2> QED BY <2>5, <2>6 DEF BtSide
<1> QED BY <1>0, <1>1, <1>3, <1>5, <1>10, <1>11 DEF Works

(* The places that a search takes in the block                               *)
LEMMA SearchRoom ==
  ASSUME NEW places \in {1, 1 + 2 * (FinderMaxLen - FinderHash + 1)},
         NEW cur \in Int, NEW left \in Int, cur < BtLimit, left > 0,
         NEW n, n = Lesser(left, (BtLimit - cur + places - 1) \div places)
  PROVE n \in Nat \ {0} /\ n <= left /\ n * places \in Nat /\ n <= n * places
          /\ cur + n * places <= BtBlockSize
<1>1. PICK m \in Nat : m = places /\ m > 0 /\ m - 1 <= 2 * FinderMaxLen /\ BtLimit \in Int
  BY Sizes
<1>2. PICK x \in Nat : x = BtLimit - cur + m - 1 BY <1>1
<1> DEFINE q == x \div m
           r == x % m
<1>3. q \in Int /\ r \in 0 .. m - 1 /\ x = m * q + r BY <1>1, <1>2
<1>4. n = Lesser(left, q) BY <1>1, <1>2
<1> HIDE DEF q, r
<1>5. q >= 1
  <2>1. x >= m BY <1>1, <1>2
  <2>2. ~(q <= 0)
    <3> SUFFICES ASSUME q <= 0 PROVE FALSE OBVIOUS
    <3>1. q * m <= 0 * m BY Product, <1>1, <1>3
    <3> QED BY <1>1, <1>3, <2>1, <3>1
  <2> QED BY <1>3, <2>2
<1>6. n \in Nat \ {0} /\ n <= left /\ n <= q BY <1>3, <1>4, <1>5 DEF Lesser
<1>7. n * m <= q * m /\ n * m \in Int BY Product, <1>1, <1>3, <1>6
<1>8. 0 * m <= n * m BY Product, <1>1, <1>6
<1>9. n <= n * m
  <2>1. n * 1 <= n * m BY <1>1, <1>6
  <2> QED BY <1>6, <2>1
<1>10. q * m <= x BY <1>1, <1>3
<1>11. cur + n * m <= BtBlockSize BY <1>1, <1>2, <1>3, <1>7, <1>10, Sizes
<1> QED BY <1>1, <1>6, <1>7, <1>8, <1>9, <1>11

LEMMA HashBounds ==
  ASSUME FinderTypes, WindowSound, NEW k \in 0 .. HashBlocks, HashSound(Hash(k))
  PROVE /\ 0 <= Hash(k).num /\ Hash(k).num <= Covered(Hash(k)) /\ Covered(Hash(k)) >= 0
        /\ Covered(Hash(k)) <= Hash(k).avail
        /\ HashEnd(Hash(k)) <= Hash(k).first + Hash(k).avail
        /\ HashEnd(Hash(k)) <= lz.size
        /\ Hash(k).first + Hash(k).avail <= window.read
<1>1. Hash(k).first \in Int /\ Hash(k).num \in Int /\ Hash(k).avail \in Int BY Entries, Sizes
<1>2. window.read <= lz.size BY DEF WindowSound
<1>3. 0 <= Hash(k).num /\ Hash(k).num <= Hash(k).avail
  BY <1>1, Sizes DEF HashSound, Lesser
<1>4. Covered(Hash(k)) <= Hash(k).avail /\ Covered(Hash(k)) >= Hash(k).num
  BY <1>1, <1>3 DEF Covered
<1> QED BY <1>1, <1>2, <1>3, <1>4, Numbers, Entries DEF HashSound, HashEnd

LEMMA BtSearchWorks ==
  ASSUME FinderTypes, Control, Works, BtSearch, Control', FinderTypes'
  PROVE Works'
<1>0. ~(lz.pc = "ready" /\ syncs["bt"].needStart) BY Idle DEF BtStep
<1>1. /\ bt.pc = "fill" /\ bt.cur < BtLimit /\ bt.left > 0 /\ lz' = lz /\ hasher' = hasher
      /\ window' = window /\ hashBuf' = hashBuf /\ btBuf' = btBuf /\ syncs' = syncs
  BY DEF BtSearch
<1>2. PICK n \in Nat \ {0}, used \in Nat :
        /\ n <= bt.left /\ n <= used /\ bt.cur + used <= BtBlockSize
        /\ bt' = [bt EXCEPT !.cur = @ + used, !.done = @ + n, !.left = @ - n,
                            !.avail = @ - n, !.pos = @ + n, !.ptr = @ + n]
  <2>1. PICK places \in {1, 1 + 2 * (FinderMaxLen - FinderHash + 1)} :
          LET room == (BtLimit - bt.cur + places - 1) \div places
              n == Lesser(bt.left, room) IN
          bt' = [bt EXCEPT !.cur = @ + n * places, !.done = @ + n, !.left = @ - n,
                           !.avail = @ - n, !.pos = @ + n, !.ptr = @ + n]
    BY DEF BtSearch
  <2>2. PICK n : n = Lesser(bt.left, (BtLimit - bt.cur + places - 1) \div places) OBVIOUS
  <2>3. /\ n \in Nat \ {0} /\ n <= bt.left /\ n * places \in Nat /\ n <= n * places
        /\ bt.cur + n * places <= BtBlockSize
    BY SearchRoom, <1>1, <2>2, Numbers
  <2>4. bt' = [bt EXCEPT !.cur = @ + n * places, !.done = @ + n, !.left = @ - n,
                         !.avail = @ - n, !.pos = @ + n, !.ptr = @ + n]
    BY <2>1, <2>2
  <2>5. PICK used \in Nat : used = n * places BY <2>3
  <2> QED BY <2>3, <2>4, <2>5
<1>3. /\ bt'.pc = "fill" /\ bt'.block = bt.block /\ bt'.hashBlock = bt.hashBlock
      /\ bt'.cur = bt.cur + used /\ bt'.done = bt.done + n /\ bt'.left = bt.left - n
      /\ bt'.avail = bt.avail - n /\ bt'.pos = bt.pos + n /\ bt'.ptr = bt.ptr + n
      /\ bt'.sum = bt.sum
  <2>1. bt \in BtSet BY Fields
  <2> QED BY <1>1, <1>2, <2>1 DEF BtSet
<1>4. WindowSound'
  BY <1>1, <1>3, Numbers DEF Works, WindowSound, Position, NeedMove
<1>5. /\ Holding' = Holding /\ HashLive' = HashLive /\ Pending = bt.done
      /\ Pending' = bt.done + n
  BY <1>1, <1>3 DEF Holding, HashLive, Pending, Filling
<1>6. /\ HashChain => HashChain'
      /\ Position' = Position /\ \A k : Hash(k)' = Hash(k)
  BY ChainSame, <1>1, <1>3, <1>5
<1>7. Hash(0)' = Hash(0) BY <1>6
<1>8. Active' => HashSide BY <1>1, <1>3 DEF Active, Works
<1>9. HashSide => /\ Holding /\ ~syncs["hash"].needStart /\ ~syncs["hash"].canStart
                  /\ Cur = bt.pos /\ Cur' = Cur + n /\ Cur < lz.size
  <2> SUFFICES ASSUME HashSide
               PROVE  /\ Holding /\ ~syncs["hash"].needStart /\ ~syncs["hash"].canStart
                      /\ Cur = bt.pos /\ Cur' = Cur + n /\ Cur < lz.size
    OBVIOUS
  <2>1. Holding /\ Cur = bt.pos BY <1>1 DEF HashSide, BtSound
  <2>2. ~syncs["hash"].needStart /\ ~syncs["hash"].canStart
    BY <1>1 DEF HashSide, HashPlaces
  <2>3. HashEnd(Hash(0))' = HashEnd(Hash(0)) BY <1>7 DEF HashEnd, Covered
  <2>4. HashEnd(Hash(0)) \in Int BY Entries, Sizes
  <2>5. Cur = HashEnd(Hash(0)) - bt.left /\ Cur' = HashEnd(Hash(0)) - (bt.left - n)
    BY <1>3, <1>5, <2>1, <2>3 DEF Cur
  <2>6. HashEnd(Hash(0)) <= lz.size
    <3>1. HashSound(Hash(0)) BY HashRoom, <2>1, Sizes DEF HashSide, HashChain
    <3>2. WindowSound /\ 0 \in 0 .. HashBlocks BY Sizes DEF Works
    <3> QED BY <3>1, <3>2, HashBounds
  <2> QED BY <1>1, <1>2, <2>1, <2>2, <2>4, <2>5, <2>6, Numbers
<1>10. Active' => HashSide'
  <2> SUFFICES ASSUME HashSide PROVE HashSide' BY <1>8
  <2>1. HashPlaces' BY <1>1, <1>3, <1>5, <1>9 DEF HashSide, HashPlaces
  <2>2. BtSound'
    <3>1. Holding' /\ Filling' BY <1>3, <1>5, <1>9 DEF Filling
    <3>2. /\ bt.left <= Hash(0).num /\ Cur + bt.avail = Hash(0).first + Hash(0).avail
          /\ bt.done >= 0 /\ bt.cur >= 2 + bt.done /\ (bt.done = 0 => bt.cur = 2)
          /\ Cur - bt.done + bt.sum = Hash(0).first + Hash(0).avail
      BY <1>1, <1>9 DEF HashSide, BtSound, Filling
    <3>3. Hash(0).first \in Int /\ Hash(0).avail \in Int /\ Hash(0).num \in Int
      BY Entries, Sizes
    <3>4. bt'.left >= 0 /\ bt'.left <= Hash(0).num /\ Cur' = bt'.pos
          /\ Cur' + bt'.avail = Hash(0).first + Hash(0).avail
          /\ Cur' - bt'.done + bt'.sum = Hash(0).first + Hash(0).avail
      BY <1>2, <1>3, <1>9, <3>2, <3>3, Numbers, CurNumber
    <3>5. bt'.done >= 0 /\ bt'.cur >= 2 + bt'.done /\ bt'.cur <= BtBlockSize
          /\ (bt'.done = 0 => bt'.cur = 2)
      BY <1>2, <1>3, <3>2, Numbers, Sizes
    <3> QED BY <1>3, <1>7, <3>1, <3>4, <3>5 DEF BtSound
  <2>3. Kept(bt.pos)'
    BY <1>1, <1>2, <1>3, Numbers, Sizes DEF HashSide, Kept
  <2> QED BY <1>6, <2>1, <2>2, <2>3 DEF HashSide
<1>11. Serving' => BtSide'
  <2> SUFFICES ASSUME Serving' PROVE BtSide' OBVIOUS
  <2>1. BtSide /\ HashSide BY <1>1, <1>3 DEF Serving, Active, Works
  <2>2. Busy = 1 /\ Busy' = 1 BY <1>1, <1>3 DEF Busy
  <2>3. BtFrame
    BY <1>1, <1>3, <2>1, <2>2, SyncNumbers, Numbers DEF BtFrame, BtSide, BtPlaces
  <2>4. Follows
    BY <1>1, <1>2, <1>3, <1>5, <1>9, <2>1, CurNumber, Numbers DEF Follows, BtSide, BlockChain
  <2>5. BtPlaces' /\ BlockChain' BY BtSame, <2>1, <2>3, <2>4 DEF BtSide
  <2>6. Kept(lz.pos)' BY <1>1, <2>1 DEF BtSide, Kept
  <2> QED BY <2>5, <2>6 DEF BtSide
<1> QED BY <1>0, <1>1, <1>4, <1>10, <1>11 DEF Works

(* The tree thread gives its block of heads back and waits for the next.     *)
LEMMA BtNeedHashWorks ==
  ASSUME FinderTypes, Control, Works, BtNeedHash, Control', FinderTypes'
  PROVE Works'
<1>0. ~(lz.pc = "ready" /\ syncs["bt"].needStart) BY Idle DEF BtStep
<1>1. /\ bt.pc = "fill" /\ bt.cur < BtLimit /\ bt.left = 0 /\ lz' = lz /\ hasher' = hasher
      /\ window' = window /\ hashBuf' = hashBuf /\ btBuf' = btBuf
      /\ syncs' = GiveBlock("hash")
  BY DEF BtNeedHash
<1>2. /\ bt'.pc = "wait" /\ bt'.block = bt.block
      /\ bt'.hashBlock = NextBlockIndex("hash") % HashBlocks
      /\ bt'.cur = bt.cur /\ bt'.done = bt.done /\ bt'.left = bt.left /\ bt'.sum = bt.sum
      /\ bt'.avail = bt.avail /\ bt'.pos = bt.pos /\ bt'.ptr = bt.ptr
  BY Fields DEF BtNeedHash, BtSet
<1>3. syncs'["bt"] = syncs["bt"] BY Gives, Fields, <1>1
<1>4. /\ ~syncs'["hash"].needStart /\ syncs'["hash"].filled = syncs["hash"].filled
      /\ syncs["hash"].needStart => syncs'["hash"].canStart /\ syncs'["hash"].processed = 1
                                   /\ syncs'["hash"].free = syncs["hash"].free
      /\ ~syncs["hash"].needStart =>
             /\ syncs'["hash"].canStart = syncs["hash"].canStart
             /\ syncs'["hash"].processed = syncs["hash"].processed + 1
             /\ syncs'["hash"].free = IF syncs["hash"].free < HashBlocks
                                 THEN syncs["hash"].free + 1 ELSE syncs["hash"].free
  BY Gives, Fields, <1>1 DEF NumBlocks
<1>5. HashBlocks \in Nat \ {0} BY Sizes
<1>6. WindowSound' BY WindowSame, <1>1, <1>2 DEF Works
<1>7. ~Holding' /\ Filling /\ Filling' /\ Pending' = Pending /\ Position' = Position
      /\ HashLive' = syncs["hash"].filled
  BY <1>1, <1>2, <1>4, SyncNumbers DEF Holding, Filling, Pending, Position, HashLive
<1>8. Active' => HashSide BY <1>1, <1>2, <1>3 DEF Active, Works
<1>9. HashSide => HashPlaces' /\ HashChain' /\ Cur' = Cur
  <2> SUFFICES ASSUME HashSide PROVE HashPlaces' /\ HashChain' /\ Cur' = Cur OBVIOUS
  <2>1. CASE syncs["hash"].needStart
    <3>1. hasher.pc = "start"
      <4>1. syncs'["hash"].canStart BY <1>4, <2>1
      <4> QED BY <1>1, <4>1 DEF Control, Phases
    <3>2. NextBlockIndex("hash") % HashBlocks = 0 BY <1>5, <2>1, RingCount DEF NextBlockIndex
    <3>3. HashPlaces' BY <1>1, <1>2, <1>4, <1>7, <2>1, <3>1, <3>2 DEF HashSide, HashPlaces
    <3>4. syncs["hash"].filled = 0 BY <2>1 DEF HashSide, HashPlaces
    <3>5. HashChain' BY <1>7, <3>4 DEF HashChain
    <3>6. Cur' = Cur BY <1>4, <1>7, <2>1, <3>4 DEF Cur, Holding
    <3> QED BY <3>3, <3>5, <3>6
  <2>2. CASE ~syncs["hash"].needStart
    <3>1. Holding /\ HashLive = syncs["hash"].filled + 1
      BY <1>1, <2>2, SyncNumbers DEF Holding, HashLive
    <3>2. ~syncs["hash"].canStart /\ ~syncs'["hash"].canStart
      BY <1>1, <1>4, <2>2 DEF HashSide, HashPlaces
    <3>3. HashLive \in 1 .. HashBlocks /\ HashLive' = HashLive - 1
      BY HashRoom, <1>5, <1>7, <3>1, SyncNumbers DEF HashSide
    <3>4. bt'.hashBlock = Behind(bt.hashBlock, 1, HashBlocks)
      <4>1. syncs["hash"].processed \in Nat \ {0}
            /\ bt.hashBlock = (syncs["hash"].processed - 1) % HashBlocks
        BY <2>2, <3>2, SyncNumbers DEF HashSide, HashPlaces
      <4> QED BY <1>2, <1>5, <2>2, <4>1, RingCount DEF NextBlockIndex
    <3>5. \A k \in 0 .. HashBlocks - 1 : Hash(k)' = Hash(k + 1)
      BY <1>1, <1>5, <3>4, RingNext, Numbers DEF Hash
    <3>6. HashPlaces'
      <4>1. hasher'.block = Behind(bt'.hashBlock, HashLive', HashBlocks)
        <5>1. HashLive - 1 \in 0 .. HashBlocks - 1 /\ (HashLive - 1) + 1 = HashLive
          BY <1>5, <3>3
        <5>2. Behind(Behind(bt.hashBlock, 1, HashBlocks), HashLive - 1, HashBlocks)
                = Behind(bt.hashBlock, HashLive, HashBlocks)
          BY RingNext, <1>5, Numbers, <5>1
        <5>3. hasher.block = Behind(bt.hashBlock, HashLive, HashBlocks)
          BY <2>2, <3>2 DEF HashSide, HashPlaces
        <5> QED BY <1>1, <3>3, <3>4, <5>2, <5>3
      <4>2. bt'.hashBlock = (syncs'["hash"].processed - 1) % HashBlocks
        BY <1>2, <1>4, <2>2, SyncNumbers DEF NextBlockIndex
      <4>3. syncs["hash"].free + HashLive = HashBlocks /\ syncs["hash"].free >= 0
        BY <2>2, <3>2 DEF HashSide, HashPlaces
      <4>4. syncs'["hash"].free = syncs["hash"].free + 1
        BY <1>4, <1>5, <2>2, <3>3, <4>3, SyncNumbers
      <4>5. syncs'["hash"].free >= 0 /\ syncs'["hash"].filled >= 0
            /\ syncs'["hash"].free + HashLive' = HashBlocks /\ syncs'["hash"].processed > 0
        BY <1>4, <1>5, <2>2, <3>1, <3>3, <4>3, <4>4, SyncNumbers
      <4> QED BY <1>4, <3>2, <4>1, <4>2, <4>5 DEF HashPlaces
    <3>7. HashChain'
      <4>1. \A k \in 0 .. HashLive' - 1 : HashSound(Hash(k))'
        <5> TAKE k \in 0 .. HashLive' - 1
        <5>1. k \in 0 .. HashBlocks - 1 /\ k + 1 \in 0 .. HashLive - 1 BY <1>5, <3>3
        <5>2. Hash(k)' = Hash(k + 1) /\ HashSound(Hash(k + 1))
          BY <3>5, <5>1 DEF HashSide, HashChain
        <5> QED BY <1>1, <5>2 DEF HashSound
      <4>2. \A k \in 1 .. HashLive' - 1 : Hash(k)'.first = HashEnd(Hash(k - 1))'
        <5> TAKE k \in 1 .. HashLive' - 1
        <5>1. k \in 0 .. HashBlocks - 1 /\ k - 1 \in 0 .. HashBlocks - 1
              /\ k + 1 \in 1 .. HashLive - 1 /\ (k - 1) + 1 = k /\ (k + 1) - 1 = k
          BY <1>5, <3>3
        <5>2. Hash(k)' = Hash(k + 1) /\ Hash(k - 1)' = Hash(k) BY <3>5, <5>1
        <5>3. Hash(k + 1).first = HashEnd(Hash(k)) BY <5>1 DEF HashSide, HashChain
        <5> QED BY <5>2, <5>3 DEF HashEnd, Covered
      <4>3. HashLive' > 0 => Position' = HashEnd(Hash(HashLive - 1))'
        <5> SUFFICES ASSUME HashLive' > 0 PROVE Position' = HashEnd(Hash(HashLive - 1))' OBVIOUS
        <5>1. PICK i \in 0 .. HashBlocks - 1 : i = HashLive - 2 BY <1>5, <3>3
        <5>2. i + 1 = HashLive - 1 /\ HashLive' - 1 = i BY <3>3, <5>1
        <5>3. Hash(i)' = Hash(i + 1) BY <3>5
        <5>4. Position = HashEnd(Hash(i + 1)) BY <3>3, <5>2 DEF HashSide, HashChain
        <5> QED BY <1>7, <5>2, <5>3, <5>4 DEF Hash, HashEnd, Covered
      <4>4. ~window'.end => \A k \in 0 .. HashLive' - 1 :
              Position' - Hash(k)'.first <= (HashLive' - k) * HashBlockSize
        <5> SUFFICES ASSUME ~window'.end, NEW k \in 0 .. HashLive' - 1
                     PROVE  Position' - Hash(k)'.first <= (HashLive' - k) * HashBlockSize
          OBVIOUS
        <5>1. k \in 0 .. HashBlocks - 1 /\ k + 1 \in 0 .. HashLive - 1
              /\ HashLive - (k + 1) = HashLive' - k
          BY <1>5, <3>3
        <5>2. Position - Hash(k + 1).first <= (HashLive - (k + 1)) * HashBlockSize
          BY <1>1, <5>1 DEF HashSide, HashChain
        <5>3. Hash(k)' = Hash(k + 1) BY <3>5, <5>1
        <5> QED BY <1>7, <5>1, <5>2, <5>3
      <4> QED BY <4>1, <4>2, <4>3, <4>4 DEF HashChain
    <3>8. Cur' = Cur
      <4>1. Cur = HashEnd(Hash(0)) BY <1>1, <3>1, Entries, Sizes DEF Cur
      <4>2. CASE syncs["hash"].filled > 0
        <5>1. 1 \in 1 .. HashLive - 1 /\ 0 \in 0 .. HashBlocks - 1
          BY <1>5, <3>1, <3>3, <4>2, SyncNumbers
        <5>2. Hash(1).first = HashEnd(Hash(0)) BY <5>1 DEF HashSide, HashChain
        <5>3. Hash(0)' = Hash(1) BY <3>5, <5>1
        <5> QED BY <1>4, <1>7, <4>1, <4>2, <5>2, <5>3 DEF Cur
      <4>3. CASE ~(syncs["hash"].filled > 0)
        <5>1. HashLive = 1 BY <3>1, <3>3, <4>3, SyncNumbers
        <5>2. Position = HashEnd(Hash(0)) BY <5>1 DEF HashSide, HashChain
        <5> QED BY <1>4, <1>7, <4>1, <4>3, <5>2 DEF Cur
      <4> QED BY <4>2, <4>3
    <3> QED BY <3>6, <3>7, <3>8
  <2> QED BY <2>1, <2>2
<1>10. HashSide => HashSide'
  <2> SUFFICES ASSUME HashSide PROVE HashSide' OBVIOUS
  <2>1. BtSound' BY <1>1, <1>2, <1>7, <1>9 DEF HashSide, BtSound
  <2>2. Kept(bt.pos)' BY <1>1, <1>2 DEF HashSide, Kept
  <2> QED BY <1>9, <2>1, <2>2 DEF HashSide
<1>11. Serving' => BtSide'
  <2> SUFFICES ASSUME Serving' PROVE BtSide' OBVIOUS
  <2>1. BtSide /\ HashSide BY <1>1, <1>2, <1>3 DEF Serving, Active, Works
  <2>2. Busy = 1 /\ Busy' = 1 BY <1>1, <1>2 DEF Busy
  <2>3. BtFrame
    BY <1>1, <1>2, <1>3, <2>1, <2>2, SyncNumbers, Numbers DEF BtFrame, BtSide, BtPlaces
  <2>4. Follows
    BY <1>1, <1>2, <1>7, <1>9, <2>1 DEF Follows, BtSide, BlockChain
  <2>5. BtPlaces' /\ BlockChain' BY BtSame, <2>1, <2>3, <2>4 DEF BtSide
  <2>6. Kept(lz.pos)' BY <1>1, <2>1 DEF BtSide, Kept
  <2> QED BY <2>5, <2>6 DEF BtSide
<1> QED BY <1>0, <1>1, <1>3, <1>6, <1>8, <1>10, <1>11 DEF Works

(* The next block of heads: one with fewer bytes than numHashBytes ends the  *)
(* stream.                                                                   *)
LEMMA BtTakeHashWorks ==
  ASSUME FinderTypes, Control, Works, BtTakeHash, Control', FinderTypes'
  PROVE Works'
<1>0. ~(lz.pc = "ready" /\ syncs["bt"].needStart) BY Idle DEF BtStep
<1>1. /\ bt.pc = "wait" /\ CanTake("hash") /\ lz' = lz /\ hasher' = hasher
      /\ window' = window /\ hashBuf' = hashBuf /\ btBuf' = btBuf
      /\ syncs' = TakeBlock("hash", "bt")
  BY DEF BtTakeHash
<1>2. PICK h : h = hashBuf[bt.hashBlock] OBVIOUS
<1>3. h = Hash(0) /\ h.first \in Int /\ h.num \in Int /\ h.avail \in Int
      /\ Covered(h) \in Int /\ HashEnd(h) \in Int
  BY Entries, <1>2, Sizes
<1> DEFINE atEnd == h.avail < FinderHash
<1>4. /\ bt'.pc = (IF atEnd THEN "done" ELSE "fill") /\ bt'.block = bt.block
      /\ bt'.hashBlock = bt.hashBlock /\ bt'.left = h.num
      /\ bt'.avail = (IF atEnd THEN 0 ELSE h.avail) /\ bt'.sum = bt.done + h.avail
      /\ bt'.cur = (IF atEnd THEN bt.cur + h.avail ELSE bt.cur)
      /\ bt'.done = (IF atEnd THEN bt.done + h.avail ELSE bt.done)
      /\ bt'.pos = bt.pos /\ bt'.ptr = bt.ptr
  <2>1. bt \in BtSet BY Fields
  <2>2. bt' = [bt EXCEPT !.pc = IF atEnd THEN "done" ELSE "fill", !.left = h.num,
              !.avail = IF atEnd THEN 0 ELSE h.avail, !.sum = bt.done + h.avail,
              !.cur = IF atEnd THEN @ + h.avail ELSE @,
              !.done = IF atEnd THEN @ + h.avail ELSE @]
    BY <1>2 DEF BtTakeHash
  <2> HIDE DEF atEnd
  <2> QED BY <2>1, <2>2 DEF BtSet
<1>5. /\ syncs'["bt"] = syncs["bt"]
      /\ syncs'["hash"].needStart = syncs["hash"].needStart
      /\ syncs'["hash"].canStart = syncs["hash"].canStart
      /\ syncs'["hash"].filled = syncs["hash"].filled - 1
      /\ syncs'["hash"].free = syncs["hash"].free
      /\ syncs'["hash"].processed = syncs["hash"].processed
  BY Takes, Fields, <1>1
<1>6. syncs["hash"].filled > 0 /\ ~syncs["hash"].needStart
  BY <1>1 DEF CanTake, Control, Phases
<1>7. WindowSound' BY WindowSame, <1>1, <1>4 DEF Works
<1>8. /\ ~Holding /\ Holding' /\ HashLive' = HashLive /\ HashLive > 0 /\ Filling /\ Filling'
      /\ Pending = bt.done /\ Pending' = bt'.done
  BY <1>1, <1>4, <1>5, <1>6, SyncNumbers DEF Holding, HashLive, Filling, Pending
<1>9. /\ HashChain => HashChain'
      /\ Position' = Position /\ \A k : Hash(k)' = Hash(k)
  BY ChainSame, <1>1, <1>4, <1>8
<1>10. Hash(0)' = h BY <1>3, <1>9
<1>11. Active' => HashSide
  <2>1. bt'.pc # "stopping" /\ bt.pc # "stopping" BY <1>1, <1>4
  <2> QED BY <1>1, <1>5, <2>1 DEF Active, Works
<1>12. HashSide =>
         /\ ~syncs["hash"].canStart /\ HashSound(h) /\ h.num >= 0 /\ h.avail >= 0
         /\ Covered(h) = (IF atEnd THEN h.avail ELSE h.num)
         /\ h.num <= h.avail /\ (atEnd => h.num = 0 /\ window.end /\ h.first + h.avail = lz.size)
         /\ h.first + h.avail <= lz.size
         /\ Cur = h.first /\ Cur' = (IF atEnd THEN h.first + h.avail ELSE h.first)
  <2> SUFFICES ASSUME HashSide
        PROVE  /\ ~syncs["hash"].canStart /\ HashSound(h) /\ h.num >= 0 /\ h.avail >= 0
               /\ Covered(h) = (IF atEnd THEN h.avail ELSE h.num)
               /\ h.num <= h.avail
               /\ (atEnd => h.num = 0 /\ window.end /\ h.first + h.avail = lz.size)
               /\ h.first + h.avail <= lz.size
               /\ Cur = h.first /\ Cur' = (IF atEnd THEN h.first + h.avail ELSE h.first)
    OBVIOUS
  <2>1. ~syncs["hash"].canStart BY <1>6 DEF HashSide, HashPlaces
  <2>2. HashSound(h)
    <3>1. 0 \in 0 .. HashLive - 1 BY <1>8, SyncNumbers
    <3> QED BY <1>3, <3>1 DEF HashSide, HashChain
  <2>3. WindowSound /\ 0 \in 0 .. HashBlocks BY Sizes DEF Works
  <2>4. 0 <= h.num /\ h.num <= Covered(h) /\ Covered(h) <= h.avail
        /\ h.first + h.avail <= window.read
    BY HashBounds, <1>3, <2>2, <2>3
  <2>5. window.read <= lz.size BY <2>3 DEF WindowSound
  <2>6. Covered(h) = (IF atEnd THEN h.avail ELSE h.num) BY <1>3, Sizes DEF Covered
  <2>7. atEnd => h.num = 0 /\ window.end /\ h.first + h.avail = lz.size
    BY <1>3, <2>2, Sizes DEF HashSound
  <2>8. Cur = h.first BY <1>3, <1>6, <1>8 DEF Cur
  <2>9. Cur' = HashEnd(h) - h.num
    <3>1. HashEnd(Hash(0))' = HashEnd(h) BY <1>10 DEF HashEnd, Covered
    <3> QED BY <1>4, <1>8, <3>1 DEF Cur
  <2>10. Cur' = (IF atEnd THEN h.first + h.avail ELSE h.first)
    BY <1>3, <2>6, <2>7, <2>9, Sizes DEF HashEnd
  <2> QED BY <1>3, <2>1, <2>2, <2>4, <2>5, <2>6, <2>7, <2>8, <2>10, Numbers
<1>13. HashSide => HashSide'
  <2> SUFFICES ASSUME HashSide PROVE HashSide' OBVIOUS
  <2>1. HashPlaces' BY <1>1, <1>4, <1>5, <1>6, <1>8, <1>12, SyncNumbers DEF HashSide, HashPlaces
  <2>2. BtSound'
    <3>1. /\ Cur = bt.pos \/ (window.end /\ Cur = lz.size)
          /\ bt.done >= 0 /\ bt.cur >= 2 + bt.done /\ bt.cur < BtLimit
          /\ bt.done = 0 => bt.cur = 2
      BY <1>1, <1>8 DEF HashSide, BtSound
    <3>2. bt'.left >= 0 /\ bt'.left <= h.num /\ Cur' + bt'.avail = h.first + h.avail
      BY <1>3, <1>4, <1>12
    <3>3. Cur' = bt'.pos \/ (window'.end /\ bt'.avail = 0 /\ Cur' = lz'.size /\ bt'.left = 0)
      BY <1>1, <1>3, <1>4, <1>12, <3>1, Numbers, Sizes
    <3>4. bt'.done >= 0 /\ bt'.cur >= 2 + bt'.done /\ bt'.cur <= BtBlockSize
      BY <1>3, <1>4, <1>12, <3>1, Numbers, Sizes
    <3>5. bt'.pc # "done" /\ bt'.done = 0 => bt'.cur = 2 BY <1>4, <3>1
    <3>6. Cur' - bt'.done + bt'.sum = h.first + h.avail
      BY <1>3, <1>4, <1>12, Numbers
    <3>7. bt'.pc = "done" => /\ h.avail < FinderHash /\ bt'.left = 0
                             /\ bt'.pos = h.first \/ h.avail = 0
      BY <1>3, <1>4, <1>12, <3>1, Numbers
    <3>8. bt'.pc # "wait" BY <1>4
    <3> QED BY <1>8, <1>10, <3>2, <3>3, <3>4, <3>5, <3>6, <3>7, <3>8 DEF BtSound
  <2>3. Kept(bt.pos)' BY <1>1, <1>4 DEF HashSide, Kept
  <2> QED BY <1>9, <2>1, <2>2, <2>3 DEF HashSide
<1>14. Serving' => BtSide'
  <2> SUFFICES ASSUME Serving' PROVE BtSide' OBVIOUS
  <2>1. BtSide /\ HashSide BY <1>1, <1>5 DEF Serving, Active, Works
  <2>2. Busy = 1 /\ Busy' = 1 BY <1>1, <1>4 DEF Busy
  <2>3. BtFrame
    BY <1>1, <1>4, <1>5, <2>1, <2>2, SyncNumbers, Numbers DEF BtFrame, BtSide, BtPlaces
  <2>4. Follows
    <3>1. /\ Over => Cur = lz.size /\ Pending = 0
          /\ Cur # bt.pos => Over
      BY <1>1, <2>1 DEF BtSide, BlockChain
    <3>2. Cur' - Pending' = Cur - Pending BY <1>3, <1>4, <1>8, <1>12, <2>1, Numbers
    <3>3. Over => Cur' = lz.size /\ Pending' = 0
      BY <1>3, <1>4, <1>8, <1>12, <2>1, <3>1, Numbers, Sizes
    <3>4. bt'.pc # "done" /\ Cur' # bt'.pos => Over BY <1>4, <1>12, <2>1, <3>1
    <3>5. bt'.pc = "done" => Over \/ bt'.pos = Hash(0)'.first
      BY <1>4, <1>10, <1>12, <2>1, <3>1
    <3> QED BY <3>2, <3>3, <3>4, <3>5 DEF Follows
  <2>5. BtPlaces' /\ BlockChain' BY BtSame, <2>1, <2>3, <2>4 DEF BtSide
  <2>6. Kept(lz.pos)' BY <1>1, <2>1 DEF BtSide, Kept
  <2> QED BY <2>5, <2>6 DEF BtSide
<1> QED BY <1>0, <1>1, <1>5, <1>7, <1>11, <1>13, <1>14 DEF Works

(* The tree thread stops.                                                    *)
LEMMA BtStopWorks ==
  ASSUME FinderTypes, Control, Works, Control', BtStopHash \/ BtStopped
  PROVE Works'
<1>0. ~(lz.pc = "ready" /\ syncs["bt"].needStart) BY Idle DEF BtStep
<1>1. /\ bt.pc \in {"stop", "stopping"} /\ lz' = lz /\ hasher' = hasher
      /\ window' = window /\ hashBuf' = hashBuf /\ btBuf' = btBuf
  BY DEF BtStopHash, BtStopped
<1>2. lz.pc = "stopping" BY <1>1 DEF Control, Phases
<1>3. bt'.pos = bt.pos /\ bt'.ptr = bt.ptr
      /\ (bt'.pc = "stopping" \/ syncs'["bt"].wasStopped)
  <2>1. CASE BtStopped
    <3>1. PICK s \in [Rings -> SyncSet] : s = HasStopped("hash") BY SyncTypes, Fields
    <3>2. syncs' = [s EXCEPT !["bt"].wasStopped = TRUE] BY <2>1, <3>1 DEF BtStopped
    <3>3. syncs'["bt"].wasStopped BY Fields, <3>2 DEF SyncSet
    <3> QED BY Fields, <2>1, <3>3 DEF BtStopped, BtSet
  <2>2. CASE BtStopHash
    <3>1. CASE syncs["hash"].needStart
      BY Fields, <2>2, <3>1 DEF BtStopHash, BtSet, SyncSet
    <3>2. CASE ~syncs["hash"].needStart
      BY Fields, <2>2, <3>2 DEF BtStopHash, BtSet
    <3> QED BY <3>1, <3>2
  <2> QED BY <2>1, <2>2
<1>4. WindowSound' BY WindowSame, <1>1, <1>3 DEF Works
<1>5. ~Active' /\ ~Serving' BY <1>1, <1>2, <1>3 DEF Active, Serving
<1> QED BY <1>1, <1>2, <1>4, <1>5 DEF Works

(* The tree thread is done with a block: it is the one behind those that the *)
(* caller has, and begins where they end.                                    *)
LEMMA BtDoneWorks ==
  ASSUME FinderTypes, Control, Works, BtDone, Control', FinderTypes'
  PROVE Works'
<1>0. ~(lz.pc = "ready" /\ syncs["bt"].needStart) BY Idle DEF BtStep
<1>1. /\ bt.pc = "done" \/ (bt.pc = "fill" /\ bt.cur >= BtLimit)
      /\ lz' = lz /\ hasher' = hasher /\ window' = window /\ hashBuf' = hashBuf
  BY DEF BtDone
<1>2. PICK h : h = hashBuf[bt.hashBlock] OBVIOUS
<1>3. h = Hash(0) /\ h.first \in Int /\ h.num \in Int /\ h.avail \in Int
      /\ Covered(h) \in Int /\ HashEnd(h) \in Int
  BY Entries, <1>2, Sizes
<1>4. PICK b : b = [first |-> IF bt.pc = "done" THEN bt.pos + h.avail - bt.done
                              ELSE bt.pos - bt.done,
                    num |-> bt.done, avail |-> bt.sum, items |-> bt.cur]
  OBVIOUS
<1>5. /\ b.first = (IF bt.pc = "done" THEN bt.pos + h.avail - bt.done ELSE bt.pos - bt.done)
      /\ b.num = bt.done /\ b.avail = bt.sum /\ b.items = bt.cur
  BY <1>4
<1>6. btBuf' = [btBuf EXCEPT ![bt.block] = b] BY <1>2, <1>4 DEF BtDone
<1>7. /\ bt'.pc = "top" /\ bt'.block = (bt.block + 1) % BtBlocks
      /\ bt'.hashBlock = bt.hashBlock /\ bt'.left = bt.left /\ bt'.avail = bt.avail
      /\ bt'.pos = bt.pos /\ bt'.ptr = bt.ptr
  BY Fields DEF BtDone, BtSet
<1>8. /\ syncs'["hash"].needStart = syncs["hash"].needStart
      /\ syncs'["hash"].canStart = syncs["hash"].canStart
      /\ syncs'["hash"].filled = syncs["hash"].filled
      /\ syncs'["hash"].free = syncs["hash"].free
      /\ syncs'["hash"].processed = syncs["hash"].processed
      /\ syncs'["bt"].needStart = syncs["bt"].needStart
      /\ syncs'["bt"].canStart = syncs["bt"].canStart
      /\ syncs'["bt"].wasStopped = syncs["bt"].wasStopped
      /\ syncs'["bt"].free = syncs["bt"].free
      /\ syncs'["bt"].processed = syncs["bt"].processed
      /\ syncs'["bt"].filled = IF syncs["bt"].filled < BtBlocks
                               THEN syncs["bt"].filled + 1 ELSE syncs["bt"].filled
  BY Fields DEF BtDone, Filled, Unlock, SyncSet, NumBlocks
<1>9. WindowSound' BY WindowSame, <1>1, <1>7 DEF Works
<1>10. /\ Holding' = Holding /\ HashLive' = HashLive /\ Filling /\ ~Filling'
       /\ Pending = bt.done /\ Pending' = 0
  BY <1>1, <1>7, <1>8 DEF Holding, HashLive, Filling, Pending
<1>11. /\ HashChain => HashChain'
       /\ Position' = Position /\ \A k : Hash(k)' = Hash(k)
  BY ChainSame, <1>1, <1>7, <1>10
<1>12. Hash(0)' = Hash(0) BY <1>11
<1>13. Cur' = Cur BY <1>7, <1>8, <1>10, <1>11, <1>12 DEF Cur, HashEnd, Covered
<1>14. Active' => HashSide
  <2>1. bt.pc # "stopping" /\ bt'.pc # "stopping" BY <1>1, <1>7
  <2> QED BY <1>1, <1>8, <2>1 DEF Active, Works
<1>15. HashSide => Holding /\ ~syncs["hash"].needStart /\ ~syncs["hash"].canStart
  <2> SUFFICES ASSUME HashSide
               PROVE  Holding /\ ~syncs["hash"].needStart /\ ~syncs["hash"].canStart
    OBVIOUS
  <2>1. ~syncs["hash"].needStart
    <3>1. CASE bt.pc = "done" BY <3>1 DEF Control, Phases
    <3>2. CASE bt.pc # "done"
      <4>1. bt.cur >= BtLimit /\ 2 < BtLimit BY <1>1, <3>2, Sizes
      <4> QED BY <1>1, <1>10, <4>1, Numbers, Sizes DEF HashSide, HashPlaces
    <3> QED BY <3>1, <3>2
  <2>2. bt.pc # "wait" BY <1>1
  <2> QED BY <2>1, <2>2 DEF HashSide, HashPlaces, Holding
<1>16. HashSide => HashSide'
  <2> SUFFICES ASSUME HashSide PROVE HashSide' OBVIOUS
  <2>1. HashPlaces' BY <1>1, <1>7, <1>8, <1>10, <1>15 DEF HashSide, HashPlaces
  <2>2. BtSound' BY <1>1, <1>7, <1>10, <1>12, <1>13 DEF HashSide, BtSound
  <2>3. Kept(bt.pos)' BY <1>1, <1>7 DEF HashSide, Kept
  <2> QED BY <1>11, <2>1, <2>2, <2>3 DEF HashSide
<1>17. Serving' => BtSide'
  <2> SUFFICES ASSUME Serving' PROVE BtSide' OBVIOUS
  <2>1. BtPlaces /\ BlockChain /\ Kept(lz.pos) /\ HashSide
    BY <1>1, <1>8 DEF Serving, Active, Works, BtSide
  <2>2. Busy = 1 /\ Busy' = 0 /\ bt.pc # "start" /\ bt'.pc # "start"
    BY <1>1, <1>7 DEF Busy
  <2>3. PICK n \in 0 .. BtBlocks - 1 : n = BtLive
    BY <2>1, <2>2, BtRoom, Sizes
  <2>4. syncs'["bt"].filled = syncs["bt"].filled + 1 /\ BtLive' = n + 1
    <3>1. syncs["bt"].filled <= n BY <2>3, SyncNumbers DEF BtLive
    <3>2. syncs'["bt"].filled = syncs["bt"].filled + 1 BY <1>8, <2>3, <3>1, SyncNumbers, Sizes
    <3> QED BY <1>1, <2>3, <3>2, SyncNumbers DEF BtLive
  <2>5. bt.block = Behind(lz.block, n, BtBlocks) BY <2>1, <2>2, <2>3 DEF BtPlaces
  <2>6. bt'.block = Behind(lz.block, n + 1, BtBlocks)
    BY <1>7, <2>3, <2>5, RingNext, Numbers, Sizes
  <2>7. BtPlaces'
    BY <1>1, <1>8, <2>1, <2>2, <2>3, <2>4, <2>6, SyncNumbers DEF BtPlaces
  <2>8. \A k \in 0 .. n - 1 : Block(k)' = Block(k)
    <3> TAKE k \in 0 .. n - 1
    <3>1. k \in 0 .. BtBlocks - 1 /\ k # n BY <2>3, Sizes
    <3>2. Behind(lz.block, k, BtBlocks) # bt.block BY RingApart, <2>3, <2>5, <3>1, Numbers, Sizes
    <3> QED BY <1>1, <1>6, <3>2 DEF Block
  <2>9. Block(n)' = b
    <3>1. bt.block \in DOMAIN btBuf BY Numbers DEF FinderTypes
    <3> QED BY <1>1, <1>6, <2>5, <3>1 DEF Block
  <2>10. Last' = b /\ Over' = AtEnd(b)' /\ Reached' = BlockEnd(b)
    <3>1. BtLive' - 1 = n /\ BtLive' > 0 BY <2>3, <2>4
    <3>2. Last' = b BY <2>9, <3>1 DEF Last, Block
    <3> QED BY <3>1, <3>2 DEF Over, Reached, AtEnd, BlockEnd
  <2>11. HashSound(h) /\ Covered(h) <= h.avail /\ h.first + h.avail <= window.read
         /\ window.read <= lz.size
    <3>1. HashLive > 0 BY HashRoom, <1>15, <2>1 DEF HashSide
    <3>2. 0 \in 0 .. HashLive - 1 BY <3>1, SyncNumbers
    <3>3. HashSound(h) BY <1>3, <2>1, <3>2 DEF HashSide, HashChain
    <3>4. WindowSound /\ 0 \in 0 .. HashBlocks BY Sizes DEF Works
    <3> QED BY <1>3, <3>3, <3>4, HashBounds DEF WindowSound
  <2>12. /\ Cur = HashEnd(h) - bt.left /\ bt.left >= 0 /\ bt.done >= 0
         /\ Cur - bt.done + bt.sum = h.first + h.avail
         /\ bt.cur <= BtBlockSize
    BY <1>1, <1>3, <1>10, <1>15, <2>1 DEF HashSide, BtSound, Cur
  <2>13. ASSUME bt.pc = "fill"
         PROVE  /\ ~Over /\ BlockSound(b) /\ b.first = Reached /\ BlockEnd(b) = Cur
                /\ AtEnd(b) => Cur = lz.size
                /\ Cur = bt.pos
    <3>1. bt.done > 0
      <4>1. bt.cur # 2 BY <1>1, <2>13, Sizes, Numbers
      <4> QED BY <1>10, <2>1, <2>12, <2>13, <4>1, Numbers DEF HashSide, BtSound
    <3>2. ~Over /\ Cur = bt.pos /\ Reached = Cur - bt.done
      BY <1>10, <2>1, <2>13, <3>1 DEF BlockChain
    <3>3. b.first = Cur - bt.done /\ b.num = bt.done /\ b.num # 0 /\ BlockEnd(b) = Cur
          /\ b.first + b.avail = h.first + h.avail
      BY <1>5, <2>12, <2>13, <3>1, <3>2, Numbers DEF BlockEnd
    <3>4. BlockSound(b)
      <4>1. 0 <= b.num /\ b.num <= b.avail
        BY <1>3, <1>5, <2>11, <2>12, <3>1, Numbers DEF HashEnd
      <4>2. b.first + b.avail = lz.size \/ b.num + FinderMaxLen <= b.avail
        <5>1. CASE h.avail > KeepAfter
          <6>1. Covered(h) <= HashBlockSize - 2
            BY <1>3, <2>11, <5>1, Sizes DEF HashSound, Covered, Lesser
          <6> QED BY <1>3, <1>5, <2>12, <5>1, <6>1, Numbers, Sizes DEF HashEnd
        <5>2. CASE ~(h.avail > KeepAfter) BY <2>11, <3>3, <5>2 DEF HashSound
        <5> QED BY <5>1, <5>2
      <4> QED BY <1>5, <2>11, <2>12, <3>3, <4>1, <4>2 DEF BlockSound
    <3>5. AtEnd(b) => Cur = lz.size BY <3>3 DEF AtEnd
    <3> QED BY <3>2, <3>3, <3>4, <3>5
  <2>14. ASSUME bt.pc = "done"
         PROVE  /\ AtEnd(b) /\ Cur = lz.size
                /\ ~Over => BlockSound(b) /\ b.first = Reached /\ BlockEnd(b) = Cur
    <3>1. h.avail < FinderHash /\ bt.left = 0
      BY <1>3, <2>1, <2>14 DEF HashSide, BtSound
    <3>2. Cur = lz.size /\ h.first + h.avail = lz.size /\ window.end
      BY <1>3, <2>11, <2>12, <3>1, Sizes DEF HashSound, HashEnd, Covered
    <3>3. bt.sum = bt.done BY <2>12, <3>2, Numbers
    <3>4. CASE Over
      <4>1. bt.done = 0 BY <1>10, <2>1, <3>4 DEF BlockChain
      <4>2. AtEnd(b) BY <1>5, <3>3, <4>1 DEF AtEnd
      <4> QED BY <3>2, <3>4, <4>2
    <3>5. CASE ~Over
      <4>1. bt.pos = h.first /\ Reached = Cur - bt.done
        BY <1>3, <1>10, <2>1, <2>14, <3>5 DEF BlockChain
      <4>2. b.first = Cur - bt.done /\ BlockEnd(b) = Cur
        BY <1>3, <1>5, <2>14, <3>2, <4>1, Numbers DEF BlockEnd
      <4>3. BlockSound(b)
        BY <1>3, <1>5, <2>11, <2>12, <3>2, <3>3, <4>2, Numbers DEF BlockSound
      <4>4. AtEnd(b) BY <3>2, <4>2 DEF AtEnd
      <4> QED BY <3>2, <4>1, <4>2, <4>3, <4>4
    <3> QED BY <3>4, <3>5
  <2>15. /\ ~Over => BlockSound(b) /\ b.first = Reached /\ BlockEnd(b) = Cur
         /\ AtEnd(b) => Cur = lz.size
         /\ Over \/ Cur # bt.pos => AtEnd(b)
    BY <1>1, <2>13, <2>14
  <2>16. (AtEnd(b)' <=> AtEnd(b)) /\ (BlockSound(b)' <=> BlockSound(b))
    BY <1>1 DEF AtEnd, BlockSound
  <2>17. BlockChain'
    <3>1. /\ lz'.pc = "ready" =>
             /\ BlockSound(Block(0))' /\ 0 <= lz'.left /\ lz'.left <= Block(0)'.num
             /\ lz'.pos = BlockEnd(Block(0))' - lz'.left
             /\ lz'.pos + lz'.avail = Block(0)'.first + Block(0)'.avail
          /\ lz'.pc = "wait" => /\ lz'.left = 0
                                /\ BtLive' > 0 => BlockSound(Block(0))' /\ Block(0)'.first = lz'.pos
      <4>1. CASE n > 0
        <5>1. Block(0)' = Block(0) BY <2>3, <2>8, <4>1
        <5> QED BY <1>1, <2>1, <2>3, <4>1, <5>1 DEF BlockChain, BlockSound, BlockEnd
      <4>2. CASE n = 0
        <5>1. lz.pc = "wait" /\ lz.left = 0 /\ ~Over /\ Reached = lz.pos
          BY <1>1, <1>8, <2>1, <2>3, <4>2, SyncNumbers
          DEF Serving, BlockChain, BtLive, Over, Reached, BtPlaces
        <5>2. Block(0)' = b BY <2>9, <4>2
        <5>3. BlockSound(Block(0))' BY <2>15, <2>16, <5>1, <5>2 DEF BlockSound
        <5> QED BY <1>1, <2>15, <5>1, <5>2, <5>3
      <4> QED BY <2>3, <4>1, <4>2
    <3>2. \A k \in 1 .. BtLive' - 1 :
            \/ AtEnd(Block(k - 1))'
            \/ BlockSound(Block(k))' /\ Block(k)'.first = BlockEnd(Block(k - 1))'
      <4> SUFFICES ASSUME NEW k \in 1 .. n
                   PROVE  \/ AtEnd(Block(k - 1))'
                          \/ BlockSound(Block(k))' /\ Block(k)'.first = BlockEnd(Block(k - 1))'
        BY <2>3, <2>4
      <4>1. Block(k - 1)' = Block(k - 1) /\ k \in 1 .. n
        <5>1. k - 1 \in 0 .. n - 1 BY <2>3
        <5> QED BY <2>8, <5>1
      <4>2. AtEnd(Block(k - 1))' <=> AtEnd(Block(k - 1)) BY <1>1, <4>1 DEF AtEnd, BlockEnd
      <4>3. BlockEnd(Block(k - 1))' = BlockEnd(Block(k - 1)) BY <4>1 DEF BlockEnd
      <4>4. CASE k = n
        <5>1. Last = Block(k - 1) /\ BtLive > 0 BY <2>3, <4>1, <4>4 DEF Last
        <5>2. Block(k)' = b BY <2>9, <4>4
        <5>3. BlockSound(Block(k))' <=> BlockSound(b) BY <1>1, <5>2 DEF BlockSound
        <5>4. CASE Over BY <4>2, <5>1, <5>4 DEF Over
        <5>5. CASE ~Over
          <6>1. b.first = BlockEnd(Block(k - 1)) BY <2>15, <5>1, <5>5 DEF Reached
          <6> QED BY <2>15, <4>3, <5>2, <5>3, <5>5, <6>1
        <5> QED BY <5>4, <5>5
      <4>5. CASE k # n
        <5>1. k \in 0 .. n - 1 /\ k \in 1 .. BtLive - 1 BY <2>3, <4>1, <4>5
        <5>2. Block(k)' = Block(k) BY <2>8, <5>1
        <5>3. BlockSound(Block(k))' <=> BlockSound(Block(k)) BY <1>1, <5>2 DEF BlockSound
        <5>4. \/ AtEnd(Block(k - 1))
              \/ BlockSound(Block(k)) /\ Block(k).first = BlockEnd(Block(k - 1))
          BY <2>1, <5>1 DEF BlockChain
        <5> QED BY <4>2, <4>3, <5>2, <5>3, <5>4
      <4> QED BY <4>4, <4>5
    <3>3. /\ IF Over' THEN Cur' = lz'.size /\ Pending' = 0 ELSE Reached' = Cur' - Pending'
          /\ bt'.pc # "done" /\ Cur' # bt'.pos => Over'
          /\ bt'.pc = "done" => Over' \/ bt'.pos = Hash(0)'.first
      BY <1>1, <1>7, <1>10, <1>13, <2>10, <2>15, <2>16, CurNumber
    <3>4. ~window'.end => \A k \in 0 .. BtLive' - 1 :
            Cur' - Pending' - Block(k)'.first <= (BtLive' - k) * BtBlockSize
      <4> SUFFICES ASSUME ~window.end, NEW k \in 0 .. n
                   PROVE  Cur - Block(k)'.first <= (n + 1 - k) * BtBlockSize
        BY <1>1, <1>10, <1>13, <2>3, <2>4, CurNumber
      <4>1. bt.pc = "fill" /\ ~Over
        <5>1. bt.pc # "done"
          <6> SUFFICES ASSUME bt.pc = "done" PROVE FALSE OBVIOUS
          <6>1. h.avail < FinderHash BY <1>3, <2>1 DEF HashSide, BtSound
          <6> QED BY <1>3, <2>11, <6>1, Sizes DEF HashSound
        <5>2. bt.pc = "fill" BY <1>1, <5>1
        <5> QED BY <2>13, <5>2
      <4>2. bt.done <= BtBlockSize BY <1>1, <1>10, <2>1, <4>1, Numbers, Sizes DEF HashSide, BtSound
      <4>3. (n - k) * BtBlockSize \in Int
            /\ (n + 1 - k) * BtBlockSize = (n - k) * BtBlockSize + BtBlockSize
        <5>1. PICK i \in Nat : i = n - k BY <2>3
        <5>2. i * BtBlockSize \in Int /\ (i + 1) * BtBlockSize = i * BtBlockSize + BtBlockSize
          BY Product, Sizes
        <5>3. n + 1 - k = i + 1 BY <2>3, <5>1
        <5> QED BY <5>1, <5>2, <5>3
      <4>4. CASE k = n
        <5>1. Block(k)' = b /\ b.first = Cur - bt.done
          BY <1>10, <2>1, <2>9, <2>15, <4>1, <4>4 DEF BlockChain
        <5>2. (n - k) * BtBlockSize = 0
          <6>1. n - k = 0 BY <2>3, <4>4
          <6> QED BY <6>1, Sizes
        <5> QED BY <4>2, <4>3, <5>1, <5>2, CurNumber, Numbers, Sizes
      <4>5. CASE k # n
        <5>1. k \in 0 .. n - 1 /\ k \in 0 .. BtLive - 1 BY <2>3, <4>5
        <5>2. Block(k)' = Block(k) BY <2>8, <5>1
        <5>3. Cur - bt.done - Block(k).first <= (n - k) * BtBlockSize
          BY <1>10, <2>1, <2>3, <5>1 DEF BlockChain
        <5>4. Block(k).first \in Int
          <6>1. k \in 0 .. BtBlocks BY <2>3, <5>1, Sizes
          <6> QED BY Entries, <6>1
        <5> QED BY <4>2, <4>3, <5>2, <5>3, <5>4, CurNumber, Numbers, Sizes
      <4> QED BY <4>4, <4>5
    <3> QED BY <3>1, <3>2, <3>3, <3>4 DEF BlockChain
  <2>18. Kept(lz.pos)' BY <1>1, <2>1 DEF Kept
  <2> QED BY <2>7, <2>17, <2>18 DEF BtSide
<1> QED BY <1>0, <1>1, <1>8, <1>9, <1>14, <1>16, <1>17 DEF Works

-----------------------------------------------------------------------------
(* The steps of the hash thread                                              *)
LEMMA HashStartWorks ==
  ASSUME FinderTypes, Control, Works, HashStart, Control', FinderTypes'
  PROVE Works'
<1>0. ~(lz.pc = "ready" /\ syncs["bt"].needStart) BY Idle DEF HashStep
<1>1. /\ hasher.pc = "start" /\ syncs["hash"].canStart /\ lz' = lz /\ bt' = bt
      /\ window' = window /\ hashBuf' = hashBuf /\ btBuf' = btBuf
  BY DEF HashStart
<1>2. hasher'.pc \in {"gone", "top"} /\ hasher'.block = 0 BY DEF HashStart
<1>3. /\ syncs'["bt"] = syncs["bt"] /\ syncs'["hash"].needStart = syncs["hash"].needStart
      /\ syncs'["hash"].free = syncs["hash"].free /\ syncs'["hash"].filled = syncs["hash"].filled
      /\ syncs'["hash"].processed = syncs["hash"].processed
      /\ ~syncs'["hash"].canStart
  BY Fields DEF HashStart, SyncSet
<1>4. WindowSound' BY WindowSame, <1>1, <1>2 DEF Works
<1>5. Holding' = Holding /\ HashLive' = HashLive /\ Pending' = Pending /\ Filling' = Filling
  BY <1>1, <1>3 DEF Holding, HashLive, Pending, Filling
<1>6. /\ HashChain => HashChain'
      /\ Position' = Position /\ \A k : Hash(k)' = Hash(k)
  BY ChainSame, <1>1, <1>5
<1>7. Hash(0)' = Hash(0) BY <1>6
<1>8. Cur' = Cur BY <1>1, <1>3, <1>5, <1>6, <1>7 DEF Cur, HashEnd, Covered
<1>9. Active' => HashSide'
  <2> SUFFICES ASSUME Active' PROVE HashSide' OBVIOUS
  <2>1. HashSide /\ lz.pc \in {"ready", "wait", "stopping"}
    BY <1>1, <1>3 DEF Active, Works
  <2>2. ~syncs["hash"].needStart BY <1>1, <2>1 DEF Control, Phases
  <2>3. /\ syncs["hash"].free = HashBlocks /\ syncs["hash"].filled = 0
        /\ bt.pc = "wait" /\ bt.hashBlock = 0 /\ syncs["hash"].processed = 1
    BY <1>1, <2>1, <2>2 DEF HashSide, HashPlaces
  <2>4. HashLive' = 0 BY <1>1, <1>3, <2>3 DEF HashLive, Holding
  <2>5. (1 - 1) % HashBlocks = 0 /\ Behind(0, 0, HashBlocks) = 0 /\ HashBlocks \in Nat
    BY Sizes, RingCount DEF Behind
  <2>6. HashPlaces' BY <1>1, <1>2, <1>3, <2>2, <2>3, <2>4, <2>5 DEF HashPlaces
  <2>7. BtSound' BY <1>1, <1>5, <1>7, <1>8, <2>1 DEF HashSide, BtSound
  <2>8. Kept(bt.pos)' BY <1>1, <2>1 DEF HashSide, Kept
  <2> QED BY <1>6, <2>1, <2>6, <2>7, <2>8 DEF HashSide
<1>10. Serving' => BtSide'
  <2> SUFFICES ASSUME Serving' PROVE BtSide' OBVIOUS
  <2>1. BtSide BY <1>1, <1>3 DEF Serving, Works
  <2>2. Busy' = Busy BY <1>1 DEF Busy
  <2>3. BtFrame BY <1>1, <1>3, <2>1, <2>2, SyncNumbers, Numbers DEF BtFrame, BtSide, BtPlaces
  <2>4. Follows BY FollowsSame, <1>1, <1>5, <1>7, <1>8, <2>1 DEF BtSide
  <2>5. BtPlaces' /\ BlockChain' BY BtSame, <2>1, <2>3, <2>4 DEF BtSide
  <2>6. Kept(lz.pos)' BY <1>1, <2>1 DEF BtSide, Kept
  <2> QED BY <2>5, <2>6 DEF BtSide
<1> QED BY <1>0, <1>1, <1>3, <1>4, <1>9, <1>10 DEF Works

LEMMA HashLockWorks ==
  ASSUME FinderTypes, Control, Works, HashLockBt, Control', FinderTypes'
  PROVE Works'
<1>0. ~(lz.pc = "ready" /\ syncs["bt"].needStart) BY Idle DEF HashStep
<1>1. /\ hasher.pc = "top" /\ NeedMove /\ lz' = lz /\ bt' = bt
      /\ window' = window /\ hashBuf' = hashBuf /\ btBuf' = btBuf
  BY DEF HashLockBt
<1>2. hasher'.pc = "move" /\ hasher'.block = hasher.block BY Fields DEF HashLockBt, HasherSet
<1>3. /\ syncs'["hash"] = syncs["hash"] /\ syncs'["bt"].needStart = syncs["bt"].needStart
      /\ syncs'["bt"].free = syncs["bt"].free /\ syncs'["bt"].filled = syncs["bt"].filled
      /\ syncs'["bt"].processed = syncs["bt"].processed
      /\ syncs'["bt"].canStart = syncs["bt"].canStart
      /\ syncs'["bt"].wasStopped = syncs["bt"].wasStopped
  BY Fields DEF HashLockBt, SyncSet
<1>4. WindowSound' BY <1>1, <1>2 DEF Works, WindowSound, NeedMove, Position
<1>5. HashFrame BY <1>1, <1>2, <1>3 DEF HashFrame
<1>6. Active' => HashSide /\ HashSide' BY HashSame, <1>1, <1>3, <1>5 DEF Active, Works
<1>7. Cur' = Cur /\ Pending' = Pending /\ Hash(0)' = Hash(0) BY HashSame, <1>5
<1>8. Serving' => BtSide'
  <2> SUFFICES ASSUME Serving' PROVE BtSide' OBVIOUS
  <2>1. BtSide BY <1>1, <1>3 DEF Serving, Works
  <2>2. Busy' = Busy BY <1>1 DEF Busy
  <2>3. BtFrame BY <1>1, <1>3, <2>1, <2>2, SyncNumbers, Numbers DEF BtFrame, BtSide, BtPlaces
  <2>4. Follows BY FollowsSame, <1>1, <1>7, <2>1 DEF BtSide
  <2>5. BtPlaces' /\ BlockChain' BY BtSame, <2>1, <2>3, <2>4 DEF BtSide
  <2>6. Kept(lz.pos)' BY <1>1, <2>1 DEF BtSide, Kept
  <2> QED BY <2>5, <2>6 DEF BtSide
<1> QED BY <1>0, <1>1, <1>3, <1>4, <1>6, <1>8 DEF Works

(* The hash thread was told to stop: then the tree thread waits for it.      *)
LEMMA HashStopWorks ==
  ASSUME FinderTypes, Control, Works, Control',
         HashStopped \/ (HashFill /\ syncs["hash"].stop)
  PROVE Works'
<1>1. /\ hasher.pc \in {"stopped", "top"} /\ lz' = lz /\ bt' = bt
      /\ window' = window /\ hasher'.pc \in {"start", "stopped"}
  BY Fields DEF HashStopped, HashFill, HasherSet
<1>2. bt.pc = "stopping" /\ lz.pc = "stopping"
  <2>1. CASE HashStopped
    <3>1. hasher.pc = "stopped" BY <2>1 DEF HashStopped
    <3> QED BY <3>1 DEF Control, Phases
  <2>2. CASE HashFill /\ syncs["hash"].stop
    <3>1. hasher.pc = "top" /\ syncs["hash"].stop BY <2>2 DEF HashFill
    <3> QED BY <3>1 DEF Control, Phases
  <2> QED BY <2>1, <2>2
<1>3. WindowSound' BY WindowSame, <1>1 DEF Works
<1>4. ~Active' /\ ~Serving' BY <1>1, <1>2 DEF Active, Serving
<1> QED BY <1>1, <1>2, <1>3, <1>4 DEF Works

(* How far the threads are ahead of each other                               *)
LEMMA HashAhead ==
  ASSUME FinderTypes, WindowSound, HashSide, ~window.end,
         ~syncs["hash"].needStart, ~syncs["hash"].canStart
  PROVE Cur = bt.pos /\ Position - Cur <= HashBlocks * HashBlockSize
          /\ HashBlocks * HashBlockSize \in Int
<1>1. Cur = bt.pos BY DEF HashSide, BtSound
<1>2. HashLive \in 0 .. HashBlocks /\ (Holding => HashLive > 0) /\ syncs["hash"].filled >= 0
  BY HashRoom DEF HashSide
<1>3. PICK m \in Nat : m = HashLive /\ m <= HashBlocks BY <1>2, Sizes
<1>4. 0 * HashBlockSize <= m * HashBlockSize /\ m * HashBlockSize <= HashBlocks * HashBlockSize
      /\ m * HashBlockSize \in Int /\ HashBlocks * HashBlockSize \in Int
      /\ 0 * HashBlockSize = 0
  BY Product, Sizes, <1>3
<1>5. HashLive > 0 =>
        /\ HashSound(Hash(0))
        /\ Position - Hash(0).first <= m * HashBlockSize
  <2> SUFFICES ASSUME HashLive > 0
        PROVE  HashSound(Hash(0)) /\ Position - Hash(0).first <= m * HashBlockSize
    OBVIOUS
  <2>1. 0 \in 0 .. HashLive - 1 BY <1>3
  <2>2. Position - Hash(0).first <= (HashLive - 0) * HashBlockSize
    BY <2>1 DEF HashSide, HashChain
  <2>3. HashLive - 0 = m BY <1>3
  <2> QED BY <2>1, <2>2, <2>3 DEF HashSide, HashChain
<1>6. Hash(0).first \in Int /\ Hash(0).num \in Int /\ HashEnd(Hash(0)) \in Int
      /\ 0 \in 0 .. HashBlocks /\ Covered(Hash(0)) \in Int
  BY Entries, Sizes
<1>7. CASE Holding
  <2>1. HashSound(Hash(0)) /\ Position - Hash(0).first <= m * HashBlockSize BY <1>2, <1>5, <1>7
  <2>2. Hash(0).num <= Covered(Hash(0)) BY HashBounds, <1>6, <2>1
  <2>3. Cur = HashEnd(Hash(0)) - bt.left /\ bt.left <= Hash(0).num
    BY <1>7 DEF Cur, HashSide, BtSound
  <2> QED BY <1>1, <1>4, <1>6, <2>1, <2>2, <2>3, Numbers DEF HashEnd
<1>8. CASE ~Holding /\ syncs["hash"].filled > 0
  <2>1. Cur = Hash(0).first /\ HashLive > 0 BY <1>8, SyncNumbers DEF Cur, HashLive
  <2> QED BY <1>1, <1>4, <1>5, <1>6, <2>1, Numbers
<1>9. CASE ~Holding /\ ~(syncs["hash"].filled > 0)
  <2>1. Cur = Position BY <1>9 DEF Cur
  <2> QED BY <1>1, <1>4, <2>1, Numbers
<1> QED BY <1>7, <1>8, <1>9

LEMMA BtAhead ==
  ASSUME FinderTypes, ~window.end, BtSide, HashSide, Serving
  PROVE Cur - lz.pos <= BtBlocks * BtBlockSize /\ BtBlocks * BtBlockSize \in Int
<1>1. BtLive \in 0 .. BtBlocks /\ BtLive + Busy <= BtBlocks BY BtRoom DEF BtSide
<1>2. PICK m \in Nat : m = BtLive /\ m <= BtBlocks BY <1>1, Sizes
<1>3. Pending <= BtBlockSize /\ (Busy = 0 => Pending = 0)
  BY Numbers, Sizes DEF HashSide, BtSound, Pending, Filling, Busy
<1>4. Cur - Pending - lz.pos <= m * BtBlockSize
  <2>1. CASE m > 0
    <3>1. 0 \in 0 .. BtLive - 1 BY <1>2, <2>1
    <3>2. Cur - Pending - Block(0).first <= (BtLive - 0) * BtBlockSize
      BY <3>1 DEF BtSide, BlockChain
    <3>3. BtLive - 0 = m BY <1>2
    <3>4. Block(0).first \in Int /\ Block(0).num \in Int BY Entries, Sizes
    <3>5. lz.pos >= Block(0).first
      BY <1>2, <2>1, <3>4, Numbers DEF BtSide, BlockChain, BlockSound, BlockEnd, Serving
    <3> QED BY <3>2, <3>3, <3>4, <3>5, Numbers, CurNumber, Product, Sizes
  <2>2. CASE m = 0
    <3>1. Cur - Pending = lz.pos BY <1>2, <2>2 DEF BtSide, BlockChain, Over, Reached
    <3>2. m * BtBlockSize = 0 BY <2>2, Sizes
    <3> QED BY <3>1, <3>2, Numbers, CurNumber
  <2> QED BY <1>2, <2>1, <2>2
<1>5. CASE Busy = 0
  <2>1. m * BtBlockSize <= BtBlocks * BtBlockSize /\ m * BtBlockSize \in Int
        /\ BtBlocks * BtBlockSize \in Int
    BY Product, Sizes, <1>2
  <2> QED BY <1>3, <1>4, <1>5, <2>1, Numbers, CurNumber
<1>6. CASE Busy = 1
  <2>1. m + 1 <= BtBlocks BY <1>1, <1>2, <1>6
  <2>2. (m + 1) * BtBlockSize <= BtBlocks * BtBlockSize /\ BtBlocks * BtBlockSize \in Int
    BY Product, Sizes, <1>2, <2>1
  <2>3. (m + 1) * BtBlockSize = m * BtBlockSize + BtBlockSize /\ m * BtBlockSize \in Int
    BY Product, Sizes, <1>2
  <2> QED BY <1>3, <1>4, <2>2, <2>3, Numbers, CurNumber, Sizes
<1> QED BY <1>5, <1>6, SyncNumbers

-----------------------------------------------------------------------------
(* The hash thread moves the window: what is kept reaches back far enough    *)
(* for both of the others.                                                   *)
LEMMA KeptApart ==
  /\ KeepBefore = FinderHistory + HashBlocks * HashBlockSize + BtBlocks * BtBlockSize + 1
  /\ HashBlocks * HashBlockSize \in Nat /\ BtBlocks * BtBlockSize \in Nat
<1>1. HashBlocks \in Nat /\ HashBlockSize \in Nat /\ BtBlocks \in Nat /\ BtBlockSize \in Nat
  BY Sizes
<1>2. \A a, b \in Nat : a * b \in Nat OBVIOUS
<1> QED BY <1>1, <1>2 DEF KeepBefore

LEMMA ChainMoved ==
  ASSUME HashChain, Position' = Position, window'.read = window.read,
         window'.end = window.end, hashBuf' = hashBuf, lz'.size = lz.size,
         bt'.hashBlock = bt.hashBlock, HashLive' = HashLive
  PROVE HashChain'
<1>1. \A k : Hash(k)' = Hash(k) BY DEF Hash
<1>2. \A k : HashSound(Hash(k))' = HashSound(Hash(k)) BY <1>1 DEF HashSound
<1>3. \A k : HashEnd(Hash(k))' = HashEnd(Hash(k)) BY <1>1 DEF HashEnd, Covered
<1> QED BY <1>1, <1>2, <1>3 DEF HashChain

LEMMA HashMoveWorks ==
  ASSUME FinderTypes, Control, Works, HashMove, Control', FinderTypes'
  PROVE Works'
<1>0. ~(lz.pc = "ready" /\ syncs["bt"].needStart) BY Idle DEF HashStep
<1>1. PICK offset : /\ offset = window.buffer - KeepBefore
                    /\ window' = [window EXCEPT !.base = @ + offset, !.buffer = KeepBefore]
                    /\ lz' = [lz EXCEPT !.ptr = @ - offset]
                    /\ bt' = [bt EXCEPT !.ptr = @ - offset]
  BY DEF HashMove
<1>2. /\ hasher.pc = "move" /\ hashBuf' = hashBuf /\ btBuf' = btBuf
      /\ hasher'.pc = "top" /\ hasher'.block = hasher.block
  BY Fields DEF HashMove, HasherSet
<1>3. /\ syncs'["hash"] = syncs["hash"] /\ syncs'["bt"].needStart = syncs["bt"].needStart
      /\ syncs'["bt"].free = syncs["bt"].free /\ syncs'["bt"].filled = syncs["bt"].filled
      /\ syncs'["bt"].processed = syncs["bt"].processed
      /\ syncs'["bt"].canStart = syncs["bt"].canStart
      /\ syncs'["bt"].wasStopped = syncs["bt"].wasStopped
  BY Fields DEF HashMove, SyncSet
<1>4. /\ window'.base = window.base + offset /\ window'.buffer = KeepBefore
      /\ window'.read = window.read /\ window'.end = window.end
  BY <1>1, Fields DEF WindowSet
<1>5. /\ lz'.pc = lz.pc /\ lz'.pos = lz.pos /\ lz'.ptr = lz.ptr - offset /\ lz'.left = lz.left
      /\ lz'.avail = lz.avail /\ lz'.size = lz.size /\ lz'.block = lz.block
  BY <1>1, Fields DEF LzSet
<1>6. /\ bt'.pc = bt.pc /\ bt'.block = bt.block /\ bt'.hashBlock = bt.hashBlock
      /\ bt'.pos = bt.pos /\ bt'.ptr = bt.ptr - offset /\ bt'.left = bt.left
      /\ bt'.avail = bt.avail /\ bt'.cur = bt.cur /\ bt'.done = bt.done /\ bt'.sum = bt.sum
  BY <1>1, Fields DEF BtSet
<1>7. ~window.end /\ offset > 0 /\ offset \in Int /\ ~window'.end
  <2>1. NeedMove BY <1>2 DEF Works, WindowSound
  <2> QED BY <1>1, <1>4, <2>1, Sizes, Numbers DEF NeedMove
<1>8. Position' = Position BY <1>1, <1>4, Numbers, Sizes DEF Position
<1>9. WindowSound'
  <2>1. 0 <= window'.base /\ 0 <= window'.buffer /\ window'.read - window'.base <= WindowSize
    BY <1>4, <1>7, Numbers, Sizes DEF Works, WindowSound
  <2>2. window'.base + lz'.ptr = lz'.pos /\ window'.base + bt'.ptr = bt'.pos
    BY <1>4, <1>5, <1>6, <1>7, Numbers DEF Works, WindowSound
  <2>3. Position' <= window'.read /\ window'.read <= lz'.size
    BY <1>4, <1>5, <1>8 DEF Works, WindowSound
  <2> QED BY <1>2, <1>7, <2>1, <2>2, <2>3 DEF WindowSound
<1>10. Holding' = Holding /\ HashLive' = HashLive /\ Pending' = Pending /\ Filling' = Filling
  BY <1>3, <1>6 DEF Holding, HashLive, Pending, Filling
<1>11. Hash(0)' = Hash(0) BY <1>2, <1>6 DEF Hash
<1>12. Cur' = Cur BY <1>3, <1>6, <1>8, <1>10, <1>11 DEF Cur, HashEnd, Covered
<1>13. ~syncs["hash"].needStart /\ ~syncs["hash"].canStart BY <1>2 DEF Control, Phases
<1>14. Active' => HashSide /\ HashSide'
  <2> SUFFICES ASSUME Active' PROVE HashSide /\ HashSide' OBVIOUS
  <2>1. HashSide BY <1>3, <1>5, <1>6 DEF Active, Works
  <2>2. HashPlaces' BY <1>2, <1>3, <1>6, <1>10, <1>13, <2>1 DEF HashSide, HashPlaces
  <2>3. HashChain' BY ChainMoved, <1>2, <1>4, <1>5, <1>6, <1>8, <1>10, <2>1 DEF HashSide
  <2>4. BtSound' BY <1>4, <1>5, <1>6, <1>10, <1>11, <1>12, <2>1 DEF HashSide, BtSound
  <2>5. Kept(bt.pos)'
    <3>1. Cur = bt.pos /\ Position - Cur <= HashBlocks * HashBlockSize
      BY HashAhead, <1>7, <1>13, <2>1 DEF Works
    <3>2. bt.pos - FinderHistory >= window.base + (window.buffer - KeepBefore)
      BY <3>1, KeptApart, Numbers, Sizes DEF Position
    <3> QED BY <1>1, <1>4, <1>6, <3>2 DEF Kept
  <2> QED BY <2>1, <2>2, <2>3, <2>4, <2>5 DEF HashSide
<1>15. Serving' => BtSide'
  <2> SUFFICES ASSUME Serving' PROVE BtSide' OBVIOUS
  <2>1. BtSide /\ HashSide /\ Serving BY <1>3, <1>5, <1>14 DEF Serving, Active, Works
  <2>2. Busy' = Busy BY <1>6 DEF Busy
  <2>3. BtFrame
    BY <1>2, <1>3, <1>4, <1>5, <1>6, <2>1, <2>2, SyncNumbers, Numbers DEF BtFrame, BtSide, BtPlaces
  <2>4. Follows BY FollowsSame, <1>6, <1>10, <1>11, <1>12, <2>1 DEF BtSide
  <2>5. BtPlaces' /\ BlockChain' BY BtSame, <2>1, <2>3, <2>4 DEF BtSide
  <2>6. Kept(lz.pos)'
    <3>1. Position - Cur <= HashBlocks * HashBlockSize
      BY HashAhead, <1>7, <1>13, <2>1 DEF Works
    <3>2. Cur - lz.pos <= BtBlocks * BtBlockSize BY BtAhead, <1>7, <2>1
    <3>3. lz.pos - FinderHistory >= window.base + (window.buffer - KeepBefore)
      BY <3>1, <3>2, KeptApart, Numbers, CurNumber, Sizes DEF Position
    <3> QED BY <1>1, <1>4, <1>5, <3>3 DEF Kept
  <2> QED BY <2>5, <2>6 DEF BtSide
<1> QED BY <1>0, <1>3, <1>5, <1>9, <1>14, <1>15 DEF Works

-----------------------------------------------------------------------------
(* The hash thread reads the stream and fills a block: it has read enough    *)
(* for the longest match, or everything.                                     *)
LEMMA ReadEnough ==
  ASSUME FinderTypes, WindowSound, ~NeedMove, NEW n \in 0 .. lz.size, ReadBlock(n),
         NEW avail, avail = window.read + n - Position
  PROVE /\ avail \in Int /\ avail >= 0 /\ window.read + n <= lz.size
        /\ window.read + n - window.base <= WindowSize
        /\ window.end \/ avail <= KeepAfter => window.read + n = lz.size
<1>1. n \in Int /\ n >= 0 /\ avail \in Int BY Numbers
<1>2. /\ Position <= window.read /\ window.read <= lz.size /\ Position \in Int
      /\ window.read - window.base <= WindowSize /\ (window.end => window.read = lz.size)
      /\ window.end \/ WindowSize - window.buffer > KeepAfter
      /\ Position = window.base + window.buffer
  BY Numbers, Sizes DEF WindowSound, NeedMove, Position
<1>3. CASE window.end \/ window.read - Position > KeepAfter
  <2>1. n = 0 BY <1>3 DEF ReadBlock
  <2> QED BY <1>1, <1>2, <1>3, <2>1, Numbers, Sizes
<1>4. CASE ~(window.end \/ window.read - Position > KeepAfter)
  <2>1. PICK rest \in Int, space \in Int, enough \in Int :
          /\ rest = lz.size - window.read /\ space = WindowSize - (window.read - window.base)
          /\ enough = KeepAfter + 1 - (window.read - Position)
    BY <1>2, Numbers, Sizes
  <2>2. n \in {Lesser(rest, space), Lesser(enough, Lesser(rest, space))}
    BY <1>4, <2>1 DEF ReadBlock
  <2>3. n = rest \/ (n = space /\ n <= rest) \/ (n = enough /\ n <= rest /\ n <= space)
    BY <2>1, <2>2 DEF Lesser
  <2>4. n <= rest /\ n <= space BY <2>1, <2>2 DEF Lesser
  <2>5. CASE n = rest BY <1>1, <1>2, <2>1, <2>4, <2>5, Numbers, Sizes
  <2>6. CASE n = space
    <3>1. avail = WindowSize - window.buffer BY <1>2, <2>1, <2>6, Numbers, Sizes
    <3> QED BY <1>1, <1>2, <1>4, <2>1, <2>4, <3>1, Numbers, Sizes
  <2>7. CASE n = enough
    <3>1. avail = KeepAfter + 1 BY <1>2, <2>1, <2>7, Numbers, Sizes
    <3> QED BY <1>1, <1>2, <1>4, <2>1, <2>4, <3>1, Numbers, Sizes
  <2> QED BY <2>3, <2>5, <2>6, <2>7
<1> QED BY <1>3, <1>4

(* What a step of this kind does                                             *)
HashFills(e) ==
  /\ hasher.pc = "top" /\ syncs["hash"].free > 0
  /\ lz' = lz /\ bt' = bt /\ btBuf' = btBuf /\ hashBuf' = [hashBuf EXCEPT ![hasher.block] = e]
  /\ hasher'.pc = "top" /\ hasher'.block = (hasher.block + 1) % HashBlocks
  /\ syncs'["bt"] = syncs["bt"] /\ syncs'["hash"].free = syncs["hash"].free - 1
  /\ syncs'["hash"].filled = (IF syncs["hash"].filled < HashBlocks
                              THEN syncs["hash"].filled + 1 ELSE syncs["hash"].filled)
  /\ syncs'["hash"].needStart = syncs["hash"].needStart
  /\ syncs'["hash"].canStart = syncs["hash"].canStart
  /\ syncs'["hash"].processed = syncs["hash"].processed
  /\ e \in HashBlockSet /\ e.first = Position /\ HashSound(e)'
  /\ Position' = HashEnd(e) /\ (window'.end \/ Covered(e) <= HashBlockSize)
  /\ Covered(e) >= 0 /\ Covered(e) \in Int
  /\ window.read <= window'.read /\ (window.end => window'.end)
  /\ window'.base = window.base /\ WindowSound'

BytesSeen(n) == (window.read + n) - Position
HeadsFor(seen) ==
  IF seen >= FinderHash THEN Lesser(seen - FinderHash + 1, HashBlockSize - 2) ELSE 0

LEMMA HashFillIs ==
  ASSUME FinderTypes, Control, Works, HashFill, ~syncs["hash"].stop
  PROVE \E e : HashFills(e)
<1>1. /\ hasher.pc = "top" /\ ~NeedMove /\ syncs["hash"].free > 0
      /\ syncs' = Filled([syncs EXCEPT !["hash"].free = @ - 1], "hash")
      /\ hasher' = [hasher EXCEPT !.block = (@ + 1) % HashBlocks]
      /\ lz' = lz /\ bt' = bt /\ btBuf' = btBuf
  BY DEF HashFill
<1>2. PICK n \in 0 .. lz.size :
        /\ ReadBlock(n)
        /\ window' = [window EXCEPT !.read = window.read + n,
             !.end = @ \/ BytesSeen(n) <= KeepAfter,
             !.buffer = @ + IF HeadsFor(BytesSeen(n)) > 0 THEN HeadsFor(BytesSeen(n))
                            ELSE BytesSeen(n)]
        /\ hashBuf' = [hashBuf EXCEPT ![hasher.block] =
             [first |-> Position, num |-> HeadsFor(BytesSeen(n)), avail |-> BytesSeen(n)]]
  <2>1. PICK n \in 0 .. lz.size :
          LET read == window.read + n
              avail == read - Position
              num == IF avail >= FinderHash
                     THEN Lesser(avail - FinderHash + 1, HashBlockSize - 2) ELSE 0 IN
          /\ ReadBlock(n)
          /\ window' = [window EXCEPT !.read = read,
               !.end = @ \/ avail <= KeepAfter,
               !.buffer = @ + IF num > 0 THEN num ELSE avail]
          /\ hashBuf' = [hashBuf EXCEPT ![hasher.block] =
               [first |-> Position, num |-> num, avail |-> avail]]
    BY <1>1 DEF HashFill
  <2>2. ReadBlock(n) BY <2>1
  <2>3. window' = [window EXCEPT !.read = window.read + n,
             !.end = @ \/ BytesSeen(n) <= KeepAfter,
             !.buffer = @ + IF HeadsFor(BytesSeen(n)) > 0 THEN HeadsFor(BytesSeen(n))
                            ELSE BytesSeen(n)]
    BY <2>1 DEF BytesSeen, HeadsFor
  <2>4. hashBuf' = [hashBuf EXCEPT ![hasher.block] =
             [first |-> Position, num |-> HeadsFor(BytesSeen(n)), avail |-> BytesSeen(n)]]
    BY <2>1 DEF BytesSeen, HeadsFor
  <2> QED BY <2>2, <2>3, <2>4
<1>3. PICK avail : avail = BytesSeen(n) OBVIOUS
<1>4. PICK num : num = HeadsFor(avail) OBVIOUS
<1>5. PICK e : e = [first |-> Position, num |-> num, avail |-> avail] OBVIOUS
<1>6. /\ ReadBlock(n)
      /\ window' = [window EXCEPT !.read = window.read + n,
           !.end = @ \/ avail <= KeepAfter, !.buffer = @ + IF num > 0 THEN num ELSE avail]
      /\ hashBuf' = [hashBuf EXCEPT ![hasher.block] = e]
  BY <1>2, <1>3, <1>4, <1>5
<1>7. /\ avail \in Int /\ avail >= 0 /\ window.read + n <= lz.size
      /\ window.read + n - window.base <= WindowSize
      /\ window.end \/ avail <= KeepAfter => window.read + n = lz.size
  <2>1. avail = window.read + n - Position BY <1>3, Numbers DEF BytesSeen
  <2> QED BY ReadEnough, <1>1, <1>6, <2>1 DEF Works
<1>8. num \in Int /\ (num > 0 <=> avail >= FinderHash) /\ num >= 0 /\ num <= avail
      /\ num <= HashBlockSize
  BY <1>4, <1>7, Sizes DEF Lesser, HeadsFor
<1>9. /\ e.first = Position /\ e.num = num /\ e.avail = avail /\ e \in HashBlockSet
  BY <1>5, <1>7, <1>8, Numbers DEF HashBlockSet
<1>10. Covered(e) = (IF num > 0 THEN num ELSE avail) /\ Covered(e) \in Int /\ Covered(e) >= 0
       /\ Covered(e) <= avail
  BY <1>7, <1>8, <1>9 DEF Covered
<1>11. /\ window'.read = window.read + n /\ window'.base = window.base
       /\ window'.end = (window.end \/ avail <= KeepAfter)
       /\ window'.buffer = window.buffer + Covered(e)
  BY <1>6, <1>10, Fields DEF WindowSet
<1>12. Position' = HashEnd(e)
  BY <1>9, <1>10, <1>11, Numbers DEF Position, HashEnd
<1>13. /\ window.read <= window'.read /\ (window.end => window'.end)
       /\ window'.end \/ Covered(e) <= HashBlockSize
  <2>1. KeepAfter \in Int /\ KeepAfter >= FinderHash /\ FinderHash \in Int BY Sizes
  <2>2. window.read <= window'.read BY <1>11, Numbers
  <2>3. avail > KeepAfter => num > 0 BY <1>7, <1>8, <2>1
  <2>4. avail > KeepAfter \/ avail <= KeepAfter BY <1>7, <2>1
  <2>5. window'.end \/ Covered(e) <= HashBlockSize BY <1>8, <1>10, <1>11, <2>3, <2>4
  <2> QED BY <1>11, <2>2, <2>5
<1>14. hasher'.pc = "top" /\ hasher'.block = (hasher.block + 1) % HashBlocks
  BY <1>1, Fields DEF HasherSet
<1>15. WindowSound'
  <2>1. 0 <= window'.base /\ 0 <= window'.buffer
    BY <1>10, <1>11, Numbers DEF Works, WindowSound
  <2>2. Position' <= window'.read /\ window'.read <= lz'.size
        /\ window'.read - window'.base <= WindowSize
    BY <1>1, <1>3, <1>7, <1>9, <1>10, <1>11, <1>12, Numbers DEF HashEnd, BytesSeen
  <2>3. window'.end => window'.read = lz'.size BY <1>1, <1>7, <1>11
  <2>4. window'.base + lz'.ptr = lz'.pos /\ window'.base + bt'.ptr = bt'.pos
    BY <1>1, <1>11 DEF Works, WindowSound
  <2> QED BY <1>14, <2>1, <2>2, <2>3, <2>4 DEF WindowSound
<1>16. HashSound(e)'
  <2>1. e.first >= 0 BY <1>9, Numbers DEF Works, WindowSound, Position
  <2>2. e.first + e.avail = window'.read /\ window'.read \in Int BY <1>3, <1>7, <1>9, <1>11, Numbers DEF BytesSeen
  <2>3. e.avail > KeepAfter \/ (e.first + e.avail = lz'.size /\ window'.end)
    <3>1. avail > KeepAfter \/ avail <= KeepAfter BY <1>7, Sizes
    <3>2. lz'.size = lz.size BY <1>1
    <3> QED BY <1>7, <1>9, <1>11, <2>2, <3>1, <3>2
  <2>4. e' = e OBVIOUS
  <2> QED BY <1>4, <1>7, <1>9, <2>1, <2>2, <2>3 DEF HashSound, HeadsFor
<1>17. /\ syncs'["bt"] = syncs["bt"] /\ syncs'["hash"].free = syncs["hash"].free - 1
       /\ syncs'["hash"].filled = (IF syncs["hash"].filled < HashBlocks
                                   THEN syncs["hash"].filled + 1 ELSE syncs["hash"].filled)
       /\ syncs'["hash"].needStart = syncs["hash"].needStart
       /\ syncs'["hash"].canStart = syncs["hash"].canStart
       /\ syncs'["hash"].processed = syncs["hash"].processed
  BY <1>1, Fields DEF Filled, NumBlocks, SyncSet
<1> QED BY <1>1, <1>6, <1>9, <1>10, <1>11, <1>12, <1>13, <1>14, <1>15, <1>16, <1>17 DEF HashFills

LEMMA HashFillWorks ==
  ASSUME FinderTypes, Control, Works, HashFill, ~syncs["hash"].stop, Control', FinderTypes'
  PROVE Works'
<1>0. ~(lz.pc = "ready" /\ syncs["bt"].needStart) BY Idle DEF HashStep
<1>1. PICK e : HashFills(e) BY HashFillIs
<1>2. /\ hasher.pc = "top" /\ syncs["hash"].free > 0 /\ lz' = lz /\ bt' = bt /\ btBuf' = btBuf
      /\ hasher'.pc = "top" /\ syncs'["bt"] = syncs["bt"]
      /\ syncs'["hash"].needStart = syncs["hash"].needStart
      /\ syncs'["hash"].canStart = syncs["hash"].canStart
      /\ window'.base = window.base /\ WindowSound'
      /\ window.read <= window'.read /\ (window.end => window'.end)
  BY <1>1 DEF HashFills
<1>3. HashBlocks \in Nat \ {0} /\ HashBlockSize \in Nat BY Sizes
<1>4. ~syncs["hash"].needStart /\ ~syncs["hash"].canStart BY <1>2 DEF Control, Phases
<1>5. Holding' = Holding /\ Pending' = Pending /\ Filling' = Filling
  BY <1>2 DEF Holding, Pending, Filling
<1>6. HashSide =>
        /\ HashSide'
        /\ Cur' = Cur /\ (bt.pc = "done" => Hash(0)' = Hash(0))
  <2> SUFFICES ASSUME HashSide
               PROVE  HashSide' /\ Cur' = Cur /\ (bt.pc = "done" => Hash(0)' = Hash(0))
    OBVIOUS
  <2>1. PICK m : m = HashLive OBVIOUS
  <2>2. m \in 0 .. HashBlocks - 1 /\ syncs["hash"].free + m = HashBlocks
        /\ syncs["hash"].filled >= 0 /\ syncs["hash"].filled <= m
        /\ syncs["hash"].processed > 0
        /\ bt.hashBlock = (syncs["hash"].processed - 1) % HashBlocks
        /\ hasher.block = Behind(bt.hashBlock, m, HashBlocks)
    BY <1>2, <1>3, <1>4, <2>1, HashRoom, SyncNumbers DEF HashSide, HashPlaces, HashLive
  <2>3. syncs'["hash"].filled = syncs["hash"].filled + 1
        /\ syncs'["hash"].free = syncs["hash"].free - 1
    BY <1>1, <1>3, <2>2, SyncNumbers DEF HashFills
  <2>4. HashLive' = m + 1 BY <1>5, <2>1, <2>3, SyncNumbers DEF HashLive
  <2>5. \A k \in 0 .. m - 1 : Hash(k)' = Hash(k)
    <3> TAKE k \in 0 .. m - 1
    <3>1. k \in 0 .. HashBlocks - 1 /\ k # m BY <1>3, <2>2
    <3>2. Behind(bt.hashBlock, k, HashBlocks) # Behind(bt.hashBlock, m, HashBlocks)
      BY RingApart, <1>3, <2>2, <3>1, Numbers
    <3>3. Behind(bt.hashBlock, k, HashBlocks) \in 0 .. HashBlocks - 1
      BY RingPlace, <1>3, <3>1, Numbers
    <3>4. hashBuf' = [hashBuf EXCEPT ![hasher.block] = e]
          /\ hashBuf \in [0 .. HashBlocks - 1 -> HashBlockSet]
      BY <1>1 DEF HashFills, FinderTypes
    <3> QED BY <1>2, <2>2, <3>2, <3>3, <3>4 DEF Hash
  <2>6. Hash(m)' = e
    <3>1. hashBuf' = [hashBuf EXCEPT ![hasher.block] = e]
          /\ hashBuf \in [0 .. HashBlocks - 1 -> HashBlockSet]
      BY <1>1 DEF HashFills, FinderTypes
    <3>2. hasher.block \in 0 .. HashBlocks - 1 BY Numbers
    <3> QED BY <1>2, <2>2, <3>1, <3>2 DEF Hash
  <2>7. HashPlaces'
    <3>1. hasher'.block = Behind(bt.hashBlock, m + 1, HashBlocks)
      <4>1. hasher'.block = (hasher.block + 1) % HashBlocks BY <1>1 DEF HashFills
      <4> QED BY RingNext, <1>3, <2>2, <4>1, Numbers
    <3>2. syncs'["hash"].free >= 0 /\ syncs'["hash"].free + HashLive' = HashBlocks
          /\ syncs'["hash"].filled >= 0
      BY <1>2, <1>3, <2>2, <2>3, <2>4, SyncNumbers
    <3>3. syncs'["hash"].processed = syncs["hash"].processed BY <1>1 DEF HashFills
    <3> QED BY <1>2, <1>4, <2>2, <2>4, <3>1, <3>2, <3>3 DEF HashPlaces
  <2>8. e.first = Position /\ HashSound(e)' /\ Position' = HashEnd(e)
        /\ (window'.end \/ Covered(e) <= HashBlockSize) /\ Covered(e) \in Int /\ Covered(e) >= 0
    BY <1>1 DEF HashFills
  <2>9. HashChain'
    <3>1. \A k \in 0 .. HashLive' - 1 : HashSound(Hash(k))'
      <4> TAKE k \in 0 .. HashLive' - 1
      <4>1. k = m \/ k \in 0 .. m - 1 BY <2>2, <2>4
      <4>2. CASE k = m BY <2>6, <2>8, <4>2 DEF HashSound
      <4>3. CASE k \in 0 .. m - 1
        <5>1. HashSound(Hash(k)) /\ Hash(k)' = Hash(k)
          BY <2>1, <2>5, <4>3 DEF HashSide, HashChain
        <5>2. Hash(k).first \in Int /\ Hash(k).avail \in Int
          BY Entries, <1>3, <2>2, <4>3
        <5>3. window.read \in Int /\ window'.read \in Int BY Numbers, NumbersNext
        <5> QED BY <1>2, <5>1, <5>2, <5>3 DEF HashSound
      <4> QED BY <4>1, <4>2, <4>3
    <3>2. \A k \in 1 .. HashLive' - 1 : Hash(k)'.first = HashEnd(Hash(k - 1))'
      <4> TAKE k \in 1 .. HashLive' - 1
      <4>1. PICK j \in 0 .. m - 1 : j = k - 1 BY <2>2, <2>4
      <4>2. Hash(j)' = Hash(j) /\ HashEnd(Hash(j))' = HashEnd(Hash(j))
        BY <2>5 DEF HashEnd, Covered
      <4>3. k = m \/ k \in 1 .. m - 1 BY <2>2, <2>4
      <4>4. CASE k = m
        <5>1. Position = HashEnd(Hash(j))
          BY <2>1, <2>2, <4>1, <4>4 DEF HashSide, HashChain
        <5>2. Hash(k)' = e BY <2>6, <4>4
        <5> QED BY <2>8, <4>1, <4>2, <5>1, <5>2
      <4>5. CASE k \in 1 .. m - 1
        <5>1. Hash(k).first = HashEnd(Hash(j)) BY <2>1, <4>1, <4>5 DEF HashSide, HashChain
        <5>2. k \in 0 .. m - 1 BY <2>2, <4>5
        <5>3. Hash(k)' = Hash(k) BY <2>5, <5>2
        <5> QED BY <4>1, <4>2, <5>1, <5>3
      <4> QED BY <4>3, <4>4, <4>5
    <3>3. Position' = HashEnd(Hash(HashLive - 1))'
      <4>1. HashLive' - 1 = m BY <2>2, <2>4
      <4> QED BY <2>6, <2>8, <4>1 DEF Hash, HashEnd, Covered
    <3>4. ~window'.end => \A k \in 0 .. HashLive' - 1 :
            Position' - Hash(k)'.first <= (HashLive' - k) * HashBlockSize
      <4> SUFFICES ASSUME ~window'.end, NEW k \in 0 .. HashLive' - 1
                   PROVE  Position' - Hash(k)'.first <= (HashLive' - k) * HashBlockSize
        OBVIOUS
      <4>1. ~window.end /\ Covered(e) <= HashBlockSize BY <1>2, <2>8
      <4>2. Position' = Position + Covered(e) /\ Position \in Int
        BY <2>8, Numbers DEF HashEnd
      <4>3. k = m \/ k \in 0 .. m - 1 BY <2>2, <2>4
      <4>4. CASE k = m
        <5>1. Hash(k)' = e /\ HashLive' - k = 1 BY <2>2, <2>4, <2>6, <4>4
        <5>2. Position' - Hash(k)'.first = Covered(e) BY <2>8, <4>2, <5>1
        <5> QED BY <1>3, <4>1, <5>1, <5>2
      <4>5. CASE k \in 0 .. m - 1
        <5>1. Position - Hash(k).first <= (HashLive - k) * HashBlockSize
          BY <2>1, <4>1, <4>5 DEF HashSide, HashChain
        <5>2. PICK d \in Int : d = m - k BY <2>2, <4>5
        <5>3. HashLive - k = d /\ HashLive' - k = d + 1 BY <2>1, <2>2, <2>4, <4>5, <5>2
        <5>4. (d + 1) * HashBlockSize = d * HashBlockSize + HashBlockSize
              /\ d * HashBlockSize \in Int
          BY Product, <1>3
        <5>5. Hash(k)' = Hash(k) BY <2>5, <4>5
        <5>6. Hash(k).first \in Int BY Entries, <1>3, <2>2, <4>5
        <5> QED BY <1>3, <2>8, <4>1, <4>2, <5>1, <5>3, <5>4, <5>5, <5>6
      <4> QED BY <4>3, <4>4, <4>5
    <3> QED BY <3>1, <3>2, <3>3, <3>4 DEF HashChain
  <2>10. m > 0 => Hash(0)' = Hash(0) BY <2>2, <2>5
  <2>11. Holding => m > 0 BY <2>1, HashRoom DEF HashSide
  <2>12. Cur' = Cur
    <3>1. CASE Holding
      <4>1. Hash(0)' = Hash(0) BY <2>10, <2>11, <3>1
      <4> QED BY <1>2, <1>5, <3>1, <4>1 DEF Cur, HashEnd, Covered
    <3>2. CASE ~Holding /\ syncs["hash"].filled > 0
      <4>1. Hash(0)' = Hash(0) BY <2>2, <2>10, <3>2, SyncNumbers
      <4>2. syncs'["hash"].filled > 0 BY <2>3, <3>2, SyncNumbers
      <4> QED BY <1>5, <3>2, <4>1, <4>2 DEF Cur
    <3>3. CASE ~Holding /\ ~(syncs["hash"].filled > 0)
      <4>1. m = 0 BY <2>1, <2>2, <3>3, SyncNumbers DEF HashLive
      <4>2. Hash(0)' = e BY <2>6, <4>1
      <4>3. syncs'["hash"].filled > 0 BY <2>2, <2>3, SyncNumbers
      <4> QED BY <1>5, <2>8, <3>3, <4>2, <4>3 DEF Cur
    <3> QED BY <3>1, <3>2, <3>3
  <2>13. bt.pc = "done" => Holding BY <1>4 DEF Holding
  <2>14. BtSound'
    <3>1. Holding => Hash(0)' = Hash(0) BY <2>10, <2>11
    <3> QED BY <1>2, <1>5, <2>12, <2>13, <3>1 DEF HashSide, BtSound, Filling
  <2>15. Kept(bt.pos)' BY <1>2 DEF HashSide, Kept
  <2> QED BY <2>7, <2>9, <2>10, <2>11, <2>12, <2>13, <2>14, <2>15 DEF HashSide
<1>7. Active' => HashSide' BY <1>2, <1>6 DEF Active, Works
<1>8. Serving' => BtSide'
  <2> SUFFICES ASSUME Serving' PROVE BtSide' OBVIOUS
  <2>1. BtSide /\ HashSide BY <1>2 DEF Serving, Active, Works
  <2>2. Busy' = Busy BY <1>2 DEF Busy
  <2>3. BtFrame BY <1>2, <2>1, <2>2, SyncNumbers, Numbers DEF BtFrame, BtSide, BtPlaces
  <2>4. Follows BY <1>2, <1>5, <1>6, <2>1 DEF Follows, BtSide, BlockChain
  <2>5. BtPlaces' /\ BlockChain' BY BtSame, <2>1, <2>3, <2>4 DEF BtSide
  <2>6. Kept(lz.pos)' BY <1>2, <2>1 DEF BtSide, Kept
  <2> QED BY <2>5, <2>6 DEF BtSide
<1> QED BY <1>0, <1>2, <1>7, <1>8 DEF Works

-----------------------------------------------------------------------------
(* The steps together                                                        *)
LEMMA FinderBegins == FinderInit => FinderTypes /\ Control /\ Works
<1> SUFFICES ASSUME FinderInit PROVE FinderTypes /\ Control /\ Works OBVIOUS
<1>1. HashBlocks \in Nat \ {0} /\ BtBlocks \in Nat \ {0} /\ WindowSize \in Nat BY Sizes
<1>2. 0 \in 0 .. BtBlocks - 1 /\ 0 \in 0 .. HashBlocks - 1 BY <1>1
<1>3. FinderTypes
  <2>1. lz \in LzSet BY <1>2 DEF FinderInit, LzSet, LzPcs
  <2>2. bt \in BtSet BY <1>2 DEF FinderInit, BtSet, BtPcs
  <2>3. hasher \in HasherSet BY <1>2 DEF FinderInit, HasherSet, HasherPcs
  <2>4. window \in WindowSet BY DEF FinderInit, WindowSet
  <2>5. Stopped \in SyncSet BY DEF Stopped, SyncSet
  <2>6. syncs \in [Rings -> SyncSet] BY <2>5 DEF FinderInit
  <2>7. NoHashBlock \in HashBlockSet /\ NoBtBlock \in BtBlockSet
    BY DEF NoHashBlock, NoBtBlock, HashBlockSet, BtBlockSet
  <2>8. hashBuf \in [0 .. HashBlocks - 1 -> HashBlockSet] BY <2>7 DEF FinderInit
  <2>9. btBuf \in [0 .. BtBlocks - 1 -> BtBlockSet] BY <2>7 DEF FinderInit
  <2> QED BY <2>1, <2>2, <2>3, <2>4, <2>6, <2>8, <2>9 DEF FinderTypes
<1>4. Control BY ControlBegins
<1>5. lz.pc = "off" /\ hasher.pc = "start" BY DEF FinderInit
<1>6. WindowSound
  <2>1. /\ window.base = 0 /\ window.buffer = 0 /\ window.read = 0 /\ ~window.end
        /\ lz.size = 0 /\ lz.pos = 0 /\ lz.ptr = 0 /\ bt.pos = 0 /\ bt.ptr = 0
    BY DEF FinderInit
  <2> QED BY <1>1, <1>5, <2>1 DEF WindowSound, Position
<1>7. ~Active /\ ~Serving BY <1>5 DEF Active, Serving
<1> QED BY <1>3, <1>4, <1>5, <1>6, <1>7 DEF Works

LEMMA FinderStays ==
  ASSUME FinderTypes, Control, Works, UNCHANGED finderVars
  PROVE FinderTypes' /\ Control' /\ Works'
<1>1. /\ lz' = lz /\ bt' = bt /\ hasher' = hasher /\ window' = window /\ syncs' = syncs
      /\ hashBuf' = hashBuf /\ btBuf' = btBuf
  BY DEF finderVars
<1>2. FinderTypes' BY <1>1 DEF FinderTypes
<1>3. Control' BY <1>1 DEF Control, Phases, Locks
<1>4. HashFrame BY <1>1 DEF HashFrame
<1>5. WindowSound' BY WindowSame, <1>1 DEF Works
<1>6. Active' => HashSide' BY HashSame, <1>1, <1>3, <1>4 DEF Active, Works
<1>7. Cur' = Cur /\ Pending' = Pending /\ Hash(0)' = Hash(0) BY HashSame, <1>3, <1>4
<1>8. Serving' => BtSide'
  <2> SUFFICES ASSUME Serving' PROVE BtSide' OBVIOUS
  <2>1. BtSide BY <1>1 DEF Serving, Works
  <2>2. Busy' = Busy BY <1>1 DEF Busy
  <2>3. BtFrame BY <1>1, <2>1, <2>2, SyncNumbers, Numbers DEF BtFrame, BtSide, BtPlaces
  <2>4. Follows BY FollowsSame, <1>1, <1>7, <2>1 DEF BtSide
  <2>5. BtPlaces' /\ BlockChain' BY BtSame, <1>2, <2>1, <2>3, <2>4 DEF BtSide
  <2>6. Kept(lz.pos)' BY <1>1, <2>1 DEF BtSide, Kept
  <2> QED BY <2>5, <2>6 DEF BtSide
<1>9. Unstarted => Unstarted' BY <1>1 DEF Unstarted
<1> QED BY <1>1, <1>2, <1>3, <1>5, <1>6, <1>8, <1>9 DEF Works

LEMMA FinderSteps ==
  ASSUME FinderTypes, Control, Works, [FinderNext]_finderVars
  PROVE FinderTypes' /\ Control' /\ Works'
<1>1. CASE StartFinder \/ Destruct \/ LzStep
  <2>1. FinderTypes' BY <1>1, LzTypes
  <2>2. Control' BY <1>1, LzControl
  <2>3. Works'
    BY <1>1, <2>1, <2>2, StartFinderWorks, NeedBtBlockWorks, GetNextBlockWorks, GetMatchesWorks,
       LzEndWorks DEF LzStep
  <2> QED BY <2>1, <2>2, <2>3
<1>2. CASE BtStep
  <2>1. FinderTypes' BY <1>2, BtTypes
  <2>2. Control' BY <1>2, BtControl
  <2>3. Works'
    BY <1>2, <2>1, <2>2, BtStartWorks, BtTakeFreeWorks, BtLockWorks, BtSearchWorks,
       BtNeedHashWorks, BtTakeHashWorks, BtDoneWorks, BtStopWorks DEF BtStep
  <2> QED BY <2>1, <2>2, <2>3
<1>3. CASE HashStep
  <2>1. FinderTypes' BY <1>3, HashTypes
  <2>2. Control' BY <1>3, HashControl
  <2>3. Works'
    BY <1>3, <2>1, <2>2, HashStartWorks, HashLockWorks, HashMoveWorks, HashFillWorks,
       HashStopWorks DEF HashStep
  <2> QED BY <2>1, <2>2, <2>3
<1>4. CASE UNCHANGED finderVars BY <1>4, FinderStays
<1> QED BY <1>1, <1>2, <1>3, <1>4 DEF FinderNext, FinderStep

(* What the invariant says of the caller and of the tree thread              *)
LEMMA FinderShows ==
  ASSUME FinderTypes, Control, Works
  PROVE FinderExact
<1>1. WindowSound BY DEF Works
<1>2. ASSUME syncs["bt"].cs = "lz"
      PROVE  lz.pc = "ready" /\ Serving /\ Active /\ BtSide /\ HashSide
  <2>1. lz.pc = "ready" /\ ~syncs["bt"].needStart BY <1>2 DEF Control, Locks
  <2> QED BY <2>1 DEF Works, Serving, Active
<1>3. ASSUME syncs["hash"].cs = "bt", bt.left > 0
      PROVE  HashSide /\ Holding
  <2>1. bt.pc \in {"fill", "done"} /\ ~syncs["hash"].needStart BY <1>3 DEF Control, Locks
  <2>2. lz.pc \in {"ready", "wait", "stopping"} /\ ~syncs["bt"].wasStopped
    <3>1. ~syncs["bt"].needStart /\ ~syncs["bt"].wasStopped BY <2>1 DEF Control, Phases
    <3>2. lz.pc \in LzPcs BY Numbers
    <3> QED BY <3>1, <3>2 DEF Control, Phases, LzPcs
  <2>3. Active BY <2>1, <2>2 DEF Active
  <2> QED BY <2>1, <2>3 DEF Works, Holding
<1>4. WindowKept
  <2>1. syncs["bt"].cs = "lz" => Sees(lz.pos, lz.ptr)
    BY <1>1, <1>2 DEF Sees, WindowSound, BtSide, Kept
  <2>2. syncs["hash"].cs = "bt" /\ bt.left > 0 => Sees(bt.pos, bt.ptr)
    BY <1>1, <1>3 DEF Sees, WindowSound, HashSide, Kept
  <2>3. syncs["hash"].cs = "bt" /\ bt.left > 0 =>
          bt.pos = hashBuf[bt.hashBlock].first + hashBuf[bt.hashBlock].num - bt.left
    <3> SUFFICES ASSUME syncs["hash"].cs = "bt", bt.left > 0
                 PROVE  bt.pos = hashBuf[bt.hashBlock].first + hashBuf[bt.hashBlock].num - bt.left
      OBVIOUS
    <3>1. HashSide /\ Holding BY <1>3
    <3>2. Hash(0) = hashBuf[bt.hashBlock] BY Entries
    <3>3. Cur = bt.pos /\ bt.left <= Hash(0).num /\ Cur = HashEnd(Hash(0)) - bt.left
      BY <3>1, Numbers DEF HashSide, BtSound, Cur
    <3>4. HashSound(Hash(0)) BY HashRoom, <3>1 DEF HashSide, HashChain
    <3>5. Covered(Hash(0)) = Hash(0).num
      BY <3>3, <3>4, Numbers, Entries, Sizes DEF HashSound, Covered
    <3>6. Hash(0).first \in Int /\ Hash(0).num \in Int BY Entries, Sizes
    <3> QED BY <3>2, <3>3, <3>5, <3>6, Numbers DEF HashEnd
  <2> QED BY <1>1, <2>1, <2>2, <2>3 DEF WindowKept, WindowSound
<1>5. Delivered
  <2>1. CASE syncs["bt"].cs # "lz" BY <2>1 DEF Delivered
  <2>2. CASE syncs["bt"].cs = "lz"
    <3>1. lz.pc = "ready" /\ BtSide BY <1>2, <2>2
    <3>2. PICK b : b = Block(0) OBVIOUS
    <3>3. /\ BlockSound(b) /\ 0 <= lz.left /\ lz.left <= b.num
          /\ lz.pos = BlockEnd(b) - lz.left /\ lz.pos + lz.avail = b.first + b.avail
      BY <3>1, <3>2 DEF BtSide, BlockChain
    <3>4. b = btBuf[lz.block] /\ b.first \in Int /\ b.num \in Int /\ b.avail \in Int
      BY <3>2, Entries, Sizes
    <3>5. window.read <= lz.size BY <1>1 DEF WindowSound
    <3>6. /\ b.items <= BtBlockSize /\ 0 <= b.num /\ b.num <= b.avail
          /\ b.first + b.avail <= window.read
          /\ b.first + b.avail = lz.size \/ b.num + FinderMaxLen <= b.avail
      BY <3>3 DEF BlockSound
    <3>7. lz.pos + lz.avail <= window.read BY <3>3, <3>6
    <3>8. lz.avail >= Lesser(FinderMaxLen, lz.size - lz.pos)
      BY <3>3, <3>4, <3>5, <3>6, Numbers, Sizes DEF BlockEnd, Lesser
    <3>9. (lz.avail = 0) = (lz.pos = lz.size)
      BY <3>3, <3>4, <3>5, <3>6, Numbers, Sizes DEF BlockEnd
    <3>10. lz.pos = b.first + b.num - lz.left BY <3>3, <3>4, Numbers DEF BlockEnd
    <3> QED BY <3>4, <3>6, <3>7, <3>8, <3>9, <3>10 DEF Delivered
  <2> QED BY <2>1, <2>2
<1>6. lz.pc = "off" => Startable
  BY Fields DEF Control, Phases, Locks, Startable
<1> QED BY <1>4, <1>5, <1>6 DEF FinderExact

(* LzFindMt.c: whatever the blocks, the sizes that are kept and the streams  *)
(* are, the threads deliver every position of a stream once, in order and    *)
(* with all its bytes in the window, and the finder can be started again     *)
(* whenever the caller has let go of the stream (FinderExact).               *)
THEOREM FinderSafety == FinderSpec => []FinderExact
<1>1. FinderInit => FinderTypes /\ Control /\ Works BY FinderBegins
<1>2. FinderTypes /\ Control /\ Works /\ [FinderNext]_finderVars
        => (FinderTypes /\ Control /\ Works)'
  BY FinderSteps
<1>3. FinderTypes /\ Control /\ Works => FinderExact BY FinderShows
<1> QED BY <1>1, <1>2, <1>3, PTL DEF FinderSpec
=============================================================================
