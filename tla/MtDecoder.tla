----------------------------- MODULE MtDecoder -----------------------------
(* Lzma2DecMt.c on MtDec.c: several threads decode the blocks of one LZMA2    *)
(* stream.  canRead goes round the threads: its owner reads a block, finds    *)
(* its end with the parser and hands on; each thread then decodes on its own; *)
(* canWrite goes round behind it, so that blocks are written in order.  What  *)
(* cannot be done that way (no memory, no threads, a block too large) is      *)
(* decoded again by one thread, from the data the threads have kept.          *)
(* Thread 0 is the caller.  A chunk is one token of the stream; what happens  *)
(* within a chunk is the matter of Lzma2Decoder.  Errors of the system's      *)
(* synchronisation functions are not modelled, except thread creation.        *)
EXTENDS Integers, Sequences, FiniteSets

CONSTANTS
  DecThreads,   \* props.numThreads
  InBufSize,    \* props.inBufSize_MT, in tokens
  OutBlockMax,  \* props.outBlockMax
  SmallBlock,   \* blocks below this size are decoded together (1 << 14)
  TokenStreams, \* streams of tokens
  OutSizes,     \* outDataSize; Undefined stands for NULL
  DecCalls,     \* calls of Lzma2DecMt_Decode on one handle
  DecFaults     \* failures of memory, threads, streams and progress

Undefined == -1

(* A stream: n is the control byte of a chunk that resets the dictionary, d   *)
(* and D are chunks (D the larger), b is a chunk that cannot be decoded, e    *)
(* the end mark and x a control byte that is not allowed.                     *)
Unpacked(k) == CASE k \in {"d", "b"} -> 1 [] k = "D" -> 3 [] OTHER -> 0
IsChunk(k) == k \in {"d", "D", "b"}

ASSUME DecoderBounds ==
  /\ {DecThreads, InBufSize, OutBlockMax, SmallBlock} \subseteq Nat \ {0}
  /\ DecCalls \in Nat /\ DecFaults \in Nat
  /\ OutSizes \subseteq Nat \cup {Undefined}
  /\ \A s \in TokenStreams : \A i \in DOMAIN s :
       /\ s[i] \in {"n", "d", "D", "b", "e", "x"}
       /\ (s[i] = "n" /\ i < Len(s)) => IsChunk(s[i + 1])

VARIABLES
  call,      \* Lzma2DecMt_Decode: its arguments, progress and result
  dec,       \* CMtDec and CLzma2DecMt
  workers,   \* CMtDecThread, CLzma2DecMtThread and the locals of the thread
  canRead, canWrite,
  output,    \* positions of the tokens whose text was written
  single,    \* what Lzma2Dec_Decode_ST has read and decoded
  decFaults

decoderVars ==
  <<call, dec, workers, canRead, canWrite, output, single, decFaults>>

Workers == 0..(DecThreads - 1)
Smallest(a, b) == IF a < b THEN a ELSE b
Stream == call.stream
Range1(a, n) == [i \in 1..n |-> a + i]      \* the n positions behind a
DecFault == decFaults < DecFaults /\ decFaults' = decFaults + 1
DecNoFault == UNCHANGED decFaults

-----------------------------------------------------------------------------
(* Lzma2Dec_DecodeToDic on tokens: at is where the decoder stands, out the    *)
(* positions decoded so far, taken how many tokens it took.                   *)
FreshDecoder == [at |-> "start", out |-> <<>>, taken |-> 0, err |-> FALSE]

Token(d, p, limit, finish) ==
  LET k == Stream[p]
      room == limit - Len(d.out)
      size == Smallest(Unpacked(k), room)
      took == [d EXCEPT !.taken = @ + 1] IN
  CASE d.err \/ d.at = "end" \/ (room = 0 /\ ~finish) -> d
    [] k = "e"  -> [took EXCEPT !.at = "end"]
    [] k = "x" \/ room = 0 \/ k = "b" \/ (IsChunk(k) /\ d.at = "start") ->
         [took EXCEPT !.err = TRUE]
    [] k = "n"  -> [took EXCEPT !.at = "rest"]
    [] OTHER    -> [took EXCEPT !.at = "control", !.out = @ \o [i \in 1..size |-> p],
                                !.err = finish /\ size < Unpacked(k)]

DecodeToDic(d, data, limit, finish) ==
  LET D[i \in 0..Len(data)] ==
        IF i = 0 THEN [d EXCEPT !.taken = 0] ELSE Token(D[i - 1], data[i], limit, finish)
  IN D[Len(data)]

(* Lzma2DecMt_MtCallback_Parse on the tokens of one buffer: where the parser  *)
(* stops, and why.                                                            *)
Parse(w, data) ==
  LET rem == call.outSize - dec.outParsed
      limit == IF call.outSize = Undefined THEN OutBlockMax
               ELSE Smallest(OutBlockMax, rem)
      checkFinish == call.outSize = Undefined \/ OutBlockMax < rem \/ call.finish
      k(i) == Stream[data[i]]
      Dic[i \in 0..Len(data)] ==
        IF i = 0 THEN w.dicPos ELSE Smallest(Dic[i - 1] + Unpacked(k(i)), limit)
      Cut(i) == i > 0 /\ Dic[i] - Dic[i - 1] < Unpacked(k(i))
      Status(i) ==
        CASE i > 0 /\ k(i) = "e" -> "FINISHED"
          [] i > 0 /\ k(i) = "n" /\ Dic[i] >= SmallBlock -> "NEW_BLOCK"
          [] Dic[i] = limit /\ ~checkFinish -> "NOT_FINISHED"
          [] i > 0 /\ k(i) = "x" -> IF Dic[i] = limit THEN "OVERFLOW" ELSE "NOT_SPECIFIED"
          [] Cut(i) -> "OVERFLOW"
          [] i = Len(data) -> "NEEDS_INPUT"
          [] IsChunk(k(i + 1)) /\ (Dic[i] = limit
                                   \/ Unpacked(k(i + 1)) > OutBlockMax - Dic[i]) -> "OVERFLOW"
          [] OTHER -> "GO_ON"
      stop == CHOOSE i \in 0..Len(data) :
                Status(i) # "GO_ON" /\ \A j \in 0..(i - 1) : Status(j) = "GO_ON"
      points == {i \in 1..stop : k(i) = "n" /\ Dic[i] # 0}
      revert == points # {} /\ Status(stop) \notin {"NEW_BLOCK", "FINISHED", "NOT_SPECIFIED"}
      at == IF revert THEN CHOOSE i \in points : \A j \in points : j <= i ELSE stop
      status == IF revert THEN "NEW_BLOCK" ELSE Status(stop) IN
  [status |-> status, dicPos |-> Dic[at],
   taken |-> IF status = "NEW_BLOCK" THEN at - 1 ELSE at,
   state |-> CASE status = "OVERFLOW"    -> "OVERFLOW"
               [] status = "NEEDS_INPUT" -> "CONTINUE"
               [] status = "NEW_BLOCK"   -> "NEW"
               [] OTHER                  -> "END"]

-----------------------------------------------------------------------------
Resting(inBuf) ==
  [pc |-> "begin", index |-> 0, res |-> "OK", codeRes |-> "OK", interrupted |-> FALSE,
   noMem |-> FALSE, overflow |-> FALSE, finish |-> FALSE, needCode |-> FALSE,
   needWrite |-> FALSE, threadErr |-> FALSE, next |-> 0,
   inBuf |-> inBuf, start |-> 0, size |-> 0, round |-> 0,
   dicPos |-> 0, state |-> "CONTINUE", status |-> "NOT_SPECIFIED", preSize |-> 0,
   coder |-> FreshDecoder, inCode |-> 0, coderRes |-> "OK",
   keptStart |-> 0, keptSize |-> 0]
NoThread == [Resting(<<>>) EXCEPT !.pc = "off"]

NoSingle == [kept |-> FALSE, lim |-> 0, coder |-> FreshDecoder, base |-> 0]

DecoderInit ==
  /\ call = [calls |-> 0, pc |-> "idle", stream |-> <<>>, outSize |-> Undefined,
             finish |-> FALSE, res |-> "OK", inProcessed |-> 0, before |-> 0,
             writeFailed |-> FALSE]
  /\ dec = [exitThread |-> FALSE, blockIndex |-> 1, noMem |-> FALSE, overflow |-> FALSE,
            threadErr |-> FALSE, interrupt |-> 0, readDone |-> FALSE, read |-> 0,
            readRes |-> "OK", wasInterrupted |-> FALSE, cross |-> <<>>,
            hasCross |-> FALSE,
            filledStart |-> 0, filled |-> 0, started |-> 0, startLimit |-> 0,
            progressRes |-> "OK", inProcessed |-> 0, outParsed |-> 0]
  /\ workers = [t \in Workers |-> NoThread]
  /\ canRead = [t \in Workers |-> FALSE] /\ canWrite = [t \in Workers |-> FALSE]
  /\ output = <<>> /\ single = NoSingle /\ decFaults = 0

(* Lzma2DecMt_Decode and MtDec_Code up to the loop of thread 0.               *)
CallDecode ==
  /\ call.pc = "idle" /\ call.calls < DecCalls
  /\ \E s \in TokenStreams, n \in OutSizes, f \in BOOLEAN :
       call' = [calls |-> call.calls + 1, pc |-> "mt", stream |-> s, outSize |-> n,
                finish |-> f, res |-> "OK", inProcessed |-> 0, before |-> decFaults,
                writeFailed |-> FALSE]
  /\ dec' = [exitThread |-> FALSE, blockIndex |-> 1, noMem |-> FALSE, overflow |-> FALSE,
             threadErr |-> FALSE, interrupt |-> 0, readDone |-> FALSE, read |-> 0,
             readRes |-> "OK", wasInterrupted |-> FALSE, cross |-> <<>>,
             hasCross |-> dec.hasCross,
             filledStart |-> 0, filled |-> 0, started |-> 1, startLimit |-> DecThreads,
             progressRes |-> "OK", inProcessed |-> 0, outParsed |-> 0]
  /\ workers' = [workers EXCEPT ![0] = Resting(@.inBuf)]
  /\ canRead' = [canRead EXCEPT ![0] = TRUE]
  /\ canWrite' = [canWrite EXCEPT ![0] = TRUE]
  /\ output' = <<>> /\ single' = NoSingle
  /\ UNCHANGED decFaults

(* The progress callback may break the call off; the first error stays.       *)
Progress(m) ==
  \/ DecNoFault /\ dec' = m
  \/ m.progressRes = "OK" /\ DecFault /\ dec' = [m EXCEPT !.progressRes = "PROGRESS"]

(* MtDec_Interrupt stops the blocks behind index; 0 is no interrupt.          *)
Interrupt(m, index) ==
  IF m.interrupt = 0 \/ index < m.interrupt THEN [m EXCEPT !.interrupt = index] ELSE m
Interrupted(m, index) == m.interrupt # 0 /\ index > m.interrupt

(* MtDec_GetError_Spec, put into the locals of a thread.                      *)
Checked(w, m) ==
  [w EXCEPT !.res = m.progressRes, !.interrupted = Interrupted(m, w.index)]
Afterwards(w, pc) == IF w.res = "OK" /\ ~w.interrupted THEN pc ELSE "ready"

IsAt(t, pc) == workers[t].pc = pc
Put(t, w) == workers' = [workers EXCEPT ![t] = w]

-----------------------------------------------------------------------------
(* MtDec_ThreadFunc2: after canRead.                                          *)
Begin(t) ==
  LET w == [Resting(workers[t].inBuf) EXCEPT !.index = dec.blockIndex,
              !.finish = dec.readDone, !.keptStart = workers[t].keptStart,
              !.keptSize = workers[t].keptSize] IN
  /\ IsAt(t, "begin") /\ canRead[t] /\ ~dec.exitThread
  /\ canRead' = [canRead EXCEPT ![t] = FALSE]
  /\ Progress([dec EXCEPT !.blockIndex = @ + 1])
  /\ LET c == Checked(w, dec') IN Put(t, [c EXCEPT !.pc = Afterwards(c, "read")])
  /\ UNCHANGED <<call, canWrite, output, single>>

(* exitThread ends the loop of thread 0, and with it MtDec_Code.              *)
ExitThread(t) ==
  /\ IsAt(t, "begin") /\ canRead[t] /\ dec.exitThread
  /\ canRead' = [canRead EXCEPT ![t] = FALSE]
  /\ workers' = [workers EXCEPT ![t].pc = "off"]
  /\ UNCHANGED <<call, dec, canWrite, output, single, decFaults>>

(* One buffer: the rest that the block before has left over, or data from     *)
(* the stream.  A thread keeps its buffers; it may need one more.             *)
NoBuffer(t) ==
  LET w == workers[t] IN
  /\ IsAt(t, "read") /\ w.round = Len(w.inBuf) /\ DecFault
  /\ Put(t, [w EXCEPT !.pc = "ready", !.finish = TRUE, !.noMem = TRUE])
  /\ UNCHANGED <<call, dec, canRead, canWrite, output, single>>

(* What the thread does with a buffer of data; size is what it had read       *)
(* before, m the decoder with the data read.                                  *)
SetBuf(s, i, v) == IF i > Len(s) THEN Append(s, v) ELSE [s EXCEPT ![i] = v]

Parsed(t, w, m, data, isCross) == \E p \in {Parse(w, data)} :
  LET first == w.round = 0
      size == w.size
      v == [w EXCEPT !.needWrite = TRUE, !.status = p.status, !.state = p.state,
              !.dicPos = p.dicPos, !.preSize = @ + p.taken,
              !.inBuf = SetBuf(@, w.round + 1,
                          IF isCross /\ p.state # "OVERFLOW"
                          THEN SubSeq(data, 1, p.taken) ELSE data)]
      (* what is counted to this block if only the parsed tokens belong to it *)
      part == [v EXCEPT !.pc = "ready", !.needCode = TRUE,
                 !.size = IF isCross THEN p.taken ELSE @ - (Len(data) - p.taken),
                 !.start = IF first THEN p.taken ELSE @]
      rest == SubSeq(data, p.taken + 1, Len(data))
      n == [m EXCEPT !.outParsed =
              IF p.state \in {"NEW", "END"} THEN @ + p.dicPos ELSE @] IN
  \/ /\ p.state = "OVERFLOW" /\ UNCHANGED decFaults
     /\ dec' = [n EXCEPT !.cross = <<>>]
     /\ Put(t, [v EXCEPT !.pc = "ready", !.finish = TRUE, !.overflow = TRUE])
  \/ /\ p.state = "CONTINUE" /\ ~w.finish /\ UNCHANGED decFaults
     /\ dec' = [n EXCEPT !.cross = <<>>]
     /\ Put(t, [v EXCEPT !.round = @ + 1])
  \/ /\ p.state \in {"NEW", "END"} \/ (p.state = "CONTINUE" /\ w.finish)
     /\ p.taken = Len(data) /\ UNCHANGED decFaults
     /\ dec' = [n EXCEPT !.cross = <<>>]
     /\ Put(t, [v EXCEPT !.pc = "ready", !.needCode = TRUE,
                         !.finish = @ \/ p.state = "END"])
  \/ /\ p.state = "END" /\ p.taken # Len(data) /\ UNCHANGED decFaults
     /\ dec' = [n EXCEPT !.cross = IF isCross THEN rest ELSE @]
     /\ Put(t, [part EXCEPT !.finish = TRUE])
  \/ /\ p.state = "NEW" /\ p.taken # Len(data) /\ UNCHANGED decFaults
     /\ dec' = [n EXCEPT !.cross = rest, !.hasCross = TRUE]
     /\ Put(t, [part EXCEPT !.finish = FALSE])
  \/ /\ p.state = "NEW" /\ p.taken # Len(data) /\ ~isCross
     /\ ~dec.hasCross /\ DecFault
     /\ dec' = n     \* no memory for the cross buffer
     /\ Put(t, [v EXCEPT !.pc = "ready", !.needCode = TRUE, !.finish = TRUE,
                         !.noMem = TRUE])

ReadCross(t) ==
  LET w == workers[t]
      n == Len(dec.cross) IN
  /\ IsAt(t, "read") /\ w.round = 0 /\ n # 0
  /\ Parsed(t, [w EXCEPT !.size = n, !.start = n], dec, dec.cross, TRUE)
  /\ UNCHANGED <<call, canRead, canWrite, output, single>>

(* Reading from the stream is a step, parsing what was read the next: other   *)
(* threads may interrupt in between.                                          *)
ReadStream(t) ==
  LET w == workers[t]
      failed == dec.readRes # "OK"    \* a stream that failed fails again
      all == IF failed THEN 0 ELSE Smallest(InBufSize, Len(Stream) - dec.read)
      Read(n, ok) == [dec EXCEPT !.read = @ + n,
                        !.readDone = @ \/ n # InBufSize \/ ~ok,
                        !.readRes = IF ok THEN @ ELSE "READ"]
      Got(n, ok, m) ==
        LET v == [w EXCEPT !.size = @ + n, !.start = IF w.round = 0 THEN n ELSE @,
                    !.finish = n # InBufSize \/ ~ok,
                    !.inBuf = SetBuf(@, w.round + 1, Range1(dec.read, n))]
            c == IF n = 0 THEN v ELSE Checked(v, m) IN
        Put(t, [c EXCEPT !.pc = Afterwards(c, "parse")]) IN
  /\ IsAt(t, "read") /\ (w.round = 0 => dec.cross = <<>>)
  /\ \/ Progress(Read(all, ~failed)) /\ Got(all, ~failed, dec')
     \/ ~failed /\ DecFault /\ \E n \in 0..all : dec' = Read(n, FALSE) /\ Got(n, FALSE, dec')
  /\ UNCHANGED <<call, canRead, canWrite, output, single>>

ParseRead(t) ==
  LET w == workers[t] IN
  /\ IsAt(t, "parse")
  /\ Parsed(t, [w EXCEPT !.pc = "read"], dec, w.inBuf[w.round + 1], FALSE)
  /\ UNCHANGED <<call, canRead, canWrite, output, single>>

-----------------------------------------------------------------------------
(* The end of reading: PreCode, and the next thread, which may be a new one.  *)
(* If not even a second thread can be had, nothing is decoded here.           *)
Ready(t) ==
  LET w == [Checked(workers[t], dec) EXCEPT !.round = 0]
      ok == w.res = "OK" /\ ~w.interrupted
      create == dec.started < dec.startLimit
      fresh == dec.started
      NextOf(n) == IF t + 1 >= n THEN 0 ELSE t + 1
      Go(v, n) == Put(t, [v EXCEPT !.next = NextOf(n),
        !.pc = IF v.res = "OK" /\ v.needCode /\ v.codeRes = "OK" THEN "code" ELSE "write"])
      PreCoded(r) == [w EXCEPT !.codeRes = r, !.needCode = @ /\ r = "OK",
                               !.finish = @ \/ r # "OK" \/ ~ok] IN
  /\ IsAt(t, "ready")
  /\ \/ /\ ok /\ w.needCode /\ w.preSize # 0 /\ DecFault
        /\ Go(PreCoded("MEM"), dec.started)
        /\ UNCHANGED <<dec, canRead, canWrite>>
     \/ LET v == PreCoded(IF ok /\ w.needCode /\ w.preSize = 0 THEN "DATA" ELSE "OK") IN
        \/ /\ v.finish /\ DecNoFault
           /\ Go(v, dec.started)
           /\ UNCHANGED <<dec, canRead, canWrite>>
        \/ /\ ~v.finish /\ ~create /\ DecNoFault
           /\ Go(v, dec.started)
           /\ canRead' = [canRead EXCEPT ![NextOf(dec.started)] = TRUE]
           /\ UNCHANGED <<dec, canWrite>>
        \/ /\ ~v.finish /\ create /\ DecNoFault
           /\ dec' = [dec EXCEPT !.started = @ + 1]
           /\ canRead' = [canRead EXCEPT ![fresh] = FALSE, ![NextOf(fresh + 1)] = TRUE]
           /\ canWrite' = [canWrite EXCEPT ![fresh] = FALSE]
           /\ LET go == [v EXCEPT !.next = NextOf(fresh + 1),
                 !.pc = IF v.needCode THEN "code" ELSE "write"] IN
              workers' = [workers EXCEPT ![t] = go,
                 ![fresh] = IF @.pc = "off" THEN Resting(@.inBuf) ELSE @]
        \/ /\ ~v.finish /\ create /\ workers[fresh].pc = "off" /\ DecFault
           /\ IF fresh = 1
              THEN /\ Go([v EXCEPT !.finish = TRUE, !.needCode = FALSE, !.threadErr = TRUE],
                         dec.started)
                   /\ UNCHANGED <<dec, canRead>>
              ELSE /\ Go(v, dec.started)
                   /\ dec' = [dec EXCEPT !.startLimit = dec.started]
                   /\ canRead' = [canRead EXCEPT ![NextOf(dec.started)] = TRUE]
           /\ UNCHANGED canWrite
  /\ UNCHANGED <<call, output, single>>

(* Lzma2DecMt_MtCallback_Code for one buffer of the block.                    *)
Code(t) ==
  LET w == workers[t]
      n == IF w.round = 0 THEN w.start ELSE Smallest(InBufSize, w.size - w.inCode)
      data == SubSeq(w.inBuf[w.round + 1], 1, n)
      whole == w.status \in {"FINISHED", "NEW_BLOCK"}
      d == DecodeToDic(w.coder, data, w.dicPos, whole)
      inCode == w.inCode + d.taken
      outDone == Len(d.out) = w.dicPos
      res == CASE d.err -> "DATA"
               [] whole /\ d.taken # n -> "FAIL"
               [] whole /\ inCode = w.preSize /\ ~outDone -> "FAIL"
               [] OTHER -> "OK"
      stop == \/ d.taken # n \/ inCode = w.size
              \/ IF whole THEN inCode = w.preSize ELSE outDone
      v == [w EXCEPT !.coder = d, !.inCode = inCode,
                     !.coderRes = IF d.err THEN "DATA" ELSE "OK",
                     !.codeRes = res, !.round = @ + 1] IN
  /\ IsAt(t, "code")
  /\ \/ /\ res # "OK" /\ DecNoFault
        /\ dec' = Interrupt(dec, w.index)
        /\ Put(t, [v EXCEPT !.pc = "write"])
     \/ /\ res = "OK" /\ stop /\ DecNoFault
        /\ Put(t, [v EXCEPT !.pc = "write"])
        /\ UNCHANGED dec
     \/ /\ res = "OK" /\ ~stop
        /\ Progress(dec)
        /\ LET c == Checked(v, dec') IN
           Put(t, [c EXCEPT !.pc = IF Afterwards(c, "code") = "code" THEN "code" ELSE "write"])
  /\ UNCHANGED <<call, canRead, canWrite, output, single>>

(* Lzma2DecMt_MtCallback_Write: whether the block is written; after an error  *)
(* of an earlier block, or if it is decoded again, it is not.                 *)
WriteStates(w, m, want) ==
  LET whole == w.status \in {"FINISHED", "NEW_BLOCK"}
      out == w.coder.out
      differs == /\ w.coderRes = "OK" /\ whole
                 /\ (Len(out) # w.dicPos \/ w.preSize # w.inCode)
      n == [m EXCEPT !.inProcessed = @ + w.inCode]
      R(dd, res, more, recode, text, failed) ==
        [dec |-> dd, res |-> res, more |-> more, recode |-> recode, text |-> text,
         failed |-> failed] IN
  IF ~want THEN {R(m, "OK", FALSE, TRUE, <<>>, FALSE)}
  ELSE IF differs THEN {R(n, "FAIL", FALSE, TRUE, <<>>, FALSE)}
  ELSE {R(n, "OK", w.state \notin {"OVERFLOW", "END"}, FALSE, out, FALSE)}
       \cup IF decFaults < DecFaults
            THEN {R(n, "WRITE", FALSE, FALSE, SubSeq(out, 1, k), TRUE) : k \in 0..Len(out)}
            ELSE {}

(* MtDec_ThreadFunc2 behind canWrite.  Only the owner of canWrite is here, so *)
(* this is one step.                                                          *)
Write(t) ==
  LET w == workers[t]
      was == dec.wasInterrupted
      noMem == w.noMem \/ w.codeRes = "MEM"
      m == IF was THEN dec
           ELSE [dec EXCEPT !.wasInterrupted =
                   w.codeRes # "OK" \/ w.threadErr \/ noMem \/ w.overflow,
                 !.threadErr = w.threadErr, !.noMem = noMem, !.overflow = w.overflow]
      interrupted == w.interrupted \/ was
      toStream == was \/ ~(w.threadErr \/ noMem \/ w.overflow)
      Written(progress) ==
        LET n == [m EXCEPT !.progressRes = progress]
            res == IF w.needCode THEN progress ELSE w.res IN
        IF w.needWrite
        THEN WriteStates(w, n, res = "OK" /\ toStream /\ ~interrupted)
        ELSE {[dec |-> n, res |-> res, more |-> ~w.finish, recode |-> TRUE,
               text |-> <<>>, failed |-> FALSE]}
      Stopped(r) ==
        LET stop == [r.dec EXCEPT !.wasInterrupted = @ \/ r.res # "OK"] IN
        IF w.needWrite /\ (r.res # "OK" \/ (~r.more /\ ~w.finish))
        THEN Interrupt(stop, w.index) ELSE stop
      (* Data that are not decoded yet are kept for the single thread. *)
      Again(r, n) == /\ r.recode
                     /\ \/ ~w.needCode \/ r.res # "OK" \/ n.wasInterrupted
                        \/ w.codeRes # "OK" \/ interrupted \/ n.filled # 0
      Kept(r, n) == Again(r, n) /\ (w.size # 0 \/ ~w.finish)
      Filled(r, n) ==
        [n EXCEPT !.filledStart = IF Again(r, n) /\ n.filled = 0 THEN t ELSE @,
                  !.filled = IF Kept(r, n) THEN @ + 1 ELSE @,
                  !.exitThread = @ \/ (w.finish /\ ~r.more /\ t # 0)]
      Rested(r, n) == [Resting(w.inBuf) EXCEPT
        !.pc = IF w.finish /\ ~r.more /\ t = 0 THEN "off" ELSE "begin",
        !.keptStart = IF Kept(r, n) THEN w.start ELSE w.keptStart,
        !.keptSize = IF Kept(r, n) THEN w.size ELSE w.keptSize]
      Done(r) ==
        LET n == Stopped(r) IN
        /\ dec' = Filled(r, n)
        /\ Put(t, Rested(r, n))
        /\ output' = output \o r.text
        /\ call' = [call EXCEPT !.writeFailed = @ \/ r.failed]
        /\ IF ~w.finish
           THEN /\ canWrite' = [canWrite EXCEPT ![t] = FALSE, ![w.next] = TRUE]
                /\ UNCHANGED canRead
           ELSE /\ canWrite' = [canWrite EXCEPT ![t] = FALSE, ![0] = r.more]
                /\ canRead' = [canRead EXCEPT ![0] = r.more \/ t # 0] IN
  /\ IsAt(t, "write") /\ canWrite[t]
  /\ \/ /\ dec.progressRes = "OK" /\ w.needCode /\ DecFault
        /\ \E r \in Written("PROGRESS") : Done(r)
     \/ \E r \in Written(dec.progressRes) :
          /\ Done(r)
          /\ IF r.failed THEN DecFault ELSE DecNoFault
  /\ UNCHANGED single

-----------------------------------------------------------------------------
(* The end of MtDec_Code: Lzma2DecMt_Decode returns or decodes the rest in    *)
(* one thread.  MtDec_PrepareRead frees the buffers that are not kept.        *)
IsFilled(t) ==
  dec.filled > IF t >= dec.filledStart THEN t - dec.filledStart
               ELSE t + dec.started - dec.filledStart

Answer(res, inProcessed) ==
  call' = [call EXCEPT !.pc = "idle", !.res = res, !.inProcessed = inProcessed]

MtEnds == call.pc = "mt" /\ workers[0].pc = "off"

(* Slip: a block that is too large for the threads is lost.                  *)
NeedSingleNoOverflow == dec.progressRes = "OK" /\ (dec.noMem \/ dec.threadErr)

NeedSingle == dec.progressRes = "OK" /\ (dec.noMem \/ dec.threadErr \/ dec.overflow)

ReturnMt ==
  /\ MtEnds /\ ~NeedSingle
  /\ Answer(IF dec.progressRes # "OK" THEN dec.progressRes ELSE dec.readRes,
            dec.inProcessed)
  /\ UNCHANGED <<dec, workers, canRead, canWrite, output, single, decFaults>>

StartSingle ==
  LET has == dec.hasCross /\ dec.cross # <<>> IN
  /\ MtEnds /\ NeedSingle
  /\ dec' = [dec EXCEPT !.hasCross = has]
  /\ workers' = [t \in Workers |->
       IF t > dec.started \/ ~IsFilled(t) THEN [workers[t] EXCEPT !.inBuf = <<>>]
       ELSE workers[t]]
  /\ \/ /\ DecNoFault
        /\ single' = [NoSingle EXCEPT !.kept = dec.filled # 0 \/ dec.cross # <<>>,
                                      !.base = Len(output)]
        /\ call' = [call EXCEPT !.pc = "single", !.inProcessed = dec.inProcessed]
     \/ /\ DecFault /\ UNCHANGED single
        /\ Answer("MEM", dec.inProcessed)
  /\ UNCHANGED <<canRead, canWrite, output>>

(* Lzma2Dec_Decode_ST for one piece of data; with none the stream is at its   *)
(* end.                                                                       *)
DecodeSingle(data, dd, s) ==
  LET limit == IF call.outSize = Undefined THEN 3 * Len(Stream) + 1
               ELSE call.outSize - s.base IN
  \E d \in {DecodeToDic(s.coder, data, limit, call.finish)} :
  LET text == SubSeq(d.out, Len(s.coder.out) + 1, Len(d.out))
      full == call.outSize # Undefined /\ Len(d.out) = limit
      ended == CASE d.err -> "DATA"
                 [] d.at = "end" -> IF call.finish /\ call.outSize # Undefined /\ ~full
                                    THEN "DATA" ELSE "OK"
                 [] ~call.finish /\ full -> "OK"
                 [] data = <<>> -> "INPUT_EOF"
                 [] OTHER -> "GO_ON"
      res == IF ended \in {"OK", "INPUT_EOF"} /\ dd.readRes # "OK" THEN dd.readRes ELSE ended
      n == call.inProcessed + d.taken IN
  /\ dec' = dd
  /\ single' = [s EXCEPT !.coder = d]
  /\ output' = output \o text
  /\ IF res = "GO_ON" THEN call' = [call EXCEPT !.inProcessed = n] ELSE Answer(res, n)

(* The same if the output stream cannot be written.                           *)
SingleFails(data, dd, s) ==
  /\ dec' = dd /\ single' = s /\ UNCHANGED output
  /\ call' = [call EXCEPT !.pc = "idle", !.res = "WRITE", !.writeFailed = TRUE]

Decoding(data, dd, s) ==
  \/ DecNoFault /\ DecodeSingle(data, dd, s)
  \/ DecFault /\ SingleFails(data, dd, s)

(* MtDec_Read: the data the threads have kept, one buffer at a time.          *)
ReadKept ==
  LET t0 == dec.filledStart
      release == dec.filled # 0 /\ single.lim # 0
      left == IF release THEN Tail(workers[t0].inBuf) ELSE workers[t0].inBuf
      over == release /\ workers[t0].keptSize = 0
      filled == IF over THEN dec.filled - 1 ELSE dec.filled
      t == IF ~over THEN t0 ELSE IF t0 + 1 = dec.started THEN 0 ELSE t0 + 1
      freed == [workers EXCEPT ![t0].inBuf = IF over THEN <<>> ELSE left]
      w == freed[t]
      lim == IF w.keptStart # 0 THEN w.keptStart ELSE Smallest(InBufSize, w.keptSize) IN
  /\ call.pc = "single" /\ single.kept
  /\ \/ /\ filled # 0
        /\ workers' = [freed EXCEPT ![t].keptStart = 0, ![t].keptSize = @ - lim]
        /\ LET dd == [dec EXCEPT !.filled = filled, !.filledStart = t]
               s == [single EXCEPT !.lim = lim] IN
           IF lim = 0 THEN /\ dec' = dd /\ single' = s
                           /\ UNCHANGED <<call, output, decFaults>>
           ELSE Decoding(SubSeq(Head(w.inBuf), 1, lim), dd, s)
     \/ /\ filled = 0 /\ dec.cross # <<>> /\ workers' = freed
        /\ Decoding(dec.cross, [dec EXCEPT !.filled = 0, !.cross = <<>>],
                    [single EXCEPT !.lim = Len(dec.cross)])
     \/ /\ filled = 0 /\ dec.cross = <<>> /\ workers' = freed /\ DecNoFault
        /\ dec' = [dec EXCEPT !.filled = 0, !.hasCross = FALSE]
        /\ single' = [single EXCEPT !.kept = FALSE, !.lim = 0]
        /\ UNCHANGED <<call, output>>
  /\ UNCHANGED <<canRead, canWrite>>

(* The rest of the stream.                                                    *)
ReadRest ==
  LET n == Smallest(InBufSize, Len(Stream) - dec.read)
      dd == [dec EXCEPT !.read = @ + n, !.readDone = n = 0] IN
  /\ call.pc = "single" /\ ~single.kept
  /\ \/ dec.readDone /\ Decoding(<<>>, dec, single)
     \/ ~dec.readDone /\ Decoding(Range1(dec.read, n), dd, single)
     \/ /\ ~dec.readDone /\ DecFault
        /\ DecodeSingle(<<>>, [dec EXCEPT !.readDone = TRUE, !.readRes = "READ"], single)
  /\ UNCHANGED <<workers, canRead, canWrite>>

WorkerStep(t) ==
  \/ Begin(t) \/ ExitThread(t) \/ NoBuffer(t) \/ ReadCross(t) \/ ReadStream(t)
  \/ ParseRead(t) \/ Ready(t) \/ Code(t) \/ Write(t)

CallerStep == ReturnMt \/ StartSingle \/ ReadKept \/ ReadRest

DecoderStep == CallerStep \/ \E t \in Workers : WorkerStep(t)
DecoderNext == CallDecode \/ DecoderStep

(* Some thread that can go on does; nothing is assumed of which.              *)
DecoderFair == WF_decoderVars(DecoderStep)

DecoderSpec == DecoderInit /\ [][DecoderNext]_decoderVars /\ DecoderFair

-----------------------------------------------------------------------------
(* What one thread makes of the stream.                                       *)
Whole ==
  DecodeToDic(FreshDecoder, Range1(0, Len(Stream)),
    IF call.outSize = Undefined THEN 3 * Len(Stream) + 1 ELSE call.outSize, call.finish)
WholeOk ==
  /\ ~Whole.err
  /\ \/ ~call.finish /\ Len(Whole.out) = call.outSize
     \/ Whole.at = "end" /\ (call.finish => call.outSize \in {Undefined, Len(Whole.out)})

(* Between calls all threads wait at the start of their loop and no event is  *)
(* left over from the call before.                                            *)
Rests ==
  call.pc # "mt" =>
    /\ \A t \in Workers : workers[t].pc \in {"off", "begin"}
    /\ \A t \in Workers : ~canRead[t] /\ ~canWrite[t]

(* The output is always a piece from the start of the text one thread would   *)
(* write: no block is lost, out of order or written twice, also when a block  *)
(* could not be decoded and the rest is decoded again by a single thread.  If *)
(* the call returns SZ_OK for a stream one thread decodes, all of it is       *)
(* there; only errors of the streams, of progress or of memory spoil it.      *)
DecoderExact ==
  /\ output = SubSeq(Whole.out, 1, Len(output))
  /\ (call.pc = "idle" /\ call.calls > 0 /\ WholeOk) =>
       /\ decFaults = call.before => call.res = "OK"
       /\ (call.res = "OK" /\ ~call.writeFailed) =>
            output = Whole.out /\ call.inProcessed = Whole.taken
  /\ Rests

(* The caller is inside Lzma2DecMt_Decode.                                    *)
DecodeWaits == call.pc # "idle"

(* Lzma2DecMt.h:35 lists SZ_ERROR_WRITE for an error of the output stream.    *)
WriteErrorReported == (call.pc = "idle" /\ call.writeFailed) => call.res # "OK"
=============================================================================
