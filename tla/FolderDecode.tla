---------------------------- MODULE FolderDecode ----------------------------
(* SzAr_DecodeFolder and SzFolder_Decode2 (7zDec.c): the coders of a folder *)
(* run one behind the other, each from its own packed stream into its own   *)
(* place: the output buffer, a temporary buffer or, for the main stream of  *)
(* BCJ2, the end of the output buffer.  What coders compute is left out.    *)
EXTENDS Integers, Sequences, FiniteSets

CONSTANTS Folders,   \* what the header reader may return
          SizeMax,   \* the largest size_t
          Window     \* bytes a decoder asks its stream for at a time

-----------------------------------------------------------------------------
(* Folders as SzGetNextFolderItem (7zArcIn.c) gives them: coders, and the   *)
(* bonds between their streams.  The input streams of the coders are        *)
(* numbered through.                                                        *)
Inputs(f, c)  == UNION {{i} \X (0 .. f.coders[i + 1].streams - 1) : i \in 0 .. c - 1}
FirstIn(f, c) == Cardinality(Inputs(f, c))
NumIn(f) == FirstIn(f, Len(f.coders))

(* A folder as SzGetNextFolderItem lets it through: every input stream of a *)
(* coder is fed by one bond or one packed stream, and one output is free.   *)
(* Indices of coders and streams count from 0, as in the code.  The packed  *)
(* streams lie one behind the other, packPositions has one entry more.      *)
WellFormed(f) ==
  LET ins   == {f.bonds[i].in : i \in DOMAIN f.bonds}
      outs  == {f.bonds[i].out : i \in DOMAIN f.bonds}
      packd == {f.packStreams[i] : i \in DOMAIN f.packStreams}
  IN
  /\ f.coders # << >>
  /\ Len(f.bonds) = Len(f.coders) - 1 /\ Len(f.sizes) = Len(f.coders)
  /\ f.sizes \in Seq(Nat)
  /\ f.packPositions \in Seq(Nat) /\ Len(f.packPositions) = Len(f.packStreams) + 1
  /\ \A i \in 1 .. Len(f.packStreams) : f.packPositions[i] <= f.packPositions[i + 1]
  /\ Cardinality(ins) = Len(f.bonds) /\ Cardinality(outs) = Len(f.bonds)
  /\ outs \subseteq 0 .. Len(f.coders) - 1
  /\ Cardinality(packd) = Len(f.packStreams)
  /\ ins \cap packd = {}
  /\ ins \cup packd = 0 .. NumIn(f) - 1

-----------------------------------------------------------------------------
MainMethods == {"Copy", "LZMA", "LZMA2"}
Filters     == {"Delta", "BCJ"}

VARIABLES folder,    \* the folder
          outSize,   \* size of the output buffer, given by the caller
          pc, ci,    \* where SzFolder_Decode2 is, and at which coder
          buffer,    \* where the running coder writes
          limit,     \* ... how much that takes (outSizeCur)
          made,      \* ... and how much it has written
          si,        \* the packed stream it reads
          at,        \* position of the look stream, from startPos on
          inSize,    \* bytes of the packed stream to come
          seen,      \* bytes the last Look has returned
          probs,     \* a decoder's state is allocated
          tempBuf,   \* which temporary buffers are allocated
          tempSizes, tempSize3,
          source,    \* history: which coder has filled a buffer, and how far
          res

caseVars == <<folder, outSize>>
runVars  == <<buffer, limit, made, si, at, inSize, seen>>
bufVars  == <<tempBuf, tempSizes, tempSize3, source>>
vars == <<caseVars, pc, ci, runVars, probs, bufVars, res>>

NumCoders == Len(folder.coders)
coder     == folder.coders[ci + 1]
Temps     == {"temp0", "temp1", "temp2"}
Buffers   == {"out", "end"} \cup Temps
Errors    == {"SZ_ERROR_UNSUPPORTED", "SZ_ERROR_MEM", "SZ_ERROR_PARAM", "SZ_ERROR_DATA",
              "SZ_ERROR_READ", "SZ_ERROR_INPUT_EOF", "SZ_ERROR_CRC", "SZ_ERROR_FAIL"}

RunTypeOK ==
  /\ pc \in {"check", "coder", "seek", "alloc", "look", "chunk", "merge", "convert",
            "free", "done"}
  /\ ci \in 0 .. NumCoders
  /\ buffer \in Buffers
  /\ limit \in 0 .. SizeMax /\ made \in 0 .. limit
  /\ si \in 0 .. 3
  /\ at \in Nat /\ inSize \in Nat /\ seen \in 0 .. Window
  /\ probs \in BOOLEAN
  /\ res \in Errors \cup {"SZ_OK"}
BufTypeOK ==
  /\ tempBuf \subseteq Temps
  /\ tempSizes \in [Temps -> 0 .. SizeMax] /\ tempSize3 \in 0 .. SizeMax
  /\ source \in [Buffers -> [by : -1 .. 3, bytes : 0 .. SizeMax]]
TypeOK ==
  /\ folder \in Folders
  /\ outSize \in 0 .. SizeMax
  /\ RunTypeOK /\ BufTypeOK

Init ==
  /\ folder \in Folders
  /\ outSize \in 0 .. SizeMax
  /\ pc = "check" /\ ci = 0
  /\ buffer = "out" /\ limit = 0 /\ made = 0
  /\ si = 0 /\ at = 0 /\ inSize = 0 /\ seen = 0
  /\ probs = FALSE
  /\ tempBuf = {} /\ tempSizes = [b \in Temps |-> 0] /\ tempSize3 = 0
  /\ source = [b \in Buffers |-> [by |-> -1, bytes |-> 0]]
  /\ res = "SZ_OK"

-----------------------------------------------------------------------------
(* Where packed stream i begins, and where it ends.                         *)
PackPosition(i) == folder.packPositions[i + 1]
PackEnd(i) == folder.packPositions[i + 2]

Fail(e) ==
  /\ pc' = "free" /\ res' = e

(* UnpackStream: the coder no bond takes its output from.                   *)
UnpackStream ==
  CHOOSE c \in 0 .. NumCoders - 1 :
    \A i \in 1 .. Len(folder.bonds) : folder.bonds[i].out # c

IsSupportedCoder(c) == c.streams = 1 /\ c.method \in MainMethods

(* The one way encoders connect the coders of BCJ2.                         *)
StandardGraph(f) ==
  /\ f.packStreams = <<2, 6, 1, 0>>
  /\ f.bonds = <<[in |-> 5, out |-> 0], [in |-> 4, out |-> 1], [in |-> 3, out |-> 2]>>

(* CheckSupportedFolder: one coder, a coder and a filter, or BCJ2 behind    *)
(* three coders.                                                            *)
Supported(f) ==
  LET c == f.coders IN
  /\ IsSupportedCoder(c[1])
  /\ \/ /\ Len(c) = 1
        /\ f.packStreams = <<0>> /\ f.bonds = << >>
     \/ /\ Len(c) = 2
        /\ c[2].streams = 1 /\ c[2].method \in Filters
        /\ f.packStreams = <<0>>
        /\ f.bonds = <<[in |-> 1, out |-> 0]>>
     \/ /\ Len(c) = 4
        /\ IsSupportedCoder(c[2]) /\ IsSupportedCoder(c[3])
        /\ c[4].method = "BCJ2" /\ c[4].streams = 4
        /\ StandardGraph(f)

CheckFolder ==
  /\ pc = "check"
  /\ IF outSize # folder.sizes[UnpackStream + 1] THEN Fail("SZ_ERROR_FAIL")
     ELSE IF ~Supported(folder) THEN Fail("SZ_ERROR_UNSUPPORTED")
     ELSE pc' = "coder" /\ UNCHANGED res
  /\ UNCHANGED <<caseVars, ci, runVars, probs, bufVars>>

(* Buffers in use and a new one fit into the address space together.        *)
Used == outSize + tempSizes["temp0"] + tempSizes["temp1"] + tempSizes["temp2"]

(* A temporary buffer b of n bytes, for the packed stream s; n may be more  *)
(* than a size_t holds.                                                     *)
AllocTemp(b, n, s) ==
  \/ n # 0 /\ Fail("SZ_ERROR_MEM") /\ UNCHANGED <<runVars, bufVars>>
  \/ /\ Used + n <= SizeMax
     /\ tempBuf' = tempBuf \cup {b} /\ tempSizes' = [tempSizes EXCEPT ![b] = n]
     /\ buffer' = b /\ limit' = n /\ made' = 0 /\ si' = s
     /\ pc' = "seek"
     /\ UNCHANGED <<res, tempSize3, source, at, inSize, seen>>

(* Slip: packed streams come in the order of the coders.                    *)
PackIndexPlain == <<0, 2, 3>>

(* The packed streams of the three coders in front of BCJ2.                 *)
PackIndex == <<3, 2, 0>>

(* The place a coder's output goes to.  Of the coders in front of BCJ2, the *)
(* first decodes the jump stream, the second the call stream, the third the *)
(* main stream.                                                             *)
PlaceOutput ==
  /\ pc = "coder" /\ ci < NumCoders /\ coder.method \in MainMethods
  /\ \/ /\ NumCoders # 4
        /\ buffer' = "out" /\ limit' = outSize /\ made' = 0 /\ si' = 0
        /\ pc' = "seek"
        /\ UNCHANGED <<bufVars, res, at, inSize, seen>>
     \/ /\ NumCoders = 4 /\ ci < 2
        /\ AllocTemp(IF ci = 0 THEN "temp1" ELSE "temp0",
                     folder.sizes[ci + 1], PackIndex[ci + 1])
     \/ /\ NumCoders = 4 /\ ci = 2
        /\ IF folder.sizes[ci + 1] > outSize
           THEN Fail("SZ_ERROR_PARAM") /\ UNCHANGED <<bufVars, runVars>>
           ELSE /\ tempSize3' = folder.sizes[ci + 1]
                /\ buffer' = "end" /\ limit' = folder.sizes[ci + 1]
                /\ made' = 0 /\ si' = PackIndex[3]
                /\ pc' = "seek"
                /\ UNCHANGED <<res, tempBuf, tempSizes, source, at, inSize, seen>>
  /\ UNCHANGED <<caseVars, ci, probs>>

(* The range coder's stream of BCJ2 is copied as it is.                     *)
PlaceRc ==
  /\ pc = "coder" /\ ci = 3 /\ coder.method = "BCJ2"
  /\ AllocTemp("temp2", PackEnd(1) - PackPosition(1), 1)
  /\ UNCHANGED <<caseVars, ci, probs>>

Copies == coder.method \in {"Copy", "BCJ2"}

(* A packed stream that is copied is as long as its output.                 *)
SeekTo ==
  /\ pc = "seek"
  /\ \/ /\ at' = PackPosition(si) /\ inSize' = PackEnd(si) - PackPosition(si)
        /\ IF coder.method = "Copy" /\ inSize' # limit THEN Fail("SZ_ERROR_DATA")
           ELSE pc' = (IF Copies THEN "look" ELSE "alloc") /\ UNCHANGED res
     \/ Fail("SZ_ERROR_READ") /\ UNCHANGED <<at, inSize>>
  /\ UNCHANGED <<caseVars, ci, buffer, limit, made, si, seen, probs, bufVars>>

(* Lzma(2)Dec_AllocateProbs.                                                *)
AllocProbs ==
  /\ pc = "alloc"
  /\ \/ probs' = TRUE /\ pc' = "look" /\ UNCHANGED res
     \/ /\ \E e \in {"SZ_ERROR_MEM", "SZ_ERROR_UNSUPPORTED", "SZ_ERROR_DATA"} : Fail(e)
        /\ UNCHANGED probs
  /\ UNCHANGED <<caseVars, ci, runVars, bufVars>>

-----------------------------------------------------------------------------
(* The buffer of the running coder holds n bytes; the next coder's turn.    *)
CoderDone(n) ==
  /\ source' = [source EXCEPT ![buffer] = [by |-> ci, bytes |-> n]]
  /\ IF coder.method = "BCJ2" THEN pc' = "merge" /\ UNCHANGED ci
                               ELSE pc' = "coder" /\ ci' = ci + 1
  /\ probs' = FALSE

(* The next bytes of the packed stream; none at the end of the file.        *)
Look ==
  /\ pc = "look"
  /\ ~(Copies /\ inSize = 0)
  /\ \/ /\ seen' \in {n \in 0 .. Window : n <= inSize}
        /\ pc' = "chunk" /\ UNCHANGED <<probs, res>>
     \/ Fail("SZ_ERROR_READ") /\ probs' = FALSE /\ UNCHANGED seen
  /\ UNCHANGED <<caseVars, ci, buffer, limit, made, si, at, inSize, bufVars>>

(* SzDecodeCopy.                                                            *)
CopyChunk ==
  /\ pc = "chunk" /\ Copies
  /\ IF seen = 0 THEN Fail("SZ_ERROR_INPUT_EOF") /\ UNCHANGED <<made, at, inSize>>
     ELSE /\ made' = made + seen
          /\ at' = at + seen /\ inSize' = inSize - seen
          /\ pc' = "look" /\ UNCHANGED res
  /\ UNCHANGED <<caseVars, ci, buffer, limit, si, seen, probs, bufVars>>

CopyDone ==
  /\ pc = "look" /\ Copies /\ inSize = 0
  /\ CoderDone(made)
  /\ UNCHANGED <<caseVars, runVars, tempBuf, tempSizes, tempSize3, res>>

(* Slip: only the input is asked to be used up.                             *)
WholeInput(k, p) == inSize = k

(* How the loops of SzDecodeLzma and SzDecodeLzma2 go on after the decoder  *)
(* has taken k bytes and written p.                                         *)
Whole(k, p) == made + p = limit /\ inSize = k
MayEnd(k, p, status) ==
  \/ status = "FINISHED_WITH_MARK"
  \/ coder.method = "LZMA" /\ status = "MAYBE_FINISHED_WITHOUT_MARK" /\ Whole(k, p)

(* Slip: without progress the loop goes on.                                 *)
StuckNever(k, p) == FALSE

Stuck(k, p) == k = 0 /\ p = 0

(* LzmaDec_DecodeToDic or Lzma2Dec_DecodeToDic on what Look has shown.      *)
DecodeChunk ==
  /\ pc = "chunk" /\ ~Copies
  /\ \/ /\ \E e \in {"SZ_ERROR_DATA", "SZ_ERROR_FAIL"} : Fail(e)
        /\ probs' = FALSE
        /\ UNCHANGED <<ci, made, at, inSize, source>>
     \/ \E k \in 0 .. seen, p \in 0 .. limit - made,
          status \in {"FINISHED_WITH_MARK", "MAYBE_FINISHED_WITHOUT_MARK", "NEEDS_MORE_INPUT"} :
          /\ made' = made + p /\ inSize' = inSize - k
          /\ IF MayEnd(k, p, status) /\ Whole(k, p)
             THEN CoderDone(made + p) /\ UNCHANGED <<at, res>>
             ELSE IF MayEnd(k, p, status) \/ Stuck(k, p)
             THEN Fail("SZ_ERROR_DATA") /\ probs' = FALSE /\ UNCHANGED <<ci, at, source>>
             ELSE at' = at + k /\ pc' = "look" /\ UNCHANGED <<ci, probs, source, res>>
  /\ UNCHANGED <<caseVars, buffer, limit, si, seen, tempBuf, tempSizes, tempSize3>>

-----------------------------------------------------------------------------
(* A filter converts the output buffer in place; its properties may be of a *)
(* size it does not know.                                                   *)
Filter ==
  /\ pc = "coder" /\ ci = 1 /\ NumCoders = 2
  /\ \/ ci' = 2 /\ source' = [source EXCEPT !["out"].by = 1] /\ UNCHANGED <<pc, res>>
     \/ Fail("SZ_ERROR_UNSUPPORTED") /\ UNCHANGED <<ci, source>>
  /\ UNCHANGED <<caseVars, runVars, probs, tempBuf, tempSizes, tempSize3>>

(* The sums are of size_t.                                                  *)
SizesFit ==
  /\ tempSizes["temp0"] % 4 = 0 /\ tempSizes["temp1"] % 4 = 0
  /\ (tempSize3 + tempSizes["temp0"] + tempSizes["temp1"]) % (SizeMax + 1) = outSize

Merge ==
  /\ pc = "merge"
  /\ IF SizesFit THEN pc' = "convert" /\ UNCHANGED res ELSE Fail("SZ_ERROR_DATA")
  /\ UNCHANGED <<caseVars, ci, runVars, probs, bufVars>>

(* Bcj2Dec_Decode and the checks after it, see Bcj2Decoder.                 *)
Convert ==
  /\ pc = "convert"
  /\ \/ /\ source' = [source EXCEPT !["out"] = [by |-> 3, bytes |-> outSize]]
        /\ pc' = "coder" /\ ci' = 4 /\ UNCHANGED res
     \/ Fail("SZ_ERROR_DATA") /\ UNCHANGED <<ci, source>>
  /\ UNCHANGED <<caseVars, runVars, probs, tempBuf, tempSizes, tempSize3>>

CodersDone ==
  /\ pc = "coder" /\ ci = NumCoders
  /\ pc' = "free"
  /\ UNCHANGED <<caseVars, ci, runVars, probs, bufVars, res>>

(* Slip: the buffers are only freed after a success.                        *)
FreeOnSuccess ==
  /\ pc = "free"
  /\ pc' = "done"
  /\ tempBuf' = IF res = "SZ_OK" THEN {} ELSE tempBuf
  /\ res' \in IF res = "SZ_OK" THEN {"SZ_OK", "SZ_ERROR_CRC"} ELSE {res}
  /\ UNCHANGED <<caseVars, ci, runVars, probs, tempSizes, tempSize3, source>>

(* The end of SzAr_DecodeFolder: the CRC of the folder, where it has one.   *)
FreeTemps ==
  /\ pc = "free"
  /\ pc' = "done"
  /\ tempBuf' = {}
  /\ res' \in IF res = "SZ_OK" THEN {"SZ_OK", "SZ_ERROR_CRC"} ELSE {res}
  /\ UNCHANGED <<caseVars, ci, runVars, probs, tempSizes, tempSize3, source>>

Next ==
  \/ CheckFolder \/ PlaceOutput \/ PlaceRc \/ SeekTo \/ AllocProbs
  \/ Look \/ CopyChunk \/ CopyDone \/ DecodeChunk
  \/ Filter \/ Merge \/ Convert \/ CodersDone \/ FreeTemps

Spec == Init /\ [][Next]_vars
FairSpec == Spec /\ WF_vars(Next)

-----------------------------------------------------------------------------
(* A coder is shown bytes of its own packed stream only: the stream that    *)
(* the folder connects to its first input, and for the range coder's stream *)
(* the fourth input of BCJ2.                                                *)
OwnInput == FirstIn(folder, ci) + (IF coder.method = "BCJ2" THEN 3 ELSE 0)
ReadsOwnStream ==
  pc = "chunk" =>
    /\ folder.packStreams[si + 1] = OwnInput
    /\ at >= PackPosition(si)
    /\ at + seen <= PackEnd(si)

(* When BCJ2 starts, each of its input buffers has been filled, to its end, *)
(* by the coder that the folder's bonds connect to that input, and the gap  *)
(* in front of the main stream is what the words will take (Bcj2.h, on when *)
(* dest may overlap the main stream).                                       *)
InputBuffer == <<"end", "temp0", "temp1", "temp2">>
MergeReady ==
  pc = "convert" =>
    /\ \A i \in 1 .. Len(folder.bonds) : LET b == folder.bonds[i] IN
         source[InputBuffer[b.in - FirstIn(folder, 3) + 1]] =
           [by |-> b.out, bytes |-> folder.sizes[b.out + 1]]
    /\ outSize - tempSize3 = tempSizes["temp0"] + tempSizes["temp1"]

(* Every coder gets its own input, whichever way it comes. *)
InputsRight == ReadsOwnStream /\ MergeReady

(* SZ_OK means that the whole output has been written, last of all by the   *)
(* coder whose output is the folder's.                                      *)
OkMeansWhole ==
  pc = "done" /\ res = "SZ_OK" => source["out"] = [by |-> UnpackStream, bytes |-> outSize]

(* Whatever happens, nothing stays allocated.                               *)
NothingLeft == pc = "done" => tempBuf = {} /\ ~probs

(* The loops end even if the decoder never gets anywhere.                   *)
Terminates == <>(pc = "done")

-----------------------------------------------------------------------------
(* The inductive invariant: what the loop over the coders knows.            *)
Running == pc \in {"coder", "seek", "alloc", "look", "chunk", "merge", "convert"}
Fine    == Running \/ (pc \in {"free", "done"} /\ res = "SZ_OK")
Reading == pc \in {"alloc", "look", "chunk"}
Placed  == Reading \/ pc = "seek"

FolderRight == Fine => Supported(folder) /\ outSize = folder.sizes[UnpackStream + 1]

(* The running coder has the place and the packed stream that are its own.  *)
StreamOf == <<3, 2, 0, 1>>
PlaceOf  == <<"temp1", "temp0", "end", "temp2">>
PlaceRight ==
  Placed =>
    /\ ci < NumCoders
    /\ NumCoders # 4 => ci = 0 /\ si = 0 /\ buffer = "out" /\ limit = outSize
    /\ NumCoders = 4 =>
         /\ si = StreamOf[ci + 1] /\ buffer = PlaceOf[ci + 1]
         /\ limit = IF ci = 3 THEN PackEnd(1) - PackPosition(1) ELSE folder.sizes[ci + 1]

InputRight ==
  Reading =>
    /\ at >= PackPosition(si) /\ at + inSize <= PackEnd(si)
    /\ pc = "chunk" => seen <= inSize
    /\ Copies => pc # "alloc" /\ made + inSize = limit

(* What the temporary buffers take, together with the output, and the gap   *)
(* in front of the main stream.                                             *)
SpaceRight ==
  /\ Used <= SizeMax /\ tempSize3 <= outSize
  /\ Fine /\ NumCoders = 4 =>
       /\ ci > 0 \/ Placed => tempSizes["temp1"] = folder.sizes[1]
       /\ ci > 1 \/ (ci = 1 /\ Placed) => tempSizes["temp0"] = folder.sizes[2]
       /\ ci > 2 \/ (ci = 2 /\ Placed) => tempSize3 = folder.sizes[3]

(* The coders that are through have filled their buffers.                   *)
SourceRight ==
  /\ Fine /\ NumCoders = 4 =>
       /\ \A c \in 0 .. 2 : ci > c =>
            source[PlaceOf[c + 1]] = [by |-> c, bytes |-> folder.sizes[c + 1]]
       /\ ci = 4 => source["out"] = [by |-> 3, bytes |-> outSize]
  /\ Fine /\ NumCoders # 4 /\ ci > 0 => source["out"] = [by |-> ci - 1, bytes |-> outSize]

StageRight ==
  /\ pc = "check" => ci = 0
  /\ pc = "seek" => made = 0
  /\ pc \in {"merge", "convert"} => ci = 3 /\ NumCoders = 4
  /\ pc = "convert" => SizesFit
  /\ pc \in {"free", "done"} /\ res = "SZ_OK" => ci = NumCoders
  /\ probs => pc \in {"look", "chunk"} /\ ~Copies
  /\ pc = "done" => tempBuf = {}

IInv == /\ TypeOK /\ FolderRight /\ PlaceRight /\ InputRight
        /\ SpaceRight /\ SourceRight /\ StageRight
=============================================================================
