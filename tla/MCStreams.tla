------------------------------ MODULE MCStreams ------------------------------
(* A file of three different bytes for LookStream, longer than the buffer   *)
(* and shorter than what clients may ask for; and, as parts of their own,   *)
(* short streams for Bcj2Decoder and small folders for FolderDecode.        *)
EXTENDS LookStream, Bcj2Decoder
LOCAL SeqExt == INSTANCE SequencesExt

CONSTANTS Folders, SizeMax, Window  \* FolderDecode

VARIABLES part, \* the part that runs; the others stand still
          folder, outSizeF, pcF, ci, buffer, limit, made, si, atF, inSize, seen,
          probs, tempBuf, tempSizes, tempSize3, source, resF

Decode == INSTANCE FolderDecode WITH outSize <- outSizeF, pc <- pcF, at <- atF, res <- resF

(* Folders are those the header reader lets through.                        *)
ASSUME FolderAssumption ==
  /\ SizeMax \in Nat /\ Window \in Nat \ {0}
  /\ \A f \in Folders : Decode!WellFormed(f)

CONSTANTS b1, b2, b3
MCFile == <<b1, b2, b3>>

(* The addresses of the two words depend on the position, contain bytes     *)
(* that are markers in the main stream, and may end in the first byte of    *)
(* the marker 0f 8x.                                                        *)
CONSTANTS w1, w2, MaxMain
MCAbsolute(w, p) ==
  IF (w = w1) = (p % 2 = 0) THEN <<"xx", "e8", "xx", "0f">>
                             ELSE <<"e8", "0f", "8x", "e9">>
MCMains == UNION {[1 .. n -> MainByte] : n \in 0 .. MaxMain}
MCCalls == {<< >>, <<w1>>, <<w2>>}

-----------------------------------------------------------------------------
(* Small folders for FolderDecode: one coder, a coder and a filter, BCJ2 in *)
(* its standard graph and in others, and graphs that are not supported.     *)
Coder(m) == [method |-> m, streams |-> IF m = "BCJ2" THEN 4 ELSE 1]
Bond(i, o) == [in |-> i, out |-> o]

(* The first packed stream of a folder begins at some place of the archive. *)
Positions(packs) == [i \in 1 .. Len(packs) + 1 |-> 1 + SeqExt!FoldSeq(+, 0, SubSeq(packs, 1, i - 1))]

Single(m, n, p) ==
  [coders |-> <<Coder(m)>>, bonds |-> << >>, packStreams |-> <<0>>,
   sizes |-> <<n>>, packPositions |-> Positions(<<p>>)]
Filtered(m, f, n, p) ==
  [coders |-> <<Coder(m), Coder(f)>>, bonds |-> <<Bond(1, 0)>>, packStreams |-> <<0>>,
   sizes |-> <<n, n>>, packPositions |-> Positions(<<p>>)]
Fourfold(ms, bs, ps, sizes, packs) ==
  [coders |-> <<Coder(ms[1]), Coder(ms[2]), Coder(ms[3]), Coder("BCJ2")>>, bonds |-> bs,
   packStreams |-> ps, sizes |-> sizes, packPositions |-> Positions(packs)]

Std == <<Bond(5, 0), Bond(4, 1), Bond(3, 2)>>
Ms  == {<<"LZMA", "Copy", "LZMA2">>, <<"Copy", "LZMA", "Copy">>}

(* The sizes of the streams add up to the output, by themselves or modulo   *)
(* the size_t, or do not; one word stream is not a multiple of four; one    *)
(* stream or its pack is longer than a size_t holds.                        *)
Sizes == {<<4, 4, 2, 10>>, <<0, 4, 3, 7>>, <<4, 0, 0, 4>>, <<4, 4, 3, 10>>, <<2, 4, 1, 7>>,
          <<16, 16, 2, 2>>, <<0, 4, 5, 4>>, <<36, 0, 4, 8>>, <<0, 0, 4, 4>>}
Packs == {<<2, 5, 4, 4>>, <<3, 6, 2, 4>>, <<0, 36, 4, 0>>}
OtherGraphs ==
  {<<Std, <<2, 6, 0, 1>> >>, <<Std, <<6, 2, 1, 0>> >>,
   << <<Bond(4, 0), Bond(5, 1), Bond(3, 2)>>, <<2, 6, 1, 0>> >>}

MCFolders ==
  {Single(m, n, p) : m \in {"Copy", "LZMA", "LZMA2", "Delta"}, n \in {0, 3}, p \in {0, 3, 4}}
  \cup {Filtered(m, f, 3, p) :
          m \in {"Copy", "LZMA"}, f \in {"BCJ", "Delta", "LZMA"}, p \in {0, 3}}
  \cup {Fourfold(ms, Std, <<2, 6, 1, 0>>, sz, pk) : ms \in Ms, sz \in Sizes, pk \in Packs}
  \cup {Fourfold(ms, g[1], g[2], <<4, 4, 2, 10>>, <<2, 5, 4, 4>>) :
          ms \in Ms, g \in OtherGraphs}

-----------------------------------------------------------------------------
Some(S) == CHOOSE x \in S : TRUE
OneFolder == Some(Folders)

folderVars == <<folder, outSizeF, pcF, ci, buffer, limit, made, si, atF, inSize, seen,
                probs, tempBuf, tempSizes, tempSize3, source, resF>>

(* A part that does not run has one initial state.                          *)
LookIdle == buf = [c \in Cells |-> Some(Byte)]
Bcj2Idle == outSize = 0 /\ rc = 0
FolderIdle == folder = OneFolder /\ outSizeF = 0

StreamsInit ==
  \/ part = "look" /\ FolderIdle /\ Bcj2Idle /\ Decode!Init /\ Bcj2Init /\ Init
  \/ part = "bcj2" /\ FolderIdle /\ LookIdle /\ Decode!Init /\ Init /\ Bcj2Init
  \/ part = "folder" /\ LookIdle /\ Bcj2Idle /\ Init /\ Bcj2Init /\ Decode!Init

FolderNext == part = "folder" /\ Decode!Next /\ UNCHANGED <<part, vars, bcj2Vars>>
StreamsNext == \/ part = "look" /\ Next /\ UNCHANGED <<part, bcj2Vars, folderVars>>
               \/ part = "bcj2" /\ Bcj2Next /\ UNCHANGED <<part, vars, folderVars>>
               \/ FolderNext
streamsVars == <<part, vars, bcj2Vars, folderVars>>
StreamsSpec == StreamsInit /\ [][StreamsNext]_streamsVars /\ WF_streamsVars(FolderNext)

(* The properties of FolderDecode, see there.                               *)
InputsRight == Decode!InputsRight
OkMeansWhole == Decode!OkMeansWhole
NothingLeft == Decode!NothingLeft
Terminates == part = "folder" => Decode!Terminates
=============================================================================
