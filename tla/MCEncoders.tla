----------------------------- MODULE MCEncoders -----------------------------
(* What becomes of the data: the streams of MCStreams, which are read, and    *)
(* the encoders of the SDK, each as a part of its own: the match finders, the *)
(* LZMA and LZMA2 encoder, the range coder and the BCJ2 encoder.              *)
EXTENDS MCStreams, MatchFinder, MatchTree, LzmaEncoder, Bcj2Encoder

Bits(n) == [1 .. n -> 0 .. 1]

(* The finders: windows that move and positions that wrap.  One input in the *)
(* middle of another, read in steps, at once, or only in part.               *)
MCFiles ==
  {a \o b : a \in Bits(3),
            b \in {<<0, 0, 1, 0, 0, 1, 0, 0, 1, 1, 0, 1>>,
                   <<1, 0, 1, 1, 0, 0, 0, 0, 0, 1, 0, 1>>,
                   <<1, 1, 0, 0, 1, 1, 0, 1, 1, 0, 1, 1>>}}
Kind(bytes, bt, zip) == [bytes |-> bytes, bt |-> bt, zip |-> zip]
MCKinds ==
  {Kind(2, TRUE, FALSE), Kind(3, TRUE, TRUE), Kind(3, FALSE, TRUE), Kind(3, TRUE, FALSE),
   Kind(4, TRUE, FALSE), Kind(5, TRUE, FALSE), Kind(4, FALSE, FALSE), Kind(5, FALSE, FALSE)}
History(cut) ==
  [history |-> 3, keepBefore |-> 0, matchMax |-> 5, keepAfter |-> 0, cut |-> cut]
Source(direct, step, failAt) == [direct |-> direct, step |-> step, failAt |-> failAt]
MCFinders ==
  {k @@ History(c) @@ Source(FALSE, s, 99) : k \in MCKinds, s \in {1, 3}, c \in {1, 9}}
  \cup {k @@ History(9) @@ s : k \in MCKinds, s \in {Source(TRUE, 1, 99), Source(FALSE, 1, 9)}}
MCTrees ==
  {[bytes |-> b, history |-> 3, matchMax |-> 5, cut |-> c,
    heads |-> h, cells |-> 21, ahead |-> 1] :
     b \in 2 .. 5, c \in {1, 9}, h \in {2, 3}}

(* The encoder: every start of six bytes, in plans of up to twelve cells.   *)
MCPlains ==
  {a \o b : a \in Bits(6),
            b \in {<<0, 0, 1, 0, 0, 1, 0, 0, 0, 1, 1, 0>>,
                   <<1, 0, 1, 1, 0, 1, 0, 0, 1, 0, 1, 1>>}}
  \cup {<< >>, <<1>>}
Limits ==
  [lenMax |-> 6, spare |-> 2, dict |-> 12, reserve |-> 7, ratio |-> 2, near |-> 4, far |-> 3,
   copyMax |-> 4]
MCEncoderSetups ==
  {Limits @@ [kind |-> "lzma", fastMode |-> f, fast |-> b, numOpts |-> n, seed |-> s,
              finder |-> g, unpackMax |-> 5, blockSize |-> 99, failAt |-> 99] :
     f \in BOOLEAN, b \in {4, 5}, n \in {8, 12}, s \in {1, 3, 6}, g \in {"full", "longest"}}
  \cup
  {Limits @@ [kind |-> "lzma2", fastMode |-> f, fast |-> 5, numOpts |-> 6, seed |-> 3,
              finder |-> "full", unpackMax |-> 15, blockSize |-> b, failAt |-> a] :
     f \in BOOLEAN, b \in {8, 99}, a \in {11, 99}}

(* BCJ2: markers across the ends of pieces, and marks inside of offsets.     *)
Marks == {<<"e8">>, <<"0f", "8x">>, <<"xx", "e9">>, <<"xx", "xx">>}
Words ==
  {<<"xx", "xx", "xx", "xx">>, <<"8x", "e8", "xx", "xx">>, <<"e8", "0f", "8x", "xx">>}
MCBranches ==
  {<<a \o w \o b, c \o v>> : a \in Marks, w \in Words, b \in {<<"0f">>, <<"e9", "xx">>},
                             c \in {<<"8x">>, <<"e8">>}, v \in Words}
  \cup {<<a \o w \o b \o v \o <<"e8">> >> : a \in Marks, w \in Words, b \in Marks, v \in Words}

encodersVars == <<finderVars, treeVars, encoderVars, coderVars, branchVars>>

NoFinder == file = 0 /\ mf = 0 /\ done = 0 /\ found = 0
NoTree == text = 0 /\ heads = 0 /\ tree = 0 /\ lz = 0
NoEncoder == plain = 0 /\ enc = 0 /\ stage = 0 /\ decoded = 0 /\ trial = 0
NoCoder == coder = 0 /\ sent = 0
NoBranch == code = 0 /\ bj = 0 /\ branch = 0
EncodersIdle == NoFinder /\ NoTree /\ NoEncoder /\ NoCoder /\ NoBranch
EncodersInit ==
  \/ part = "finder" /\ FinderInit /\ NoTree /\ NoEncoder /\ NoCoder /\ NoBranch
  \/ part = "tree" /\ NoFinder /\ TreeInit /\ NoEncoder /\ NoCoder /\ NoBranch
  \/ part = "encoder" /\ NoFinder /\ NoTree /\ EncoderInit /\ NoCoder /\ NoBranch
  \/ part = "coder" /\ NoFinder /\ NoTree /\ NoEncoder /\ CoderInit /\ NoBranch
  \/ part = "branch" /\ NoFinder /\ NoTree /\ NoEncoder /\ NoCoder /\ BranchInit

EncodersNext ==
  \/ part = "finder" /\ FinderNext /\ UNCHANGED <<treeVars, encoderVars, coderVars, branchVars>>
  \/ part = "tree" /\ TreeNext /\ UNCHANGED <<finderVars, encoderVars, coderVars, branchVars>>
  \/ part = "encoder" /\ EncoderNext /\ UNCHANGED <<finderVars, treeVars, coderVars, branchVars>>
  \/ part = "coder" /\ CoderNext /\ UNCHANGED <<finderVars, treeVars, encoderVars, branchVars>>
  \/ part = "branch" /\ BranchNext /\ UNCHANGED <<finderVars, treeVars, encoderVars, coderVars>>

(* While an encoder runs, the parts of MCStreams stand still.               *)
StreamsIdle ==
  LookIdle /\ Bcj2Idle /\ FolderIdle /\ Init /\ Bcj2Init /\ Decode!Init
DataInit == (EncodersIdle /\ StreamsInit) \/ (StreamsIdle /\ EncodersInit)
DataNext == \/ StreamsNext /\ UNCHANGED encodersVars
            \/ EncodersNext /\ UNCHANGED streamsVars
DataSpec == /\ DataInit /\ [][DataNext]_<<streamsVars, encodersVars>>
            /\ WF_<<streamsVars, encodersVars>>(FolderNext /\ UNCHANGED encodersVars)

(* The simple match finder and the stages of the threaded one, each held     *)
(* against its file and not against the other: the pairs it gives are        *)
(* matches that are there, inside the history and in growing length, and     *)
(* where a tree is searched to its end (cut > history) the last pair is the  *)
(* longest match there is.                                                   *)
FindersExact ==
  /\ part = "finder" => MatchesExact
  /\ part = "tree" => TreesExact
(* The parser's and the encoder's symbols are those a decoder reads.         *)
EncodingRight == part = "encoder" => EncodedRight
(* The bits a range coder codes are those that are decoded.                  *)
CodingReturns == part = "coder" => BitsReturn
(* The four streams of the BCJ2 encoder merge to its input.                  *)
BranchingReturns == part = "branch" => BranchesMerge
=============================================================================
