------------------------------- MODULE SzFolders -------------------------------
(***************************************************************************)
(* The two parsers of folders in 7zArcIn.c.  ReadUnpackInfo goes over the  *)
(* folders of a header once, to find where each begins and which of its    *)
(* outputs and packed streams are whose.  SzGetNextFolderItem reads one    *)
(* folder again, from the bytes that were kept, when it is decoded.        *)
(* SzAr_DecodeFolder fails with SZ_ERROR_FAIL if they do not agree.        *)
(*                                                                         *)
(* The bytes of the header are chosen as ReadUnpackInfo reads them and     *)
(* kept in data.  Numbers are below 128: ReadNumber reads such a number    *)
(* from one byte.                                                          *)
(***************************************************************************)
EXTENDS Integers, Sequences, FiniteSets

CONSTANTS MaxFolders,      \* bound on the folders of a header
          NumPackStreams,  \* of the header
          CodersMax,       \* SZ_NUM_CODERS_IN_FOLDER_MAX
          PackMax,         \* SZ_NUM_PACK_STREAMS_IN_FOLDER_MAX
          ScanCodersMax,   \* k_Scan_NumCoders_MAX
          ScanStreamsMax,  \* k_Scan_NumCodersStreams_in_Folder_MAX
          MainBytes,       \* the first bytes of a coder that are tried
          Numbers          \* the numbers that are tried

BondsMax == CodersMax - 1
StreamsMax == BondsMax + PackMax

ASSUME LimitAssumption ==
  /\ {MaxFolders, CodersMax, PackMax} \subseteq Nat \ {0}
  /\ NumPackStreams \in Nat
  /\ CodersMax <= ScanCodersMax /\ StreamsMax <= ScanStreamsMax
  /\ Numbers \subseteq 0 .. 127 /\ MainBytes \subseteq 0 .. 255

VARIABLES data,     \* the bytes read so far
          scan,     \* local variables of ReadUnpackInfo
          ar,       \* its tables, per folder
          item,     \* local variables of SzGetNextFolderItem
          folder,   \* CSzFolder
          pc

vars == <<data, scan, ar, item, folder, pc>>

IdSize(b) == b % 16
IsComplex(b) == (b \div 16) % 2 = 1      \* 0x10
HasProps(b) == (b \div 32) % 2 = 1       \* 0x20
Reserved(b) == b >= 64                   \* 0xC0

(* What both have read of one folder *)
Local == [numCoders |-> 0, ci |-> 0, inStreams |-> 0, mainByte |-> 0, main |-> 0, i |-> 0,
          streamUsed |-> {}, coderUsed |-> {}, packs |-> 0, at |-> 0, fo |-> 0,
          pack |-> 0, outs |-> 0]
NoFolder == [NumCoders |-> 0, Coders |-> <<>>, Bonds |-> <<>>, PackStreams |-> <<>>,
             NumPackStreams |-> 0, UnpackStream |-> 0]

Init == /\ data = <<>> /\ ar = <<>>
        /\ scan = Local /\ item = Local /\ folder = NoFolder
        /\ pc = "numCoders"

(* Reading past the end of the header is an error; the scan may meet it at *)
(* every byte.                                                             *)
Stop(why) == pc' = why /\ UNCHANGED <<scan, ar, item, folder>>
Keep == UNCHANGED <<ar, item, folder>>
Take(n) == data' = Append(data, n)
EndOfData == /\ pc \in {"numCoders", "main", "inStreams", "outStreams", "props",
                        "bondIn", "bondOut", "packStream"}
             /\ Stop("archive") /\ UNCHANGED data

-----------------------------------------------------------------------------
(* ReadUnpackInfo *)

ScanNumCoders ==
  /\ pc = "numCoders"
  /\ \E n \in Numbers :
       /\ Take(n)
       /\ IF n = 0 \/ n > ScanCodersMax
          THEN Stop("unsupported")
          ELSE /\ scan' = [scan EXCEPT !.numCoders = n, !.ci = 0, !.inStreams = 0,
                             !.streamUsed = {}, !.coderUsed = {}, !.i = 0]
               /\ pc' = "main" /\ Keep

(* The scan skips the method identifier. *)
Ids(n) == {[k \in 1 .. n |-> b] : b \in {0, 1}}
AfterCoder(s) == IF s.ci + 1 < s.numCoders THEN "main" ELSE "bonds"
NextCoder(s) == /\ scan' = [s EXCEPT !.ci = @ + 1]
                /\ pc' = AfterCoder(s)
ScanMain ==
  /\ pc = "main"
  /\ \E b \in MainBytes :
       IF Reserved(b) \/ IdSize(b) > 8
       THEN Take(b) /\ Stop("unsupported")
       ELSE /\ \E id \in Ids(IdSize(b)) : data' = Append(data, b) \o id
            /\ IF IsComplex(b)
               THEN scan' = [scan EXCEPT !.mainByte = b] /\ pc' = "inStreams"
               ELSE LET s == [scan EXCEPT !.mainByte = b, !.inStreams = @ + 1]
                    IN IF HasProps(b) THEN scan' = s /\ pc' = "props" ELSE NextCoder(s)
            /\ Keep

ScanInStreams ==
  /\ pc = "inStreams"
  /\ \E n \in Numbers : /\ Take(n)
                        /\ scan' = [scan EXCEPT !.i = n]
  /\ pc' = "outStreams" /\ Keep

ScanOutStreams ==
  /\ pc = "outStreams"
  /\ \E n \in Numbers :
       LET s == [scan EXCEPT !.inStreams = @ + scan.i, !.i = 0]
       IN /\ Take(n)
          /\ IF scan.i > ScanStreamsMax \/ n /= 1
             THEN Stop("unsupported")
             ELSE /\ IF HasProps(scan.mainByte) THEN scan' = s /\ pc' = "props"
                                            ELSE NextCoder(s)
                  /\ Keep

ScanProps ==
  /\ pc = "props"
  /\ \E n \in Numbers : data' = Append(data, n) \o [k \in 1 .. n |-> 0]
  /\ NextCoder(scan) /\ Keep

(* The coder graph, unless it is one coder with one stream *)
ScanBonds ==
  /\ pc = "bonds"
  /\ IF scan.numCoders = 1 /\ scan.inStreams = 1
     THEN scan' = [scan EXCEPT !.packs = 1, !.main = 0] /\ pc' = "record" /\ Keep
     ELSE IF scan.inStreams < scan.numCoders - 1
     THEN Stop("archive")
     ELSE IF scan.inStreams > ScanStreamsMax
     THEN Stop("unsupported")
     ELSE /\ scan' = [scan EXCEPT !.i = 0, !.packs = scan.inStreams - scan.numCoders + 1]
          /\ pc' = "bond" /\ Keep
  /\ UNCHANGED data

ScanBond ==
  /\ pc = "bond"
  /\ IF scan.i < scan.numCoders - 1
     THEN pc' = "bondIn" /\ UNCHANGED scan
     ELSE /\ scan' = [scan EXCEPT !.i = 0]
          /\ pc' = IF scan.packs /= 1 THEN "pack" ELSE "main stream"
  /\ UNCHANGED data /\ Keep

ScanBondIn ==
  /\ pc = "bondIn"
  /\ \E n \in Numbers :
       /\ Take(n)
       /\ IF n >= scan.inStreams \/ n \in scan.streamUsed
          THEN Stop("archive")
          ELSE /\ scan' = [scan EXCEPT !.streamUsed = @ \cup {n}]
               /\ pc' = "bondOut" /\ Keep

ScanBondOut ==
  /\ pc = "bondOut"
  /\ \E n \in Numbers :
       /\ Take(n)
       /\ IF n >= scan.numCoders \/ n \in scan.coderUsed
          THEN Stop("archive")
          ELSE /\ scan' = [scan EXCEPT !.coderUsed = @ \cup {n}, !.i = @ + 1]
               /\ pc' = "bond" /\ Keep

ScanPack ==
  /\ pc = "pack"
  /\ pc' = IF scan.i < scan.packs THEN "packStream" ELSE "main stream"
  /\ UNCHANGED <<data, scan>> /\ Keep

(* Slip: a packed stream may be named twice. *)
ScanPackStreamTwice ==
  /\ pc = "packStream"
  /\ \E n \in Numbers :
       /\ Take(n)
       /\ IF n >= scan.inStreams
          THEN Stop("archive")
          ELSE /\ scan' = [scan EXCEPT !.i = @ + 1]
               /\ pc' = "pack" /\ Keep

ScanPackStream ==
  /\ pc = "packStream"
  /\ \E n \in Numbers :
       /\ Take(n)
       /\ IF n >= scan.inStreams \/ n \in scan.streamUsed
          THEN Stop("archive")
          ELSE /\ scan' = [scan EXCEPT !.streamUsed = @ \cup {n}, !.i = @ + 1]
               /\ pc' = "pack" /\ Keep

FirstUnused(s) == CHOOSE k \in (0 .. s.numCoders - 1) \ s.coderUsed :
                    \A j \in (0 .. s.numCoders - 1) \ s.coderUsed : k <= j
ScanMainStream ==
  /\ pc = "main stream"
  /\ IF (0 .. scan.numCoders - 1) \subseteq scan.coderUsed
     THEN Stop("archive")
     ELSE /\ scan' = [scan EXCEPT !.main = FirstUnused(scan)]
          /\ pc' = "record" /\ Keep
  /\ UNCHANGED data

(* The tables get a row; the next folder, or the end of the scan. *)
ScanRecord ==
  /\ pc = "record"
  /\ IF scan.packs > NumPackStreams - scan.pack
     THEN Stop("archive")
     ELSE /\ ar' = Append(ar, [FoCodersOffsets |-> scan.at,
                               FoStartPackStreamIndex |-> scan.pack,
                               FoToCoderUnpackSizes |-> scan.outs,
                               FoToMainUnpackSizeIndex |-> scan.main])
          /\ scan' = [scan EXCEPT !.pack = @ + scan.packs, !.outs = @ + scan.numCoders,
                                  !.at = Len(data)]
          /\ \/ Len(ar) + 1 < MaxFolders /\ pc' = "numCoders"
             \/ pc' = "decode"
          /\ UNCHANGED <<item, folder>>
  /\ UNCHANGED data

Scan == \/ EndOfData \/ ScanNumCoders \/ ScanMain \/ ScanInStreams \/ ScanOutStreams
        \/ ScanProps \/ ScanBonds \/ ScanBond \/ ScanBondIn \/ ScanBondOut
        \/ ScanPack \/ ScanPackStream \/ ScanMainStream \/ ScanRecord

-----------------------------------------------------------------------------
(* SzAr_DecodeFolder takes the folder's bytes from CodersData. *)
Offset(fo) == IF fo < Len(ar) THEN ar[fo + 1].FoCodersOffsets ELSE scan.at
StartPack(fo) == IF fo < Len(ar) THEN ar[fo + 1].FoStartPackStreamIndex ELSE scan.pack

DecodeFolder ==
  /\ pc = "decode"
  /\ \E fo \in 0 .. Len(ar) - 1 :
       item' = [Local EXCEPT !.fo = fo, !.at = Offset(fo)]
  /\ folder' = NoFolder /\ pc' = "item"
  /\ UNCHANGED <<data, scan, ar>>

-----------------------------------------------------------------------------
(* SzGetNextFolderItem *)
End == Offset(item.fo + 1)
Left == End - item.at                    \* sd->Size
B == data[item.at + 1]                   \* the next byte
GotStop(why) == pc' = why /\ UNCHANGED <<item, folder>>
Got(i, f, where) == item' = i /\ folder' = f /\ pc' = where
Same == UNCHANGED <<data, scan, ar>>
Short == Left = 0

ItemNumCoders ==
  /\ pc = "item"
  /\ IF Short THEN GotStop("item archive")
     ELSE IF B = 0 \/ B > CodersMax THEN GotStop("item unsupported")
     ELSE Got([item EXCEPT !.numCoders = B, !.at = @ + 1], folder, "item coder")
  /\ Same

Coder(n, i, size) == [NumStreams |-> n, PropsOffset |-> i, PropsSize |-> size]
PlainProps == Coder(1, 0, 0)

(* An identifier of more than 32 bits *)
LargeId == \E k \in 1 .. IdSize(B) - 4 : data[item.at + 1 + k] /= 0

(* The main byte, the identifier and, of a complex coder, the streams *)
ItemCoder ==
  /\ pc = "item coder"
  /\ IF item.ci = item.numCoders
     THEN GotStop("item bonds")
     ELSE IF Short THEN GotStop("item archive")
     ELSE IF Reserved(B) \/ IdSize(B) > 8 THEN GotStop("item unsupported")
     ELSE IF IdSize(B) > Left - 1 THEN GotStop("item archive")
     ELSE IF LargeId THEN GotStop("item unsupported")
     ELSE Got([item EXCEPT !.mainByte = B, !.at = @ + 1 + IdSize(B)],
              [folder EXCEPT !.Coders = Append(@, PlainProps)],
              IF IsComplex(B) THEN "item streams" ELSE "item props")
  /\ Same

ItemStreams ==
  /\ pc = "item streams"
  /\ IF Short THEN GotStop("item archive")
     ELSE IF B > StreamsMax THEN GotStop("item unsupported")
     ELSE IF Left < 2 THEN GotStop("item archive")
     ELSE IF data[item.at + 2] /= 1 THEN GotStop("item unsupported")
     ELSE Got([item EXCEPT !.at = @ + 2],
              [folder EXCEPT !.Coders[item.ci + 1].NumStreams = B], "item props")
  /\ Same

ItemProps ==
  /\ pc = "item props"
  /\ LET n == folder.Coders[item.ci + 1].NumStreams
         i == [item EXCEPT !.inStreams = @ + n, !.ci = @ + 1]
     IN IF i.inStreams > StreamsMax THEN GotStop("item unsupported")
        ELSE IF ~HasProps(item.mainByte) THEN Got(i, folder, "item coder")
        ELSE IF Short \/ B > Left - 1 THEN GotStop("item archive")
        ELSE Got([i EXCEPT !.at = @ + 1 + B],
                 [folder EXCEPT !.Coders[item.ci + 1] =
                    Coder(n, item.at + 1 - Offset(item.fo), B)], "item coder")
  /\ Same

ItemBonds ==
  /\ pc = "item bonds"
  /\ LET bonds == item.numCoders - 1
         packs == item.inStreams - bonds
     IN IF item.inStreams < bonds THEN GotStop("item archive")
        ELSE IF bonds > BondsMax \/ packs > PackMax THEN GotStop("item unsupported")
        ELSE Got([item EXCEPT !.i = 0, !.packs = packs],
                 [folder EXCEPT !.NumPackStreams = packs], "item bond")
  /\ Same

ItemBond ==
  /\ pc = "item bond" /\ item.i < item.numCoders - 1
  /\ IF Short THEN GotStop("item archive")
     ELSE IF B >= item.inStreams \/ B \in item.streamUsed THEN GotStop("item archive")
     ELSE IF Left < 2 THEN GotStop("item archive")
     ELSE LET out == data[item.at + 2] IN
          IF out >= item.numCoders \/ out \in item.coderUsed THEN GotStop("item archive")
          ELSE Got([item EXCEPT !.streamUsed = @ \cup {B}, !.coderUsed = @ \cup {out},
                                !.i = @ + 1, !.at = @ + 2],
                   [folder EXCEPT !.Bonds = Append(@, [InIndex |-> B, OutIndex |-> out])],
                   "item bond")
  /\ Same

ItemUnpackStream ==
  /\ pc = "item bond" /\ item.i = item.numCoders - 1
  /\ LET free == (0 .. item.numCoders - 1) \ item.coderUsed
     IN IF item.i > 0 /\ free = {} THEN GotStop("item archive")
        ELSE Got([item EXCEPT !.i = 0],
                 [folder EXCEPT !.UnpackStream =
                    IF item.i = 0 THEN 0 ELSE FirstUnused(item)],
                 IF item.packs = 1 THEN "item one pack" ELSE "item pack")
  /\ Same

(* Slip: the only packed stream is taken to be the first input. *)
ItemOnePackFirst ==
  /\ pc = "item one pack"
  /\ Got(item, [folder EXCEPT !.PackStreams = <<0>>], "item done")
  /\ Same

ItemOnePack ==
  /\ pc = "item one pack"
  /\ LET free == (0 .. item.inStreams - 1) \ item.streamUsed
     IN IF free = {} THEN GotStop("item archive")
        ELSE Got(item, [folder EXCEPT !.PackStreams =
                          <<CHOOSE k \in free : \A j \in free : k <= j>>], "item done")
  /\ Same

ItemPack ==
  /\ pc = "item pack"
  /\ IF item.i = item.packs THEN GotStop("item done")
     ELSE IF Short THEN GotStop("item archive")
     ELSE IF B >= item.inStreams \/ B \in item.streamUsed THEN GotStop("item archive")
     ELSE Got([item EXCEPT !.streamUsed = @ \cup {B}, !.i = @ + 1, !.at = @ + 1],
              [folder EXCEPT !.PackStreams = Append(@, B)], "item pack")
  /\ Same

Item == \/ ItemNumCoders \/ ItemCoder \/ ItemStreams \/ ItemProps \/ ItemBonds
        \/ ItemBond \/ ItemUnpackStream \/ ItemOnePack \/ ItemPack

Next == Scan \/ DecodeFolder \/ Item
Spec == Init /\ [][Next]_vars

-----------------------------------------------------------------------------
TypeOK ==
  /\ scan.at \in 0 .. Len(data) /\ scan.pack \in 0 .. NumPackStreams
  /\ scan.inStreams \in Nat /\ scan.streamUsed \subseteq 0 .. ScanStreamsMax - 1
  /\ scan.coderUsed \subseteq 0 .. ScanCodersMax - 1
  /\ Len(ar) <= MaxFolders
  /\ Len(folder.Coders) <= CodersMax /\ Len(folder.Bonds) <= BondsMax
  /\ Len(folder.PackStreams) <= PackMax
  /\ item.streamUsed \subseteq 0 .. StreamsMax - 1

(* What the scan has let through is no malformed folder for the second     *)
(* parser, which finds the same coders, packed streams and main output in  *)
(* the same bytes: SzAr_DecodeFolder does not fail with SZ_ERROR_FAIL.     *)
ParsersAgree ==
  /\ pc /= "item archive"
  /\ pc = "item done" =>
       /\ Left = 0
       /\ folder.UnpackStream = ar[item.fo + 1].FoToMainUnpackSizeIndex
       /\ folder.NumPackStreams = StartPack(item.fo + 1) - StartPack(item.fo)
       /\ item.numCoders = (IF item.fo + 1 < Len(ar)
                            THEN ar[item.fo + 2].FoToCoderUnpackSizes ELSE scan.outs)
                           - ar[item.fo + 1].FoToCoderUnpackSizes

(* The graph of a folder that is decoded: every input stream of a coder is *)
(* a packed stream or the output of a coder, and only one of them, and     *)
(* every coder but one is an input of a coder (7zDec.c relies on it).      *)
InIndexes == {folder.Bonds[k].InIndex : k \in 1 .. Len(folder.Bonds)}
OutIndexes == {folder.Bonds[k].OutIndex : k \in 1 .. Len(folder.Bonds)}
Packed == {folder.PackStreams[k] : k \in 1 .. Len(folder.PackStreams)}
GraphSound ==
  pc = "item done" =>
    /\ InIndexes \cup Packed = 0 .. item.inStreams - 1
    /\ Len(folder.Bonds) + Len(folder.PackStreams) = item.inStreams
    /\ OutIndexes = (0 .. item.numCoders - 1) \ {folder.UnpackStream}
    /\ folder.UnpackStream \in 0 .. item.numCoders - 1
    /\ Len(folder.PackStreams) = folder.NumPackStreams

(* ... and the properties of a coder are bytes of its folder: SzFolder_Decode2     *)
(* hands CodersData + PropsOffset to the decoders.                         *)
PropsInside ==
  pc = "item done" =>
    \A k \in 1 .. Len(folder.Coders) :
      LET c == folder.Coders[k]
      IN c.PropsOffset + c.PropsSize <= Offset(item.fo + 1) - Offset(item.fo)

(* Both: nothing that the second parser finds is new to the tables.        *)
FoldersAgree == ParsersAgree /\ PropsInside
=============================================================================
