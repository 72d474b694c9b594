---------------------------- MODULE Tables_proofs ----------------------------
(***************************************************************************)
(* The tables that SzReadHeader2 makes of a header (SzFileTable), for every *)
(* header of the shape its reading functions make sure of.                 *)
(*                                                                         *)
(* First, every entry lies inside the block of its folder: TableInv says   *)
(* which positions are in the table at each place of the loop, that they   *)
(* grow, and what an entry has to do with its folder.                      *)
(* Then, the index says what the header says: ExactInv compares what the   *)
(* loop has counted with sums over the header, entry by entry, and the     *)
(* bits, written a byte at a time, with the entries they are for.  Sums    *)
(* are folds of sets; that the order does not matter is proved before.     *)
(***************************************************************************)
EXTENDS MCHeaders, FiniteSetTheorems, SequenceTheorems, WellFoundedInduction, TLAPS

-----------------------------------------------------------------------------
(* The tables of SzReadHeader2 (SzFileTable).                                *)

(* What the reading functions make sure of                                   *)
Sizes64 == 0 .. TableU64 - 1
HeaderShape(h) ==
  /\ h.numFiles \in Nat /\ h.sizes \in Seq(Sizes64)
  /\ \E k \in Nat : /\ h.folderSize \in [0 .. k - 1 -> Sizes64]
                    /\ h.counts = Absent \/ h.counts \in [0 .. k - 1 -> Nat]

NumFiles == hdr.numFiles
NumFolders == Table!NumFolders(hdr)
Position(e) == db.UnpackPositions[e]
FirstFile(f) == db.FolderToFile[f]
FolderOf(e) == db.FileToFolder[e]

(* The position of entry e is in the table.                                  *)
Placed(e) == e < at.i \/ (e = at.i /\ tablePc \in {"folder", "stream", "tail", "done"})
EndOf(e) == IF Placed(e + 1) THEN Position(e + 1) ELSE at.pos

(* Folder f has a first entry.                                               *)
Opened(f) == f < at.folder \/ (f = at.folder /\ (at.rem > 0 \/ tablePc = "done"))

AtPlace ==
  /\ tablePc = "check" => at.i = 0
  /\ tablePc \in {"folder", "stream"} => at.i < NumFiles
  /\ tablePc = "folder" => at.rem = 0
  /\ tablePc = "stream" => at.rem > 0
  /\ tablePc \in {"tail", "done"} => at.i = NumFiles /\ at.rem = 0
  /\ tablePc = "done" => at.folder = NumFolders
  /\ at.rem > 0 => at.folder < NumFolders

(* Positions grow and end where the reading stands; every folder begins at   *)
(* an entry that has one.                                                    *)
PositionsGrow ==
  /\ \A e \in 0 .. NumFiles : Placed(e) => Position(e) \in Sizes64 /\ Position(e) <= at.pos
  /\ \A d \in 0 .. NumFiles : \A e \in 0 .. NumFiles :
       d <= e /\ Placed(e) => Position(d) <= Position(e)
  /\ \A f \in 0 .. NumFolders :
       Opened(f) => FirstFile(f) \in 0 .. NumFiles /\ Placed(FirstFile(f))

(* An entry belongs to a folder that began at it or before; when the folder  *)
(* is through it ends within its size.                                       *)
EntriesInside ==
  \A e \in 0 .. NumFiles - 1 : e < at.i /\ FolderOf(e) # NoFolderIndex =>
    /\ FolderOf(e) \in 0 .. NumFolders - 1 /\ Opened(FolderOf(e))
    /\ FirstFile(FolderOf(e)) <= e
    /\ FolderOf(e) < at.folder =>
         EndOf(e) <= Position(FirstFile(FolderOf(e))) + hdr.folderSize[FolderOf(e)]

AtSet == [i : 0 .. NumFiles, folder : 0 .. NumFolders, rem : Nat, num : Nat,
          pos : Sizes64, size : Nat, emptyFile : Nat, digest : Nat, val : Nat]
Tables(d) ==
  /\ d = [UnpackPositions |-> d.UnpackPositions, FolderToFile |-> d.FolderToFile,
          FileToFolder |-> d.FileToFolder, IsDirs |-> d.IsDirs,
          CrcDefs |-> d.CrcDefs, CrcVals |-> d.CrcVals]
  /\ DOMAIN d.UnpackPositions = 0 .. NumFiles
  /\ DOMAIN d.FolderToFile = 0 .. NumFolders
  /\ DOMAIN d.FileToFolder = 0 .. NumFiles - 1
TablePcs == {"check", "file", "folder", "stream", "tail", "done"}
TableInv ==
  tablePc # "failed" =>
    /\ tablePc \in TablePcs /\ at \in AtSet /\ Tables(db)
    /\ AtPlace /\ PositionsGrow /\ EntriesInside

-----------------------------------------------------------------------------
(* A sum that does not wrap                                                  *)
LEMMA AddFits ==
  ASSUME NEW a \in Sizes64, NEW v \in Sizes64, Table!Add(a, v) >= v
  PROVE Table!Add(a, v) = a + v /\ a + v \in Sizes64
<1>1. TableU64 \in Nat \ {0} BY TableAssumption
<1>2. a \in Nat /\ v \in Nat /\ a < TableU64 /\ v < TableU64 BY <1>1 DEF Sizes64
<1>3. Table!Add(a, v) = (a + v) % TableU64 BY DEF Table!Add
<1>4. CASE a + v < TableU64
  <2>1. (a + v) % TableU64 = a + v BY <1>1, <1>2, <1>4
  <2> QED BY <2>1, <1>1, <1>2, <1>3, <1>4 DEF Sizes64
<1>5. CASE ~(a + v < TableU64)
  <2>1. (a + v) % TableU64 = a + v - TableU64 BY <1>1, <1>2, <1>5
  <2>2. a + v - TableU64 < v BY <1>1, <1>2
  <2> QED BY <2>1, <2>2, <1>1, <1>2, <1>3
<1> QED BY <1>4, <1>5

(* The folders of a header are numbered from 0.                              *)
LEMMA ShapeFacts ==
  ASSUME HeaderShape(hdr)
  PROVE /\ NumFiles \in Nat /\ NumFolders \in Nat /\ hdr.sizes \in Seq(Sizes64)
        /\ hdr.folderSize \in [0 .. NumFolders - 1 -> Sizes64]
        /\ Table!Folders(hdr) = 0 .. NumFolders - 1
        /\ \A f \in 0 .. NumFolders - 1 : Table!Count(hdr, f) \in Nat
<1>1. PICK k \in Nat : /\ hdr.folderSize \in [0 .. k - 1 -> Sizes64]
                       /\ hdr.counts = Absent \/ hdr.counts \in [0 .. k - 1 -> Nat]
  BY DEF HeaderShape
<1>2. DOMAIN hdr.folderSize = 0 .. k - 1 BY <1>1
<1>3. Cardinality(0 .. k - 1) = k
  <2>1. 0 \in Int /\ k - 1 \in Int OBVIOUS
  <2>2. Cardinality(0 .. k - 1) = IF 0 > k - 1 THEN 0 ELSE (k - 1) - 0 + 1
    BY <2>1, FS_Interval
  <2> QED BY <2>2
<1>4. NumFolders = k
  <2>1. Table!Cardinality(0 .. k - 1) = Cardinality(0 .. k - 1)
    BY DEF Table!Cardinality, Cardinality
  <2> QED BY <2>1, <1>2, <1>3 DEF NumFolders, Table!NumFolders, Table!Folders
<1>5. \A f \in 0 .. k - 1 : Table!Count(hdr, f) \in Nat
  BY <1>1 DEF Table!Count
<1> QED BY <1>1, <1>2, <1>4, <1>5 DEF HeaderShape, NumFiles, Table!Folders

LEMMA TableFinds ==
  ASSUME TableInv, tablePc # "failed"
  PROVE /\ tablePc \in TablePcs /\ at \in AtSet /\ Tables(db)
        /\ AtPlace /\ PositionsGrow /\ EntriesInside
BY DEF TableInv

LEMMA TableStart ==
  ASSUME HeaderShape(hdr), Table!Init
  PROVE TableInv
<1>1. NumFiles \in Nat /\ NumFolders \in Nat BY ShapeFacts
<1>2. /\ tablePc = "check"
      /\ at = [i |-> 0, folder |-> 0, rem |-> 0, num |-> 0, pos |-> 0, size |-> 0,
               emptyFile |-> 0, digest |-> 0, val |-> 0]
  BY DEF Table!Init
<1>3. at \in AtSet
  <2>1. 0 \in Sizes64 /\ 0 \in 0 .. NumFiles /\ 0 \in 0 .. NumFolders
    BY <1>1, TableAssumption DEF Sizes64
  <2> QED BY <2>1, <1>2 DEF AtSet
<1>4. Tables(db)
  BY DEF Table!Init, Tables, NumFiles, NumFolders, Table!Entries
<1>5. at.i = 0 /\ at.folder = 0 /\ at.rem = 0 BY <1>2
<1>6. \A e \in 0 .. NumFiles : ~Placed(e) BY <1>1, <1>2, <1>5 DEF Placed
<1>7. \A f \in 0 .. NumFolders : ~Opened(f) BY <1>1, <1>2, <1>5 DEF Opened
<1>8. AtPlace BY <1>2, <1>5 DEF AtPlace
<1>9. PositionsGrow BY <1>6, <1>7 DEF PositionsGrow
<1>10. EntriesInside BY <1>1, <1>5 DEF EntriesInside
<1> QED BY <1>2, <1>3, <1>4, <1>8, <1>9, <1>10 DEF TableInv, TablePcs

(* Steps that change neither a place nor a table that matters here           *)
LEMMA TableSame ==
  ASSUME TableInv, tablePc # "failed", hdr' = hdr, at' = at, Tables(db)',
         db'.UnpackPositions = db.UnpackPositions, db'.FolderToFile = db.FolderToFile,
         db'.FileToFolder = db.FileToFolder,
         tablePc' = tablePc \/ (tablePc = "check" /\ tablePc' = "file")
  PROVE TableInv'
<1>1. NumFiles' = NumFiles /\ NumFolders' = NumFolders BY DEF NumFiles, NumFolders
<1>2. \A e : Placed(e)' <=> Placed(e) BY DEF Placed
<1>3. \A f : Opened(f)' <=> Opened(f) BY DEF Opened
<1>4. /\ \A e : Position(e)' = Position(e) /\ FolderOf(e)' = FolderOf(e)
      /\ \A f : FirstFile(f)' = FirstFile(f)
  BY DEF Position, FolderOf, FirstFile
<1>5. \A e : EndOf(e)' = EndOf(e) BY <1>2, <1>4 DEF EndOf
<1>6. AtPlace' BY <1>1, TableFinds DEF AtPlace
<1>7. PositionsGrow' BY <1>1, <1>2, <1>3, <1>4, TableFinds DEF PositionsGrow
<1>8. EntriesInside' BY <1>1, <1>3, <1>4, <1>5, TableFinds DEF EntriesInside
<1>9. at' \in AtSet' BY <1>1, TableFinds DEF AtSet
<1>10. tablePc' \in TablePcs BY TableFinds DEF TablePcs
<1> QED BY <1>6, <1>7, <1>8, <1>9, <1>10 DEF TableInv

LEMMA TableFails ==
  ASSUME tablePc' = "failed"
  PROVE TableInv'
BY DEF TableInv

LEMMA CheckKeeps ==
  ASSUME TableInv, Table!Check
  PROVE TableInv'
<1>1. /\ tablePc = "check" /\ hdr' = hdr /\ at' = at /\ db' = db
      /\ tablePc' \in {"file", "failed"}
  BY DEF Table!Check, Table!Step
<1>2. CASE tablePc' = "file"
  <2>1. Tables(db)' BY <1>1, TableFinds DEF Tables, NumFiles, NumFolders
  <2> QED BY <2>1, <1>1, <1>2, TableSame
<1> QED BY <1>1, <1>2, TableFails

LEMMA FlushByteKeeps ==
  ASSUME TableInv, Table!FlushByte
  PROVE TableInv'
<1>1. /\ tablePc = "file" /\ tablePc' = "file" /\ hdr' = hdr /\ at' = at
      /\ db' = [db EXCEPT !.IsDirs[Table!ByteOf(at.i - 1)] = mask.dirs,
                          !.CrcDefs[Table!ByteOf(at.i - 1)] = mask.crcs]
  BY DEF Table!FlushByte, Table!Step
<1>2. Tables(db) BY <1>1, TableFinds
<1>3. /\ db'.UnpackPositions = db.UnpackPositions
      /\ db'.FolderToFile = db.FolderToFile /\ db'.FileToFolder = db.FileToFolder
      /\ Tables(db)'
  BY <1>1, <1>2 DEF Tables, NumFiles, NumFolders
<1> QED BY <1>1, <1>3, TableSame

(* The fields of at                                                          *)
LEMMA AtFields ==
  ASSUME HeaderShape(hdr), TableInv, tablePc # "failed"
  PROVE /\ NumFiles \in Nat /\ NumFolders \in Nat
        /\ at.i \in Nat /\ at.i <= NumFiles /\ at.folder \in Nat /\ at.folder <= NumFolders
        /\ at.rem \in Nat /\ at.num \in Nat /\ at.pos \in Sizes64 /\ at.pos \in Nat
        /\ at.size \in Nat /\ at.emptyFile \in Nat /\ at.digest \in Nat /\ at.val \in Nat
<1>1. NumFiles \in Nat /\ NumFolders \in Nat BY ShapeFacts
<1>2. at \in AtSet BY TableFinds
<1>3. /\ at.i \in 0 .. NumFiles /\ at.folder \in 0 .. NumFolders
      /\ at.rem \in Nat /\ at.num \in Nat /\ at.pos \in Sizes64
      /\ at.size \in Nat /\ at.emptyFile \in Nat /\ at.digest \in Nat /\ at.val \in Nat
  BY <1>2 DEF AtSet
<1>4. at.pos \in Nat
  <2>1. PICK x \in Sizes64 : x = at.pos BY <1>3
  <2>2. x \in Nat BY TableAssumption DEF Sizes64
  <2> QED BY <2>1, <2>2
<1>5. at.i \in Nat /\ at.i <= NumFiles /\ at.folder \in Nat /\ at.folder <= NumFolders
  <2>1. PICK x \in 0 .. NumFiles : x = at.i BY <1>3
  <2>2. PICK y \in 0 .. NumFolders : y = at.folder BY <1>3
  <2> QED BY <2>1, <2>2, <1>1
<1> QED BY <1>1, <1>3, <1>4, <1>5

(* The invariant after a step that goes on                                   *)
LEMMA TableGoesOn ==
  ASSUME tablePc' \in TablePcs, at' \in AtSet', Tables(db)', AtPlace', PositionsGrow',
         EntriesInside'
  PROVE TableInv'
BY DEF TableInv

(* What every step that goes on does: entries that are placed stay there,    *)
(* the next one is placed where the reading stands, which only moves ahead,   *)
(* and a folder is left at its end.                                          *)
TableMoves ==
  /\ hdr' = hdr /\ at'.i \in Nat /\ at'.i <= NumFiles
  /\ at'.i = at.i \/ at'.i = at.i + 1
  /\ at'.pos \in Sizes64 /\ at.pos <= at'.pos
  /\ \A e \in 0 .. NumFiles :
       Placed(e) => Placed(e)' /\ Position(e)' = Position(e)
  /\ \A e \in 0 .. NumFiles :
       Placed(e)' => Placed(e) \/ (e = at.i /\ Position(e)' = at.pos)
  /\ \A e \in 0 .. NumFiles :
       e = at.i => Placed(e) \/ Placed(e)' \/ at'.pos = at.pos
  /\ \A f \in 0 .. NumFolders :
       Opened(f) => Opened(f)' /\ FirstFile(f)' = FirstFile(f)
  /\ \A f \in 0 .. NumFolders :
       Opened(f)' => Opened(f) \/ \E e \in 0 .. NumFiles :
                                    e = at.i /\ FirstFile(f)' = e /\ Placed(e)'
  /\ \A e \in 0 .. NumFiles - 1 : e < at.i => FolderOf(e)' = FolderOf(e)
  /\ \A e \in 0 .. NumFiles - 1 : e = at.i /\ at'.i = at.i + 1 =>
       FolderOf(e)' = NoFolderIndex \/ (at.rem > 0 /\ FolderOf(e)' = at.folder)
  /\ \/ at'.folder = at.folder
     \/ at'.folder = at.folder + 1 /\ at.rem = 0
     \/ /\ at'.folder = at.folder + 1
        /\ at'.pos = Position(FirstFile(at.folder)) + hdr.folderSize[at.folder]

(* The places before a step                                                  *)
LEMMA PlaceFacts ==
  ASSUME HeaderShape(hdr), TableInv, tablePc \notin {"failed", "done"}
  PROVE /\ \A e \in 0 .. NumFiles : Placed(e) => e <= at.i
        /\ \A e \in 0 .. NumFiles : e < at.i => Placed(e)
        /\ \A f \in 0 .. NumFolders : Opened(f) => f <= at.folder
        /\ at.rem = 0 => ~Opened(at.folder)
        /\ at.rem > 0 => Opened(at.folder) /\ at.folder \in 0 .. NumFolders - 1
<1>1. /\ NumFiles \in Nat /\ NumFolders \in Nat /\ at.i \in Nat /\ at.i <= NumFiles
      /\ at.folder \in Nat /\ at.folder <= NumFolders /\ at.rem \in Nat
  BY AtFields
<1>2. AtPlace BY TableFinds
<1> QED BY <1>1, <1>2 DEF Placed, Opened, AtPlace

LEMMA PositionsMove ==
  ASSUME HeaderShape(hdr), TableInv, tablePc \notin {"failed", "done"}, TableMoves
  PROVE PositionsGrow'
<1>1. /\ NumFiles \in Nat /\ NumFolders \in Nat /\ at.i \in Nat /\ at.i <= NumFiles
      /\ at.pos \in Sizes64 /\ at.pos \in Nat
  BY AtFields
<1>2. NumFiles' = NumFiles /\ NumFolders' = NumFolders /\ Sizes64' = Sizes64
  BY DEF TableMoves, NumFiles, NumFolders, Sizes64
<1>3. \A x \in Sizes64 : x \in Nat BY TableAssumption DEF Sizes64
<1>4. at'.pos \in Sizes64 /\ at'.pos \in Nat /\ at.pos <= at'.pos BY <1>3 DEF TableMoves
<1>5. PositionsGrow BY TableFinds
<1>6. ASSUME NEW e \in 0 .. NumFiles, Placed(e)'
      PROVE  (Placed(e) /\ Position(e)' = Position(e))
               \/ (e = at.i /\ ~Placed(e) /\ Position(e)' = at.pos)
  BY <1>6 DEF TableMoves
<1>7. ASSUME NEW e \in 0 .. NumFiles, Placed(e)
      PROVE  Position(e) \in Sizes64 /\ Position(e) \in Nat /\ Position(e) <= at.pos
  BY <1>3, <1>5, <1>7 DEF PositionsGrow
<1>8. ASSUME NEW e \in 0 .. NumFiles, Placed(e)'
      PROVE  Position(e)' \in Sizes64 /\ Position(e)' <= at'.pos
  <2>1. CASE Placed(e) /\ Position(e)' = Position(e) BY <2>1, <1>1, <1>4, <1>7
  <2>2. CASE Position(e)' = at.pos BY <2>2, <1>1, <1>4
  <2> QED BY <1>6, <1>8, <2>1, <2>2
<1>9. ASSUME NEW d \in 0 .. NumFiles, NEW e \in 0 .. NumFiles, d <= e, Placed(e)'
      PROVE  Position(d)' <= Position(e)'
  <2>1. e <= at.i BY <1>6, <1>9, PlaceFacts, <1>1
  <2>2. CASE d = e
    <3>1. Position(e)' \in Nat BY <1>3, <1>8, <1>9
    <3> QED BY <3>1, <2>2
  <2>3. CASE d # e
    <3>1. d < at.i BY <2>1, <2>3, <1>1, <1>9
    <3>2. Placed(d) BY <3>1, PlaceFacts
    <3>3. Position(d)' = Position(d) BY <3>2 DEF TableMoves
    <3>4. CASE Placed(e) /\ Position(e)' = Position(e)
      BY <3>3, <3>4, <1>5, <1>9 DEF PositionsGrow
    <3>5. CASE Position(e)' = at.pos BY <3>2, <3>3, <3>5, <1>7
    <3> QED BY <3>4, <3>5, <1>6, <1>9
  <2> QED BY <2>2, <2>3
<1>10. ASSUME NEW f \in 0 .. NumFolders, Opened(f)'
       PROVE  FirstFile(f)' \in 0 .. NumFiles
                /\ \E x \in 0 .. NumFiles : x = FirstFile(f)' /\ Placed(x)'
  <2>1. CASE Opened(f)
    <3>1. FirstFile(f)' = FirstFile(f) BY <2>1 DEF TableMoves
    <3>2. FirstFile(f) \in 0 .. NumFiles /\ Placed(FirstFile(f))
      BY <2>1, <1>5 DEF PositionsGrow
    <3>3. PICK x \in 0 .. NumFiles : x = FirstFile(f) /\ Placed(x) BY <3>2
    <3>4. Placed(x)' BY <3>3 DEF TableMoves
    <3> QED BY <3>1, <3>3, <3>4
  <2>2. ASSUME NEW e \in 0 .. NumFiles, FirstFile(f)' = e, Placed(e)'
        PROVE  FirstFile(f)' \in 0 .. NumFiles
                 /\ \E x \in 0 .. NumFiles : x = FirstFile(f)' /\ Placed(x)'
    BY <2>2
  <2> QED BY <2>1, <2>2, <1>10 DEF TableMoves
<1> QED BY <1>2, <1>8, <1>9, <1>10 DEF PositionsGrow

(* The end of an entry that is through stays                                 *)
LEMMA EndStays ==
  ASSUME HeaderShape(hdr), TableInv, tablePc \notin {"failed", "done"}, TableMoves,
         NEW e \in 0 .. NumFiles - 1, e < at.i
  PROVE /\ EndOf(e)' = EndOf(e) /\ e + 1 \in 0 .. NumFiles
        /\ EndOf(e) \in Nat /\ EndOf(e) <= at.pos
<1>1. /\ NumFiles \in Nat /\ at.i \in Nat /\ at.i <= NumFiles /\ at.pos \in Nat
  BY AtFields
<1>2. NumFiles' = NumFiles BY DEF TableMoves, NumFiles
<1>3. \A x \in Sizes64 : x \in Nat BY TableAssumption DEF Sizes64
<1>5. PositionsGrow BY TableFinds
<1> QED
  <2>1. PICK y \in 0 .. NumFiles : y = e + 1 BY <1>1
  <2>2. y <= at.i BY <2>1, <1>1
  <2>3. CASE Placed(y)
    <3>1. Placed(y)' /\ Position(y)' = Position(y) BY <2>3 DEF TableMoves
    <3>2. Position(y) \in Sizes64 /\ Position(y) <= at.pos
      BY <2>3, <1>5 DEF PositionsGrow
    <3>3. EndOf(e) = Position(y) BY <2>1, <2>3 DEF EndOf
    <3>4. EndOf(e)' = Position(y)' BY <2>1, <3>1, <1>2 DEF EndOf, Placed, Position
    <3> QED BY <2>1, <3>1, <3>2, <3>3, <3>4, <1>3
  <2>4. CASE ~Placed(y)
    <3>1. y = at.i BY <2>2, <2>4, PlaceFacts, <1>1
    <3>2. EndOf(e) = at.pos BY <2>1, <2>4 DEF EndOf
    <3>3. CASE Placed(y)'
      <4>1. Position(y)' = at.pos BY <2>4, <3>3 DEF TableMoves
      <4>2. EndOf(e)' = Position(y)' BY <2>1, <3>3 DEF EndOf, Placed, Position
      <4> QED BY <2>1, <3>2, <4>1, <4>2, <1>1
    <3>4. CASE ~Placed(y)'
      <4>2. at'.pos = at.pos BY <2>4, <3>1, <3>4 DEF TableMoves
      <4>3. EndOf(e)' = at'.pos BY <2>1, <3>4 DEF EndOf, Placed
      <4> QED BY <2>1, <3>2, <4>2, <4>3, <1>1
    <3> QED BY <3>3, <3>4
  <2> QED BY <2>3, <2>4

(* ... and so does the place of a folder that begins at e or before.         *)
LEMMA StartStays ==
  ASSUME HeaderShape(hdr), TableInv, tablePc \notin {"failed", "done"}, TableMoves,
         NEW f \in 0 .. NumFolders - 1, Opened(f)
  PROVE /\ Opened(f)' /\ FirstFile(f)' = FirstFile(f)
        /\ FirstFile(f) \in 0 .. NumFiles /\ FirstFile(f) <= at.i
        /\ Position(FirstFile(f)) \in Nat
        /\ Position(FirstFile(f))' = Position(FirstFile(f))
<1>1. NumFolders \in Nat BY AtFields
<1>3. \A x \in Sizes64 : x \in Nat BY TableAssumption DEF Sizes64
<1>5. PositionsGrow BY TableFinds
<1> QED
  <2>1. PICK g \in 0 .. NumFolders : g = f BY <1>1
  <2>2. Opened(g)' /\ FirstFile(g)' = FirstFile(g) BY <2>1 DEF TableMoves
  <2>3. FirstFile(g) \in 0 .. NumFiles /\ Placed(FirstFile(g))
    BY <1>5, <2>1 DEF PositionsGrow
  <2>4. PICK x \in 0 .. NumFiles : x = FirstFile(g) /\ Placed(x) BY <2>3
  <2>5. x <= at.i BY <2>4, PlaceFacts
  <2>6. Position(x) \in Nat BY <2>4, <1>3, <1>5 DEF PositionsGrow
  <2>7. Position(x)' = Position(x) BY <2>4 DEF TableMoves
  <2>8. Position(FirstFile(f))' = Position(x)'
    BY <2>1, <2>2, <2>4 DEF Position, FirstFile
  <2> QED BY <2>1, <2>2, <2>4, <2>5, <2>6, <2>7, <2>8

LEMMA EntriesMove ==
  ASSUME HeaderShape(hdr), TableInv, tablePc \notin {"failed", "done"}, TableMoves
  PROVE EntriesInside'
<1>1. /\ NumFiles \in Nat /\ NumFolders \in Nat /\ at.i \in Nat /\ at.i <= NumFiles
      /\ at.folder \in Nat /\ at.folder <= NumFolders /\ at.rem \in Nat
      /\ at.pos \in Sizes64 /\ at.pos \in Nat
  BY AtFields
<1>2. NumFiles' = NumFiles /\ NumFolders' = NumFolders /\ hdr' = hdr
  BY DEF TableMoves, NumFiles, NumFolders
<1>3. \A x \in Sizes64 : x \in Nat BY TableAssumption DEF Sizes64
<1>4. at'.pos \in Nat /\ at.pos <= at'.pos BY <1>3 DEF TableMoves
<1>5. PositionsGrow /\ EntriesInside BY TableFinds
<1>6. hdr.folderSize \in [0 .. NumFolders - 1 -> Sizes64] BY ShapeFacts
<1>7. /\ at'.i = at.i \/ at'.i = at.i + 1
      /\ at'.i \in Nat /\ at'.i <= NumFiles
      /\ at'.folder = at.folder \/ at'.folder = at.folder + 1
  BY DEF TableMoves
<1>8. ASSUME NEW x, x = at.i + 1, at'.i = at.i + 1
      PROVE  ~Placed(x)'
  <2>1. PICK y \in 0 .. NumFiles : y = x BY <1>1, <1>7, <1>8
  <2>2. ~Placed(y) BY <2>1, PlaceFacts, <1>1, <1>8
  <2>3. ~(Placed(y)') BY <2>1, <2>2, <1>1, <1>8 DEF TableMoves
  <2> QED BY <2>1, <2>3
<1>9. ASSUME NEW e \in 0 .. NumFiles - 1, e < at.i
      PROVE  /\ EndOf(e)' = EndOf(e) /\ e + 1 \in 0 .. NumFiles
             /\ EndOf(e) \in Nat /\ EndOf(e) <= at.pos
  BY <1>9, EndStays
<1>10. ASSUME NEW e \in 0 .. NumFiles - 1, e < at'.i
       PROVE  EndOf(e)' \in Nat /\ EndOf(e)' <= at'.pos
  <2>1. CASE e < at.i BY <2>1, <1>9, <1>1, <1>4
  <2>2. CASE ~(e < at.i)
    <3>1. e = at.i /\ at'.i = at.i + 1 BY <2>2, <1>1, <1>7, <1>10
    <3>3. ~Placed(e + 1)' BY <3>1, <1>8 DEF Placed
    <3>4. EndOf(e)' = at'.pos BY <3>3 DEF EndOf, Placed
    <3> QED BY <3>4, <1>4
  <2> QED BY <2>1, <2>2
(* A folder that is opened                                                   *)
<1>11. ASSUME NEW f \in 0 .. NumFolders - 1, Opened(f)
       PROVE  /\ Opened(f)' /\ FirstFile(f)' = FirstFile(f)
              /\ FirstFile(f) \in 0 .. NumFiles /\ FirstFile(f) <= at.i
              /\ Position(FirstFile(f)) \in Nat
              /\ Position(FirstFile(f))' = Position(FirstFile(f))
  BY <1>11, StartStays
(* ... and is left                                                           *)
<1>12. ASSUME NEW f \in 0 .. NumFolders - 1, Opened(f), ~(f < at.folder), f < at'.folder
       PROVE  at'.pos = Position(FirstFile(f)) + hdr.folderSize[f]
  <2>1. f <= at.folder /\ f \in Nat
    <3>1. PICK g \in 0 .. NumFolders : g = f BY <1>1
    <3> QED BY <3>1, <1>12, PlaceFacts
  <2>2. f = at.folder /\ at'.folder = at.folder + 1 BY <2>1, <1>1, <1>7, <1>12
  <2>3. at.rem # 0 BY <2>2, <1>12, PlaceFacts
  <2> QED BY <2>2, <2>3, <1>1 DEF TableMoves
<1>13. ASSUME NEW e \in 0 .. NumFiles - 1, e < at'.i, FolderOf(e)' # NoFolderIndex
       PROVE  /\ FolderOf(e)' \in 0 .. NumFolders - 1 /\ Opened(FolderOf(e)')
              /\ FirstFile(FolderOf(e)') <= e
              /\ FolderOf(e)' < at.folder => e < at.i
                   /\ EndOf(e) <= Position(FirstFile(FolderOf(e)'))
                                    + hdr.folderSize[FolderOf(e)']
  <2>1. CASE e < at.i
    <3>1. FolderOf(e)' = FolderOf(e) BY <2>1 DEF TableMoves
    <3> QED BY <2>1, <3>1, <1>5, <1>13 DEF EntriesInside
  <2>2. CASE ~(e < at.i)
    <3>1. e = at.i /\ at'.i = at.i + 1 BY <2>2, <1>1, <1>7, <1>13
    <3>3. at.rem > 0 /\ FolderOf(e)' = at.folder BY <3>1, <1>13 DEF TableMoves
    <3>4. Opened(at.folder) /\ at.folder \in 0 .. NumFolders - 1 BY <3>3, PlaceFacts
    <3>5. FirstFile(at.folder) <= at.i BY <3>4, <1>11
    <3> QED BY <3>1, <3>3, <3>4, <3>5, <1>1
  <2> QED BY <2>1, <2>2
<1>14. ASSUME NEW e \in 0 .. NumFiles - 1, e < at'.i, FolderOf(e)' # NoFolderIndex,
              NEW f, f = FolderOf(e)'
       PROVE  /\ f \in 0 .. NumFolders - 1 /\ Opened(f)'
              /\ FirstFile(f)' <= e
              /\ f < at'.folder =>
                   EndOf(e)' <= Position(FirstFile(f))' + hdr.folderSize[f]
  <2>1. f \in 0 .. NumFolders - 1 /\ Opened(f) /\ FirstFile(f) <= e BY <1>13, <1>14
  <2>2. /\ Opened(f)' /\ FirstFile(f)' = FirstFile(f) /\ Position(FirstFile(f)) \in Nat
        /\ Position(FirstFile(f))' = Position(FirstFile(f))
    BY <2>1, <1>11
  <2>3. CASE f < at.folder
    <3>1. e < at.i /\ EndOf(e) <= Position(FirstFile(f)) + hdr.folderSize[f]
      BY <2>3, <1>13, <1>14
    <3>2. EndOf(e)' = EndOf(e) BY <3>1, <1>9
    <3> QED BY <2>1, <2>2, <3>1, <3>2
  <2>4. CASE ~(f < at.folder)
    <3>1. EndOf(e)' <= at'.pos BY <1>10, <1>14
    <3>2. f < at'.folder => at'.pos = Position(FirstFile(f)) + hdr.folderSize[f]
      BY <2>1, <2>4, <1>12
    <3> QED BY <2>1, <2>2, <3>1, <3>2
  <2> QED BY <2>3, <2>4
<1>15. ASSUME NEW e \in 0 .. NumFiles - 1, e < at'.i, FolderOf(e)' # NoFolderIndex
       PROVE  (/\ FolderOf(e) \in 0 .. NumFolders - 1 /\ Opened(FolderOf(e))
               /\ FirstFile(FolderOf(e)) <= e
               /\ FolderOf(e) < at.folder =>
                    EndOf(e) <= Position(FirstFile(FolderOf(e)))
                                  + hdr.folderSize[FolderOf(e)])'
  <2>1. PICK f : f = FolderOf(e)' OBVIOUS
  <2>2. Opened(f)' <=> Opened(FolderOf(e))' BY <2>1 DEF Opened
  <2>3. FirstFile(f)' = FirstFile(FolderOf(e))' BY <2>1 DEF FirstFile
  <2>4. Position(FirstFile(f))' = Position(FirstFile(FolderOf(e)))'
    BY <2>1 DEF FirstFile, Position
  <2> QED BY <2>1, <2>2, <2>3, <2>4, <1>2, <1>14, <1>15
<1> QED BY <1>2, <1>15 DEF EntriesInside

LEMMA TableKept ==
  ASSUME HeaderShape(hdr), TableInv, tablePc \notin {"failed", "done"}, TableMoves,
         tablePc' \in TablePcs, at' \in AtSet, Tables(db)', AtPlace'
  PROVE TableInv'
<1>1. AtSet' = AtSet BY DEF AtSet, TableMoves, NumFiles, NumFolders, Sizes64
<1> QED BY <1>1, PositionsMove, EntriesMove, TableGoesOn

(* The tables after the head of the loop, which places the entry             *)
LEMMA EntryBegunIs ==
  ASSUME Tables(db)
  PROVE Table!EntryBegun =
          [UnpackPositions |-> [db.UnpackPositions EXCEPT ![at.i] = at.pos],
           FolderToFile |-> db.FolderToFile, FileToFolder |-> db.FileToFolder,
           IsDirs |-> db.IsDirs, CrcDefs |-> db.CrcDefs,
           CrcVals |-> [db.CrcVals EXCEPT ![at.i] = Table!NoCrc]]
<1> DEFINE P == [db.UnpackPositions EXCEPT ![at.i] = at.pos]
           C == [db.CrcVals EXCEPT ![at.i] = Table!NoCrc]
           b == Table!EntryBegun
<1>1. b = [db EXCEPT !.UnpackPositions = P, !.CrcVals = C] BY DEF Table!EntryBegun
<1> HIDE DEF P, C, b
<1>2. b = [UnpackPositions |-> P, FolderToFile |-> db.FolderToFile,
           FileToFolder |-> db.FileToFolder, IsDirs |-> db.IsDirs,
           CrcDefs |-> db.CrcDefs, CrcVals |-> C]
  BY <1>1 DEF Tables
<1> QED BY <1>2 DEF P, C, b

(* What an entry without a stream does to the tables                         *)
LEMMA EmptyEntryDoes ==
  ASSUME HeaderShape(hdr), TableInv, Table!EmptyEntry
  PROVE /\ tablePc = "file" /\ tablePc' = "file" /\ hdr' = hdr /\ at.i < NumFiles
        /\ at' \in AtSet /\ at'.i = at.i + 1 /\ at'.folder = at.folder
        /\ at'.rem = at.rem /\ at'.num = at.num /\ at'.pos = at.pos /\ at'.size = at.size
        /\ at'.digest = at.digest /\ at'.val = at.val
        /\ at'.emptyFile = IF hdr.emptyFiles = Absent THEN at.emptyFile ELSE at.emptyFile + 1
        /\ Tables(db)' /\ db'.IsDirs = db.IsDirs /\ db'.CrcDefs = db.CrcDefs
        /\ db'.CrcVals = [db.CrcVals EXCEPT ![at.i] = Table!NoCrc]
        /\ \A e \in 0 .. NumFiles : Position(e)' = IF e = at.i THEN at.pos ELSE Position(e)
        /\ \A f : FirstFile(f)' = FirstFile(f)
        /\ TableMoves /\ AtPlace'
<1> DEFINE x == IF at.rem = 0 THEN NoFolderIndex ELSE at.folder
           n == IF hdr.emptyFiles = Absent THEN at.emptyFile ELSE at.emptyFile + 1
           j == at.i + 1
           P == [db.UnpackPositions EXCEPT ![at.i] = at.pos]
           C == [db.CrcVals EXCEPT ![at.i] = Table!NoCrc]
           F == [db.FileToFolder EXCEPT ![at.i] = x]
<1>1. /\ tablePc = "file" /\ tablePc' = "file" /\ hdr' = hdr /\ at.i < NumFiles
      /\ at' = [at EXCEPT !.i = j, !.emptyFile = n]
      /\ db' = [Table!EntryBegun EXCEPT !.FileToFolder[at.i] = x]
  BY DEF Table!EmptyEntry, Table!AtEntry, Table!Step, NumFiles
<1>2. /\ NumFiles \in Nat /\ NumFolders \in Nat
      /\ at.i \in Nat /\ at.i <= NumFiles /\ at.folder \in Nat /\ at.folder <= NumFolders
      /\ at.rem \in Nat /\ at.pos \in Sizes64 /\ at.pos \in Nat /\ at.emptyFile \in Nat
  BY <1>1, AtFields
<1>3. at \in AtSet /\ Tables(db) /\ AtPlace BY <1>1, TableFinds
<1>4. NumFiles' = NumFiles /\ NumFolders' = NumFolders BY <1>1 DEF NumFiles, NumFolders
<1>5. /\ at' \in AtSet /\ at'.i = at.i + 1 /\ at'.folder = at.folder
      /\ at'.rem = at.rem /\ at'.num = at.num /\ at'.pos = at.pos /\ at'.size = at.size
      /\ at'.digest = at.digest /\ at'.val = at.val /\ at'.emptyFile = n
  <2>1. n \in Nat /\ j \in 0 .. NumFiles BY <1>1, <1>2
  <2>2. at' = [at EXCEPT !.i = j, !.emptyFile = n] BY <1>1
  <2> HIDE DEF n, j
  <2>3. /\ at' \in AtSet /\ at'.i = j /\ at'.folder = at.folder
        /\ at'.rem = at.rem /\ at'.num = at.num /\ at'.pos = at.pos /\ at'.size = at.size
        /\ at'.digest = at.digest /\ at'.val = at.val /\ at'.emptyFile = n
    BY <2>1, <2>2, <1>3 DEF AtSet
  <2> QED BY <2>3 DEF j
<1>6. db' = [UnpackPositions |-> P, FolderToFile |-> db.FolderToFile,
             FileToFolder |-> F, IsDirs |-> db.IsDirs,
             CrcDefs |-> db.CrcDefs, CrcVals |-> C]
  <2> DEFINE b == Table!EntryBegun
  <2>1. b = [UnpackPositions |-> P, FolderToFile |-> db.FolderToFile,
             FileToFolder |-> db.FileToFolder, IsDirs |-> db.IsDirs,
             CrcDefs |-> db.CrcDefs, CrcVals |-> C]
    BY <1>3, EntryBegunIs
  <2>2. db' = [b EXCEPT !.FileToFolder[at.i] = x] BY <1>1
  <2> HIDE DEF b, P, C, x
  <2> QED BY <2>1, <2>2
<1>7. /\ DOMAIN db.UnpackPositions = 0 .. NumFiles
      /\ DOMAIN db.FolderToFile = 0 .. NumFolders
      /\ DOMAIN db.FileToFolder = 0 .. NumFiles - 1
  BY <1>3 DEF Tables
<1>8. /\ db'.UnpackPositions = P /\ db'.FolderToFile = db.FolderToFile
      /\ db'.FileToFolder = F /\ Tables(db)'
      /\ db'.IsDirs = db.IsDirs /\ db'.CrcDefs = db.CrcDefs /\ db'.CrcVals = C
  <2>1. DOMAIN P = 0 .. NumFiles /\ DOMAIN F = 0 .. NumFiles - 1 BY <1>7
  <2> HIDE DEF P, F, C
  <2> QED BY <2>1, <1>4, <1>6, <1>7 DEF Tables
<1>9. \A e \in 0 .. NumFiles : (Placed(e) <=> e < at.i) /\ (Placed(e)' <=> e < at.i + 1)
  BY <1>1, <1>2, <1>5 DEF Placed
<1>10. \A e \in 0 .. NumFiles : Position(e)' = IF e = at.i THEN at.pos ELSE Position(e)
  BY <1>7, <1>8 DEF Position
<1>11. \A e \in 0 .. NumFiles - 1 : FolderOf(e)' = IF e = at.i THEN x ELSE FolderOf(e)
  BY <1>7, <1>8 DEF FolderOf
<1>12. \A f : FirstFile(f)' = FirstFile(f) BY <1>8 DEF FirstFile
<1>13. \A f : Opened(f)' <=> Opened(f) BY <1>1, <1>5 DEF Opened
<1>14. TableMoves
  BY <1>1, <1>2, <1>5, <1>9, <1>10, <1>11, <1>12, <1>13 DEF TableMoves
<1>15. AtPlace' BY <1>1, <1>3, <1>4, <1>5 DEF AtPlace
<1> QED BY <1>1, <1>5, <1>8, <1>10, <1>12, <1>14, <1>15

LEMMA EmptyEntryKeeps ==
  ASSUME HeaderShape(hdr), TableInv, Table!EmptyEntry
  PROVE TableInv'
<1>1. "file" \in TablePcs BY DEF TablePcs
<1> QED BY <1>1, EmptyEntryDoes, TableKept

(* What the head of the loop does for an entry with data                     *)
LEMMA DataEntryDoes ==
  ASSUME HeaderShape(hdr), TableInv, Table!DataEntry
  PROVE /\ tablePc = "file" /\ tablePc' = IF at.rem = 0 THEN "folder" ELSE "stream"
        /\ hdr' = hdr /\ at.i < NumFiles /\ at' = at /\ at' \in AtSet
        /\ Tables(db)' /\ db'.IsDirs = db.IsDirs /\ db'.CrcDefs = db.CrcDefs
        /\ db'.CrcVals = [db.CrcVals EXCEPT ![at.i] = Table!NoCrc]
        /\ \A e \in 0 .. NumFiles : Position(e)' = IF e = at.i THEN at.pos ELSE Position(e)
        /\ \A f : FirstFile(f)' = FirstFile(f)
        /\ TableMoves /\ AtPlace'
<1> DEFINE P == [db.UnpackPositions EXCEPT ![at.i] = at.pos]
           C == [db.CrcVals EXCEPT ![at.i] = Table!NoCrc]
<1>1. /\ tablePc = "file" /\ tablePc' = IF at.rem = 0 THEN "folder" ELSE "stream"
      /\ hdr' = hdr /\ at.i < NumFiles /\ at' = at /\ db' = Table!EntryBegun
  BY DEF Table!DataEntry, Table!AtEntry, Table!Step, NumFiles
<1>2. /\ NumFiles \in Nat /\ NumFolders \in Nat
      /\ at.i \in Nat /\ at.i <= NumFiles /\ at.folder \in Nat /\ at.folder <= NumFolders
      /\ at.rem \in Nat /\ at.pos \in Sizes64 /\ at.pos \in Nat
  BY <1>1, AtFields
<1>3. at \in AtSet /\ Tables(db) /\ AtPlace BY <1>1, TableFinds
<1>4. NumFiles' = NumFiles /\ NumFolders' = NumFolders BY <1>1 DEF NumFiles, NumFolders
<1>6. db' = [UnpackPositions |-> P, FolderToFile |-> db.FolderToFile,
             FileToFolder |-> db.FileToFolder, IsDirs |-> db.IsDirs,
             CrcDefs |-> db.CrcDefs, CrcVals |-> C]
  BY <1>1, <1>3, EntryBegunIs
<1>7. /\ DOMAIN db.UnpackPositions = 0 .. NumFiles
      /\ DOMAIN db.FolderToFile = 0 .. NumFolders
      /\ DOMAIN db.FileToFolder = 0 .. NumFiles - 1
  BY <1>3 DEF Tables
<1>8. /\ db'.UnpackPositions = P /\ db'.FolderToFile = db.FolderToFile
      /\ db'.FileToFolder = db.FileToFolder /\ Tables(db)'
      /\ db'.IsDirs = db.IsDirs /\ db'.CrcDefs = db.CrcDefs /\ db'.CrcVals = C
  <2>1. DOMAIN P = 0 .. NumFiles BY <1>7
  <2> HIDE DEF P, C
  <2> QED BY <2>1, <1>4, <1>6, <1>7 DEF Tables
<1>9. \A e \in 0 .. NumFiles : (Placed(e) <=> e < at.i) /\ (Placed(e)' <=> e < at.i + 1)
  BY <1>1, <1>2 DEF Placed
<1>10. \A e \in 0 .. NumFiles : Position(e)' = IF e = at.i THEN at.pos ELSE Position(e)
  BY <1>7, <1>8 DEF Position
<1>11. \A e : FolderOf(e)' = FolderOf(e) BY <1>8 DEF FolderOf
<1>12. \A f : FirstFile(f)' = FirstFile(f) BY <1>8 DEF FirstFile
<1>13. \A f : Opened(f)' <=> Opened(f) BY <1>1 DEF Opened
<1>14. TableMoves
  BY <1>1, <1>2, <1>9, <1>10, <1>11, <1>12, <1>13 DEF TableMoves
<1>15. AtPlace' BY <1>1, <1>2, <1>3, <1>4 DEF AtPlace
<1>16. at' \in AtSet BY <1>1, <1>3
<1> QED BY <1>1, <1>8, <1>10, <1>12, <1>14, <1>15, <1>16

LEMMA DataEntryKeeps ==
  ASSUME HeaderShape(hdr), TableInv, Table!DataEntry
  PROVE TableInv'
<1>1. "folder" \in TablePcs /\ "stream" \in TablePcs BY DEF TablePcs
<1> QED BY <1>1, DataEntryDoes, TableKept

(* The tables of SzArEx_Extract after a folder is given its first entry      *)
LEMMA FolderWritten ==
  ASSUME HeaderShape(hdr), Tables(db), hdr' = hdr, at.folder \in 0 .. NumFolders,
         db' = [db EXCEPT !.FolderToFile[at.folder] = at.i]
  PROVE /\ Tables(db)' /\ db'.UnpackPositions = db.UnpackPositions
        /\ db'.FileToFolder = db.FileToFolder
        /\ db'.IsDirs = db.IsDirs /\ db'.CrcDefs = db.CrcDefs /\ db'.CrcVals = db.CrcVals
        /\ \A f \in 0 .. NumFolders : FirstFile(f)' = IF f = at.folder THEN at.i ELSE FirstFile(f)
<1> DEFINE T == [db.FolderToFile EXCEPT ![at.folder] = at.i]
<1>1. db' = [db EXCEPT !.FolderToFile = T] OBVIOUS
<1>2. /\ DOMAIN db.UnpackPositions = 0 .. NumFiles
      /\ DOMAIN db.FolderToFile = 0 .. NumFolders
      /\ DOMAIN db.FileToFolder = 0 .. NumFiles - 1
  BY DEF Tables
<1>3. NumFiles' = NumFiles /\ NumFolders' = NumFolders BY DEF NumFiles, NumFolders
<1>4. DOMAIN T = 0 .. NumFolders BY <1>2
<1>5. db' = [UnpackPositions |-> db.UnpackPositions, FolderToFile |-> T,
             FileToFolder |-> db.FileToFolder, IsDirs |-> db.IsDirs,
             CrcDefs |-> db.CrcDefs, CrcVals |-> db.CrcVals]
  <2> HIDE DEF T
  <2> QED BY <1>1 DEF Tables
<1>6. /\ Tables(db)' /\ db'.UnpackPositions = db.UnpackPositions
      /\ db'.FileToFolder = db.FileToFolder /\ db'.FolderToFile = T
      /\ db'.IsDirs = db.IsDirs /\ db'.CrcDefs = db.CrcDefs /\ db'.CrcVals = db.CrcVals
  <2> HIDE DEF T
  <2> QED BY <1>2, <1>3, <1>4, <1>5 DEF Tables
<1>7. ASSUME NEW f \in 0 .. NumFolders
      PROVE  FirstFile(f)' = IF f = at.folder THEN at.i ELSE FirstFile(f)
  <2>1. T[f] = IF f = at.folder THEN at.i ELSE db.FolderToFile[f] BY <1>2
  <2>2. db'.FolderToFile = T BY <1>6
  <2> HIDE DEF T
  <2> QED BY <2>1, <2>2 DEF FirstFile
<1> QED BY <1>6, <1>7

(* What opening a folder does                                                *)
LEMMA OpenFolderDoes ==
  ASSUME HeaderShape(hdr), TableInv, Table!OpenFolder
  PROVE /\ tablePc = "folder" /\ tablePc' = "stream" /\ hdr' = hdr /\ at.rem = 0
        /\ at.i < NumFiles /\ at.folder < NumFolders /\ Table!Count(hdr, at.folder) # 0
        /\ at' \in AtSet /\ at'.i = at.i /\ at'.folder = at.folder
        /\ at'.rem = Table!Count(hdr, at.folder) /\ at'.num = Table!Count(hdr, at.folder)
        /\ at'.pos = at.pos /\ at'.size = at.size
        /\ at'.digest = at.digest /\ at'.val = at.val /\ at'.emptyFile = at.emptyFile
        /\ Tables(db)'
        /\ db'.IsDirs = db.IsDirs /\ db'.CrcDefs = db.CrcDefs /\ db'.CrcVals = db.CrcVals
        /\ \A e : Position(e)' = Position(e)
        /\ \A f \in 0 .. NumFolders : FirstFile(f)' = IF f = at.folder THEN at.i ELSE FirstFile(f)
        /\ TableMoves /\ AtPlace'
<1> DEFINE c == Table!Count(hdr, at.folder)
<1>1. /\ tablePc = "folder" /\ tablePc' = "stream" /\ hdr' = hdr /\ at.folder < NumFolders
      /\ c # 0 /\ at' = [at EXCEPT !.num = c, !.rem = c]
      /\ db' = [db EXCEPT !.FolderToFile[at.folder] = at.i]
  BY DEF Table!OpenFolder, Table!Step, NumFolders
<1>2. /\ NumFiles \in Nat /\ NumFolders \in Nat
      /\ at.i \in Nat /\ at.i <= NumFiles /\ at.folder \in Nat /\ at.folder <= NumFolders
      /\ at.rem \in Nat /\ at.pos \in Sizes64 /\ at.pos \in Nat
  BY <1>1, AtFields
<1>3. at \in AtSet /\ Tables(db) /\ AtPlace BY <1>1, TableFinds
<1>4. at.rem = 0 /\ at.i < NumFiles BY <1>1, <1>3 DEF AtPlace
<1>5. at.folder \in 0 .. NumFolders - 1 /\ at.folder \in 0 .. NumFolders BY <1>1, <1>2
<1>6. c \in Nat BY <1>5, ShapeFacts
<1>7. /\ at' \in AtSet /\ at'.i = at.i /\ at'.folder = at.folder
      /\ at'.rem = c /\ at'.num = c /\ at'.pos = at.pos /\ at'.size = at.size
      /\ at'.digest = at.digest /\ at'.val = at.val /\ at'.emptyFile = at.emptyFile
  <2> HIDE DEF c
  <2> QED BY <1>1, <1>3, <1>6 DEF AtSet
<1>8. /\ Tables(db)' /\ db'.UnpackPositions = db.UnpackPositions
      /\ db'.FileToFolder = db.FileToFolder
      /\ db'.IsDirs = db.IsDirs /\ db'.CrcDefs = db.CrcDefs /\ db'.CrcVals = db.CrcVals
      /\ \A f \in 0 .. NumFolders : FirstFile(f)' = IF f = at.folder THEN at.i ELSE FirstFile(f)
  BY <1>1, <1>3, <1>5, FolderWritten
<1> HIDE DEF c
<1>9. \A e \in 0 .. NumFiles : (Placed(e) <=> e <= at.i) /\ (Placed(e)' <=> e <= at.i)
  BY <1>1, <1>2, <1>7 DEF Placed
<1>10. \A e : Position(e)' = Position(e) /\ FolderOf(e)' = FolderOf(e)
  BY <1>8 DEF Position, FolderOf
<1>11. \A f \in 0 .. NumFolders :
         (Opened(f) <=> f < at.folder) /\ (Opened(f)' <=> f <= at.folder)
  BY <1>1, <1>2, <1>4, <1>6, <1>7 DEF Opened
<1>12. TableMoves
  BY <1>1, <1>2, <1>7, <1>8, <1>9, <1>10, <1>11 DEF TableMoves
<1>13. AtPlace'
  BY <1>1, <1>2, <1>4, <1>6, <1>7 DEF AtPlace, NumFiles, NumFolders
<1>14. c = Table!Count(hdr, at.folder) BY DEF c
<1> QED BY <1>1, <1>4, <1>7, <1>8, <1>10, <1>12, <1>13, <1>14

LEMMA OpenFolderKeeps ==
  ASSUME HeaderShape(hdr), TableInv, Table!OpenFolder
  PROVE TableInv'
<1>1. "stream" \in TablePcs BY DEF TablePcs
<1> QED BY <1>1, OpenFolderDoes, TableKept

(* What passing a folder without streams does                                *)
LEMMA SkipFolderDoes ==
  ASSUME HeaderShape(hdr), TableInv, Table!SkipFolder, tablePc' # "failed"
  PROVE /\ tablePc = "folder" /\ tablePc' = "folder" /\ hdr' = hdr /\ at.rem = 0
        /\ at.i < NumFiles /\ at.folder < NumFolders /\ Table!Count(hdr, at.folder) = 0
        /\ at' \in AtSet /\ at'.i = at.i /\ at'.folder = at.folder + 1
        /\ at'.rem = 0 /\ at'.pos = at.pos + hdr.folderSize[at.folder] /\ at'.size = at.size
        /\ at'.digest = at.digest /\ at'.val = at.val /\ at'.emptyFile = at.emptyFile
        /\ Tables(db)'
        /\ db'.IsDirs = db.IsDirs /\ db'.CrcDefs = db.CrcDefs /\ db'.CrcVals = db.CrcVals
        /\ \A e : Position(e)' = Position(e)
        /\ \A f \in 0 .. NumFolders : FirstFile(f)' = IF f = at.folder THEN at.i ELSE FirstFile(f)
        /\ TableMoves /\ AtPlace'
<1> DEFINE q == Table!Add(at.pos, hdr.folderSize[at.folder])
           s == hdr.folderSize[at.folder]
           g == at.folder + 1
<1>a. /\ tablePc = "folder" /\ tablePc' = IF q < s THEN "failed" ELSE "folder"
      /\ hdr' = hdr /\ at.folder < NumFolders /\ Table!Count(hdr, at.folder) = 0
      /\ at' = [at EXCEPT !.num = 0, !.rem = 0, !.folder = g, !.pos = q]
      /\ db' = [db EXCEPT !.FolderToFile[at.folder] = at.i]
  BY DEF Table!SkipFolder, Table!Step, NumFolders, Table!FolderSize
<1>b. ~(q < s) BY <1>a
<1>1. tablePc' = "folder" BY <1>a, <1>b
<1>2. /\ NumFiles \in Nat /\ NumFolders \in Nat
      /\ at.i \in Nat /\ at.i <= NumFiles /\ at.folder \in Nat /\ at.folder <= NumFolders
      /\ at.rem \in Nat /\ at.pos \in Sizes64 /\ at.pos \in Nat
  BY <1>a, AtFields
<1>3. at \in AtSet /\ Tables(db) /\ AtPlace BY <1>a, TableFinds
<1>4. at.rem = 0 /\ at.i < NumFiles BY <1>a, <1>3 DEF AtPlace
<1>5. at.folder \in 0 .. NumFolders - 1 /\ at.folder \in 0 .. NumFolders
      /\ g \in 0 .. NumFolders
  BY <1>a, <1>2
<1>6. q \in Sizes64 /\ at.pos <= q /\ q = at.pos + s
  <2>1. s \in Sizes64 BY <1>5, ShapeFacts
  <2>2. s \in Nat BY <2>1, TableAssumption DEF Sizes64
  <2>3. q \in Nat
    <3>1. at.pos + s \in Nat BY <1>2, <2>2
    <3> QED BY <3>1, TableAssumption DEF Table!Add
  <2>4. q >= s BY <1>b, <2>2, <2>3
  <2>5. q = at.pos + s /\ q \in Sizes64 BY <1>2, <2>1, <2>4, AddFits
  <2> QED BY <1>2, <2>2, <2>5
<1>7. /\ at' \in AtSet /\ at'.i = at.i /\ at'.folder = at.folder + 1
      /\ at'.rem = 0 /\ at'.pos = q /\ at'.size = at.size
      /\ at'.digest = at.digest /\ at'.val = at.val /\ at'.emptyFile = at.emptyFile
  <2>1. at' = [at EXCEPT !.num = 0, !.rem = 0, !.folder = g, !.pos = q] BY <1>a
  <2> HIDE DEF q, g
  <2>2. /\ at' \in AtSet /\ at'.i = at.i /\ at'.folder = g /\ at'.rem = 0 /\ at'.pos = q
        /\ at'.size = at.size /\ at'.digest = at.digest /\ at'.val = at.val
        /\ at'.emptyFile = at.emptyFile
    BY <1>3, <1>5, <1>6, <2>1 DEF AtSet
  <2> QED BY <2>2 DEF g
<1>8. /\ Tables(db)' /\ db'.UnpackPositions = db.UnpackPositions
      /\ db'.FileToFolder = db.FileToFolder
      /\ db'.IsDirs = db.IsDirs /\ db'.CrcDefs = db.CrcDefs /\ db'.CrcVals = db.CrcVals
      /\ \A f \in 0 .. NumFolders :
           FirstFile(f)' = IF f = at.folder THEN at.i ELSE FirstFile(f)
  BY <1>a, <1>3, <1>5, FolderWritten
<1>c. s = hdr.folderSize[at.folder] OBVIOUS
<1> HIDE DEF q, s, g
<1>9. \A e \in 0 .. NumFiles : (Placed(e) <=> e <= at.i) /\ (Placed(e)' <=> e <= at.i)
  BY <1>a, <1>1, <1>2, <1>7 DEF Placed
<1>10. \A e : Position(e)' = Position(e) /\ FolderOf(e)' = FolderOf(e)
  BY <1>8 DEF Position, FolderOf
<1>11. \A f \in 0 .. NumFolders :
         (Opened(f) <=> f < at.folder) /\ (Opened(f)' <=> f <= at.folder)
  BY <1>a, <1>1, <1>2, <1>4, <1>7 DEF Opened
<1>12. TableMoves
  BY <1>a, <1>2, <1>4, <1>6, <1>7, <1>8, <1>9, <1>10, <1>11 DEF TableMoves
<1>13. AtPlace'
  BY <1>a, <1>1, <1>2, <1>4, <1>7 DEF AtPlace, NumFiles, NumFolders
<1>14. at'.pos = at.pos + hdr.folderSize[at.folder] BY <1>6, <1>7, <1>c
<1> QED BY <1>a, <1>1, <1>4, <1>7, <1>8, <1>10, <1>12, <1>13, <1>14

LEMMA SkipFolderKeeps ==
  ASSUME HeaderShape(hdr), TableInv, Table!SkipFolder
  PROVE TableInv'
<1>1. "folder" \in TablePcs BY DEF TablePcs
<1>2. CASE tablePc' = "failed" BY <1>2, TableFails
<1>3. CASE tablePc' # "failed" BY <1>1, <1>3, SkipFolderDoes, TableKept
<1> QED BY <1>2, <1>3

(* An entry takes a stream that ends at q.                                   *)
LEMMA StreamPlacedDoes ==
  ASSUME HeaderShape(hdr), TableInv, tablePc = "stream", tablePc' = "file", hdr' = hdr,
         NEW q \in Sizes64, NEW g, NEW z \in Nat, at.pos <= q,
         Table!PlaceStream(q, g, z),
         \/ at.rem # 1 /\ g = at.folder
         \/ at.rem = 1 /\ g = at.folder + 1
              /\ q = Position(FirstFile(at.folder)) + hdr.folderSize[at.folder]
  PROVE /\ at.i < NumFiles /\ at.folder \in 0 .. NumFolders - 1
        /\ at' \in AtSet /\ at'.i = at.i + 1 /\ at'.folder = g
        /\ at'.rem = at.rem - 1 /\ at'.num = at.num /\ at'.pos = q /\ at'.size = z
        /\ at'.digest = IF Table!CrcSource \in {"digest", "gap"} THEN at.digest + 1 ELSE at.digest
        /\ at'.val = IF Table!CrcSource = "digest" THEN at.val + 1 ELSE at.val
        /\ at'.emptyFile = at.emptyFile
        /\ Tables(db)' /\ db'.IsDirs = db.IsDirs /\ db'.CrcDefs = db.CrcDefs
        /\ db'.CrcVals = [db.CrcVals EXCEPT ![at.i] = Table!EntryCrc]
        /\ \A e : Position(e)' = Position(e)
        /\ \A e \in 0 .. NumFiles - 1 :
             FolderOf(e)' = IF e = at.i THEN at.folder ELSE FolderOf(e)
        /\ \A f : FirstFile(f)' = FirstFile(f)
        /\ TableMoves /\ AtPlace'
<1> DEFINE F == [db.FileToFolder EXCEPT ![at.i] = at.folder]
           C == [db.CrcVals EXCEPT ![at.i] = Table!EntryCrc]
           j == at.i + 1
           r == at.rem - 1
           dg == IF Table!CrcSource \in {"digest", "gap"} THEN at.digest + 1 ELSE at.digest
           v == IF Table!CrcSource = "digest" THEN at.val + 1 ELSE at.val
<1>1. /\ db' = [db EXCEPT !.FileToFolder = F, !.CrcVals = C]
      /\ at' = [at EXCEPT !.i = j, !.rem = r, !.pos = q, !.folder = g, !.size = z,
                          !.digest = dg, !.val = v]
  BY DEF Table!PlaceStream
<1>2. /\ NumFiles \in Nat /\ NumFolders \in Nat
      /\ at.i \in Nat /\ at.i <= NumFiles /\ at.folder \in Nat /\ at.folder <= NumFolders
      /\ at.rem \in Nat /\ at.pos \in Sizes64 /\ at.pos \in Nat
      /\ at.digest \in Nat /\ at.val \in Nat
  BY AtFields
<1>3. at \in AtSet /\ Tables(db) /\ AtPlace BY TableFinds
<1>4. NumFiles' = NumFiles /\ NumFolders' = NumFolders BY DEF NumFiles, NumFolders
<1>5. at.rem > 0 /\ at.i < NumFiles /\ at.folder < NumFolders BY <1>3 DEF AtPlace
<1>6. /\ at' \in AtSet /\ at'.i = at.i + 1 /\ at'.folder = g
      /\ at'.rem = at.rem - 1 /\ at'.num = at.num /\ at'.pos = q /\ at'.size = z
      /\ at'.digest = dg /\ at'.val = v /\ at'.emptyFile = at.emptyFile
  <2>1. j \in 0 .. NumFiles /\ r \in Nat /\ g \in 0 .. NumFolders BY <1>2, <1>5
  <2>2. dg \in Nat /\ v \in Nat BY <1>2
  <2> HIDE DEF j, r, dg, v
  <2>3. /\ at' \in AtSet /\ at'.i = j /\ at'.folder = g /\ at'.rem = r /\ at'.pos = q
        /\ at'.num = at.num /\ at'.size = z
        /\ at'.digest = dg /\ at'.val = v /\ at'.emptyFile = at.emptyFile
    BY <2>1, <2>2, <1>1, <1>3 DEF AtSet
  <2> QED BY <2>3 DEF j, r
<1>7. /\ DOMAIN db.UnpackPositions = 0 .. NumFiles
      /\ DOMAIN db.FolderToFile = 0 .. NumFolders
      /\ DOMAIN db.FileToFolder = 0 .. NumFiles - 1
  BY <1>3 DEF Tables
<1>8. /\ db'.UnpackPositions = db.UnpackPositions /\ db'.FolderToFile = db.FolderToFile
      /\ db'.FileToFolder = F /\ Tables(db)'
      /\ db'.IsDirs = db.IsDirs /\ db'.CrcDefs = db.CrcDefs /\ db'.CrcVals = C
  <2>1. DOMAIN F = 0 .. NumFiles - 1 BY <1>7
  <2> HIDE DEF F, C
  <2>2. db' = [UnpackPositions |-> db.UnpackPositions, FolderToFile |-> db.FolderToFile,
               FileToFolder |-> F, IsDirs |-> db.IsDirs,
               CrcDefs |-> db.CrcDefs, CrcVals |-> C]
    BY <1>1, <1>3 DEF Tables
  <2> QED BY <2>1, <2>2, <1>4, <1>7 DEF Tables
<1>9. \A e \in 0 .. NumFiles : (Placed(e) <=> e <= at.i) /\ (Placed(e)' <=> e <= at.i)
  BY <1>2, <1>6 DEF Placed
<1>10. \A e : Position(e)' = Position(e) BY <1>8 DEF Position
<1>11. \A e \in 0 .. NumFiles - 1 :
         FolderOf(e)' = IF e = at.i THEN at.folder ELSE FolderOf(e)
  BY <1>7, <1>8 DEF FolderOf
<1>12. \A f : FirstFile(f)' = FirstFile(f) BY <1>8 DEF FirstFile
<1>13. \A f \in 0 .. NumFolders : Opened(f)' <=> Opened(f)
  BY <1>2, <1>5, <1>6 DEF Opened
<1>14. TableMoves
  BY <1>2, <1>5, <1>6, <1>9, <1>10, <1>11, <1>12, <1>13 DEF TableMoves
<1>15. AtPlace' BY <1>2, <1>4, <1>5, <1>6 DEF AtPlace
<1>16. at.folder \in 0 .. NumFolders - 1 BY <1>2, <1>5
<1> QED BY <1>5, <1>6, <1>8, <1>10, <1>11, <1>12, <1>14, <1>15, <1>16

LEMMA StreamPlaced ==
  ASSUME HeaderShape(hdr), TableInv, tablePc = "stream", tablePc' = "file", hdr' = hdr,
         NEW q \in Sizes64, NEW g, NEW z \in Nat, at.pos <= q,
         Table!PlaceStream(q, g, z),
         \/ at.rem # 1 /\ g = at.folder
         \/ at.rem = 1 /\ g = at.folder + 1
              /\ q = Position(FirstFile(at.folder)) + hdr.folderSize[at.folder]
  PROVE TableInv'
<1>1. at' \in AtSet /\ Tables(db)' /\ TableMoves /\ AtPlace' BY StreamPlacedDoes
<1>2. tablePc' \in TablePcs BY DEF TablePcs
<1> QED BY <1>1, <1>2, TableKept

(* How the last stream of a folder is placed                                 *)
LEMMA LastStreamDoes ==
  ASSUME HeaderShape(hdr), TableInv, Table!LastStream
  PROVE /\ tablePc = "stream" /\ tablePc' = "file" /\ hdr' = hdr /\ at.rem = 1
        /\ Table!FolderEnd \in Sizes64 /\ at.pos <= Table!FolderEnd /\ at.size \in Nat
        /\ Table!FolderEnd = Position(FirstFile(at.folder)) + hdr.folderSize[at.folder]
        /\ Table!PlaceStream(Table!FolderEnd, at.folder + 1, at.size)
<1> DEFINE b == Position(FirstFile(at.folder))
           s == hdr.folderSize[at.folder]
           q == Table!FolderEnd
<1>1. /\ tablePc = "stream" /\ tablePc' = "file" /\ hdr' = hdr /\ at.rem = 1
      /\ Table!LastFits /\ Table!PlaceStream(q, at.folder + 1, at.size)
  BY DEF Table!LastStream, Table!Step
<1>2. /\ NumFiles \in Nat /\ NumFolders \in Nat /\ at.folder \in Nat
      /\ at.folder <= NumFolders /\ at.pos \in Nat /\ at.size \in Nat
  BY <1>1, AtFields
<1>3. Opened(at.folder) /\ at.folder \in 0 .. NumFolders - 1 BY <1>1, PlaceFacts
<1>4. b \in Sizes64 /\ s \in Sizes64
  <2>1. at.folder \in 0 .. NumFolders BY <1>2, <1>3
  <2>2. PositionsGrow BY <1>1, TableFinds
  <2>3. FirstFile(at.folder) \in 0 .. NumFiles /\ Placed(FirstFile(at.folder))
    BY <1>3, <2>1, <2>2 DEF PositionsGrow
  <2>4. b \in Sizes64 BY <2>2, <2>3 DEF PositionsGrow
  <2> QED BY <2>4, <1>3, ShapeFacts
<1>5. b \in Nat /\ s \in Nat BY <1>4, TableAssumption DEF Sizes64
<1>6. q = Table!Add(b, s) /\ at.pos - b <= s /\ q >= s
  BY <1>1 DEF Table!LastFits, Table!FolderEnd, Table!FolderStart, Table!FolderSize,
              Position, FirstFile
<1> HIDE DEF b, s, q
<1>7. q = b + s /\ q \in Sizes64 BY <1>4, <1>6, AddFits
<1>8. at.pos <= q BY <1>2, <1>5, <1>6, <1>7
<1>9. q = Position(FirstFile(at.folder)) + hdr.folderSize[at.folder] BY <1>7 DEF b, s
<1>10. q = Table!FolderEnd BY DEF q
<1> QED BY <1>1, <1>2, <1>7, <1>8, <1>9, <1>10

LEMMA LastStreamKeeps ==
  ASSUME HeaderShape(hdr), TableInv, Table!LastStream
  PROVE TableInv'
BY LastStreamDoes, StreamPlaced

(* ... and the others                                                        *)
LEMMA InnerStreamDoes ==
  ASSUME HeaderShape(hdr), TableInv, Table!InnerStream
  PROVE /\ tablePc = "stream" /\ tablePc' = "file" /\ hdr' = hdr /\ at.rem # 1
        /\ at.size \in Nat /\ at.size < Len(hdr.sizes)
        /\ at.pos + Table!NextSize \in Sizes64 /\ at.pos <= at.pos + Table!NextSize
        /\ Table!PlaceStream(at.pos + Table!NextSize, at.folder, at.size + 1)
<1> DEFINE s == Table!NextSize
           q == Table!Add(at.pos, s)
           z == at.size + 1
<1>1. /\ tablePc = "stream" /\ tablePc' = "file" /\ hdr' = hdr /\ at.rem # 1
      /\ at.size < Len(hdr.sizes) /\ q >= s /\ Table!PlaceStream(q, at.folder, z)
  BY DEF Table!InnerStream, Table!Step, Table!InnerFits
<1>2. at.pos \in Sizes64 /\ at.pos \in Nat /\ at.size \in Nat BY <1>1, AtFields
<1>3. s \in Sizes64
  <2>1. hdr.sizes \in Seq(Sizes64) BY ShapeFacts
  <2>2. Len(hdr.sizes) \in Nat BY <2>1, LenProperties
  <2>3. z \in 1 .. Len(hdr.sizes) BY <2>2, <1>1, <1>2
  <2> QED BY <2>1, <2>3, ElementOfSeq DEF Table!NextSize
<1>4. s \in Nat BY <1>3, TableAssumption DEF Sizes64
<1>5. q = at.pos + s /\ q \in Sizes64 BY <1>1, <1>2, <1>3, AddFits
<1>6. at.pos <= q /\ z \in Nat BY <1>2, <1>4, <1>5
<1> HIDE DEF s, q, z
<1>7. s = Table!NextSize /\ z = at.size + 1 BY DEF s, z
<1> QED BY <1>1, <1>2, <1>5, <1>6, <1>7

LEMMA InnerStreamKeeps ==
  ASSUME HeaderShape(hdr), TableInv, Table!InnerStream
  PROVE TableInv'
<1> DEFINE q == at.pos + Table!NextSize
<1>1. /\ tablePc = "stream" /\ tablePc' = "file" /\ hdr' = hdr /\ at.rem # 1
      /\ q \in Sizes64 /\ at.pos <= q /\ at.size + 1 \in Nat
      /\ Table!PlaceStream(q, at.folder, at.size + 1)
  BY InnerStreamDoes
<1> HIDE DEF q
<1> QED BY <1>1, StreamPlaced

(* What the end of the entries does                                          *)
LEMMA EndOfEntriesDoes ==
  ASSUME HeaderShape(hdr), TableInv, Table!EndOfEntries, tablePc' # "failed"
  PROVE /\ tablePc = "file" /\ tablePc' = "tail" /\ hdr' = hdr /\ at.rem = 0
        /\ at.i = NumFiles /\ at' = at /\ at' \in AtSet
        /\ Tables(db)'
        /\ db'.IsDirs = db.IsDirs /\ db'.CrcDefs = db.CrcDefs /\ db'.CrcVals = db.CrcVals
        /\ \A e \in 0 .. NumFiles : Position(e)' = IF e = at.i THEN at.pos ELSE Position(e)
        /\ \A f : FirstFile(f)' = FirstFile(f)
        /\ TableMoves /\ AtPlace'
<1> DEFINE P == [db.UnpackPositions EXCEPT ![at.i] = at.pos]
<1>a. /\ tablePc = "file" /\ tablePc' = IF at.rem # 0 THEN "failed" ELSE "tail"
      /\ hdr' = hdr /\ at.i = NumFiles /\ at' = at
      /\ db' = [db EXCEPT !.UnpackPositions = P]
  BY DEF Table!EndOfEntries, Table!Step, NumFiles
<1>b. at.rem = 0 BY <1>a
<1>1. tablePc' = "tail" BY <1>a, <1>b
<1>2. /\ NumFiles \in Nat /\ NumFolders \in Nat
      /\ at.i \in Nat /\ at.i <= NumFiles /\ at.folder \in Nat /\ at.folder <= NumFolders
      /\ at.pos \in Sizes64 /\ at.pos \in Nat
  BY <1>a, AtFields
<1>3. at \in AtSet /\ Tables(db) /\ AtPlace BY <1>a, TableFinds
<1>4. NumFiles' = NumFiles /\ NumFolders' = NumFolders BY <1>a DEF NumFiles, NumFolders
<1>5. /\ DOMAIN db.UnpackPositions = 0 .. NumFiles
      /\ DOMAIN db.FolderToFile = 0 .. NumFolders
      /\ DOMAIN db.FileToFolder = 0 .. NumFiles - 1
  BY <1>3 DEF Tables
<1>6. /\ db'.UnpackPositions = P /\ db'.FolderToFile = db.FolderToFile
      /\ db'.FileToFolder = db.FileToFolder /\ Tables(db)'
      /\ db'.IsDirs = db.IsDirs /\ db'.CrcDefs = db.CrcDefs /\ db'.CrcVals = db.CrcVals
  <2>1. DOMAIN P = 0 .. NumFiles BY <1>5
  <2> HIDE DEF P
  <2>2. db' = [UnpackPositions |-> P, FolderToFile |-> db.FolderToFile,
               FileToFolder |-> db.FileToFolder, IsDirs |-> db.IsDirs,
               CrcDefs |-> db.CrcDefs, CrcVals |-> db.CrcVals]
    BY <1>a, <1>3 DEF Tables
  <2> QED BY <2>1, <2>2, <1>4, <1>5 DEF Tables
<1>7. \A e \in 0 .. NumFiles : (Placed(e) <=> e < at.i) /\ (Placed(e)' <=> e < at.i + 1)
  BY <1>a, <1>1, <1>2 DEF Placed
<1>8. \A e \in 0 .. NumFiles : Position(e)' = IF e = at.i THEN at.pos ELSE Position(e)
  BY <1>5, <1>6 DEF Position
<1>9. \A e : FolderOf(e)' = FolderOf(e) BY <1>6 DEF FolderOf
<1>10. \A f : FirstFile(f)' = FirstFile(f) BY <1>6 DEF FirstFile
<1>11. \A f : Opened(f)' <=> Opened(f) BY <1>a, <1>1 DEF Opened
<1>12. TableMoves
  BY <1>a, <1>2, <1>7, <1>8, <1>9, <1>10, <1>11 DEF TableMoves
<1>13. AtPlace' BY <1>a, <1>b, <1>1, <1>2, <1>4 DEF AtPlace
<1>14. at' \in AtSet BY <1>a, <1>3
<1> QED BY <1>a, <1>b, <1>1, <1>6, <1>8, <1>10, <1>12, <1>13, <1>14

LEMMA EndOfEntriesKeeps ==
  ASSUME HeaderShape(hdr), TableInv, Table!EndOfEntries
  PROVE TableInv'
<1>1. "tail" \in TablePcs BY DEF TablePcs
<1>2. CASE tablePc' = "failed" BY <1>2, TableFails
<1>3. CASE tablePc' # "failed" BY <1>1, <1>3, EndOfEntriesDoes, TableKept
<1> QED BY <1>2, <1>3

(* What the end of a folder behind the entries does                          *)
LEMMA EndFolderDoes ==
  ASSUME HeaderShape(hdr), TableInv, Table!EndFolder, tablePc' # "failed"
  PROVE /\ tablePc = "tail" /\ hdr' = hdr /\ at.rem = 0 /\ at.i = NumFiles
        /\ at' \in AtSet /\ at'.i = at.i /\ at'.rem = 0 /\ at'.pos = at.pos
        /\ at'.size = at.size /\ at'.digest = at.digest /\ at'.val = at.val
        /\ at'.emptyFile = at.emptyFile
        /\ \/ at.folder = NumFolders /\ tablePc' = "done" /\ at'.folder = at.folder
           \/ /\ at.folder < NumFolders /\ tablePc' = "tail" /\ at'.folder = at.folder + 1
              /\ Table!Count(hdr, at.folder) = 0
        /\ Tables(db)'
        /\ db'.IsDirs = db.IsDirs /\ db'.CrcDefs = db.CrcDefs /\ db'.CrcVals = db.CrcVals
        /\ \A e : Position(e)' = Position(e)
        /\ \A f \in 0 .. NumFolders : FirstFile(f)' = IF f = at.folder THEN at.i ELSE FirstFile(f)
        /\ TableMoves /\ AtPlace'
<1> DEFINE g == at.folder + 1
<1>a. /\ tablePc = "tail" /\ hdr' = hdr
      /\ db' = [db EXCEPT !.FolderToFile[at.folder] = at.i]
      /\ \/ at.folder = NumFolders /\ tablePc' = "done" /\ at' = at
         \/ /\ at.folder < NumFolders /\ tablePc' \in {"failed", "tail"}
            /\ tablePc' = "tail" => Table!Count(hdr, at.folder) = 0
            /\ at' = [at EXCEPT !.folder = g]
  BY DEF Table!EndFolder, Table!Step, NumFolders
<1>b. tablePc' # "failed" OBVIOUS
<1>2. /\ NumFiles \in Nat /\ NumFolders \in Nat
      /\ at.i \in Nat /\ at.i <= NumFiles /\ at.folder \in Nat /\ at.folder <= NumFolders
      /\ at.pos \in Sizes64 /\ at.pos \in Nat
  BY <1>a, AtFields
<1>3. at \in AtSet /\ Tables(db) /\ AtPlace BY <1>a, TableFinds
<1>4. at.rem = 0 /\ at.i = NumFiles BY <1>a, <1>3 DEF AtPlace
<1>5. at.folder \in 0 .. NumFolders BY <1>2
<1>6. /\ Tables(db)' /\ db'.UnpackPositions = db.UnpackPositions
      /\ db'.FileToFolder = db.FileToFolder
      /\ db'.IsDirs = db.IsDirs /\ db'.CrcDefs = db.CrcDefs /\ db'.CrcVals = db.CrcVals
      /\ \A f \in 0 .. NumFolders :
           FirstFile(f)' = IF f = at.folder THEN at.i ELSE FirstFile(f)
  BY <1>a, <1>3, <1>5, FolderWritten
<1>7. /\ at' \in AtSet /\ at'.i = at.i /\ at'.rem = 0 /\ at'.pos = at.pos
      /\ at'.size = at.size /\ at'.digest = at.digest /\ at'.val = at.val
      /\ at'.emptyFile = at.emptyFile
      /\ \/ at.folder = NumFolders /\ tablePc' = "done" /\ at'.folder = at.folder
         \/ /\ at.folder < NumFolders /\ tablePc' = "tail" /\ at'.folder = at.folder + 1
            /\ Table!Count(hdr, at.folder) = 0
  <2>1. CASE at.folder = NumFolders /\ tablePc' = "done" /\ at' = at
    BY <2>1, <1>3, <1>4
  <2>2. CASE at.folder < NumFolders /\ at' = [at EXCEPT !.folder = g]
    <3>1. g \in 0 .. NumFolders BY <2>2, <1>2
    <3> HIDE DEF g
    <3>2. at' \in AtSet /\ at'.i = at.i /\ at'.rem = at.rem /\ at'.pos = at.pos
          /\ at'.folder = g /\ at'.size = at.size /\ at'.digest = at.digest
          /\ at'.val = at.val /\ at'.emptyFile = at.emptyFile
      BY <2>2, <3>1, <1>3 DEF AtSet
    <3>3. tablePc' = "tail" /\ Table!Count(hdr, at.folder) = 0 BY <1>a, <1>b, <1>2, <2>2
    <3>4. at'.folder = at.folder + 1 BY <3>2 DEF g
    <3> QED BY <3>2, <3>3, <3>4, <2>2, <1>4
  <2> QED BY <1>a, <2>1, <2>2
<1>8. \A e \in 0 .. NumFiles : (Placed(e) <=> e <= at.i) /\ (Placed(e)' <=> e <= at.i)
  BY <1>a, <1>2, <1>7 DEF Placed
<1>9. \A e : Position(e)' = Position(e) /\ FolderOf(e)' = FolderOf(e)
  BY <1>6 DEF Position, FolderOf
<1>10. \A f \in 0 .. NumFolders :
         (Opened(f) <=> f < at.folder) /\ (Opened(f)' <=> f <= at.folder)
  BY <1>a, <1>2, <1>4, <1>7 DEF Opened
<1>11. TableMoves
  BY <1>a, <1>2, <1>4, <1>6, <1>7, <1>8, <1>9, <1>10 DEF TableMoves
<1>12. AtPlace'
  BY <1>a, <1>2, <1>4, <1>7 DEF AtPlace, NumFiles, NumFolders
<1> QED BY <1>a, <1>4, <1>6, <1>7, <1>9, <1>11, <1>12

LEMMA EndFolderKeeps ==
  ASSUME HeaderShape(hdr), TableInv, Table!EndFolder
  PROVE TableInv'
<1>1. "tail" \in TablePcs /\ "done" \in TablePcs BY DEF TablePcs
<1>2. CASE tablePc' = "failed" BY <1>2, TableFails
<1>3. CASE tablePc' # "failed"
  <2>1. TableMoves /\ at' \in AtSet /\ Tables(db)' /\ AtPlace' /\ tablePc' \in TablePcs
        /\ tablePc = "tail"
    BY <1>1, <1>3, EndFolderDoes
  <2> QED BY <2>1, TableKept
<1> QED BY <1>2, <1>3

LEMMA TableStep ==
  ASSUME HeaderShape(hdr), TableInv, Table!Next
  PROVE HeaderShape(hdr)' /\ TableInv'
<1>1. hdr' = hdr
  BY DEF Table!Next, Table!Check, Table!FlushByte, Table!EmptyEntry, Table!DataEntry,
         Table!OpenFolder, Table!SkipFolder, Table!LastStream, Table!InnerStream,
         Table!StreamFails, Table!EndOfEntries, Table!EndFolder, Table!Ended,
         Table!AtEntry, Table!Step, Table!vars
<1>2. HeaderShape(hdr)' BY <1>1 DEF HeaderShape, Sizes64
<1>3. CASE Table!StreamFails BY <1>3, TableFails DEF Table!StreamFails, Table!Step
<1>4. CASE Table!Ended
  <2>1. /\ tablePc' = tablePc /\ hdr' = hdr /\ at' = at /\ db' = db
    BY <1>4 DEF Table!Ended, Table!vars
  <2>2. CASE tablePc = "failed" BY <2>1, <2>2, TableFails
  <2>3. CASE tablePc # "failed"
    <3>1. Tables(db) BY <2>3, TableFinds
    <3>2. Tables(db)' BY <2>1, <3>1 DEF Tables, NumFiles, NumFolders
    <3> QED BY <2>1, <2>3, <3>2, TableSame
  <2> QED BY <2>2, <2>3
<1> QED BY <1>2, <1>3, <1>4, CheckKeeps, FlushByteKeeps, EmptyEntryKeeps, DataEntryKeeps,
           OpenFolderKeeps, SkipFolderKeeps, LastStreamKeeps, InnerStreamKeeps,
           EndOfEntriesKeeps, EndFolderKeeps
        DEF Table!Next

LEMMA TableStutter ==
  ASSUME HeaderShape(hdr), TableInv, UNCHANGED tableVars
  PROVE HeaderShape(hdr)' /\ TableInv'
<1>1. /\ tablePc' = tablePc /\ hdr' = hdr /\ at' = at /\ db' = db BY DEF tableVars
<1>2. HeaderShape(hdr)' BY <1>1 DEF HeaderShape, Sizes64
<1>3. CASE tablePc = "failed" BY <1>1, <1>2, <1>3, TableFails
<1>4. CASE tablePc # "failed"
  <2>1. Tables(db) BY <1>4, TableFinds
  <2>2. Tables(db)' BY <1>1, <2>1 DEF Tables, NumFiles, NumFolders
  <2> QED BY <1>1, <1>2, <1>4, <2>2, TableSame
<1> QED BY <1>3, <1>4

(* What the invariant says of tables that are finished                       *)
LEMMA TableSound ==
  ASSUME HeaderShape(hdr), TableInv
  PROVE Table!InsideBlock
<1> SUFFICES ASSUME tablePc = "done" PROVE Table!InsideBlock
  BY DEF Table!InsideBlock
<1>1. AtPlace /\ PositionsGrow /\ EntriesInside BY TableFinds
<1>2. at.i = NumFiles /\ at.folder = NumFolders /\ at.rem = 0 BY <1>1 DEF AtPlace
<1>3. /\ NumFiles \in Nat /\ NumFolders \in Nat /\ Table!Folders(hdr) = 0 .. NumFolders - 1
      /\ hdr.folderSize \in [0 .. NumFolders - 1 -> Sizes64]
  BY ShapeFacts
<1>4. \A x \in Sizes64 : x \in Nat /\ x # Junk BY TableAssumption DEF Sizes64
<1>5. \A e \in 0 .. NumFiles : Placed(e) BY <1>2, <1>3 DEF Placed
<1>6. \A f \in 0 .. NumFolders : Opened(f) BY <1>2, <1>3 DEF Opened
<1>7. \A e \in 0 .. NumFiles : Position(e) \in Sizes64 BY <1>1, <1>5 DEF PositionsGrow
<1>8. \A e \in 0 .. NumFiles : Position(e) # Junk BY <1>4, <1>7
<1>9. \A f \in 0 .. NumFolders : FirstFile(f) \in 0 .. NumFiles
  BY <1>1, <1>6 DEF PositionsGrow
<1>10. ASSUME NEW e \in 0 .. NumFiles - 1, FolderOf(e) # NoFolderIndex
       PROVE  /\ FolderOf(e) \in 0 .. NumFolders - 1
              /\ FirstFile(FolderOf(e)) <= e
              /\ Position(e) <= Position(e + 1)
              /\ Position(FirstFile(FolderOf(e))) <= Position(e)
              /\ (Position(e) - Position(FirstFile(FolderOf(e))))
                   + (Position(e + 1) - Position(e)) <= hdr.folderSize[FolderOf(e)]
  <2>1. e < at.i /\ e \in 0 .. NumFiles /\ e + 1 \in 0 .. NumFiles BY <1>2, <1>3
  <2>2. PICK f : f = FolderOf(e) OBVIOUS
  <2>3. /\ f \in 0 .. NumFolders - 1 /\ FirstFile(f) <= e
        /\ f < at.folder => EndOf(e) <= Position(FirstFile(f)) + hdr.folderSize[f]
    BY <2>1, <2>2, <1>1, <1>10 DEF EntriesInside
  <2>4. f < at.folder /\ f \in 0 .. NumFolders BY <2>3, <1>2, <1>3
  <2>5. EndOf(e) = Position(e + 1) BY <2>1, <1>5 DEF EndOf
  <2>6. PICK x \in 0 .. NumFiles : x = FirstFile(f) BY <2>4, <1>9
  <2>7. Position(x) <= Position(e) /\ Position(e) <= Position(e + 1)
    <3>1. e <= e + 1 BY <1>3
    <3>2. PICK y \in 0 .. NumFiles : y = e + 1 BY <2>1
    <3>3. Position(x) <= Position(e)
      BY <2>1, <2>3, <2>6, <1>1, <1>5 DEF PositionsGrow
    <3>4. Position(e) <= Position(y)
      BY <2>1, <3>1, <3>2, <1>1, <1>5 DEF PositionsGrow
    <3> QED BY <3>2, <3>3, <3>4
  <2>8. Position(x) \in Nat /\ Position(e) \in Nat /\ Position(e + 1) \in Nat
    BY <2>1, <1>4, <1>7
  <2>9. hdr.folderSize[f] \in Nat BY <2>3, <1>3, <1>4
  <2>10. Position(e + 1) <= Position(x) + hdr.folderSize[f] BY <2>3, <2>4, <2>5, <2>6
  <2> QED BY <2>2, <2>3, <2>6, <2>7, <2>8, <2>9, <2>10
<1> QED BY <1>3, <1>8, <1>9, <1>10
        DEF Table!InsideBlock, Table!Entries, Table!NumFolders, Table!FileOffset,
            Table!FileSize, NumFiles, NumFolders, Position, FirstFile, FolderOf

(* The headers of MCHeaders have the shape that the reading functions make   *)
(* sure of.                                                                  *)
LEMMA ListsShaped ==
  ASSUME NEW h \in SmallHeaders
  PROVE HeaderShape(h)
<1>1. TableSizes \subseteq Sizes64 /\ FlagSizes \subseteq Sizes64
  BY TableAssumption DEF Sizes64
<1>2. PICK sizes \in {TableSizes, FlagSizes}, flags \in BOOLEAN :
        h \in HeadersOf(sizes, flags)
  BY DEF SmallHeaders
<1>3. sizes \subseteq Sizes64 BY <1>1, <1>2
<1>4. PICK b \in Bases(sizes, flags) :
        /\ h.folderSize = b.folderSize /\ h.counts = b.counts /\ h.numFiles = b.numFiles
        /\ h.sizes \in SizeLists(b, sizes)
  BY <1>2 DEF HeadersOf
<1>5. PICK F \in FolderSets :
        b \in [folderSize : [F -> sizes],
               folderCrc : IF flags THEN SUBSET F ELSE {{}},
               counts : {Absent} \cup [F -> 0 .. TableStreams],
               numFiles : 0 .. TableFiles]
  BY <1>4 DEF Bases
<1>6. PICK k \in Nat : F = 0 .. k - 1 BY TableAssumption, <1>5 DEF FolderSets
<1>7. /\ b.folderSize \in [F -> sizes] /\ b.numFiles \in 0 .. TableFiles
      /\ b.counts = Absent \/ b.counts \in [F -> 0 .. TableStreams]
  BY <1>5
<1>8. b.folderSize \in [0 .. k - 1 -> Sizes64] BY <1>3, <1>6, <1>7
<1>9. b.numFiles \in Nat
  <2>1. PICK x \in 0 .. TableFiles : x = b.numFiles BY <1>7
  <2> QED BY <2>1, TableAssumption
<1>10. b.counts = Absent \/ b.counts \in [0 .. k - 1 -> Nat]
  <2>1. 0 .. TableStreams \subseteq Nat BY TableAssumption
  <2> QED BY <2>1, <1>6, <1>7
<1>11. h.sizes \in Seq(Sizes64)
  <2>1. PICK n \in Nat : h.sizes \in [1 .. n -> sizes] BY <1>4 DEF SizeLists
  <2>2. h.sizes \in [1 .. n -> Sizes64] BY <2>1, <1>3
  <2> QED BY <2>2 DEF Seq
<1> QED BY <1>4, <1>8, <1>9, <1>10, <1>11 DEF HeaderShape

(* Whatever a header says, the tables SzReadHeader2 makes of it are filled   *)
(* in, and every entry lies inside the block that SzArEx_Extract decodes for *)
(* it: the sums of the sizes do not wrap, and the last stream of a folder     *)
(* ends where the folder does.                                               *)
THEOREM TableSafety == HeadersSpec => []InsideBlock
<1> DEFINE Inv == part = "table" => HeaderShape(hdr) /\ TableInv
<1>1. HeadersInit => Inv
  <2> SUFFICES ASSUME HeadersInit, part = "table" PROVE HeaderShape(hdr) /\ TableInv
    OBVIOUS
  <2>1. Table!Init BY DEF HeadersInit
  <2>2. HeaderShape(hdr) BY <2>1, ListsShaped DEF Table!Init
  <2> QED BY <2>1, <2>2, TableStart
<1>2. Inv /\ [HeadersNext]_headersVars => Inv'
  <2> SUFFICES ASSUME Inv, [HeadersNext]_headersVars, part' = "table"
               PROVE  HeaderShape(hdr)' /\ TableInv'
    OBVIOUS
  <2>1. part = "table" /\ (Table!Next \/ UNCHANGED tableVars)
    <3>1. CASE HeadersNext BY <3>1 DEF HeadersNext
    <3>2. CASE UNCHANGED headersVars BY <3>2 DEF headersVars
    <3> QED BY <3>1, <3>2
  <2>2. HeaderShape(hdr) /\ TableInv BY <2>1
  <2> QED BY <2>1, <2>2, TableStep, TableStutter
<1>3. Inv => InsideBlock BY TableSound DEF InsideBlock
<1> QED BY <1>1, <1>2, <1>3, PTL DEF HeadersSpec

-----------------------------------------------------------------------------
(* Sums of the tables.  MapThenSumSet adds the elements of a set in an order  *)
(* of its own; over the numbers below n it comes to the sums one would write. *)

(* A set of numbers has a least one; one that has 0 and the successor of     *)
(* each number it has, has them all.                                         *)
Least(S) == CHOOSE k \in S : \A j \in S : k <= j

LEMMA LeastNatural ==
  ASSUME NEW S \in SUBSET Nat, S # {}
  PROVE Least(S) \in S /\ \A j \in S : Least(S) <= j
<1>1. PICK x \in S : \A y \in S : ~(<<y, x>> \in OpToRel(<, Nat))
  BY NatLessThanWellFounded, WFMin
<1>2. \A y \in S : ~(y < x) BY <1>1 DEF OpToRel
<1>3. \A y \in S : x <= y BY <1>2
<1> QED BY <1>3 DEF Least

LEMMA Induction ==
  ASSUME NEW T \in SUBSET Nat, 0 \in T, \A n \in Nat : n \in T => n + 1 \in T
  PROVE T = Nat
<1> SUFFICES ASSUME T # Nat PROVE FALSE OBVIOUS
<1> DEFINE x == Least(Nat \ T)
<1>1. Nat \ T \in SUBSET Nat /\ Nat \ T # {} OBVIOUS
<1>2. x \in Nat \ T /\ \A y \in Nat \ T : x <= y BY <1>1, LeastNatural
<1> HIDE DEF x
<1>3. x - 1 \in Nat BY <1>2
<1> QED BY <1>2, <1>3

Any(s) == CHOOSE x \in s : TRUE
Folded(F, S, g) ==
  g = [s \in SUBSET S |-> IF s = {} THEN 0 ELSE F[Any(s)] + g[s \ {Any(s)}]]

(* The element chosen from a set is one of it.                               *)
LEMMA AnyElement ==
  ASSUME NEW s, s # {}
  PROVE Any(s) \in s
BY DEF Any

(* The subsets with at most n elements                                       *)
Small(S, n) == {s \in SUBSET S : Cardinality(s) <= n}

(* A set without one of its elements has one element fewer.                  *)
LEMMA SmallShrinks ==
  ASSUME NEW S, IsFiniteSet(S), NEW s \in SUBSET S, NEW x \in s
  PROVE /\ s \ {x} \in SUBSET S /\ Cardinality(s) \in Nat \ {0}
        /\ Cardinality(s \ {x}) = Cardinality(s) - 1
<1>1. IsFiniteSet(s) BY FS_Subset
<1>2. IsFiniteSet(s \ {x}) /\ Cardinality(s \ {x}) = Cardinality(s) - 1
  BY <1>1, FS_RemoveElement
<1>3. Cardinality(s) \in Nat /\ Cardinality(s \ {x}) \in Nat
  BY <1>1, <1>2, FS_CardinalityType
<1> QED BY <1>2, <1>3

(* The fold that MapThenSumSet chooses exists on a finite set.               *)
LEMMA FoldExists ==
  ASSUME NEW S, IsFiniteSet(S), NEW F
  PROVE \E g : Folded(F, S, g)
<1> DEFINE Body(g, s) == IF s = {} THEN 0 ELSE F[Any(s)] + g[s \ {Any(s)}]
           Ok(n) == \E g : g = [s \in Small(S, n) |-> Body(g, s)]
           A == {n \in Nat : Ok(n)}
<1>1. 0 \in A
  <2>1. \A s \in Small(S, 0) : s = {}
    <3> SUFFICES ASSUME NEW s \in Small(S, 0), s # {} PROVE FALSE OBVIOUS
    <3>1. s \in SUBSET S /\ Cardinality(s) <= 0 BY DEF Small
    <3>2. Any(s) \in s BY AnyElement
    <3>3. Cardinality(s) \in Nat \ {0} BY <3>1, <3>2, SmallShrinks
    <3> QED BY <3>1, <3>3
  <2>2. [s \in Small(S, 0) |-> 0] = [s \in Small(S, 0) |-> Body([t \in Small(S, 0) |-> 0], s)]
    BY <2>1
  <2> QED BY <2>2
<1>2. ASSUME NEW n \in Nat, n \in A PROVE n + 1 \in A
  <2>1. PICK g : g = [s \in Small(S, n) |-> Body(g, s)] BY <1>2
  <2> DEFINE h == [s \in Small(S, n + 1) |-> Body(g, s)]
  <2>2. ASSUME NEW t \in Small(S, n) PROVE t \in Small(S, n + 1) /\ h[t] = g[t]
    <3>1. t \in SUBSET S /\ Cardinality(t) <= n BY DEF Small
    <3>2. Cardinality(t) \in Nat BY <3>1, FS_Subset, FS_CardinalityType
    <3>3. t \in Small(S, n + 1) BY <3>1, <3>2 DEF Small
    <3>4. h[t] = Body(g, t) BY <3>3
    <3>5. g[t] = Body(g, t) BY <2>1
    <3> QED BY <3>3, <3>4, <3>5
  <2>3. ASSUME NEW s \in Small(S, n + 1), s # {} PROVE s \ {Any(s)} \in Small(S, n)
    <3>1. s \in SUBSET S /\ Cardinality(s) <= n + 1 BY DEF Small
    <3>2. Any(s) \in s BY <2>3, AnyElement
    <3>3. /\ s \ {Any(s)} \in SUBSET S /\ Cardinality(s) \in Nat
          /\ Cardinality(s \ {Any(s)}) = Cardinality(s) - 1
      BY <3>1, <3>2, SmallShrinks
    <3> QED BY <3>1, <3>3 DEF Small
  <2>4. ASSUME NEW s \in Small(S, n + 1) PROVE Body(g, s) = Body(h, s)
    <3>1. CASE s = {} BY <3>1
    <3>2. CASE s # {}
      <4>1. h[s \ {Any(s)}] = g[s \ {Any(s)}] BY <2>2, <2>3, <3>2
      <4> HIDE DEF h
      <4> QED BY <4>1
    <3> QED BY <3>1, <3>2
  <2>5. h = [s \in Small(S, n + 1) |-> Body(h, s)]
    <3>1. h = [s \in Small(S, n + 1) |-> Body(g, s)] OBVIOUS
    <3> HIDE DEF h, Body
    <3> QED BY <2>4, <3>1
  <2>6. Ok(n + 1) BY <2>5
  <2> HIDE DEF Ok
  <2> QED BY <2>6
<1>3. A = Nat
  <2>1. A \subseteq Nat OBVIOUS
  <2>2. \A n \in A : n + 1 \in A BY <1>2, <2>1
  <2> HIDE DEF A
  <2> QED BY <1>1, <2>1, <2>2, Induction
<1>4. Cardinality(S) \in Nat BY FS_CardinalityType
<1>5. Ok(Cardinality(S)) BY <1>3, <1>4
<1>6. Small(S, Cardinality(S)) = SUBSET S
  <2>1. \A s \in SUBSET S : Cardinality(s) <= Cardinality(S) BY FS_Subset
  <2> QED BY <2>1 DEF Small
<1> QED BY <1>5, <1>6 DEF Folded

(* The element that is taken out of a sum does not matter.                   *)
Removes(F, S, g) == \A s \in SUBSET S : \A y \in s : g[s] = F[y] + g[s \ {y}]

(* ... and adds natural numbers, taken out in any order.                     *)
LEMMA FoldRemoves ==
  ASSUME NEW S, IsFiniteSet(S), NEW F, \A x \in S : F[x] \in Nat, NEW g, Folded(F, S, g)
  PROVE g \in [SUBSET S -> Nat] /\ g[{}] = 0 /\ Removes(F, S, g)
<1>1. ASSUME NEW s \in SUBSET S
      PROVE  /\ s = {} => g[s] = 0
             /\ s # {} => Any(s) \in s /\ g[s] = F[Any(s)] + g[s \ {Any(s)}]
  <2>1. g[s] = IF s = {} THEN 0 ELSE F[Any(s)] + g[s \ {Any(s)}] BY DEF Folded
  <2> QED BY <2>1, AnyElement
<1> DEFINE Good(s) == g[s] \in Nat /\ \A y \in s : g[s] = F[y] + g[s \ {y}]
           A == {n \in Nat : \A s \in SUBSET S : Cardinality(s) <= n => Good(s)}
<1>a. \A s \in SUBSET S : s = {} => Good(s) BY <1>1
<1>2. 0 \in A
  <2> SUFFICES ASSUME NEW s \in SUBSET S, Cardinality(s) <= 0 PROVE Good(s) OBVIOUS
  <2>1. s = {}
    <3> SUFFICES ASSUME NEW y \in s PROVE FALSE OBVIOUS
    <3>1. Cardinality(s) \in Nat \ {0} BY SmallShrinks
    <3> QED BY <3>1
  <2> QED BY <1>a, <2>1
<1>3. ASSUME NEW n \in Nat, n \in A PROVE n + 1 \in A
  <2> SUFFICES ASSUME NEW s \in SUBSET S, Cardinality(s) <= n + 1 PROVE Good(s) OBVIOUS
  <2>a. CASE s = {} BY <1>a, <2>a
  <2>b. SUFFICES ASSUME s # {} PROVE Good(s) BY <2>a
  <2> DEFINE x == Any(s)
  <2>2. x \in s /\ g[s] = F[x] + g[s \ {x}] BY <1>1, <2>b
  <2> HIDE DEF x
  <2>3. ASSUME NEW y \in s PROVE s \ {y} \in SUBSET S /\ Good(s \ {y}) /\ F[y] \in Nat
    <3>1. s \ {y} \in SUBSET S /\ Cardinality(s \ {y}) <= n BY SmallShrinks
    <3>2. Good(s \ {y}) BY <3>1, <1>3
    <3> QED BY <3>1, <3>2
  <2>4. g[s] \in Nat
    <3>1. F[x] \in Nat /\ g[s \ {x}] \in Nat BY <2>2, <2>3
    <3> QED BY <3>1, <2>2
  <2>5. ASSUME NEW y \in s PROVE g[s] = F[y] + g[s \ {y}]
    <3>1. CASE y = x BY <3>1, <2>2
    <3>2. CASE y # x
      <4> DEFINE u == (s \ {x}) \ {y}
      <4>1. u = (s \ {y}) \ {x} OBVIOUS
      <4>2. g[s \ {x}] = F[y] + g[u] BY <2>2, <2>3, <3>2
      <4>3. g[s \ {y}] = F[x] + g[u]
        <5>1. x \in s \ {y} BY <2>2, <3>2
        <5>2. g[s \ {y}] = F[x] + g[(s \ {y}) \ {x}] BY <2>3, <5>1
        <5> QED BY <4>1, <5>2
      <4>4. g[u] \in Nat
        <5>1. s \ {y} \in SUBSET S /\ x \in s \ {y} BY <2>2, <3>2
        <5>2. /\ Cardinality(s) \in Nat /\ Cardinality(s \ {y}) = Cardinality(s) - 1
              /\ Cardinality(u) = Cardinality(s \ {y}) - 1
          BY <4>1, <5>1, SmallShrinks
        <5>3. u \in SUBSET S /\ Cardinality(u) <= n BY <5>2
        <5> QED BY <5>3, <1>3
      <4>5. F[x] \in Nat /\ F[y] \in Nat BY <2>2
      <4> HIDE DEF u
      <4> QED BY <2>2, <4>2, <4>3, <4>4, <4>5
    <3> QED BY <3>1, <3>2
  <2> QED BY <2>4, <2>5
<1>4. A = Nat
  <2>1. A \subseteq Nat OBVIOUS
  <2>2. \A n \in A : n + 1 \in A BY <1>3, <2>1
  <2> HIDE DEF A
  <2> QED BY <1>2, <2>1, <2>2, Induction
<1>5. ASSUME NEW s \in SUBSET S PROVE Good(s)
  <2>1. Cardinality(s) \in Nat BY FS_Subset, FS_CardinalityType
  <2>2. Cardinality(s) \in A BY <1>4, <2>1
  <2> QED BY <2>1, <2>2
<1>6. g \in [SUBSET S -> Nat]
  <2>1. g = [s \in SUBSET S |-> g[s]] BY DEF Folded
  <2> QED BY <1>5, <2>1
<1>7. g[{}] = 0 BY <1>1
<1>8. Removes(F, S, g) BY <1>5 DEF Removes
<1> QED BY <1>6, <1>7, <1>8

(* The sum of the first n elements of F                                      *)
Prefixes(F, n, pre) ==
  /\ pre \in [0 .. n -> Nat] /\ pre[0] = 0
  /\ \A k \in 0 .. n - 1 : pre[k + 1] = pre[k] + F[k]
SumsTo(F, n, v) == \E pre : Prefixes(F, n, pre) /\ v = pre[n]

(* There is one sum of the first n elements.                                 *)
LEMMA SumsAgree ==
  ASSUME NEW F, NEW n \in Nat, NEW m \in Nat, n <= m, NEW x, NEW y,
         Prefixes(F, n, x), Prefixes(F, m, y)
  PROVE x[n] = y[n]
<1> DEFINE A == {k \in Nat : k <= n => x[k] = y[k]}
<1>1. 0 \in A BY DEF Prefixes
<1>2. ASSUME NEW k \in Nat, k \in A PROVE k + 1 \in A
  <2> SUFFICES ASSUME k + 1 <= n PROVE x[k + 1] = y[k + 1] OBVIOUS
  <2>1. k \in 0 .. n - 1 /\ k \in 0 .. m - 1 /\ x[k] = y[k] BY <1>2
  <2> QED BY <2>1 DEF Prefixes
<1>3. A = Nat
  <2>1. A \subseteq Nat OBVIOUS
  <2> HIDE DEF A
  <2> QED BY <1>1, <1>2, <2>1, Induction
<1> QED BY <1>3

(* The sum of no element                                                     *)
LEMMA SumOfNone ==
  ASSUME NEW F, NEW v, SumsTo(F, 0, v)
  PROVE v = 0
BY DEF SumsTo, Prefixes

(* ... and of one element more.                                              *)
LEMMA SumOfMore ==
  ASSUME NEW F, NEW n \in Nat, NEW v, NEW w, SumsTo(F, n, v), SumsTo(F, n + 1, w)
  PROVE v \in Nat /\ w \in Nat /\ w = v + F[n]
<1>1. PICK x : Prefixes(F, n, x) /\ v = x[n] BY DEF SumsTo
<1>2. PICK y : Prefixes(F, n + 1, y) /\ w = y[n + 1] BY DEF SumsTo
<1>3. x[n] = y[n] BY <1>1, <1>2, SumsAgree
<1>4. n \in 0 .. n /\ n + 1 \in 0 .. n + 1 /\ n \in 0 .. (n + 1) - 1 OBVIOUS
<1> QED BY <1>1, <1>2, <1>3, <1>4 DEF Prefixes

(* ... is what folding it gives.                                             *)
LEMMA FoldSums ==
  ASSUME NEW n \in Nat, NEW F, NEW S, S = 0 .. n - 1, \A k \in S : F[k] \in Nat,
         NEW g, Folded(F, S, g)
  PROVE SumsTo(F, n, g[S])
<1> DEFINE pre == [k \in 0 .. n |-> g[0 .. k - 1]]
<1>1. IsFiniteSet(S) BY FS_Interval
<1>2. g \in [SUBSET S -> Nat] /\ g[{}] = 0 /\ Removes(F, S, g) BY <1>1, FoldRemoves
<1>3. ASSUME NEW k \in 0 .. n PROVE 0 .. k - 1 \in SUBSET S OBVIOUS
<1>4. pre \in [0 .. n -> Nat] BY <1>2, <1>3
<1>5. pre[0] = 0
  <2>1. 0 .. 0 - 1 = {} OBVIOUS
  <2>2. pre[0] = g[0 .. 0 - 1] OBVIOUS
  <2> QED BY <2>1, <2>2, <1>2
<1>6. ASSUME NEW k \in 0 .. n - 1 PROVE pre[k + 1] = pre[k] + F[k]
  <2> DEFINE s == 0 .. (k + 1) - 1
  <2>1. k \in s /\ s \ {k} = 0 .. k - 1 /\ s \in SUBSET S OBVIOUS
  <2>3. pre[k + 1] = g[s] /\ pre[k] = g[0 .. k - 1] OBVIOUS
  <2>2. g[s] = F[k] + g[0 .. k - 1]
    <3> HIDE DEF s
    <3>1. g[s] = F[k] + g[s \ {k}] BY <2>1, <1>2 DEF Removes
    <3> QED BY <2>1, <3>1
  <2>4. g[0 .. k - 1] \in Nat /\ F[k] \in Nat BY <1>2, <1>3
  <2> HIDE DEF pre, s
  <2> QED BY <2>2, <2>3, <2>4
<1>7. g[S] = pre[n] OBVIOUS
<1> HIDE DEF pre
<1> QED BY <1>4, <1>5, <1>6, <1>7 DEF SumsTo, Prefixes

-----------------------------------------------------------------------------
(* The sums over folders and streams that SzFileTable speaks of              *)

CountSum(h, S) == Table!MapThenSumSet(LAMBDA g : Table!Count(h, g), S)
SizesSum(h, S) == Table!MapThenSumSet(LAMBDA g : Table!SizesOf(h, g), S)
DigestSum(h, S) == Table!MapThenSumSet(LAMBDA g : Table!DigestsOf(h, g), S)
UnpackSum(h, S) == Table!MapThenSumSet(LAMBDA g : h.folderSize[g], S)
StoredSum(h, b, S) == Table!MapThenSumSet(LAMBDA m : h.sizes[b + m + 1], S)

(* The sums that describe the header are sums of first elements: of the      *)
(* streams of the folders,                                                   *)
LEMMA CountsAdd ==
  ASSUME NEW n \in Nat, NEW S, S = 0 .. n - 1, NEW F,
         \A k \in S : F[k] \in Nat /\ F[k] = Table!Count(hdr, k)
  PROVE SumsTo(F, n, CountSum(hdr, S))
<1> DEFINE it == CHOOSE g : g = [s \in SUBSET S |-> IF s = {} THEN 0
                                  ELSE Table!Count(hdr, CHOOSE x \in s : TRUE) + g[s \ {CHOOSE x \in s : TRUE}]]
<1>1. CountSum(hdr, S) = it[S]
  BY DEF CountSum, Table!MapThenSumSet, Table!MapThenFoldSet
<1>2. PICK g : Folded(F, S, g)
  <2>1. IsFiniteSet(S) BY FS_Interval
  <2> QED BY <2>1, FoldExists
<1>3. \A s \in SUBSET S : s # {} => F[Any(s)] = Table!Count(hdr, Any(s)) BY AnyElement
<1>4. g = [s \in SUBSET S |-> IF s = {} THEN 0
                                ELSE Table!Count(hdr, CHOOSE x \in s : TRUE) + g[s \ {CHOOSE x \in s : TRUE}]]
  BY <1>2, <1>3 DEF Folded, Any
<1>5. it = [s \in SUBSET S |-> IF s = {} THEN 0
                                 ELSE Table!Count(hdr, CHOOSE x \in s : TRUE) + it[s \ {CHOOSE x \in s : TRUE}]]
  BY ONLY <1>4, Zenon DEF it
<1> HIDE DEF it
<1>6. Folded(F, S, it) BY <1>3, <1>5 DEF Folded, Any
<1>7. \A k \in S : F[k] \in Nat OBVIOUS
<1>8. SumsTo(F, n, it[S]) BY ONLY <1>6, <1>7, n \in Nat, S = 0 .. n - 1, FoldSums
<1> QED BY ONLY <1>1, <1>8

(* of the sizes that the header lists of them,                               *)
LEMMA SizesAdd ==
  ASSUME NEW n \in Nat, NEW S, S = 0 .. n - 1, NEW F,
         \A k \in S : F[k] \in Nat /\ F[k] = Table!SizesOf(hdr, k)
  PROVE SumsTo(F, n, SizesSum(hdr, S))
<1> DEFINE it == CHOOSE g : g = [s \in SUBSET S |-> IF s = {} THEN 0
                                  ELSE Table!SizesOf(hdr, CHOOSE x \in s : TRUE) + g[s \ {CHOOSE x \in s : TRUE}]]
<1>1. SizesSum(hdr, S) = it[S]
  BY DEF SizesSum, Table!MapThenSumSet, Table!MapThenFoldSet
<1>2. PICK g : Folded(F, S, g)
  <2>1. IsFiniteSet(S) BY FS_Interval
  <2> QED BY <2>1, FoldExists
<1>3. \A s \in SUBSET S : s # {} => F[Any(s)] = Table!SizesOf(hdr, Any(s)) BY AnyElement
<1>4. g = [s \in SUBSET S |-> IF s = {} THEN 0
                                ELSE Table!SizesOf(hdr, CHOOSE x \in s : TRUE) + g[s \ {CHOOSE x \in s : TRUE}]]
  BY <1>2, <1>3 DEF Folded, Any
<1>5. it = [s \in SUBSET S |-> IF s = {} THEN 0
                                 ELSE Table!SizesOf(hdr, CHOOSE x \in s : TRUE) + it[s \ {CHOOSE x \in s : TRUE}]]
  BY ONLY <1>4, Zenon DEF it
<1> HIDE DEF it
<1>6. Folded(F, S, it) BY <1>3, <1>5 DEF Folded, Any
<1>7. \A k \in S : F[k] \in Nat OBVIOUS
<1>8. SumsTo(F, n, it[S]) BY ONLY <1>6, <1>7, n \in Nat, S = 0 .. n - 1, FoldSums
<1> QED BY ONLY <1>1, <1>8

(* of their digests,                                                         *)
LEMMA DigestsAdd ==
  ASSUME NEW n \in Nat, NEW S, S = 0 .. n - 1, NEW F,
         \A k \in S : F[k] \in Nat /\ F[k] = Table!DigestsOf(hdr, k)
  PROVE SumsTo(F, n, DigestSum(hdr, S))
<1> DEFINE it == CHOOSE g : g = [s \in SUBSET S |-> IF s = {} THEN 0
                                  ELSE Table!DigestsOf(hdr, CHOOSE x \in s : TRUE) + g[s \ {CHOOSE x \in s : TRUE}]]
<1>1. DigestSum(hdr, S) = it[S]
  BY DEF DigestSum, Table!MapThenSumSet, Table!MapThenFoldSet
<1>2. PICK g : Folded(F, S, g)
  <2>1. IsFiniteSet(S) BY FS_Interval
  <2> QED BY <2>1, FoldExists
<1>3. \A s \in SUBSET S : s # {} => F[Any(s)] = Table!DigestsOf(hdr, Any(s)) BY AnyElement
<1>4. g = [s \in SUBSET S |-> IF s = {} THEN 0
                                ELSE Table!DigestsOf(hdr, CHOOSE x \in s : TRUE) + g[s \ {CHOOSE x \in s : TRUE}]]
  BY <1>2, <1>3 DEF Folded, Any
<1>5. it = [s \in SUBSET S |-> IF s = {} THEN 0
                                 ELSE Table!DigestsOf(hdr, CHOOSE x \in s : TRUE) + it[s \ {CHOOSE x \in s : TRUE}]]
  BY ONLY <1>4, Zenon DEF it
<1> HIDE DEF it
<1>6. Folded(F, S, it) BY <1>3, <1>5 DEF Folded, Any
<1>7. \A k \in S : F[k] \in Nat OBVIOUS
<1>8. SumsTo(F, n, it[S]) BY ONLY <1>6, <1>7, n \in Nat, S = 0 .. n - 1, FoldSums
<1> QED BY ONLY <1>1, <1>8

(* of the sizes of the folders,                                              *)
LEMMA UnpackAdds ==
  ASSUME NEW n \in Nat, NEW S, S = 0 .. n - 1, NEW F,
         \A k \in S : F[k] \in Nat /\ F[k] = hdr.folderSize[k]
  PROVE SumsTo(F, n, UnpackSum(hdr, S))
<1> DEFINE it == CHOOSE g : g = [s \in SUBSET S |-> IF s = {} THEN 0
                                  ELSE hdr.folderSize[CHOOSE x \in s : TRUE] + g[s \ {CHOOSE x \in s : TRUE}]]
<1>1. UnpackSum(hdr, S) = it[S]
  BY DEF UnpackSum, Table!MapThenSumSet, Table!MapThenFoldSet
<1>2. PICK g : Folded(F, S, g)
  <2>1. IsFiniteSet(S) BY FS_Interval
  <2> QED BY <2>1, FoldExists
<1>3. \A s \in SUBSET S : s # {} => F[Any(s)] = hdr.folderSize[Any(s)] BY AnyElement
<1>4. g = [s \in SUBSET S |-> IF s = {} THEN 0
                                ELSE hdr.folderSize[CHOOSE x \in s : TRUE] + g[s \ {CHOOSE x \in s : TRUE}]]
  BY <1>2, <1>3 DEF Folded, Any
<1>5. it = [s \in SUBSET S |-> IF s = {} THEN 0
                                 ELSE hdr.folderSize[CHOOSE x \in s : TRUE] + it[s \ {CHOOSE x \in s : TRUE}]]
  BY ONLY <1>4, Zenon DEF it
<1> HIDE DEF it
<1>6. Folded(F, S, it) BY <1>3, <1>5 DEF Folded, Any
<1>7. \A k \in S : F[k] \in Nat OBVIOUS
<1>8. SumsTo(F, n, it[S]) BY ONLY <1>6, <1>7, n \in Nat, S = 0 .. n - 1, FoldSums
<1> QED BY ONLY <1>1, <1>8

(* and of the sizes of the streams in a folder.                              *)
LEMMA StoredAdds ==
  ASSUME NEW b, NEW n \in Nat, NEW S, S = 0 .. n - 1, NEW F,
         \A k \in S : F[k] \in Nat /\ F[k] = hdr.sizes[b + k + 1]
  PROVE SumsTo(F, n, StoredSum(hdr, b, S))
<1> DEFINE it == CHOOSE g : g = [s \in SUBSET S |-> IF s = {} THEN 0
                                  ELSE hdr.sizes[b + (CHOOSE x \in s : TRUE) + 1] + g[s \ {CHOOSE x \in s : TRUE}]]
<1>1. StoredSum(hdr, b, S) = it[S]
  BY DEF StoredSum, Table!MapThenSumSet, Table!MapThenFoldSet
<1>2. PICK g : Folded(F, S, g)
  <2>1. IsFiniteSet(S) BY FS_Interval
  <2> QED BY <2>1, FoldExists
<1>3. \A s \in SUBSET S : s # {} => F[Any(s)] = hdr.sizes[b + Any(s) + 1] BY AnyElement
<1>4. g = [s \in SUBSET S |-> IF s = {} THEN 0
                                ELSE hdr.sizes[b + (CHOOSE x \in s : TRUE) + 1] + g[s \ {CHOOSE x \in s : TRUE}]]
  BY <1>2, <1>3 DEF Folded, Any
<1>5. it = [s \in SUBSET S |-> IF s = {} THEN 0
                                 ELSE hdr.sizes[b + (CHOOSE x \in s : TRUE) + 1] + it[s \ {CHOOSE x \in s : TRUE}]]
  BY ONLY <1>4, Zenon DEF it
<1> HIDE DEF it
<1>6. Folded(F, S, it) BY <1>3, <1>5 DEF Folded, Any
<1>7. \A k \in S : F[k] \in Nat OBVIOUS
<1>8. SumsTo(F, n, it[S]) BY ONLY <1>6, <1>7, n \in Nat, S = 0 .. n - 1, FoldSums
<1> QED BY ONLY <1>1, <1>8

(* The folders before f, and what lies in them                               *)
Below(h, f) == {g \in Table!Folders(h) : g < f}
FirstOf(h, f) == CountSum(h, Below(h, f))
SizesBefore(h, f) == SizesSum(h, Below(h, f))
DigestsBefore(h, f) == DigestSum(h, Below(h, f))
UnpackedBefore(h, f) == UnpackSum(h, Below(h, f))

(* The sizes of the first n streams of folder f                              *)
Stored(h, f, n) == StoredSum(h, SizesBefore(h, f), 0 .. n - 1)

(* A sum of first elements is a natural number.                              *)
LEMMA SumIsNat ==
  ASSUME NEW F, NEW n \in Nat, NEW v, SumsTo(F, n, v)
  PROVE v \in Nat
BY DEF SumsTo, Prefixes

(* What never falls from one number to the next never falls.                 *)
LEMMA Grows ==
  ASSUME NEW m \in Nat, NEW x, \A n \in 0 .. m : x[n] \in Nat,
         \A n \in 0 .. m - 1 : x[n] <= x[n + 1],
         NEW a \in 0 .. m, NEW c \in 0 .. m, a <= c
  PROVE x[a] <= x[c]
<1> DEFINE A == {d \in Nat : a + d <= m => x[a] <= x[a + d]}
<1>1. 0 \in A
  <2>1. a + 0 = a /\ x[a] \in Nat OBVIOUS
  <2> QED BY <2>1
<1>2. ASSUME NEW d \in Nat, d \in A PROVE d + 1 \in A
  <2> SUFFICES ASSUME a + (d + 1) <= m PROVE x[a] <= x[a + (d + 1)] OBVIOUS
  <2> DEFINE e == a + d
  <2>1. e \in 0 .. m - 1 /\ e \in 0 .. m /\ e + 1 \in 0 .. m /\ a + (d + 1) = e + 1 OBVIOUS
  <2>2. x[a] <= x[e] BY <1>2, <2>1
  <2> HIDE DEF e
  <2>3. x[e] <= x[e + 1] BY <2>1
  <2>4. x[a] \in Nat /\ x[e] \in Nat /\ x[e + 1] \in Nat BY <2>1
  <2> QED BY <2>1, <2>2, <2>3, <2>4
<1>3. A = Nat
  <2>1. A \subseteq Nat OBVIOUS
  <2> HIDE DEF A
  <2> QED BY <1>1, <1>2, <2>1, Induction
<1>4. c - a \in Nat /\ a + (c - a) = c OBVIOUS
<1>5. c - a \in A BY <1>3, <1>4
<1> QED BY <1>4, <1>5

(* The folders before folder n                                               *)
LEMMA BelowIs ==
  ASSUME HeaderShape(hdr), NEW n \in 0 .. NumFolders
  PROVE n \in Nat /\ Below(hdr, n) = 0 .. n - 1
<1>1. NumFolders \in Nat /\ Table!Folders(hdr) = 0 .. NumFolders - 1 BY ShapeFacts
<1> QED BY <1>1 DEF Below

(* The sizes and digests that the header holds of a folder                   *)
LEMMA ListsOf ==
  ASSUME HeaderShape(hdr), NEW f \in 0 .. NumFolders - 1
  PROVE /\ Table!Count(hdr, f) \in Nat /\ Table!SizesOf(hdr, f) \in Nat
        /\ Table!DigestsOf(hdr, f) \in Nat /\ hdr.folderSize[f] \in Nat
        /\ hdr.folderSize[f] \in Sizes64
<1>1. Table!Count(hdr, f) \in Nat /\ hdr.folderSize[f] \in Sizes64 BY ShapeFacts
<1>2. hdr.folderSize[f] \in Nat BY <1>1, TableAssumption DEF Sizes64
<1>3. Table!SizesOf(hdr, f) \in Nat /\ Table!DigestsOf(hdr, f) \in Nat
  BY <1>1 DEF Table!SizesOf, Table!DigestsOf
<1> QED BY <1>1, <1>2, <1>3

(* The streams in the folders before n are a sum of first elements,          *)
LEMMA FirstSums ==
  ASSUME HeaderShape(hdr), NEW n \in 0 .. NumFolders
  PROVE SumsTo([g \in 0 .. NumFolders - 1 |-> Table!Count(hdr, g)], n, FirstOf(hdr, n))
<1> DEFINE F == [g \in 0 .. NumFolders - 1 |-> Table!Count(hdr, g)]
<1>1. NumFolders \in Nat BY ShapeFacts
<1>2. n \in Nat /\ Below(hdr, n) = 0 .. n - 1 BY BelowIs
<1>3. \A k \in Below(hdr, n) : F[k] \in Nat /\ F[k] = Table!Count(hdr, k)
  BY <1>1, <1>2, ListsOf
<1> HIDE DEF F
<1>4. SumsTo(F, n, CountSum(hdr, Below(hdr, n))) BY <1>2, <1>3, CountsAdd
<1> QED BY <1>4 DEF FirstOf, F

(* so they grow by those of each folder.                                     *)
LEMMA FirstGrows ==
  ASSUME HeaderShape(hdr)
  PROVE /\ FirstOf(hdr, 0) = 0
        /\ \A n \in 0 .. NumFolders : FirstOf(hdr, n) \in Nat
        /\ \A n \in 0 .. NumFolders - 1 :
             FirstOf(hdr, n + 1) = FirstOf(hdr, n) + Table!Count(hdr, n)
        /\ \A n, m \in 0 .. NumFolders : n <= m => FirstOf(hdr, n) <= FirstOf(hdr, m)
<1> DEFINE F == [g \in 0 .. NumFolders - 1 |-> Table!Count(hdr, g)]
           x == [n \in 0 .. NumFolders |-> FirstOf(hdr, n)]
<1>1. NumFolders \in Nat BY ShapeFacts
<1>2. \A n \in 0 .. NumFolders : n \in Nat /\ SumsTo(F, n, x[n]) BY <1>1, FirstSums
<1>3. \A n \in 0 .. NumFolders - 1 : F[n] = Table!Count(hdr, n) /\ F[n] \in Nat
  BY ListsOf
<1>4. \A n \in 0 .. NumFolders : x[n] = FirstOf(hdr, n) OBVIOUS
<1> HIDE DEF F, x
<1>5. x[0] = 0 BY <1>1, <1>2, SumOfNone
<1>6. \A n \in 0 .. NumFolders : x[n] \in Nat BY <1>2, SumIsNat
<1>7. ASSUME NEW n \in 0 .. NumFolders - 1 PROVE x[n + 1] = x[n] + F[n]
  <2>1. n \in 0 .. NumFolders /\ n + 1 \in 0 .. NumFolders /\ n \in Nat BY <1>1
  <2>2. SumsTo(F, n, x[n]) /\ SumsTo(F, n + 1, x[n + 1]) BY <1>2, <2>1
  <2> QED BY <2>1, <2>2, SumOfMore
<1>8. ASSUME NEW n \in 0 .. NumFolders - 1 PROVE x[n] <= x[n + 1]
  <2>1. n \in 0 .. NumFolders BY <1>1
  <2>2. x[n] \in Nat /\ F[n] \in Nat /\ x[n + 1] = x[n] + F[n] BY <1>3, <1>6, <1>7, <2>1
  <2> QED BY <2>2
<1>9. \A n, m \in 0 .. NumFolders : n <= m => x[n] <= x[m]
  BY <1>1, <1>6, <1>8, Grows
<1>10. \A n \in 0 .. NumFolders - 1 : n \in 0 .. NumFolders /\ n + 1 \in 0 .. NumFolders
  BY <1>1
<1>11. 0 \in 0 .. NumFolders BY <1>1
<1> QED BY <1>3, <1>4, <1>5, <1>6, <1>7, <1>9, <1>10, <1>11

(* The same of the sizes listed for the folders before n                     *)
LEMMA SizesSums ==
  ASSUME HeaderShape(hdr), NEW n \in 0 .. NumFolders
  PROVE SumsTo([g \in 0 .. NumFolders - 1 |-> Table!SizesOf(hdr, g)], n, SizesBefore(hdr, n))
<1> DEFINE F == [g \in 0 .. NumFolders - 1 |-> Table!SizesOf(hdr, g)]
<1>1. NumFolders \in Nat BY ShapeFacts
<1>2. n \in Nat /\ Below(hdr, n) = 0 .. n - 1 BY BelowIs
<1>3. \A k \in Below(hdr, n) : F[k] \in Nat /\ F[k] = Table!SizesOf(hdr, k)
  BY <1>1, <1>2, ListsOf
<1> HIDE DEF F
<1>4. SumsTo(F, n, SizesSum(hdr, Below(hdr, n))) BY <1>2, <1>3, SizesAdd
<1> QED BY <1>4 DEF SizesBefore, F

(* ... which grow by those of each folder,                                   *)
LEMMA SizesGrow ==
  ASSUME HeaderShape(hdr)
  PROVE /\ SizesBefore(hdr, 0) = 0
        /\ \A n \in 0 .. NumFolders : SizesBefore(hdr, n) \in Nat
        /\ \A n \in 0 .. NumFolders - 1 :
             SizesBefore(hdr, n + 1) = SizesBefore(hdr, n) + Table!SizesOf(hdr, n)
        /\ \A n, m \in 0 .. NumFolders : n <= m => SizesBefore(hdr, n) <= SizesBefore(hdr, m)
<1> DEFINE F == [g \in 0 .. NumFolders - 1 |-> Table!SizesOf(hdr, g)]
           x == [n \in 0 .. NumFolders |-> SizesBefore(hdr, n)]
<1>1. NumFolders \in Nat BY ShapeFacts
<1>2. \A n \in 0 .. NumFolders : n \in Nat /\ SumsTo(F, n, x[n]) BY <1>1, SizesSums
<1>3. \A n \in 0 .. NumFolders - 1 : F[n] = Table!SizesOf(hdr, n) /\ F[n] \in Nat
  BY ListsOf
<1>4. \A n \in 0 .. NumFolders : x[n] = SizesBefore(hdr, n) OBVIOUS
<1> HIDE DEF F, x
<1>5. x[0] = 0 BY <1>1, <1>2, SumOfNone
<1>6. \A n \in 0 .. NumFolders : x[n] \in Nat BY <1>2, SumIsNat
<1>7. ASSUME NEW n \in 0 .. NumFolders - 1 PROVE x[n + 1] = x[n] + F[n]
  <2>1. n \in 0 .. NumFolders /\ n + 1 \in 0 .. NumFolders /\ n \in Nat BY <1>1
  <2>2. SumsTo(F, n, x[n]) /\ SumsTo(F, n + 1, x[n + 1]) BY <1>2, <2>1
  <2> QED BY <2>1, <2>2, SumOfMore
<1>8. ASSUME NEW n \in 0 .. NumFolders - 1 PROVE x[n] <= x[n + 1]
  <2>1. n \in 0 .. NumFolders BY <1>1
  <2>2. x[n] \in Nat /\ F[n] \in Nat /\ x[n + 1] = x[n] + F[n] BY <1>3, <1>6, <1>7, <2>1
  <2> QED BY <2>2
<1>9. \A n, m \in 0 .. NumFolders : n <= m => x[n] <= x[m]
  BY <1>1, <1>6, <1>8, Grows
<1>10. \A n \in 0 .. NumFolders - 1 : n \in 0 .. NumFolders /\ n + 1 \in 0 .. NumFolders
  BY <1>1
<1>11. 0 \in 0 .. NumFolders BY <1>1
<1> QED BY <1>3, <1>4, <1>5, <1>6, <1>7, <1>9, <1>10, <1>11

(* of the digests listed for them                                            *)
LEMMA DigestsSums ==
  ASSUME HeaderShape(hdr), NEW n \in 0 .. NumFolders
  PROVE SumsTo([g \in 0 .. NumFolders - 1 |-> Table!DigestsOf(hdr, g)], n, DigestsBefore(hdr, n))
<1> DEFINE F == [g \in 0 .. NumFolders - 1 |-> Table!DigestsOf(hdr, g)]
<1>1. NumFolders \in Nat BY ShapeFacts
<1>2. n \in Nat /\ Below(hdr, n) = 0 .. n - 1 BY BelowIs
<1>3. \A k \in Below(hdr, n) : F[k] \in Nat /\ F[k] = Table!DigestsOf(hdr, k)
  BY <1>1, <1>2, ListsOf
<1> HIDE DEF F
<1>4. SumsTo(F, n, DigestSum(hdr, Below(hdr, n))) BY <1>2, <1>3, DigestsAdd
<1> QED BY <1>4 DEF DigestsBefore, F

(* ... which grow by those of each folder,                                   *)
LEMMA DigestsGrow ==
  ASSUME HeaderShape(hdr)
  PROVE /\ DigestsBefore(hdr, 0) = 0
        /\ \A n \in 0 .. NumFolders : DigestsBefore(hdr, n) \in Nat
        /\ \A n \in 0 .. NumFolders - 1 :
             DigestsBefore(hdr, n + 1) = DigestsBefore(hdr, n) + Table!DigestsOf(hdr, n)
        /\ \A n, m \in 0 .. NumFolders : n <= m => DigestsBefore(hdr, n) <= DigestsBefore(hdr, m)
<1> DEFINE F == [g \in 0 .. NumFolders - 1 |-> Table!DigestsOf(hdr, g)]
           x == [n \in 0 .. NumFolders |-> DigestsBefore(hdr, n)]
<1>1. NumFolders \in Nat BY ShapeFacts
<1>2. \A n \in 0 .. NumFolders : n \in Nat /\ SumsTo(F, n, x[n]) BY <1>1, DigestsSums
<1>3. \A n \in 0 .. NumFolders - 1 : F[n] = Table!DigestsOf(hdr, n) /\ F[n] \in Nat
  BY ListsOf
<1>4. \A n \in 0 .. NumFolders : x[n] = DigestsBefore(hdr, n) OBVIOUS
<1> HIDE DEF F, x
<1>5. x[0] = 0 BY <1>1, <1>2, SumOfNone
<1>6. \A n \in 0 .. NumFolders : x[n] \in Nat BY <1>2, SumIsNat
<1>7. ASSUME NEW n \in 0 .. NumFolders - 1 PROVE x[n + 1] = x[n] + F[n]
  <2>1. n \in 0 .. NumFolders /\ n + 1 \in 0 .. NumFolders /\ n \in Nat BY <1>1
  <2>2. SumsTo(F, n, x[n]) /\ SumsTo(F, n + 1, x[n + 1]) BY <1>2, <2>1
  <2> QED BY <2>1, <2>2, SumOfMore
<1>8. ASSUME NEW n \in 0 .. NumFolders - 1 PROVE x[n] <= x[n + 1]
  <2>1. n \in 0 .. NumFolders BY <1>1
  <2>2. x[n] \in Nat /\ F[n] \in Nat /\ x[n + 1] = x[n] + F[n] BY <1>3, <1>6, <1>7, <2>1
  <2> QED BY <2>2
<1>9. \A n, m \in 0 .. NumFolders : n <= m => x[n] <= x[m]
  BY <1>1, <1>6, <1>8, Grows
<1>10. \A n \in 0 .. NumFolders - 1 : n \in 0 .. NumFolders /\ n + 1 \in 0 .. NumFolders
  BY <1>1
<1>11. 0 \in 0 .. NumFolders BY <1>1
<1> QED BY <1>3, <1>4, <1>5, <1>6, <1>7, <1>9, <1>10, <1>11

(* and of the bytes they unpack to                                           *)
LEMMA UnpackedSums ==
  ASSUME HeaderShape(hdr), NEW n \in 0 .. NumFolders
  PROVE SumsTo([g \in 0 .. NumFolders - 1 |-> hdr.folderSize[g]], n, UnpackedBefore(hdr, n))
<1> DEFINE F == [g \in 0 .. NumFolders - 1 |-> hdr.folderSize[g]]
<1>1. NumFolders \in Nat BY ShapeFacts
<1>2. n \in Nat /\ Below(hdr, n) = 0 .. n - 1 BY BelowIs
<1>3. \A k \in Below(hdr, n) : F[k] \in Nat /\ F[k] = hdr.folderSize[k]
  BY <1>1, <1>2, ListsOf
<1> HIDE DEF F
<1>4. SumsTo(F, n, UnpackSum(hdr, Below(hdr, n))) BY <1>2, <1>3, UnpackAdds
<1> QED BY <1>4 DEF UnpackedBefore, F

(* ... which grow by the size of each folder.                                *)
LEMMA UnpackedGrow ==
  ASSUME HeaderShape(hdr)
  PROVE /\ UnpackedBefore(hdr, 0) = 0
        /\ \A n \in 0 .. NumFolders : UnpackedBefore(hdr, n) \in Nat
        /\ \A n \in 0 .. NumFolders - 1 :
             UnpackedBefore(hdr, n + 1) = UnpackedBefore(hdr, n) + hdr.folderSize[n]
        /\ \A n, m \in 0 .. NumFolders : n <= m => UnpackedBefore(hdr, n) <= UnpackedBefore(hdr, m)
<1> DEFINE F == [g \in 0 .. NumFolders - 1 |-> hdr.folderSize[g]]
           x == [n \in 0 .. NumFolders |-> UnpackedBefore(hdr, n)]
<1>1. NumFolders \in Nat BY ShapeFacts
<1>2. \A n \in 0 .. NumFolders : n \in Nat /\ SumsTo(F, n, x[n]) BY <1>1, UnpackedSums
<1>3. \A n \in 0 .. NumFolders - 1 : F[n] = hdr.folderSize[n] /\ F[n] \in Nat
  BY ListsOf
<1>4. \A n \in 0 .. NumFolders : x[n] = UnpackedBefore(hdr, n) OBVIOUS
<1> HIDE DEF F, x
<1>5. x[0] = 0 BY <1>1, <1>2, SumOfNone
<1>6. \A n \in 0 .. NumFolders : x[n] \in Nat BY <1>2, SumIsNat
<1>7. ASSUME NEW n \in 0 .. NumFolders - 1 PROVE x[n + 1] = x[n] + F[n]
  <2>1. n \in 0 .. NumFolders /\ n + 1 \in 0 .. NumFolders /\ n \in Nat BY <1>1
  <2>2. SumsTo(F, n, x[n]) /\ SumsTo(F, n + 1, x[n + 1]) BY <1>2, <2>1
  <2> QED BY <2>1, <2>2, SumOfMore
<1>8. ASSUME NEW n \in 0 .. NumFolders - 1 PROVE x[n] <= x[n + 1]
  <2>1. n \in 0 .. NumFolders BY <1>1
  <2>2. x[n] \in Nat /\ F[n] \in Nat /\ x[n + 1] = x[n] + F[n] BY <1>3, <1>6, <1>7, <2>1
  <2> QED BY <2>2
<1>9. \A n, m \in 0 .. NumFolders : n <= m => x[n] <= x[m]
  BY <1>1, <1>6, <1>8, Grows
<1>10. \A n \in 0 .. NumFolders - 1 : n \in 0 .. NumFolders /\ n + 1 \in 0 .. NumFolders
  BY <1>1
<1>11. 0 \in 0 .. NumFolders BY <1>1
<1> QED BY <1>3, <1>4, <1>5, <1>6, <1>7, <1>9, <1>10, <1>11

(* The sizes of a folder, as far as the header has them                      *)
LEMMA StoredFacts ==
  ASSUME HeaderShape(hdr), NEW b \in Nat, NEW n \in Nat, b + n <= Len(hdr.sizes)
  PROVE /\ StoredSum(hdr, b, 0 .. n - 1) \in Nat
        /\ n = 0 => StoredSum(hdr, b, 0 .. n - 1) = 0
        /\ b + n < Len(hdr.sizes) =>
             /\ hdr.sizes[b + n + 1] \in Sizes64 /\ hdr.sizes[b + n + 1] \in Nat
             /\ StoredSum(hdr, b, 0 .. (n + 1) - 1)
                  = StoredSum(hdr, b, 0 .. n - 1) + hdr.sizes[b + n + 1]
<1> DEFINE F == [k \in Nat |-> hdr.sizes[b + k + 1]]
<1>1. hdr.sizes \in Seq(Sizes64) BY ShapeFacts
<1>2. Len(hdr.sizes) \in Nat BY <1>1, LenProperties
<1>3. ASSUME NEW k \in Nat, b + k < Len(hdr.sizes)
      PROVE  F[k] = hdr.sizes[b + k + 1] /\ F[k] \in Sizes64 /\ F[k] \in Nat
  <2>1. b + k + 1 \in 1 .. Len(hdr.sizes) BY <1>2, <1>3
  <2>2. hdr.sizes[b + k + 1] \in Sizes64 BY <1>1, <2>1, ElementOfSeq
  <2>3. F[k] = hdr.sizes[b + k + 1] OBVIOUS
  <2> HIDE DEF F
  <2>4. F[k] \in Nat BY <2>2, <2>3, TableAssumption DEF Sizes64
  <2> QED BY <2>2, <2>3, <2>4
<1> HIDE DEF F
<1>4. ASSUME NEW m \in Nat, b + m <= Len(hdr.sizes)
      PROVE  SumsTo(F, m, StoredSum(hdr, b, 0 .. m - 1))
  <2>1. ASSUME NEW k \in 0 .. m - 1 PROVE F[k] \in Nat /\ F[k] = hdr.sizes[b + k + 1]
    <3>1. k \in Nat /\ b + k < Len(hdr.sizes) BY <1>2, <1>4
    <3> QED BY <3>1, <1>3
  <2>2. PICK S : S = 0 .. m - 1 OBVIOUS
  <2>3. \A k \in S : F[k] \in Nat /\ F[k] = hdr.sizes[b + k + 1] BY <2>1, <2>2
  <2>4. SumsTo(F, m, StoredSum(hdr, b, S)) BY <2>2, <2>3, StoredAdds
  <2> QED BY <2>2, <2>4
<1>5. SumsTo(F, n, StoredSum(hdr, b, 0 .. n - 1)) BY <1>4
<1>6. StoredSum(hdr, b, 0 .. n - 1) \in Nat BY <1>5, SumIsNat
<1>7. n = 0 => StoredSum(hdr, b, 0 .. n - 1) = 0 BY <1>5, SumOfNone
<1>8. ASSUME b + n < Len(hdr.sizes)
      PROVE  StoredSum(hdr, b, 0 .. (n + 1) - 1)
               = StoredSum(hdr, b, 0 .. n - 1) + hdr.sizes[b + n + 1]
  <2>1. n + 1 \in Nat /\ b + (n + 1) <= Len(hdr.sizes) BY <1>2, <1>8
  <2>2. SumsTo(F, n + 1, StoredSum(hdr, b, 0 .. (n + 1) - 1)) BY <2>1, <1>4
  <2>3. StoredSum(hdr, b, 0 .. (n + 1) - 1) = StoredSum(hdr, b, 0 .. n - 1) + F[n]
    BY <1>5, <2>2, SumOfMore
  <2> QED BY <1>3, <1>8, <2>3
<1> QED BY <1>3, <1>6, <1>7, <1>8

-----------------------------------------------------------------------------
(* Entries, streams and folders of a header                                  *)

StreamsBefore(h, e) == Cardinality({g \in 0 .. e - 1 : ~Table!IsEmptyStream(h, g)})
EmptiesBefore(h, e) == Cardinality({g \in 0 .. e - 1 : Table!IsEmptyStream(h, g)})
DigestsRead(h, m) == Cardinality({d \in h.digests : d < m})

(* The folder of stream k; the size and the CRC of stream n of folder f      *)
FolderAt(h, k) ==
  CHOOSE f \in Table!Folders(h) :
    FirstOf(h, f) <= k /\ k < FirstOf(h, f) + Table!Count(h, f)
NumberAt(h, k) == k - FirstOf(h, FolderAt(h, k))
SizeIn(h, f, n) ==
  IF n < Table!SizesOf(h, f) THEN h.sizes[SizesBefore(h, f) + n + 1]
  ELSE h.folderSize[f] - Stored(h, f, Table!SizesOf(h, f))
CrcIn(h, f, n) ==
  IF Table!FolderCrcServes(h, f) THEN <<"folder", f>>
  ELSE IF h.digests # Absent /\ DigestsBefore(h, f) + n \in h.digests
  THEN <<"digest", DigestsRead(h, DigestsBefore(h, f) + n)>>
  ELSE Table!NoCrc

(* What the reading functions make sure of besides                           *)
ListShape(h) ==
  /\ HeaderShape(h)
  /\ h.emptyStreams = Absent \/ h.emptyStreams \in SUBSET (0 .. h.numFiles - 1)
  /\ h.digests = Absent \/ h.digests \in SUBSET Nat

(* The definitions here say of the header what SzFileTable says: the         *)
(* number of elements,                                                       *)
LEMMA SameCardinality ==
  ASSUME NEW S
  PROVE Table!Cardinality(S) = Cardinality(S)
BY DEF Table!Cardinality, Cardinality

(* These are the ones SzFileTable names.                                     *)
LEMMA SameFirst ==
  ASSUME NEW f
  PROVE Table!FirstStream(f) = FirstOf(hdr, f)
BY DEF Table!FirstStream, Table!Before, FirstOf, CountSum, Below,
       Table!MapThenSumSet, Table!MapThenFoldSet

(* the sizes of the streams,                                                 *)
LEMMA SameStored ==
  ASSUME NEW f, NEW n
  PROVE /\ Table!StoredSize(f, n) = hdr.sizes[SizesBefore(hdr, f) + n + 1]
        /\ Table!StoredSizes(f, n) = Stored(hdr, f, n)
BY DEF Table!StoredSize, Table!StoredSizes, Stored, StoredSum, SizesBefore, SizesSum,
       Table!Before, Below, Table!MapThenSumSet, Table!MapThenFoldSet

(* the digests of the folders before f,                                      *)
LEMMA SameDigests ==
  ASSUME NEW f
  PROVE Table!Before(LAMBDA g : Table!DigestsOf(hdr, g), f) = DigestsBefore(hdr, f)
BY DEF DigestsBefore, DigestSum, Table!Before, Below,
       Table!MapThenSumSet, Table!MapThenFoldSet

(* the folder of a stream and its number in it,                              *)
LEMMA SameFolder0 ==
  ASSUME NEW k
  PROVE Table!FolderOfStream(k) = FolderAt(hdr, k) /\ Table!NumberOf(k) = NumberAt(hdr, k)
<1>1. Table!FolderOfStream(k) = FolderAt(hdr, k)
  BY DEF Table!FolderOfStream, FolderAt, Table!FirstStream, Table!Before, FirstOf, CountSum,
         Below, Table!MapThenSumSet, Table!MapThenFoldSet
<1> QED BY <1>1, SameFirst DEF Table!NumberOf, NumberAt

(* its CRC,                                                                  *)
LEMMA SameCrc ==
  ASSUME NEW k
  PROVE Table!CrcOf(k) = CrcIn(hdr, FolderAt(hdr, k), NumberAt(hdr, k))
<1>1. Table!DigestOf(k) = DigestsBefore(hdr, FolderAt(hdr, k)) + NumberAt(hdr, k)
  BY SameFolder0, SameDigests DEF Table!DigestOf
<1>2. Table!Cardinality({d \in hdr.digests : d < Table!DigestOf(k)})
        = DigestsRead(hdr, Table!DigestOf(k))
  BY SameCardinality DEF DigestsRead
<1> QED BY <1>1, <1>2, SameFolder0 DEF Table!CrcOf, CrcIn

(* its place and its size,                                                   *)
LEMMA SameStream ==
  ASSUME NEW k
  PROVE /\ Table!OffsetOf(k) = Stored(hdr, FolderAt(hdr, k), NumberAt(hdr, k))
        /\ Table!SizeOf(k) = SizeIn(hdr, FolderAt(hdr, k), NumberAt(hdr, k))
<1>1. Table!OffsetOf(k) = Stored(hdr, FolderAt(hdr, k), NumberAt(hdr, k))
  BY SameFolder0, SameStored DEF Table!OffsetOf
<1>2. Table!SizeOf(k) = SizeIn(hdr, FolderAt(hdr, k), NumberAt(hdr, k))
  BY SameFolder0, SameStored DEF Table!SizeOf, SizeIn
<1> QED BY <1>1, <1>2

(* and the number of an entry among those with data and among those without. *)
LEMMA SameEntry ==
  ASSUME NEW e
  PROVE Table!StreamOf(e) = StreamsBefore(hdr, e) /\ Table!EmptyNumber(e) = EmptiesBefore(hdr, e)
BY SameCardinality DEF Table!StreamOf, StreamsBefore, Table!EmptyNumber, EmptiesBefore

(* Counting what lies before e + 1                                           *)
LEMMA CountOneMore ==
  ASSUME NEW e \in Nat, NEW A \in SUBSET Nat, NEW D, \A a \in A : a < e,
         D = A \/ D = A \cup {e}
  PROVE /\ Cardinality(A) \in Nat
        /\ Cardinality(D) = Cardinality(A) + (IF e \in D THEN 1 ELSE 0)
<1>1. A \in SUBSET (0 .. e - 1) OBVIOUS
<1>2. IsFiniteSet(0 .. e - 1) BY FS_Interval
<1>3. IsFiniteSet(A) BY <1>1, <1>2, FS_Subset
<1>4. Cardinality(A) \in Nat BY <1>3, FS_CardinalityType
<1>5. e \notin A OBVIOUS
<1>6. Cardinality(A \cup {e}) = Cardinality(A) + 1 BY <1>3, <1>5, FS_AddElement
<1>7. CASE D = A BY <1>4, <1>5, <1>7
<1>8. CASE D = A \cup {e} BY <1>4, <1>6, <1>8
<1> QED BY <1>7, <1>8

(* No entry stands before the first,                                         *)
LEMMA NoneBefore ==
  StreamsBefore(hdr, 0) = 0 /\ EmptiesBefore(hdr, 0) = 0
<1>1. {g \in 0 .. 0 - 1 : ~Table!IsEmptyStream(hdr, g)} = {}
      /\ {g \in 0 .. 0 - 1 : Table!IsEmptyStream(hdr, g)} = {}
  OBVIOUS
<1> QED BY <1>1, FS_EmptySet DEF StreamsBefore, EmptiesBefore

(* and each entry is counted on its side.                                    *)
LEMMA OneMoreBefore ==
  ASSUME NEW e \in Nat
  PROVE /\ StreamsBefore(hdr, e) \in Nat /\ EmptiesBefore(hdr, e) \in Nat
        /\ StreamsBefore(hdr, e + 1)
             = StreamsBefore(hdr, e) + (IF Table!IsEmptyStream(hdr, e) THEN 0 ELSE 1)
        /\ EmptiesBefore(hdr, e + 1)
             = EmptiesBefore(hdr, e) + (IF Table!IsEmptyStream(hdr, e) THEN 1 ELSE 0)
<1> DEFINE A == {g \in 0 .. e - 1 : ~Table!IsEmptyStream(hdr, g)}
           D == {g \in 0 .. (e + 1) - 1 : ~Table!IsEmptyStream(hdr, g)}
           S == {g \in 0 .. e - 1 : Table!IsEmptyStream(hdr, g)}
           T == {g \in 0 .. (e + 1) - 1 : Table!IsEmptyStream(hdr, g)}
<1>1. /\ A \in SUBSET Nat /\ S \in SUBSET Nat
      /\ \A a \in A : a < e /\ \A s \in S : s < e
  OBVIOUS
<1>2. \A s \in S : s < e OBVIOUS
<1>3. 0 .. (e + 1) - 1 = (0 .. e - 1) \cup {e} OBVIOUS
<1>4. IF Table!IsEmptyStream(hdr, e) THEN D = A /\ T = S \cup {e}
                                     ELSE D = A \cup {e} /\ T = S
  BY <1>3
<1>5. e \in D <=> ~Table!IsEmptyStream(hdr, e) OBVIOUS
<1>6. e \in T <=> Table!IsEmptyStream(hdr, e) OBVIOUS
<1>7. /\ Cardinality(A) = StreamsBefore(hdr, e)
      /\ Cardinality(D) = StreamsBefore(hdr, e + 1)
      /\ Cardinality(S) = EmptiesBefore(hdr, e)
      /\ Cardinality(T) = EmptiesBefore(hdr, e + 1)
  BY DEF StreamsBefore, EmptiesBefore
<1> HIDE DEF A, D, S, T
<1>8. D = A \/ D = A \cup {e} BY <1>4
<1>9. T = S \/ T = S \cup {e} BY <1>4
<1>10. /\ Cardinality(A) \in Nat
       /\ Cardinality(D) = Cardinality(A) + (IF e \in D THEN 1 ELSE 0)
  BY <1>1, <1>8, CountOneMore
<1>11. /\ Cardinality(S) \in Nat
       /\ Cardinality(T) = Cardinality(S) + (IF e \in T THEN 1 ELSE 0)
  BY <1>1, <1>2, <1>9, CountOneMore
<1>12. Cardinality(D) = Cardinality(A) + (IF Table!IsEmptyStream(hdr, e) THEN 0 ELSE 1)
  BY <1>5, <1>10
<1>13. Cardinality(T) = Cardinality(S) + (IF Table!IsEmptyStream(hdr, e) THEN 1 ELSE 0)
  BY <1>6, <1>11
<1> QED BY <1>7, <1>10, <1>11, <1>12, <1>13

(* As many entries with data as are not in the list of empty streams         *)
LEMMA AllStreams ==
  ASSUME ListShape(hdr)
  PROVE StreamsBefore(hdr, NumFiles) = NumFiles - Table!NumEmptyStreams(hdr)
<1> DEFINE W == 0 .. NumFiles - 1
           A == {g \in W : ~Table!IsEmptyStream(hdr, g)}
<1>1. NumFiles \in Nat BY ShapeFacts DEF ListShape
<1>2. IsFiniteSet(W) /\ Cardinality(W) = NumFiles BY <1>1, FS_Interval
<1>3. StreamsBefore(hdr, NumFiles) = Cardinality(A) BY DEF StreamsBefore
<1>4. CASE hdr.emptyStreams = Absent
  <2>1. A = W BY <1>4 DEF Table!IsEmptyStream
  <2>2. Table!NumEmptyStreams(hdr) = 0 BY <1>4 DEF Table!NumEmptyStreams
  <2> HIDE DEF W, A
  <2> QED BY <1>1, <1>2, <1>3, <2>1, <2>2
<1>5. CASE hdr.emptyStreams # Absent
  <2> DEFINE E == hdr.emptyStreams
  <2>1. E \in SUBSET W BY <1>5 DEF ListShape, NumFiles
  <2>2. A = W \ E BY <1>5 DEF Table!IsEmptyStream
  <2>3. Table!NumEmptyStreams(hdr) = Cardinality(E)
    BY <1>5, SameCardinality DEF Table!NumEmptyStreams
  <2>4. W \cap E = E BY <2>1
  <2> HIDE DEF W, E, A
  <2>5. Cardinality(W \ E) = Cardinality(W) - Cardinality(W \cap E) BY <1>2, FS_Difference
  <2> QED BY <1>2, <1>3, <2>2, <2>3, <2>4, <2>5
<1> QED BY <1>4, <1>5

(* A position of the digests is read.                                        *)
LEMMA OneDigestMore ==
  ASSUME ListShape(hdr), hdr.digests # Absent, NEW m \in Nat
  PROVE /\ DigestsRead(hdr, m) \in Nat
        /\ DigestsRead(hdr, m + 1) = DigestsRead(hdr, m) + (IF m \in hdr.digests THEN 1 ELSE 0)
<1> DEFINE A == {d \in hdr.digests : d < m}
           D == {d \in hdr.digests : d < m + 1}
<1>1. hdr.digests \in SUBSET Nat BY DEF ListShape
<1>2. A \in SUBSET Nat /\ \A a \in A : a < m BY <1>1
<1>3. D = A \/ D = A \cup {m} BY <1>1
<1>4. m \in D <=> m \in hdr.digests OBVIOUS
<1>5. Cardinality(A) = DigestsRead(hdr, m) /\ Cardinality(D) = DigestsRead(hdr, m + 1)
  BY DEF DigestsRead
<1> HIDE DEF A, D
<1>6. /\ Cardinality(A) \in Nat
      /\ Cardinality(D) = Cardinality(A) + (IF m \in D THEN 1 ELSE 0)
  BY <1>2, <1>3, CountOneMore
<1> QED BY <1>4, <1>5, <1>6

(* No digest is taken at the start.                                          *)
LEMMA NoDigestsRead ==
  ASSUME ListShape(hdr), hdr.digests # Absent
  PROVE DigestsRead(hdr, 0) = 0
<1>1. {d \in hdr.digests : d < 0} = {} BY DEF ListShape
<1> QED BY <1>1, FS_EmptySet DEF DigestsRead

(* The folders' streams, all of them                                         *)
LEMMA AllInFolders ==
  ASSUME HeaderShape(hdr)
  PROVE /\ Table!NumTotalSubStreams(hdr) = FirstOf(hdr, NumFolders)
        /\ Table!NumSizesInData(hdr) = SizesBefore(hdr, NumFolders)
        /\ Table!MapThenSumSet(LAMBDA f : hdr.folderSize[f], Table!Folders(hdr))
             = UnpackedBefore(hdr, NumFolders)
<1>1. NumFolders \in Nat /\ Table!Folders(hdr) = 0 .. NumFolders - 1 BY ShapeFacts
<1>2. Below(hdr, NumFolders) = Table!Folders(hdr)
  <2>1. NumFolders \in 0 .. NumFolders BY <1>1
  <2> QED BY <1>1, <2>1, BelowIs
<1>3. Table!NumTotalSubStreams(hdr) = CountSum(hdr, Table!Folders(hdr))
  BY DEF Table!NumTotalSubStreams, CountSum, Table!MapThenSumSet, Table!MapThenFoldSet
<1>4. Table!NumSizesInData(hdr) = SizesSum(hdr, Table!Folders(hdr))
  BY DEF Table!NumSizesInData, SizesSum, Table!MapThenSumSet, Table!MapThenFoldSet
<1>5. Table!MapThenSumSet(LAMBDA f : hdr.folderSize[f], Table!Folders(hdr))
        = UnpackSum(hdr, Table!Folders(hdr))
  BY DEF UnpackSum, Table!MapThenSumSet, Table!MapThenFoldSet
<1> QED BY <1>2, <1>3, <1>4, <1>5 DEF FirstOf, SizesBefore, UnpackedBefore

(* The folder of a stream                                                    *)
LEMMA FolderAtIs ==
  ASSUME HeaderShape(hdr), NEW f \in 0 .. NumFolders - 1, NEW n \in Nat,
         n < Table!Count(hdr, f)
  PROVE FolderAt(hdr, FirstOf(hdr, f) + n) = f /\ NumberAt(hdr, FirstOf(hdr, f) + n) = n
<1> DEFINE k == FirstOf(hdr, f) + n
           Has(g) == FirstOf(hdr, g) <= k /\ k < FirstOf(hdr, g) + Table!Count(hdr, g)
<1>1. NumFolders \in Nat /\ Table!Folders(hdr) = 0 .. NumFolders - 1 BY ShapeFacts
<1>2. ASSUME NEW g \in 0 .. NumFolders - 1
      PROVE  /\ FirstOf(hdr, g) \in Nat /\ Table!Count(hdr, g) \in Nat
             /\ g \in 0 .. NumFolders /\ g + 1 \in 0 .. NumFolders
             /\ FirstOf(hdr, g + 1) = FirstOf(hdr, g) + Table!Count(hdr, g)
  <2>1. g \in 0 .. NumFolders /\ g + 1 \in 0 .. NumFolders BY <1>1
  <2> QED BY <2>1, FirstGrows, ListsOf
<1>3. FirstOf(hdr, f) \in Nat BY <1>2
<1>4. Has(f) BY <1>2, <1>3
<1>5. ASSUME NEW g \in 0 .. NumFolders - 1, Has(g), g # f PROVE FALSE
  <2>1. /\ FirstOf(hdr, g) <= FirstOf(hdr, f) + n
        /\ FirstOf(hdr, f) + n < FirstOf(hdr, g + 1)
    BY <1>2, <1>5
  <2>2. FirstOf(hdr, f) + n < FirstOf(hdr, f + 1) BY <1>2, <1>3
  <2>3. CASE g < f
    <3>1. g + 1 <= f BY <1>1, <2>3
    <3>2. FirstOf(hdr, g + 1) <= FirstOf(hdr, f) BY <1>2, <3>1, FirstGrows
    <3>3. FirstOf(hdr, g + 1) \in Nat BY <1>2, FirstGrows
    <3> QED BY <1>3, <2>1, <3>2, <3>3
  <2>4. CASE f < g
    <3>1. f + 1 <= g BY <1>1, <2>4
    <3>2. FirstOf(hdr, f + 1) <= FirstOf(hdr, g) BY <1>2, <3>1, FirstGrows
    <3>3. FirstOf(hdr, f + 1) \in Nat /\ FirstOf(hdr, g) \in Nat BY <1>2, FirstGrows
    <3> QED BY <1>3, <2>1, <2>2, <3>2, <3>3
  <2> QED BY <1>1, <1>5, <2>3, <2>4
<1>6. FolderAt(hdr, k) = f
  <2>1. FolderAt(hdr, k) = CHOOSE g \in 0 .. NumFolders - 1 : Has(g) BY <1>1 DEF FolderAt
  <2> HIDE DEF Has
  <2> QED BY <1>4, <1>5, <2>1
<1>7. NumberAt(hdr, k) = n
  <2>1. NumberAt(hdr, k) = k - FirstOf(hdr, f) BY <1>6 DEF NumberAt
  <2> QED BY <1>3, <2>1
<1> QED BY <1>6, <1>7

-----------------------------------------------------------------------------
(* What is exact while the tables are built                                  *)

NoData(e) == Table!IsEmptyStream(hdr, e)
StartOf(f) == Position(FirstFile(f))

(* The streams of the open folder that have their entry                      *)
Taken == IF at.rem = 0 THEN 0 ELSE at.num - at.rem

(* Where the reading stands: i entries are through, and n streams of folder f;*)
(* these are the next size, the next digest and the next empty file.         *)
Reads(i, f, n, size, digest, val, emptyFile) ==
  /\ StreamsBefore(hdr, i) = FirstOf(hdr, f) + n
  /\ size = SizesBefore(hdr, f) + n /\ size <= Len(hdr.sizes)
  /\ hdr.digests # Absent =>
       digest = DigestsBefore(hdr, f) + n /\ val = DigestsRead(hdr, digest)
  /\ hdr.emptyFiles # Absent => emptyFile = EmptiesBefore(hdr, i)
ReadingExact ==
  /\ at.rem > 0 => at.num = Table!Count(hdr, at.folder) /\ at.rem <= at.num
  /\ tablePc \in {"folder", "stream"} => ~NoData(at.i)
  /\ Reads(at.i, at.folder, Taken, at.size, at.digest, at.val, at.emptyFile)

(* A header that agrees with itself                                          *)
NoneWasted(h) == \A f \in Table!Folders(h) : Table!Count(h, f) = 0 => h.folderSize[f] = 0
Agrees(h) ==
  /\ h.numFiles - Table!NumEmptyStreams(h) = Table!NumTotalSubStreams(h)
  /\ Len(h.sizes) = Table!NumSizesInData(h)
  /\ \A f \in Table!Folders(h) : Stored(h, f, Table!SizesOf(h, f)) <= h.folderSize[f]
  /\ UnpackSum(h, Table!Folders(h)) < TableU64
  /\ NoneWasted(h)

(* An entry with data takes the next stream: stream n of folder f            *)
TakesStream(e, f, n) ==
  /\ FolderOf(e) = f /\ f \in 0 .. NumFolders - 1 /\ Opened(f)
  /\ Position(e) = StartOf(f) + Stored(hdr, f, n)
  /\ EndOf(e) = Position(e) + SizeIn(hdr, f, n)
  /\ Stored(hdr, f, n) \in Nat /\ SizeIn(hdr, f, n) \in Int
EntryExact(e) ==
  IF NoData(e) THEN EndOf(e) = Position(e)
  ELSE TakesStream(e, FolderAt(hdr, StreamsBefore(hdr, e)),
                      NumberAt(hdr, StreamsBefore(hdr, e)))
PlacesExact ==
  NoneWasted(hdr) =>
    /\ tablePc \in {"folder", "stream"} => at.pos = Position(at.i)
    /\ at.rem > 0 => at.pos = StartOf(at.folder) + Stored(hdr, at.folder, Taken)
    /\ \A e \in 0 .. NumFiles - 1 : e < at.i => EntryExact(e)

(* No folder of such a header begins late.                                   *)
StartsExact ==
  Agrees(hdr) =>
    UnpackedBefore(hdr, at.folder) = IF at.rem = 0 THEN at.pos ELSE StartOf(at.folder)

PlacesInv == tablePc # "failed" => ReadingExact /\ PlacesExact /\ StartsExact
AcceptedInv == Agrees(hdr) => tablePc # "failed"

(* PlacesInv, before the loop has failed                                     *)
LEMMA PlacesFind ==
  ASSUME PlacesInv, tablePc # "failed"
  PROVE /\ at.rem > 0 => at.num = Table!Count(hdr, at.folder) /\ at.rem <= at.num
        /\ tablePc \in {"folder", "stream"} => ~NoData(at.i)
        /\ Reads(at.i, at.folder, Taken, at.size, at.digest, at.val, at.emptyFile)
        /\ PlacesExact /\ StartsExact
BY DEF PlacesInv, ReadingExact

-----------------------------------------------------------------------------
(* The reading: an entry without data is passed                              *)
LEMMA ReadsEmpty ==
  ASSUME NEW i \in Nat, NEW f, NEW n, NEW size, NEW digest, NEW val, NEW emptyFile,
         Reads(i, f, n, size, digest, val, emptyFile), NoData(i)
  PROVE Reads(i + 1, f, n, size, digest, val,
              IF hdr.emptyFiles = Absent THEN emptyFile ELSE emptyFile + 1)
<1>1. StreamsBefore(hdr, i + 1) = StreamsBefore(hdr, i) + 0
      /\ EmptiesBefore(hdr, i + 1) = EmptiesBefore(hdr, i) + 1
      /\ StreamsBefore(hdr, i) \in Nat
  BY OneMoreBefore DEF NoData
<1> QED BY <1>1 DEF Reads

(* ... a folder without streams is passed                                    *)
LEMMA ReadsSkip ==
  ASSUME HeaderShape(hdr), NEW f \in 0 .. NumFolders - 1, Table!Count(hdr, f) = 0,
         NEW i, NEW size, NEW digest, NEW val, NEW emptyFile,
         Reads(i, f, 0, size, digest, val, emptyFile)
  PROVE Reads(i, f + 1, 0, size, digest, val, emptyFile)
<1>1. NumFolders \in Nat BY ShapeFacts
<1>2. f \in 0 .. NumFolders /\ f + 1 \in 0 .. NumFolders BY <1>1
<1>3. Table!SizesOf(hdr, f) = 0 /\ Table!DigestsOf(hdr, f) = 0
  BY DEF Table!SizesOf, Table!DigestsOf, Table!FolderCrcServes
<1>4. FirstOf(hdr, f + 1) = FirstOf(hdr, f) + 0 /\ FirstOf(hdr, f) \in Nat
  BY <1>2, FirstGrows
<1>5. SizesBefore(hdr, f + 1) = SizesBefore(hdr, f) + 0 /\ SizesBefore(hdr, f) \in Nat
  BY <1>2, <1>3, SizesGrow
<1>6. DigestsBefore(hdr, f + 1) = DigestsBefore(hdr, f) + 0 /\ DigestsBefore(hdr, f) \in Nat
  BY <1>2, <1>3, DigestsGrow
<1> QED BY <1>4, <1>5, <1>6 DEF Reads

(* A sum with one more                                                       *)
LEMMA OneMore ==
  ASSUME NEW a \in Nat, NEW b \in Nat, NEW c, c = a + b
  PROVE c \in Nat /\ c + 1 = a + (b + 1)
OBVIOUS

(* ... a stream is taken that is not the last of its folder                  *)
LEMMA ReadsInner ==
  ASSUME HeaderShape(hdr), ListShape(hdr), NEW f \in 0 .. NumFolders - 1,
         NEW n \in Nat, n + 1 < Table!Count(hdr, f), NEW i \in Nat, ~NoData(i),
         NEW size, NEW digest, NEW val, NEW emptyFile, size < Len(hdr.sizes),
         Reads(i, f, n, size, digest, val, emptyFile),
         NEW dg, NEW v,
         hdr.digests # Absent =>
           dg = digest + 1 /\ v = IF digest \in hdr.digests THEN val + 1 ELSE val
  PROVE Reads(i + 1, f, n + 1, size + 1, dg, v, emptyFile)
<1>1. NumFolders \in Nat BY ShapeFacts
<1>2. f \in 0 .. NumFolders BY <1>1
<1>3. FirstOf(hdr, f) \in Nat /\ SizesBefore(hdr, f) \in Nat /\ DigestsBefore(hdr, f) \in Nat
  BY <1>2, FirstGrows, SizesGrow, DigestsGrow
<1>4. StreamsBefore(hdr, i + 1) = StreamsBefore(hdr, i) + 1
      /\ EmptiesBefore(hdr, i + 1) = EmptiesBefore(hdr, i) + 0
      /\ EmptiesBefore(hdr, i) \in Nat
  BY OneMoreBefore DEF NoData
<1>5. Len(hdr.sizes) \in Nat
  <2>1. hdr.sizes \in Seq(Sizes64) BY ShapeFacts
  <2> QED BY <2>1, LenProperties
<1>6. ASSUME hdr.digests # Absent
      PROVE  dg = DigestsBefore(hdr, f) + (n + 1) /\ v = DigestsRead(hdr, dg)
  <2>1. digest = DigestsBefore(hdr, f) + n /\ val = DigestsRead(hdr, digest)
    BY <1>6 DEF Reads
  <2>2. digest \in Nat BY <1>3, <2>1
  <2>3. /\ DigestsRead(hdr, digest) \in Nat
        /\ DigestsRead(hdr, digest + 1)
             = DigestsRead(hdr, digest) + (IF digest \in hdr.digests THEN 1 ELSE 0)
    BY <1>6, <2>2, OneDigestMore
  <2>4. dg = digest + 1 /\ v = IF digest \in hdr.digests THEN val + 1 ELSE val
    BY <1>6
  <2>5. dg = DigestsBefore(hdr, f) + (n + 1) BY <1>3, <2>1, <2>4, OneMore
  <2>6. v = DigestsRead(hdr, digest + 1)
    <3>1. CASE digest \in hdr.digests BY <2>1, <2>3, <2>4, <3>1
    <3>2. CASE digest \notin hdr.digests BY <2>1, <2>3, <2>4, <3>2
    <3> QED BY <3>1, <3>2
  <2> QED BY <2>4, <2>5, <2>6
<1>7. StreamsBefore(hdr, i + 1) = FirstOf(hdr, f) + (n + 1)
  <2>1. StreamsBefore(hdr, i) = FirstOf(hdr, f) + n BY DEF Reads
  <2> QED BY <1>3, <1>4, <2>1, OneMore
<1>8. size + 1 = SizesBefore(hdr, f) + (n + 1) /\ size + 1 <= Len(hdr.sizes)
  <2>1. size = SizesBefore(hdr, f) + n BY DEF Reads
  <2>2. size + 1 = SizesBefore(hdr, f) + (n + 1) /\ size \in Nat
    BY <1>3, <2>1, OneMore
  <2> QED BY <1>5, <2>2
<1>9. hdr.emptyFiles # Absent => emptyFile = EmptiesBefore(hdr, i + 1)
  BY <1>4 DEF Reads
<1> QED BY <1>6, <1>7, <1>8, <1>9 DEF Reads

(* ... and the last one                                                      *)
LEMMA ReadsLast ==
  ASSUME HeaderShape(hdr), ListShape(hdr), NEW f \in 0 .. NumFolders - 1,
         NEW n \in Nat, n + 1 = Table!Count(hdr, f), NEW i \in Nat, ~NoData(i),
         NEW size, NEW digest, NEW val, NEW emptyFile,
         Reads(i, f, n, size, digest, val, emptyFile),
         NEW dg, NEW v,
         hdr.digests # Absent =>
           IF Table!FolderCrcServes(hdr, f) THEN dg = digest /\ v = val
           ELSE dg = digest + 1 /\ v = IF digest \in hdr.digests THEN val + 1 ELSE val
  PROVE Reads(i + 1, f + 1, 0, size, dg, v, emptyFile)
<1>1. NumFolders \in Nat BY ShapeFacts
<1>2. f \in 0 .. NumFolders /\ f + 1 \in 0 .. NumFolders BY <1>1
<1>3. FirstOf(hdr, f) \in Nat /\ SizesBefore(hdr, f) \in Nat /\ DigestsBefore(hdr, f) \in Nat
  BY <1>2, FirstGrows, SizesGrow, DigestsGrow
<1>4. StreamsBefore(hdr, i + 1) = StreamsBefore(hdr, i) + 1
      /\ EmptiesBefore(hdr, i + 1) = EmptiesBefore(hdr, i) + 0
      /\ EmptiesBefore(hdr, i) \in Nat
  BY OneMoreBefore DEF NoData
<1>5. Table!SizesOf(hdr, f) = n
  BY DEF Table!SizesOf
<1>6. FirstOf(hdr, f + 1) = FirstOf(hdr, f) + (n + 1) BY <1>2, FirstGrows
<1>7. SizesBefore(hdr, f + 1) = SizesBefore(hdr, f) + n BY <1>2, <1>5, SizesGrow
<1>8. DigestsBefore(hdr, f + 1)
        = DigestsBefore(hdr, f) + (IF Table!FolderCrcServes(hdr, f) THEN 0 ELSE n + 1)
  <2>1. Table!DigestsOf(hdr, f) = IF Table!FolderCrcServes(hdr, f) THEN 0 ELSE n + 1
    BY DEF Table!DigestsOf
  <2> QED BY <1>2, <2>1, DigestsGrow
<1>9. ASSUME hdr.digests # Absent
      PROVE  dg = DigestsBefore(hdr, f + 1) + 0 /\ v = DigestsRead(hdr, dg)
  <2>1. digest = DigestsBefore(hdr, f) + n /\ val = DigestsRead(hdr, digest)
    BY <1>9 DEF Reads
  <2>2. digest \in Nat BY <1>3, <2>1
  <2>3. CASE Table!FolderCrcServes(hdr, f)
    <3>1. n = 0 BY <2>3 DEF Table!FolderCrcServes
    <3> QED BY <1>3, <1>8, <1>9, <2>1, <2>3, <3>1
  <2>4. CASE ~Table!FolderCrcServes(hdr, f)
    <3>1. /\ DigestsRead(hdr, digest) \in Nat
          /\ DigestsRead(hdr, digest + 1)
               = DigestsRead(hdr, digest) + (IF digest \in hdr.digests THEN 1 ELSE 0)
      BY <1>9, <2>2, OneDigestMore
    <3> QED BY <1>3, <1>8, <1>9, <2>1, <2>2, <2>4, <3>1
  <2> QED BY <2>3, <2>4
<1> QED BY <1>3, <1>4, <1>6, <1>7, <1>9 DEF Reads

-----------------------------------------------------------------------------
(* The stream that the next entry takes                                      *)
LEMMA StreamHere ==
  ASSUME ListShape(hdr), TableInv, PlacesInv, tablePc # "failed", at.rem > 0
  PROVE /\ at.folder \in 0 .. NumFolders - 1 /\ at.i \in Nat /\ Taken \in Nat
        /\ at.rem \in Nat /\ at.num = Table!Count(hdr, at.folder)
        /\ Table!Count(hdr, at.folder) \in Nat
        /\ Taken + at.rem = Table!Count(hdr, at.folder)
        /\ FolderAt(hdr, StreamsBefore(hdr, at.i)) = at.folder
        /\ NumberAt(hdr, StreamsBefore(hdr, at.i)) = Taken
<1>0. HeaderShape(hdr) BY DEF ListShape
<1>1. /\ NumFolders \in Nat /\ at.i \in Nat /\ at.folder \in Nat /\ at.rem \in Nat
      /\ at.num \in Nat
  BY <1>0, AtFields
<1>2. at.folder \in 0 .. NumFolders - 1
  <2>1. at.folder < NumFolders BY TableFinds DEF AtPlace
  <2> QED BY <1>1, <2>1
<1>3. Table!Count(hdr, at.folder) \in Nat BY <1>0, <1>2, ShapeFacts
<1>4. at.num = Table!Count(hdr, at.folder) /\ at.rem <= at.num
      /\ Reads(at.i, at.folder, Taken, at.size, at.digest, at.val, at.emptyFile)
  BY PlacesFind
<1>5. Taken = at.num - at.rem BY <1>1 DEF Taken
<1>6. Taken \in Nat /\ Taken < Table!Count(hdr, at.folder)
      /\ Taken + at.rem = Table!Count(hdr, at.folder)
  BY <1>1, <1>3, <1>4, <1>5
<1>7. StreamsBefore(hdr, at.i) = FirstOf(hdr, at.folder) + Taken BY <1>4 DEF Reads
<1>8. PICK n \in Nat : n = Taken BY <1>6
<1>9. FolderAt(hdr, FirstOf(hdr, at.folder) + n) = at.folder
      /\ NumberAt(hdr, FirstOf(hdr, at.folder) + n) = n
  BY <1>0, <1>2, <1>6, <1>8, FolderAtIs
<1> QED BY <1>1, <1>2, <1>3, <1>4, <1>6, <1>7, <1>8, <1>9

(* ... and its CRC                                                           *)
LEMMA SourceIs ==
  ASSUME ListShape(hdr), TableInv, PlacesInv, tablePc = "stream"
  PROVE /\ Table!EntryCrc = CrcIn(hdr, at.folder, Taken)
        /\ Table!CrcSource = "folder" <=> Table!FolderCrcServes(hdr, at.folder)
        /\ hdr.digests # Absent /\ ~Table!FolderCrcServes(hdr, at.folder) =>
             Table!CrcSource = IF at.digest \in hdr.digests THEN "digest" ELSE "gap"
<1>1. at.rem > 0 BY TableFinds DEF AtPlace
<1>2. /\ at.rem \in Nat /\ at.num = Table!Count(hdr, at.folder) /\ Taken \in Nat
      /\ Table!Count(hdr, at.folder) \in Nat
      /\ Taken + at.rem = Table!Count(hdr, at.folder)
  BY <1>1, StreamHere
<1>3. (at.rem = 1 /\ at.num = 1 /\ at.folder \in hdr.folderCrc)
        <=> Table!FolderCrcServes(hdr, at.folder)
  BY <1>1, <1>2 DEF Table!FolderCrcServes
<1>4. Reads(at.i, at.folder, Taken, at.size, at.digest, at.val, at.emptyFile)
  BY PlacesFind
<1>5. hdr.digests # Absent =>
        at.digest = DigestsBefore(hdr, at.folder) + Taken
          /\ at.val = DigestsRead(hdr, at.digest)
  BY <1>4 DEF Reads
<1>6. Table!CrcSource =
        IF Table!FolderCrcServes(hdr, at.folder) THEN "folder"
        ELSE IF hdr.digests = Absent THEN "none"
        ELSE IF at.digest \in hdr.digests THEN "digest" ELSE "gap"
  BY <1>3 DEF Table!CrcSource
<1>7. Table!EntryCrc =
        IF Table!FolderCrcServes(hdr, at.folder) THEN <<"folder", at.folder>>
        ELSE IF hdr.digests # Absent /\ at.digest \in hdr.digests THEN <<"digest", at.val>>
        ELSE Table!NoCrc
  <2>1. CASE Table!CrcSource = "folder" BY <2>1, <1>6 DEF Table!EntryCrc
  <2>2. CASE Table!CrcSource = "digest" BY <2>2, <1>6 DEF Table!EntryCrc
  <2>3. CASE Table!CrcSource \in {"none", "gap"} BY <2>3, <1>6 DEF Table!EntryCrc
  <2> QED BY <1>6, <2>1, <2>2, <2>3
<1> QED BY <1>5, <1>6, <1>7 DEF CrcIn

(* The reading after each step                                               *)
LEMMA ReadingSame ==
  ASSUME PlacesInv, tablePc # "failed", hdr' = hdr, at' = at,
         tablePc' \in {"folder", "stream"} => ~NoData(at.i)
  PROVE ReadingExact'
<1>1. /\ at.rem > 0 => at.num = Table!Count(hdr, at.folder) /\ at.rem <= at.num
      /\ Reads(at.i, at.folder, Taken, at.size, at.digest, at.val, at.emptyFile)
  BY PlacesFind
<1>2. Taken' = Taken BY DEF Taken
<1>3. (Reads(at.i, at.folder, Taken, at.size, at.digest, at.val, at.emptyFile))'
  BY <1>1, <1>2 DEF Reads
<1>4. ~NoData(at.i)' <=> ~NoData(at.i) BY DEF NoData
<1> QED BY <1>1, <1>3, <1>4 DEF ReadingExact

(* What is read is exact after an entry without data,                        *)
LEMMA ReadingEmpty ==
  ASSUME ListShape(hdr), TableInv, PlacesInv, Table!EmptyEntry
  PROVE ReadingExact'
<1>0. HeaderShape(hdr) BY DEF ListShape
<1>1. /\ tablePc = "file" /\ tablePc' = "file" /\ hdr' = hdr
      /\ at'.i = at.i + 1 /\ at'.folder = at.folder
      /\ at'.rem = at.rem /\ at'.num = at.num /\ at'.size = at.size
      /\ at'.digest = at.digest /\ at'.val = at.val
      /\ at'.emptyFile = IF hdr.emptyFiles = Absent THEN at.emptyFile ELSE at.emptyFile + 1
  BY <1>0, EmptyEntryDoes
<1>2. NoData(at.i) BY DEF Table!EmptyEntry, NoData
<1>3. /\ at.rem > 0 => at.num = Table!Count(hdr, at.folder) /\ at.rem <= at.num
      /\ Reads(at.i, at.folder, Taken, at.size, at.digest, at.val, at.emptyFile)
  BY <1>1, PlacesFind
<1>4. at.i \in Nat BY <1>0, <1>1, AtFields
<1>5. Reads(at.i + 1, at.folder, Taken, at.size, at.digest, at.val, at'.emptyFile)
  BY <1>1, <1>2, <1>3, <1>4, ReadsEmpty
<1>6. Taken' = Taken BY <1>1 DEF Taken
<1>7. (Reads(at.i, at.folder, Taken, at.size, at.digest, at.val, at.emptyFile))'
  BY <1>1, <1>5, <1>6 DEF Reads
<1> QED BY <1>1, <1>3, <1>7 DEF ReadingExact

(* after a folder is opened,                                                 *)
LEMMA ReadingOpen ==
  ASSUME ListShape(hdr), TableInv, PlacesInv, Table!OpenFolder
  PROVE ReadingExact' /\ Taken' = 0
<1>0. HeaderShape(hdr) BY DEF ListShape
<1>1. /\ tablePc = "folder" /\ hdr' = hdr /\ at.rem = 0 /\ at.folder < NumFolders
      /\ at'.i = at.i /\ at'.folder = at.folder
      /\ at'.rem = Table!Count(hdr, at.folder) /\ at'.num = Table!Count(hdr, at.folder)
      /\ at'.size = at.size
      /\ at'.digest = at.digest /\ at'.val = at.val /\ at'.emptyFile = at.emptyFile
  BY <1>0, OpenFolderDoes
<1>2. ~NoData(at.i)
      /\ Reads(at.i, at.folder, Taken, at.size, at.digest, at.val, at.emptyFile)
  BY <1>1, PlacesFind
<1>3. Table!Count(hdr, at.folder) \in Nat
  <2>1. at.folder \in Nat /\ NumFolders \in Nat BY <1>0, <1>1, AtFields
  <2>2. at.folder \in 0 .. NumFolders - 1 BY <1>1, <2>1
  <2> QED BY <1>0, <2>2, ShapeFacts
<1>4. Taken = 0 BY <1>1 DEF Taken
<1>5. Taken' = 0
  <2>1. at'.num - at'.rem = 0 BY <1>1, <1>3
  <2> QED BY <2>1 DEF Taken
<1>6. (Reads(at.i, at.folder, Taken, at.size, at.digest, at.val, at.emptyFile))'
  BY <1>1, <1>2, <1>4, <1>5 DEF Reads
<1>7. ~NoData(at.i)' BY <1>1, <1>2 DEF NoData
<1>8. at'.rem > 0 => at'.num = Table!Count(hdr', at'.folder) /\ at'.rem <= at'.num
  BY <1>1, <1>3
<1> QED BY <1>5, <1>6, <1>7, <1>8 DEF ReadingExact

(* A folder without streams is left.                                         *)
LEMMA ReadingSkip ==
  ASSUME ListShape(hdr), TableInv, PlacesInv, tablePc # "failed", hdr' = hdr,
         at.rem = 0, at.folder < NumFolders, Table!Count(hdr, at.folder) = 0,
         at'.i = at.i, at'.folder = at.folder + 1, at'.rem = 0, at'.size = at.size,
         at'.digest = at.digest, at'.val = at.val, at'.emptyFile = at.emptyFile,
         tablePc' = tablePc
  PROVE ReadingExact'
<1>0. HeaderShape(hdr) BY DEF ListShape
<1>1. at.folder \in 0 .. NumFolders - 1
  <2>1. at.folder \in Nat /\ NumFolders \in Nat BY <1>0, AtFields
  <2> QED BY <2>1
<1>2. /\ tablePc \in {"folder", "stream"} => ~NoData(at.i)
      /\ Reads(at.i, at.folder, Taken, at.size, at.digest, at.val, at.emptyFile)
  BY PlacesFind
<1>3. Taken = 0 /\ Taken' = 0 BY DEF Taken
<1>4. Reads(at.i, at.folder + 1, 0, at.size, at.digest, at.val, at.emptyFile)
  BY <1>0, <1>1, <1>2, <1>3, ReadsSkip
<1>5. (Reads(at.i, at.folder, Taken, at.size, at.digest, at.val, at.emptyFile))'
  BY <1>3, <1>4 DEF Reads
<1>6. NoData(at.i)' <=> NoData(at.i) BY DEF NoData
<1> QED BY <1>2, <1>5, <1>6 DEF ReadingExact

(* and after a stream.                                                       *)
LEMMA ReadingStream ==
  ASSUME ListShape(hdr), TableInv, PlacesInv, tablePc = "stream", tablePc' = "file",
         hdr' = hdr, at'.i = at.i + 1, at'.rem = at.rem - 1, at'.num = at.num,
         at'.digest = IF Table!CrcSource \in {"digest", "gap"} THEN at.digest + 1 ELSE at.digest,
         at'.val = IF Table!CrcSource = "digest" THEN at.val + 1 ELSE at.val,
         at'.emptyFile = at.emptyFile,
         \/ at.rem # 1 /\ at'.folder = at.folder /\ at'.size = at.size + 1
              /\ at.size < Len(hdr.sizes)
         \/ at.rem = 1 /\ at'.folder = at.folder + 1 /\ at'.size = at.size
  PROVE ReadingExact' /\ (at.rem # 1 => Taken' = Taken + 1)
<1>0. HeaderShape(hdr) BY DEF ListShape
<1>1. at.rem > 0 BY TableFinds DEF AtPlace
<1>2. /\ at.folder \in 0 .. NumFolders - 1 /\ at.i \in Nat /\ Taken \in Nat
      /\ at.rem \in Nat /\ at.num = Table!Count(hdr, at.folder)
      /\ Table!Count(hdr, at.folder) \in Nat
      /\ Taken + at.rem = Table!Count(hdr, at.folder)
  BY <1>1, StreamHere
<1>3. /\ Table!CrcSource = "folder" <=> Table!FolderCrcServes(hdr, at.folder)
      /\ hdr.digests # Absent /\ ~Table!FolderCrcServes(hdr, at.folder) =>
           Table!CrcSource = IF at.digest \in hdr.digests THEN "digest" ELSE "gap"
  BY SourceIs
<1>4. hdr.digests # Absent =>
        IF Table!FolderCrcServes(hdr, at.folder) THEN at'.digest = at.digest /\ at'.val = at.val
        ELSE at'.digest = at.digest + 1
               /\ at'.val = IF at.digest \in hdr.digests THEN at.val + 1 ELSE at.val
  BY <1>3
<1>5. ~NoData(at.i)
      /\ Reads(at.i, at.folder, Taken, at.size, at.digest, at.val, at.emptyFile)
  BY PlacesFind
<1>6. CASE at.rem # 1
  <2>1. Taken + 1 < Table!Count(hdr, at.folder) BY <1>1, <1>2, <1>6
  <2>2. ~Table!FolderCrcServes(hdr, at.folder)
    BY <1>2, <2>1 DEF Table!FolderCrcServes
  <2>3. Reads(at.i + 1, at.folder, Taken + 1, at.size + 1, at'.digest, at'.val, at.emptyFile)
    BY <1>0, <1>2, <1>4, <1>5, <1>6, <2>1, <2>2, ReadsInner
  <2>4. Taken' = Taken + 1
    <3>1. Taken = at.num - at.rem /\ at.num \in Nat BY <1>1, <1>2 DEF Taken
    <3>2. at'.rem # 0 /\ Taken' = at'.num - at'.rem BY <1>1, <1>2, <1>6 DEF Taken
    <3> QED BY <3>1, <3>2, <1>2
  <2>5. (Reads(at.i, at.folder, Taken, at.size, at.digest, at.val, at.emptyFile))'
    BY <1>6, <2>3, <2>4 DEF Reads
  <2>6. at'.num = Table!Count(hdr', at'.folder) /\ at'.rem <= at'.num
    BY <1>2, <1>6
  <2> QED BY <2>4, <2>5, <2>6 DEF ReadingExact
<1>7. CASE at.rem = 1
  <2>1. Taken + 1 = Table!Count(hdr, at.folder) BY <1>2, <1>7
  <2>2. Reads(at.i + 1, at.folder + 1, 0, at.size, at'.digest, at'.val, at.emptyFile)
    BY <1>0, <1>2, <1>4, <1>5, <2>1, ReadsLast
  <2>3. at'.rem = 0 BY <1>7
  <2>4. Taken' = 0 BY <2>3 DEF Taken
  <2>5. (Reads(at.i, at.folder, Taken, at.size, at.digest, at.val, at.emptyFile))'
    BY <1>7, <2>2, <2>4 DEF Reads
  <2> QED BY <1>7, <2>3, <2>5 DEF ReadingExact
<1> QED BY <1>6, <1>7

-----------------------------------------------------------------------------
(* Places: an entry that is through stays exact.                             *)
LEMMA ExactStays ==
  ASSUME ListShape(hdr), TableInv, tablePc \notin {"failed", "done"}, TableMoves,
         NEW e \in 0 .. NumFiles - 1, e < at.i, EntryExact(e)
  PROVE EntryExact(e)'
<1>0. HeaderShape(hdr) BY DEF ListShape
<1>1. NumFiles \in Nat /\ at.i \in Nat BY <1>0, AtFields
<1>2. hdr' = hdr /\ NumFiles' = NumFiles /\ NumFolders' = NumFolders
  BY DEF TableMoves, NumFiles, NumFolders
<1>3. EndOf(e)' = EndOf(e) BY <1>0, EndStays
<1>4. Position(e)' = Position(e)
  <2>1. PICK y \in 0 .. NumFiles : y = e BY <1>1
  <2>2. Placed(y) BY <1>0, <2>1, PlaceFacts
  <2>3. Position(y)' = Position(y) BY <2>2 DEF TableMoves
  <2> QED BY <2>1, <2>3
<1>5. FolderOf(e)' = FolderOf(e) BY DEF TableMoves
<1>6. NoData(e)' <=> NoData(e) BY <1>2 DEF NoData
<1>7. ASSUME NEW f, NEW n, TakesStream(e, f, n)
      PROVE  TakesStream(e, f, n)'
  <2>1. f \in 0 .. NumFolders - 1 /\ Opened(f) BY <1>7 DEF TakesStream
  <2>2. Opened(f)' /\ Position(FirstFile(f))' = Position(FirstFile(f))
    BY <1>0, <2>1, StartStays
  <2>3. StartOf(f)' = StartOf(f) BY <2>2 DEF StartOf
  <2> QED BY <1>2, <1>3, <1>4, <1>5, <1>7, <2>2, <2>3 DEF TakesStream
<1>8. PICK f : f = FolderAt(hdr, StreamsBefore(hdr, e)) OBVIOUS
<1>9. PICK n : n = NumberAt(hdr, StreamsBefore(hdr, e)) OBVIOUS
<1>10. CASE NoData(e) BY <1>3, <1>4, <1>6, <1>10 DEF EntryExact
<1>11. CASE ~NoData(e)
  <2>1. TakesStream(e, f, n) BY <1>8, <1>9, <1>11 DEF EntryExact
  <2>2. TakesStream(e, f, n)' BY <2>1, <1>7
  <2>3. f = FolderAt(hdr', StreamsBefore(hdr', e)) /\ n = NumberAt(hdr', StreamsBefore(hdr', e))
    BY <1>2, <1>8, <1>9
  <2> QED BY <2>2, <2>3, <1>6, <1>11 DEF EntryExact, TakesStream, StartOf
<1> QED BY <1>10, <1>11

(* A step that takes no entry                                                *)
LEMMA PlacesWait ==
  ASSUME ListShape(hdr), TableInv, PlacesInv, tablePc \notin {"failed", "done"},
         TableMoves, at'.i = at.i,
         NoneWasted(hdr) => /\ tablePc' \in {"folder", "stream"} => at'.pos = Position(at.i)'
                            /\ at'.rem > 0 => at'.pos = StartOf(at.folder)'
                                                + Stored(hdr, at'.folder, Taken')
  PROVE PlacesExact'
<1>1. hdr' = hdr /\ NumFiles' = NumFiles BY DEF TableMoves, NumFiles
<1> SUFFICES ASSUME NoneWasted(hdr)
             PROVE  /\ tablePc' \in {"folder", "stream"} => at'.pos = Position(at.i)'
                    /\ at'.rem > 0 => at'.pos = StartOf(at.folder)'
                                        + Stored(hdr', at'.folder, Taken')
                    /\ \A e \in 0 .. NumFiles - 1 : e < at.i => EntryExact(e)'
  BY <1>1 DEF PlacesExact
<1>2. \A e \in 0 .. NumFiles - 1 : e < at.i => EntryExact(e)
  BY PlacesFind DEF PlacesExact
<1>3. \A e \in 0 .. NumFiles - 1 : e < at.i => EntryExact(e)'
  BY <1>2, ExactStays
<1> QED BY <1>1, <1>3

(* A step that takes entry at.i                                              *)
LEMMA PlacesTake ==
  ASSUME ListShape(hdr), TableInv, PlacesInv, tablePc \notin {"failed", "done"},
         TableMoves, at'.i = at.i + 1, tablePc' = "file",
         NoneWasted(hdr) => /\ at'.rem > 0 => at'.pos = StartOf(at.folder)'
                                                + Stored(hdr, at'.folder, Taken')
                            /\ \A e \in 0 .. NumFiles - 1 : e = at.i => EntryExact(e)'
  PROVE PlacesExact'
<1>0. HeaderShape(hdr) BY DEF ListShape
<1>1. hdr' = hdr /\ NumFiles' = NumFiles BY DEF TableMoves, NumFiles
<1> SUFFICES ASSUME NoneWasted(hdr)
             PROVE  /\ at'.rem > 0 => at'.pos = StartOf(at.folder)'
                                        + Stored(hdr', at'.folder, Taken')
                    /\ \A e \in 0 .. NumFiles - 1 : e < at.i + 1 => EntryExact(e)'
  BY <1>1 DEF PlacesExact
<1>2. \A e \in 0 .. NumFiles - 1 : e < at.i => EntryExact(e)
  BY PlacesFind DEF PlacesExact
<1>3. at.i \in Nat /\ NumFiles \in Nat BY <1>0, AtFields
<1>4. ASSUME NEW e \in 0 .. NumFiles - 1, e < at.i + 1 PROVE EntryExact(e)'
  <2>1. e < at.i \/ e = at.i BY <1>3, <1>4
  <2>2. CASE e < at.i
    <3>1. EntryExact(e) BY <1>2, <2>2
    <3> QED BY <2>2, <3>1, ExactStays
  <2>3. CASE e = at.i BY <2>3
  <2> QED BY <2>1, <2>2, <2>3
<1> QED BY <1>1, <1>4

(* The start of the open folder stays.                                       *)
LEMMA OpenStays ==
  ASSUME ListShape(hdr), TableInv, tablePc \notin {"failed", "done"}, TableMoves,
         at.rem > 0
  PROVE /\ at.folder \in 0 .. NumFolders - 1 /\ Opened(at.folder)
        /\ StartOf(at.folder) \in Nat
        /\ \A f : f = at.folder => StartOf(f)' = StartOf(f) /\ Opened(f)'
<1>0. HeaderShape(hdr) BY DEF ListShape
<1>1. at.folder \in 0 .. NumFolders - 1 /\ Opened(at.folder) BY <1>0, PlaceFacts
<1>2. ASSUME NEW f, f = at.folder
      PROVE  StartOf(f)' = StartOf(f) /\ Opened(f)' /\ StartOf(f) \in Nat
  <2>1. f \in 0 .. NumFolders - 1 /\ Opened(f) BY <1>1, <1>2
  <2> QED BY <1>0, <2>1, StartStays DEF StartOf
<1> QED BY <1>1, <1>2

(* Places are exact after an entry without data,                             *)
LEMMA PlacesEmpty ==
  ASSUME ListShape(hdr), TableInv, PlacesInv, Table!EmptyEntry
  PROVE PlacesExact'
<1>0. HeaderShape(hdr) BY DEF ListShape
<1>1. /\ tablePc = "file" /\ tablePc' = "file" /\ hdr' = hdr /\ at.i < NumFiles
      /\ at'.i = at.i + 1 /\ at'.folder = at.folder
      /\ at'.rem = at.rem /\ at'.num = at.num /\ at'.pos = at.pos
      /\ \A e \in 0 .. NumFiles : Position(e)' = IF e = at.i THEN at.pos ELSE Position(e)
      /\ TableMoves
  BY <1>0, EmptyEntryDoes
<1>2. NumFiles \in Nat /\ at.i \in Nat BY <1>0, <1>1, AtFields
<1>3. ASSUME NEW e \in 0 .. NumFiles - 1, e = at.i
      PROVE  EntryExact(e)'
  <2>1. NoData(e)' BY <1>1, <1>3 DEF Table!EmptyEntry, NoData
  <2>2. ~Placed(e + 1)' BY <1>1, <1>2, <1>3 DEF Placed
  <2>3. EndOf(e)' = at.pos BY <2>2, <1>1 DEF EndOf, Placed
  <2>4. Position(e)' = at.pos
    <3>1. PICK y \in 0 .. NumFiles : y = e BY <1>2
    <3>2. Position(y)' = at.pos BY <1>1, <1>3, <3>1
    <3> QED BY <3>1, <3>2
  <2> QED BY <2>1, <2>3, <2>4 DEF EntryExact
<1>4. ASSUME NoneWasted(hdr), at'.rem > 0
      PROVE  at'.pos = StartOf(at.folder)' + Stored(hdr, at'.folder, Taken')
  <2>1. at.rem > 0 BY <1>1, <1>4
  <2>2. at.pos = StartOf(at.folder) + Stored(hdr, at.folder, Taken)
    BY <1>1, <1>4, <2>1, PlacesFind DEF PlacesExact
  <2>3. Taken' = Taken BY <1>1 DEF Taken
  <2>4. PICK f : f = at.folder OBVIOUS
  <2>5. StartOf(f)' = StartOf(f) BY <1>1, <2>1, <2>4, OpenStays
  <2>6. StartOf(at.folder)' = StartOf(f)' BY <1>1, <2>4 DEF StartOf, Position, FirstFile
  <2> QED BY <1>1, <2>2, <2>3, <2>4, <2>5, <2>6
<1> QED BY <1>1, <1>3, <1>4, PlacesTake

(* before one with data,                                                     *)
LEMMA PlacesData ==
  ASSUME ListShape(hdr), TableInv, PlacesInv, Table!DataEntry
  PROVE PlacesExact'
<1>0. HeaderShape(hdr) BY DEF ListShape
<1>1. /\ tablePc = "file" /\ hdr' = hdr /\ at.i < NumFiles /\ at' = at
      /\ \A e \in 0 .. NumFiles : Position(e)' = IF e = at.i THEN at.pos ELSE Position(e)
      /\ TableMoves
  BY <1>0, DataEntryDoes
<1>2. NumFiles \in Nat /\ at.i \in Nat BY <1>0, <1>1, AtFields
<1>3. at'.pos = Position(at.i)'
  <2>1. PICK y \in 0 .. NumFiles : y = at.i BY <1>1, <1>2
  <2>2. Position(y)' = at.pos BY <1>1, <2>1
  <2>3. Position(at.i)' = Position(y)' BY <1>1, <2>1 DEF Position
  <2> QED BY <1>1, <2>2, <2>3
<1>4. ASSUME NoneWasted(hdr), at'.rem > 0
      PROVE  at'.pos = StartOf(at.folder)' + Stored(hdr, at'.folder, Taken')
  <2>1. at.rem > 0 BY <1>1, <1>4
  <2>2. at.pos = StartOf(at.folder) + Stored(hdr, at.folder, Taken)
    BY <1>1, <1>4, <2>1, PlacesFind DEF PlacesExact
  <2>3. Taken' = Taken BY <1>1 DEF Taken
  <2>4. PICK f : f = at.folder OBVIOUS
  <2>5. StartOf(f)' = StartOf(f) BY <1>1, <2>1, <2>4, OpenStays
  <2>6. StartOf(at.folder)' = StartOf(f)' BY <1>1, <2>4 DEF StartOf, Position, FirstFile
  <2> QED BY <1>1, <2>2, <2>3, <2>4, <2>5, <2>6
<1> QED BY <1>1, <1>3, <1>4, PlacesWait

(* after a folder is opened,                                                 *)
LEMMA PlacesOpen ==
  ASSUME ListShape(hdr), TableInv, PlacesInv, Table!OpenFolder
  PROVE PlacesExact' /\ StartsExact'
<1>0. HeaderShape(hdr) BY DEF ListShape
<1>1. /\ tablePc = "folder" /\ tablePc' = "stream" /\ hdr' = hdr /\ at.rem = 0
      /\ at.i < NumFiles /\ at.folder < NumFolders /\ Table!Count(hdr, at.folder) # 0
      /\ at'.i = at.i /\ at'.folder = at.folder /\ at'.pos = at.pos
      /\ at'.rem = Table!Count(hdr, at.folder) /\ at'.num = Table!Count(hdr, at.folder)
      /\ \A e : Position(e)' = Position(e)
      /\ \A f \in 0 .. NumFolders : FirstFile(f)' = IF f = at.folder THEN at.i ELSE FirstFile(f)
      /\ TableMoves
  BY <1>0, OpenFolderDoes
<1>2. /\ NumFiles \in Nat /\ NumFolders \in Nat /\ at.i \in Nat /\ at.folder \in Nat
      /\ at.pos \in Nat /\ at.size \in Nat
  BY <1>0, <1>1, AtFields
<1>3. Reads(at.i, at.folder, Taken, at.size, at.digest, at.val, at.emptyFile)
      /\ PlacesExact /\ StartsExact
  BY <1>1, PlacesFind
<1>4. Taken' = 0 BY ReadingOpen
<1>5. Stored(hdr, at.folder, 0) = 0
  <2>1. at.folder \in 0 .. NumFolders BY <1>1, <1>2
  <2>2. SizesBefore(hdr, at.folder) \in Nat BY <1>0, <2>1, SizesGrow
  <2>3. Taken = 0 BY <1>1 DEF Taken
  <2>4. SizesBefore(hdr, at.folder) + 0 <= Len(hdr.sizes) BY <1>3, <2>3 DEF Reads
  <2>5. StoredSum(hdr, SizesBefore(hdr, at.folder), 0 .. 0 - 1) = 0
    BY <1>0, <2>2, <2>4, StoredFacts
  <2> QED BY <2>5 DEF Stored
<1>6. StartOf(at.folder)' = Position(at.i)' /\ Position(at.i)' = Position(at.i)
  <2>1. PICK f \in 0 .. NumFolders : f = at.folder BY <1>1, <1>2
  <2>2. FirstFile(f)' = at.i BY <1>1, <2>1
  <2>3. FirstFile(at.folder)' = FirstFile(f)' BY <1>1, <2>1 DEF FirstFile
  <2>4. FirstFile(at.folder)' = at'.i BY <1>1, <2>2, <2>3
  <2>5. StartOf(at.folder)' = Position(at.i)' BY <2>4 DEF StartOf, Position
  <2>6. PICK y : y = at.i OBVIOUS
  <2>7. Position(y)' = Position(y) BY <1>1
  <2>8. Position(at.i)' = Position(y)' BY <1>1, <2>6 DEF Position
  <2> QED BY <2>5, <2>6, <2>7, <2>8
<1>7. NoneWasted(hdr) => at.pos = Position(at.i) BY <1>1, <1>3 DEF PlacesExact
<1>8. PlacesExact' BY <1>1, <1>2, <1>4, <1>5, <1>6, <1>7, PlacesWait
<1>9. StartsExact'
  <2>1. Agrees(hdr) => NoneWasted(hdr) BY DEF Agrees
  <2>2. Agrees(hdr) => UnpackedBefore(hdr, at.folder) = at.pos
    BY <1>1, <1>3 DEF StartsExact
  <2>3. Agrees(hdr) => UnpackedBefore(hdr', at'.folder) = StartOf(at.folder)'
    BY <1>1, <1>6, <1>7, <2>1, <2>2
  <2>4. at'.rem # 0 BY <1>1
  <2> QED BY <1>1, <2>3, <2>4 DEF StartsExact
<1> QED BY <1>8, <1>9

(* after a folder without a stream,                                          *)
LEMMA PlacesSkip ==
  ASSUME ListShape(hdr), TableInv, PlacesInv, Table!SkipFolder, tablePc' # "failed"
  PROVE PlacesExact' /\ StartsExact' /\ ReadingExact'
<1>0. HeaderShape(hdr) BY DEF ListShape
<1>1. /\ tablePc = "folder" /\ tablePc' = "folder" /\ hdr' = hdr /\ at.rem = 0
      /\ at.i < NumFiles /\ at.folder < NumFolders /\ Table!Count(hdr, at.folder) = 0
      /\ at'.i = at.i /\ at'.folder = at.folder + 1
      /\ at'.rem = 0 /\ at'.pos = at.pos + hdr.folderSize[at.folder] /\ at'.size = at.size
      /\ at'.digest = at.digest /\ at'.val = at.val /\ at'.emptyFile = at.emptyFile
      /\ \A e : Position(e)' = Position(e)
      /\ TableMoves
  BY <1>0, SkipFolderDoes
<1>2. NumFolders \in Nat /\ at.folder \in Nat /\ at.pos \in Nat BY <1>0, <1>1, AtFields
<1>3. at.folder \in 0 .. NumFolders - 1 BY <1>1, <1>2
<1>4. NoneWasted(hdr) => hdr.folderSize[at.folder] = 0
  <2>1. at.folder \in Table!Folders(hdr) BY <1>0, <1>3, ShapeFacts
  <2> QED BY <1>1, <2>1 DEF NoneWasted
<1>5. PlacesExact /\ StartsExact BY <1>1, PlacesFind
<1>6. NoneWasted(hdr) => at'.pos = Position(at.i)'
  <2>1. NoneWasted(hdr) => at.pos = Position(at.i) BY <1>1, <1>5 DEF PlacesExact
  <2>2. PICK y : y = at.i OBVIOUS
  <2>3. Position(at.i)' = Position(y)' BY <1>1, <2>2 DEF Position
  <2> QED BY <1>1, <1>2, <1>4, <2>1, <2>2, <2>3
<1>7. PlacesExact' BY <1>1, <1>6, PlacesWait
<1>8. StartsExact'
  <2>1. UnpackedBefore(hdr, at.folder + 1)
          = UnpackedBefore(hdr, at.folder) + hdr.folderSize[at.folder]
    BY <1>0, <1>3, UnpackedGrow
  <2>2. Agrees(hdr) => UnpackedBefore(hdr, at.folder) = at.pos
    BY <1>1, <1>5 DEF StartsExact
  <2> QED BY <1>1, <2>1, <2>2 DEF StartsExact
<1>9. ReadingExact' BY <1>1, ReadingSkip
<1> QED BY <1>7, <1>8, <1>9

(* A step that leaves the folder as it is                                    *)
LEMMA StartsStay ==
  ASSUME ListShape(hdr), TableInv, PlacesInv, tablePc \notin {"failed", "done"},
         TableMoves, at'.folder = at.folder, at'.rem = 0 <=> at.rem = 0,
         at.rem = 0 => at'.pos = at.pos
  PROVE StartsExact'
<1>0. HeaderShape(hdr) BY DEF ListShape
<1>1. hdr' = hdr BY DEF TableMoves
<1>2. at.rem \in Nat BY <1>0, AtFields
<1>3. StartsExact BY PlacesFind
<1>4. CASE at.rem = 0 BY <1>1, <1>3, <1>4 DEF StartsExact
<1>5. CASE at.rem # 0
  <2>1. PICK f : f = at.folder OBVIOUS
  <2>2. StartOf(f)' = StartOf(f) BY <1>2, <1>5, <2>1, OpenStays
  <2>3. StartOf(at.folder)' = StartOf(f)' BY <2>1 DEF StartOf, Position, FirstFile
  <2>4. StartOf(at.folder)' = StartOf(at.folder) BY <2>1, <2>2, <2>3
  <2> QED BY <1>1, <1>3, <1>5, <2>4 DEF StartsExact
<1> QED BY <1>4, <1>5

(* after the last entry and the folders behind it,                           *)
LEMMA PlacesTail ==
  ASSUME ListShape(hdr), TableInv, PlacesInv, tablePc' # "failed",
         Table!EndOfEntries \/ Table!EndFolder
  PROVE PlacesExact' /\ StartsExact' /\ ReadingExact'
<1>0. HeaderShape(hdr) BY DEF ListShape
<1>1. CASE Table!EndOfEntries
  <2>1. /\ tablePc = "file" /\ tablePc' = "tail" /\ hdr' = hdr /\ at.rem = 0
        /\ at' = at /\ TableMoves
    BY <1>0, <1>1, EndOfEntriesDoes
  <2>2. PlacesExact' BY <2>1, PlacesWait
  <2>3. StartsExact' BY <2>1, StartsStay
  <2>4. ReadingExact' BY <2>1, ReadingSame
  <2> QED BY <2>2, <2>3, <2>4
<1>2. CASE Table!EndFolder
  <2>1. /\ tablePc = "tail" /\ hdr' = hdr /\ at.rem = 0
        /\ at'.i = at.i /\ at'.rem = 0 /\ at'.pos = at.pos /\ at'.size = at.size
        /\ at'.digest = at.digest /\ at'.val = at.val /\ at'.emptyFile = at.emptyFile
        /\ \/ at.folder = NumFolders /\ tablePc' = "done" /\ at'.folder = at.folder
           \/ /\ at.folder < NumFolders /\ tablePc' = "tail" /\ at'.folder = at.folder + 1
              /\ Table!Count(hdr, at.folder) = 0
        /\ TableMoves
    BY <1>0, <1>2, EndFolderDoes
  <2>2. PlacesExact' BY <2>1, PlacesWait
  <2>3. CASE at.folder = NumFolders /\ tablePc' = "done" /\ at'.folder = at.folder
    <3>1. StartsExact' BY <2>1, <2>3, StartsStay
    <3>2. Reads(at.i, at.folder, Taken, at.size, at.digest, at.val, at.emptyFile)
      BY <2>1, PlacesFind
    <3>3. Taken = 0 /\ Taken' = 0 BY <2>1 DEF Taken
    <3>4. (Reads(at.i, at.folder, Taken, at.size, at.digest, at.val, at.emptyFile))'
      BY <2>1, <2>3, <3>2, <3>3 DEF Reads
    <3>5. ReadingExact' BY <2>1, <2>3, <3>4 DEF ReadingExact
    <3> QED BY <2>2, <3>1, <3>5
  <2>4. CASE /\ at.folder < NumFolders /\ tablePc' = "tail" /\ at'.folder = at.folder + 1
             /\ Table!Count(hdr, at.folder) = 0
    <3>1. ReadingExact' BY <2>1, <2>4, ReadingSkip
    <3>2. at.folder \in 0 .. NumFolders - 1
      <4>1. NumFolders \in Nat /\ at.folder \in Nat BY <1>0, <2>1, AtFields
      <4> QED BY <2>4, <4>1
    <3>3. UnpackedBefore(hdr, at.folder + 1)
            = UnpackedBefore(hdr, at.folder) + hdr.folderSize[at.folder]
      BY <1>0, <3>2, UnpackedGrow
    <3>4. Agrees(hdr) => hdr.folderSize[at.folder] = 0
      <4>1. at.folder \in Table!Folders(hdr) BY <1>0, <3>2, ShapeFacts
      <4> QED BY <2>4, <4>1 DEF Agrees, NoneWasted
    <3>5. StartsExact BY <2>1, PlacesFind
    <3>6. at.pos \in Nat BY <1>0, <2>1, AtFields
    <3>7. StartsExact' BY <2>1, <2>4, <3>3, <3>4, <3>5, <3>6 DEF StartsExact
    <3> QED BY <2>2, <3>1, <3>7
  <2> QED BY <2>1, <2>3, <2>4
<1> QED BY <1>1, <1>2

(* What is stored of the open folder                                         *)
LEMMA StoredHere ==
  ASSUME ListShape(hdr), TableInv, PlacesInv, tablePc = "stream"
  PROVE /\ Stored(hdr, at.folder, Taken) \in Nat
        /\ at.rem # 1 /\ at.size < Len(hdr.sizes) =>
             /\ Table!NextSize \in Nat
             /\ SizeIn(hdr, at.folder, Taken) = Table!NextSize
             /\ Stored(hdr, at.folder, Taken + 1)
                  = Stored(hdr, at.folder, Taken) + Table!NextSize
        /\ at.rem = 1 => SizeIn(hdr, at.folder, Taken)
                           = hdr.folderSize[at.folder] - Stored(hdr, at.folder, Taken)
<1>0. HeaderShape(hdr) BY DEF ListShape
<1>1. at.rem > 0 BY TableFinds DEF AtPlace
<1>2. /\ at.folder \in 0 .. NumFolders - 1 /\ Taken \in Nat /\ at.rem \in Nat
      /\ Table!Count(hdr, at.folder) \in Nat
      /\ Taken + at.rem = Table!Count(hdr, at.folder)
  BY <1>1, StreamHere
<1>3. Reads(at.i, at.folder, Taken, at.size, at.digest, at.val, at.emptyFile)
  BY PlacesFind
<1>4. SizesBefore(hdr, at.folder) \in Nat
  <2>1. NumFolders \in Nat BY <1>0, ShapeFacts
  <2>2. at.folder \in 0 .. NumFolders BY <1>2, <2>1
  <2> QED BY <1>0, <2>2, SizesGrow
<1>5. PICK b \in Nat : b = SizesBefore(hdr, at.folder) BY <1>4
<1>6. PICK n \in Nat : n = Taken BY <1>2
<1>7. at.size = b + n /\ b + n <= Len(hdr.sizes) BY <1>3, <1>5, <1>6 DEF Reads
<1>8. Stored(hdr, at.folder, Taken) = StoredSum(hdr, b, 0 .. n - 1)
      /\ Stored(hdr, at.folder, Taken + 1) = StoredSum(hdr, b, 0 .. (n + 1) - 1)
  BY <1>5, <1>6 DEF Stored
<1>9. /\ StoredSum(hdr, b, 0 .. n - 1) \in Nat
      /\ b + n < Len(hdr.sizes) =>
           /\ hdr.sizes[b + n + 1] \in Nat
           /\ StoredSum(hdr, b, 0 .. (n + 1) - 1)
                = StoredSum(hdr, b, 0 .. n - 1) + hdr.sizes[b + n + 1]
  BY <1>0, <1>7, StoredFacts
<1>10. Table!NextSize = hdr.sizes[b + n + 1] BY <1>7 DEF Table!NextSize
<1>11. Table!SizesOf(hdr, at.folder) = Table!Count(hdr, at.folder) - 1
  BY <1>1, <1>2 DEF Table!SizesOf
<1>12. at.rem # 1 => Taken < Table!SizesOf(hdr, at.folder) BY <1>1, <1>2, <1>11
<1>13. at.rem = 1 => Taken = Table!SizesOf(hdr, at.folder) BY <1>2, <1>11
<1>14. at.rem # 1 => SizeIn(hdr, at.folder, Taken) = hdr.sizes[b + n + 1]
  BY <1>5, <1>6, <1>12 DEF SizeIn
<1>15. at.rem = 1 => SizeIn(hdr, at.folder, Taken)
                       = hdr.folderSize[at.folder] - Stored(hdr, at.folder, Taken)
  <2>1. ASSUME at.rem = 1 PROVE ~(Taken < Table!SizesOf(hdr, at.folder))
    BY <1>2, <1>13, <2>1
  <2> QED BY <1>13, <2>1 DEF SizeIn
<1> QED BY <1>7, <1>8, <1>9, <1>10, <1>14, <1>15

(* and after a stream.                                                       *)
LEMMA PlacesStream ==
  ASSUME ListShape(hdr), TableInv, PlacesInv, Table!LastStream \/ Table!InnerStream
  PROVE PlacesExact' /\ StartsExact' /\ ReadingExact'
<1>0. HeaderShape(hdr) BY DEF ListShape
<1>1. PICK q, g, z :
        /\ tablePc = "stream" /\ tablePc' = "file" /\ hdr' = hdr
        /\ q \in Sizes64 /\ z \in Nat /\ at.pos <= q /\ Table!PlaceStream(q, g, z)
        /\ \/ at.rem # 1 /\ g = at.folder /\ z = at.size + 1 /\ at.size < Len(hdr.sizes)
                /\ q = at.pos + Table!NextSize
           \/ at.rem = 1 /\ g = at.folder + 1 /\ z = at.size
                /\ q = Position(FirstFile(at.folder)) + hdr.folderSize[at.folder]
  <2>1. CASE Table!LastStream BY <1>0, <2>1, LastStreamDoes
  <2>2. CASE Table!InnerStream
    <3>1. /\ tablePc = "stream" /\ tablePc' = "file" /\ hdr' = hdr /\ at.rem # 1
          /\ at.size \in Nat /\ at.size < Len(hdr.sizes)
          /\ at.pos + Table!NextSize \in Sizes64 /\ at.pos <= at.pos + Table!NextSize
          /\ Table!PlaceStream(at.pos + Table!NextSize, at.folder, at.size + 1)
      BY <1>0, <2>2, InnerStreamDoes
    <3>2. at.size + 1 \in Nat BY <3>1
    <3> QED BY <3>1, <3>2
  <2> QED BY <2>1, <2>2
<1>2. /\ at.i < NumFiles /\ at.folder \in 0 .. NumFolders - 1
      /\ at'.i = at.i + 1 /\ at'.folder = g
      /\ at'.rem = at.rem - 1 /\ at'.num = at.num /\ at'.pos = q /\ at'.size = z
      /\ at'.digest = IF Table!CrcSource \in {"digest", "gap"} THEN at.digest + 1 ELSE at.digest
      /\ at'.val = IF Table!CrcSource = "digest" THEN at.val + 1 ELSE at.val
      /\ at'.emptyFile = at.emptyFile
      /\ \A e : Position(e)' = Position(e)
      /\ \A e \in 0 .. NumFiles - 1 :
           FolderOf(e)' = IF e = at.i THEN at.folder ELSE FolderOf(e)
      /\ TableMoves
  BY <1>0, <1>1, StreamPlacedDoes
<1>3. ReadingExact' /\ (at.rem # 1 => Taken' = Taken + 1)
  BY <1>1, <1>2, ReadingStream
<1>4. at.rem > 0 BY <1>1, TableFinds DEF AtPlace
<1>5. /\ NumFiles \in Nat /\ at.i \in Nat /\ at.pos \in Nat /\ at.rem \in Nat
  BY <1>0, <1>1, AtFields
<1>6. /\ StartOf(at.folder) \in Nat
      /\ \A f : f = at.folder => StartOf(f)' = StartOf(f) /\ Opened(f)'
  BY <1>1, <1>2, <1>4, OpenStays
<1>7. PlacesExact /\ StartsExact /\ ~NoData(at.i) BY <1>1, PlacesFind
<1>8. NoneWasted(hdr) => /\ at.pos = Position(at.i)
                         /\ at.pos = StartOf(at.folder) + Stored(hdr, at.folder, Taken)
  BY <1>1, <1>4, <1>7 DEF PlacesExact
<1>9. /\ Stored(hdr, at.folder, Taken) \in Nat
      /\ at.rem # 1 /\ at.size < Len(hdr.sizes) =>
           /\ Table!NextSize \in Nat
           /\ SizeIn(hdr, at.folder, Taken) = Table!NextSize
           /\ Stored(hdr, at.folder, Taken + 1)
                = Stored(hdr, at.folder, Taken) + Table!NextSize
      /\ at.rem = 1 => SizeIn(hdr, at.folder, Taken)
                         = hdr.folderSize[at.folder] - Stored(hdr, at.folder, Taken)
  BY <1>1, StoredHere
<1>10. hdr.folderSize[at.folder] \in Nat BY <1>0, <1>2, ListsOf
<1>11. at.rem = 1 => q = StartOf(at.folder) + hdr.folderSize[at.folder]
  BY <1>1 DEF StartOf
<1>12. NoneWasted(hdr) => q = at.pos + SizeIn(hdr, at.folder, Taken)
  <2>1. CASE at.rem # 1 BY <1>1, <1>9, <2>1
  <2>2. CASE at.rem = 1 BY <1>6, <1>8, <1>9, <1>10, <1>11, <2>2
  <2> QED BY <2>1, <2>2
<1>13. FolderAt(hdr, StreamsBefore(hdr, at.i)) = at.folder
       /\ NumberAt(hdr, StreamsBefore(hdr, at.i)) = Taken
  BY <1>1, <1>4, StreamHere
<1>14. ASSUME NoneWasted(hdr), NEW e \in 0 .. NumFiles - 1, e = at.i
       PROVE  EntryExact(e)'
  <2>1. ~(NoData(e)') BY <1>1, <1>7, <1>14 DEF NoData
  <2>2. PICK f : f = at.folder OBVIOUS
  <2>3. PICK n : n = Taken OBVIOUS
  <2>4. FolderAt(hdr', StreamsBefore(hdr', e)) = f /\ NumberAt(hdr', StreamsBefore(hdr', e)) = n
    BY <1>1, <1>13, <1>14, <2>2, <2>3
  <2>5. FolderOf(e)' = f /\ f \in 0 .. NumFolders - 1 /\ Opened(f)'
    BY <1>2, <1>6, <1>14, <2>2
  <2>6. NumFolders' = NumFolders BY <1>1 DEF NumFolders
  <2>7. Position(e)' = at.pos BY <1>2, <1>8, <1>14
  <2>8. StartOf(f)' = StartOf(at.folder) BY <1>6, <2>2
  <2>9. EndOf(e)' = q
    <3>1. ~Placed(e + 1)' BY <1>1, <1>2, <1>5, <1>14 DEF Placed
    <3> QED BY <3>1, <1>2 DEF EndOf, Placed
  <2>10. Position(e)' = StartOf(f)' + Stored(hdr, f, n)
    BY <1>8, <1>14, <2>2, <2>3, <2>7, <2>8
  <2>11. EndOf(e)' = Position(e)' + SizeIn(hdr, f, n)
    BY <1>12, <1>14, <2>2, <2>3, <2>7, <2>9
  <2>12. Stored(hdr, f, n) \in Nat /\ SizeIn(hdr, f, n) \in Int
    BY <1>1, <1>9, <1>10, <2>2, <2>3
  <2>13. TakesStream(e, f, n)'
    BY <1>1, <2>5, <2>6, <2>10, <2>11, <2>12 DEF TakesStream
  <2> QED BY <2>1, <2>4, <2>13 DEF EntryExact, TakesStream, StartOf
<1>15. ASSUME NoneWasted(hdr), at'.rem > 0
       PROVE  at'.pos = StartOf(at.folder)' + Stored(hdr, at'.folder, Taken')
  <2>1. at.rem # 1 /\ g = at.folder BY <1>1, <1>2, <1>5, <1>15
  <2>2. PICK f : f = at.folder OBVIOUS
  <2>3. StartOf(at.folder)' = StartOf(f)'
    BY <1>2, <2>1, <2>2 DEF StartOf, Position, FirstFile
  <2>4. StartOf(f)' = StartOf(at.folder) BY <1>6, <2>2
  <2>5. Taken' = Taken + 1 BY <1>3, <2>1
  <2>6. Stored(hdr, at.folder, Taken + 1) = Stored(hdr, at.folder, Taken) + Table!NextSize
        /\ Table!NextSize \in Nat /\ q = at.pos + Table!NextSize
    BY <1>1, <1>9, <2>1
  <2>7. q = StartOf(at.folder) + Stored(hdr, at.folder, Taken + 1)
    BY <1>6, <1>8, <1>9, <1>15, <2>6
  <2> QED BY <1>2, <2>1, <2>3, <2>4, <2>5, <2>7
<1>16. PlacesExact' BY <1>1, <1>2, <1>14, <1>15, PlacesTake
<1>17. StartsExact'
  <2>1. CASE at.rem # 1
    <3>1. at'.rem # 0 /\ at.rem # 0 BY <1>2, <1>4, <1>5, <2>1
    <3> QED BY <1>1, <1>2, <2>1, <3>1, StartsStay
  <2>2. CASE at.rem = 1
    <3>1. at'.rem = 0 /\ at.rem # 0 BY <1>2, <2>2
    <3>2. UnpackedBefore(hdr, at.folder + 1)
            = UnpackedBefore(hdr, at.folder) + hdr.folderSize[at.folder]
      BY <1>0, <1>2, UnpackedGrow
    <3>3. Agrees(hdr) => UnpackedBefore(hdr, at.folder) = StartOf(at.folder)
      BY <1>7, <3>1 DEF StartsExact
    <3>4. Agrees(hdr) => UnpackedBefore(hdr, at.folder + 1) = q
      BY <1>11, <2>2, <3>2, <3>3
    <3>5. g = at.folder + 1 BY <1>1, <2>2
    <3> QED BY <1>1, <1>2, <3>1, <3>4, <3>5 DEF StartsExact
  <2> QED BY <2>1, <2>2
<1> QED BY <1>3, <1>16, <1>17

-----------------------------------------------------------------------------
(* A header that agrees with itself is accepted.                             *)
LEMMA AgreesFacts ==
  ASSUME ListShape(hdr), Agrees(hdr)
  PROVE /\ StreamsBefore(hdr, NumFiles) = FirstOf(hdr, NumFolders)
        /\ Len(hdr.sizes) = SizesBefore(hdr, NumFolders)
        /\ UnpackedBefore(hdr, NumFolders) < TableU64
        /\ \A f \in 0 .. NumFolders - 1 :
             Stored(hdr, f, Table!SizesOf(hdr, f)) <= hdr.folderSize[f]
<1>0. HeaderShape(hdr) BY DEF ListShape
<1>1. NumFolders \in Nat /\ Table!Folders(hdr) = 0 .. NumFolders - 1
  BY <1>0, ShapeFacts
<1>2. NumFolders \in 0 .. NumFolders BY <1>1
<1>3. Below(hdr, NumFolders) = Table!Folders(hdr) BY <1>0, <1>1, <1>2, BelowIs
<1> QED BY <1>0, <1>1, <1>3, AllStreams, AllInFolders DEF Agrees, UnpackedBefore, NumFiles

(* The sizes of a folder add up to more and more.                            *)
LEMMA StoredGrows ==
  ASSUME HeaderShape(hdr), NEW f \in 0 .. NumFolders - 1,
         SizesBefore(hdr, NumFolders) <= Len(hdr.sizes),
         NEW n \in Nat, n <= Table!SizesOf(hdr, f)
  PROVE /\ Stored(hdr, f, n) \in Nat
        /\ Stored(hdr, f, n) <= Stored(hdr, f, Table!SizesOf(hdr, f))
<1> DEFINE m == Table!SizesOf(hdr, f)
           x == [k \in 0 .. m |-> Stored(hdr, f, k)]
<1>1. NumFolders \in Nat BY ShapeFacts
<1>2. f \in 0 .. NumFolders /\ f + 1 \in 0 .. NumFolders /\ NumFolders \in 0 .. NumFolders
      /\ f + 1 <= NumFolders
  BY <1>1
<1>3. m \in Nat BY ListsOf
<1>4. SizesBefore(hdr, f + 1) = SizesBefore(hdr, f) + m BY SizesGrow
<1>5. /\ SizesBefore(hdr, f) \in Nat /\ SizesBefore(hdr, f + 1) \in Nat
      /\ SizesBefore(hdr, NumFolders) \in Nat
  BY <1>2, SizesGrow
<1>6. SizesBefore(hdr, f + 1) <= SizesBefore(hdr, NumFolders) BY <1>2, SizesGrow
<1>7. Len(hdr.sizes) \in Nat
  <2>1. hdr.sizes \in Seq(Sizes64) BY ShapeFacts
  <2> QED BY <2>1, LenProperties
<1>8. PICK b \in Nat : b = SizesBefore(hdr, f) BY <1>5
<1> HIDE DEF m
<1>9. b + m <= Len(hdr.sizes) BY <1>3, <1>4, <1>5, <1>6, <1>7, <1>8
<1>10. ASSUME NEW k \in 0 .. m
       PROVE  x[k] \in Nat /\ (k < m => x[k] <= x[k + 1])
  <2>1. k \in Nat /\ b + k <= Len(hdr.sizes) BY <1>3, <1>7, <1>9
  <2>2. x[k] = StoredSum(hdr, b, 0 .. k - 1) BY <1>8 DEF Stored
  <2>3. StoredSum(hdr, b, 0 .. k - 1) \in Nat BY <2>1, StoredFacts
  <2>4. ASSUME k < m PROVE x[k] <= x[k + 1]
    <3>1. b + k < Len(hdr.sizes) BY <1>3, <1>7, <1>9, <2>1, <2>4
    <3>2. hdr.sizes[b + k + 1] \in Nat
          /\ StoredSum(hdr, b, 0 .. (k + 1) - 1)
               = StoredSum(hdr, b, 0 .. k - 1) + hdr.sizes[b + k + 1]
      BY <2>1, <3>1, StoredFacts
    <3>3. k + 1 \in 0 .. m BY <1>3, <2>4
    <3>4. x[k + 1] = StoredSum(hdr, b, 0 .. (k + 1) - 1) BY <1>8, <3>3 DEF Stored
    <3> QED BY <2>2, <2>3, <3>2, <3>4
  <2> QED BY <2>2, <2>3, <2>4
<1>11. n \in 0 .. m /\ m \in 0 .. m /\ n <= m BY <1>3 DEF m
<1>12. x[n] = Stored(hdr, f, n) /\ x[m] = Stored(hdr, f, m) BY <1>11
<1> HIDE DEF x
<1>13. \A k \in 0 .. m - 1 : x[k] <= x[k + 1] BY <1>3, <1>10
<1>14. x[n] <= x[m] BY <1>3, <1>10, <1>11, <1>13, Grows
<1> QED BY <1>10, <1>11, <1>12, <1>14 DEF m

(* The sum of unpack positions does not wrap below 2^64.                     *)
LEMMA AddAdds ==
  ASSUME NEW a \in Nat, NEW v \in Nat, a + v < TableU64
  PROVE Table!Add(a, v) = a + v
<1>1. TableU64 \in Nat \ {0} BY TableAssumption
<1>2. (a + v) % TableU64 = a + v BY <1>1
<1> QED BY <1>2 DEF Table!Add

(* A header that agrees with itself passes the first check,                  *)
LEMMA CheckAccepts ==
  ASSUME Agrees(hdr), Table!Check
  PROVE tablePc' # "failed"
BY DEF Table!Check, Table!Step, Agrees

(* no folder without a stream refuses it,                                    *)
LEMMA SkipAccepts ==
  ASSUME ListShape(hdr), TableInv, Agrees(hdr), Table!SkipFolder
  PROVE tablePc' # "failed"
<1>0. HeaderShape(hdr) BY DEF ListShape
<1>1. /\ tablePc = "folder" /\ at.folder < NumFolders /\ Table!Count(hdr, at.folder) = 0
      /\ tablePc' = IF Table!Add(at.pos, hdr.folderSize[at.folder]) < hdr.folderSize[at.folder]
                    THEN "failed" ELSE "folder"
  BY DEF Table!SkipFolder, Table!Step, NumFolders, Table!FolderSize
<1>2. NumFolders \in Nat /\ at.folder \in Nat /\ at.pos \in Nat BY <1>0, <1>1, AtFields
<1>3. at.folder \in Table!Folders(hdr)
  <2>1. at.folder \in 0 .. NumFolders - 1 BY <1>1, <1>2
  <2> QED BY <1>0, <2>1, ShapeFacts
<1>4. hdr.folderSize[at.folder] = 0 BY <1>1, <1>3 DEF Agrees, NoneWasted
<1>5. Table!Add(at.pos, 0) \in Nat
  <2>1. at.pos + 0 \in Nat BY <1>2
  <2> QED BY <2>1, TableAssumption DEF Table!Add
<1> QED BY <1>1, <1>4, <1>5

(* each stream fits,                                                         *)
LEMMA StreamAccepts ==
  ASSUME ListShape(hdr), TableInv, PlacesInv, Agrees(hdr), tablePc = "stream"
  PROVE IF at.rem = 1 THEN Table!LastFits ELSE Table!InnerFits
<1>0. HeaderShape(hdr) BY DEF ListShape
<1>1. at.rem > 0 BY TableFinds DEF AtPlace
<1>2. /\ at.folder \in 0 .. NumFolders - 1 /\ Taken \in Nat /\ at.rem \in Nat
      /\ Table!Count(hdr, at.folder) \in Nat
      /\ Taken + at.rem = Table!Count(hdr, at.folder)
  BY <1>1, StreamHere
<1>3. /\ PlacesExact /\ StartsExact
      /\ Reads(at.i, at.folder, Taken, at.size, at.digest, at.val, at.emptyFile)
  BY PlacesFind
<1>4. /\ Len(hdr.sizes) = SizesBefore(hdr, NumFolders)
      /\ UnpackedBefore(hdr, NumFolders) < TableU64
      /\ Stored(hdr, at.folder, Table!SizesOf(hdr, at.folder)) <= hdr.folderSize[at.folder]
  BY <1>2, AgreesFacts
<1> DEFINE b == StartOf(at.folder)
           s == hdr.folderSize[at.folder]
           m == Table!SizesOf(hdr, at.folder)
<1>5. at.pos = b + Stored(hdr, at.folder, Taken)
  BY <1>1, <1>3 DEF PlacesExact, Agrees
<1>6. b = UnpackedBefore(hdr, at.folder) BY <1>1, <1>3 DEF StartsExact
<1>7. NumFolders \in Nat BY <1>0, ShapeFacts
<1>8. at.folder \in 0 .. NumFolders /\ at.folder + 1 \in 0 .. NumFolders
      /\ NumFolders \in 0 .. NumFolders /\ at.folder + 1 <= NumFolders
  BY <1>2, <1>7
<1>9. UnpackedBefore(hdr, at.folder + 1) = b + s BY <1>0, <1>2, <1>6, UnpackedGrow
<1>10. UnpackedBefore(hdr, at.folder + 1) <= UnpackedBefore(hdr, NumFolders)
  BY <1>0, <1>8, UnpackedGrow
<1>11. s \in Nat /\ m \in Nat BY <1>0, <1>2, ListsOf
<1>12. b \in Nat /\ UnpackedBefore(hdr, NumFolders) \in Nat
  BY <1>0, <1>6, <1>8, UnpackedGrow
<1>13. TableU64 \in Nat BY TableAssumption
<1>14. b + s < TableU64 BY <1>4, <1>9, <1>10, <1>11, <1>12, <1>13
<1>15. m = Table!Count(hdr, at.folder) - 1 BY <1>1, <1>2 DEF Table!SizesOf
<1>16. SizesBefore(hdr, NumFolders) <= Len(hdr.sizes)
  <2>1. SizesBefore(hdr, NumFolders) \in Nat BY <1>0, <1>8, SizesGrow
  <2> QED BY <1>4, <2>1
<1>17. ASSUME NEW n \in Nat, n <= m
       PROVE  Stored(hdr, at.folder, n) \in Nat /\ Stored(hdr, at.folder, n) <= s
  <2>1. Stored(hdr, at.folder, n) \in Nat
        /\ Stored(hdr, at.folder, n) <= Stored(hdr, at.folder, m)
    BY <1>0, <1>2, <1>16, <1>17, StoredGrows
  <2>2. Stored(hdr, at.folder, m) \in Nat BY <1>0, <1>2, <1>11, <1>16, StoredGrows
  <2> QED BY <1>4, <1>11, <2>1, <2>2
<1> HIDE DEF b, s, m
<1>18. CASE at.rem = 1
  <2>1. Taken <= m BY <1>2, <1>15, <1>18
  <2>2. Stored(hdr, at.folder, Taken) \in Nat /\ Stored(hdr, at.folder, Taken) <= s
    BY <1>2, <1>17, <2>1
  <2>3. at.pos - b <= s BY <1>5, <1>12, <2>2
  <2>4. Table!Add(b, s) = b + s BY <1>11, <1>12, <1>14, AddAdds
  <2>5. Table!FolderStart = b /\ Table!FolderSize = s
    BY DEF Table!FolderStart, Table!FolderSize, b, s, StartOf, Position, FirstFile
  <2>6. Table!FolderEnd >= s
    BY <1>11, <1>12, <2>4, <2>5 DEF Table!FolderEnd
  <2>7. Table!LastFits BY <2>3, <2>5, <2>6 DEF Table!LastFits
  <2> QED BY <1>18, <2>7
<1>19. CASE at.rem # 1
  <2>1. Taken + 1 <= m /\ Taken + 1 \in Nat BY <1>1, <1>2, <1>15, <1>19
  <2>2. at.size = SizesBefore(hdr, at.folder) + Taken BY <1>3 DEF Reads
  <2>3. at.size < Len(hdr.sizes)
    <3>1. SizesBefore(hdr, at.folder + 1) = SizesBefore(hdr, at.folder) + m
      BY <1>0, <1>2, SizesGrow DEF m
    <3>2. SizesBefore(hdr, at.folder + 1) <= SizesBefore(hdr, NumFolders)
      BY <1>0, <1>8, SizesGrow
    <3>3. /\ SizesBefore(hdr, at.folder) \in Nat /\ SizesBefore(hdr, NumFolders) \in Nat
          /\ SizesBefore(hdr, at.folder + 1) \in Nat
      BY <1>0, <1>8, SizesGrow
    <3> QED BY <1>2, <1>4, <1>11, <2>1, <2>2, <3>1, <3>2, <3>3
  <2>4. /\ Stored(hdr, at.folder, Taken) \in Nat /\ Table!NextSize \in Nat
        /\ Stored(hdr, at.folder, Taken + 1)
             = Stored(hdr, at.folder, Taken) + Table!NextSize
    BY <1>19, <2>3, StoredHere
  <2>5. Stored(hdr, at.folder, Taken + 1) <= s BY <1>17, <2>1
  <2>6. at.pos \in Nat /\ at.pos + Table!NextSize < TableU64
    BY <1>5, <1>11, <1>12, <1>13, <1>14, <2>4, <2>5
  <2>7. Table!Add(at.pos, Table!NextSize) = at.pos + Table!NextSize
    BY <2>4, <2>6, AddAdds
  <2>8. Table!InnerFits BY <2>3, <2>4, <2>6, <2>7 DEF Table!InnerFits
  <2> QED BY <1>19, <2>8
<1> QED BY <1>18, <1>19

(* No stream is left over at the end.                                        *)
LEMMA EndAccepts ==
  ASSUME ListShape(hdr), TableInv, PlacesInv, Agrees(hdr),
         tablePc \notin {"failed", "done"}, at.i = NumFiles, at.folder < NumFolders
  PROVE at.rem = 0 /\ Table!Count(hdr, at.folder) = 0
<1>0. HeaderShape(hdr) BY DEF ListShape
<1>1. /\ NumFolders \in Nat /\ at.folder \in Nat /\ at.rem \in Nat BY <1>0, AtFields
<1>2. /\ at.folder \in 0 .. NumFolders - 1 /\ at.folder \in 0 .. NumFolders
      /\ at.folder + 1 \in 0 .. NumFolders /\ NumFolders \in 0 .. NumFolders
      /\ at.folder + 1 <= NumFolders
  BY <1>1
<1>3. StreamsBefore(hdr, at.i) = FirstOf(hdr, NumFolders) BY AgreesFacts
<1>4. StreamsBefore(hdr, at.i) = FirstOf(hdr, at.folder) + Taken
  BY PlacesFind DEF Reads
<1>5. /\ FirstOf(hdr, at.folder) \in Nat /\ FirstOf(hdr, NumFolders) \in Nat
      /\ FirstOf(hdr, at.folder + 1) = FirstOf(hdr, at.folder) + Table!Count(hdr, at.folder)
      /\ FirstOf(hdr, at.folder + 1) <= FirstOf(hdr, NumFolders)
      /\ Table!Count(hdr, at.folder) \in Nat
  BY <1>0, <1>2, FirstGrows, ListsOf
<1>6. at.rem > 0 => Taken \in Nat /\ Taken + at.rem = Table!Count(hdr, at.folder)
  BY StreamHere
<1>7. at.rem = 0 BY <1>1, <1>3, <1>4, <1>5, <1>6
<1>8. Taken = 0 BY <1>7 DEF Taken
<1> QED BY <1>3, <1>4, <1>5, <1>7, <1>8

(* and nothing is left over at the end.                                      *)
LEMMA TailAccepts ==
  ASSUME ListShape(hdr), TableInv, PlacesInv, Agrees(hdr),
         Table!EndOfEntries \/ Table!EndFolder
  PROVE tablePc' # "failed"
<1>0. HeaderShape(hdr) BY DEF ListShape
<1>1. CASE Table!EndOfEntries
  <2>1. /\ tablePc = "file" /\ at.i = NumFiles
        /\ tablePc' = IF at.rem # 0 THEN "failed" ELSE "tail"
    BY <1>1 DEF Table!EndOfEntries, Table!Step, NumFiles
  <2>2. at.rem \in Nat BY <1>0, <2>1, AtFields
  <2>3. at.rem > 0 => at.folder < NumFolders BY <2>1, TableFinds DEF AtPlace
  <2>4. at.rem = 0 BY <2>1, <2>2, <2>3, EndAccepts
  <2> QED BY <2>1, <2>4
<1>2. CASE Table!EndFolder
  <2>1. tablePc = "tail" BY <1>2 DEF Table!EndFolder
  <2>2. at.i = NumFiles BY <2>1, TableFinds DEF AtPlace
  <2>3. \/ tablePc' = "done"
        \/ at.folder < NumFolders
             /\ tablePc' = IF hdr.counts = Absent \/ Table!Count(hdr, at.folder) # 0
                           THEN "failed" ELSE "tail"
    BY <1>2 DEF Table!EndFolder, Table!Step, NumFolders
  <2>4. CASE at.folder < NumFolders
    <3>1. Table!Count(hdr, at.folder) = 0 BY <2>1, <2>2, <2>4, EndAccepts
    <3>2. hdr.counts # Absent BY <3>1 DEF Table!Count
    <3> QED BY <2>3, <3>1, <3>2
  <2> QED BY <2>3, <2>4
<1> QED BY <1>1, <1>2

-----------------------------------------------------------------------------
(* The bit vectors.  What the bits of entry e are to say                      *)
DirEntry(e) ==
  NoData(e) /\ (hdr.emptyFiles = Absent \/ EmptiesBefore(hdr, e) \notin hdr.emptyFiles)
CrcHere(e) == CrcIn(hdr, FolderAt(hdr, StreamsBefore(hdr, e)),
                         NumberAt(hdr, StreamsBefore(hdr, e)))
CrcEntry(e) == ~NoData(e) /\ CrcHere(e) # Table!NoCrc

(* The first entry of the byte that is not written                           *)
Unwritten == at.i - mask.bit
BitsSet == [bit : 0 .. ByteBits, dirs : SUBSET Nat, crcs : SUBSET Nat]
BytesPlace ==
  /\ mask \in BitsSet /\ mask.bit <= at.i
  /\ Unwritten % ByteBits = 0 \/ (at.i = NumFiles /\ mask.bit = 0)
  /\ tablePc \in {"folder", "stream"} => mask.bit < ByteBits
  /\ tablePc \in {"tail", "done"} => mask.bit = 0
  /\ \A n \in mask.dirs \cup mask.crcs : n < mask.bit
ByteNumbers == {e \div ByteBits : e \in 0 .. NumFiles - 1}
FlagTables(d) ==
  /\ DOMAIN d.IsDirs = ByteNumbers /\ DOMAIN d.CrcDefs = ByteNumbers
  /\ DOMAIN d.CrcVals = 0 .. NumFiles - 1

(* The bits of entry e are written, or in the byte that is not               *)
IsDirBit(e) == e % ByteBits \in db.IsDirs[e \div ByteBits]
HasCrcBit(e) == e % ByteBits \in db.CrcDefs[e \div ByteBits]
BitsRight(e) ==
  /\ e < Unwritten => (IsDirBit(e) <=> DirEntry(e)) /\ (HasCrcBit(e) <=> CrcEntry(e))
  /\ e >= Unwritten => /\ e % ByteBits \in mask.dirs <=> DirEntry(e)
                       /\ e % ByteBits \in mask.crcs <=> CrcEntry(e)
  /\ ~NoData(e) => db.CrcVals[e] = CrcHere(e)
BitsExact == \A e \in 0 .. NumFiles - 1 : e < at.i => BitsRight(e)
BitsInv == tablePc # "failed" => BytesPlace /\ FlagTables(db) /\ BitsExact

(* BitsInv, before the loop has failed                                       *)
LEMMA BitsFind ==
  ASSUME BitsInv, tablePc # "failed"
  PROVE BytesPlace /\ FlagTables(db) /\ BitsExact
BY DEF BitsInv

(* The entries of a byte                                                     *)
LEMMA OneByte ==
  ASSUME NEW n \in Nat \ {0}, NEW s \in Nat, s % n = 0, NEW e \in Nat
  PROVE /\ s <= e /\ e < s + n => e \div n = s \div n /\ e % n = e - s
        /\ e < s => e \div n # s \div n
        /\ e % n \in 0 .. n - 1
<1>1. /\ s = n * (s \div n) + (s % n) /\ s \div n \in Int
      /\ e = n * (e \div n) + (e % n) /\ e \div n \in Int
      /\ e % n \in 0 .. n - 1
  OBVIOUS
<1> DEFINE c == s \div n
           d == e \div n
           r == e % n
<1>2. s = n * c /\ e = n * d + r /\ c \in Int /\ d \in Int /\ r \in 0 .. n - 1
  BY <1>1
<1> HIDE DEF c, d, r
<1>3. ASSUME c + 1 <= d PROVE n * c + n <= n * d
  BY <1>2, <1>3
<1>4. ASSUME d + 1 <= c PROVE n * d + n <= n * c
  BY <1>2, <1>4
<1>5. ASSUME s <= e, e < s + n PROVE d = c /\ r = e - s
  <2>1. ~(c + 1 <= d) BY <1>2, <1>3, <1>5
  <2>2. ~(d + 1 <= c) BY <1>2, <1>4, <1>5
  <2>3. d = c BY <1>2, <2>1, <2>2
  <2> QED BY <1>2, <2>3
<1>6. ASSUME e < s PROVE d # c BY <1>2, <1>6
<1> QED BY <1>2, <1>5, <1>6 DEF c, d, r

(* The fields of mask                                                        *)
LEMMA MaskFields ==
  ASSUME HeaderShape(hdr), TableInv, BytesPlace, tablePc # "failed"
  PROVE /\ mask.bit \in Nat /\ mask.bit <= ByteBits /\ ByteBits \in Nat \ {0}
        /\ mask.dirs \subseteq Nat /\ mask.crcs \subseteq Nat
        /\ at.i \in Nat /\ NumFiles \in Nat /\ at.i <= NumFiles
        /\ Unwritten \in Nat /\ Unwritten <= at.i /\ Unwritten + mask.bit = at.i
<1>1. ByteBits \in Nat \ {0} BY TableAssumption
<1>2. mask.bit \in 0 .. ByteBits /\ mask.dirs \subseteq Nat /\ mask.crcs \subseteq Nat
      /\ mask.bit <= at.i
  BY DEF BytesPlace, BitsSet
<1>3. at.i \in Nat /\ NumFiles \in Nat /\ at.i <= NumFiles BY AtFields
<1> QED BY <1>1, <1>2, <1>3 DEF Unwritten

(* What a header says of an entry stays.                                     *)
LEMMA SaidStays ==
  ASSUME hdr' = hdr, NEW e
  PROVE /\ NoData(e)' <=> NoData(e)
        /\ DirEntry(e)' <=> DirEntry(e)
        /\ CrcEntry(e)' <=> CrcEntry(e)
        /\ CrcHere(e)' = CrcHere(e)
        /\ NumFiles' = NumFiles /\ ByteNumbers' = ByteNumbers
<1>1. (NoData(e)' <=> NoData(e)) /\ CrcHere(e)' = CrcHere(e) /\ NumFiles' = NumFiles
  BY DEF NoData, CrcHere, NumFiles
<1>2. DirEntry(e)' <=> DirEntry(e) BY <1>1 DEF DirEntry
<1>3. CrcEntry(e)' <=> CrcEntry(e) BY <1>1 DEF CrcEntry
<1>4. ByteNumbers' = ByteNumbers BY <1>1 DEF ByteNumbers
<1> QED BY <1>1, <1>2, <1>3, <1>4

(* A step that writes no bit                                                 *)
LEMMA BitsWait ==
  ASSUME BitsInv, tablePc # "failed", hdr' = hdr, at'.i = at.i, mask' = mask,
         db'.IsDirs = db.IsDirs, db'.CrcDefs = db.CrcDefs,
         DOMAIN db'.CrcVals = DOMAIN db.CrcVals,
         \A e \in 0 .. NumFiles - 1 : e < at.i => db'.CrcVals[e] = db.CrcVals[e],
         tablePc' \in {"folder", "stream"} => mask.bit < ByteBits,
         tablePc' \in {"tail", "done"} => mask.bit = 0
  PROVE BitsInv'
<1>1. BytesPlace /\ FlagTables(db) /\ BitsExact BY BitsFind
<1>2. NumFiles' = NumFiles /\ ByteNumbers' = ByteNumbers BY SaidStays
<1>3. Unwritten' = Unwritten BY DEF Unwritten
<1>4. BytesPlace'
  <2>1. Unwritten' % ByteBits = 0 \/ (at'.i = NumFiles' /\ mask'.bit = 0)
    BY <1>1, <1>2, <1>3 DEF BytesPlace
  <2> QED BY <1>1, <2>1 DEF BytesPlace, BitsSet
<1>5. FlagTables(db)' BY <1>1, <1>2 DEF FlagTables
<1>6. ASSUME NEW e \in 0 .. NumFiles - 1, e < at.i PROVE BitsRight(e)'
  <2>1. BitsRight(e) BY <1>1, <1>6 DEF BitsExact
  <2>2. IsDirBit(e)' <=> IsDirBit(e) BY DEF IsDirBit
  <2>3. HasCrcBit(e)' <=> HasCrcBit(e) BY DEF HasCrcBit
  <2>4. db'.CrcVals[e] = db.CrcVals[e] BY <1>6
  <2>5. (NoData(e)' <=> NoData(e)) /\ CrcHere(e)' = CrcHere(e) BY SaidStays
  <2>6. (DirEntry(e)' <=> DirEntry(e)) /\ (CrcEntry(e)' <=> CrcEntry(e)) BY SaidStays
  <2> HIDE DEF Unwritten
  <2> QED BY <2>1, <2>2, <2>3, <2>4, <2>5, <2>6, <1>3 DEF BitsRight
<1>7. BitsExact' BY <1>2, <1>6 DEF BitsExact
<1> QED BY <1>4, <1>5, <1>7 DEF BitsInv

(* The byte after the first bit of a byte begins with one, too.              *)
LEMMA NextByte ==
  ASSUME NEW n \in Nat \ {0}, NEW s \in Nat, s % n = 0
  PROVE (s + n) % n = 0
<1>1. /\ s = n * (s \div n) + (s % n) /\ s \div n \in Int
      /\ s + n = n * ((s + n) \div n) + ((s + n) % n) /\ (s + n) \div n \in Int
      /\ (s + n) % n \in 0 .. n - 1
  OBVIOUS
<1> DEFINE c == s \div n
           d == (s + n) \div n
           r == (s + n) % n
<1>2. s = n * c /\ s + n = n * d + r /\ c \in Int /\ d \in Int /\ r \in 0 .. n - 1
  BY <1>1
<1> HIDE DEF c, d, r
<1>3. ASSUME c + 2 <= d PROVE n * c + 2 * n <= n * d BY <1>2, <1>3
<1>4. ASSUME d <= c PROVE n * d <= n * c BY <1>2, <1>4
<1>5. ~(c + 2 <= d) /\ ~(d <= c) BY <1>2, <1>3, <1>4
<1>6. d = c + 1 BY <1>2, <1>5
<1>7. n * d = n * c + n BY <1>2, <1>6
<1>8. r = 0 BY <1>2, <1>7
<1> QED BY <1>8 DEF r

(* A byte is written.                                                        *)
LEMMA BitsFlush ==
  ASSUME ListShape(hdr), TableInv, BitsInv, Table!FlushByte
  PROVE BitsInv'
<1>0. HeaderShape(hdr) BY DEF ListShape
<1> DEFINE c == (at.i - 1) \div ByteBits
           D == [db.IsDirs EXCEPT ![c] = mask.dirs]
           V == [db.CrcDefs EXCEPT ![c] = mask.crcs]
<1>1. /\ tablePc = "file" /\ tablePc' = "file" /\ hdr' = hdr /\ at' = at
      /\ mask.bit = ByteBits \/ (at.i = NumFiles /\ mask.bit # 0)
      /\ mask' = [bit |-> 0, dirs |-> {}, crcs |-> {}]
      /\ db' = [db EXCEPT !.IsDirs[c] = mask.dirs, !.CrcDefs[c] = mask.crcs]
  BY DEF Table!FlushByte, Table!Step, Table!FlushDue, Table!FreshMask, Table!ByteOf, NumFiles
<1>2. BytesPlace /\ FlagTables(db) /\ BitsExact BY <1>1, BitsFind
<1>3. /\ mask.bit \in Nat /\ mask.bit <= ByteBits /\ ByteBits \in Nat \ {0}
      /\ at.i \in Nat /\ NumFiles \in Nat /\ at.i <= NumFiles
      /\ Unwritten \in Nat /\ Unwritten <= at.i /\ Unwritten + mask.bit = at.i
  BY <1>0, <1>1, <1>2, MaskFields
<1>4. mask.bit # 0 /\ mask.bit >= 1 BY <1>1, <1>3
<1>5. Unwritten % ByteBits = 0 BY <1>2, <1>4 DEF BytesPlace
<1>6. db'.IsDirs = D /\ db'.CrcDefs = V /\ db'.CrcVals = db.CrcVals
  <2>1. Tables(db) BY <1>1, TableFinds
  <2>2. db' = [db EXCEPT !.IsDirs = D, !.CrcDefs = V] BY <1>1
  <2> HIDE DEF D, V
  <2> QED BY <2>1, <2>2 DEF Tables
<1>7. PICK s \in Nat : s = Unwritten BY <1>3
<1>8. c = s \div ByteBits /\ c \in ByteNumbers
  <2>1. at.i - 1 \in Nat /\ s <= at.i - 1 /\ at.i - 1 < s + ByteBits
    BY <1>3, <1>4, <1>7
  <2>2. c = s \div ByteBits BY <1>3, <1>5, <1>7, <2>1, OneByte
  <2>3. at.i - 1 \in 0 .. NumFiles - 1 BY <1>3, <2>1
  <2> QED BY <2>2, <2>3 DEF ByteNumbers
<1>9. NumFiles' = NumFiles /\ ByteNumbers' = ByteNumbers BY <1>1, SaidStays
<1>10. /\ DOMAIN D = ByteNumbers /\ DOMAIN V = ByteNumbers
       /\ D[c] = mask.dirs /\ V[c] = mask.crcs
       /\ \A x \in ByteNumbers : x # c => D[x] = db.IsDirs[x] /\ V[x] = db.CrcDefs[x]
  BY <1>2, <1>8 DEF FlagTables
<1> HIDE DEF D, V, c
<1>11. FlagTables(db)' BY <1>2, <1>6, <1>9, <1>10 DEF FlagTables
<1>12. mask'.bit = 0 /\ mask'.dirs = {} /\ mask'.crcs = {} BY <1>1
<1>13. Unwritten' = at.i BY <1>1, <1>3, <1>12 DEF Unwritten
<1>14. BytesPlace'
  <2>1. mask' \in BitsSet BY <1>1, <1>3 DEF BitsSet
  <2>2. Unwritten' % ByteBits = 0 \/ (at'.i = NumFiles' /\ mask'.bit = 0)
    <3>1. CASE mask.bit = ByteBits
      <4>1. at.i = s + ByteBits BY <1>3, <1>7, <3>1
      <4>2. (s + ByteBits) % ByteBits = 0 BY <1>3, <1>5, <1>7, NextByte
      <4> QED BY <1>13, <4>1, <4>2
    <3>2. CASE at.i = NumFiles BY <1>1, <1>9, <1>12, <3>2
    <3> QED BY <1>1, <3>1, <3>2
  <2>3. BitsSet' = BitsSet BY DEF BitsSet
  <2> QED BY <1>1, <1>3, <1>12, <2>1, <2>2, <2>3 DEF BytesPlace
<1>15. ASSUME NEW e \in 0 .. NumFiles - 1, e < at.i PROVE BitsRight(e)'
  <2>1. BitsRight(e) BY <1>2, <1>15 DEF BitsExact
  <2>2. e \in Nat BY <1>3
  <2>3. /\ s <= e /\ e < s + ByteBits => e \div ByteBits = c
        /\ e < s => e \div ByteBits # c
    BY <1>3, <1>5, <1>7, <1>8, <2>2, OneByte
  <2>4. e \div ByteBits \in ByteNumbers BY DEF ByteNumbers
  <2>5. (IsDirBit(e)' <=> DirEntry(e)) /\ (HasCrcBit(e)' <=> CrcEntry(e))
    <3>1. CASE e < s
      <4>1. (IsDirBit(e) <=> DirEntry(e)) /\ (HasCrcBit(e) <=> CrcEntry(e))
        BY <1>7, <2>1, <3>1 DEF BitsRight
      <4>2. D[e \div ByteBits] = db.IsDirs[e \div ByteBits]
            /\ V[e \div ByteBits] = db.CrcDefs[e \div ByteBits]
        BY <1>10, <2>3, <2>4, <3>1
      <4>3. (IsDirBit(e)' <=> IsDirBit(e)) /\ (HasCrcBit(e)' <=> HasCrcBit(e))
        BY <1>6, <4>2 DEF IsDirBit, HasCrcBit
      <4> QED BY <4>1, <4>3
    <3>2. CASE ~(e < s)
      <4>1. s <= e BY <2>2, <3>2
      <4>2. /\ e % ByteBits \in mask.dirs <=> DirEntry(e)
            /\ e % ByteBits \in mask.crcs <=> CrcEntry(e)
        BY <1>7, <2>1, <4>1 DEF BitsRight
      <4>3. e \div ByteBits = c BY <1>3, <1>7, <1>15, <2>2, <2>3, <4>1
      <4>4. D[e \div ByteBits] = mask.dirs /\ V[e \div ByteBits] = mask.crcs
        BY <1>10, <4>3
      <4>5. /\ IsDirBit(e)' <=> e % ByteBits \in mask.dirs
            /\ HasCrcBit(e)' <=> e % ByteBits \in mask.crcs
        BY <1>6, <4>4 DEF IsDirBit, HasCrcBit
      <4> QED BY <4>2, <4>5
    <3> QED BY <3>1, <3>2
  <2>6. /\ (NoData(e)' <=> NoData(e)) /\ CrcHere(e)' = CrcHere(e)
        /\ (DirEntry(e)' <=> DirEntry(e)) /\ (CrcEntry(e)' <=> CrcEntry(e))
    BY <1>1, SaidStays
  <2>7. ~NoData(e) => db'.CrcVals[e] = CrcHere(e) BY <1>6, <2>1 DEF BitsRight
  <2>8. ~(e >= at.i) BY <1>3, <1>15, <2>2
  <2> QED BY <1>13, <2>5, <2>6, <2>7, <2>8 DEF BitsRight
<1>16. BitsExact' BY <1>1, <1>9, <1>15 DEF BitsExact
<1> QED BY <1>11, <1>14, <1>16 DEF BitsInv

(* The bits of an entry are set.                                             *)
LEMMA BitsTake ==
  ASSUME ListShape(hdr), TableInv, BitsInv, tablePc # "failed", tablePc' = "file",
         hdr' = hdr, at.i < NumFiles, mask.bit # ByteBits, at'.i = at.i + 1,
         db'.IsDirs = db.IsDirs, db'.CrcDefs = db.CrcDefs,
         NEW v, db'.CrcVals = [db.CrcVals EXCEPT ![at.i] = v],
         ~NoData(at.i) => v = CrcHere(at.i),
         mask' = [mask EXCEPT
                    !.bit = @ + 1,
                    !.dirs = IF DirEntry(at.i) THEN @ \cup {mask.bit} ELSE @,
                    !.crcs = IF CrcEntry(at.i) THEN @ \cup {mask.bit} ELSE @]
  PROVE BitsInv'
<1>0. HeaderShape(hdr) BY DEF ListShape
<1>1. BytesPlace /\ FlagTables(db) /\ BitsExact BY BitsFind
<1>2. /\ mask.bit \in Nat /\ mask.bit <= ByteBits /\ ByteBits \in Nat \ {0}
      /\ mask.dirs \subseteq Nat /\ mask.crcs \subseteq Nat
      /\ at.i \in Nat /\ NumFiles \in Nat /\ at.i <= NumFiles
      /\ Unwritten \in Nat /\ Unwritten <= at.i /\ Unwritten + mask.bit = at.i
  BY <1>0, <1>1, MaskFields
<1>3. mask.bit < ByteBits BY <1>2
<1>4. \A n \in mask.dirs \cup mask.crcs : n < mask.bit BY <1>1 DEF BytesPlace
<1>5. Unwritten % ByteBits = 0 BY <1>1, <1>2 DEF BytesPlace
<1> DEFINE X == IF DirEntry(at.i) THEN mask.dirs \cup {mask.bit} ELSE mask.dirs
           Y == IF CrcEntry(at.i) THEN mask.crcs \cup {mask.bit} ELSE mask.crcs
           b == mask.bit + 1
<1>6. mask' \in BitsSet /\ mask'.bit = b /\ mask'.dirs = X /\ mask'.crcs = Y
  <2>1. mask' = [mask EXCEPT !.bit = b, !.dirs = X, !.crcs = Y] OBVIOUS
  <2>2. b \in 0 .. ByteBits /\ X \in SUBSET Nat /\ Y \in SUBSET Nat BY <1>2, <1>3
  <2>3. mask \in BitsSet BY <1>1 DEF BytesPlace
  <2> HIDE DEF b, X, Y
  <2> QED BY <2>1, <2>2, <2>3 DEF BitsSet
<1>7. \A n \in X \cup Y : n < b BY <1>2, <1>4
<1>8. /\ \A n \in Nat : n # mask.bit => (n \in X <=> n \in mask.dirs)
                                          /\ (n \in Y <=> n \in mask.crcs)
      /\ mask.bit \in X <=> DirEntry(at.i)
      /\ mask.bit \in Y <=> CrcEntry(at.i)
  <2>1. mask.bit \notin mask.dirs /\ mask.bit \notin mask.crcs BY <1>2, <1>4
  <2> QED BY <2>1
<1> HIDE DEF X, Y
<1>9. NumFiles' = NumFiles /\ ByteNumbers' = ByteNumbers BY SaidStays
<1>10. Unwritten' = Unwritten
  <2>1. (at.i + 1) - (mask.bit + 1) = at.i - mask.bit BY <1>2
  <2> QED BY <1>6, <2>1 DEF Unwritten
<1>11. BytesPlace'
  <2>1. mask'.bit <= at'.i BY <1>2, <1>6
  <2>2. Unwritten' % ByteBits = 0 BY <1>5, <1>10
  <2>3. BitsSet' = BitsSet BY DEF BitsSet
  <2> QED BY <1>6, <1>7, <2>1, <2>2, <2>3 DEF BytesPlace
<1>12. FlagTables(db)' BY <1>1, <1>9 DEF FlagTables
<1>13. ASSUME NEW e \in 0 .. NumFiles - 1, e < at.i + 1 PROVE BitsRight(e)'
  <2>1. e \in Nat BY <1>2
  <2>2. e < at.i \/ e = at.i BY <1>2, <1>13, <2>1
  <2>3. /\ NoData(e)' <=> NoData(e)
        /\ CrcHere(e)' = CrcHere(e)
        /\ DirEntry(e)' <=> DirEntry(e)
        /\ CrcEntry(e)' <=> CrcEntry(e)
    BY SaidStays
  <2>4. (IsDirBit(e)' <=> IsDirBit(e)) /\ (HasCrcBit(e)' <=> HasCrcBit(e))
    BY DEF IsDirBit, HasCrcBit
  <2>5. Unwritten <= e => e % ByteBits = e - Unwritten /\ e % ByteBits \in Nat
    <3>1. PICK s \in Nat : s = Unwritten BY <1>2
    <3>2. e < s + ByteBits BY <1>2, <1>3, <2>1, <2>2, <3>1
    <3> QED BY <1>2, <1>5, <2>1, <3>1, <3>2, OneByte
  <2>6. CASE e < at.i
    <3>1. BitsRight(e) BY <1>1, <1>13, <2>6 DEF BitsExact
    <3>2. db'.CrcVals[e] = db.CrcVals[e] BY <1>2, <2>6
    <3>3. e >= Unwritten => e % ByteBits \in Nat /\ e % ByteBits # mask.bit
      BY <1>2, <2>1, <2>5, <2>6
    <3>4. e >= Unwritten => /\ e % ByteBits \in X <=> e % ByteBits \in mask.dirs
                            /\ e % ByteBits \in Y <=> e % ByteBits \in mask.crcs
      BY <1>8, <3>3
    <3> QED BY <1>6, <1>10, <2>3, <2>4, <3>1, <3>2, <3>4 DEF BitsRight
  <2>7. CASE e = at.i
    <3>1. e >= Unwritten /\ ~(e < Unwritten) BY <1>2, <2>7
    <3>2. e % ByteBits = mask.bit BY <1>2, <2>5, <2>7, <3>1
    <3>3. /\ e % ByteBits \in X <=> DirEntry(e)
          /\ e % ByteBits \in Y <=> CrcEntry(e)
      BY <1>8, <2>7, <3>2
    <3>4. ~NoData(e) => db'.CrcVals[e] = CrcHere(e)
      <4>1. e \in DOMAIN db.CrcVals BY <1>1 DEF FlagTables
      <4> QED BY <2>7, <4>1
    <3> QED BY <1>6, <1>10, <2>3, <3>1, <3>3, <3>4 DEF BitsRight
  <2> QED BY <2>2, <2>6, <2>7
<1>14. BitsExact' BY <1>9, <1>13 DEF BitsExact
<1> QED BY <1>11, <1>12, <1>14 DEF BitsInv

(* The bits are exact after an entry without data,                           *)
LEMMA BitsEmpty ==
  ASSUME ListShape(hdr), TableInv, PlacesInv, BitsInv, Table!EmptyEntry
  PROVE BitsInv'
<1>0. HeaderShape(hdr) BY DEF ListShape
<1>1. /\ tablePc = "file" /\ tablePc' = "file" /\ hdr' = hdr /\ at.i < NumFiles
      /\ at'.i = at.i + 1
      /\ db'.IsDirs = db.IsDirs /\ db'.CrcDefs = db.CrcDefs
      /\ db'.CrcVals = [db.CrcVals EXCEPT ![at.i] = Table!NoCrc]
  BY <1>0, EmptyEntryDoes
<1>2. NoData(at.i) /\ mask.bit # ByteBits
      /\ mask' = [mask EXCEPT !.bit = @ + 1,
                    !.dirs = IF Table!IsDirEntry THEN @ \cup {mask.bit} ELSE @]
  BY DEF Table!EmptyEntry, Table!AtEntry, Table!FlushDue, NoData
<1>3. hdr.emptyFiles # Absent => at.emptyFile = EmptiesBefore(hdr, at.i)
  BY <1>1, PlacesFind DEF Reads
<1>4. Table!IsDirEntry <=> DirEntry(at.i)
  BY <1>2, <1>3 DEF Table!IsDirEntry, DirEntry
<1>5. ~CrcEntry(at.i) BY <1>2 DEF CrcEntry
<1>6. mask \in BitsSet BY <1>1, BitsFind DEF BytesPlace
<1>7. mask' = [mask EXCEPT
                 !.bit = @ + 1,
                 !.dirs = IF DirEntry(at.i) THEN @ \cup {mask.bit} ELSE @,
                 !.crcs = IF CrcEntry(at.i) THEN @ \cup {mask.bit} ELSE @]
  BY <1>2, <1>4, <1>5, <1>6 DEF BitsSet
<1> QED BY <1>1, <1>2, <1>7, BitsTake

(* after a stream,                                                           *)
LEMMA BitsStream ==
  ASSUME ListShape(hdr), TableInv, PlacesInv, BitsInv, Table!LastStream \/ Table!InnerStream
  PROVE BitsInv'
<1>0. HeaderShape(hdr) BY DEF ListShape
<1>1. PICK q, g, z : tablePc = "stream" /\ tablePc' = "file" /\ hdr' = hdr
                       /\ Table!PlaceStream(q, g, z)
  BY DEF Table!LastStream, Table!InnerStream, Table!Step
<1> DEFINE C == [db.CrcVals EXCEPT ![at.i] = Table!EntryCrc]
           j == at.i + 1
<1>2. at'.i = at.i + 1
  <2>1. at \in AtSet BY <1>1, TableFinds
  <2>2. PICK r, s, d, v : at' = [at EXCEPT !.i = j, !.rem = r, !.pos = q, !.folder = g,
                                           !.size = z, !.digest = d, !.val = s]
    BY <1>1 DEF Table!PlaceStream
  <2> HIDE DEF j
  <2>3. at'.i = j BY <2>1, <2>2 DEF AtSet
  <2> QED BY <2>3 DEF j
<1>3. /\ db'.IsDirs = db.IsDirs /\ db'.CrcDefs = db.CrcDefs
      /\ db'.CrcVals = [db.CrcVals EXCEPT ![at.i] = Table!EntryCrc]
  <2>1. Tables(db) BY <1>1, TableFinds
  <2>2. PICK T : db' = [db EXCEPT !.FileToFolder = T, !.CrcVals = C]
    BY <1>1 DEF Table!PlaceStream
  <2> HIDE DEF C
  <2>3. db'.IsDirs = db.IsDirs /\ db'.CrcDefs = db.CrcDefs /\ db'.CrcVals = C
    BY <2>1, <2>2 DEF Tables
  <2> QED BY <2>3 DEF C
<1>4. mask' = [mask EXCEPT !.bit = @ + 1,
                 !.crcs = IF Table!EntryCrc = Table!NoCrc THEN @ ELSE @ \cup {mask.bit}]
  BY <1>1 DEF Table!PlaceStream
<1>5. at.rem > 0 /\ at.i < NumFiles BY <1>1, TableFinds DEF AtPlace
<1>6. ~NoData(at.i) BY <1>1, PlacesFind
<1>7. Table!EntryCrc = CrcHere(at.i)
  <2>1. Table!EntryCrc = CrcIn(hdr, at.folder, Taken) BY <1>1, SourceIs
  <2>2. FolderAt(hdr, StreamsBefore(hdr, at.i)) = at.folder
        /\ NumberAt(hdr, StreamsBefore(hdr, at.i)) = Taken
    BY <1>1, <1>5, StreamHere
  <2> QED BY <2>1, <2>2 DEF CrcHere
<1>8. (CrcEntry(at.i) <=> Table!EntryCrc # Table!NoCrc) /\ ~DirEntry(at.i)
  BY <1>6, <1>7 DEF CrcEntry, DirEntry
<1>9. mask \in BitsSet /\ mask.bit < ByteBits BY <1>1, BitsFind DEF BytesPlace
<1>10. mask' = [mask EXCEPT
                  !.bit = @ + 1,
                  !.dirs = IF DirEntry(at.i) THEN @ \cup {mask.bit} ELSE @,
                  !.crcs = IF CrcEntry(at.i) THEN @ \cup {mask.bit} ELSE @]
  BY <1>4, <1>8, <1>9 DEF BitsSet
<1>11. mask.bit # ByteBits
  <2>1. mask.bit \in 0 .. ByteBits BY <1>9 DEF BitsSet
  <2> QED BY <1>9, <2>1, TableAssumption
<1> QED BY <1>1, <1>2, <1>3, <1>5, <1>7, <1>10, <1>11, BitsTake

(* and after the steps that set none.                                        *)
LEMMA BitsOthers ==
  ASSUME ListShape(hdr), TableInv, BitsInv, tablePc' # "failed",
         \/ Table!Check \/ Table!DataEntry \/ Table!OpenFolder \/ Table!SkipFolder
         \/ Table!EndOfEntries \/ Table!EndFolder
  PROVE BitsInv'
<1>0. HeaderShape(hdr) BY DEF ListShape
<1>1. tablePc # "failed" => BytesPlace /\ FlagTables(db) BY BitsFind
<1>2. CASE Table!Check
  <2>1. /\ tablePc = "check" /\ tablePc' = "file" /\ hdr' = hdr /\ at' = at /\ mask' = mask
        /\ db' = db
    BY <1>2 DEF Table!Check, Table!Step
  <2> QED BY <2>1, BitsWait
<1>3. CASE Table!DataEntry
  <2>1. /\ tablePc = "file" /\ tablePc' = IF at.rem = 0 THEN "folder" ELSE "stream"
        /\ hdr' = hdr /\ at.i < NumFiles /\ at' = at
        /\ db'.IsDirs = db.IsDirs /\ db'.CrcDefs = db.CrcDefs
        /\ db'.CrcVals = [db.CrcVals EXCEPT ![at.i] = Table!NoCrc]
    BY <1>0, <1>3, DataEntryDoes
  <2>2. mask' = mask /\ mask.bit # ByteBits
    BY <1>3 DEF Table!DataEntry, Table!AtEntry, Table!FlushDue
  <2>3. mask.bit \in Nat /\ mask.bit <= ByteBits /\ ByteBits \in Nat /\ at.i \in Nat
    BY <1>0, <1>1, <2>1, MaskFields
  <2>4. mask.bit < ByteBits BY <2>2, <2>3
  <2>5. \A e \in 0 .. NumFiles - 1 : e < at.i => db'.CrcVals[e] = db.CrcVals[e]
    BY <2>1, <2>3
  <2>6. DOMAIN db'.CrcVals = DOMAIN db.CrcVals BY <2>1
  <2> QED BY <2>1, <2>2, <2>4, <2>5, <2>6, BitsWait
<1>4. CASE Table!OpenFolder
  <2>1. /\ tablePc = "folder" /\ tablePc' = "stream" /\ hdr' = hdr /\ at'.i = at.i
        /\ db'.IsDirs = db.IsDirs /\ db'.CrcDefs = db.CrcDefs /\ db'.CrcVals = db.CrcVals
    BY <1>0, <1>4, OpenFolderDoes
  <2>2. mask' = mask BY <1>4 DEF Table!OpenFolder
  <2>3. mask.bit < ByteBits BY <1>1, <2>1 DEF BytesPlace
  <2> QED BY <2>1, <2>2, <2>3, BitsWait
<1>5. CASE Table!SkipFolder
  <2>1. /\ tablePc = "folder" /\ tablePc' = "folder" /\ hdr' = hdr /\ at'.i = at.i
        /\ db'.IsDirs = db.IsDirs /\ db'.CrcDefs = db.CrcDefs /\ db'.CrcVals = db.CrcVals
    BY <1>0, <1>5, SkipFolderDoes
  <2>2. mask' = mask BY <1>5 DEF Table!SkipFolder
  <2>3. mask.bit < ByteBits BY <1>1, <2>1 DEF BytesPlace
  <2> QED BY <2>1, <2>2, <2>3, BitsWait
<1>6. CASE Table!EndOfEntries
  <2>1. /\ tablePc = "file" /\ tablePc' = "tail" /\ hdr' = hdr /\ at.i = NumFiles
        /\ at' = at
        /\ db'.IsDirs = db.IsDirs /\ db'.CrcDefs = db.CrcDefs /\ db'.CrcVals = db.CrcVals
    BY <1>0, <1>6, EndOfEntriesDoes
  <2>2. mask' = mask /\ mask.bit = 0
    BY <1>6 DEF Table!EndOfEntries, Table!FlushDue
  <2> QED BY <2>1, <2>2, BitsWait
<1>7. CASE Table!EndFolder
  <2>1. /\ tablePc = "tail" /\ tablePc' \in {"tail", "done"} /\ hdr' = hdr /\ at'.i = at.i
        /\ db'.IsDirs = db.IsDirs /\ db'.CrcDefs = db.CrcDefs /\ db'.CrcVals = db.CrcVals
    BY <1>0, <1>7, EndFolderDoes
  <2>2. mask' = mask BY <1>7 DEF Table!EndFolder
  <2>3. mask.bit = 0 BY <1>1, <2>1 DEF BytesPlace
  <2> QED BY <2>1, <2>2, <2>3, BitsWait
<1> QED BY <1>2, <1>3, <1>4, <1>5, <1>6, <1>7

-----------------------------------------------------------------------------
(* The entries of the index, all together                                    *)
ExactInv == PlacesInv /\ BitsInv /\ AcceptedInv

(* ExactInv holds at the start,                                              *)
LEMMA ExactStart ==
  ASSUME ListShape(hdr), Table!Init
  PROVE ExactInv
<1>0. HeaderShape(hdr) BY DEF ListShape
<1>1. NumFiles \in Nat /\ NumFolders \in Nat /\ hdr.sizes \in Seq(Sizes64)
  BY <1>0, ShapeFacts
<1>2. /\ tablePc = "check" /\ at.i = 0 /\ at.folder = 0 /\ at.rem = 0 /\ at.pos = 0
      /\ at.size = 0 /\ at.digest = 0 /\ at.val = 0 /\ at.emptyFile = 0
      /\ mask.bit = 0 /\ mask.dirs = {} /\ mask.crcs = {}
      /\ mask = [bit |-> 0, dirs |-> {}, crcs |-> {}]
  BY DEF Table!Init, Table!FreshMask
<1>3. 0 \in 0 .. NumFolders BY <1>1
<1>4. FirstOf(hdr, 0) = 0 /\ SizesBefore(hdr, 0) = 0 /\ DigestsBefore(hdr, 0) = 0
      /\ UnpackedBefore(hdr, 0) = 0
  BY <1>0, FirstGrows, SizesGrow, DigestsGrow, UnpackedGrow
<1>5. Taken = 0 BY <1>2 DEF Taken
<1>6. Len(hdr.sizes) \in Nat BY <1>1, LenProperties
<1>7. Reads(0, 0, 0, 0, 0, 0, 0) BY <1>4, <1>6, NoneBefore, NoDigestsRead DEF Reads
<1>8. ReadingExact BY <1>2, <1>5, <1>7 DEF ReadingExact
<1>9. \A e \in 0 .. NumFiles - 1 : ~(e < at.i) BY <1>1, <1>2
<1>10. PlacesExact BY <1>2, <1>9 DEF PlacesExact
<1>11. StartsExact BY <1>2, <1>4 DEF StartsExact
<1>12. PlacesInv BY <1>8, <1>10, <1>11 DEF PlacesInv
<1>13. ByteBits \in Nat \ {0} BY TableAssumption
<1>14. Unwritten = 0 /\ 0 % ByteBits = 0 BY <1>2, <1>13 DEF Unwritten
<1>15. BytesPlace
  <2>1. mask \in BitsSet BY <1>2, <1>13 DEF BitsSet
  <2> QED BY <1>2, <1>14, <2>1 DEF BytesPlace
<1>16. FlagTables(db)
  BY DEF Table!Init, FlagTables, ByteNumbers, Table!ByteOf, Table!Entries, NumFiles
<1>17. BitsExact BY <1>9 DEF BitsExact
<1>18. BitsInv BY <1>15, <1>16, <1>17 DEF BitsInv
<1>19. AcceptedInv BY <1>2 DEF AcceptedInv
<1> QED BY <1>12, <1>18, <1>19 DEF ExactInv

(* Steps that change no place                                                *)
LEMMA PlacesSame ==
  ASSUME PlacesInv, tablePc # "failed", hdr' = hdr, at' = at,
         db'.UnpackPositions = db.UnpackPositions, db'.FolderToFile = db.FolderToFile,
         db'.FileToFolder = db.FileToFolder,
         tablePc' = tablePc \/ (tablePc = "check" /\ tablePc' = "file")
  PROVE PlacesInv'
<1>1. NumFiles' = NumFiles /\ NumFolders' = NumFolders BY DEF NumFiles, NumFolders
<1>2. \A e : Placed(e)' <=> Placed(e) BY DEF Placed
<1>3. \A f : Opened(f)' <=> Opened(f) BY DEF Opened
<1>4. /\ \A e : Position(e)' = Position(e) /\ FolderOf(e)' = FolderOf(e)
      /\ \A f : FirstFile(f)' = FirstFile(f)
  BY DEF Position, FolderOf, FirstFile
<1>5. \A e : EndOf(e)' = EndOf(e) BY <1>2, <1>4 DEF EndOf
<1>6. \A f : StartOf(f)' = StartOf(f) BY DEF StartOf, Position, FirstFile
<1>7. Taken' = Taken BY DEF Taken
<1>8. /\ tablePc \in {"folder", "stream"} => ~NoData(at.i)
      /\ PlacesExact /\ StartsExact
  BY PlacesFind
<1>9. ReadingExact' BY <1>8, ReadingSame
<1>10. ASSUME NEW e, EntryExact(e) PROVE EntryExact(e)'
  <2>1. NoData(e)' <=> NoData(e) BY DEF NoData
  <2>2. ASSUME NEW f, NEW n, TakesStream(e, f, n) PROVE TakesStream(e, f, n)'
    BY <1>1, <1>3, <1>4, <1>5, <1>6, <2>2 DEF TakesStream
  <2>3. CASE NoData(e) BY <1>4, <1>5, <1>10, <2>1, <2>3 DEF EntryExact
  <2>4. CASE ~NoData(e)
    <3>1. PICK f : f = FolderAt(hdr, StreamsBefore(hdr, e)) OBVIOUS
    <3>2. PICK n : n = NumberAt(hdr, StreamsBefore(hdr, e)) OBVIOUS
    <3>3. TakesStream(e, f, n)' BY <1>10, <2>2, <2>4, <3>1, <3>2 DEF EntryExact
    <3>4. f = FolderAt(hdr', StreamsBefore(hdr', e))
          /\ n = NumberAt(hdr', StreamsBefore(hdr', e))
      BY <3>1, <3>2
    <3> QED BY <2>1, <2>4, <3>3, <3>4 DEF EntryExact, TakesStream, StartOf
  <2> QED BY <2>3, <2>4
<1>11. PlacesExact'
  <2>1. Position(at.i)' = Position(at.i) BY DEF Position
  <2>2. StartOf(at.folder)' = StartOf(at.folder) BY DEF StartOf, Position, FirstFile
  <2> QED BY <1>1, <1>7, <1>8, <1>10, <2>1, <2>2 DEF PlacesExact
<1>12. StartsExact'
  <2>1. StartOf(at.folder)' = StartOf(at.folder) BY DEF StartOf, Position, FirstFile
  <2> QED BY <1>8, <2>1 DEF StartsExact
<1> QED BY <1>9, <1>11, <1>12 DEF PlacesInv

(* after each step of the loop,                                              *)
LEMMA ExactStep ==
  ASSUME ListShape(hdr), TableInv, ExactInv, Table!Next
  PROVE ExactInv'
<1>0. HeaderShape(hdr) BY DEF ListShape
<1>1. PlacesInv /\ BitsInv /\ AcceptedInv BY DEF ExactInv
<1>2. hdr' = hdr
  BY DEF Table!Next, Table!Check, Table!FlushByte, Table!EmptyEntry, Table!DataEntry,
         Table!OpenFolder, Table!SkipFolder, Table!LastStream, Table!InnerStream,
         Table!StreamFails, Table!EndOfEntries, Table!EndFolder, Table!Ended,
         Table!AtEntry, Table!Step, Table!vars
<1>3. ASSUME PlacesInv', BitsInv', tablePc' # "failed" PROVE ExactInv'
  BY <1>3 DEF ExactInv, AcceptedInv
<1>4. ASSUME Agrees(hdr) => tablePc' # "failed", tablePc' = "failed" PROVE ExactInv'
  BY <1>2, <1>4 DEF ExactInv, AcceptedInv, PlacesInv, BitsInv
<1>5. CASE Table!Check
  <2>1. /\ tablePc = "check" /\ at' = at /\ db' = db /\ tablePc' \in {"file", "failed"}
    BY <1>5 DEF Table!Check, Table!Step
  <2>2. CASE tablePc' = "file"
    <3>1. PlacesInv' BY <1>1, <1>2, <2>1, <2>2, PlacesSame
    <3> QED BY <1>1, <1>3, <1>5, <2>2, <3>1, BitsOthers
  <2>3. CASE tablePc' = "failed" BY <1>4, <1>5, <2>3, CheckAccepts
  <2> QED BY <2>1, <2>2, <2>3
<1>6. CASE Table!FlushByte
  <2>1. /\ tablePc = "file" /\ tablePc' = "file" /\ at' = at
        /\ db' = [db EXCEPT !.IsDirs[Table!ByteOf(at.i - 1)] = mask.dirs,
                            !.CrcDefs[Table!ByteOf(at.i - 1)] = mask.crcs]
    BY <1>6 DEF Table!FlushByte, Table!Step
  <2>2. Tables(db) BY <2>1, TableFinds
  <2>3. /\ db'.UnpackPositions = db.UnpackPositions
        /\ db'.FolderToFile = db.FolderToFile /\ db'.FileToFolder = db.FileToFolder
    BY <2>1, <2>2 DEF Tables
  <2>4. PlacesInv' BY <1>1, <1>2, <2>1, <2>3, PlacesSame
  <2> QED BY <1>1, <1>3, <1>6, <2>1, <2>4, BitsFlush
<1>7. CASE Table!EmptyEntry
  <2>1. /\ tablePc = "file" /\ tablePc' = "file" /\ at'.folder = at.folder
        /\ at'.rem = at.rem /\ at'.pos = at.pos /\ TableMoves
    BY <1>0, <1>7, EmptyEntryDoes
  <2>2. ReadingExact' /\ PlacesExact' BY <1>1, <1>7, ReadingEmpty, PlacesEmpty
  <2>3. StartsExact' BY <1>1, <2>1, StartsStay
  <2>4. PlacesInv' BY <2>2, <2>3 DEF PlacesInv
  <2> QED BY <1>1, <1>3, <1>7, <2>1, <2>4, BitsEmpty
<1>8. CASE Table!DataEntry
  <2>1. /\ tablePc = "file" /\ tablePc' = (IF at.rem = 0 THEN "folder" ELSE "stream")
        /\ at' = at /\ TableMoves
    BY <1>0, <1>8, DataEntryDoes
  <2>2. ~NoData(at.i) BY <1>8 DEF Table!DataEntry, NoData
  <2>3. ReadingExact' BY <1>1, <1>2, <2>1, <2>2, ReadingSame
  <2>4. PlacesExact' BY <1>1, <1>8, PlacesData
  <2>5. StartsExact' BY <1>1, <2>1, StartsStay
  <2>6. PlacesInv' BY <2>3, <2>4, <2>5 DEF PlacesInv
  <2>7. tablePc' # "failed" BY <2>1
  <2> QED BY <1>1, <1>3, <1>8, <2>6, <2>7, BitsOthers
<1>9. CASE Table!OpenFolder
  <2>1. tablePc' = "stream" BY <1>9 DEF Table!OpenFolder, Table!Step
  <2>2. PlacesInv' BY <1>1, <1>9, ReadingOpen, PlacesOpen DEF PlacesInv
  <2> QED BY <1>1, <1>3, <1>9, <2>1, <2>2, BitsOthers
<1>10. CASE Table!SkipFolder
  <2>1. CASE tablePc' = "failed" BY <1>4, <1>10, <2>1, SkipAccepts
  <2>2. CASE tablePc' # "failed"
    <3>1. PlacesInv' BY <1>1, <1>10, <2>2, PlacesSkip DEF PlacesInv
    <3> QED BY <1>1, <1>3, <1>10, <2>2, <3>1, BitsOthers
  <2> QED BY <2>1, <2>2
<1>11. CASE Table!LastStream \/ Table!InnerStream
  <2>1. tablePc' = "file" BY <1>11 DEF Table!LastStream, Table!InnerStream, Table!Step
  <2>2. PlacesInv' BY <1>1, <1>11, PlacesStream DEF PlacesInv
  <2> QED BY <1>1, <1>3, <1>11, <2>1, <2>2, BitsStream
<1>12. CASE Table!StreamFails
  <2>1. /\ tablePc = "stream" /\ tablePc' = "failed"
        /\ IF at.rem = 1 THEN ~Table!LastFits ELSE ~Table!InnerFits
    BY <1>12 DEF Table!StreamFails, Table!Step
  <2>2. ~Agrees(hdr) BY <1>1, <2>1, StreamAccepts
  <2> QED BY <1>4, <2>1, <2>2
<1>13. CASE Table!EndOfEntries \/ Table!EndFolder
  <2>1. CASE tablePc' = "failed" BY <1>1, <1>4, <1>13, <2>1, TailAccepts
  <2>2. CASE tablePc' # "failed"
    <3>1. PlacesInv' BY <1>1, <1>13, <2>2, PlacesTail DEF PlacesInv
    <3> QED BY <1>1, <1>3, <1>13, <2>2, <3>1, BitsOthers
  <2> QED BY <2>1, <2>2
<1>14. CASE Table!Ended
  <2>1. tablePc' = tablePc /\ at' = at /\ mask' = mask /\ db' = db /\ tablePc \in {"done", "failed"}
    BY <1>14 DEF Table!Ended, Table!vars
  <2>2. CASE tablePc = "failed"
    <3>1. Agrees(hdr) => tablePc' # "failed" BY <1>1, <2>1 DEF AcceptedInv
    <3> QED BY <1>4, <2>1, <2>2, <3>1
  <2>3. CASE tablePc = "done"
    <3>1. PlacesInv' BY <1>1, <1>2, <2>1, <2>3, PlacesSame
    <3>2. mask.bit = 0 BY <1>1, <2>3, BitsFind DEF BytesPlace
    <3>3. BitsInv' BY <1>1, <1>2, <2>1, <2>3, <3>2, BitsWait
    <3> QED BY <1>3, <2>1, <2>3, <3>1, <3>3
  <2> QED BY <2>1, <2>2, <2>3
<1> QED BY <1>5, <1>6, <1>7, <1>8, <1>9, <1>10, <1>11, <1>12, <1>13, <1>14 DEF Table!Next

(* and when the loop stands still.                                           *)
LEMMA ExactStutter ==
  ASSUME ListShape(hdr), TableInv, ExactInv, UNCHANGED tableVars
  PROVE ExactInv'
<1>1. /\ tablePc' = tablePc /\ hdr' = hdr /\ at' = at /\ mask' = mask /\ db' = db
  BY DEF tableVars
<1>2. PlacesInv /\ BitsInv /\ AcceptedInv BY DEF ExactInv
<1>3. AcceptedInv' BY <1>1, <1>2 DEF AcceptedInv
<1>4. CASE tablePc = "failed" BY <1>1, <1>3, <1>4 DEF ExactInv, PlacesInv, BitsInv
<1>5. CASE tablePc # "failed"
  <2>1. PlacesInv' BY <1>1, <1>2, <1>5, PlacesSame
  <2>2. /\ tablePc \in {"folder", "stream"} => mask.bit < ByteBits
        /\ tablePc \in {"tail", "done"} => mask.bit = 0
    BY <1>2, <1>5, BitsFind DEF BytesPlace
  <2>3. BitsInv' BY <1>1, <1>2, <1>5, <2>2, BitsWait
  <2> QED BY <1>3, <2>1, <2>3 DEF ExactInv
<1> QED BY <1>4, <1>5

(* What the invariant says of an entry of a finished index                   *)
LEMMA EntriesSound ==
  ASSUME ListShape(hdr), TableInv, ExactInv, tablePc = "done",
         NEW e \in 0 .. NumFiles - 1
  PROVE /\ NoneWasted(hdr) =>
             IF NoData(e) THEN Position(e + 1) - Position(e) = 0
             ELSE /\ FolderOf(e) = FolderAt(hdr, StreamsBefore(hdr, e))
                  /\ Position(e) - Position(FirstFile(FolderOf(e)))
                       = Stored(hdr, FolderAt(hdr, StreamsBefore(hdr, e)),
                                     NumberAt(hdr, StreamsBefore(hdr, e)))
                  /\ Position(e + 1) - Position(e)
                       = SizeIn(hdr, FolderAt(hdr, StreamsBefore(hdr, e)),
                                     NumberAt(hdr, StreamsBefore(hdr, e)))
        /\ (IsDirBit(e) <=> DirEntry(e)) /\ (HasCrcBit(e) <=> CrcEntry(e))
        /\ ~NoData(e) => db.CrcVals[e] = CrcHere(e)
<1>0. HeaderShape(hdr) BY DEF ListShape
<1>1. PlacesInv /\ BitsInv BY DEF ExactInv
<1>2. AtPlace /\ PositionsGrow BY TableFinds
<1>3. at.i = NumFiles /\ at.folder = NumFolders BY <1>2 DEF AtPlace
<1>4. NumFiles \in Nat /\ NumFolders \in Nat BY <1>0, ShapeFacts
<1>5. \A x \in Sizes64 : x \in Nat BY TableAssumption DEF Sizes64
<1>6. ASSUME NEW y \in 0 .. NumFiles PROVE Placed(y) /\ Position(y) \in Nat
  <2>1. Placed(y) BY <1>3, <1>4 DEF Placed
  <2> QED BY <2>1, <1>2, <1>5 DEF PositionsGrow
<1>7. e < at.i /\ e \in 0 .. NumFiles /\ e + 1 \in 0 .. NumFiles BY <1>3, <1>4
<1>8. EndOf(e) = Position(e + 1) BY <1>6, <1>7 DEF EndOf
<1>9. ASSUME NoneWasted(hdr)
      PROVE  IF NoData(e) THEN Position(e + 1) - Position(e) = 0
             ELSE /\ FolderOf(e) = FolderAt(hdr, StreamsBefore(hdr, e))
                  /\ Position(e) - Position(FirstFile(FolderOf(e)))
                       = Stored(hdr, FolderAt(hdr, StreamsBefore(hdr, e)),
                                     NumberAt(hdr, StreamsBefore(hdr, e)))
                  /\ Position(e + 1) - Position(e)
                       = SizeIn(hdr, FolderAt(hdr, StreamsBefore(hdr, e)),
                                     NumberAt(hdr, StreamsBefore(hdr, e)))
  <2>1. EntryExact(e) BY <1>1, <1>7, <1>9, PlacesFind DEF PlacesExact
  <2>2. CASE NoData(e)
    <3>1. Position(e + 1) = Position(e) BY <1>8, <2>1, <2>2 DEF EntryExact
    <3> QED BY <1>6, <1>7, <2>2, <3>1
  <2>3. CASE ~NoData(e)
    <3>1. PICK f : f = FolderAt(hdr, StreamsBefore(hdr, e)) OBVIOUS
    <3>2. PICK n : n = NumberAt(hdr, StreamsBefore(hdr, e)) OBVIOUS
    <3>3. TakesStream(e, f, n) BY <2>1, <2>3, <3>1, <3>2 DEF EntryExact
    <3>4. /\ FolderOf(e) = f /\ f \in 0 .. NumFolders - 1 /\ Opened(f)
          /\ Position(e) = Position(FirstFile(f)) + Stored(hdr, f, n)
          /\ Position(e + 1) = Position(e) + SizeIn(hdr, f, n)
          /\ Stored(hdr, f, n) \in Nat /\ SizeIn(hdr, f, n) \in Int
      BY <1>8, <3>3 DEF TakesStream, StartOf
    <3>5. FirstFile(f) \in 0 .. NumFiles
      <4>1. f \in 0 .. NumFolders BY <1>4, <3>4
      <4> QED BY <1>2, <3>4, <4>1 DEF PositionsGrow
    <3>6. Position(FirstFile(f)) \in Nat BY <1>6, <3>5
    <3>7. Position(e) - Position(FirstFile(f)) = Stored(hdr, f, n)
      BY <3>4, <3>6
    <3>8. Position(e + 1) - Position(e) = SizeIn(hdr, f, n) BY <1>6, <1>7, <3>4
    <3> QED BY <2>3, <3>1, <3>2, <3>4, <3>7, <3>8
  <2> QED BY <2>2, <2>3
<1>10. BitsRight(e) /\ mask.bit = 0 BY <1>1, <1>7, BitsFind DEF BitsExact, BytesPlace
<1>11. e < Unwritten
  <2>1. Unwritten = NumFiles BY <1>3, <1>4, <1>10 DEF Unwritten
  <2> QED BY <1>4, <2>1
<1> QED BY <1>9, <1>10, <1>11 DEF BitsRight

(* What the invariant says of a finished index                               *)
LEMMA IndexSound ==
  ASSUME ListShape(hdr), TableInv, ExactInv
  PROVE Table!EntriesExact /\ Table!WellFormedAccepted
<1>0. HeaderShape(hdr) BY DEF ListShape
<1>1. Table!UnusedEmpty <=> NoneWasted(hdr) BY DEF Table!UnusedEmpty, NoneWasted
<1>2. Table!Entries(hdr) = 0 .. NumFiles - 1 BY DEF Table!Entries, NumFiles
<1>3. \A e : (e \in Table!DataEntries <=> e \in 0 .. NumFiles - 1 /\ ~NoData(e))
  BY <1>2 DEF Table!DataEntries, NoData
<1>4. Table!EntriesLocated
  <2> SUFFICES ASSUME tablePc = "done", NoneWasted(hdr), NEW e \in 0 .. NumFiles - 1
               PROVE  /\ ~NoData(e) =>
                           /\ FolderOf(e) = Table!FolderOfStream(Table!StreamOf(e))
                           /\ Table!FileOffset(e) = Table!OffsetOf(Table!StreamOf(e))
                           /\ Table!FileSize(e) = Table!SizeOf(Table!StreamOf(e))
                      /\ NoData(e) => Table!FileSize(e) = 0
    BY <1>1, <1>2, <1>3 DEF Table!EntriesLocated, FolderOf
  <2>1. Table!StreamOf(e) = StreamsBefore(hdr, e) BY SameEntry
  <2>2. /\ Table!FileOffset(e) = Position(e) - Position(FirstFile(FolderOf(e)))
        /\ Table!FileSize(e) = Position(e + 1) - Position(e)
    BY DEF Table!FileOffset, Table!FileSize, Position, FirstFile, FolderOf
  <2>3. IF NoData(e) THEN Position(e + 1) - Position(e) = 0
        ELSE /\ FolderOf(e) = FolderAt(hdr, StreamsBefore(hdr, e))
             /\ Position(e) - Position(FirstFile(FolderOf(e)))
                  = Stored(hdr, FolderAt(hdr, StreamsBefore(hdr, e)),
                                NumberAt(hdr, StreamsBefore(hdr, e)))
             /\ Position(e + 1) - Position(e)
                  = SizeIn(hdr, FolderAt(hdr, StreamsBefore(hdr, e)),
                                NumberAt(hdr, StreamsBefore(hdr, e)))
    BY EntriesSound
  <2> QED BY <2>1, <2>2, <2>3, SameFolder0, SameStream
<1>5. Table!EntryFlags
  <2> SUFFICES ASSUME tablePc = "done", NEW e \in 0 .. NumFiles - 1
               PROVE  /\ ~NoData(e) =>
                           /\ ~Table!IsDir(e)
                           /\ Table!HasCrc(e)
                                <=> Table!CrcOf(Table!StreamOf(e)) # Table!NoCrc
                           /\ db.CrcVals[e] = Table!CrcOf(Table!StreamOf(e))
                      /\ NoData(e) =>
                           /\ ~Table!HasCrc(e)
                           /\ Table!IsDir(e) <=> hdr.emptyFiles = Absent
                                \/ Table!EmptyNumber(e) \notin hdr.emptyFiles
    BY <1>2, <1>3 DEF Table!EntryFlags
  <2>1. Table!CrcOf(Table!StreamOf(e)) = CrcHere(e) BY SameEntry, SameCrc DEF CrcHere
  <2>2. Table!EmptyNumber(e) = EmptiesBefore(hdr, e) BY SameEntry
  <2>3. /\ Table!IsDir(e) <=> IsDirBit(e)
        /\ Table!HasCrc(e) <=> HasCrcBit(e)
    BY DEF Table!IsDir, Table!HasCrc, Table!ByteOf, IsDirBit, HasCrcBit
  <2>4. /\ IsDirBit(e) <=> DirEntry(e)
        /\ HasCrcBit(e) <=> CrcEntry(e)
        /\ ~NoData(e) => db.CrcVals[e] = CrcHere(e)
    BY EntriesSound
  <2> QED BY <2>1, <2>2, <2>3, <2>4 DEF DirEntry, CrcEntry
<1>6. Table!WellFormed => Agrees(hdr)
  <2>1. Table!MapThenSumSet(LAMBDA f : hdr.folderSize[f], Table!Folders(hdr))
          = UnpackSum(hdr, Table!Folders(hdr))
    BY DEF UnpackSum, Table!MapThenSumSet, Table!MapThenFoldSet
  <2>2. ASSUME Table!WellFormed, NEW f \in Table!Folders(hdr)
        PROVE  Stored(hdr, f, Table!SizesOf(hdr, f)) <= hdr.folderSize[f]
    <3>1. Table!StoredSizes(f, Table!SizesOf(hdr, f)) = Stored(hdr, f, Table!SizesOf(hdr, f))
      BY SameStored
    <3>2. Table!StoredSizes(f, Table!SizesOf(hdr, f)) <= hdr.folderSize[f]
      BY <2>2 DEF Table!WellFormed
    <3> QED BY <3>1, <3>2
  <2>3. Table!WellFormed =>
          /\ hdr.numFiles - Table!NumEmptyStreams(hdr) = Table!NumTotalSubStreams(hdr)
          /\ Len(hdr.sizes) = Table!NumSizesInData(hdr)
          /\ UnpackSum(hdr, Table!Folders(hdr)) < TableU64
          /\ Table!UnusedEmpty
    BY <2>1 DEF Table!WellFormed
  <2> QED BY <1>1, <2>2, <2>3 DEF Agrees
<1>7. Table!WellFormedAccepted
  <2>1. AcceptedInv BY DEF ExactInv
  <2> QED BY <1>6, <2>1 DEF AcceptedInv, Table!WellFormedAccepted
<1> QED BY <1>4, <1>5, <1>7 DEF Table!EntriesExact

(* The headers of MCHeaders have that shape, too.                            *)
LEMMA ListsComplete ==
  ASSUME NEW h \in SmallHeaders
  PROVE ListShape(h)
<1>1. HeaderShape(h) BY ListsShaped
<1>2. PICK sizes \in {TableSizes, FlagSizes}, flags \in BOOLEAN :
        h \in HeadersOf(sizes, flags)
  BY DEF SmallHeaders
<1>2a. PICK b \in Bases(sizes, flags) : \E S \in EmptySets(b) :
        /\ h.numFiles = b.numFiles /\ h.digests \in DigestSets(b, flags)
        /\ h.emptyStreams = IF S = {} THEN Absent ELSE S
  BY <1>2 DEF HeadersOf
<1>3. PICK S \in EmptySets(b) :
        /\ h.numFiles = b.numFiles /\ h.digests \in DigestSets(b, flags)
        /\ h.emptyStreams = IF S = {} THEN Absent ELSE S
  BY <1>2a
<1>4. S \in SUBSET (0 .. h.numFiles - 1)
  BY <1>3 DEF EmptySets, Lists!Entries
<1>5. h.emptyStreams = Absent \/ h.emptyStreams \in SUBSET (0 .. h.numFiles - 1)
  BY <1>3, <1>4
<1>6. h.digests = Absent \/ h.digests \in SUBSET (0 .. Lists!NumSubDigests(b) - 1)
  BY <1>3 DEF DigestSets
<1>7. 0 .. Lists!NumSubDigests(b) - 1 \subseteq Nat OBVIOUS
<1> QED BY <1>1, <1>5, <1>6, <1>7 DEF ListShape

(* The index that SzReadHeader2 makes of a header that is accepted says what *)
(* the header says, and a header that agrees with itself is accepted: entries *)
(* with data take the streams of the folders one after the other, at their    *)
(* place and with their size, and the bit vectors, written a byte at a time,  *)
(* say of each entry whether it is a directory and has a CRC, and which.      *)
THEOREM IndexSafety == HeadersSpec => [](EntriesExact /\ WellFormedAccepted)
<1> DEFINE Inv == part = "table" => ListShape(hdr) /\ TableInv /\ ExactInv
<1>1. HeadersInit => Inv
  <2> SUFFICES ASSUME HeadersInit, part = "table"
               PROVE  ListShape(hdr) /\ TableInv /\ ExactInv
    OBVIOUS
  <2>1. Table!Init BY DEF HeadersInit
  <2>2. ListShape(hdr) BY <2>1, ListsComplete DEF Table!Init
  <2>3. HeaderShape(hdr) BY <2>2 DEF ListShape
  <2> QED BY <2>1, <2>2, <2>3, TableStart, ExactStart
<1>2. Inv /\ [HeadersNext]_headersVars => Inv'
  <2> SUFFICES ASSUME Inv, [HeadersNext]_headersVars, part' = "table"
               PROVE  ListShape(hdr)' /\ TableInv' /\ ExactInv'
    OBVIOUS
  <2>1. part = "table" /\ (Table!Next \/ UNCHANGED tableVars)
    <3>1. CASE HeadersNext BY <3>1 DEF HeadersNext
    <3>2. CASE UNCHANGED headersVars BY <3>2 DEF headersVars
    <3> QED BY <3>1, <3>2
  <2>2. ListShape(hdr) /\ TableInv /\ ExactInv BY <2>1
  <2>3. HeaderShape(hdr) BY <2>2 DEF ListShape
  <2>4. hdr' = hdr
    BY <2>1 DEF tableVars, Table!Next, Table!Check, Table!FlushByte, Table!EmptyEntry,
         Table!DataEntry, Table!OpenFolder, Table!SkipFolder, Table!LastStream,
         Table!InnerStream, Table!StreamFails, Table!EndOfEntries, Table!EndFolder,
         Table!Ended, Table!AtEntry, Table!Step, Table!vars
  <2>5. ListShape(hdr)' BY <2>2, <2>4
  <2> QED BY <2>1, <2>2, <2>3, <2>5, TableStep, TableStutter, ExactStep, ExactStutter
<1>3. Inv => EntriesExact /\ WellFormedAccepted
  BY IndexSound DEF EntriesExact, WellFormedAccepted
<1> QED BY <1>1, <1>2, <1>3, PTL DEF HeadersSpec
=============================================================================
