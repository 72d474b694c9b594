---------------------------- MODULE Lists_proofs ----------------------------
(***************************************************************************)
(* The lists of a header that are read twice, for every limit, number of   *)
(* entries and choice of bytes: the properties of the files (SzFilesInfo)  *)
(* and the counts, sizes and CRCs of the streams (SzStreamInfo).           *)
(*                                                                         *)
(* FilesInv says of every property in any order what it leaves behind: a   *)
(* value for every entry, a flag for every empty entry, and of the names   *)
(* how far they are split.                                                 *)
(*                                                                         *)
(* InfoInv says that the slices that the first reading keeps hold a plan:  *)
(* where the number of each folder begins (Walk), how many entries, stored *)
(* sizes and CRCs there are up to each folder (Steps), and that the second *)
(* reading stands in all the slices at the same place of it (Reads).       *)
(***************************************************************************)
EXTENDS MCHeaders, FiniteSetTheorems, SequenceTheorems, TLAPS

-----------------------------------------------------------------------------
(* Numbers below a bound, counted *)

LEMMA BelowFinite ==
  ASSUME NEW n \in Nat, NEW S \in SUBSET (0 .. n - 1)
  PROVE  /\ IsFiniteSet(S) /\ Cardinality(S) \in Nat
         /\ \A T \in SUBSET S : IsFiniteSet(T) /\ Cardinality(T) \in Nat
                                /\ Cardinality(T) <= Cardinality(S)
<1>1. IsFiniteSet(0 .. n - 1) BY FS_Interval
<1>2. IsFiniteSet(S) BY <1>1, FS_Subset
<1> QED BY <1>2, FS_Subset, FS_CardinalityType

(* An element is behind fewer than all.                                      *)
LEMMA RankInside ==
  ASSUME NEW n \in Nat, NEW S \in SUBSET (0 .. n - 1), NEW e \in S
  PROVE  Cardinality({g \in S : g < e}) < Cardinality(S)
<1> DEFINE T == {g \in S : g < e}
<1>1. IsFiniteSet(S) BY BelowFinite
<1>2. T \subseteq S /\ e \notin T
  <2>1. ~(e < e) /\ e \in Int OBVIOUS
  <2> QED BY <2>1
<1>3. T # S BY <1>2
<1> HIDE DEF T
<1>4. Cardinality(T) < Cardinality(S)
  <2>1. Cardinality(T) <= Cardinality(S) /\ Cardinality(T) # Cardinality(S)
    BY <1>1, <1>2, <1>3, FS_Subset
  <2>2. Cardinality(T) \in Nat /\ Cardinality(S) \in Nat BY <1>2, BelowFinite
  <2> QED BY <2>1, <2>2
<1> QED BY <1>4 DEF T

(* One more, or not *)
LEMMA RankGrows ==
  ASSUME NEW n \in Nat, NEW S \in SUBSET (0 .. n - 1), NEW e \in Nat
  PROVE  Cardinality({g \in S : g < e + 1})
           = Cardinality({g \in S : g < e}) + (IF e \in S THEN 1 ELSE 0)
<1> DEFINE T == {g \in S : g < e}
<1>1. IsFiniteSet(T) /\ e \notin T BY BelowFinite
<1>0. \A g \in S : g \in Nat /\ (g < e + 1 <=> g < e \/ g = e) OBVIOUS
<1>2. CASE e \in S
  <2>1. {g \in S : g < e + 1} = T \cup {e} BY <1>0, <1>2
  <2> QED BY <1>1, <1>2, <2>1, FS_AddElement
<1>3. CASE e \notin S
  <2>1. {g \in S : g < e + 1} = T BY <1>0, <1>3
  <2>2. Cardinality(T) \in Nat BY BelowFinite
  <2> QED BY <1>3, <2>1, <2>2
<1> QED BY <1>2, <1>3

(* SzFilesInfo has its own, the same ones.                                   *)
LEMMA FilesCounts == \A S : Files!Cardinality(S) = Cardinality(S)
BY DEF Files!Cardinality, Cardinality

-----------------------------------------------------------------------------
(* SzFilesInfo *)

ValueLists == {Absent} \cup UNION {[0 .. n - 1 -> {Absent} \cup (Nat \X Nat)] : n \in Nat}
FlagLists == {Absent} \cup UNION {[0 .. n - 1 -> BOOLEAN] : n \in Nat}

FilesType ==
  /\ p \in [numFiles : Nat, vals : [Files!Kinds -> ValueLists]]
  /\ p.numFiles <= FilesMax
  /\ empty \in [streams : {Absent} \cup SUBSET Nat, num : Nat, files : FlagLists]
  /\ names \in [units : Seq({0, 1}), at : Nat, offsets : {Absent} \cup Seq(Nat)]
  /\ files \in [props : Nat, entry : Nat, emptyFile : Nat]

(* As many flags as there are empty entries, so far                          *)
EmptyRight ==
  /\ empty.streams # Absent =>
       empty.streams \subseteq Files!Entries /\ empty.num = Cardinality(empty.streams)
  /\ empty.streams = Absent => empty.num = 0
  /\ empty.files # Absent => DOMAIN empty.files = 0 .. empty.num - 1

(* The names up to the last offset, each with its zero                       *)
Split(u, of) ==
  \A e \in 1 .. Len(of) - 1 : {i \in of[e] + 1 .. of[e + 1] : u[i] = 0} = {of[e + 1]}

NamesGoOn ==
  LET u == names.units
      of == names.offsets
  IN /\ of \in Seq(Nat) /\ of # << >> /\ Len(of) <= p.numFiles + 1
     /\ u # << >> /\ u[Len(u)] = 0
     /\ Split(u, of)
     /\ of[Len(of)] <= names.at /\ names.at <= Len(u)
     /\ \A i \in of[Len(of)] + 1 .. names.at : u[i] # 0
     /\ Len(of) = p.numFiles + 1 => names.at = of[Len(of)]

NamesWhole ==
  names.offsets # Absent =>
    /\ Len(names.offsets) = p.numFiles + 1
    /\ names.offsets[Len(names.offsets)] = Len(names.units)
    /\ Split(names.units, names.offsets)

EmptyBefore(e) ==
  IF empty.files # Absent /\ empty.streams # Absent
  THEN Cardinality({s \in empty.streams : s < e}) ELSE 0

EntriesRight ==
  IF filesPc \in {"entry", "done"}
  THEN /\ files.entry <= p.numFiles /\ files.emptyFile = EmptyBefore(files.entry)
       /\ filesPc = "done" => files.entry = p.numFiles
  ELSE files.entry = 0 /\ files.emptyFile = 0

FilesInv ==
  /\ filesPc \in {"property", "name", "entry", "done", "failed"}
  /\ FilesType /\ EmptyRight /\ Files!ValuesInside /\ EntriesRight
  /\ filesPc = "name" => NamesGoOn
  /\ filesPc \in {"property", "entry", "done"} => NamesWhole

LEMMA FilesTyped ==
  ASSUME FilesInv
  PROVE  /\ p.numFiles \in Nat /\ DOMAIN p.vals = Files!Kinds
         /\ p = [numFiles |-> p.numFiles, vals |-> p.vals]
         /\ empty = [streams |-> empty.streams, num |-> empty.num, files |-> empty.files]
         /\ names = [units |-> names.units, at |-> names.at, offsets |-> names.offsets]
         /\ files = [props |-> files.props, entry |-> files.entry,
                     emptyFile |-> files.emptyFile]
BY DEF FilesInv, FilesType

LEMMA FilesBegin == Files!Init => FilesInv
<1> SUFFICES ASSUME Files!Init PROVE FilesInv OBVIOUS
<1>1. PICK n \in 0 .. FilesMax : p = [numFiles |-> n, vals |-> [k \in Files!Kinds |-> Absent]]
  BY DEF Files!Init
<1>2. /\ empty = [streams |-> Absent, files |-> Absent, num |-> 0]
      /\ names = [units |-> << >>, at |-> 0, offsets |-> Absent]
      /\ files = [props |-> 0, entry |-> 0, emptyFile |-> 0] /\ filesPc = "property"
  BY DEF Files!Init
<1>3. n \in Nat /\ n <= FilesMax BY FilesAssumption
<1>4. FilesType
  <2>1. [k \in Files!Kinds |-> Absent] \in [Files!Kinds -> ValueLists] BY DEF ValueLists
  <2>2. << >> \in Seq({0, 1}) OBVIOUS
  <2> QED BY <1>1, <1>2, <1>3, <2>1, <2>2 DEF FilesType, FlagLists
<1>5. EmptyRight /\ EntriesRight /\ NamesWhole
  BY <1>2 DEF EmptyRight, EntriesRight, NamesWhole
<1>6. Files!ValuesInside BY <1>1 DEF Files!ValuesInside
<1> QED BY <1>2, <1>4, <1>5, <1>6 DEF FilesInv

(* A property leaves the other loops where they are.                         *)
LEMMA PropertyKeeps ==
  ASSUME FilesInv, NEW to \in {"property", "name", "failed"}, Files!Property(to)
  PROVE  /\ filesPc = "property" /\ filesPc' = to
         /\ files' \in [props : Nat, entry : Nat, emptyFile : Nat]
         /\ EntriesRight'
<1>1. filesPc = "property" /\ filesPc' = to /\ files' = [files EXCEPT !.props = @ + 1]
  BY DEF Files!Property
<1>2. files \in [props : Nat, entry : Nat, emptyFile : Nat] BY DEF FilesInv, FilesType
<1>3. files'.entry = 0 /\ files'.emptyFile = 0 BY <1>1, <1>2 DEF FilesInv, EntriesRight
<1> QED BY <1>1, <1>2, <1>3 DEF EntriesRight

LEMMA ShortKeeps == ASSUME FilesInv, Files!Short PROVE FilesInv'
<1>1. Files!Property("failed") /\ UNCHANGED <<p, empty, names>> BY DEF Files!Short
<1> QED BY <1>1, PropertyKeeps
        DEF FilesInv, FilesType, EmptyRight, Files!ValuesInside, Files!Entries

LEMMA EmptyStreamKeeps == ASSUME FilesInv, Files!EmptyStream PROVE FilesInv'
<1>1. /\ Files!Property("property") /\ UNCHANGED <<p, names>>
      /\ \E S \in SUBSET Files!Entries :
           empty' = [streams |-> S, num |-> Cardinality(S), files |-> Absent]
  BY FilesCounts DEF Files!EmptyStream
<1>2. PICK S \in SUBSET Files!Entries :
        empty' = [streams |-> S, num |-> Cardinality(S), files |-> Absent]
  BY <1>1
<1>3. p.numFiles \in Nat /\ p.numFiles <= FilesMax BY DEF FilesInv, FilesType
<1>4. S \in SUBSET Nat /\ Cardinality(S) \in Nat
  <2>1. S \in SUBSET (0 .. p.numFiles - 1) BY DEF Files!Entries
  <2>2. S \in SUBSET Nat BY <1>3, <2>1
  <2> QED BY <1>3, <2>1, <2>2, BelowFinite
<1>5. S # Absent BY <1>3, FilesAssumption DEF Files!Entries
<1>6. EmptyRight' BY <1>1, <1>2, <1>5 DEF EmptyRight, Files!Entries
<1>7. FilesType' BY <1>1, <1>2, <1>4, PropertyKeeps DEF FilesInv, FilesType, FlagLists
<1>8. Files!ValuesInside' BY <1>1 DEF FilesInv, Files!ValuesInside, Files!Entries
<1>9. NamesWhole' BY <1>1, PropertyKeeps DEF FilesInv, NamesWhole
<1> QED BY <1>1, <1>6, <1>7, <1>8, <1>9, PropertyKeeps DEF FilesInv

LEMMA EmptyFileKeeps == ASSUME FilesInv, Files!EmptyFile PROVE FilesInv'
<1>1. /\ Files!Property("property") /\ UNCHANGED <<p, names>>
      /\ \E v \in [0 .. empty.num - 1 -> BOOLEAN] : empty' = [empty EXCEPT !.files = v]
  BY DEF Files!EmptyFile
<1>2. PICK v \in [0 .. empty.num - 1 -> BOOLEAN] : empty' = [empty EXCEPT !.files = v]
  BY <1>1
<1>3. /\ empty' \in [streams : {Absent} \cup SUBSET Nat, num : Nat, files : FlagLists]
      /\ empty'.streams = empty.streams /\ empty'.num = empty.num /\ empty'.files = v
  <2>1. empty.num \in Nat BY DEF FilesInv, FilesType
  <2>2. v \in FlagLists BY <2>1 DEF FlagLists
  <2> QED BY <1>2, <2>2 DEF FilesInv, FilesType
<1>4. EmptyRight' BY <1>1, <1>3 DEF FilesInv, EmptyRight, Files!Entries
<1>5. FilesType' BY <1>1, <1>3, PropertyKeeps DEF FilesInv, FilesType
<1>6. Files!ValuesInside' BY <1>1 DEF FilesInv, Files!ValuesInside, Files!Entries
<1>7. NamesWhole' BY <1>1, PropertyKeeps DEF FilesInv, NamesWhole
<1> QED BY <1>1, <1>4, <1>5, <1>6, <1>7, PropertyKeeps DEF FilesInv

(* The vector that ReadValues makes: the last value is not behind the last   *)
(* one of the buffer.                                                        *)
LEMMA ValuesRight ==
  ASSUME FilesInv, NEW S \in SUBSET Files!Entries, NEW source \in 0 .. Len(TempBufs),
         Files!Enough(source, Cardinality(S))
  PROVE  /\ Files!Values(S, source) \in ValueLists
         /\ \A e \in Files!Entries :
              LET x == Files!Values(S, source)[e]
              IN x # Absent /\ x[1] # 0 => x[2] < TempBufs[x[1]]
<1> DEFINE v == Files!Values(S, source)
           rank(e) == Cardinality({g \in S : g < e})
<1>1. p.numFiles \in Nat /\ S \in SUBSET (0 .. p.numFiles - 1)
  BY DEF FilesInv, FilesType, Files!Entries
<1>2. Len(TempBufs) \in Nat /\ TempBufs \in Seq(Nat) BY FilesAssumption, LenProperties
<1>3. source \in Nat BY <1>2
<1>4. ASSUME NEW e \in Files!Entries PROVE rank(e) \in Nat
  <2>1. {g \in S : g < e} \subseteq S OBVIOUS
  <2> QED BY <1>1, <2>1, BelowFinite
<1>5. v = [e \in Files!Entries |-> IF e \in S THEN <<source, rank(e)>> ELSE Absent]
  BY FilesCounts DEF Files!Values
<1> HIDE DEF v
<1>6. \A e \in Files!Entries : v[e] = IF e \in S THEN <<source, rank(e)>> ELSE Absent
  BY <1>5
<1>7. v \in ValueLists
  <2>1. \A e \in Files!Entries :
          (IF e \in S THEN <<source, rank(e)>> ELSE Absent) \in {Absent} \cup (Nat \X Nat)
    BY <1>3, <1>4
  <2>2. v \in [Files!Entries -> {Absent} \cup (Nat \X Nat)] BY <1>5, <2>1
  <2> QED BY <1>1, <2>2 DEF ValueLists, Files!Entries
<1>8. ASSUME NEW e \in Files!Entries, v[e] # Absent, v[e][1] # 0
      PROVE  v[e][2] < TempBufs[v[e][1]]
  <2>1. e \in S /\ v[e] = <<source, rank(e)>> BY <1>6, <1>8
  <2>2. v[e][1] = source /\ v[e][2] = rank(e) BY <2>1
  <2>3. rank(e) < Cardinality(S) BY <1>1, <2>1, RankInside
  <2>4. Cardinality(S) <= TempBufs[source] BY <1>8, <2>2 DEF Files!Enough
  <2>5. TempBufs[source] \in Nat /\ Cardinality(S) \in Nat
    <3>1. source \in 1 .. Len(TempBufs) BY <1>2, <1>3, <1>8, <2>2
    <3>2. TempBufs[source] \in Nat BY <1>2, <3>1, ElementOfSeq
    <3> QED BY <1>1, <3>2, BelowFinite
  <2>6. rank(e) \in Nat BY <1>4
  <2> HIDE DEF rank
  <2> QED BY <2>2, <2>3, <2>4, <2>5, <2>6
<1> QED BY <1>7, <1>8 DEF v

LEMMA ReadValuesKeeps == ASSUME FilesInv, Files!ReadValues PROVE FilesInv'
<1>1. PICK k \in Files!Kinds, S \in SUBSET Files!Entries, source \in 0 .. Len(TempBufs) :
        \/ /\ Files!Enough(source, Cardinality(S))
           /\ Files!Property("property")
           /\ p' = [p EXCEPT !.vals[k] = IF p.numFiles = 0 THEN Absent
                                         ELSE Files!Values(S, source)]
           /\ UNCHANGED <<empty, names>>
        \/ /\ Files!Property("failed")
           /\ UNCHANGED <<p, empty, names>>
  <2>1. \A S : Files!Cardinality(S) = Cardinality(S) BY FilesCounts
  <2> QED BY <2>1 DEF Files!ReadValues
<1>2. CASE Files!Property("failed") /\ UNCHANGED <<p, empty, names>>
  BY <1>2, ShortKeeps DEF Files!Short
<1>3. CASE /\ Files!Enough(source, Cardinality(S)) /\ Files!Property("property")
           /\ p' = [p EXCEPT !.vals[k] = IF p.numFiles = 0 THEN Absent
                                         ELSE Files!Values(S, source)]
           /\ UNCHANGED <<empty, names>>
  <2> DEFINE v == IF p.numFiles = 0 THEN Absent ELSE Files!Values(S, source)
  <2>1. /\ v \in ValueLists
        /\ v # Absent => \A e \in Files!Entries : v[e] # Absent /\ v[e][1] # 0 =>
                            v[e][2] < TempBufs[v[e][1]]
    BY <1>3, ValuesRight DEF ValueLists
  <2>2. p' = [p EXCEPT !.vals[k] = v] BY <1>3
  <2> HIDE DEF v
  <2>3. p \in [numFiles : Nat, vals : [Files!Kinds -> ValueLists]] BY DEF FilesInv, FilesType
  <2>4. /\ p' \in [numFiles : Nat, vals : [Files!Kinds -> ValueLists]]
        /\ p'.numFiles = p.numFiles
        /\ \A j \in Files!Kinds : p'.vals[j] = IF j = k THEN v ELSE p.vals[j]
    BY <2>1, <2>2, <2>3
  <2>5. Files!ValuesInside' BY <2>1, <2>4 DEF FilesInv, Files!ValuesInside, Files!Entries
  <2>6. FilesType' BY <1>3, <2>4, PropertyKeeps DEF FilesInv, FilesType
  <2>7. EmptyRight' BY <1>3, <2>4 DEF FilesInv, EmptyRight, Files!Entries
  <2>8. NamesWhole' BY <1>3, <2>4, PropertyKeeps DEF FilesInv, NamesWhole
  <2> QED BY <1>3, <2>5, <2>6, <2>7, <2>8, PropertyKeeps DEF FilesInv
<1> QED BY <1>1, <1>2, <1>3

LEMMA FileNamesKeeps == ASSUME FilesInv, Files!FileNames PROVE FilesInv'
<1> DEFINE to(u) == IF p.numFiles = 0 THEN IF u = << >> THEN "property" ELSE "failed"
                    ELSE IF Files!Terminated(u) THEN "name" ELSE "failed"
<1>1. PICK u \in UNION {[1 .. n -> {0, 1}] : n \in 0 .. NamesMax} :
        /\ names' = [units |-> u, at |-> 0, offsets |-> <<0>>]
        /\ Files!Property(to(u)) /\ UNCHANGED <<p, empty>>
  BY DEF Files!FileNames
<1>2. u \in Seq({0, 1}) BY FilesAssumption
<1>3. to(u) \in {"property", "name", "failed"} OBVIOUS
<1>4. filesPc' = to(u) /\ filesPc = "property" BY <1>1, <1>3, PropertyKeeps
<1>5. <<0>> \in Seq(Nat) /\ Len(<<0>>) = 1 /\ <<0>>[1] = 0 /\ <<0>> # << >> OBVIOUS
<1>6. p.numFiles \in Nat BY DEF FilesInv, FilesType
<1>7. Split(u, <<0>>) BY <1>5 DEF Split
<1>8. filesPc' = "name" => NamesGoOn'
  <2> SUFFICES ASSUME filesPc' = "name" PROVE NamesGoOn' OBVIOUS
  <2>1. Files!Terminated(u) /\ p.numFiles > 0 BY <1>4, <1>6
  <2>2. u # << >> /\ u[Len(u)] = 0 BY <2>1 DEF Files!Terminated, Files!Last
  <2>3. Len(u) \in Nat BY <1>2
  <2> QED BY <1>1, <1>5, <1>6, <1>7, <2>1, <2>2, <2>3 DEF NamesGoOn
<1>9. filesPc' \in {"property", "entry", "done"} => NamesWhole'
  <2> SUFFICES ASSUME filesPc' \in {"property", "entry", "done"} PROVE NamesWhole' OBVIOUS
  <2>1. p.numFiles = 0 /\ u = << >> BY <1>4
  <2> QED BY <1>1, <1>5, <1>7, <2>1 DEF NamesWhole
<1>10. FilesType' BY <1>1, <1>2, <1>3, <1>5, PropertyKeeps DEF FilesInv, FilesType
<1>11. EmptyRight' /\ Files!ValuesInside'
  BY <1>1 DEF FilesInv, EmptyRight, Files!ValuesInside, Files!Entries
<1>12. EntriesRight' BY <1>1, <1>3, PropertyKeeps
<1> HIDE DEF to
<1> QED BY <1>3, <1>4, <1>8, <1>9, <1>10, <1>11, <1>12 DEF FilesInv

(* A name cannot leave FileNames: its last unit is a zero.                   *)
LEMMA NameInside ==
  ASSUME FilesInv, filesPc = "name",
         names.at # names.offsets[Len(names.offsets)] \/ names.at < Len(names.units)
  PROVE  names.at < Len(names.units)
<1> DEFINE u == names.units
           of == names.offsets
<1>1. u \in Seq({0, 1}) /\ of \in Seq(Nat) /\ names.at \in Nat /\ of # << >>
  BY DEF FilesInv, FilesType, NamesGoOn
<1>2. Len(u) \in Nat /\ of[Len(of)] \in Nat BY <1>1, LenProperties, EmptySeq
<1>3. /\ u[Len(u)] = 0 /\ of[Len(of)] <= names.at /\ names.at <= Len(u)
      /\ \A i \in of[Len(of)] + 1 .. names.at : u[i] # 0
  BY DEF FilesInv, NamesGoOn
<1> HIDE DEF u, of
<1>4. SUFFICES ASSUME names.at = Len(u) PROVE FALSE BY <1>1, <1>2, <1>3 DEF u
<1>5. Len(u) \in of[Len(of)] + 1 .. names.at
  <2>1. names.at # of[Len(of)] BY <1>2, <1>4 DEF u, of
  <2> QED BY <1>1, <1>2, <1>3, <1>4, <2>1
<1> QED BY <1>3, <1>5

(* One more name *)
LEMMA OneMoreName ==
  ASSUME NEW u, NEW of \in Seq(Nat), of # << >>, NEW a \in Nat, Split(u, of),
         of[Len(of)] <= a, \A i \in of[Len(of)] + 1 .. a : u[i] # 0, u[a + 1] = 0
  PROVE  LET of1 == Append(of, a + 1)
         IN /\ of1 \in Seq(Nat) /\ of1 # << >> /\ Len(of1) = Len(of) + 1
            /\ of1[Len(of1)] = a + 1 /\ Split(u, of1)
<1> DEFINE of1 == Append(of, a + 1)
           n == Len(of)
<1>1. n \in Nat \ {0} BY LenProperties, EmptySeq
<1>2. /\ of1 \in Seq(Nat) /\ Len(of1) = n + 1 /\ of1[n + 1] = a + 1
      /\ \A e \in 1 .. n : of1[e] = of[e]
  BY AppendProperties
<1>3. of[n] \in Nat BY <1>1, ElementOfSeq
<1>4. of1 # << >> BY <1>1, <1>2
<1> HIDE DEF of1, n
<1>5. ASSUME NEW e \in 1 .. Len(of1) - 1
      PROVE {i \in of1[e] + 1 .. of1[e + 1] : u[i] = 0} = {of1[e + 1]}
  <2>1. CASE e < n
    <3>1. e \in 1 .. n - 1 /\ e \in 1 .. n /\ e + 1 \in 1 .. n BY <1>1, <2>1
    <3>2. of1[e] = of[e] /\ of1[e + 1] = of[e + 1] BY <1>2, <3>1
    <3> QED BY <3>1, <3>2 DEF Split, n
  <2>2. CASE e = n
    <3>1. of1[e] = of[n] /\ of1[e + 1] = a + 1 BY <1>1, <1>2, <2>2
    <3>2. /\ of[n] <= a /\ \A i \in of[n] + 1 .. a : u[i] # 0 BY DEF n
    <3>3. {i \in of[n] + 1 .. a + 1 : u[i] = 0} = {a + 1}
      <4>1. a + 1 \in of[n] + 1 .. a + 1 BY <1>3, <3>2
      <4>2. ASSUME NEW i \in of[n] + 1 .. a + 1, i # a + 1 PROVE u[i] # 0
        <5>1. i \in of[n] + 1 .. a BY <1>3, <4>2
        <5> QED BY <3>2, <5>1
      <4> QED BY <4>1, <4>2
    <3> QED BY <3>1, <3>3
  <2> QED BY <1>1, <1>2, <2>1, <2>2
<1> QED BY <1>2, <1>4, <1>5 DEF Split, of1, n

LEMMA ReadUnitKeeps == ASSUME FilesInv, Files!ReadUnit PROVE FilesInv'
<1> DEFINE u == names.units
           of == names.offsets
           a == names.at
<1>1. /\ filesPc = "name" /\ p.numFiles + 1 - Len(of) > 0 /\ UNCHANGED <<p, empty, files>>
      /\ IF a = of[Len(of)] /\ a >= Len(u)
         THEN filesPc' = "failed" /\ UNCHANGED names
         ELSE /\ names' = [names EXCEPT !.at = a + 1,
                   !.offsets = IF u[a + 1] = 0 THEN Append(of, a + 1) ELSE of]
              /\ filesPc' = filesPc
  BY DEF Files!ReadUnit, Files!NamesLeft, Files!Last
<1>2. EmptyRight' /\ Files!ValuesInside' /\ EntriesRight'
  BY <1>1 DEF FilesInv, EmptyRight, Files!ValuesInside, Files!Entries, EntriesRight
<1>3. CASE filesPc' = "failed" /\ UNCHANGED names
  BY <1>1, <1>2, <1>3 DEF FilesInv, FilesType
<1>4. CASE /\ ~(a = of[Len(of)] /\ a >= Len(u)) /\ filesPc' = filesPc
           /\ names' = [names EXCEPT !.at = a + 1,
                   !.offsets = IF u[a + 1] = 0 THEN Append(of, a + 1) ELSE of]
  <2>1. /\ u \in Seq({0, 1}) /\ of \in Seq(Nat) /\ a \in Nat /\ of # << >> /\ p.numFiles \in Nat
        /\ names \in [units : Seq({0, 1}), at : Nat, offsets : {Absent} \cup Seq(Nat)]
    BY <1>1 DEF FilesInv, FilesType, NamesGoOn
  <2>2. Len(u) \in Nat /\ of[Len(of)] \in Nat /\ Len(of) \in Nat \ {0}
    BY <2>1, LenProperties, EmptySeq
  <2>3. a < Len(u) BY <1>1, <1>4, <2>1, <2>2, NameInside
  <2>4. /\ Split(u, of) /\ of[Len(of)] <= a /\ \A i \in of[Len(of)] + 1 .. a : u[i] # 0
        /\ u # << >> /\ u[Len(u)] = 0
    BY <1>1 DEF FilesInv, NamesGoOn
  <2>5. CASE u[a + 1] = 0
    <3>1. PICK of1 : /\ of1 = Append(of, a + 1)
                     /\ of1 \in Seq(Nat) /\ of1 # << >> /\ Len(of1) = Len(of) + 1
                     /\ of1[Len(of1)] = a + 1 /\ Split(u, of1)
      BY <2>1, <2>4, <2>5, OneMoreName
    <3>2. names' = [units |-> u, at |-> a + 1, offsets |-> of1]
      BY <1>4, <2>5, <3>1, FilesTyped
    <3>3. FilesType' BY <1>1, <2>1, <3>1, <3>2 DEF FilesInv, FilesType
    <3>4. Len(of1) <= p.numFiles + 1 BY <1>1, <2>1, <2>2, <3>1
    <3>5. a + 1 <= Len(u) BY <2>1, <2>2, <2>3
    <3>6. \A i \in of1[Len(of1)] + 1 .. a + 1 : u[i] # 0 BY <2>1, <3>1
    <3>7. of1[Len(of1)] <= a + 1 BY <2>1, <3>1
    <3>8. /\ names'.units = u /\ names'.at = a + 1 /\ names'.offsets = of1 /\ p' = p
      BY <1>1, <3>2
    <3>9. NamesGoOn'
      BY <2>4, <3>1, <3>4, <3>5, <3>6, <3>7, <3>8 DEF NamesGoOn
    <3> QED BY <1>1, <1>2, <1>4, <3>3, <3>9 DEF FilesInv
  <2>6. CASE u[a + 1] # 0
    <3>1. names' = [units |-> u, at |-> a + 1, offsets |-> of]
      BY <1>4, <2>6, FilesTyped
    <3>2. FilesType' BY <1>1, <2>1, <3>1 DEF FilesInv, FilesType
    <3>3. \A i \in of[Len(of)] + 1 .. a + 1 : u[i] # 0
      <4> TAKE i \in of[Len(of)] + 1 .. a + 1
      <4>1. CASE i = a + 1 BY <2>6, <4>1
      <4>2. CASE i # a + 1
        <5>1. i \in of[Len(of)] + 1 .. a BY <2>1, <2>2, <4>2
        <5> QED BY <2>4, <5>1
      <4> QED BY <4>1, <4>2
    <3>4. Len(of) <= p.numFiles + 1 /\ Len(of) # p.numFiles + 1 BY <1>1, <2>1, <2>2
    <3>5. a + 1 <= Len(u) /\ of[Len(of)] <= a + 1 BY <2>1, <2>2, <2>3, <2>4
    <3>6. /\ names'.units = u /\ names'.at = a + 1 /\ names'.offsets = of /\ p' = p
      BY <1>1, <3>1
    <3>7. NamesGoOn'
      BY <2>1, <2>4, <3>3, <3>4, <3>5, <3>6 DEF NamesGoOn
    <3> QED BY <1>1, <1>2, <1>4, <3>2, <3>7 DEF FilesInv
  <2> QED BY <2>5, <2>6
<1> QED BY <1>1, <1>3, <1>4

LEMMA NamesEndKeeps == ASSUME FilesInv, Files!NamesEnd PROVE FilesInv'
<1>1. /\ filesPc = "name" /\ p.numFiles + 1 - Len(names.offsets) = 0
      /\ UNCHANGED <<p, empty, names, files>>
      /\ filesPc' = IF names.at = Len(names.units) THEN "property" ELSE "failed"
  BY DEF Files!NamesEnd, Files!NamesLeft
<1>2. NamesGoOn /\ FilesType BY <1>1 DEF FilesInv
<1>3. Len(names.offsets) \in Nat /\ p.numFiles \in Nat
  BY <1>2, LenProperties DEF NamesGoOn, FilesType
<1>4. Len(names.offsets) = p.numFiles + 1 BY <1>1, <1>3
<1>5. filesPc' = "property" => NamesWhole'
  BY <1>1, <1>2, <1>4 DEF NamesGoOn, NamesWhole
<1>6. filesPc' \in {"property", "failed"} BY <1>1
<1> QED BY <1>1, <1>5, <1>6
        DEF FilesInv, FilesType, EmptyRight, Files!ValuesInside, Files!Entries, EntriesRight

LEMMA PropertiesEndKeeps == ASSUME FilesInv, Files!PropertiesEnd PROVE FilesInv'
<1>1. filesPc = "property" /\ filesPc' = "entry" /\ UNCHANGED <<p, empty, names, files>>
  BY DEF Files!PropertiesEnd
<1>2. EntriesRight'
  <2>1. files.entry = 0 /\ files.emptyFile = 0 /\ p.numFiles \in Nat
    BY <1>1 DEF FilesInv, EntriesRight, FilesType
  <2>2. EmptyBefore(0) = 0
    <3>1. empty.streams # Absent => {s \in empty.streams : s < 0} = {}
      <4> SUFFICES ASSUME empty.streams # Absent PROVE {s \in empty.streams : s < 0} = {}
        OBVIOUS
      <4>1. empty.streams \subseteq 0 .. p.numFiles - 1
        BY DEF FilesInv, EmptyRight, Files!Entries
      <4> QED BY <2>1, <4>1
    <3>2. Cardinality({}) = 0 BY FS_EmptySet
    <3> QED BY <3>1, <3>2 DEF EmptyBefore
  <2>3. EmptyBefore(0)' = EmptyBefore(0) BY <1>1 DEF EmptyBefore
  <2> QED BY <1>1, <2>1, <2>2, <2>3 DEF EntriesRight
<1> QED BY <1>1, <1>2
        DEF FilesInv, FilesType, EmptyRight, Files!ValuesInside, Files!Entries, NamesWhole

LEMMA EntryKindKeeps == ASSUME FilesInv, Files!EntryKind PROVE FilesInv'
<1>1. /\ filesPc = "entry" /\ UNCHANGED <<p, empty, names>>
      /\ IF files.entry = p.numFiles
         THEN filesPc' = "done" /\ UNCHANGED files
         ELSE /\ files' = [files EXCEPT !.entry = @ + 1,
                   !.emptyFile = IF Files!IsEmpty(files.entry) /\ empty.files # Absent
                                 THEN @ + 1 ELSE @]
              /\ filesPc' = filesPc
  BY DEF Files!EntryKind
<1>2. EmptyRight' /\ Files!ValuesInside' /\ NamesWhole'
  BY <1>1 DEF FilesInv, EmptyRight, Files!ValuesInside, Files!Entries, NamesWhole
<1>3. \A e : EmptyBefore(e)' = EmptyBefore(e) BY <1>1 DEF EmptyBefore
<1>4. files.entry <= p.numFiles /\ files.emptyFile = EmptyBefore(files.entry)
  BY <1>1 DEF FilesInv, EntriesRight
<1>5. CASE filesPc' = "done" /\ UNCHANGED files /\ files.entry = p.numFiles
  <2>1. EntriesRight' BY <1>1, <1>3, <1>4, <1>5 DEF EntriesRight
  <2> QED BY <1>1, <1>2, <1>5, <2>1 DEF FilesInv, FilesType
<1>6. CASE /\ files.entry # p.numFiles /\ filesPc' = filesPc
           /\ files' = [files EXCEPT !.entry = @ + 1,
                   !.emptyFile = IF Files!IsEmpty(files.entry) /\ empty.files # Absent
                                 THEN @ + 1 ELSE @]
  <2>1. p.numFiles \in Nat /\ files \in [props : Nat, entry : Nat, emptyFile : Nat]
    BY DEF FilesInv, FilesType
  <2> DEFINE e == files.entry
             hit == Files!IsEmpty(files.entry) /\ empty.files # Absent
  <2>2. /\ files' \in [props : Nat, entry : Nat, emptyFile : Nat] /\ files'.entry = e + 1
        /\ files'.emptyFile = files.emptyFile + (IF hit THEN 1 ELSE 0)
    <3>1. files' = [props |-> files.props, entry |-> e + 1,
                    emptyFile |-> IF hit THEN files.emptyFile + 1 ELSE files.emptyFile]
      BY <1>6, FilesTyped
    <3>2. (IF hit THEN files.emptyFile + 1 ELSE files.emptyFile)
             = files.emptyFile + (IF hit THEN 1 ELSE 0)
      BY <2>1
    <3> HIDE DEF hit, e
    <3>3. e \in Nat BY <2>1 DEF e
    <3> QED BY <2>1, <3>1, <3>2, <3>3
  <2>3. EmptyBefore(e + 1) = EmptyBefore(e) + (IF hit THEN 1 ELSE 0)
    <3>1. CASE empty.files # Absent /\ empty.streams # Absent
      <4>1. empty.streams \in SUBSET (0 .. p.numFiles - 1) /\ e \in Nat
        BY <2>1, <3>1 DEF FilesInv, EmptyRight, Files!Entries
      <4>2. hit <=> e \in empty.streams BY <3>1 DEF Files!IsEmpty
      <4> HIDE DEF hit, e
      <4>3. Cardinality({g \in empty.streams : g < e + 1})
              = Cardinality({g \in empty.streams : g < e})
                + (IF e \in empty.streams THEN 1 ELSE 0)
        <5>1. \A S \in SUBSET (0 .. p.numFiles - 1), x \in Nat :
                Cardinality({g \in S : g < x + 1})
                  = Cardinality({g \in S : g < x}) + (IF x \in S THEN 1 ELSE 0)
          BY <2>1, RankGrows
        <5> QED BY <4>1, <5>1
      <4>4. /\ EmptyBefore(e + 1) = Cardinality({g \in empty.streams : g < e + 1})
            /\ EmptyBefore(e) = Cardinality({g \in empty.streams : g < e})
        BY <3>1 DEF EmptyBefore
      <4> QED BY <4>2, <4>3, <4>4
    <3>2. CASE ~(empty.files # Absent /\ empty.streams # Absent)
      <4>1. ~hit BY <3>2 DEF Files!IsEmpty
      <4> QED BY <3>2, <4>1 DEF EmptyBefore
    <3> QED BY <3>1, <3>2
  <2>4. e + 1 <= p.numFiles BY <1>4, <1>6, <2>1
  <2>5. EntriesRight'
    <3> DEFINE b == EmptyBefore(files.entry)
    <3>1. b' = EmptyBefore(e + 1) BY <1>1, <2>2 DEF EmptyBefore
    <3>2. files'.emptyFile = EmptyBefore(e + 1) BY <1>4, <2>2, <2>3
    <3> HIDE DEF hit
    <3> QED BY <1>1, <1>6, <2>2, <2>4, <3>1, <3>2 DEF EntriesRight
  <2> QED BY <1>1, <1>2, <1>6, <2>2, <2>5 DEF FilesInv, FilesType
<1> QED BY <1>1, <1>5, <1>6

LEMMA FilesStep == ASSUME FilesInv, Files!Next PROVE FilesInv'
BY ShortKeeps, EmptyStreamKeeps, EmptyFileKeeps, ReadValuesKeeps, FileNamesKeeps,
   ReadUnitKeeps, NamesEndKeeps, PropertiesEndKeeps, EntryKindKeeps DEF Files!Next

LEMMA FilesStutter == ASSUME FilesInv, UNCHANGED filesVars PROVE FilesInv'
BY DEF filesVars, FilesInv, FilesType, EmptyRight, Files!ValuesInside, Files!Entries,
   EntriesRight, EmptyBefore, NamesGoOn, NamesWhole

(* What the invariant says of flags and names                                *)
LEMMA FilesSound == ASSUME FilesInv PROVE Files!FilesInfoExact
<1>1. Files!FlagsInside
  <2>0. Files!Cardinality(DOMAIN empty.files) = Cardinality(DOMAIN empty.files)
    BY FilesCounts
  <2> SUFFICES ASSUME filesPc \in {"entry", "done"}, empty.files # Absent
               PROVE  /\ files.emptyFile <= Cardinality(DOMAIN empty.files)
                      /\ filesPc = "done" =>
                           files.emptyFile = Cardinality(DOMAIN empty.files)
    BY <2>0 DEF Files!FlagsInside
  <2>1. p.numFiles \in Nat /\ empty.num \in Nat BY DEF FilesInv, FilesType
  <2>2. Cardinality(DOMAIN empty.files) = empty.num
    <3>1. DOMAIN empty.files = 0 .. empty.num - 1 BY DEF FilesInv, EmptyRight
    <3>2. Cardinality(0 .. empty.num - 1) = empty.num BY <2>1, FS_Interval
    <3> QED BY <3>1, <3>2
  <2>3. /\ files.emptyFile = EmptyBefore(files.entry)
        /\ filesPc = "done" => files.entry = p.numFiles
    BY DEF FilesInv, EntriesRight
  <2>4. CASE empty.streams = Absent
    <3>1. files.emptyFile = 0 /\ empty.num = 0
      BY <2>3, <2>4 DEF EmptyBefore, FilesInv, EmptyRight
    <3> QED BY <2>2, <3>1
  <2>5. CASE empty.streams # Absent
    <3> DEFINE T == {s \in empty.streams : s < files.entry}
    <3>1. /\ empty.streams \in SUBSET (0 .. p.numFiles - 1)
          /\ empty.num = Cardinality(empty.streams)
      BY <2>5 DEF FilesInv, EmptyRight, Files!Entries
    <3>2. files.emptyFile = Cardinality(T) BY <2>3, <2>5 DEF EmptyBefore
    <3>3. T \subseteq empty.streams OBVIOUS
    <3>4. Cardinality(T) <= empty.num BY <2>1, <3>1, <3>3, BelowFinite
    <3>5. filesPc = "done" => T = empty.streams BY <2>1, <2>3, <3>1
    <3> HIDE DEF T
    <3> QED BY <2>2, <3>1, <3>2, <3>4, <3>5
  <2> QED BY <2>4, <2>5
<1>2. Files!NamesInside
  <2>1. ASSUME filesPc = "name", Files!NamesLeft > 0, names.at # Files!Last(names.offsets)
        PROVE  names.at < Len(names.units)
    BY <2>1, NameInside DEF Files!Last
  <2>2. ASSUME filesPc = "done", names.offsets # Absent
        PROVE  /\ Len(names.offsets) = p.numFiles + 1
               /\ Files!Last(names.offsets) = Len(names.units)
               /\ \A e \in 1 .. p.numFiles :
                    {i \in names.offsets[e] + 1 .. names.offsets[e + 1] : names.units[i] = 0}
                      = {names.offsets[e + 1]}
    <3>1. NamesWhole /\ p.numFiles \in Nat BY <2>2 DEF FilesInv, FilesType
    <3>2. Len(names.offsets) - 1 = p.numFiles BY <2>2, <3>1 DEF NamesWhole
    <3> QED BY <2>2, <3>1, <3>2 DEF NamesWhole, Split, Files!Last
  <2> QED BY <2>1, <2>2 DEF Files!NamesInside
<1> QED BY <1>1, <1>2 DEF FilesInv, Files!FilesInfoExact

(* In whatever order and how often the properties of the files come, the    *)
(* vectors SzReadHeader2 makes of them are never read behind their ends: a   *)
(* flag for every empty entry, a name with its zero for every entry, and     *)
(* every value from the bytes it was sent in.                                *)
THEOREM FilesSafety == HeadersSpec => []FilesInfoExact
<1> DEFINE Inv == part = "files" => FilesInv
<1>1. HeadersInit => Inv BY FilesBegin DEF HeadersInit
<1>2. Inv /\ [HeadersNext]_headersVars => Inv'
  <2> SUFFICES ASSUME Inv, [HeadersNext]_headersVars, part' = "files" PROVE FilesInv'
    OBVIOUS
  <2>1. part = "files" /\ (Files!Next \/ UNCHANGED filesVars)
    <3>1. CASE HeadersNext BY <3>1 DEF HeadersNext
    <3>2. CASE UNCHANGED headersVars BY <3>2 DEF headersVars
    <3> QED BY <3>1, <3>2
  <2> QED BY <2>1, FilesStep, FilesStutter
<1>3. Inv => FilesInfoExact BY FilesSound DEF FilesInfoExact
<1> QED BY <1>1, <1>2, <1>3, PTL DEF HeadersSpec

-----------------------------------------------------------------------------
(* SzStreamInfo: numbers                                                     *)

LEMMA InfoCounts == \A S : Info!Cardinality(S) = Cardinality(S)
BY DEF Info!Cardinality, Cardinality

LEMMA OnesNatural == ASSUME NEW b PROVE Info!Ones(b) \in Nat /\ Info!ReadLength(b) \in Nat \ {0}
<1> DEFINE S == {i \in 1 .. 8 : b >= 256 - 2 ^ (8 - i)}
<1>1. S \in SUBSET (0 .. 9 - 1) OBVIOUS
<1>2. 9 \in Nat OBVIOUS
<1> HIDE DEF S
<1>3. Cardinality(S) \in Nat BY <1>1, <1>2, BelowFinite
<1>4. Info!Ones(b) = Cardinality(S) BY InfoCounts DEF Info!Ones, S
<1> QED BY <1>3, <1>4 DEF Info!ReadLength, S

(* The thresholds of the first byte                                          *)
LEMMA Thresholds ==
  /\ 256 - 2 ^ (8 - 1) = 128
  /\ \A i \in 2 .. 8 : 256 - 2 ^ (8 - i) \in 192 .. 255
<1>1. 256 - 2 ^ (8 - 1) = 128 OBVIOUS
<1>2. ASSUME NEW i \in 2 .. 8
      PROVE  256 - 2 ^ (8 - i) \in 192 .. 255
  <2>2. CASE i = 2 BY <2>2
  <2>3. CASE i = 3 BY <2>3
  <2>4. CASE i = 4 BY <2>4
  <2>5. CASE i = 5 BY <2>5
  <2>6. CASE i = 6 BY <2>6
  <2>7. CASE i = 7 BY <2>7
  <2>8. CASE i = 8 BY <2>8
  <2> QED BY <2>2, <2>3, <2>4, <2>5, <2>6, <2>7, <2>8
<1> QED BY <1>1, <1>2

(* The bits a first byte starts with                                         *)
LEMMA OnesOf ==
  ASSUME NEW b \in 0 .. 255, NEW k \in 0 .. 8,
         \A i \in 1 .. 8 : b >= 256 - 2 ^ (8 - i) <=> i <= k
  PROVE  Info!Ones(b) = k
<1>1. {i \in 1 .. 8 : b >= 256 - 2 ^ (8 - i)} = 1 .. k
  <2>1. \A i \in 1 .. k : i \in 1 .. 8 /\ i <= k OBVIOUS
  <2>2. \A i \in 1 .. 8 : i <= k => i \in 1 .. k OBVIOUS
  <2> QED BY <2>1, <2>2, Zenon
<1>2. Cardinality(1 .. k) = k
  <2>1. 1 \in Int /\ k \in Int OBVIOUS
  <2>2. Cardinality(1 .. k) = IF 1 > k THEN 0 ELSE k - 1 + 1 BY <2>1, FS_Interval
  <2> QED BY <2>2
<1> QED BY <1>1, <1>2, InfoCounts DEF Info!Ones

LEMMA LeastOf ==
  ASSUME NEW S \in SUBSET Nat, NEW k \in S, \A i \in S : k <= i
  PROVE  Info!Min(S) = k
<1>1. Info!Min(S) = CHOOSE x \in S : \A y \in S : x <= y BY DEF Info!Min
<1>2. \A x \in S : (\A y \in S : x <= y) => x = k OBVIOUS
<1> QED BY <1>1, <1>2

(* SkipNumbers and ReadNumber see the same length.                           *)
LEMMA SkipIsRead == ASSUME NEW b \in 0 .. 255 PROVE Info!SkipLength(b) = Info!ReadLength(b)
<1> DEFINE S == {8} \cup {i \in 2 .. 7 : (b \div 2 ^ (7 - i)) % 2 = 0}
<1>1. CASE b < 128
  <2>1. ASSUME NEW i \in 1 .. 8 PROVE b >= 256 - 2 ^ (8 - i) <=> i <= 0
    <3>1. CASE i = 1 BY <1>1, <3>1, Thresholds
    <3>2. CASE i # 1
      <4>1. i \in 2 .. 8 BY <3>2
      <4>2. PICK x \in 192 .. 255 : x = 256 - 2 ^ (8 - i) BY <4>1, Thresholds
      <4> QED BY <1>1, <4>1, <4>2
    <3> QED BY <3>1, <3>2
  <2>2. Info!Ones(b) = 0 BY <2>1, OnesOf
  <2> QED BY <1>1, <2>2 DEF Info!SkipLength, Info!ReadLength
<1>2. CASE b >= 128 /\ b < 192
  <2>1. ASSUME NEW i \in 1 .. 8 PROVE b >= 256 - 2 ^ (8 - i) <=> i <= 1
    <3>1. CASE i = 1 BY <1>2, <3>1, Thresholds
    <3>2. CASE i # 1
      <4>1. i \in 2 .. 8 BY <3>2
      <4>2. PICK x \in 192 .. 255 : x = 256 - 2 ^ (8 - i) BY <4>1, Thresholds
      <4> QED BY <1>2, <4>1, <4>2
    <3> QED BY <3>1, <3>2
  <2>2. Info!Ones(b) = 1 BY <2>1, OnesOf
  <2> QED BY <1>2, <2>2 DEF Info!SkipLength, Info!ReadLength
<1>3. ASSUME NEW k \in 2 .. 8, b >= 192,
             \A i \in 1 .. 8 : b >= 256 - 2 ^ (8 - i) <=> i <= k,
             k < 8 => (b \div 2 ^ (7 - k)) % 2 = 0,
             \A i \in 2 .. k - 1 : (b \div 2 ^ (7 - i)) % 2 # 0
      PROVE  Info!SkipLength(b) = Info!ReadLength(b)
  <2>1. k \in S BY <1>3
  <2>2. S \in SUBSET Nat /\ \A i \in S : k <= i BY <1>3
  <2>3. Info!Min(S) = k BY <2>1, <2>2, LeastOf
  <2>4. Info!Ones(b) = k BY <1>3, OnesOf
  <2>5. Info!SkipLength(b) = 1 + Info!Min(S) BY <1>3 DEF Info!SkipLength
  <2> HIDE DEF S
  <2> QED BY <2>3, <2>4, <2>5 DEF Info!ReadLength
<1>4. ASSUME b >= 192
      PROVE \E k \in 2 .. 8 : /\ \A i \in 1 .. 8 : b >= 256 - 2 ^ (8 - i) <=> i <= k
                             /\ k < 8 => (b \div 2 ^ (7 - k)) % 2 = 0
                             /\ \A i \in 2 .. k - 1 : (b \div 2 ^ (7 - i)) % 2 # 0
  <2>0. \A i \in 1 .. 8 : i \in {1, 2, 3, 4, 5, 6, 7, 8} OBVIOUS
  <2>1. CASE b < 224 BY <1>4, <2>0, <2>1
  <2>2. CASE b >= 224 /\ b < 240 BY <1>4, <2>0, <2>2
  <2>3. CASE b >= 240 /\ b < 248 BY <1>4, <2>0, <2>3
  <2>4. CASE b >= 248 /\ b < 252 BY <1>4, <2>0, <2>4
  <2>5. CASE b >= 252 /\ b < 254 BY <1>4, <2>0, <2>5
  <2>6. CASE b = 254 BY <1>4, <2>0, <2>6
  <2>7. CASE b = 255 BY <1>4, <2>0, <2>7
  <2> QED BY <2>1, <2>2, <2>3, <2>4, <2>5, <2>6, <2>7
<1> QED BY <1>1, <1>2, <1>3, <1>4

-----------------------------------------------------------------------------
(* A number as it stands at offset o of the bytes b                          *)
LengthAt(b, o) == Info!ReadLength(b[o + 1])
ValueAt(b, o) ==
  CASE Info!Ones(b[o + 1]) = 0 -> b[o + 1]
    [] Info!Ones(b[o + 1]) = 1 -> (b[o + 1] % 64) * 256 + b[o + 2]
    [] OTHER -> b[o + 2] + 256 * b[o + 3]

Encoding(s) == s \in Seq(0 .. 255) /\ s # << >> /\ Len(s) = Info!ReadLength(s[1])

LEMMA Encodings == \A s \in CountCodes \cup SizeCodes : Encoding(s)
BY InfoAssumption DEF Encoding

LEMMA Concat ==
  ASSUME NEW b \in Seq(Nat), NEW t \in Seq(Nat)
  PROVE  /\ b \o t \in Seq(Nat) /\ Len(b) \in Nat /\ Len(t) \in Nat
         /\ Len(b \o t) = Len(b) + Len(t)
         /\ \A i \in 1 .. Len(b) : (b \o t)[i] = b[i]
         /\ \A i \in 1 .. Len(t) : (b \o t)[Len(b) + i] = t[i]
<1>1. /\ b \o t \in Seq(Nat) /\ Len(b) \in Nat /\ Len(t) \in Nat
      /\ Len(b \o t) = Len(b) + Len(t)
      /\ \A i \in 1 .. Len(b) + Len(t) :
           (b \o t)[i] = IF i <= Len(b) THEN b[i] ELSE t[i - Len(b)]
  BY ConcatProperties, LenProperties
<1>2. ASSUME NEW i \in 1 .. Len(b) PROVE (b \o t)[i] = b[i]
  <2>1. i \in 1 .. Len(b) + Len(t) /\ i <= Len(b) BY <1>1
  <2> QED BY <1>1, <2>1
<1>3. ASSUME NEW i \in 1 .. Len(t) PROVE (b \o t)[Len(b) + i] = t[i]
  <2>1. /\ Len(b) + i \in 1 .. Len(b) + Len(t) /\ ~(Len(b) + i <= Len(b))
        /\ Len(b) + i - Len(b) = i
    BY <1>1
  <2> QED BY <1>1, <2>1
<1> QED BY <1>1, <1>2, <1>3

LEMMA EncodingFacts ==
  ASSUME NEW s, Encoding(s)
  PROVE  /\ s \in Seq(Nat) /\ Len(s) \in Nat \ {0} /\ s[1] \in 0 .. 255
         /\ Info!ReadValue(s) \in Nat /\ Info!SkipLength(s[1]) = Len(s)
         /\ Info!Ones(s[1]) = Len(s) - 1
<1>1. s \in Seq(0 .. 255) /\ s # << >> /\ Len(s) = Info!ReadLength(s[1]) BY DEF Encoding
<1>0. \A i \in 1 .. Len(s) : s[i] \in 0 .. 255
  <2> DEFINE Octets == 0 .. 255
  <2>1. s \in Seq(Octets) BY <1>1
  <2> HIDE DEF Octets
  <2>2. \A i \in 1 .. Len(s) : s[i] \in Octets BY <2>1, ElementOfSeq
  <2> QED BY <2>2 DEF Octets
<1>2. s \in Seq(Nat)
  <2>0. 0 .. 255 \subseteq Nat OBVIOUS
  <2>1. \A i \in 1 .. Len(s) : s[i] \in Nat BY <1>0, <2>0, Zenon
  <2>2. s = [i \in 1 .. Len(s) |-> s[i]] BY <1>1, SeqDef, LenProperties
  <2>3. Len(s) \in Nat BY <1>1, LenProperties
  <2> QED BY <2>1, <2>2, <2>3, SeqDef
<1>3. Len(s) \in Nat \ {0} BY <1>1, OnesNatural
<1>4. s[1] \in 0 .. 255
  <2>1. 1 \in 1 .. Len(s) BY <1>3
  <2> QED BY <1>0, <2>1
<1>5. Info!SkipLength(s[1]) = Len(s) BY <1>1, <1>4, SkipIsRead
<1>6. Info!Ones(s[1]) = Len(s) - 1
  <2>1. Info!Ones(s[1]) \in Nat BY OnesNatural
  <2> QED BY <1>1, <2>1 DEF Info!ReadLength
<1>7. Info!ReadValue(s) \in Nat
  <2>1. CASE Info!Ones(s[1]) = 0 BY <1>4, <2>1 DEF Info!ReadValue
  <2>2. CASE Info!Ones(s[1]) = 1
    <3>1. 2 \in 1 .. Len(s) BY <1>3, <1>6, <2>2
    <3>2. s[2] \in Nat BY <1>2, <3>1, ElementOfSeq
    <3>3. Info!ReadValue(s) = (s[1] % 64) * 256 + s[2] BY <2>2 DEF Info!ReadValue
    <3> QED BY <1>4, <3>2, <3>3
  <2>3. CASE Info!Ones(s[1]) \notin {0, 1}
    <3>0. Len(s) - 1 # 0 /\ Len(s) - 1 # 1 BY <1>6, <2>3
    <3>1. 2 \in 1 .. Len(s) /\ 3 \in 1 .. Len(s)
      <4>1. PICK n \in Nat \ {0} : n = Len(s) BY <1>3
      <4> QED BY <3>0, <4>1
    <3>2. s[2] \in Nat /\ s[3] \in Nat BY <1>2, <3>1, ElementOfSeq
    <3>3. Info!ReadValue(s) = s[2] + 256 * s[3] BY <2>3 DEF Info!ReadValue
    <3> QED BY <3>2, <3>3
  <2> QED BY <2>1, <2>2, <2>3
<1> QED BY <1>2, <1>3, <1>4, <1>5, <1>6, <1>7

(* A number says the same wherever its bytes are.                            *)
SameBytes(b, o, a, e) == \A i \in 1 .. LengthAt(b, o) : b[o + i] = a[e + i]

LEMMA SameNumber ==
  ASSUME NEW b, NEW o, NEW a, NEW e, SameBytes(b, o, a, e)
  PROVE  LengthAt(a, e) = LengthAt(b, o) /\ ValueAt(a, e) = ValueAt(b, o)
<1>1. Info!Ones(b[o + 1]) \in Nat BY OnesNatural
<1>2. LengthAt(b, o) = Info!Ones(b[o + 1]) + 1 BY DEF LengthAt, Info!ReadLength
<1>3. b[o + 1] = a[e + 1] BY <1>1, <1>2 DEF SameBytes
<1>4. Info!Ones(b[o + 1]) # 0 => b[o + 2] = a[e + 2] BY <1>1, <1>2 DEF SameBytes
<1>5. Info!Ones(b[o + 1]) \notin {0, 1} => b[o + 2] = a[e + 2] /\ b[o + 3] = a[e + 3]
  BY <1>1, <1>2 DEF SameBytes
<1>6. LengthAt(a, e) = LengthAt(b, o) BY <1>3 DEF LengthAt
<1>7. CASE Info!Ones(b[o + 1]) = 0 BY <1>3, <1>6, <1>7 DEF ValueAt
<1>8. CASE Info!Ones(b[o + 1]) = 1 BY <1>3, <1>4, <1>6, <1>8 DEF ValueAt
<1>9. CASE Info!Ones(b[o + 1]) \notin {0, 1} BY <1>3, <1>5, <1>6, <1>9 DEF ValueAt
<1> QED BY <1>7, <1>8, <1>9

(* as one of a list,                                                         *)
LEMMA ReadIsAt ==
  ASSUME NEW s PROVE Info!ReadLength(s[1]) = LengthAt(s, 0) /\ Info!ReadValue(s) = ValueAt(s, 0)
<1>1. 0 + 1 = 1 /\ 0 + 2 = 2 /\ 0 + 3 = 3 OBVIOUS
<1> QED BY <1>1 DEF LengthAt, ValueAt, Info!ReadValue

(* behind the bytes so far,                                                  *)
LEMMA NumberAppended ==
  ASSUME NEW b \in Seq(Nat), NEW s, Encoding(s)
  PROVE  /\ LengthAt(b \o s, Len(b)) = Len(s)
         /\ ValueAt(b \o s, Len(b)) = Info!ReadValue(s)
<1>1. /\ s \in Seq(Nat) /\ Len(s) \in Nat \ {0} BY EncodingFacts
<1>2. /\ Len(b) \in Nat /\ \A i \in 1 .. Len(s) : (b \o s)[Len(b) + i] = s[i] BY <1>1, Concat
<1>3. LengthAt(s, 0) = Len(s) BY ReadIsAt DEF Encoding
<1>4. SameBytes(s, 0, b \o s, Len(b))
  <2>1. \A i \in 1 .. Len(s) : 0 + i = i BY <1>1
  <2> QED BY <1>2, <1>3, <2>1 DEF SameBytes
<1>5. /\ LengthAt(b \o s, Len(b)) = LengthAt(s, 0)
      /\ ValueAt(b \o s, Len(b)) = ValueAt(s, 0)
  BY <1>4, SameNumber
<1> QED BY <1>3, <1>5, ReadIsAt

(* in front of others,                                                       *)
LEMMA NumberKeeps ==
  ASSUME NEW b \in Seq(Nat), NEW t \in Seq(Nat), NEW o \in Nat,
         o + LengthAt(b, o) <= Len(b)
  PROVE  LengthAt(b \o t, o) = LengthAt(b, o) /\ ValueAt(b \o t, o) = ValueAt(b, o)
<1>1. LengthAt(b, o) \in Nat \ {0} BY OnesNatural DEF LengthAt
<1>2. \A i \in 1 .. LengthAt(b, o) : o + i \in 1 .. Len(b) BY <1>1, Concat
<1>3. SameBytes(b, o, b \o t, o) BY <1>2, Concat DEF SameBytes
<1> QED BY <1>3, SameNumber

(* and at the begin of a slice.                                              *)
LEMMA NumberInSlice ==
  ASSUME NEW b \in Seq(Nat), NEW o \in Nat, NEW to \in Nat, to <= Len(b),
         o + LengthAt(b, o) <= to
  PROVE  /\ Len(SubSeq(b, o + 1, to)) = to - o
         /\ Info!ReadValue(SubSeq(b, o + 1, to)) = ValueAt(b, o)
<1> DEFINE s == SubSeq(b, o + 1, to)
<1>1. LengthAt(b, o) \in Nat \ {0} BY OnesNatural DEF LengthAt
<1>2. Len(b) \in Nat BY LenProperties
<1>3. Len(s) = to - o /\ \A i \in 1 .. to - o : s[i] = b[o + i]
  <2>1. o + 1 \in 1 .. Len(b) + 1 /\ to \in 0 .. Len(b) /\ o + 1 <= to BY <1>1, <1>2
  <2>2. /\ Len(s) = IF o + 1 <= to THEN to - (o + 1) + 1 ELSE 0
        /\ \A i \in 1 .. to - (o + 1) + 1 : s[i] = b[o + 1 + i - 1]
    BY <1>2, <2>1, SubSeqProperties
  <2>3. to - (o + 1) + 1 = to - o BY <2>1
  <2>4. \A i \in 1 .. to - o : o + 1 + i - 1 = o + i OBVIOUS
  <2> QED BY <2>1, <2>2, <2>3, <2>4
<1>4. SameBytes(b, o, s, 0)
  <2>1. \A i \in 1 .. LengthAt(b, o) : i \in 1 .. to - o /\ 0 + i = i BY <1>1
  <2> QED BY <1>3, <2>1 DEF SameBytes
<1> HIDE DEF s
<1>5. ValueAt(s, 0) = ValueAt(b, o) BY <1>4, SameNumber
<1>6. Len(s) = to - o /\ Info!ReadValue(s) = ValueAt(b, o) BY <1>3, <1>5, ReadIsAt
<1> QED BY <1>6 DEF s

-----------------------------------------------------------------------------
(* Lists of n numbers: c has the offset of each and the end, st[i] is the    *)
(* sum of the first i.                                                       *)
Walk(b, n, c, to) ==
  /\ c \in [0 .. n -> Nat] /\ c[n] = to /\ to <= Len(b)
  /\ \A i \in 0 .. n - 1 :
       c[i + 1] = c[i] + LengthAt(b, c[i]) /\ c[i] < c[i + 1] /\ c[i + 1] <= to

Adds(b, n, c, st) == \A i \in 0 .. n - 1 : st[i + 1] = st[i] + ValueAt(b, c[i])

LEMMA WalkKeeps ==
  ASSUME NEW b \in Seq(Nat), NEW t \in Seq(Nat), NEW n \in Nat, NEW c, NEW to, Walk(b, n, c, to)
  PROVE  /\ Walk(b \o t, n, c, to)
         /\ \A st : Adds(b, n, c, st) => Adds(b \o t, n, c, st)
<1>1. Len(b) \in Nat /\ Len(b) <= Len(b \o t) /\ Len(b \o t) \in Nat BY Concat
<1>2. c \in [0 .. n -> Nat] /\ c[n] = to /\ to \in Nat /\ to <= Len(b) BY DEF Walk
<1>3. ASSUME NEW i \in 0 .. n - 1
      PROVE /\ LengthAt(b \o t, c[i]) = LengthAt(b, c[i])
            /\ ValueAt(b \o t, c[i]) = ValueAt(b, c[i])
  <2>1. i \in 0 .. n /\ i + 1 \in 0 .. n OBVIOUS
  <2>2. c[i] \in Nat /\ c[i + 1] \in Nat BY <1>2, <2>1
  <2>3. c[i] + LengthAt(b, c[i]) <= Len(b) BY <1>1, <1>2, <2>2 DEF Walk
  <2> QED BY <2>2, <2>3, NumberKeeps
<1>4. to <= Len(b \o t) BY <1>1, <1>2
<1>5. Walk(b \o t, n, c, to) BY <1>2, <1>3, <1>4 DEF Walk
<1>6. ASSUME NEW st, Adds(b, n, c, st) PROVE Adds(b \o t, n, c, st)
  BY <1>3, <1>6 DEF Adds
<1> QED BY <1>5, <1>6

(* f with one more value                                                     *)
More(f, n, x) == [i \in 0 .. n + 1 |-> IF i <= n THEN f[i] ELSE x]

LEMMA MoreFacts ==
  ASSUME NEW n \in Nat, NEW f \in [0 .. n -> Nat], NEW x \in Nat
  PROVE  /\ More(f, n, x) \in [0 .. n + 1 -> Nat] /\ More(f, n, x)[n + 1] = x
         /\ \A i \in 0 .. n : More(f, n, x)[i] = f[i]
BY DEF More

LEMMA WalkGrows ==
  ASSUME NEW b \in Seq(Nat), NEW n \in Nat, NEW c, Walk(b, n, c, Len(b)),
         NEW s, Encoding(s)
  PROVE  /\ Walk(b \o s, n + 1, More(c, n, Len(b) + Len(s)), Len(b) + Len(s))
         /\ \A st \in [0 .. n -> Nat] : Adds(b, n, c, st) =>
              Adds(b \o s, n + 1, More(c, n, Len(b) + Len(s)),
                   More(st, n, st[n] + Info!ReadValue(s)))
<1> DEFINE to == Len(b) + Len(s)
           d == More(c, n, to)
           b1 == b \o s
<1>1. s \in Seq(Nat) /\ Len(s) \in Nat \ {0} /\ Len(b) \in Nat /\ Info!ReadValue(s) \in Nat
  BY EncodingFacts, LenProperties
<1>2. to \in Nat /\ Len(b1) = to BY <1>1, Concat
<1>3. Walk(b1, n, c, Len(b)) /\ \A st : Adds(b, n, c, st) => Adds(b1, n, c, st)
  BY <1>1, WalkKeeps
<1>4. c \in [0 .. n -> Nat] /\ c[n] = Len(b) BY DEF Walk
<1>5. /\ d \in [0 .. n + 1 -> Nat] /\ d[n + 1] = to /\ \A i \in 0 .. n : d[i] = c[i]
  BY <1>2, <1>4, MoreFacts
<1>6. /\ LengthAt(b1, Len(b)) = Len(s) /\ ValueAt(b1, Len(b)) = Info!ReadValue(s)
  BY NumberAppended
<1> HIDE DEF d, to, b1
<1>7. ASSUME NEW i \in 0 .. (n + 1) - 1
      PROVE d[i + 1] = d[i] + LengthAt(b1, d[i]) /\ d[i] < d[i + 1] /\ d[i + 1] <= to
  <2>1. CASE i = n
    <3>1. d[i] = Len(b) /\ d[i + 1] = to BY <1>4, <1>5, <2>1
    <3>2. to = Len(b) + Len(s) BY DEF to
    <3>3. LengthAt(b1, d[i]) = Len(s) BY <1>6, <3>1 DEF b1
    <3> QED BY <1>1, <3>1, <3>2, <3>3
  <2>2. CASE i # n
    <3>1. i \in 0 .. n - 1 /\ i \in 0 .. n /\ i + 1 \in 0 .. n BY <2>2
    <3>2. d[i] = c[i] /\ d[i + 1] = c[i + 1] BY <1>5, <3>1
    <3>3. /\ c[i + 1] = c[i] + LengthAt(b1, c[i]) /\ c[i] < c[i + 1] /\ c[i + 1] <= Len(b)
      BY <1>3, <3>1 DEF Walk
    <3>4. Len(b) <= to /\ c[i + 1] \in Nat BY <1>1, <1>4, <3>1 DEF to
    <3> QED BY <1>1, <1>2, <3>2, <3>3, <3>4
  <2> QED BY <2>1, <2>2
<1>8. Walk(b1, n + 1, d, to) BY <1>2, <1>5, <1>7 DEF Walk
<1>9. ASSUME NEW st \in [0 .. n -> Nat], Adds(b, n, c, st)
      PROVE Adds(b1, n + 1, d, More(st, n, st[n] + Info!ReadValue(s)))
  <2> DEFINE x == st[n] + Info!ReadValue(s)
             su == More(st, n, x)
  <2>1. st[n] \in Nat OBVIOUS
  <2>2. x \in Nat BY <1>1, <2>1
  <2>3. su[n + 1] = x /\ \A i \in 0 .. n : su[i] = st[i] BY <2>2, MoreFacts
  <2>4. Adds(b1, n, c, st) BY <1>3, <1>9
  <2> HIDE DEF su
  <2>5. ASSUME NEW i \in 0 .. (n + 1) - 1 PROVE su[i + 1] = su[i] + ValueAt(b1, d[i])
    <3>1. CASE i = n
      <4>1. d[i] = Len(b) /\ su[i] = st[n] /\ su[i + 1] = x BY <1>4, <1>5, <2>3, <3>1
      <4> QED BY <1>6, <4>1
    <3>2. CASE i # n
      <4>1. i \in 0 .. n - 1 /\ i \in 0 .. n /\ i + 1 \in 0 .. n BY <3>2
      <4>2. d[i] = c[i] /\ su[i] = st[i] /\ su[i + 1] = st[i + 1] BY <1>5, <2>3, <4>1
      <4> QED BY <2>4, <4>1, <4>2 DEF Adds
    <3> QED BY <3>1, <3>2
  <2> QED BY <2>5 DEF Adds, su
<1> QED BY <1>8, <1>9 DEF d, to, b1

-----------------------------------------------------------------------------
(* What the counts of n folders make of the other two lists: st[i] streams   *)
(* in the folders before i, sz[i] sizes that are stored for them, and dg[i]  *)
(* digests.  crcs are the folders with a CRC of their own.                   *)
HasOwn(crcs, f) == crcs # Absent /\ f \in crcs
DigestsOf(crcs, v, f) == IF v # 1 \/ ~HasOwn(crcs, f) THEN v ELSE 0
Stored(v) == IF v = 0 THEN 0 ELSE v - 1

Steps(crcs, n, st, sz, dg) ==
  /\ st \in [0 .. n -> Nat] /\ sz \in [0 .. n -> Nat] /\ dg \in [0 .. n -> Nat]
  /\ st[0] = 0 /\ sz[0] = 0 /\ dg[0] = 0
  /\ \A i \in 0 .. n - 1 :
       LET v == st[i + 1] - st[i]
       IN v \in Nat /\ sz[i + 1] = sz[i] + Stored(v) /\ dg[i + 1] = dg[i] + DigestsOf(crcs, v, i)
  /\ \A i, j \in 0 .. n : i <= j => st[i] <= st[j] /\ sz[i] <= sz[j] /\ dg[i] <= dg[j]

LEMMA DigestsNatural ==
  \A v \in Nat : Stored(v) \in Nat /\ \A crcs, f : DigestsOf(crcs, v, f) \in Nat
BY DEF DigestsOf, Stored

LEMMA InfoDigests == \A v, f : Info!Digests(v, f) = DigestsOf(infoAr.FolderCRCs, v, f)
BY DEF Info!Digests, Info!HasCrc, DigestsOf, HasOwn

(* Before the first folder                                                   *)
LEMMA StepsBegin ==
  ASSUME NEW crcs
  PROVE  LET z == [i \in 0 .. 0 |-> 0] IN Steps(crcs, 0, z, z, z)
BY DEF Steps

LEMMA MoreGrows ==
  ASSUME NEW n \in Nat, NEW f \in [0 .. n -> Nat], NEW v \in Nat,
         \A i, j \in 0 .. n : i <= j => f[i] <= f[j]
  PROVE  /\ More(f, n, f[n] + v) \in [0 .. n + 1 -> Nat]
         /\ \A i, j \in 0 .. n + 1 : i <= j => More(f, n, f[n] + v)[i] <= More(f, n, f[n] + v)[j]
<1> DEFINE g == More(f, n, f[n] + v)
<1>1. n \in 0 .. n /\ f[n] \in Nat /\ f[n] + v \in Nat OBVIOUS
<1>2. /\ g \in [0 .. n + 1 -> Nat] /\ g[n + 1] = f[n] + v /\ \A i \in 0 .. n : g[i] = f[i]
  BY <1>1, MoreFacts
<1> HIDE DEF g
<1>3. ASSUME NEW i \in 0 .. n + 1, NEW j \in 0 .. n + 1, i <= j PROVE g[i] <= g[j]
  <2>1. CASE j = n + 1 /\ i = n + 1 BY <1>2, <2>1
  <2>2. CASE j = n + 1 /\ i # n + 1
    <3>1. i \in 0 .. n /\ i <= n BY <2>2
    <3>2. f[i] <= f[n] /\ f[i] \in Nat BY <1>1, <3>1
    <3>3. g[i] = f[i] /\ g[j] = f[n] + v BY <1>2, <2>2, <3>1
    <3> QED BY <1>1, <3>2, <3>3
  <2>3. CASE j # n + 1
    <3>1. i \in 0 .. n /\ j \in 0 .. n BY <1>3, <2>3
    <3>2. g[i] = f[i] /\ g[j] = f[j] BY <1>2, <3>1
    <3> QED BY <1>3, <3>1, <3>2
  <2> QED BY <2>1, <2>2, <2>3
<1> QED BY <1>2, <1>3 DEF g

LEMMA StepsGrow ==
  ASSUME NEW crcs, NEW n \in Nat, NEW st, NEW sz, NEW dg, Steps(crcs, n, st, sz, dg),
         NEW v \in Nat
  PROVE  Steps(crcs, n + 1, More(st, n, st[n] + v), More(sz, n, sz[n] + Stored(v)),
               More(dg, n, dg[n] + DigestsOf(crcs, v, n)))
<1> DEFINE su == More(st, n, st[n] + v)
           sv == More(sz, n, sz[n] + Stored(v))
           dh == More(dg, n, dg[n] + DigestsOf(crcs, v, n))
<1>1. /\ st \in [0 .. n -> Nat] /\ sz \in [0 .. n -> Nat] /\ dg \in [0 .. n -> Nat]
      /\ st[0] = 0 /\ sz[0] = 0 /\ dg[0] = 0
      /\ \A i, j \in 0 .. n : i <= j => st[i] <= st[j]
      /\ \A i, j \in 0 .. n : i <= j => sz[i] <= sz[j]
      /\ \A i, j \in 0 .. n : i <= j => dg[i] <= dg[j]
  BY DEF Steps
<1>2. /\ st[n] \in Nat /\ sz[n] \in Nat /\ dg[n] \in Nat
      /\ Stored(v) \in Nat /\ DigestsOf(crcs, v, n) \in Nat
  <2>1. n \in 0 .. n OBVIOUS
  <2>2. st[n] \in Nat /\ sz[n] \in Nat /\ dg[n] \in Nat BY <1>1, <2>1
  <2>3. Stored(v) \in Nat /\ DigestsOf(crcs, v, n) \in Nat BY DigestsNatural
  <2> QED BY <2>2, <2>3
<1>3. /\ su[n + 1] = st[n] + v /\ sv[n + 1] = sz[n] + Stored(v)
      /\ dh[n + 1] = dg[n] + DigestsOf(crcs, v, n)
      /\ \A i \in 0 .. n : su[i] = st[i] /\ sv[i] = sz[i] /\ dh[i] = dg[i]
  <2>1. /\ st[n] + v \in Nat /\ sz[n] + Stored(v) \in Nat
        /\ dg[n] + DigestsOf(crcs, v, n) \in Nat
    BY <1>2
  <2>0. /\ n + 1 \in 0 .. n + 1 /\ ~(n + 1 <= n)
        /\ \A i \in 0 .. n : i \in 0 .. n + 1 /\ i <= n
    OBVIOUS
  <2>2. su[n + 1] = st[n] + v /\ \A i \in 0 .. n : su[i] = st[i] BY ONLY <2>0 DEF More
  <2>3. sv[n + 1] = sz[n] + Stored(v) /\ \A i \in 0 .. n : sv[i] = sz[i]
    BY ONLY <2>0 DEF More
  <2>4. dh[n + 1] = dg[n] + DigestsOf(crcs, v, n) /\ \A i \in 0 .. n : dh[i] = dg[i]
    BY ONLY <2>0 DEF More
  <2> HIDE DEF su, sv, dh
  <2> QED BY <2>2, <2>3, <2>4
<1>4. /\ su \in [0 .. n + 1 -> Nat] /\ \A i, j \in 0 .. n + 1 : i <= j => su[i] <= su[j]
  BY <1>1, <1>2, MoreGrows
<1>5. /\ sv \in [0 .. n + 1 -> Nat] /\ \A i, j \in 0 .. n + 1 : i <= j => sv[i] <= sv[j]
  BY <1>1, <1>2, MoreGrows
<1>6. /\ dh \in [0 .. n + 1 -> Nat] /\ \A i, j \in 0 .. n + 1 : i <= j => dh[i] <= dh[j]
  BY <1>1, <1>2, MoreGrows
<1> HIDE DEF su, sv, dh
<1>7. su[0] = 0 /\ sv[0] = 0 /\ dh[0] = 0 BY <1>1, <1>3
<1>8. ASSUME NEW i \in 0 .. (n + 1) - 1
      PROVE /\ su[i + 1] - su[i] \in Nat /\ sv[i + 1] = sv[i] + Stored(su[i + 1] - su[i])
            /\ dh[i + 1] = dh[i] + DigestsOf(crcs, su[i + 1] - su[i], i)
  <2>1. CASE i = n
    <3>1. su[i + 1] = st[n] + v /\ su[i] = st[n] BY <1>3, <2>1
    <3>2. su[i + 1] - su[i] = v BY <1>2, <3>1
    <3> QED BY <1>3, <2>1, <3>2
  <2>2. CASE i # n
    <3>1. i \in 0 .. n - 1 /\ i \in 0 .. n /\ i + 1 \in 0 .. n BY <2>2
    <3>2. /\ su[i] = st[i] /\ sv[i] = sz[i] /\ dh[i] = dg[i]
          /\ su[i + 1] = st[i + 1] /\ sv[i + 1] = sz[i + 1] /\ dh[i + 1] = dg[i + 1]
      BY <1>3, <3>1
    <3> QED BY <3>1, <3>2 DEF Steps
  <2> QED BY <2>1, <2>2
<1>9. Steps(crcs, n + 1, su, sv, dh) BY <1>4, <1>5, <1>6, <1>7, <1>8 DEF Steps
<1> QED BY <1>9 DEF su, sv, dh

(* Without counts every folder has one stream.                               *)
(* The folders whose streams have no CRC yet                                 *)
Unchecked(crcs, n) == Cardinality({f \in 0 .. n - 1 : ~HasOwn(crcs, f)})

LEMMA StepsOfOnes ==
  ASSUME NEW crcs, NEW n \in Nat
  PROVE  \E st, sz, dg :
           /\ Steps(crcs, n, st, sz, dg)
           /\ st[n] = n /\ sz[n] = 0
           /\ dg[n] = Unchecked(crcs, n)
           /\ \A i \in 0 .. n - 1 : st[i + 1] = st[i] + 1
<1> DEFINE S == {f \in 0 .. n - 1 : ~HasOwn(crcs, f)}
           st == [i \in 0 .. n |-> i]
           sz == [i \in 0 .. n |-> 0]
           dg == [i \in 0 .. n |-> Cardinality({f \in S : f < i})]
<1>1. S \in SUBSET (0 .. n - 1) OBVIOUS
<1>2. ASSUME NEW i \in 0 .. n PROVE dg[i] = Cardinality({f \in S : f < i}) /\ dg[i] \in Nat
  <2>1. {f \in S : f < i} \subseteq S OBVIOUS
  <2>2. Cardinality({f \in S : f < i}) \in Nat BY <1>1, <2>1, BelowFinite
  <2> QED BY <2>2
<1>3. dg \in [0 .. n -> Nat]
  <2>1. \A i \in 0 .. n : Cardinality({f \in S : f < i}) \in Nat BY <1>2
  <2> QED BY <2>1
<1>4. \A f \in S : f \in 0 .. n - 1 OBVIOUS
<1>5. ASSUME NEW i \in 0 .. n, NEW j \in 0 .. n, i <= j PROVE dg[i] <= dg[j]
  <2> DEFINE Ti == {f \in S : f < i}
             Tj == {f \in S : f < j}
  <2>1. Ti \subseteq Tj
    <3>1. \A f \in S : f < i => f < j BY <1>4, <1>5
    <3> QED BY <3>1
  <2>2. Tj \subseteq S /\ IsFiniteSet(S) BY <1>1, BelowFinite
  <2>3. IsFiniteSet(Tj) BY <2>2, FS_Subset
  <2> HIDE DEF Ti, Tj
  <2>4. Cardinality(Ti) <= Cardinality(Tj) BY <2>1, <2>3, FS_Subset
  <2> QED BY <1>2, <2>4 DEF Ti, Tj
<1>6. dg[0] = 0
  <2>1. {f \in S : f < 0} = {}
    <3>1. \A f \in S : ~(f < 0) BY <1>4
    <3> QED BY <3>1
  <2>2. Cardinality({}) = 0 BY FS_EmptySet
  <2>3. 0 \in 0 .. n OBVIOUS
  <2> QED BY <1>2, <2>1, <2>2, <2>3
<1>7. dg[n] = Cardinality(S)
  <2>1. {f \in S : f < n} = S
    <3>1. \A f \in S : f < n BY <1>4
    <3> QED BY <3>1
  <2>2. n \in 0 .. n OBVIOUS
  <2> QED BY <1>2, <2>1, <2>2
<1>8. ASSUME NEW i \in 0 .. n - 1 PROVE dg[i + 1] = dg[i] + DigestsOf(crcs, 1, i)
  <2>1. i \in 0 .. n /\ i + 1 \in 0 .. n /\ i \in Nat OBVIOUS
  <2>2. \A T \in SUBSET (0 .. n - 1), x \in Nat :
          Cardinality({g \in T : g < x + 1})
            = Cardinality({g \in T : g < x}) + (IF x \in T THEN 1 ELSE 0)
    BY RankGrows
  <2>3. i \in S <=> ~HasOwn(crcs, i) OBVIOUS
  <2> HIDE DEF S
  <2>4. Cardinality({g \in S : g < i + 1})
            = Cardinality({g \in S : g < i}) + (IF i \in S THEN 1 ELSE 0)
    BY <1>1, <2>1, <2>2
  <2>5. DigestsOf(crcs, 1, i) = IF i \in S THEN 1 ELSE 0 BY <2>3 DEF DigestsOf
  <2> HIDE DEF dg
  <2> QED BY <1>2, <2>1, <2>4, <2>5
<1> HIDE DEF S, dg
<1>9. Steps(crcs, n, st, sz, dg)
  <2>1. /\ st \in [0 .. n -> Nat] /\ sz \in [0 .. n -> Nat] /\ st[0] = 0 /\ sz[0] = 0
    OBVIOUS
  <2>2. ASSUME NEW i \in 0 .. n - 1
        PROVE  /\ st[i + 1] - st[i] \in Nat
               /\ sz[i + 1] = sz[i] + Stored(st[i + 1] - st[i])
               /\ dg[i + 1] = dg[i] + DigestsOf(crcs, st[i + 1] - st[i], i)
    <3>1. st[i + 1] - st[i] = 1 /\ sz[i + 1] = 0 /\ sz[i] = 0 OBVIOUS
    <3>2. Stored(1) = 0 BY DEF Stored
    <3> QED BY <1>8, <3>1, <3>2
  <2>3. \A i, j \in 0 .. n : i <= j => st[i] <= st[j] /\ sz[i] <= sz[j] OBVIOUS
  <2> HIDE DEF st, sz
  <2> QED BY <1>3, <1>5, <1>6, <2>1, <2>2, <2>3 DEF Steps
<1>10. st[n] = n /\ sz[n] = 0 /\ \A i \in 0 .. n - 1 : st[i + 1] = st[i] + 1 OBVIOUS
<1>11. dg[n] = Unchecked(crcs, n) BY <1>7 DEF Unchecked, S
<1> HIDE DEF st, sz
<1> QED BY <1>9, <1>10, <1>11

-----------------------------------------------------------------------------
(* The slices.  That of the counts begins at the k-th, and the lists behind  *)
(* it are as long as the counts say.                                         *)
PlanAt(b, n, crcs, slice, k, c, st, sz, dg) ==
  /\ Steps(crcs, n, st, sz, dg)
  /\ slice = Absent => \A i \in 0 .. n - 1 : st[i + 1] = st[i] + 1
  /\ slice # Absent => Walk(b, n, c, slice[2]) /\ Adds(b, n, c, st) /\ slice[1] = c[k]

CountsKnown(b, n, crcs, slice, streams, digests, sizes) ==
  \E c, st, sz, dg :
    /\ PlanAt(b, n, crcs, slice, 0, c, st, sz, dg)
    /\ streams = st[n] /\ digests = dg[n] /\ sz[n] <= sizes

(* While a list is read for the first time                                   *)
CountsSoFar(b, k, crcs, from, streams, digests, sizes) ==
  \E c, st, sz, dg :
    /\ Walk(b, k, c, Len(b)) /\ Adds(b, k, c, st) /\ c[0] = from
    /\ Steps(crcs, k, st, sz, dg)
    /\ streams = st[k] /\ digests = dg[k] /\ sz[k] <= sizes

SizesSoFar(b, m, from) == \E e : Walk(b, m, e, Len(b)) /\ e[0] = from
SizesKnown(b, m, slice) == slice # Absent => \E e : Walk(b, m, e, slice[2]) /\ e[0] = slice[1]

LEMMA PlanKeeps ==
  ASSUME NEW b \in Seq(Nat), NEW t \in Seq(Nat), NEW n \in Nat, NEW crcs, NEW slice, NEW k,
         NEW c, NEW st, NEW sz, NEW dg, PlanAt(b, n, crcs, slice, k, c, st, sz, dg)
  PROVE  PlanAt(b \o t, n, crcs, slice, k, c, st, sz, dg)
<1>1. ASSUME slice # Absent PROVE Walk(b \o t, n, c, slice[2]) /\ Adds(b \o t, n, c, st)
  <2>1. Walk(b, n, c, slice[2]) /\ Adds(b, n, c, st) BY <1>1 DEF PlanAt
  <2> QED BY <2>1, WalkKeeps
<1> QED BY <1>1 DEF PlanAt

LEMMA CountsKeep ==
  ASSUME NEW b \in Seq(Nat), NEW t \in Seq(Nat), NEW n \in Nat, NEW crcs, NEW slice,
         NEW streams, NEW digests, NEW sizes,
         CountsKnown(b, n, crcs, slice, streams, digests, sizes)
  PROVE  CountsKnown(b \o t, n, crcs, slice, streams, digests, sizes)
<1>1. PICK c, st, sz, dg :
        /\ PlanAt(b, n, crcs, slice, 0, c, st, sz, dg)
        /\ streams = st[n] /\ digests = dg[n] /\ sz[n] <= sizes
  BY DEF CountsKnown
<1>2. PlanAt(b \o t, n, crcs, slice, 0, c, st, sz, dg) BY <1>1, PlanKeeps
<1> QED BY <1>1, <1>2 DEF CountsKnown

LEMMA SizesKeep ==
  ASSUME NEW b \in Seq(Nat), NEW t \in Seq(Nat), NEW m \in Nat, NEW slice, SizesKnown(b, m, slice)
  PROVE  SizesKnown(b \o t, m, slice)
<1>1. ASSUME slice # Absent PROVE \E e : Walk(b \o t, m, e, slice[2]) /\ e[0] = slice[1]
  <2>1. PICK e : Walk(b, m, e, slice[2]) /\ e[0] = slice[1] BY <1>1 DEF SizesKnown
  <2>2. Walk(b \o t, m, e, slice[2]) BY <2>1, WalkKeeps
  <2> QED BY <2>1, <2>2
<1> QED BY <1>1 DEF SizesKnown

(* Nothing yet                                                               *)
LEMMA WalkBegins ==
  ASSUME NEW b \in Seq(Nat)
  PROVE  LET c == [i \in 0 .. 0 |-> Len(b)] IN Walk(b, 0, c, Len(b)) /\ c[0] = Len(b)
<1>1. Len(b) \in Nat BY LenProperties
<1> DEFINE c == [i \in 0 .. 0 |-> Len(b)]
<1>2. c \in [0 .. 0 -> Nat] /\ c[0] = Len(b) BY <1>1
<1> HIDE DEF c
<1>3. Walk(b, 0, c, Len(b)) BY <1>1, <1>2 DEF Walk
<1> QED BY <1>2, <1>3 DEF c

LEMMA CountsBegun ==
  ASSUME NEW b \in Seq(Nat), NEW crcs, NEW sizes \in Nat
  PROVE  CountsSoFar(b, 0, crcs, Len(b), 0, 0, sizes)
<1> DEFINE c == [i \in 0 .. 0 |-> Len(b)]
           z == [i \in 0 .. 0 |-> 0]
<1>1. Walk(b, 0, c, Len(b)) /\ c[0] = Len(b) BY WalkBegins
<1>2. Steps(crcs, 0, z, z, z) /\ z[0] = 0 BY StepsBegin
<1>3. Adds(b, 0, c, z) BY DEF Adds
<1> HIDE DEF c, z
<1> QED BY <1>1, <1>2, <1>3 DEF CountsSoFar

LEMMA CountsGrow ==
  ASSUME NEW b \in Seq(Nat), NEW k \in Nat, NEW crcs, NEW from,
         NEW streams \in Nat, NEW digests \in Nat, NEW sizes \in Nat,
         CountsSoFar(b, k, crcs, from, streams, digests, sizes), NEW s, Encoding(s)
  PROVE  LET v == Info!ReadValue(s) IN
         CountsSoFar(b \o s, k + 1, crcs, from, streams + v, digests + DigestsOf(crcs, v, k),
                     sizes + Stored(v))
<1> DEFINE v == Info!ReadValue(s)
           to == Len(b) + Len(s)
<1>1. PICK c, st, sz, dg :
        /\ Walk(b, k, c, Len(b)) /\ Adds(b, k, c, st) /\ c[0] = from
        /\ Steps(crcs, k, st, sz, dg)
        /\ streams = st[k] /\ digests = dg[k] /\ sz[k] <= sizes
  BY DEF CountsSoFar
<1>2. /\ s \in Seq(Nat) /\ Len(s) \in Nat /\ Len(b) \in Nat /\ v \in Nat /\ Stored(v) \in Nat
      /\ Len(b \o s) = to /\ to \in Nat /\ DigestsOf(crcs, v, k) \in Nat
  <2>1. s \in Seq(Nat) /\ Len(s) \in Nat /\ v \in Nat BY EncodingFacts
  <2>2. Len(b) \in Nat /\ Len(b \o s) = Len(b) + Len(s) BY <2>1, Concat
  <2> HIDE DEF v
  <2>3. Stored(v) \in Nat /\ DigestsOf(crcs, v, k) \in Nat BY <2>1, DigestsNatural
  <2> QED BY <2>1, <2>2, <2>3
<1>3. /\ st \in [0 .. k -> Nat] /\ sz \in [0 .. k -> Nat] /\ dg \in [0 .. k -> Nat]
      /\ c \in [0 .. k -> Nat] /\ k \in 0 .. k /\ 0 \in 0 .. k
  <2>1. st \in [0 .. k -> Nat] /\ sz \in [0 .. k -> Nat] /\ dg \in [0 .. k -> Nat]
    BY ONLY <1>1 DEF Steps
  <2>2. c \in [0 .. k -> Nat] BY ONLY <1>1 DEF Walk
  <2>3. k \in 0 .. k /\ 0 \in 0 .. k OBVIOUS
  <2> QED BY ONLY <2>1, <2>2, <2>3
<1>4. /\ Walk(b \o s, k + 1, More(c, k, to), to)
      /\ Adds(b \o s, k + 1, More(c, k, to), More(st, k, st[k] + v))
  BY <1>1, <1>3, WalkGrows
<1>5. Steps(crcs, k + 1, More(st, k, st[k] + v), More(sz, k, sz[k] + Stored(v)),
            More(dg, k, dg[k] + DigestsOf(crcs, v, k)))
  BY <1>1, <1>2, StepsGrow
<1>6. st[k] \in Nat /\ sz[k] \in Nat /\ dg[k] \in Nat BY <1>3
<1>7. /\ More(c, k, to)[0] = from /\ More(st, k, st[k] + v)[k + 1] = streams + v
      /\ More(sz, k, sz[k] + Stored(v))[k + 1] = sz[k] + Stored(v)
      /\ More(dg, k, dg[k] + DigestsOf(crcs, v, k))[k + 1] = digests + DigestsOf(crcs, v, k)
  <2>1. /\ 0 \in 0 .. k + 1 /\ 0 <= k /\ k + 1 \in 0 .. k + 1 /\ ~(k + 1 <= k)
    OBVIOUS
  <2>2. streams = st[k] /\ digests = dg[k] /\ c[0] = from BY <1>1
  <2> HIDE DEF v, to
  <2>3. More(c, k, to)[0] = from /\ More(st, k, st[k] + v)[k + 1] = streams + v
    BY ONLY <2>1, <2>2 DEF More
  <2>4. /\ More(sz, k, sz[k] + Stored(v))[k + 1] = sz[k] + Stored(v)
        /\ More(dg, k, dg[k] + DigestsOf(crcs, v, k))[k + 1] = digests + DigestsOf(crcs, v, k)
    BY ONLY <2>1, <2>2 DEF More
  <2> QED BY <2>3, <2>4
<1>8. sz[k] + Stored(v) <= sizes + Stored(v) BY <1>1, <1>2, <1>6
<1> HIDE DEF v, to
<1>9. CountsSoFar(b \o s, k + 1, crcs, from, streams + v, digests + DigestsOf(crcs, v, k),
                  sizes + Stored(v))
  BY <1>2, <1>4, <1>5, <1>7, <1>8 DEF CountsSoFar
<1> QED BY <1>9 DEF v

(* A list that is through is the slice.                                      *)
LEMMA CountsEnded ==
  ASSUME NEW b \in Seq(Nat), NEW n \in Nat, NEW crcs, NEW from \in Nat,
         NEW streams, NEW digests, NEW sizes,
         CountsSoFar(b, n, crcs, from, streams, digests, sizes)
  PROVE  CountsKnown(b, n, crcs, <<from, Len(b)>>, streams, digests, sizes)
<1>1. PICK c, st, sz, dg :
        /\ Walk(b, n, c, Len(b)) /\ Adds(b, n, c, st) /\ c[0] = from
        /\ Steps(crcs, n, st, sz, dg)
        /\ streams = st[n] /\ digests = dg[n] /\ sz[n] <= sizes
  BY DEF CountsSoFar
<1>2. <<from, Len(b)>> \in Nat \X Nat BY LenProperties
<1>3. <<from, Len(b)>> # Absent BY <1>2, InfoAssumption
<1>4. PlanAt(b, n, crcs, <<from, Len(b)>>, 0, c, st, sz, dg) BY <1>1, <1>3 DEF PlanAt
<1> QED BY <1>1, <1>4 DEF CountsKnown

(* Without a list                                                            *)
LEMMA CountsAbsent ==
  ASSUME NEW b, NEW n \in Nat, NEW crcs, NEW sizes \in Nat
  PROVE  CountsKnown(b, n, crcs, Absent, n, Unchecked(crcs, n), sizes)
<1>1. PICK st, sz, dg :
        /\ Steps(crcs, n, st, sz, dg) /\ st[n] = n /\ sz[n] = 0
        /\ dg[n] = Unchecked(crcs, n)
        /\ \A i \in 0 .. n - 1 : st[i + 1] = st[i] + 1
  BY StepsOfOnes
<1>2. PlanAt(b, n, crcs, Absent, 0, 0, st, sz, dg) BY <1>1 DEF PlanAt
<1> QED BY <1>1, <1>2 DEF CountsKnown

LEMMA SizesGrow ==
  ASSUME NEW b \in Seq(Nat), NEW m \in Nat, NEW from, SizesSoFar(b, m, from),
         NEW s, Encoding(s)
  PROVE  SizesSoFar(b \o s, m + 1, from)
<1>1. PICK e : Walk(b, m, e, Len(b)) /\ e[0] = from BY DEF SizesSoFar
<1> DEFINE to == Len(b) + Len(s)
<1>2. s \in Seq(Nat) /\ Len(b \o s) = to BY EncodingFacts, Concat
<1>3. Walk(b \o s, m + 1, More(e, m, to), to) BY <1>1, WalkGrows
<1>4. More(e, m, to)[0] = from BY <1>1 DEF More
<1> QED BY <1>2, <1>3, <1>4 DEF SizesSoFar

-----------------------------------------------------------------------------
(* Bits and CRCs: the head at o, bit i behind it, and where the CRC of item j*)
(* stands if there are n items.                                              *)
BitAt(b, o, i) ==
  (b[o + (i \div ByteBits) + 1] \div 2 ^ (ByteBits - 1 - (i % ByteBits))) % 2 = 1
BitsBelow(b, o, j) == {i \in 0 .. j - 1 : BitAt(b, o, i)}
ValsAt(b, o, n, j) ==
  IF b[o + 1] # 0 THEN o + 1 + 4 * j
  ELSE o + 1 + Info!NumBytes(n) + 4 * Cardinality(BitsBelow(b, o + 1, j))
CrcsAt(b, slice, n) == slice # Absent => slice[2] = ValsAt(b, slice[1], n, n) /\ slice[2] <= Len(b)

LEMMA BytesOf ==
  ASSUME NEW n \in Nat
  PROVE  /\ Info!NumBytes(n) \in Nat
         /\ \A i \in 0 .. n - 1 : i \div ByteBits \in 0 .. Info!NumBytes(n) - 1
<1>0. ByteBits \in Nat \ {0} BY TableAssumption
<1> DEFINE q == Info!NumBytes(n)
           r == (n + ByteBits - 1) % ByteBits
<1>1. n + ByteBits - 1 = ByteBits * q + r /\ q \in Int /\ r \in 0 .. ByteBits - 1
  BY <1>0 DEF Info!NumBytes
<1> HIDE DEF q, r
<1>2. ASSUME q <= -1 PROVE FALSE
  <2>1. ByteBits * q <= -ByteBits BY <1>0, <1>1, <1>2
  <2>2. ByteBits * q \in Int BY <1>0, <1>1
  <2> QED BY <1>0, <1>1, <2>1, <2>2
<1>3. q \in Nat BY <1>1, <1>2
<1>4. ASSUME NEW i \in 0 .. n - 1 PROVE i \div ByteBits \in 0 .. q - 1
  <2> DEFINE c == i \div ByteBits
             d == i % ByteBits
  <2>1. i = ByteBits * c + d /\ c \in Int /\ d \in 0 .. ByteBits - 1 BY <1>0
  <2> HIDE DEF c, d
  <2>2. ASSUME c <= -1 PROVE FALSE
    <3>1. ByteBits * c <= -ByteBits /\ ByteBits * c \in Int BY <1>0, <2>1, <2>2
    <3> QED BY <1>0, <2>1, <3>1
  <2>3. ASSUME q <= c PROVE FALSE
    <3>1. ByteBits * q <= ByteBits * c BY <1>0, <1>1, <2>1, <2>3
    <3>2. ByteBits * q \in Int /\ ByteBits * c \in Int BY <1>0, <1>1, <2>1
    <3> QED BY <1>0, <1>1, <2>1, <3>1, <3>2
  <2>4. c \in 0 .. q - 1 BY <1>1, <2>1, <2>2, <2>3
  <2> QED BY <2>4 DEF c
<1> QED BY <1>3, <1>4 DEF q

LEMMA BitsCount ==
  ASSUME NEW b, NEW o, NEW j \in Nat
  PROVE  /\ Cardinality(BitsBelow(b, o, j)) \in Nat
         /\ Cardinality(BitsBelow(b, o, j + 1))
              = Cardinality(BitsBelow(b, o, j)) + (IF BitAt(b, o, j) THEN 1 ELSE 0)
         /\ \A i \in 0 .. j : Cardinality(BitsBelow(b, o, i)) \in Nat
                              /\ Cardinality(BitsBelow(b, o, i)) <= Cardinality(BitsBelow(b, o, j))
<1>1. \A i \in Nat : BitsBelow(b, o, i) \in SUBSET (0 .. i - 1) BY DEF BitsBelow
<1>2. Cardinality(BitsBelow(b, o, j)) \in Nat BY <1>1, BelowFinite
<1>3. Cardinality(BitsBelow(b, o, j + 1))
        = Cardinality(BitsBelow(b, o, j)) + (IF BitAt(b, o, j) THEN 1 ELSE 0)
  <2> DEFINE T == BitsBelow(b, o, j + 1)
  <2>1. T \in SUBSET (0 .. (j + 1) - 1) /\ j + 1 \in Nat BY <1>1
  <2>2. {g \in T : g < j + 1} = T
    <3>1. \A g \in T : g < j + 1 BY <2>1
    <3> QED BY <3>1
  <2>3. {g \in T : g < j} = BitsBelow(b, o, j)
    <3>1. \A g : g \in 0 .. (j + 1) - 1 /\ g < j <=> g \in 0 .. j - 1 OBVIOUS
    <3>2. \A g : g \in T <=> g \in 0 .. (j + 1) - 1 /\ BitAt(b, o, g) BY DEF BitsBelow
    <3>3. \A g : g \in BitsBelow(b, o, j) <=> g \in 0 .. j - 1 /\ BitAt(b, o, g)
      BY DEF BitsBelow
    <3> HIDE DEF T
    <3> QED BY <3>1, <3>2, <3>3
  <2>4. j \in T <=> BitAt(b, o, j)
    <3>1. j \in 0 .. (j + 1) - 1 OBVIOUS
    <3> QED BY <3>1 DEF BitsBelow
  <2> HIDE DEF T
  <2>5. Cardinality({g \in T : g < j + 1})
          = Cardinality({g \in T : g < j}) + (IF j \in T THEN 1 ELSE 0)
    BY <2>1, RankGrows
  <2> QED BY <2>2, <2>3, <2>4, <2>5 DEF T
<1>4. ASSUME NEW i \in 0 .. j
      PROVE /\ Cardinality(BitsBelow(b, o, i)) \in Nat
            /\ Cardinality(BitsBelow(b, o, i)) <= Cardinality(BitsBelow(b, o, j))
  <2>1. BitsBelow(b, o, i) \subseteq BitsBelow(b, o, j)
    <3>1. \A g \in 0 .. i - 1 : g \in 0 .. j - 1 OBVIOUS
    <3> QED BY <3>1 DEF BitsBelow
  <2>2. BitsBelow(b, o, j) \in SUBSET (0 .. j - 1) BY <1>1
  <2> QED BY <2>1, <2>2, BelowFinite
<1> QED BY <1>2, <1>3, <1>4

LEMMA ValsGrow ==
  ASSUME NEW b, NEW o \in Nat, NEW n \in Nat, NEW j \in 0 .. n
  PROVE  /\ ValsAt(b, o, n, j) \in Nat /\ o < ValsAt(b, o, n, j)
         /\ ValsAt(b, o, n, j) <= ValsAt(b, o, n, n)
         /\ ValsAt(b, o, n, j + 1)
              = IF b[o + 1] # 0 \/ BitAt(b, o + 1, j) THEN ValsAt(b, o, n, j) + 4
                ELSE ValsAt(b, o, n, j)
         /\ b[o + 1] = 0 => o + 1 + Info!NumBytes(n) <= ValsAt(b, o, n, j)
<1>1. Info!NumBytes(n) \in Nat BY BytesOf
<1>2. CASE b[o + 1] # 0 BY <1>2 DEF ValsAt
<1>3. CASE b[o + 1] = 0
  <2> DEFINE x == Cardinality(BitsBelow(b, o + 1, j))
             y == Cardinality(BitsBelow(b, o + 1, n))
             z == Cardinality(BitsBelow(b, o + 1, j + 1))
             w == Info!NumBytes(n)
  <2>1. x \in Nat /\ x <= y /\ y \in Nat BY BitsCount
  <2>2. z = x + (IF BitAt(b, o + 1, j) THEN 1 ELSE 0)
    <3>1. j \in Nat OBVIOUS
    <3> QED BY <3>1, BitsCount
  <2>3. /\ ValsAt(b, o, n, j) = o + 1 + w + 4 * x /\ ValsAt(b, o, n, n) = o + 1 + w + 4 * y
        /\ ValsAt(b, o, n, j + 1) = o + 1 + w + 4 * z
    BY <1>3 DEF ValsAt
  <2>4. w \in Nat BY <1>1
  <2> HIDE DEF x, y, z, w
  <2>5. /\ ValsAt(b, o, n, j) \in Nat /\ o < ValsAt(b, o, n, j)
        /\ ValsAt(b, o, n, j) <= ValsAt(b, o, n, n)
        /\ o + 1 + w <= ValsAt(b, o, n, j)
    BY <2>1, <2>3, <2>4
  <2>6. ValsAt(b, o, n, j + 1) = IF BitAt(b, o + 1, j) THEN ValsAt(b, o, n, j) + 4
                                 ELSE ValsAt(b, o, n, j)
    <3>1. CASE BitAt(b, o + 1, j) BY <2>1, <2>2, <2>3, <2>4, <3>1
    <3>2. CASE ~BitAt(b, o + 1, j) BY <2>1, <2>2, <2>3, <2>4, <3>2
    <3> QED BY <3>1, <3>2
  <2> QED BY <1>3, <2>5, <2>6 DEF w
<1> QED BY <1>2, <1>3

LEMMA CrcsKeep ==
  ASSUME NEW b \in Seq(Nat), NEW t \in Seq(Nat), NEW n \in Nat, NEW slice,
         slice = Absent \/ slice \in Nat \X Nat, CrcsAt(b, slice, n)
  PROVE  CrcsAt(b \o t, slice, n)
<1> SUFFICES ASSUME slice # Absent
             PROVE  slice[2] = ValsAt(b \o t, slice[1], n, n) /\ slice[2] <= Len(b \o t)
  BY DEF CrcsAt
<1> DEFINE o == slice[1]
           w == Info!NumBytes(n)
<1>1. o \in Nat /\ slice[2] \in Nat /\ slice[2] = ValsAt(b, o, n, n) /\ slice[2] <= Len(b)
  BY DEF CrcsAt
<1> HIDE DEF o
<1>2. /\ Len(b) \in Nat /\ Len(b \o t) \in Nat /\ Len(b) <= Len(b \o t)
      /\ \A i \in 1 .. Len(b) : (b \o t)[i] = b[i]
  BY Concat
<1>3. o < slice[2] /\ (b[o + 1] = 0 => o + 1 + w <= slice[2])
  <2>1. n \in 0 .. n OBVIOUS
  <2> QED BY <1>1, <2>1, ValsGrow
<1>4. (b \o t)[o + 1] = b[o + 1]
  <2>1. o + 1 \in 1 .. Len(b) BY <1>1, <1>2, <1>3
  <2> QED BY <1>2, <2>1
<1>5. CASE b[o + 1] # 0 BY <1>1, <1>2, <1>4, <1>5 DEF ValsAt, o
<1>6. CASE b[o + 1] = 0
  <2>1. w \in Nat /\ \A i \in 0 .. n - 1 : i \div ByteBits \in 0 .. w - 1 BY BytesOf
  <2>2. ASSUME NEW i \in 0 .. n - 1 PROVE BitAt(b \o t, o + 1, i) <=> BitAt(b, o + 1, i)
    <3> DEFINE q == i \div ByteBits
    <3>1. q \in 0 .. w - 1 BY <2>1
    <3> HIDE DEF q
    <3>2. o + 1 + q + 1 \in 1 .. Len(b) BY <1>1, <1>2, <1>3, <1>6, <2>1, <3>1
    <3>3. (b \o t)[o + 1 + q + 1] = b[o + 1 + q + 1] BY <1>2, <3>2
    <3> QED BY <3>3 DEF BitAt, q
  <2>3. BitsBelow(b \o t, o + 1, n) = BitsBelow(b, o + 1, n) BY <2>2 DEF BitsBelow
  <2> QED BY <1>1, <1>2, <1>4, <1>6, <2>3 DEF ValsAt, o
<1> QED BY <1>5, <1>6

LEMMA ZeroBytes == \A k \in Nat : Info!Crcs(k) \in Seq(Nat) /\ Len(Info!Crcs(k)) = 4 * k
<1> SUFFICES ASSUME NEW k \in Nat PROVE Info!Crcs(k) \in Seq(Nat) /\ Len(Info!Crcs(k)) = 4 * k
  OBVIOUS
<1> DEFINE l == 4 * k
<1>1. l \in Nat OBVIOUS
<1>2. Info!Crcs(k) = [i \in 1 .. l |-> 0] BY DEF Info!Crcs
<1> HIDE DEF l
<1>3. [i \in 1 .. l |-> 0] \in Seq(Nat) BY <1>1, SeqDef
<1>4. Len([i \in 1 .. l |-> 0]) = l BY <1>1
<1> QED BY <1>2, <1>3, <1>4 DEF l

(* What SkipBitUi32s has skipped, behind the byte of its property            *)
LEMMA CrcsWritten ==
  ASSUME NEW b \in Seq(Nat), NEW n \in Nat, NEW s \in Info!BitUi32s(n)
  PROVE  /\ s \in Seq(Nat)
         /\ CrcsAt(b \o (<<Info!CRC>> \o s), <<Len(b) + 1, Len(b) + 1 + Len(s)>>, n)
<1> DEFINE head == <<Info!CRC>>
           o == Len(b) + 1
           w == Info!NumBytes(n)
           a == b \o (head \o s)
<1>0. head \in Seq(Nat) /\ Len(head) = 1 /\ head[1] = 10 BY DEF Info!CRC
<1>1. w \in Nat /\ \A i \in 0 .. n - 1 : i \div ByteBits \in 0 .. w - 1 BY BytesOf
<1>2. ASSUME s \in Seq(Nat), Len(s) >= 1
      PROVE  /\ Len(a) = o + Len(s) /\ o \in Nat
             /\ \A i \in 1 .. Len(s) : a[o + i] = s[i]
  <2> HIDE DEF head
  <2>1. /\ head \o s \in Seq(Nat) /\ Len(head \o s) = 1 + Len(s) /\ Len(s) \in Nat
        /\ \A i \in 1 .. Len(s) : (head \o s)[1 + i] = s[i]
    <3>1. /\ head \o s \in Seq(Nat) /\ Len(head \o s) = Len(head) + Len(s) /\ Len(s) \in Nat
          /\ \A i \in 1 .. Len(s) : (head \o s)[Len(head) + i] = s[i]
      BY <1>0, <1>2, Concat
    <3> QED BY ONLY <1>0, <3>1
  <2>2. /\ Len(b) \in Nat /\ Len(a) = Len(b) + (1 + Len(s))
        /\ \A i \in 1 .. 1 + Len(s) : a[Len(b) + i] = (head \o s)[i]
    <3> DEFINE q == head \o s
    <3>1. q \in Seq(Nat) /\ Len(q) = 1 + Len(s) BY <2>1
    <3> HIDE DEF q
    <3>2. /\ Len(b) \in Nat /\ Len(b \o q) = Len(b) + Len(q)
          /\ \A i \in 1 .. Len(q) : (b \o q)[Len(b) + i] = q[i]
      BY <3>1, Concat
    <3> QED BY ONLY <3>1, <3>2 DEF q
  <2>3. ASSUME NEW i \in 1 .. Len(s) PROVE a[o + i] = s[i]
    <3>1. 1 + i \in 1 .. 1 + Len(s) /\ o + i = Len(b) + (1 + i) BY <2>1, <2>2
    <3> QED BY <2>1, <2>2, <3>1
  <2>4. Len(a) = o + Len(s) BY <2>1, <2>2
  <2> QED BY <2>2, <2>3, <2>4
<1>3. ASSUME s \in Seq(Nat), Len(s) >= 1, o + Len(s) = ValsAt(a, o, n, n)
      PROVE  CrcsAt(a, <<o, o + Len(s)>>, n)
  <2>1. Len(a) = o + Len(s) BY <1>2, <1>3
  <2>2. Len(a) <= Len(a)
    <3>1. Len(a) \in Nat BY <1>2, <1>3, LenProperties
    <3> QED BY <3>1
  <2> HIDE DEF a
  <2> QED BY <1>3, <2>1, <2>2 DEF CrcsAt
<1>4. CASE s = << 1 >> \o Info!Crcs(n)
  <2>1. << 1 >> \in Seq(Nat) /\ Len(<< 1 >>) = 1 OBVIOUS
  <2>2. Info!Crcs(n) \in Seq(Nat) /\ Len(Info!Crcs(n)) = 4 * n BY ZeroBytes
  <2>3. s \in Seq(Nat) /\ Len(s) = 1 + 4 * n /\ s[1] = 1
    <3> DEFINE h == << 1 >>
               t == Info!Crcs(n)
    <3>1. h \in Seq(Nat) /\ Len(h) = 1 /\ h[1] = 1 /\ t \in Seq(Nat) /\ Len(t) = 4 * n
      BY <2>1, <2>2
    <3> HIDE DEF h, t
    <3>2. /\ h \o t \in Seq(Nat) /\ Len(h \o t) = Len(h) + Len(t)
          /\ \A i \in 1 .. Len(h) : (h \o t)[i] = h[i]
      BY <3>1, Concat
    <3>3. (h \o t)[1] = 1 BY ONLY <3>1, <3>2
    <3> QED BY <1>4, <3>1, <3>2, <3>3 DEF h, t
  <2>4. Len(s) >= 1 /\ 1 \in 1 .. Len(s) BY <2>3
  <2>5. a[o + 1] = 1 /\ o \in Nat BY <1>2, <2>3, <2>4
  <2>6. o + Len(s) = ValsAt(a, o, n, n)
    <3> HIDE DEF a, o
    <3> QED BY <2>3, <2>5 DEF ValsAt
  <2> QED BY <1>3, <2>3, <2>4, <2>6
<1>5. ASSUME NEW q \in [1 .. w -> 0 .. 2 ^ ByteBits - 1],
             s = (<< 0 >> \o q) \o Info!Crcs(Info!CountDefinedBits(q, n))
      PROVE  s \in Seq(Nat) /\ CrcsAt(a, <<o, o + Len(s)>>, n)
  <2> DEFINE k == Info!CountDefinedBits(q, n)
  <2>1. << 0 >> \in Seq(Nat) /\ Len(<< 0 >>) = 1 OBVIOUS
  <2>2. q \in Seq(Nat) /\ Len(q) = w
    <3> DEFINE top == 2 ^ ByteBits - 1
    <3>1. q \in [1 .. w -> 0 .. top] BY <1>5
    <3> HIDE DEF top
    <3>2. 0 .. top \subseteq Nat OBVIOUS
    <3>3. q \in [1 .. w -> Nat] BY <3>1, <3>2
    <3>4. q \in Seq(Nat) BY <1>1, <3>3, SeqDef
    <3>5. Len(q) = w BY <1>1, <3>3, <3>4, LenProperties
    <3> QED BY <3>4, <3>5
  <2>3. k \in Nat
    <3>1. {i \in 0 .. n - 1 : Info!BitOf(q, i)} \in SUBSET (0 .. n - 1) OBVIOUS
    <3>2. Cardinality({i \in 0 .. n - 1 : Info!BitOf(q, i)}) \in Nat BY <3>1, BelowFinite
    <3> QED BY <3>2, InfoCounts DEF Info!CountDefinedBits
  <2>4. /\ << 0 >> \o q \in Seq(Nat) /\ Len(<< 0 >> \o q) = 1 + w /\ (<< 0 >> \o q)[1] = 0
        /\ \A i \in 1 .. w : (<< 0 >> \o q)[1 + i] = q[i]
    BY <2>1, <2>2, Concat
  <2>5. Info!Crcs(k) \in Seq(Nat) /\ Len(Info!Crcs(k)) = 4 * k BY <2>3, ZeroBytes
  <2> DEFINE front == << 0 >> \o q
             back == Info!Crcs(k)
  <2>6. /\ front \in Seq(Nat) /\ back \in Seq(Nat) /\ Len(front) = 1 + w /\ front[1] = 0
        /\ Len(back) = 4 * k /\ \A i \in 1 .. w : front[1 + i] = q[i]
    BY <2>4, <2>5
  <2>7. s = front \o back BY <1>5
  <2> HIDE DEF front, back, k
  <2>8. /\ s \in Seq(Nat) /\ Len(s) = 1 + w + 4 * k
        /\ \A i \in 1 .. 1 + w : s[i] = front[i]
    <3>1. /\ front \o back \in Seq(Nat) /\ Len(front \o back) = Len(front) + Len(back)
          /\ \A i \in 1 .. Len(front) : (front \o back)[i] = front[i]
      BY <2>6, Concat
    <3> QED BY ONLY <2>6, <2>7, <3>1
  <2>9. s[1] = 0 /\ \A i \in 1 .. w : s[1 + i] = q[i]
    <3>1. 1 \in 1 .. 1 + w /\ \A i \in 1 .. w : 1 + i \in 1 .. 1 + w BY <1>1
    <3> QED BY <2>6, <2>8, <3>1
  <2>10. Len(s) >= 1 /\ Len(s) \in Nat BY <1>1, <2>3, <2>8
  <2>11. /\ o \in Nat /\ \A i \in 1 .. Len(s) : a[o + i] = s[i] BY <1>2, <2>8, <2>10
  <2> HIDE DEF a, o
  <2>12. a[o + 1] = 0 /\ \A i \in 1 .. w : a[o + 1 + i] = q[i]
    <3>1. 1 \in 1 .. Len(s) BY <2>10
    <3>2. ASSUME NEW i \in 1 .. w PROVE a[o + 1 + i] = q[i]
      <4>1. 1 + i \in 1 .. Len(s) /\ o + (1 + i) = o + 1 + i BY <1>1, <2>3, <2>8, <2>11
      <4> QED BY <2>9, <2>11, <4>1
    <3> QED BY <2>9, <2>11, <3>1, <3>2
  <2>13. ASSUME NEW i \in 0 .. n - 1 PROVE Info!BitOf(q, i) <=> BitAt(a, o + 1, i)
    <3> DEFINE j == i \div ByteBits
    <3>1. j \in 0 .. w - 1 BY <1>1
    <3> HIDE DEF j
    <3>2. j + 1 \in 1 .. w /\ o + 1 + (j + 1) = o + 1 + j + 1 BY <1>1, <2>11, <3>1
    <3>3. a[o + 1 + j + 1] = q[j + 1] BY <2>12, <3>2
    <3> QED BY <3>3 DEF BitAt, Info!BitOf, j
  <2>14. {i \in 0 .. n - 1 : Info!BitOf(q, i)} = BitsBelow(a, o + 1, n)
    BY <2>13 DEF BitsBelow
  <2>15. k = Cardinality(BitsBelow(a, o + 1, n))
    BY <2>14, InfoCounts DEF k, Info!CountDefinedBits
  <2>16. o + Len(s) = ValsAt(a, o, n, n)
    <3>1. ValsAt(a, o, n, n) = o + 1 + w + 4 * k BY <2>12, <2>15 DEF ValsAt
    <3>2. o + (1 + w + 4 * k) = o + 1 + w + 4 * k BY <1>1, <2>3, <2>11
    <3> QED BY <2>8, <3>1, <3>2
  <2> QED BY <1>3, <2>8, <2>10, <2>16 DEF a, o
<1>6. \/ s = << 1 >> \o Info!Crcs(n)
      \/ \E q \in [1 .. w -> 0 .. 2 ^ ByteBits - 1] :
           s = (<< 0 >> \o q) \o Info!Crcs(Info!CountDefinedBits(q, n))
  BY DEF Info!BitUi32s
<1> QED BY <1>4, <1>5, <1>6

(* A bit in the bytes from offset o on                                       *)
LEMMA BitInTail ==
  ASSUME NEW b \in Seq(Nat), NEW o \in Nat, NEW n \in Nat, NEW i \in 0 .. n - 1,
         o + Info!NumBytes(n) <= Len(b)
  PROVE  Info!BitOf(SubSeq(b, o + 1, Len(b)), i) <=> BitAt(b, o, i)
<1> DEFINE w == Info!NumBytes(n)
           q == i \div ByteBits
           t == SubSeq(b, o + 1, Len(b))
<1>1. w \in Nat /\ q \in 0 .. w - 1 BY BytesOf
<1>2. Len(b) \in Nat BY LenProperties
<1>3. t[q + 1] = b[o + q + 1]
  <2> HIDE DEF q
  <2>1. o + 1 \in 1 .. Len(b) + 1 /\ Len(b) \in 0 .. Len(b) /\ o + w <= Len(b) BY <1>1, <1>2
  <2>2. \A k \in 1 .. Len(b) - (o + 1) + 1 : t[k] = b[o + 1 + k - 1]
    BY <1>2, <2>1, SubSeqProperties
  <2>3. q + 1 \in 1 .. Len(b) - (o + 1) + 1 /\ o + 1 + (q + 1) - 1 = o + q + 1
    BY <1>1, <1>2, <2>1
  <2> HIDE DEF t
  <2> QED BY <2>2, <2>3
<1> QED BY <1>3 DEF BitAt, Info!BitOf

-----------------------------------------------------------------------------
(* The invariant *)
Slices == {Absent} \cup (Nat \X Nat)
Offsets == {Absent} \cup Nat

InfoType ==
  /\ bytes \in Seq(Nat) /\ sdPos = Len(bytes)
  /\ infoAr \in [PackPositions : Seq(0 .. InfoU64 - 1), NumFolders : Nat,
                 FolderCRCs : {Absent} \cup SUBSET Nat]
  /\ ssi \in [NumTotalSubStreams : Nat, NumSubDigests : Nat,
              sdNumSubStreams : Slices, sdSizes : Slices, sdCRCs : Slices]
  /\ loc \in [dataOffset : Nat, left : Nat, streams : Nat, digests : Nat, sizes : Nat,
              folder : Nat, num : Nat, rem : Nat, entry : Nat, digestIndex : Nat,
              digestsDefs : Offsets, digestsVals : Offsets]

(* Nothing is kept yet.                                                      *)
NoLists == ssi.sdNumSubStreams = Absent /\ ssi.sdSizes = Absent /\ ssi.sdCRCs = Absent

Known(digests, sizes) ==
  CountsKnown(bytes, infoAr.NumFolders, infoAr.FolderCRCs, ssi.sdNumSubStreams,
              ssi.NumTotalSubStreams, digests, sizes)

SubPlace ==
  /\ ssi.sdSizes = Absent /\ ssi.sdCRCs = Absent
  /\ CountsKnown(bytes, infoAr.NumFolders, infoAr.FolderCRCs, ssi.sdNumSubStreams,
                 loc.streams, Info!NumSubDigests, loc.sizes)

CountPlace ==
  /\ ssi.sdSizes = Absent /\ ssi.sdCRCs = Absent /\ ssi.sdNumSubStreams # Absent
  /\ loc.folder <= infoAr.NumFolders
  /\ CountsSoFar(bytes, loc.folder, infoAr.FolderCRCs, ssi.sdNumSubStreams[1],
                 loc.streams, loc.digests, loc.sizes)

SizesPlace ==
  /\ ssi.sdCRCs = Absent /\ ssi.sdSizes # Absent /\ loc.left <= loc.sizes
  /\ Known(ssi.NumSubDigests, loc.sizes)
  /\ SizesSoFar(bytes, loc.sizes - loc.left, ssi.sdSizes[1])

(* Without ReadSubStreamsInfo nobody counts digests, and nobody needs them.  *)
ListsPlace ==
  \E m \in Nat, n \in Nat :
    /\ Known(n, m)
    /\ infoPc = "next" \/ ssi.sdCRCs # Absent => n = ssi.NumSubDigests
    /\ SizesKnown(bytes, m, ssi.sdSizes) /\ CrcsAt(bytes, ssi.sdCRCs, n)

(* The second reading, in folder k behind d of its entries: the count of the *)
(* folder is read with its first entry, the last size of a folder is not     *)
(* stored.  x stands for ssi and l for loc.                                  *)
Behind(l) == IF l.rem > 0 THEN l.num - l.rem ELSE 0
InFolder(n, l, st) ==
  /\ l.folder <= n
  /\ l.rem > 0 => l.folder < n /\ l.num = st[l.folder + 1] - st[l.folder] /\ l.rem <= l.num
  /\ l.entry = st[l.folder] + Behind(l)
CrcsRight(b, x, l, d, total) ==
  IF x.sdCRCs = Absent THEN l.digestsVals = Absent
  ELSE /\ x.NumSubDigests = total /\ CrcsAt(b, x.sdCRCs, total)
       /\ l.digestIndex = d
       /\ l.digestsVals = ValsAt(b, x.sdCRCs[1], total, d)
       /\ l.digestsDefs = IF b[x.sdCRCs[1] + 1] # 0 THEN Absent ELSE x.sdCRCs[1] + 1

Reads(b, n, crcs, x, l, c, st, sz, dg, m, e) ==
  /\ PlanAt(b, n, crcs, x.sdNumSubStreams, IF l.rem > 0 THEN l.folder + 1 ELSE l.folder,
            c, st, sz, dg)
  /\ x.NumTotalSubStreams = st[n]
  /\ InFolder(n, l, st)
  /\ m \in Nat /\ sz[n] <= m
  /\ x.sdSizes # Absent =>
       Walk(b, m, e, x.sdSizes[2]) /\ x.sdSizes[1] = e[sz[l.folder] + Behind(l)]
  /\ CrcsRight(b, x, l, dg[l.folder] + Behind(l), dg[n])

EntryPlace ==
  /\ \E c, st, sz, dg, m, e :
       Reads(bytes, infoAr.NumFolders, infoAr.FolderCRCs, ssi, loc, c, st, sz, dg, m, e)
  /\ infoPc = "done" => loc.rem = 0 /\ loc.folder = infoAr.NumFolders

CrcBounds ==
  loc.digestsVals # Absent =>
    /\ ssi.sdCRCs # Absent /\ loc.digestsVals <= ssi.sdCRCs[2]
    /\ loc.digestIndex <= ssi.NumSubDigests

InfoPlace ==
  /\ infoPc \in {"pack info", "pack size", "unpack info", "sub info", "sub", "count", "sizes",
                 "next", "entries", "entry", "done", "failed"}
  /\ infoPc \in {"pack info", "pack size", "unpack info", "sub info"} => NoLists
  /\ infoPc = "sub" => SubPlace
  /\ infoPc = "count" => CountPlace
  /\ infoPc = "sizes" => SizesPlace
  /\ infoPc \in {"next", "entries"} => ListsPlace
  /\ infoPc \in {"entry", "done"} => EntryPlace
  /\ infoPc \notin {"entry", "done", "failed"} => loc.digestsVals = Absent /\ loc.digestIndex = 0

PacksRight ==
  LET pp == infoAr.PackPositions IN
  /\ \A i \in 2 .. Len(pp) : pp[i - 1] <= pp[i]
  /\ infoPc = "pack info" => pp = << >>
  /\ infoPc = "pack size" => pp # << >> /\ loc.dataOffset <= RangeLimit
  /\ pp # << >> /\ infoPc \notin {"pack size", "failed"} =>
       loc.dataOffset + pp[Len(pp)] <= RangeLimit

InfoInv == InfoType /\ InfoPlace /\ PacksRight /\ CrcBounds

LEMMA InfoShapes ==
  ASSUME InfoType
  PROVE  /\ infoAr = [PackPositions |-> infoAr.PackPositions, NumFolders |-> infoAr.NumFolders,
                      FolderCRCs |-> infoAr.FolderCRCs]
         /\ ssi = [NumTotalSubStreams |-> ssi.NumTotalSubStreams,
                   NumSubDigests |-> ssi.NumSubDigests,
                   sdNumSubStreams |-> ssi.sdNumSubStreams, sdSizes |-> ssi.sdSizes,
                   sdCRCs |-> ssi.sdCRCs]
         /\ loc = [dataOffset |-> loc.dataOffset, left |-> loc.left, streams |-> loc.streams,
                   digests |-> loc.digests, sizes |-> loc.sizes, folder |-> loc.folder,
                   num |-> loc.num, rem |-> loc.rem, entry |-> loc.entry,
                   digestIndex |-> loc.digestIndex, digestsDefs |-> loc.digestsDefs,
                   digestsVals |-> loc.digestsVals]
BY DEF InfoType

LEMMA InfoTypes ==
  ASSUME InfoType
  PROVE  /\ {loc.dataOffset, loc.left, loc.streams, loc.digests, loc.sizes, loc.folder,
             loc.num, loc.rem, loc.entry, loc.digestIndex} \subseteq Nat
         /\ loc.digestsDefs \in Offsets /\ loc.digestsVals \in Offsets
         /\ ssi.NumTotalSubStreams \in Nat /\ ssi.NumSubDigests \in Nat
         /\ ssi.sdNumSubStreams \in Slices /\ ssi.sdSizes \in Slices /\ ssi.sdCRCs \in Slices
         /\ infoAr.NumFolders \in Nat /\ infoAr.PackPositions \in Seq(0 .. InfoU64 - 1)
         /\ infoAr.FolderCRCs \in {Absent} \cup SUBSET Nat
         /\ bytes \in Seq(Nat) /\ Len(bytes) \in Nat /\ sdPos = Len(bytes)
BY LenProperties DEF InfoType

(* A record of the right shape with the right values is of the type.         *)
LEMMA SsiTyped ==
  ASSUME NEW a \in Nat, NEW d \in Nat, NEW u \in Slices, NEW v \in Slices, NEW w \in Slices
  PROVE  [NumTotalSubStreams |-> a, NumSubDigests |-> d, sdNumSubStreams |-> u, sdSizes |-> v,
          sdCRCs |-> w]
           \in [NumTotalSubStreams : Nat, NumSubDigests : Nat,
                sdNumSubStreams : Slices, sdSizes : Slices, sdCRCs : Slices]
OBVIOUS

LEMMA InfoBegins == Info!Init => InfoInv
<1> SUFFICES ASSUME Info!Init PROVE InfoInv
  OBVIOUS
<1>1. /\ bytes = << >> /\ sdPos = 0 /\ infoPc = "pack info"
      /\ infoAr = [PackPositions |-> << >>, NumFolders |-> 0, FolderCRCs |-> Absent]
      /\ ssi = [NumTotalSubStreams |-> 0, NumSubDigests |-> 0,
                sdNumSubStreams |-> Absent, sdSizes |-> Absent, sdCRCs |-> Absent]
      /\ loc = [dataOffset |-> 0, left |-> 0, streams |-> 0, digests |-> 0, sizes |-> 0,
                folder |-> 0, num |-> 0, rem |-> 0, entry |-> 0,
                digestIndex |-> 0, digestsDefs |-> Absent, digestsVals |-> Absent]
  BY DEF Info!Init
<1>2. InfoType
  <2>0. << >> \in Seq(Nat) /\ Len(<< >>) = 0 OBVIOUS
  <2>1. bytes \in Seq(Nat) /\ sdPos = Len(bytes) BY ONLY <1>1, <2>0
  <2>2. << >> \in Seq(0 .. InfoU64 - 1) OBVIOUS
  <2>3. Absent \in Slices /\ Absent \in Offsets BY DEF Slices, Offsets
  <2> QED BY <1>1, <2>1, <2>2, <2>3 DEF InfoType
<1>3. NoLists /\ loc.digestsVals = Absent /\ loc.digestIndex = 0 BY <1>1 DEF NoLists
<1>4. InfoPlace /\ CrcBounds BY <1>1, <1>3 DEF InfoPlace, CrcBounds
<1>5. PacksRight
  <2>1. infoAr.PackPositions = << >> /\ infoPc = "pack info" BY <1>1
  <2>2. Len(infoAr.PackPositions) = 0 /\ \A i : i \notin 2 .. 0
    <3>1. Len(<< >>) = 0 /\ \A i : i \notin 2 .. 0 OBVIOUS
    <3> QED BY ONLY <2>1, <3>1
  <2> QED BY ONLY <2>1, <2>2 DEF PacksRight
<1> QED BY <1>2, <1>4, <1>5 DEF InfoInv

-----------------------------------------------------------------------------
(* The packed streams                                                        *)

(* A step that leaves them alone                                             *)
LEMMA PacksStay ==
  ASSUME InfoInv, infoAr'.PackPositions = infoAr.PackPositions,
         loc'.dataOffset = loc.dataOffset, infoPc \notin {"pack size", "failed"},
         infoPc' \notin {"pack info", "pack size"}
  PROVE  PacksRight'
BY DEF InfoInv, PacksRight

LEMMA InfoFails ==
  ASSUME InfoInv, infoPc' = "failed", UNCHANGED <<bytes, sdPos, infoAr, ssi, loc>>
  PROVE  InfoInv'
<1>1. InfoType' /\ CrcBounds' BY DEF InfoInv, InfoType, CrcBounds
<1>2. InfoPlace' BY DEF InfoPlace
<1>3. PacksRight' BY DEF InfoInv, PacksRight
<1> QED BY <1>1, <1>2, <1>3 DEF InfoInv

LEMMA EndOfDataKeeps == ASSUME InfoInv, Info!EndOfData PROVE InfoInv'
BY InfoFails DEF Info!EndOfData

LEMMA SkipPartKeeps == ASSUME InfoInv, Info!SkipPart PROVE InfoInv'
<1>1. /\ UNCHANGED <<bytes, sdPos, infoAr, ssi, loc>>
      /\ \/ infoPc = "pack info" /\ infoPc' = "unpack info"
         \/ infoPc = "unpack info" /\ infoPc' = "sub info"
  BY DEF Info!SkipPart, Info!To
<1>2. InfoType' /\ CrcBounds' BY <1>1 DEF InfoInv, InfoType, CrcBounds
<1>3. InfoPlace' BY <1>1 DEF InfoInv, InfoPlace, NoLists
<1>4. PacksRight' BY <1>1, PacksStay
<1> QED BY <1>2, <1>3, <1>4 DEF InfoInv

LEMMA ReadPackInfoKeeps == ASSUME InfoInv, Info!ReadPackInfo PROVE InfoInv'
<1>1. PICK offset \in PackSizes, n \in 0 .. NumPacksMax :
        /\ offset <= RangeLimit
        /\ loc' = [loc EXCEPT !.dataOffset = offset, !.left = n]
  BY DEF Info!ReadPackInfo
<1>2. /\ infoPc = "pack info" /\ infoPc' = "pack size" /\ UNCHANGED <<bytes, sdPos, ssi>>
      /\ infoAr' = [infoAr EXCEPT !.PackPositions = << 0 >>]
  BY DEF Info!ReadPackInfo, Info!To
<1>3. offset \in Nat /\ n \in Nat BY InfoAssumption
<1>4. infoAr' = [PackPositions |-> << 0 >>, NumFolders |-> infoAr.NumFolders,
                 FolderCRCs |-> infoAr.FolderCRCs]
  BY <1>2, InfoShapes DEF InfoInv
<1>5. loc' = [dataOffset |-> offset, left |-> n, streams |-> loc.streams,
              digests |-> loc.digests, sizes |-> loc.sizes, folder |-> loc.folder,
              num |-> loc.num, rem |-> loc.rem, entry |-> loc.entry,
              digestIndex |-> loc.digestIndex, digestsDefs |-> loc.digestsDefs,
              digestsVals |-> loc.digestsVals]
  BY <1>1, InfoShapes DEF InfoInv
<1>6. InfoType'
  <2> DEFINE T == 0 .. InfoU64 - 1
  <2>1. 0 \in T BY InfoAssumption
  <2> HIDE DEF T
  <2>2. << 0 >> \in Seq(T) BY <2>1
  <2> USE DEF T
  <2> QED BY <1>2, <1>3, <1>4, <1>5, <2>2, InfoTypes DEF InfoInv, InfoType
<1>7. InfoPlace' /\ CrcBounds'
  <2>1. loc'.digestsVals = Absent /\ loc'.digestIndex = 0 /\ NoLists'
    BY <1>2, <1>5 DEF InfoInv, InfoPlace, NoLists
  <2> QED BY <1>2, <2>1 DEF InfoPlace, CrcBounds
<1>8. PacksRight'
  <2>1. infoAr'.PackPositions = << 0 >> /\ loc'.dataOffset = offset BY <1>4, <1>5
  <2>2. << 0 >> # << >> /\ Len(<< 0 >>) = 1 /\ \A i : i \notin 2 .. 1 OBVIOUS
  <2>3. offset <= RangeLimit /\ infoPc' = "pack size" BY <1>1, <1>2
  <2> QED BY ONLY <2>1, <2>2, <2>3 DEF PacksRight
<1> QED BY <1>6, <1>7, <1>8 DEF InfoInv

LEMMA ReadPackSizeKeeps == ASSUME InfoInv, Info!ReadPackSize PROVE InfoInv'
<1> DEFINE pp == infoAr.PackPositions
<1>1. PICK size \in PackSizes :
        LET sum == (Info!PackSum + size) % InfoU64
        IN IF sum < size
           THEN infoPc' = "failed" /\ UNCHANGED <<infoAr, loc>>
           ELSE /\ infoAr' = [infoAr EXCEPT !.PackPositions = Append(@, sum)]
                /\ loc' = [loc EXCEPT !.left = @ - 1]
                /\ UNCHANGED infoPc
  BY DEF Info!ReadPackSize
<1>2. /\ infoPc = "pack size" /\ loc.left > 0 /\ UNCHANGED <<bytes, sdPos, ssi>>
  BY DEF Info!ReadPackSize
<1> DEFINE sum == (Info!PackSum + size) % InfoU64
<1>3. CASE sum < size
  <2>1. infoPc' = "failed" /\ UNCHANGED <<bytes, sdPos, infoAr, ssi, loc>> BY <1>1, <1>2, <1>3
  <2> QED BY <2>1, InfoFails
<1>4. CASE ~(sum < size)
  <2>1. /\ infoAr' = [infoAr EXCEPT !.PackPositions = Append(pp, sum)]
        /\ loc' = [loc EXCEPT !.left = loc.left - 1]
        /\ infoPc' = "pack size"
    BY <1>1, <1>2, <1>4
  <2>2. /\ infoAr' = [PackPositions |-> Append(pp, sum), NumFolders |-> infoAr.NumFolders,
                      FolderCRCs |-> infoAr.FolderCRCs]
    BY <2>1, InfoShapes DEF InfoInv
  <2>3. loc' = [dataOffset |-> loc.dataOffset, left |-> loc.left - 1, streams |-> loc.streams,
              digests |-> loc.digests, sizes |-> loc.sizes, folder |-> loc.folder,
              num |-> loc.num, rem |-> loc.rem, entry |-> loc.entry,
              digestIndex |-> loc.digestIndex, digestsDefs |-> loc.digestsDefs,
              digestsVals |-> loc.digestsVals]
    BY <2>1, InfoShapes DEF InfoInv
  <2> DEFINE T == 0 .. InfoU64 - 1
  <2>4. /\ pp \in Seq(T) /\ pp # << >> /\ loc.dataOffset <= RangeLimit
        /\ \A i \in 2 .. Len(pp) : pp[i - 1] <= pp[i]
    BY <1>2 DEF InfoInv, PacksRight, InfoType
  <2>5. Len(pp) \in Nat \ {0} /\ pp[Len(pp)] \in T
    <3> HIDE DEF T, pp
    <3>1. Len(pp) \in Nat \ {0} BY <2>4, LenProperties, EmptySeq
    <3>2. Len(pp) \in 1 .. Len(pp) BY <3>1
    <3> QED BY <2>4, <3>1, <3>2, ElementOfSeq
  <2>6. Info!PackSum = pp[Len(pp)] BY DEF Info!PackSum, Info!Last
  <2>7. sum \in T /\ pp[Len(pp)] <= sum
    <3> DEFINE l == pp[Len(pp)]
               x == (l + size) % InfoU64
    <3>1. l \in T /\ size \in T /\ InfoU64 \in Nat \ {0} BY <2>5, InfoAssumption
    <3>2. sum = x /\ ~(x < size) BY <1>4, <2>6
    <3> HIDE DEF l, sum
    <3>3. x \in T BY <3>1
    <3>4. CASE l + size < InfoU64
      <4>1. x = l + size BY <3>1, <3>4
      <4>2. x \in T /\ l <= x BY <3>1, <3>3, <4>1
      <4> HIDE DEF T, x
      <4> QED BY ONLY <3>2, <4>2 DEF l
    <3>5. CASE ~(l + size < InfoU64)
      <4>1. x = l + size - InfoU64 BY <3>1, <3>5
      <4>2. x < size BY <3>1, <4>1
      <4> QED BY <3>2, <4>2
    <3> QED BY <3>4, <3>5
  <2> HIDE DEF T
  <2>8. /\ Append(pp, sum) \in Seq(T) /\ Append(pp, sum) # << >>
        /\ Len(Append(pp, sum)) = Len(pp) + 1
        /\ \A i \in 1 .. Len(pp) : Append(pp, sum)[i] = pp[i]
        /\ Append(pp, sum)[Len(pp) + 1] = sum
    <3> HIDE DEF pp, sum
    <3> QED BY <2>4, <2>7, AppendProperties
  <2>9. loc.left - 1 \in Nat
    <3>1. loc.left \in Nat BY InfoTypes DEF InfoInv
    <3>2. loc.left > 0 BY <1>2
    <3> QED BY ONLY <3>1, <3>2
  <2>10. InfoType'
    BY <1>2, <2>2, <2>3, <2>8, <2>9, InfoTypes DEF InfoInv, InfoType, T
  <2>11. InfoPlace' /\ CrcBounds'
    <3>1. infoPc' = "pack size" /\ loc'.digestsVals = Absent /\ loc'.digestIndex = 0
      BY <1>2, <2>1, <2>3 DEF InfoInv, InfoPlace
    <3>2. NoLists' BY <1>2 DEF InfoInv, InfoPlace, NoLists
    <3> QED BY <3>1, <3>2 DEF InfoPlace, CrcBounds
  <2>12. PacksRight'
    <3> DEFINE qq == Append(pp, sum)
    <3>1. infoAr'.PackPositions = qq /\ loc'.dataOffset = loc.dataOffset BY <2>2, <2>3
    <3>2. ASSUME NEW i \in 2 .. Len(qq) PROVE qq[i - 1] <= qq[i]
      <4>1. i - 1 \in 1 .. Len(pp) /\ (i \in 2 .. Len(pp) \/ i = Len(pp) + 1)
        BY <2>5, <2>8
      <4>2. CASE i = Len(pp) + 1
        <5>1. i - 1 = Len(pp) BY <2>5, <4>2
        <5>2. qq[i - 1] = pp[Len(pp)] BY <2>8, <4>1, <5>1
        <5>3. qq[i] = sum BY <2>8, <4>2
        <5> QED BY <2>7, <5>2, <5>3
      <4>3. CASE i # Len(pp) + 1
        <5>1. i \in 2 .. Len(pp) /\ i \in 1 .. Len(pp) BY <4>1, <4>3
        <5>2. qq[i - 1] = pp[i - 1] /\ qq[i] = pp[i] BY <2>8, <4>1, <5>1
        <5> QED BY <2>4, <5>1, <5>2
      <4> QED BY <4>2, <4>3
    <3>3. qq # << >> BY <2>8
    <3> HIDE DEF qq
    <3> QED BY <2>1, <2>4, <3>1, <3>2, <3>3 DEF PacksRight
  <2> QED BY <2>10, <2>11, <2>12 DEF InfoInv
<1> QED BY <1>3, <1>4

LEMMA PackInfoEndKeeps == ASSUME InfoInv, Info!PackInfoEnd PROVE InfoInv'
<1>1. /\ infoPc = "pack size" /\ UNCHANGED <<bytes, sdPos, infoAr, ssi, loc>>
      /\ infoPc' = IF Info!PacksFit THEN "unpack info" ELSE "failed"
  BY DEF Info!PackInfoEnd, Info!To
<1>2. CASE ~Info!PacksFit BY <1>1, <1>2, InfoFails
<1>3. CASE Info!PacksFit
  <2> DEFINE pp == infoAr.PackPositions
  <2>1. infoPc' = "unpack info" BY <1>1, <1>3
  <2>2. InfoType' /\ CrcBounds' BY <1>1 DEF InfoInv, InfoType, CrcBounds
  <2>3. NoLists /\ loc.digestsVals = Absent /\ loc.digestIndex = 0 BY <1>1 DEF InfoInv, InfoPlace
  <2>4. NoLists' /\ loc'.digestsVals = Absent /\ loc'.digestIndex = 0 BY <1>1, <2>3 DEF NoLists
  <2>5. InfoPlace' BY <2>1, <2>4 DEF InfoPlace
  <2>6. pp # << >> /\ \A i \in 2 .. Len(pp) : pp[i - 1] <= pp[i]
    BY <1>1 DEF InfoInv, PacksRight
  <2>7. pp[Len(pp)] <= RangeLimit - loc.dataOffset
    BY <1>3 DEF Info!PacksFit, Info!PackSum, Info!Last
  <2>8. loc.dataOffset \in Nat /\ RangeLimit \in Nat /\ pp[Len(pp)] \in Nat
    <3> DEFINE T == 0 .. InfoU64 - 1
    <3>1. pp \in Seq(T) BY DEF InfoInv, InfoType
    <3> HIDE DEF T, pp
    <3>2. Len(pp) \in 1 .. Len(pp) BY <2>6, <3>1, LenProperties, EmptySeq
    <3>3. pp[Len(pp)] \in T BY <3>1, <3>2, ElementOfSeq
    <3>4. pp[Len(pp)] \in Nat BY <3>3, InfoAssumption DEF T
    <3> QED BY <3>4, InfoTypes, InfoAssumption DEF InfoInv
  <2>9. loc.dataOffset + pp[Len(pp)] <= RangeLimit
    <3> HIDE DEF pp
    <3> QED BY <2>7, <2>8
  <2>10. infoAr' = infoAr /\ loc' = loc BY <1>1
  <2>11. PacksRight' BY <2>1, <2>6, <2>9, <2>10 DEF PacksRight
  <2> QED BY <2>2, <2>5, <2>11 DEF InfoInv
<1> QED BY <1>2, <1>3

LEMMA ReadUnpackInfoKeeps == ASSUME InfoInv, Info!ReadUnpackInfo PROVE InfoInv'
<1>1. PICK n \in 0 .. NumFoldersMax : \E defs \in {Absent} \cup SUBSET (0 .. n - 1) :
        infoAr' = [infoAr EXCEPT !.NumFolders = n, !.FolderCRCs = defs]
  BY DEF Info!ReadUnpackInfo
<1>2. PICK defs \in {Absent} \cup SUBSET (0 .. n - 1) :
        infoAr' = [infoAr EXCEPT !.NumFolders = n, !.FolderCRCs = defs]
  BY <1>1
<1>3. /\ infoPc = "unpack info" /\ infoPc' = "sub info" /\ UNCHANGED <<bytes, sdPos, ssi, loc>>
  BY DEF Info!ReadUnpackInfo, Info!To
<1>4. infoAr' = [PackPositions |-> infoAr.PackPositions, NumFolders |-> n, FolderCRCs |-> defs]
  BY <1>2, InfoShapes DEF InfoInv
<1>5. n \in Nat /\ defs \in {Absent} \cup SUBSET Nat
  <2>1. 0 .. n - 1 \subseteq Nat OBVIOUS
  <2> QED BY <2>1, InfoAssumption
<1>6. InfoType' BY <1>3, <1>4, <1>5 DEF InfoInv, InfoType
<1>7. InfoPlace' /\ CrcBounds'
  BY <1>3 DEF InfoInv, InfoPlace, CrcBounds, NoLists
<1>8. PacksRight'
  <2>1. infoAr'.PackPositions = infoAr.PackPositions /\ loc' = loc BY <1>3, <1>4
  <2> QED BY <1>3, <2>1, PacksStay
<1> QED BY <1>6, <1>7, <1>8 DEF InfoInv

LEMMA InfoCrcs ==
  InfoType =>
    Unchecked(infoAr.FolderCRCs, infoAr.NumFolders) \in Nat
<1> SUFFICES ASSUME InfoType
             PROVE  Unchecked(infoAr.FolderCRCs, infoAr.NumFolders) \in Nat
  OBVIOUS
<1> DEFINE S == {f \in 0 .. infoAr.NumFolders - 1 : ~HasOwn(infoAr.FolderCRCs, f)}
<1>1. S \in SUBSET (0 .. infoAr.NumFolders - 1) OBVIOUS
<1>2. infoAr.NumFolders \in Nat BY InfoTypes
<1> HIDE DEF S
<1>3. Cardinality(S) \in Nat BY <1>1, <1>2, BelowFinite
<1> QED BY <1>3 DEF S, Unchecked

LEMMA NoSubStreamsInfoKeeps == ASSUME InfoInv, Info!NoSubStreamsInfo PROVE InfoInv'
<1> DEFINE N == infoAr.NumFolders
           n == Unchecked(infoAr.FolderCRCs, N)
<1>1. /\ infoPc = "sub info" /\ infoPc' = "entries" /\ UNCHANGED <<bytes, sdPos, infoAr, loc>>
      /\ ssi' = [ssi EXCEPT !.NumTotalSubStreams = N]
  BY DEF Info!NoSubStreamsInfo, Info!To
<1>2. NoLists /\ loc.digestsVals = Absent /\ loc.digestIndex = 0 BY <1>1 DEF InfoInv, InfoPlace
<1>3. ssi' = [NumTotalSubStreams |-> N, NumSubDigests |-> ssi.NumSubDigests,
              sdNumSubStreams |-> Absent, sdSizes |-> Absent, sdCRCs |-> Absent]
  BY <1>1, <1>2, InfoShapes DEF InfoInv, NoLists
<1>4. N \in Nat /\ ssi.NumSubDigests \in Nat BY InfoTypes DEF InfoInv
<1>5. InfoType'
  <2>1. Absent \in Slices BY DEF Slices
  <2>2. ssi' \in [NumTotalSubStreams : Nat, NumSubDigests : Nat,
                  sdNumSubStreams : Slices, sdSizes : Slices, sdCRCs : Slices]
    BY <1>3, <1>4, <2>1, SsiTyped
  <2> QED BY <1>1, <2>2 DEF InfoInv, InfoType
<1>6. ListsPlace'
  <2>1. CountsKnown(bytes, N, infoAr.FolderCRCs, Absent, N, n, 0)
    BY <1>4, CountsAbsent
  <2>2. n \in Nat BY InfoCrcs DEF InfoInv
  <2> HIDE DEF n
  <2>3. CountsKnown(bytes', infoAr'.NumFolders, infoAr'.FolderCRCs, ssi'.sdNumSubStreams,
                    ssi'.NumTotalSubStreams, n, 0)
    <3>1. bytes' = bytes /\ infoAr' = infoAr BY <1>1
    <3>2. ssi'.sdNumSubStreams = Absent /\ ssi'.NumTotalSubStreams = N BY <1>3
    <3> QED BY ONLY <2>1, <3>1, <3>2
  <2>4. SizesKnown(bytes', 0, ssi'.sdSizes) /\ CrcsAt(bytes', ssi'.sdCRCs, n)
    BY <1>3 DEF SizesKnown, CrcsAt
  <2>5. ssi'.sdCRCs = Absent /\ infoPc' # "next"
    <3>1. ssi'.sdCRCs = Absent BY <1>3
    <3>2. infoPc' # "next" BY <1>1
    <3> QED BY <3>1, <3>2
  <2>6. n \in Nat /\ 0 \in Nat BY <2>2
  <2> QED BY <2>3, <2>4, <2>5, <2>6 DEF ListsPlace, Known
<1>7. InfoPlace' /\ CrcBounds' BY <1>1, <1>2, <1>6 DEF InfoPlace, CrcBounds
<1>8. PacksRight' BY <1>1, PacksStay
<1> QED BY <1>5, <1>7, <1>8 DEF InfoInv

-----------------------------------------------------------------------------
(* ReadSubStreamsInfo *)

LEMMA DigestsCounted ==
  Info!NumSubDigests =
    IF ssi.sdNumSubStreams # Absent THEN loc.digests
    ELSE Unchecked(infoAr.FolderCRCs, infoAr.NumFolders)
BY InfoCounts DEF Info!NumSubDigests, Info!HasCrc, HasOwn, Unchecked

LEMMA DigestsNumbered == InfoType => Info!NumSubDigests \in Nat
BY DigestsCounted, InfoCrcs, InfoTypes

(* Bytes that are read                                                       *)
LEMMA BytesRead ==
  ASSUME InfoType, NEW t \in Seq(Nat), Info!Read(t, Len(t))
  PROVE  /\ bytes' = bytes \o t /\ bytes' \in Seq(Nat) /\ sdPos' = Len(bytes')
         /\ Len(bytes') = Len(bytes) + Len(t) /\ Len(bytes') \in Nat /\ sdPos \in Nat
<1>1. bytes' = bytes \o t /\ sdPos' = sdPos + Len(t) BY DEF Info!Read
<1>2. bytes \in Seq(Nat) /\ sdPos = Len(bytes) BY InfoTypes
<1>3. /\ bytes \o t \in Seq(Nat) /\ Len(bytes) \in Nat /\ Len(t) \in Nat
      /\ Len(bytes \o t) = Len(bytes) + Len(t)
  BY <1>2, Concat
<1> QED BY <1>1, <1>2, <1>3

LEMMA IdRead ==
  ASSUME InfoType, NEW id \in Nat, Info!ReadId(id)
  PROVE  /\ <<id>> \in Seq(Nat)
         /\ bytes' = bytes \o <<id>> /\ bytes' \in Seq(Nat) /\ sdPos' = Len(bytes')
         /\ Len(bytes') \in Nat
<1>1. <<id>> \in Seq(Nat) /\ Len(<<id>>) = 1 OBVIOUS
<1>2. Info!Read(<<id>>, Len(<<id>>)) BY <1>1 DEF Info!ReadId
<1> QED BY <1>1, <1>2, BytesRead

LEMMA PairOfNat ==
  \A i, j \in Nat : <<i, j>> \in Slices /\ <<i, j>> # Absent /\ <<i, j>>[1] = i /\ <<i, j>>[2] = j
<1> SUFFICES ASSUME NEW i \in Nat, NEW j \in Nat
             PROVE  /\ <<i, j>> \in Slices /\ <<i, j>> # Absent
                    /\ <<i, j>>[1] = i /\ <<i, j>>[2] = j
  OBVIOUS
<1>1. <<i, j>> \in Nat \X Nat OBVIOUS
<1>2. <<i, j>> # Absent BY <1>1, InfoAssumption
<1> QED BY <1>1, <1>2 DEF Slices

(* A record of the right shape with the right values is of the type.         *)
LEMMA LocTyped ==
  ASSUME NEW a \in Nat, NEW b \in Nat, NEW c \in Nat, NEW d \in Nat, NEW e \in Nat, NEW f \in Nat,
         NEW g \in Nat, NEW h \in Nat, NEW i \in Nat, NEW j \in Nat, NEW k \in Offsets,
         NEW l \in Offsets
  PROVE  [dataOffset |-> a, left |-> b, streams |-> c, digests |-> d, sizes |-> e, folder |-> f,
          num |-> g, rem |-> h, entry |-> i, digestIndex |-> j, digestsDefs |-> k,
          digestsVals |-> l]
           \in [dataOffset : Nat, left : Nat, streams : Nat, digests : Nat, sizes : Nat,
                folder : Nat, num : Nat, rem : Nat, entry : Nat, digestIndex : Nat,
                digestsDefs : Offsets, digestsVals : Offsets]
OBVIOUS

(* What a step up to the second reading leaves as it is                      *)
LEMMA FirstReading ==
  ASSUME InfoInv, infoAr' = infoAr, loc'.dataOffset = loc.dataOffset,
         infoPc \in {"sub info", "sub", "count", "sizes", "next", "entries"},
         loc'.digestsVals = Absent /\ loc'.digestIndex = 0,
         infoPc' \in {"sub info", "sub", "count", "sizes", "next", "entries"}
  PROVE  PacksRight' /\ CrcBounds'
<1>1. PacksRight' BY PacksStay
<1>2. CrcBounds' BY DEF CrcBounds
<1> QED BY <1>1, <1>2

LEMMA SubStreamsBeginKeeps == ASSUME InfoInv, Info!SubStreamsBegin PROVE InfoInv'
<1> DEFINE N == infoAr.NumFolders
           crcs == infoAr.FolderCRCs
<1>1. /\ infoPc = "sub info" /\ infoPc' = "sub" /\ UNCHANGED <<bytes, sdPos, infoAr, ssi>>
      /\ loc' = [loc EXCEPT !.streams = N, !.digests = 0, !.sizes = 0]
  BY DEF Info!SubStreamsBegin, Info!To
<1>2. NoLists /\ loc.digestsVals = Absent /\ loc.digestIndex = 0 BY <1>1 DEF InfoInv, InfoPlace
<1>3. loc' = [dataOffset |-> loc.dataOffset, left |-> loc.left, streams |-> N,
              digests |-> 0, sizes |-> 0, folder |-> loc.folder,
              num |-> loc.num, rem |-> loc.rem, entry |-> loc.entry,
              digestIndex |-> loc.digestIndex, digestsDefs |-> loc.digestsDefs,
              digestsVals |-> loc.digestsVals]
  BY <1>1, InfoShapes DEF InfoInv
<1>4. N \in Nat BY InfoTypes DEF InfoInv
<1>5. InfoType'
  <2>1. loc' \in [dataOffset : Nat, left : Nat, streams : Nat, digests : Nat, sizes : Nat,
                  folder : Nat, num : Nat, rem : Nat, entry : Nat, digestIndex : Nat,
                  digestsDefs : Offsets, digestsVals : Offsets]
    BY <1>3, <1>4, InfoTypes, LocTyped DEF InfoInv
  <2> QED BY <1>1, <2>1 DEF InfoInv, InfoType
<1>6. SubPlace'
  <2> DEFINE D == Unchecked(crcs, N)
  <2>1. CountsKnown(bytes, N, crcs, Absent, N, D, 0) BY <1>4, CountsAbsent
  <2>2. (Info!NumSubDigests =
           IF ssi.sdNumSubStreams # Absent THEN loc.digests
           ELSE Unchecked(infoAr.FolderCRCs, infoAr.NumFolders))'
    BY DigestsCounted, PTL
  <2>3. /\ ssi'.sdNumSubStreams = Absent /\ ssi'.sdSizes = Absent /\ ssi'.sdCRCs = Absent
        /\ loc'.streams = N /\ loc'.sizes = 0
    BY <1>1, <1>2, <1>3 DEF NoLists
  <2>4. Info!NumSubDigests' = D BY <1>1, <2>2, <2>3
  <2> HIDE DEF D
  <2> QED BY <1>1, <2>1, <2>3, <2>4 DEF SubPlace
<1>7. InfoPlace' BY <1>1, <1>2, <1>3, <1>6 DEF InfoPlace
<1> QED BY <1>1, <1>2, <1>3, <1>5, <1>7, FirstReading DEF InfoInv

LEMMA CountsBeginKeeps == ASSUME InfoInv, Info!CountsBegin PROVE InfoInv'
<1>1. /\ infoPc = "sub" /\ infoPc' = "count" /\ infoAr' = infoAr
      /\ Info!ReadId(13)
      /\ ssi' = [ssi EXCEPT !.sdNumSubStreams = <<sdPos', sdPos'>>]
      /\ loc' = [loc EXCEPT !.streams = 0, !.digests = 0, !.folder = 0]
  BY DEF Info!CountsBegin, Info!To, Info!NumUnpackStream
<1>2. bytes' \in Seq(Nat) /\ sdPos' = Len(bytes') /\ Len(bytes') \in Nat
  BY <1>1, IdRead DEF InfoInv
<1>3. ssi.sdSizes = Absent /\ ssi.sdCRCs = Absent /\ loc.digestsVals = Absent /\ loc.digestIndex = 0
  BY <1>1 DEF InfoInv, InfoPlace, SubPlace
<1>4. ssi' = [NumTotalSubStreams |-> ssi.NumTotalSubStreams,
              NumSubDigests |-> ssi.NumSubDigests, sdNumSubStreams |-> <<sdPos', sdPos'>>,
              sdSizes |-> ssi.sdSizes, sdCRCs |-> ssi.sdCRCs]
  BY <1>1, InfoShapes DEF InfoInv
<1>5. loc' = [dataOffset |-> loc.dataOffset, left |-> loc.left, streams |-> 0,
              digests |-> 0, sizes |-> loc.sizes, folder |-> 0,
              num |-> loc.num, rem |-> loc.rem, entry |-> loc.entry,
              digestIndex |-> loc.digestIndex, digestsDefs |-> loc.digestsDefs,
              digestsVals |-> loc.digestsVals]
  BY <1>1, InfoShapes DEF InfoInv
<1>6. <<sdPos', sdPos'>> \in Slices /\ <<sdPos', sdPos'>> # Absent /\ <<sdPos', sdPos'>>[1] = sdPos'
  BY <1>2, PairOfNat
<1>7. InfoType'
  <2>1. loc' \in [dataOffset : Nat, left : Nat, streams : Nat, digests : Nat, sizes : Nat,
                  folder : Nat, num : Nat, rem : Nat, entry : Nat, digestIndex : Nat,
                  digestsDefs : Offsets, digestsVals : Offsets]
    BY <1>5, InfoTypes, LocTyped DEF InfoInv
  <2>2. ssi' \in [NumTotalSubStreams : Nat, NumSubDigests : Nat,
                  sdNumSubStreams : Slices, sdSizes : Slices, sdCRCs : Slices]
    BY <1>4, <1>6, InfoTypes, SsiTyped DEF InfoInv
  <2> QED BY <1>1, <1>2, <2>1, <2>2 DEF InfoInv, InfoType
<1>8. CountPlace'
  <2>1. loc.sizes \in Nat /\ infoAr.NumFolders \in Nat BY InfoTypes DEF InfoInv
  <2>2. CountsSoFar(bytes', 0, infoAr.FolderCRCs, Len(bytes'), 0, 0, loc.sizes)
    BY <1>2, <2>1, CountsBegun
  <2>3. /\ ssi'.sdSizes = Absent /\ ssi'.sdCRCs = Absent /\ ssi'.sdNumSubStreams # Absent
        /\ ssi'.sdNumSubStreams[1] = Len(bytes')
    BY <1>2, <1>3, <1>4, <1>6
  <2>4. loc'.folder = 0 /\ loc'.streams = 0 /\ loc'.digests = 0 /\ loc'.sizes = loc.sizes
    BY <1>5
  <2>5. loc'.folder <= infoAr'.NumFolders BY <1>1, <2>1, <2>4
  <2> QED BY <1>1, <2>2, <2>3, <2>4, <2>5 DEF CountPlace
<1>9. loc'.digestsVals = Absent /\ loc'.digestIndex = 0 /\ loc'.dataOffset = loc.dataOffset
  BY <1>3, <1>5
<1>10. InfoPlace' BY <1>1, <1>8, <1>9 DEF InfoPlace
<1> QED BY <1>1, <1>7, <1>9, <1>10, FirstReading DEF InfoInv

LEMMA ReadCountKeeps == ASSUME InfoInv, Info!ReadCount PROVE InfoInv'
<1> DEFINE k == loc.folder
           crcs == infoAr.FolderCRCs
<1>1. PICK s \in CountCodes :
       /\ Info!Read(s, Info!ReadLength(s[1]))
       /\ loc' = [loc EXCEPT
            !.folder  = @ + 1,
            !.streams = @ + Info!ReadValue(s),
            !.sizes   = IF Info!ReadValue(s) = 0 THEN @ ELSE @ + Info!ReadValue(s) - 1,
            !.digests = @ + Info!Digests(Info!ReadValue(s), loc.folder)]
  BY DEF Info!ReadCount
<1> DEFINE v == Info!ReadValue(s)
<1>2. /\ infoPc = "count" /\ infoPc' = "count" /\ k < infoAr.NumFolders
      /\ infoAr' = infoAr /\ ssi' = ssi
  BY DEF Info!ReadCount
<1>3. Encoding(s) BY Encodings
<1>4. s \in Seq(Nat) /\ v \in Nat /\ Info!ReadLength(s[1]) = Len(s)
  BY <1>3, EncodingFacts DEF Encoding
<1>5. bytes' = bytes \o s /\ bytes' \in Seq(Nat) /\ sdPos' = Len(bytes')
  BY <1>1, <1>4, BytesRead DEF InfoInv
<1>6. Info!Digests(v, k) = DigestsOf(crcs, v, k) BY InfoDigests
<1>7. Stored(v) \in Nat /\ DigestsOf(crcs, v, k) \in Nat BY <1>4, DigestsNatural
<1>8. k \in Nat /\ loc.streams \in Nat /\ loc.sizes \in Nat /\ loc.digests \in Nat
      /\ infoAr.NumFolders \in Nat /\ bytes \in Seq(Nat)
  BY InfoTypes DEF InfoInv
<1>9. (IF v = 0 THEN loc.sizes ELSE loc.sizes + v - 1) = loc.sizes + Stored(v)
  BY <1>4, <1>8 DEF Stored
<1>10. loc' = [dataOffset |-> loc.dataOffset, left |-> loc.left, streams |-> loc.streams + v,
              digests |-> loc.digests + DigestsOf(crcs, v, k),
              sizes |-> loc.sizes + Stored(v), folder |-> k + 1,
              num |-> loc.num, rem |-> loc.rem, entry |-> loc.entry,
              digestIndex |-> loc.digestIndex, digestsDefs |-> loc.digestsDefs,
              digestsVals |-> loc.digestsVals]
  <2>1. loc' = [loc EXCEPT !.folder = k + 1, !.streams = loc.streams + v,
                           !.sizes = loc.sizes + Stored(v),
                           !.digests = loc.digests + DigestsOf(crcs, v, k)]
    BY <1>1, <1>6, <1>9
  <2> HIDE DEF k, v, crcs
  <2> QED BY <2>1, InfoShapes DEF InfoInv
<1>11. /\ k + 1 \in Nat /\ loc.streams + v \in Nat /\ loc.sizes + Stored(v) \in Nat
       /\ loc.digests + DigestsOf(crcs, v, k) \in Nat
  <2>1. \A a, b \in Nat : a + b \in Nat OBVIOUS
  <2>2. k + 1 \in Nat BY <1>8
  <2> DEFINE x == Stored(v)
             y == DigestsOf(crcs, v, k)
  <2>3. v \in Nat /\ x \in Nat /\ y \in Nat BY <1>4, <1>7
  <2> HIDE DEF k, v, crcs, x, y
  <2>4. loc.streams + v \in Nat /\ loc.sizes + x \in Nat /\ loc.digests + y \in Nat
    BY ONLY <1>8, <2>1, <2>3
  <2> QED BY <2>2, <2>4 DEF x, y
<1>12. InfoType'
  <2>1. loc' \in [dataOffset : Nat, left : Nat, streams : Nat, digests : Nat, sizes : Nat,
                  folder : Nat, num : Nat, rem : Nat, entry : Nat, digestIndex : Nat,
                  digestsDefs : Offsets, digestsVals : Offsets]
    BY <1>10, <1>11, InfoTypes, LocTyped DEF InfoInv
  <2> QED BY <1>2, <1>5, <2>1 DEF InfoInv, InfoType
<1>13. CountPlace /\ loc.digestsVals = Absent /\ loc.digestIndex = 0 BY <1>2 DEF InfoInv, InfoPlace
<1>14. CountPlace'
  <2>1. CountsSoFar(bytes, k, crcs, ssi.sdNumSubStreams[1], loc.streams, loc.digests, loc.sizes)
    BY <1>13 DEF CountPlace
  <2>2. CountsSoFar(bytes \o s, k + 1, crcs, ssi.sdNumSubStreams[1], loc.streams + v,
                    loc.digests + DigestsOf(crcs, v, k), loc.sizes + Stored(v))
    BY <1>3, <1>8, <2>1, CountsGrow
  <2>3. k + 1 <= infoAr.NumFolders BY <1>2, <1>8
  <2>4. /\ loc'.folder = k + 1 /\ loc'.streams = loc.streams + v
        /\ loc'.digests = loc.digests + DigestsOf(crcs, v, k)
        /\ loc'.sizes = loc.sizes + Stored(v)
    BY <1>10
  <2> HIDE DEF v
  <2> QED BY <1>2, <1>5, <1>13, <2>2, <2>3, <2>4 DEF CountPlace
<1>15. loc'.digestsVals = Absent /\ loc'.digestIndex = 0 /\ loc'.dataOffset = loc.dataOffset
  BY <1>10, <1>13
<1>16. InfoPlace' BY <1>2, <1>14, <1>15 DEF InfoPlace
<1> QED BY <1>2, <1>12, <1>15, <1>16, FirstReading DEF InfoInv

LEMMA CountsEndKeeps == ASSUME InfoInv, Info!CountsEnd PROVE InfoInv'
<1>1. /\ infoPc = "count" /\ infoPc' = "sub" /\ loc.folder = infoAr.NumFolders
      /\ UNCHANGED <<bytes, sdPos, infoAr, loc>>
      /\ ssi' = [ssi EXCEPT !.sdNumSubStreams[2] = sdPos]
  BY DEF Info!CountsEnd, Info!To
<1>2. CountPlace /\ loc.digestsVals = Absent /\ loc.digestIndex = 0 BY <1>1 DEF InfoInv, InfoPlace
<1>3. ssi.sdNumSubStreams \in Nat \X Nat BY <1>2, InfoTypes DEF InfoInv, CountPlace, Slices
<1>4. PICK from \in Nat : \E to \in Nat : ssi.sdNumSubStreams = <<from, to>> BY <1>3
<1>5. PICK to \in Nat : ssi.sdNumSubStreams = <<from, to>> BY <1>4
<1>6. ssi' = [NumTotalSubStreams |-> ssi.NumTotalSubStreams,
              NumSubDigests |-> ssi.NumSubDigests, sdNumSubStreams |-> <<from, sdPos>>,
              sdSizes |-> ssi.sdSizes, sdCRCs |-> ssi.sdCRCs]
  <2>1. [ssi.sdNumSubStreams EXCEPT ![2] = sdPos] = <<from, sdPos>> BY <1>5
  <2>2. ssi' = [ssi EXCEPT !.sdNumSubStreams = [ssi.sdNumSubStreams EXCEPT ![2] = sdPos]]
    BY <1>1
  <2> QED BY <2>1, <2>2, InfoShapes DEF InfoInv
<1>7. /\ bytes \in Seq(Nat) /\ sdPos = Len(bytes) /\ sdPos \in Nat /\ infoAr.NumFolders \in Nat
  BY InfoTypes DEF InfoInv
<1>8. <<from, sdPos>> \in Slices /\ <<from, sdPos>> # Absent BY <1>7, PairOfNat
<1>9. InfoType'
  <2>1. ssi' \in [NumTotalSubStreams : Nat, NumSubDigests : Nat,
                  sdNumSubStreams : Slices, sdSizes : Slices, sdCRCs : Slices]
    BY <1>6, <1>8, InfoTypes, SsiTyped DEF InfoInv
  <2> QED BY <1>1, <2>1 DEF InfoInv, InfoType
<1>10. SubPlace'
  <2>1. CountsSoFar(bytes, infoAr.NumFolders, infoAr.FolderCRCs, from, loc.streams,
                    loc.digests, loc.sizes)
    <3>1. ssi.sdNumSubStreams[1] = from BY <1>5
    <3> QED BY <1>1, <1>2, <3>1 DEF CountPlace
  <2>2. CountsKnown(bytes, infoAr.NumFolders, infoAr.FolderCRCs, <<from, sdPos>>, loc.streams,
                    loc.digests, loc.sizes)
    BY <1>7, <2>1, CountsEnded
  <2>3. (Info!NumSubDigests =
           IF ssi.sdNumSubStreams # Absent THEN loc.digests
           ELSE Unchecked(infoAr.FolderCRCs, infoAr.NumFolders))'
    BY DigestsCounted, PTL
  <2>4. /\ ssi'.sdNumSubStreams = <<from, sdPos>> /\ ssi'.sdSizes = Absent
        /\ ssi'.sdCRCs = Absent
    BY <1>2, <1>6 DEF CountPlace
  <2>5. Info!NumSubDigests' = loc.digests BY <1>1, <1>8, <2>3, <2>4
  <2> QED BY <1>1, <2>2, <2>4, <2>5 DEF SubPlace
<1>11. InfoPlace' BY <1>1, <1>2, <1>10 DEF InfoPlace
<1> QED BY <1>1, <1>2, <1>9, <1>11, FirstReading DEF InfoInv

(* The counting ends with the first other property.                          *)
LEMMA CountedIs ==
  ASSUME InfoInv, infoPc = "sub"
  PROVE  /\ Info!Counted = [NumTotalSubStreams |-> loc.streams,
                            NumSubDigests |-> Info!NumSubDigests,
                            sdNumSubStreams |-> ssi.sdNumSubStreams,
                            sdSizes |-> Absent, sdCRCs |-> Absent]
         /\ SubPlace /\ loc.digestsVals = Absent /\ loc.digestIndex = 0
         /\ Info!NumSubDigests \in Nat /\ loc.streams \in Nat /\ loc.sizes \in Nat
         /\ bytes \in Seq(Nat) /\ infoAr.NumFolders \in Nat
<1>1. SubPlace /\ loc.digestsVals = Absent /\ loc.digestIndex = 0 BY DEF InfoInv, InfoPlace
<1>2. Info!Counted = [ssi EXCEPT !.NumTotalSubStreams = loc.streams,
                                 !.NumSubDigests = Info!NumSubDigests]
  BY DEF Info!Counted
<1>3. Info!Counted = [NumTotalSubStreams |-> loc.streams,
                      NumSubDigests |-> Info!NumSubDigests,
                      sdNumSubStreams |-> ssi.sdNumSubStreams,
                      sdSizes |-> ssi.sdSizes, sdCRCs |-> ssi.sdCRCs]
  BY <1>2, InfoShapes DEF InfoInv
<1>4. ssi.sdSizes = Absent /\ ssi.sdCRCs = Absent BY <1>1 DEF SubPlace
<1> QED BY <1>1, <1>3, <1>4, DigestsNumbered, InfoTypes DEF InfoInv

LEMMA SizesBeginKeeps == ASSUME InfoInv, Info!SizesBegin PROVE InfoInv'
<1>1. /\ infoPc = "sub" /\ infoPc' = "sizes" /\ infoAr' = infoAr
      /\ Info!ReadId(9)
      /\ ssi' = [Info!Counted EXCEPT !.sdSizes = <<sdPos', sdPos'>>]
      /\ loc' = [loc EXCEPT !.left = loc.sizes]
  BY DEF Info!SizesBegin, Info!To, Info!Size
<1>2. /\ <<9>> \in Seq(Nat) /\ bytes' = bytes \o <<9>>
      /\ bytes' \in Seq(Nat) /\ sdPos' = Len(bytes') /\ Len(bytes') \in Nat
  BY <1>1, IdRead DEF InfoInv
<1>3. /\ Info!Counted = [NumTotalSubStreams |-> loc.streams,
                         NumSubDigests |-> Info!NumSubDigests,
                         sdNumSubStreams |-> ssi.sdNumSubStreams,
                         sdSizes |-> Absent, sdCRCs |-> Absent]
      /\ SubPlace /\ loc.digestsVals = Absent /\ loc.digestIndex = 0
      /\ Info!NumSubDigests \in Nat /\ loc.streams \in Nat /\ loc.sizes \in Nat
      /\ bytes \in Seq(Nat) /\ infoAr.NumFolders \in Nat
  BY <1>1, CountedIs
<1>4. ssi' = [NumTotalSubStreams |-> loc.streams, NumSubDigests |-> Info!NumSubDigests,
              sdNumSubStreams |-> ssi.sdNumSubStreams, sdSizes |-> <<sdPos', sdPos'>>,
              sdCRCs |-> Absent]
  BY <1>1, <1>3
<1>5. loc' = [dataOffset |-> loc.dataOffset, left |-> loc.sizes, streams |-> loc.streams,
              digests |-> loc.digests, sizes |-> loc.sizes, folder |-> loc.folder,
              num |-> loc.num, rem |-> loc.rem, entry |-> loc.entry,
              digestIndex |-> loc.digestIndex, digestsDefs |-> loc.digestsDefs,
              digestsVals |-> loc.digestsVals]
  BY <1>1, InfoShapes DEF InfoInv
<1>6. <<sdPos', sdPos'>> \in Slices /\ <<sdPos', sdPos'>> # Absent /\ <<sdPos', sdPos'>>[1] = sdPos'
  BY <1>2, PairOfNat
<1>7. InfoType'
  <2>1. loc' \in [dataOffset : Nat, left : Nat, streams : Nat, digests : Nat, sizes : Nat,
                  folder : Nat, num : Nat, rem : Nat, entry : Nat, digestIndex : Nat,
                  digestsDefs : Offsets, digestsVals : Offsets]
    BY <1>5, InfoTypes, LocTyped DEF InfoInv
  <2>2. Absent \in Slices BY DEF Slices
  <2>3. ssi' \in [NumTotalSubStreams : Nat, NumSubDigests : Nat,
                  sdNumSubStreams : Slices, sdSizes : Slices, sdCRCs : Slices]
    BY <1>3, <1>4, <1>6, <2>2, InfoTypes, SsiTyped DEF InfoInv
  <2> QED BY <1>1, <1>2, <2>1, <2>3 DEF InfoInv, InfoType
<1>8. SizesPlace'
  <2> DEFINE D == Info!NumSubDigests
  <2>1. CountsKnown(bytes, infoAr.NumFolders, infoAr.FolderCRCs, ssi.sdNumSubStreams,
                    loc.streams, D, loc.sizes)
    BY <1>3 DEF SubPlace
  <2> HIDE DEF D
  <2>2. CountsKnown(bytes', infoAr.NumFolders, infoAr.FolderCRCs, ssi.sdNumSubStreams,
                    loc.streams, D, loc.sizes)
    BY <1>2, <1>3, <2>1, CountsKeep
  <2>3. SizesSoFar(bytes', 0, Len(bytes')) BY <1>2, WalkBegins DEF SizesSoFar
  <2>4. /\ ssi'.sdCRCs = Absent /\ ssi'.sdSizes # Absent /\ ssi'.sdSizes[1] = Len(bytes')
        /\ ssi'.NumSubDigests = D /\ ssi'.NumTotalSubStreams = loc.streams
        /\ ssi'.sdNumSubStreams = ssi.sdNumSubStreams
    BY <1>2, <1>4, <1>6 DEF D
  <2>5. /\ loc'.left = loc.sizes /\ loc'.sizes = loc.sizes /\ loc.sizes <= loc.sizes
        /\ loc.sizes - loc.sizes = 0
    BY <1>3, <1>5
  <2>6. Known(ssi.NumSubDigests, loc.sizes)' BY <1>1, <2>2, <2>4, <2>5 DEF Known
  <2>7. SizesSoFar(bytes', loc'.sizes - loc'.left, ssi'.sdSizes[1]) BY <2>3, <2>4, <2>5
  <2>8. loc'.left <= loc'.sizes BY <2>5
  <2> QED BY <2>4, <2>6, <2>7, <2>8 DEF SizesPlace
<1>9. loc'.digestsVals = Absent /\ loc'.digestIndex = 0 /\ loc'.dataOffset = loc.dataOffset
  BY <1>3, <1>5
<1>10. InfoPlace' BY <1>1, <1>8, <1>9 DEF InfoPlace
<1> QED BY <1>1, <1>7, <1>9, <1>10, FirstReading DEF InfoInv

LEMMA SkipSizeKeeps == ASSUME InfoInv, Info!SkipSize PROVE InfoInv'
<1>1. PICK s \in SizeCodes : Info!Read(s, Info!SkipLength(s[1])) BY DEF Info!SkipSize
<1>2. /\ infoPc = "sizes" /\ infoPc' = "sizes" /\ loc.left > 0
      /\ loc' = [loc EXCEPT !.left = loc.left - 1]
      /\ infoAr' = infoAr /\ ssi' = ssi
  BY DEF Info!SkipSize
<1>3. Encoding(s) BY Encodings
<1>4. s \in Seq(Nat) /\ Info!SkipLength(s[1]) = Len(s) BY <1>3, EncodingFacts
<1>5. bytes' = bytes \o s /\ bytes' \in Seq(Nat) /\ sdPos' = Len(bytes')
  BY <1>1, <1>4, BytesRead DEF InfoInv
<1>6. /\ bytes \in Seq(Nat) /\ loc.left \in Nat /\ loc.left - 1 \in Nat /\ loc.sizes \in Nat
      /\ infoAr.NumFolders \in Nat
  BY <1>2, InfoTypes DEF InfoInv
<1>7. loc' = [dataOffset |-> loc.dataOffset, left |-> loc.left - 1, streams |-> loc.streams,
              digests |-> loc.digests, sizes |-> loc.sizes, folder |-> loc.folder,
              num |-> loc.num, rem |-> loc.rem, entry |-> loc.entry,
              digestIndex |-> loc.digestIndex, digestsDefs |-> loc.digestsDefs,
              digestsVals |-> loc.digestsVals]
  BY <1>2, InfoShapes DEF InfoInv
<1>8. InfoType'
  <2>1. loc' \in [dataOffset : Nat, left : Nat, streams : Nat, digests : Nat, sizes : Nat,
                  folder : Nat, num : Nat, rem : Nat, entry : Nat, digestIndex : Nat,
                  digestsDefs : Offsets, digestsVals : Offsets]
    BY <1>6, <1>7, InfoTypes, LocTyped DEF InfoInv
  <2> QED BY <1>2, <1>5, <2>1 DEF InfoInv, InfoType
<1>9. SizesPlace /\ loc.digestsVals = Absent /\ loc.digestIndex = 0 BY <1>2 DEF InfoInv, InfoPlace
<1>10. SizesPlace'
  <2> DEFINE m == loc.sizes - loc.left
  <2>1. m \in Nat /\ SizesSoFar(bytes, m, ssi.sdSizes[1]) BY <1>6, <1>9 DEF SizesPlace
  <2>2. SizesSoFar(bytes', m + 1, ssi.sdSizes[1])
    <3> HIDE DEF m
    <3> QED BY <1>3, <1>5, <1>6, <2>1, SizesGrow
  <2>3. m + 1 = loc.sizes - (loc.left - 1) /\ loc.left - 1 <= loc.sizes
    BY <1>6, <1>9 DEF SizesPlace
  <2>4. CountsKnown(bytes', infoAr.NumFolders, infoAr.FolderCRCs, ssi.sdNumSubStreams,
                    ssi.NumTotalSubStreams, ssi.NumSubDigests, loc.sizes)
    BY <1>4, <1>5, <1>6, <1>9, CountsKeep DEF SizesPlace, Known
  <2>5. loc'.left = loc.left - 1 /\ loc'.sizes = loc.sizes BY <1>7
  <2>6. Known(ssi.NumSubDigests, loc.sizes)' BY <1>2, <2>4, <2>5 DEF Known
  <2> HIDE DEF m
  <2>7. SizesSoFar(bytes', loc'.sizes - loc'.left, ssi'.sdSizes[1]) BY <1>2, <2>2, <2>3, <2>5
  <2>8. loc'.left <= loc'.sizes BY <2>3, <2>5
  <2> QED BY <1>2, <1>9, <2>6, <2>7, <2>8 DEF SizesPlace
<1>11. loc'.digestsVals = Absent /\ loc'.digestIndex = 0 /\ loc'.dataOffset = loc.dataOffset
  BY <1>7, <1>9
<1>12. InfoPlace' BY <1>2, <1>10, <1>11 DEF InfoPlace
<1> QED BY <1>2, <1>8, <1>11, <1>12, FirstReading DEF InfoInv

LEMMA SizesEndKeeps == ASSUME InfoInv, Info!SizesEnd PROVE InfoInv'
<1>1. /\ infoPc = "sizes" /\ infoPc' = "next" /\ loc.left = 0
      /\ UNCHANGED <<bytes, sdPos, infoAr, loc>>
      /\ ssi' = [ssi EXCEPT !.sdSizes[2] = sdPos]
  BY DEF Info!SizesEnd, Info!To
<1>2. SizesPlace /\ loc.digestsVals = Absent /\ loc.digestIndex = 0 BY <1>1 DEF InfoInv, InfoPlace
<1>3. ssi.sdSizes \in Nat \X Nat BY <1>2, InfoTypes DEF InfoInv, SizesPlace, Slices
<1>4. PICK from \in Nat : \E to \in Nat : ssi.sdSizes = <<from, to>> BY <1>3
<1>5. PICK to \in Nat : ssi.sdSizes = <<from, to>> BY <1>4
<1>6. ssi' = [NumTotalSubStreams |-> ssi.NumTotalSubStreams,
              NumSubDigests |-> ssi.NumSubDigests, sdNumSubStreams |-> ssi.sdNumSubStreams,
              sdSizes |-> <<from, sdPos>>, sdCRCs |-> ssi.sdCRCs]
  <2>1. [ssi.sdSizes EXCEPT ![2] = sdPos] = <<from, sdPos>> BY <1>5
  <2>2. ssi' = [ssi EXCEPT !.sdSizes = [ssi.sdSizes EXCEPT ![2] = sdPos]] BY <1>1
  <2> QED BY <2>1, <2>2, InfoShapes DEF InfoInv
<1>7. /\ bytes \in Seq(Nat) /\ sdPos = Len(bytes) /\ sdPos \in Nat /\ loc.sizes \in Nat
      /\ ssi.NumSubDigests \in Nat
  BY InfoTypes DEF InfoInv
<1>8. <<from, sdPos>> \in Slices /\ <<from, sdPos>>[1] = from /\ <<from, sdPos>>[2] = sdPos
  BY <1>7, PairOfNat
<1>9. InfoType'
  <2>1. ssi' \in [NumTotalSubStreams : Nat, NumSubDigests : Nat,
                  sdNumSubStreams : Slices, sdSizes : Slices, sdCRCs : Slices]
    BY <1>6, <1>8, InfoTypes, SsiTyped DEF InfoInv
  <2> QED BY <1>1, <2>1 DEF InfoInv, InfoType
<1>10. ListsPlace'
  <2>1. loc.sizes - loc.left = loc.sizes /\ ssi.sdSizes[1] = from BY <1>1, <1>5, <1>7
  <2>2. SizesSoFar(bytes, loc.sizes, from) BY <1>2, <2>1 DEF SizesPlace
  <2>3. PICK e : Walk(bytes, loc.sizes, e, Len(bytes)) /\ e[0] = from
    BY <2>2 DEF SizesSoFar
  <2>4. SizesKnown(bytes, loc.sizes, <<from, sdPos>>) BY <1>7, <1>8, <2>3 DEF SizesKnown
  <2>5. /\ ssi'.sdSizes = <<from, sdPos>> /\ ssi'.sdCRCs = Absent
        /\ ssi'.NumSubDigests = ssi.NumSubDigests
        /\ ssi'.NumTotalSubStreams = ssi.NumTotalSubStreams
        /\ ssi'.sdNumSubStreams = ssi.sdNumSubStreams
    BY <1>2, <1>6 DEF SizesPlace
  <2> DEFINE m == loc.sizes
             n == ssi.NumSubDigests
  <2>6. CountsKnown(bytes, infoAr.NumFolders, infoAr.FolderCRCs, ssi.sdNumSubStreams,
                    ssi.NumTotalSubStreams, n, m)
    BY <1>2 DEF SizesPlace, Known
  <2>7. m \in Nat /\ n \in Nat BY <1>7
  <2>8. SizesKnown(bytes', m, ssi'.sdSizes) /\ n = ssi'.NumSubDigests BY <1>1, <2>4, <2>5
  <2> HIDE DEF m, n
  <2>9. CountsKnown(bytes', infoAr'.NumFolders, infoAr'.FolderCRCs, ssi'.sdNumSubStreams,
                    ssi'.NumTotalSubStreams, n, m)
    BY <1>1, <2>5, <2>6
  <2>10. CrcsAt(bytes', ssi'.sdCRCs, n) BY <2>5 DEF CrcsAt
  <2> QED BY <2>7, <2>8, <2>9, <2>10 DEF ListsPlace, Known
<1>11. InfoPlace' BY <1>1, <1>2, <1>10 DEF InfoPlace
<1> QED BY <1>1, <1>2, <1>9, <1>11, FirstReading DEF InfoInv

(* A list of CRCs behind the lists that are known                            *)
LEMMA CrcsKnown ==
  ASSUME InfoInv, infoPc \in {"sub", "next"}, infoPc' = "next",
         infoAr' = infoAr, loc' = loc, NEW n \in Nat, NEW m \in Nat, NEW s \in Info!BitUi32s(n),
         Info!Read(<<Info!CRC>> \o s, 1 + Len(s)),
         CountsKnown(bytes, infoAr.NumFolders, infoAr.FolderCRCs, ssi.sdNumSubStreams,
                     ssi'.NumTotalSubStreams, n, m),
         SizesKnown(bytes, m, ssi.sdSizes), loc.digestsVals = Absent /\ loc.digestIndex = 0,
         ssi'.NumTotalSubStreams \in Nat,
         ssi' = [NumTotalSubStreams |-> ssi'.NumTotalSubStreams, NumSubDigests |-> n,
                 sdNumSubStreams |-> ssi.sdNumSubStreams, sdSizes |-> ssi.sdSizes,
                 sdCRCs |-> <<sdPos + 1, sdPos'>>]
  PROVE  InfoInv'
<1> DEFINE t == <<Info!CRC>> \o s
<1>1. bytes \in Seq(Nat) /\ sdPos = Len(bytes) /\ infoAr.NumFolders \in Nat
  BY InfoTypes DEF InfoInv
<1>2. /\ s \in Seq(Nat)
      /\ CrcsAt(bytes \o t, <<Len(bytes) + 1, Len(bytes) + 1 + Len(s)>>, n)
  BY <1>1, CrcsWritten
<1>3. t \in Seq(Nat) /\ Len(t) = 1 + Len(s) /\ Len(s) \in Nat
  <2>1. <<Info!CRC>> \in Seq(Nat) /\ Len(<<Info!CRC>>) = 1 BY DEF Info!CRC
  <2> QED BY <1>2, <2>1, Concat
<1> HIDE DEF t
<1>4. Info!Read(t, Len(t)) BY <1>3 DEF t
<1>5. /\ bytes' = bytes \o t /\ bytes' \in Seq(Nat) /\ sdPos' = Len(bytes')
      /\ Len(bytes') = Len(bytes) + Len(t) /\ sdPos \in Nat /\ sdPos' \in Nat
  BY <1>3, <1>4, BytesRead DEF InfoInv
<1>6. sdPos + 1 = Len(bytes) + 1 /\ sdPos' = Len(bytes) + 1 + Len(s) /\ sdPos + 1 \in Nat
  BY <1>1, <1>3, <1>5
<1>7. <<sdPos + 1, sdPos'>> \in Slices BY <1>5, <1>6, PairOfNat
<1>8. InfoType'
  <2>1. ssi' \in [NumTotalSubStreams : Nat, NumSubDigests : Nat,
                  sdNumSubStreams : Slices, sdSizes : Slices, sdCRCs : Slices]
    <3> DEFINE x == ssi'.NumTotalSubStreams
               slice == <<sdPos + 1, sdPos'>>
    <3>1. /\ x \in Nat /\ slice \in Slices
          /\ ssi' = [NumTotalSubStreams |-> x, NumSubDigests |-> n,
                     sdNumSubStreams |-> ssi.sdNumSubStreams, sdSizes |-> ssi.sdSizes,
                     sdCRCs |-> slice]
      BY <1>7
    <3>2. ssi.sdNumSubStreams \in Slices /\ ssi.sdSizes \in Slices
      BY InfoTypes DEF InfoInv
    <3> HIDE DEF x, slice
    <3> QED BY <3>1, <3>2, SsiTyped
  <2> QED BY <1>5, <2>1 DEF InfoInv, InfoType
<1>9. ListsPlace'
  <2>1. CountsKnown(bytes', infoAr.NumFolders, infoAr.FolderCRCs, ssi.sdNumSubStreams,
                    ssi'.NumTotalSubStreams, n, m)
    BY <1>1, <1>3, <1>5, CountsKeep
  <2>2. SizesKnown(bytes', m, ssi.sdSizes) BY <1>1, <1>3, <1>5, SizesKeep
  <2>3. CrcsAt(bytes', <<sdPos + 1, sdPos'>>, n) BY <1>2, <1>5, <1>6
  <2>4. /\ ssi'.NumSubDigests = n /\ ssi'.sdNumSubStreams = ssi.sdNumSubStreams
        /\ ssi'.sdSizes = ssi.sdSizes /\ ssi'.sdCRCs = <<sdPos + 1, sdPos'>>
    OBVIOUS
  <2> QED BY <2>1, <2>2, <2>3, <2>4 DEF ListsPlace, Known
<1>10. InfoPlace' BY <1>9 DEF InfoPlace
<1> QED BY <1>8, <1>10, FirstReading DEF InfoInv

LEMMA SkipCrcsKeeps == ASSUME InfoInv, Info!SkipCrcs PROVE InfoInv'
<1>1. CASE infoPc = "sub"
  <2> DEFINE n == Info!NumSubDigests
  <2>1. PICK s \in Info!BitUi32s(n) :
          /\ Info!Read(<<Info!CRC>> \o s, 1 + Len(s))
          /\ ssi' = [Info!Counted EXCEPT !.sdCRCs = <<sdPos + 1, sdPos'>>]
    BY <1>1 DEF Info!SkipCrcs, Info!To
  <2>2. infoPc' = "next" /\ infoAr' = infoAr /\ loc' = loc
    BY <1>1 DEF Info!SkipCrcs, Info!To
  <2>3. /\ Info!Counted = [NumTotalSubStreams |-> loc.streams, NumSubDigests |-> n,
                           sdNumSubStreams |-> ssi.sdNumSubStreams,
                           sdSizes |-> Absent, sdCRCs |-> Absent]
        /\ SubPlace /\ loc.digestsVals = Absent /\ loc.digestIndex = 0
        /\ n \in Nat /\ loc.streams \in Nat /\ loc.sizes \in Nat
    BY <1>1, CountedIs
  <2>4. CountsKnown(bytes, infoAr.NumFolders, infoAr.FolderCRCs, ssi.sdNumSubStreams,
                    loc.streams, n, loc.sizes)
    BY <2>3 DEF SubPlace
  <2> HIDE DEF n
  <2>5. ssi.sdSizes = Absent BY <2>3 DEF SubPlace
  <2>6. ssi' = [NumTotalSubStreams |-> loc.streams, NumSubDigests |-> n,
                sdNumSubStreams |-> ssi.sdNumSubStreams, sdSizes |-> ssi.sdSizes,
                sdCRCs |-> <<sdPos + 1, sdPos'>>]
    BY <2>1, <2>3, <2>5
  <2>7. ssi'.NumTotalSubStreams = loc.streams BY <2>6
  <2>8. SizesKnown(bytes, loc.sizes, ssi.sdSizes) BY <2>5 DEF SizesKnown
  <2> QED BY <1>1, <2>1, <2>2, <2>3, <2>4, <2>6, <2>7, <2>8, CrcsKnown
<1>2. CASE infoPc = "next"
  <2> DEFINE n == ssi.NumSubDigests
  <2>1. PICK s \in Info!BitUi32s(n) :
          /\ Info!Read(<<Info!CRC>> \o s, 1 + Len(s))
          /\ ssi' = [ssi EXCEPT !.sdCRCs = <<sdPos + 1, sdPos'>>]
    BY <1>2 DEF Info!SkipCrcs, Info!To
  <2>2. infoPc' = "next" /\ infoAr' = infoAr /\ loc' = loc
    BY <1>2 DEF Info!SkipCrcs, Info!To
  <2>3. ListsPlace /\ loc.digestsVals = Absent /\ loc.digestIndex = 0 BY <1>2 DEF InfoInv, InfoPlace
  <2>4. n \in Nat /\ ssi.NumTotalSubStreams \in Nat BY InfoTypes DEF InfoInv
  <2>5. PICK m \in Nat : Known(n, m) /\ SizesKnown(bytes, m, ssi.sdSizes)
    BY <1>2, <2>3 DEF ListsPlace
  <2> HIDE DEF n
  <2>6. ssi' = [NumTotalSubStreams |-> ssi.NumTotalSubStreams, NumSubDigests |-> n,
                sdNumSubStreams |-> ssi.sdNumSubStreams, sdSizes |-> ssi.sdSizes,
                sdCRCs |-> <<sdPos + 1, sdPos'>>]
    BY <2>1, InfoShapes DEF InfoInv, n
  <2>7. ssi'.NumTotalSubStreams = ssi.NumTotalSubStreams BY <2>6
  <2>8. CountsKnown(bytes, infoAr.NumFolders, infoAr.FolderCRCs, ssi.sdNumSubStreams,
                    ssi.NumTotalSubStreams, n, m)
    BY <2>5 DEF Known
  <2> QED BY <1>2, <2>1, <2>2, <2>3, <2>4, <2>5, <2>6, <2>7, <2>8, CrcsKnown
<1> QED BY <1>1, <1>2 DEF Info!SkipCrcs, Info!To

LEMMA SubStreamsEndKeeps == ASSUME InfoInv, Info!SubStreamsEnd PROVE InfoInv'
<1> DEFINE t == << 0 >>
           N == infoAr.NumFolders
           crcs == infoAr.FolderCRCs
<1>1. /\ infoPc' = "entries" /\ infoAr' = infoAr /\ loc' = loc
      /\ \/ infoPc = "sub" /\ ssi' = Info!Counted
         \/ infoPc = "next" /\ ssi' = ssi
  BY DEF Info!SubStreamsEnd, Info!To
<1>2. Info!ReadId(0) BY DEF Info!SubStreamsEnd, Info!End
<1>3. /\ t \in Seq(Nat) /\ bytes' = bytes \o t
      /\ bytes' \in Seq(Nat) /\ sdPos' = Len(bytes') /\ Len(bytes') \in Nat
  BY <1>2, IdRead DEF InfoInv
<1> HIDE DEF t
<1>4. bytes \in Seq(Nat) /\ N \in Nat BY InfoTypes DEF InfoInv
<1>5. CASE infoPc = "sub"
  <2>1. /\ Info!Counted = [NumTotalSubStreams |-> loc.streams,
                           NumSubDigests |-> Info!NumSubDigests,
                           sdNumSubStreams |-> ssi.sdNumSubStreams,
                           sdSizes |-> Absent, sdCRCs |-> Absent]
        /\ SubPlace /\ loc.digestsVals = Absent /\ loc.digestIndex = 0
        /\ Info!NumSubDigests \in Nat /\ loc.streams \in Nat /\ loc.sizes \in Nat
    BY <1>5, CountedIs
  <2>2. ssi' = Info!Counted BY <1>1, <1>5
  <2> DEFINE n == Info!NumSubDigests
             m == loc.sizes
  <2>3. CountsKnown(bytes, N, crcs, ssi.sdNumSubStreams, loc.streams, n, m)
    BY <2>1 DEF SubPlace
  <2>4. n \in Nat /\ m \in Nat BY <2>1
  <2>5. /\ ssi'.NumTotalSubStreams = loc.streams /\ ssi'.NumSubDigests = n
        /\ ssi'.sdNumSubStreams = ssi.sdNumSubStreams
        /\ ssi'.sdSizes = Absent /\ ssi'.sdCRCs = Absent
    BY <2>1, <2>2
  <2>6. InfoType'
    <3>1. Absent \in Slices BY DEF Slices
    <3>2. ssi' \in [NumTotalSubStreams : Nat, NumSubDigests : Nat,
                    sdNumSubStreams : Slices, sdSizes : Slices, sdCRCs : Slices]
      BY <2>1, <2>2, <3>1, InfoTypes, SsiTyped DEF InfoInv
    <3> QED BY <1>1, <1>3, <3>2 DEF InfoInv, InfoType
  <2> HIDE DEF n, m
  <2>7. CountsKnown(bytes', N, crcs, ssi.sdNumSubStreams, loc.streams, n, m)
    BY <1>3, <1>4, <2>3, CountsKeep
  <2>8. SizesKnown(bytes', m, ssi'.sdSizes) /\ CrcsAt(bytes', ssi'.sdCRCs, n)
    BY <2>5 DEF SizesKnown, CrcsAt
  <2>9. ListsPlace' BY <1>1, <2>4, <2>5, <2>7, <2>8 DEF ListsPlace, Known
  <2>10. InfoPlace' BY <1>1, <2>1, <2>9 DEF InfoPlace
  <2> QED BY <1>1, <1>5, <2>1, <2>6, <2>10, FirstReading DEF InfoInv
<1>6. CASE infoPc = "next"
  <2>1. ListsPlace /\ loc.digestsVals = Absent /\ loc.digestIndex = 0 /\ ssi' = ssi
    BY <1>1, <1>6 DEF InfoInv, InfoPlace
  <2>2. PICK m \in Nat, n \in Nat :
          /\ Known(n, m) /\ n = ssi.NumSubDigests
          /\ SizesKnown(bytes, m, ssi.sdSizes) /\ CrcsAt(bytes, ssi.sdCRCs, n)
    BY <1>6, <2>1 DEF ListsPlace
  <2>3. ssi.sdCRCs = Absent \/ ssi.sdCRCs \in Nat \X Nat BY InfoTypes DEF InfoInv, Slices
  <2>4. CountsKnown(bytes', N, crcs, ssi.sdNumSubStreams, ssi.NumTotalSubStreams, n, m)
    BY <1>3, <1>4, <2>2, CountsKeep DEF Known
  <2>5. SizesKnown(bytes', m, ssi.sdSizes) BY <1>3, <1>4, <2>2, SizesKeep
  <2>6. CrcsAt(bytes', ssi.sdCRCs, n) BY <1>3, <1>4, <2>2, <2>3, CrcsKeep
  <2>7. ListsPlace' BY <1>1, <2>1, <2>2, <2>4, <2>5, <2>6 DEF ListsPlace, Known
  <2>8. InfoType' BY <1>1, <1>3, <2>1 DEF InfoInv, InfoType
  <2>9. InfoPlace' BY <1>1, <2>1, <2>7 DEF InfoPlace
  <2> QED BY <1>1, <1>6, <2>1, <2>8, <2>9, FirstReading DEF InfoInv
<1> QED BY <1>1, <1>5, <1>6

-----------------------------------------------------------------------------
(* The second reading *)

LEMMA NoBits == \A b, o : Cardinality(BitsBelow(b, o, 0)) = 0
<1> SUFFICES ASSUME NEW b, NEW o PROVE Cardinality(BitsBelow(b, o, 0)) = 0
  OBVIOUS
<1>1. \A i \in 0 .. 0 - 1 : FALSE OBVIOUS
<1>2. BitsBelow(b, o, 0) = {} BY <1>1 DEF BitsBelow
<1> QED BY <1>2, FS_EmptySet

LEMMA StepsShape ==
  ASSUME NEW crcs, NEW n \in Nat, NEW st, NEW sz, NEW dg, Steps(crcs, n, st, sz, dg)
  PROVE  /\ \A i \in 0 .. n : /\ st[i] \in Nat /\ sz[i] \in Nat /\ dg[i] \in Nat
                              /\ st[i] <= st[n] /\ sz[i] <= sz[n] /\ dg[i] <= dg[n]
         /\ st[0] = 0 /\ sz[0] = 0 /\ dg[0] = 0
<1>1. /\ st \in [0 .. n -> Nat] /\ sz \in [0 .. n -> Nat] /\ dg \in [0 .. n -> Nat]
      /\ st[0] = 0 /\ sz[0] = 0 /\ dg[0] = 0
      /\ \A i, j \in 0 .. n : i <= j => st[i] <= st[j] /\ sz[i] <= sz[j] /\ dg[i] <= dg[j]
      /\ \A i \in 0 .. n - 1 :
           /\ st[i + 1] - st[i] \in Nat
           /\ sz[i + 1] = sz[i] + Stored(st[i + 1] - st[i])
           /\ dg[i + 1] = dg[i] + DigestsOf(crcs, st[i + 1] - st[i], i)
  BY DEF Steps
<1>2. ASSUME NEW i \in 0 .. n
      PROVE /\ st[i] \in Nat /\ sz[i] \in Nat /\ dg[i] \in Nat
            /\ st[i] <= st[n] /\ sz[i] <= sz[n] /\ dg[i] <= dg[n]
  <2>1. n \in 0 .. n /\ i <= n OBVIOUS
  <2> QED BY <1>1, <2>1
<1> QED BY <1>1, <1>2

(* Folder i has v entries.                                                   *)
StepOf(n, st, i, v) == i \in 0 .. n - 1 /\ v \in Nat /\ v = st[i + 1] - st[i]

LEMMA StepsAdd ==
  ASSUME NEW crcs, NEW n \in Nat, NEW st, NEW sz, NEW dg, Steps(crcs, n, st, sz, dg),
         NEW i, NEW v, StepOf(n, st, i, v)
  PROVE  /\ st[i + 1] = st[i] + v /\ sz[i + 1] = sz[i] + Stored(v)
         /\ dg[i + 1] = dg[i] + DigestsOf(crcs, v, i)
<1>0. i \in 0 .. n - 1 /\ v \in Nat /\ v = st[i + 1] - st[i] BY DEF StepOf
<1>1. i \in 0 .. n /\ i + 1 \in 0 .. n BY <1>0
<1>2. st[i] \in Nat /\ st[i + 1] \in Nat BY <1>1, StepsShape
<1>3. st[i + 1] = st[i] + v BY <1>0, <1>2
<1>4. /\ sz[i + 1] = sz[i] + Stored(st[i + 1] - st[i])
      /\ dg[i + 1] = dg[i] + DigestsOf(crcs, st[i + 1] - st[i], i)
  BY <1>0 DEF Steps
<1> QED BY <1>0, <1>3, <1>4

(* Inside a folder the lists behind the counts are not at their end.         *)
LEMMA FolderFacts ==
  ASSUME NEW crcs, NEW n \in Nat, NEW st, NEW sz, NEW dg, Steps(crcs, n, st, sz, dg),
         NEW l, l.folder \in Nat, l.num \in Nat, l.rem \in Nat, InFolder(n, l, st)
  PROVE  /\ l.folder \in 0 .. n /\ Behind(l) \in Nat
         /\ sz[l.folder] + Behind(l) \in 0 .. sz[n] /\ dg[l.folder] + Behind(l) \in 0 .. dg[n]
         /\ l.rem > 0 =>
              /\ l.folder \in 0 .. n - 1 /\ l.num > 0 /\ Behind(l) = l.num - l.rem
              /\ st[l.folder + 1] = st[l.folder] + l.num
              /\ sz[l.folder + 1] = sz[l.folder] + l.num - 1
              /\ sz[l.folder + 1] <= sz[n]
              /\ dg[l.folder + 1] = dg[l.folder] + DigestsOf(crcs, l.num, l.folder)
              /\ dg[l.folder + 1] <= dg[n]
<1> DEFINE i == l.folder
           d == Behind(l)
<1>1. i \in 0 .. n BY DEF InFolder
<1>2. /\ st[i] \in Nat /\ sz[i] \in Nat /\ dg[i] \in Nat
      /\ st[n] \in Nat /\ sz[n] \in Nat /\ dg[n] \in Nat
      /\ sz[i] <= sz[n] /\ dg[i] <= dg[n]
  <2>1. n \in 0 .. n OBVIOUS
  <2> QED BY <1>1, <2>1, StepsShape
<1>3. CASE l.rem = 0
  <2>1. d = 0 /\ ~(l.rem > 0) BY <1>3 DEF Behind
  <2> HIDE DEF d
  <2> QED BY <1>1, <1>2, <2>1 DEF d
<1>4. CASE l.rem # 0
  <2>1. l.rem > 0 BY <1>4
  <2>2. i \in 0 .. n - 1 /\ l.num = st[i + 1] - st[i] /\ l.rem <= l.num
    BY <1>1, <2>1 DEF InFolder
  <2>3. /\ st[i + 1] = st[i] + l.num /\ sz[i + 1] = sz[i] + Stored(l.num)
        /\ dg[i + 1] = dg[i] + DigestsOf(crcs, l.num, i)
    <3>1. StepOf(n, st, i, l.num) BY <2>2 DEF StepOf
    <3> QED BY <3>1, StepsAdd
  <2>4. sz[i + 1] <= sz[n] /\ dg[i + 1] <= dg[n]
    <3>1. i + 1 \in 0 .. n BY <2>2
    <3> QED BY <3>1, StepsShape
  <2>5. l.num > 0 /\ Stored(l.num) = l.num - 1 BY <2>1, <2>2 DEF Stored
  <2>6. d = l.num - l.rem BY <2>1 DEF Behind
  <2>7. DigestsOf(crcs, l.num, i) = l.num \/ (l.num = 1 /\ DigestsOf(crcs, l.num, i) = 0)
    BY DEF DigestsOf
  <2> DEFINE x == DigestsOf(crcs, l.num, i)
  <2> HIDE DEF d, x
  <2>8. d \in Nat /\ sz[i] + d \in 0 .. sz[n]
    <3>1. d \in Nat /\ d <= l.num - 1 BY <2>1, <2>2, <2>6
    <3>2. l.num - 1 \in Nat BY <2>5
    <3>3. sz[i] + (l.num - 1) <= sz[n] BY <2>3, <2>4, <2>5
    <3> DEFINE y == l.num - 1
               z == sz[i]
               t == sz[n]
    <3>4. d \in Nat /\ d <= y /\ y \in Nat /\ z \in Nat /\ t \in Nat /\ z + y <= t
      BY <1>2, <3>1, <3>2, <3>3
    <3> HIDE DEF y, z, t
    <3>5. z + d \in 0 .. t BY ONLY <3>4
    <3> QED BY <3>1, <3>5 DEF z, t
  <2>9. dg[i] + d \in 0 .. dg[n]
    <3>1. x = l.num \/ (l.num = 1 /\ x = 0) BY <2>7 DEF x
    <3>2. d <= x /\ x \in Nat BY <2>1, <2>2, <2>6, <3>1
    <3>3. dg[i] + x <= dg[n] BY <2>3, <2>4 DEF x
    <3> QED BY <1>2, <2>8, <3>2, <3>3
  <2>10. sz[i + 1] = sz[i] + l.num - 1 BY <1>2, <2>3, <2>5
  <2> QED BY <1>1, <2>1, <2>2, <2>3, <2>4, <2>5, <2>6, <2>8, <2>9, <2>10 DEF d
<1> QED BY <1>3, <1>4

(* A slice of numbers from its begin                                         *)
LEMMA SliceHolds ==
  ASSUME NEW slice \in Nat \X Nat, bytes \in Seq(Nat), slice[2] <= Len(bytes),
         slice[1] + LengthAt(bytes, slice[1]) <= slice[2]
  PROVE  /\ Info!Holds(slice) /\ Info!ReadValue(Info!At(slice)) = ValueAt(bytes, slice[1])
         /\ Info!ReadLength(bytes[slice[1] + 1]) = LengthAt(bytes, slice[1])
<1> DEFINE o == slice[1]
           to == slice[2]
<1>1. o \in Nat /\ to \in Nat OBVIOUS
<1>2. LengthAt(bytes, o) \in Nat \ {0} BY OnesNatural DEF LengthAt
<1> HIDE DEF o, to
<1>3. /\ to <= Len(bytes) /\ o + LengthAt(bytes, o) <= to
      /\ Info!At(slice) = SubSeq(bytes, o + 1, to)
      /\ Info!Holds(slice) = (o < to /\ Info!ReadLength(bytes[o + 1]) <= Len(Info!At(slice)))
  BY DEF Info!At, Info!Holds, o, to
<1>4. /\ Len(SubSeq(bytes, o + 1, to)) = to - o
      /\ Info!ReadValue(SubSeq(bytes, o + 1, to)) = ValueAt(bytes, o)
  BY <1>1, <1>3, NumberInSlice
<1>5. Info!ReadLength(bytes[o + 1]) = LengthAt(bytes, o) BY DEF LengthAt
<1>6. o < to /\ LengthAt(bytes, o) <= to - o BY <1>1, <1>2, <1>3
<1> QED BY <1>3, <1>4, <1>5, <1>6 DEF o

(* Of the CRC of item j it is known where it stands and whether it is there. *)
LEMMA CrcStep ==
  ASSUME NEW b \in Seq(Nat), NEW x, NEW l, NEW total \in Nat, NEW j \in 0 .. total - 1,
         x.sdCRCs \in Nat \X Nat, CrcsRight(b, x, l, j, total)
  PROVE  /\ l.digestsVals # Absent /\ l.digestsVals \in Nat
         /\ ValsAt(b, x.sdCRCs[1], total, j + 1) =
              IF l.digestsDefs = Absent
                   \/ Info!BitOf(SubSeq(b, l.digestsDefs + 1, Len(b)), l.digestIndex)
              THEN l.digestsVals + 4 ELSE l.digestsVals
<1> DEFINE o == x.sdCRCs[1]
           vals == ValsAt(b, o, total, j)
<1>1. x.sdCRCs # Absent BY InfoAssumption
<1>2. o \in Nat /\ x.sdCRCs[2] \in Nat OBVIOUS
<1>3. /\ x.sdCRCs[2] = ValsAt(b, o, total, total) /\ x.sdCRCs[2] <= Len(b)
      /\ l.digestIndex = j /\ l.digestsVals = vals
      /\ l.digestsDefs = IF b[o + 1] # 0 THEN Absent ELSE o + 1
  BY <1>1 DEF CrcsRight, CrcsAt
<1> HIDE DEF o
<1>4. j \in 0 .. total /\ Len(b) \in Nat BY LenProperties
<1>5. /\ vals \in Nat
      /\ ValsAt(b, o, total, j + 1) = IF b[o + 1] # 0 \/ BitAt(b, o + 1, j) THEN vals + 4 ELSE vals
  BY <1>2, <1>4, ValsGrow
<1> HIDE DEF vals
<1>6. l.digestsVals # Absent BY <1>3, <1>5, InfoAssumption
<1>7. CASE b[o + 1] # 0 BY <1>3, <1>5, <1>6, <1>7 DEF o
<1>8. CASE b[o + 1] = 0
  <2>1. l.digestsDefs = o + 1 /\ o + 1 \in Nat BY <1>2, <1>3, <1>8
  <2>2. l.digestsDefs # Absent BY <2>1, InfoAssumption
  <2>3. o + 1 + Info!NumBytes(total) <= ValsAt(b, o, total, total)
    <3>1. total \in 0 .. total OBVIOUS
    <3> QED BY <1>2, <1>8, <3>1, ValsGrow
  <2>4. o + 1 + Info!NumBytes(total) <= Len(b)
    <3>1. Info!NumBytes(total) \in Nat BY BytesOf
    <3> QED BY <1>2, <1>3, <1>4, <2>3, <3>1
  <2>5. Info!BitOf(SubSeq(b, o + 1 + 1, Len(b)), j) <=> BitAt(b, o + 1, j)
    BY <2>1, <2>4, BitInTail
  <2> QED BY <1>3, <1>5, <1>6, <1>8, <2>1, <2>2, <2>5 DEF o
<1> QED BY <1>7, <1>8

LEMMA CrcsBounded ==
  ASSUME NEW b, NEW x, NEW l, NEW total \in Nat, NEW j \in 0 .. total, x.sdCRCs \in Slices,
         CrcsRight(b, x, l, j, total), l.digestsVals # Absent
  PROVE  /\ x.sdCRCs # Absent /\ l.digestsVals <= x.sdCRCs[2] /\ l.digestIndex <= x.NumSubDigests
         /\ j = total => l.digestsVals = x.sdCRCs[2] /\ l.digestIndex = x.NumSubDigests
<1>1. x.sdCRCs # Absent BY DEF CrcsRight
<1>2. x.sdCRCs[1] \in Nat BY <1>1 DEF Slices
<1>3. /\ x.sdCRCs[2] = ValsAt(b, x.sdCRCs[1], total, total) /\ x.NumSubDigests = total
      /\ l.digestIndex = j /\ l.digestsVals = ValsAt(b, x.sdCRCs[1], total, j)
  BY <1>1 DEF CrcsRight, CrcsAt
<1>4. ValsAt(b, x.sdCRCs[1], total, j) <= ValsAt(b, x.sdCRCs[1], total, total)
  BY <1>2, ValsGrow
<1> QED BY <1>1, <1>3, <1>4

(* What EntryPlace says of the CRCs                                          *)
LEMMA EntryBounds ==
  InfoType /\ EntryPlace =>
    /\ CrcBounds
    /\ infoPc = "done" /\ loc.digestsVals # Absent =>
         loc.digestsVals = ssi.sdCRCs[2] /\ loc.digestIndex = ssi.NumSubDigests
<1> SUFFICES ASSUME InfoType, EntryPlace, loc.digestsVals # Absent
      PROVE  /\ ssi.sdCRCs # Absent /\ loc.digestsVals <= ssi.sdCRCs[2]
             /\ loc.digestIndex <= ssi.NumSubDigests
             /\ infoPc = "done" =>
                  loc.digestsVals = ssi.sdCRCs[2] /\ loc.digestIndex = ssi.NumSubDigests
  BY DEF CrcBounds
<1> DEFINE N == infoAr.NumFolders
           crcs == infoAr.FolderCRCs
<1>1. PICK c, st, sz, dg, m, e : Reads(bytes, N, crcs, ssi, loc, c, st, sz, dg, m, e)
  BY DEF EntryPlace
<1> DEFINE j == dg[loc.folder] + Behind(loc)
<1>2. /\ Steps(crcs, N, st, sz, dg) /\ InFolder(N, loc, st)
      /\ CrcsRight(bytes, ssi, loc, j, dg[N])
  BY <1>1 DEF Reads, PlanAt
<1>3. /\ N \in Nat /\ loc.folder \in Nat /\ loc.num \in Nat /\ loc.rem \in Nat
      /\ ssi.sdCRCs \in Slices
  BY InfoTypes
<1>4. j \in 0 .. dg[N] /\ dg[N] \in Nat
  <2>1. j \in 0 .. dg[N] BY <1>2, <1>3, FolderFacts
  <2>2. N \in 0 .. N BY <1>3
  <2> HIDE DEF j
  <2> QED BY <1>2, <1>3, <2>1, <2>2, StepsShape
<1>5. infoPc = "done" => j = dg[N]
  <2> SUFFICES ASSUME infoPc = "done" PROVE j = dg[N]
    OBVIOUS
  <2>1. loc.rem = 0 /\ loc.folder = N BY DEF EntryPlace
  <2>2. Behind(loc) = 0 BY <2>1 DEF Behind
  <2> QED BY <1>4, <2>1, <2>2
<1> HIDE DEF j
<1> QED BY <1>2, <1>3, <1>4, <1>5, CrcsBounded

LEMMA EntryCrcs == InfoType /\ EntryPlace => CrcBounds
BY EntryBounds

(* What a step of the second reading leaves as it is                         *)
LEMMA SecondReading ==
  ASSUME InfoInv, infoPc \in {"entries", "entry"}, infoPc' \in {"entry", "done"},
         UNCHANGED <<bytes, sdPos, infoAr>>, loc'.dataOffset = loc.dataOffset,
         InfoType', EntryPlace'
  PROVE  InfoInv'
<1>1. PacksRight' BY PacksStay
<1>2. CrcBounds'
  <2>1. (InfoType /\ EntryPlace => CrcBounds)' BY EntryCrcs, PTL
  <2> QED BY <2>1
<1>3. InfoPlace' BY DEF InfoPlace
<1> QED BY <1>1, <1>2, <1>3 DEF InfoInv

LEMMA OpenCrcsKeeps == ASSUME InfoInv, Info!OpenCrcs PROVE InfoInv'
<1> DEFINE N == infoAr.NumFolders
           crcs == infoAr.FolderCRCs
           o == ssi.sdCRCs[1]
           defs == IF ssi.sdCRCs = Absent THEN Absent
                   ELSE IF bytes[o + 1] # 0 THEN Absent ELSE o + 1
           vals == IF ssi.sdCRCs = Absent THEN Absent
                   ELSE IF bytes[o + 1] # 0 THEN o + 1
                   ELSE o + 1 + Info!NumBytes(ssi.NumSubDigests)
<1>1. /\ infoPc = "entries" /\ infoPc' = "entry" /\ UNCHANGED <<bytes, sdPos, infoAr, ssi>>
      /\ loc' = [loc EXCEPT !.folder = 0, !.num = 0, !.rem = 0, !.entry = 0,
                            !.digestsDefs = defs, !.digestsVals = vals]
  BY DEF Info!OpenCrcs, Info!To
<1>2. ListsPlace /\ loc.digestIndex = 0 BY <1>1 DEF InfoInv, InfoPlace
<1>3. /\ N \in Nat /\ ssi.sdCRCs \in Slices /\ ssi.sdSizes \in Slices
      /\ ssi.NumSubDigests \in Nat /\ bytes \in Seq(Nat)
  BY InfoTypes DEF InfoInv
<1>4. defs \in Offsets /\ vals \in Offsets
  <2>1. Info!NumBytes(ssi.NumSubDigests) \in Nat BY <1>3, BytesOf
  <2>2. ssi.sdCRCs # Absent => o \in Nat BY <1>3 DEF Slices
  <2> QED BY <2>1, <2>2 DEF Offsets
<1> HIDE DEF defs, vals
<1>5. loc' = [dataOffset |-> loc.dataOffset, left |-> loc.left, streams |-> loc.streams,
              digests |-> loc.digests, sizes |-> loc.sizes, folder |-> 0,
              num |-> 0, rem |-> 0, entry |-> 0, digestIndex |-> 0, digestsDefs |-> defs,
              digestsVals |-> vals]
  BY <1>1, <1>2, InfoShapes DEF InfoInv
<1>6. InfoType'
  <2>1. loc' \in [dataOffset : Nat, left : Nat, streams : Nat, digests : Nat, sizes : Nat,
                  folder : Nat, num : Nat, rem : Nat, entry : Nat, digestIndex : Nat,
                  digestsDefs : Offsets, digestsVals : Offsets]
    BY <1>4, <1>5, InfoTypes, LocTyped DEF InfoInv
  <2> QED BY <1>1, <2>1 DEF InfoInv, InfoType
<1>7. PICK m \in Nat, n \in Nat :
        /\ Known(n, m) /\ (ssi.sdCRCs # Absent => n = ssi.NumSubDigests)
        /\ SizesKnown(bytes, m, ssi.sdSizes) /\ CrcsAt(bytes, ssi.sdCRCs, n)
  BY <1>2 DEF ListsPlace
<1>8. PICK c, st, sz, dg :
        /\ PlanAt(bytes, N, crcs, ssi.sdNumSubStreams, 0, c, st, sz, dg)
        /\ ssi.NumTotalSubStreams = st[N] /\ n = dg[N] /\ sz[N] <= m
  BY <1>7 DEF Known, CountsKnown
<1>9. PICK e : ssi.sdSizes # Absent => Walk(bytes, m, e, ssi.sdSizes[2]) /\ e[0] = ssi.sdSizes[1]
  BY <1>7 DEF SizesKnown
<1>10. /\ loc'.folder = 0 /\ loc'.rem = 0 /\ loc'.entry = 0 /\ loc'.digestIndex = 0
       /\ loc'.digestsDefs = defs /\ loc'.digestsVals = vals
       /\ loc'.dataOffset = loc.dataOffset
  BY <1>5
<1>11. st[0] = 0 /\ sz[0] = 0 /\ dg[0] = 0 BY ONLY <1>8 DEF PlanAt, Steps
<1>12. Behind(loc') = 0 BY <1>10 DEF Behind
<1>13. CrcsRight(bytes, ssi, loc', 0, n)
  <2>1. CASE ssi.sdCRCs = Absent BY <1>10, <2>1 DEF CrcsRight, vals
  <2>2. CASE ssi.sdCRCs # Absent
    <3>1. n = ssi.NumSubDigests BY <1>7, <2>2
    <3>2. defs = IF bytes[o + 1] # 0 THEN Absent ELSE o + 1 BY <2>2 DEF defs
    <3>3. vals = ValsAt(bytes, o, n, 0)
      <4>1. o \in Nat BY <1>3, <2>2 DEF Slices
      <4>2. Info!NumBytes(n) \in Nat BY BytesOf
      <4>3. CASE bytes[o + 1] # 0 BY <2>2, <4>1, <4>3 DEF vals, ValsAt
      <4>4. CASE bytes[o + 1] = 0
        <5>1. vals = o + 1 + Info!NumBytes(n) BY <2>2, <3>1, <4>4 DEF vals
        <5>2. ValsAt(bytes, o, n, 0) = o + 1 + Info!NumBytes(n) + 4 * 0
          BY <4>4, NoBits DEF ValsAt
        <5> HIDE DEF o
        <5> QED BY <4>1, <4>2, <5>1, <5>2
      <4> QED BY <4>3, <4>4
    <3> QED BY <1>7, <1>10, <2>2, <3>1, <3>2, <3>3 DEF CrcsRight
  <2> QED BY <2>1, <2>2
<1>14. Reads(bytes, N, crcs, ssi, loc', c, st, sz, dg, m, e)
  <2>1. InFolder(N, loc', st) BY <1>3, <1>10, <1>11, <1>12 DEF InFolder
  <2>2. sz[loc'.folder] + Behind(loc') = 0 /\ dg[loc'.folder] + Behind(loc') = 0
    BY <1>10, <1>11, <1>12
  <2>3. ~(loc'.rem > 0) BY <1>10
  <2> QED BY <1>7, <1>8, <1>9, <1>10, <1>13, <2>1, <2>2, <2>3 DEF Reads
<1>15. EntryPlace' BY <1>1, <1>14 DEF EntryPlace
<1> QED BY <1>1, <1>6, <1>10, <1>15, SecondReading

(* What the next count of the second reading is: there is one, and it is that*)
(* of the folder.                                                            *)
LEMMA NextCountIs ==
  ASSUME InfoInv, NEW c, NEW st, NEW sz, NEW dg, NEW i \in 0 .. infoAr.NumFolders - 1,
         PlanAt(bytes, infoAr.NumFolders, infoAr.FolderCRCs, ssi.sdNumSubStreams, i,
                c, st, sz, dg)
  PROVE  /\ ~Info!NoCount /\ Info!NextCount \in Nat
         /\ Info!NextCount = st[i + 1] - st[i]
         /\ Info!CountRead = [NumTotalSubStreams |-> ssi.NumTotalSubStreams,
                              NumSubDigests |-> ssi.NumSubDigests,
                              sdNumSubStreams |-> Info!CountRead.sdNumSubStreams,
                              sdSizes |-> ssi.sdSizes, sdCRCs |-> ssi.sdCRCs]
         /\ Info!CountRead.sdNumSubStreams \in Slices
         /\ PlanAt(bytes, infoAr.NumFolders, infoAr.FolderCRCs,
                   Info!CountRead.sdNumSubStreams, i + 1, c, st, sz, dg)
<1> DEFINE N == infoAr.NumFolders
           crcs == infoAr.FolderCRCs
           slice == ssi.sdNumSubStreams
           rest == IF slice = Absent THEN Absent
                   ELSE <<slice[1] + Info!ReadLength(bytes[slice[1] + 1]), slice[2]>>
<1>1. /\ bytes \in Seq(Nat) /\ N \in Nat /\ slice \in Slices BY InfoTypes DEF InfoInv
<1>2. /\ Steps(crcs, N, st, sz, dg) /\ i \in 0 .. N /\ i + 1 \in 0 .. N
  <2>1. Steps(crcs, N, st, sz, dg) BY DEF PlanAt
  <2>2. i \in 0 .. N - 1 OBVIOUS
  <2> HIDE DEF N
  <2>3. i \in 0 .. N /\ i + 1 \in 0 .. N BY ONLY <1>1, <2>2
  <2> QED BY <2>1, <2>3
<1>3. st[i] \in Nat /\ st[i + 1] \in Nat /\ st[i + 1] - st[i] \in Nat
  <2>1. st[i] \in Nat /\ st[i + 1] \in Nat BY <1>1, <1>2, StepsShape
  <2>2. st[i + 1] - st[i] \in Nat BY <1>2 DEF Steps
  <2> QED BY <2>1, <2>2
<1>4. Info!CountRead = [ssi EXCEPT !.sdNumSubStreams = rest] BY DEF Info!CountRead
<1> HIDE DEF rest
<1>5. Info!CountRead = [NumTotalSubStreams |-> ssi.NumTotalSubStreams,
                        NumSubDigests |-> ssi.NumSubDigests, sdNumSubStreams |-> rest,
                        sdSizes |-> ssi.sdSizes, sdCRCs |-> ssi.sdCRCs]
  BY <1>4, InfoShapes DEF InfoInv
<1>6. Info!CountRead.sdNumSubStreams = rest BY <1>5
<1>7. CASE slice = Absent
  <2>1. ~Info!NoCount /\ Info!NextCount = 1 BY <1>7 DEF Info!NoCount, Info!NextCount
  <2>2. rest = Absent BY <1>7 DEF rest
  <2>3. st[i + 1] = st[i] + 1 BY <1>7 DEF PlanAt
  <2>4. Info!NextCount = st[i + 1] - st[i] BY <1>3, <2>1, <2>3
  <2>5. PlanAt(bytes, N, crcs, rest, i + 1, c, st, sz, dg) BY <1>7, <2>2 DEF PlanAt
  <2>6. rest \in Slices BY <2>2 DEF Slices
  <2> QED BY <1>5, <1>6, <2>1, <2>4, <2>5, <2>6
<1>8. CASE slice # Absent
  <2>1. slice \in Nat \X Nat BY <1>1, <1>8 DEF Slices
  <2>2. Walk(bytes, N, c, slice[2]) /\ Adds(bytes, N, c, st) /\ slice[1] = c[i]
    BY <1>8 DEF PlanAt
  <2>3. c[i] \in Nat /\ c[i + 1] \in Nat BY <1>2, <2>2 DEF Walk
  <2>4. /\ c[i + 1] = c[i] + LengthAt(bytes, c[i]) /\ c[i + 1] <= slice[2]
        /\ slice[2] <= Len(bytes)
    BY <2>2 DEF Walk
  <2>5. slice[1] + LengthAt(bytes, slice[1]) <= slice[2] BY <2>2, <2>4
  <2>6. /\ Info!Holds(slice) /\ Info!ReadValue(Info!At(slice)) = ValueAt(bytes, slice[1])
        /\ Info!ReadLength(bytes[slice[1] + 1]) = LengthAt(bytes, slice[1])
    BY <1>1, <2>1, <2>4, <2>5, SliceHolds
  <2>7. ~Info!NoCount BY <2>6 DEF Info!NoCount
  <2>8. Info!NextCount = ValueAt(bytes, c[i]) BY <1>8, <2>2, <2>6 DEF Info!NextCount
  <2>9. st[i + 1] = st[i] + ValueAt(bytes, c[i]) BY <2>2 DEF Adds
  <2>10. Info!NextCount = st[i + 1] - st[i]
    <3>1. ValueAt(bytes, c[i]) \in Nat
      <4>1. /\ Info!Ones(bytes[c[i] + 1]) \in Nat
            /\ LengthAt(bytes, c[i]) = Info!Ones(bytes[c[i] + 1]) + 1
        BY OnesNatural DEF LengthAt, Info!ReadLength
      <4>2. \A j \in 1 .. LengthAt(bytes, c[i]) : bytes[c[i] + j] \in Nat
        <5>1. Len(bytes) \in Nat /\ slice[2] \in Nat BY <1>1, <2>1, LenProperties
        <5>2. \A j \in 1 .. LengthAt(bytes, c[i]) : c[i] + j \in 1 .. Len(bytes)
          <6> DEFINE a == c[i]
                     l == LengthAt(bytes, a)
                     t == Len(bytes)
          <6>1. a \in Nat /\ l \in Nat /\ t \in Nat /\ a + l <= t
            <7>1. l \in Nat BY <4>1
            <7>2. a \in Nat /\ a + l <= slice[2] /\ slice[2] <= t BY <2>3, <2>4
            <7> HIDE DEF a, l, t
            <7> QED BY <5>1, <7>1, <7>2 DEF t
          <6> HIDE DEF a, l, t
          <6>2. \A j \in 1 .. l : a + j \in 1 .. t BY ONLY <6>1
          <6> QED BY ONLY <6>2 DEF a, l, t
        <5> QED BY <1>1, <5>2, ElementOfSeq
      <4>3. bytes[c[i] + 1] \in Nat BY <4>1, <4>2
      <4>4. CASE Info!Ones(bytes[c[i] + 1]) = 0 BY <4>3, <4>4 DEF ValueAt
      <4>5. CASE Info!Ones(bytes[c[i] + 1]) = 1
        <5>1. bytes[c[i] + 2] \in Nat BY <4>1, <4>2, <4>5
        <5>2. ValueAt(bytes, c[i]) = (bytes[c[i] + 1] % 64) * 256 + bytes[c[i] + 2]
          BY <4>5 DEF ValueAt
        <5> QED BY <4>3, <5>1, <5>2
      <4>6. CASE Info!Ones(bytes[c[i] + 1]) \notin {0, 1}
        <5>1. bytes[c[i] + 2] \in Nat /\ bytes[c[i] + 3] \in Nat BY <4>1, <4>2, <4>6
        <5>2. ValueAt(bytes, c[i]) = bytes[c[i] + 2] + 256 * bytes[c[i] + 3]
          BY <4>6 DEF ValueAt
        <5> QED BY <5>1, <5>2
      <4> QED BY <4>4, <4>5, <4>6
    <3> QED BY <1>3, <2>8, <2>9, <3>1
  <2>11. rest = <<c[i + 1], slice[2]>> BY <1>8, <2>2, <2>4, <2>6 DEF rest
  <2>12. /\ rest \in Slices /\ rest # Absent /\ rest[1] = c[i + 1] /\ rest[2] = slice[2]
    BY <2>1, <2>3, <2>11, PairOfNat
  <2>13. PlanAt(bytes, N, crcs, rest, i + 1, c, st, sz, dg)
    BY <1>2, <2>2, <2>12 DEF PlanAt
  <2> QED BY <1>3, <1>5, <1>6, <2>7, <2>10, <2>12, <2>13
<1> QED BY <1>7, <1>8

(* What a state of the second reading has                                    *)
LEMMA EntryFacts ==
  ASSUME InfoInv, infoPc = "entry"
  PROVE  /\ EntryPlace
         /\ infoAr.NumFolders \in Nat /\ bytes \in Seq(Nat)
         /\ loc.folder \in Nat /\ loc.num \in Nat /\ loc.rem \in Nat /\ loc.entry \in Nat
         /\ ssi.sdSizes \in Slices /\ ssi.sdCRCs \in Slices
BY InfoTypes DEF InfoInv, InfoPlace

LEMMA SsiReadTyped ==
  ASSUME InfoType, NEW u \in Slices, NEW v \in Slices,
         ssi' = [NumTotalSubStreams |-> ssi.NumTotalSubStreams,
                 NumSubDigests |-> ssi.NumSubDigests, sdNumSubStreams |-> u, sdSizes |-> v,
                 sdCRCs |-> ssi.sdCRCs]
  PROVE  ssi' \in [NumTotalSubStreams : Nat, NumSubDigests : Nat,
                   sdNumSubStreams : Slices, sdSizes : Slices, sdCRCs : Slices]
BY InfoTypes, SsiTyped

LEMMA NextFolderKeeps == ASSUME InfoInv, Info!NextFolder PROVE InfoInv'
<1> DEFINE N == infoAr.NumFolders
           crcs == infoAr.FolderCRCs
           i == loc.folder
           v == Info!NextCount
<1>1. /\ infoPc = "entry" /\ loc.rem = 0 /\ loc.entry < ssi.NumTotalSubStreams
      /\ UNCHANGED <<bytes, sdPos, infoAr>>
      /\ i # N /\ ~Info!NoCount =>
           /\ infoPc' = "entry" /\ ssi' = Info!CountRead
           /\ loc' = [loc EXCEPT !.num = v, !.rem = v, !.folder = IF v = 0 THEN @ + 1 ELSE @]
  BY DEF Info!NextFolder, Info!To, Info!Entries
<1>2. /\ EntryPlace /\ N \in Nat /\ bytes \in Seq(Nat) /\ i \in Nat /\ loc.entry \in Nat
      /\ loc.num \in Nat /\ ssi.sdSizes \in Slices
  BY <1>1, EntryFacts
<1>3. PICK c, st, sz, dg, m, e : Reads(bytes, N, crcs, ssi, loc, c, st, sz, dg, m, e)
  BY <1>2 DEF EntryPlace
<1>4. /\ PlanAt(bytes, N, crcs, ssi.sdNumSubStreams, i, c, st, sz, dg)
      /\ ssi.NumTotalSubStreams = st[N] /\ InFolder(N, loc, st)
      /\ m \in Nat /\ sz[N] <= m /\ Steps(crcs, N, st, sz, dg)
      /\ CrcsRight(bytes, ssi, loc, dg[i] + Behind(loc), dg[N])
      /\ ssi.sdSizes # Absent =>
           Walk(bytes, m, e, ssi.sdSizes[2]) /\ ssi.sdSizes[1] = e[sz[i] + Behind(loc)]
  BY <1>1, <1>3 DEF Reads, PlanAt
<1>5. Behind(loc) = 0 BY <1>1 DEF Behind
<1>6. i \in 0 .. N /\ loc.entry = st[i]
  <2>1. i \in 0 .. N /\ loc.entry = st[i] + 0 BY <1>2, <1>4, <1>5 DEF InFolder
  <2>2. st[i] \in Nat BY <1>2, <1>4, <2>1, StepsShape
  <2> QED BY <2>1, <2>2
<1>7. i \in 0 .. N - 1
  <2>1. i # N
    <3> SUFFICES ASSUME i = N PROVE FALSE
      OBVIOUS
    <3>1. loc.entry = ssi.NumTotalSubStreams BY <1>4, <1>6
    <3> QED BY <1>1, <1>2, <3>1
  <2> QED BY <1>2, <1>6, <2>1
<1>8. /\ ~Info!NoCount /\ v \in Nat
      /\ v = st[i + 1] - st[i]
      /\ Info!CountRead = [NumTotalSubStreams |-> ssi.NumTotalSubStreams,
                           NumSubDigests |-> ssi.NumSubDigests,
                           sdNumSubStreams |-> Info!CountRead.sdNumSubStreams,
                           sdSizes |-> ssi.sdSizes, sdCRCs |-> ssi.sdCRCs]
      /\ Info!CountRead.sdNumSubStreams \in Slices
      /\ PlanAt(bytes, N, crcs, Info!CountRead.sdNumSubStreams, i + 1, c, st, sz, dg)
  BY <1>4, <1>7, NextCountIs
<1> DEFINE u == Info!CountRead.sdNumSubStreams
           f == IF v = 0 THEN i + 1 ELSE i
<1>9. /\ st[i + 1] = st[i] + v /\ sz[i + 1] = sz[i] + Stored(v)
      /\ dg[i + 1] = dg[i] + DigestsOf(crcs, v, i)
  <2> HIDE DEF v
  <2>1. StepOf(N, st, i, v) BY <1>7, <1>8 DEF StepOf
  <2> QED BY <1>2, <1>4, <2>1, StepsAdd
<1> HIDE DEF v, u
<1>10. /\ infoPc' = "entry" /\ ssi' = Info!CountRead
       /\ loc' = [loc EXCEPT !.num = v, !.rem = v, !.folder = f]
  <2>1. i # N BY <1>2, <1>7
  <2> QED BY <1>1, <1>8, <2>1
<1>11. ssi' = [NumTotalSubStreams |-> ssi.NumTotalSubStreams,
               NumSubDigests |-> ssi.NumSubDigests, sdNumSubStreams |-> u,
               sdSizes |-> ssi.sdSizes, sdCRCs |-> ssi.sdCRCs]
  BY <1>8, <1>10 DEF u
<1> HIDE DEF f
<1>12. loc' = [dataOffset |-> loc.dataOffset, left |-> loc.left, streams |-> loc.streams,
              digests |-> loc.digests, sizes |-> loc.sizes, folder |-> f,
              num |-> v, rem |-> v, entry |-> loc.entry,
              digestIndex |-> loc.digestIndex, digestsDefs |-> loc.digestsDefs,
              digestsVals |-> loc.digestsVals]
  BY <1>10, InfoShapes DEF InfoInv
<1>13. f \in Nat BY <1>2 DEF f
<1>14. InfoType'
  <2>1. loc' \in [dataOffset : Nat, left : Nat, streams : Nat, digests : Nat, sizes : Nat,
                  folder : Nat, num : Nat, rem : Nat, entry : Nat, digestIndex : Nat,
                  digestsDefs : Offsets, digestsVals : Offsets]
    BY <1>8, <1>12, <1>13, InfoTypes, LocTyped DEF InfoInv
  <2>2. u \in Slices BY <1>8 DEF u
  <2>3. ssi' \in [NumTotalSubStreams : Nat, NumSubDigests : Nat,
                  sdNumSubStreams : Slices, sdSizes : Slices, sdCRCs : Slices]
    BY <1>2, <1>11, <2>2, SsiReadTyped DEF InfoInv
  <2> QED BY <1>1, <2>1, <2>3 DEF InfoInv, InfoType
<1>15. /\ loc'.folder = f /\ loc'.num = v /\ loc'.rem = v /\ loc'.entry = loc.entry
       /\ loc'.digestIndex = loc.digestIndex /\ loc'.digestsDefs = loc.digestsDefs
       /\ loc'.digestsVals = loc.digestsVals /\ loc'.dataOffset = loc.dataOffset
  BY <1>12
<1>16. /\ ssi'.NumTotalSubStreams = ssi.NumTotalSubStreams
       /\ ssi'.NumSubDigests = ssi.NumSubDigests /\ ssi'.sdNumSubStreams = u
       /\ ssi'.sdSizes = ssi.sdSizes /\ ssi'.sdCRCs = ssi.sdCRCs
  BY <1>11
<1>17. Behind(loc') = 0
  <2>1. v - v = 0 BY <1>8
  <2> QED BY <1>15, <2>1 DEF Behind
<1>18. /\ sz[f] = sz[i] /\ dg[f] = dg[i] /\ st[f] = st[i]
       /\ (IF loc'.rem > 0 THEN f + 1 ELSE f) = i + 1
  <2>1. st[i] \in Nat /\ sz[i] \in Nat /\ dg[i] \in Nat BY <1>2, <1>4, <1>6, StepsShape
  <2>2. CASE v = 0
    <3>1. f = i + 1 /\ Stored(v) = 0 /\ DigestsOf(crcs, v, i) = 0
      BY <2>2 DEF f, Stored, DigestsOf
    <3>2. ~(loc'.rem > 0) BY <1>15, <2>2
    <3> QED BY <1>9, <2>1, <2>2, <3>1, <3>2
  <2>3. CASE v # 0
    <3>1. f = i BY <2>3 DEF f
    <3>2. loc'.rem > 0 BY <1>8, <1>15, <2>3
    <3> QED BY <3>1, <3>2
  <2> QED BY <2>2, <2>3
<1>19. InFolder(N, loc', st)
  <2>1. f <= N BY <1>2, <1>7 DEF f
  <2>2. v > 0 => f = i /\ i < N BY <1>2, <1>7, <1>8 DEF f
  <2>3. v <= v BY <1>8
  <2>4. st[i] + 0 = st[i]
    <3>1. st[i] \in Nat BY <1>2, <1>4, <1>6, StepsShape
    <3> QED BY <3>1
  <2> QED BY <1>6, <1>8, <1>15, <1>17, <1>18, <2>1, <2>2, <2>3, <2>4 DEF InFolder
<1>20. CrcsRight(bytes, ssi', loc', dg[loc'.folder] + Behind(loc'), dg[N])
  BY <1>4, <1>5, <1>15, <1>16, <1>17, <1>18 DEF CrcsRight
<1>21. Reads(bytes, N, crcs, ssi', loc', c, st, sz, dg, m, e)
  <2>1. PlanAt(bytes, N, crcs, u, i + 1, c, st, sz, dg) BY <1>8 DEF u
  <2>2. sz[loc'.folder] + Behind(loc') = sz[i] + Behind(loc) BY <1>5, <1>15, <1>17, <1>18
  <2> QED BY <1>4, <1>15, <1>16, <1>18, <1>19, <1>20, <2>1, <2>2 DEF Reads
<1>22. EntryPlace' BY <1>1, <1>10, <1>21 DEF EntryPlace
<1> QED BY <1>1, <1>10, <1>14, <1>15, <1>22, SecondReading

LEMMA LeftFoldersKeeps == ASSUME InfoInv, Info!LeftFolders PROVE InfoInv'
<1> DEFINE N == infoAr.NumFolders
           crcs == infoAr.FolderCRCs
           i == loc.folder
<1>1. /\ infoPc = "entry" /\ loc.rem = 0 /\ loc.entry = ssi.NumTotalSubStreams
      /\ UNCHANGED <<bytes, sdPos, infoAr>>
  BY DEF Info!LeftFolders, Info!To, Info!Entries
<1>2. /\ EntryPlace /\ N \in Nat /\ bytes \in Seq(Nat) /\ i \in Nat /\ loc.entry \in Nat
      /\ loc.num \in Nat /\ ssi.sdSizes \in Slices
  BY <1>1, EntryFacts
<1>3. PICK c, st, sz, dg, m, e : Reads(bytes, N, crcs, ssi, loc, c, st, sz, dg, m, e)
  BY <1>2 DEF EntryPlace
<1>4. /\ PlanAt(bytes, N, crcs, ssi.sdNumSubStreams, i, c, st, sz, dg)
      /\ ssi.NumTotalSubStreams = st[N] /\ InFolder(N, loc, st)
      /\ m \in Nat /\ sz[N] <= m /\ Steps(crcs, N, st, sz, dg)
      /\ CrcsRight(bytes, ssi, loc, dg[i] + Behind(loc), dg[N])
      /\ ssi.sdSizes # Absent =>
           Walk(bytes, m, e, ssi.sdSizes[2]) /\ ssi.sdSizes[1] = e[sz[i] + Behind(loc)]
  BY <1>1, <1>3 DEF Reads, PlanAt
<1>5. Behind(loc) = 0 BY <1>1 DEF Behind
<1>6. i \in 0 .. N /\ loc.entry = st[i] /\ st[i] \in Nat /\ sz[i] \in Nat /\ dg[i] \in Nat
  <2>1. i \in 0 .. N /\ loc.entry = st[i] + 0 BY <1>2, <1>4, <1>5 DEF InFolder
  <2>2. st[i] \in Nat /\ sz[i] \in Nat /\ dg[i] \in Nat BY <1>2, <1>4, <2>1, StepsShape
  <2> QED BY <2>1, <2>2
<1>7. CASE i = N
  <2>1. ssi.sdNumSubStreams = Absent \/ ssi.sdNumSubStreams[1] = ssi.sdNumSubStreams[2]
    BY <1>4, <1>7 DEF PlanAt, Walk
  <2>2. infoPc' = "done" /\ ssi' = ssi /\ loc' = loc
    BY <1>1, <1>7, <2>1 DEF Info!LeftFolders, Info!To
  <2>3. InfoType' BY <1>1, <2>2 DEF InfoInv, InfoType
  <2>4. EntryPlace' BY <1>1, <1>3, <1>7, <2>2 DEF EntryPlace
  <2> QED BY <1>1, <2>2, <2>3, <2>4, SecondReading
<1>8. CASE i # N
  <2>1. i \in 0 .. N - 1 /\ i + 1 \in 0 .. N BY <1>2, <1>6, <1>8
  <2> DEFINE v == Info!NextCount
  <2>2. /\ ~Info!NoCount /\ v \in Nat
        /\ v = st[i + 1] - st[i]
        /\ Info!CountRead = [NumTotalSubStreams |-> ssi.NumTotalSubStreams,
                             NumSubDigests |-> ssi.NumSubDigests,
                             sdNumSubStreams |-> Info!CountRead.sdNumSubStreams,
                             sdSizes |-> ssi.sdSizes, sdCRCs |-> ssi.sdCRCs]
        /\ Info!CountRead.sdNumSubStreams \in Slices
        /\ PlanAt(bytes, N, crcs, Info!CountRead.sdNumSubStreams, i + 1, c, st, sz, dg)
    BY <1>4, <2>1, NextCountIs
  <2>3. /\ st[i + 1] = st[i] + v /\ sz[i + 1] = sz[i] + Stored(v)
        /\ dg[i + 1] = dg[i] + DigestsOf(crcs, v, i)
    <3> HIDE DEF v
    <3>1. StepOf(N, st, i, v) BY <2>1, <2>2 DEF StepOf
    <3> QED BY <1>2, <1>4, <3>1, StepsAdd
  <2> DEFINE u == Info!CountRead.sdNumSubStreams
  <2>4. v = 0
    <3>1. st[i + 1] <= st[N] BY <1>2, <1>4, <2>1, StepsShape
    <3>2. st[i] = st[N] BY <1>1, <1>4, <1>6
    <3> HIDE DEF v
    <3> QED BY <1>6, <2>2, <2>3, <3>1, <3>2
  <2>5. ssi.sdNumSubStreams # Absent
    <3> SUFFICES ASSUME ssi.sdNumSubStreams = Absent PROVE FALSE
      OBVIOUS
    <3>1. st[i + 1] = st[i] + 1 BY <1>4, <2>1 DEF PlanAt
    <3>2. st[i + 1] = st[i] + 0 BY <2>3, <2>4
    <3> QED BY <1>6, <3>1, <3>2
  <2>6. /\ infoPc' = "entry" /\ ssi' = Info!CountRead
        /\ loc' = [loc EXCEPT !.folder = i + 1]
    BY <1>1, <1>8, <2>2, <2>4, <2>5 DEF Info!LeftFolders, Info!To
  <2> HIDE DEF u
  <2>7. ssi' = [NumTotalSubStreams |-> ssi.NumTotalSubStreams,
               NumSubDigests |-> ssi.NumSubDigests, sdNumSubStreams |-> u,
               sdSizes |-> ssi.sdSizes, sdCRCs |-> ssi.sdCRCs]
    BY <2>2, <2>6 DEF u
  <2>8. loc' = [dataOffset |-> loc.dataOffset, left |-> loc.left, streams |-> loc.streams,
              digests |-> loc.digests, sizes |-> loc.sizes, folder |-> i + 1,
              num |-> loc.num, rem |-> loc.rem, entry |-> loc.entry,
              digestIndex |-> loc.digestIndex, digestsDefs |-> loc.digestsDefs,
              digestsVals |-> loc.digestsVals]
    BY <2>6, InfoShapes DEF InfoInv
  <2>9. InfoType'
    <3>1. i + 1 \in Nat BY <1>2
    <3>2. loc' \in [dataOffset : Nat, left : Nat, streams : Nat, digests : Nat, sizes : Nat,
                    folder : Nat, num : Nat, rem : Nat, entry : Nat, digestIndex : Nat,
                    digestsDefs : Offsets, digestsVals : Offsets]
      BY <2>8, <3>1, InfoTypes, LocTyped DEF InfoInv
    <3>3. u \in Slices BY <2>2 DEF u
    <3>4. ssi' \in [NumTotalSubStreams : Nat, NumSubDigests : Nat,
                    sdNumSubStreams : Slices, sdSizes : Slices, sdCRCs : Slices]
      BY <1>2, <2>7, <3>3, SsiReadTyped DEF InfoInv
    <3> QED BY <1>1, <3>2, <3>4 DEF InfoInv, InfoType
  <2>10. /\ loc'.folder = i + 1 /\ loc'.rem = 0 /\ loc'.entry = loc.entry
         /\ loc'.digestIndex = loc.digestIndex /\ loc'.digestsDefs = loc.digestsDefs
         /\ loc'.digestsVals = loc.digestsVals /\ loc'.dataOffset = loc.dataOffset
    BY <1>1, <2>8
  <2>11. /\ ssi'.NumTotalSubStreams = ssi.NumTotalSubStreams
         /\ ssi'.NumSubDigests = ssi.NumSubDigests /\ ssi'.sdNumSubStreams = u
         /\ ssi'.sdSizes = ssi.sdSizes /\ ssi'.sdCRCs = ssi.sdCRCs
    BY <2>7
  <2>12. Behind(loc') = 0 /\ ~(loc'.rem > 0) BY <2>10 DEF Behind
  <2>13. sz[i + 1] = sz[i] /\ dg[i + 1] = dg[i] /\ st[i + 1] = st[i]
    <3>1. Stored(v) = 0 /\ DigestsOf(crcs, v, i) = 0 BY <2>4 DEF Stored, DigestsOf
    <3> HIDE DEF v
    <3> QED BY <1>6, <2>3, <2>4, <3>1
  <2>14. InFolder(N, loc', st)
    <3>1. i + 1 <= N /\ st[i] + 0 = st[i] BY <1>6, <2>1
    <3> QED BY <1>6, <2>10, <2>12, <2>13, <3>1 DEF InFolder
  <2>15. CrcsRight(bytes, ssi', loc', dg[loc'.folder] + Behind(loc'), dg[N])
    BY <1>4, <1>5, <2>10, <2>11, <2>12, <2>13 DEF CrcsRight
  <2>16. Reads(bytes, N, crcs, ssi', loc', c, st, sz, dg, m, e)
    <3>1. PlanAt(bytes, N, crcs, u, i + 1, c, st, sz, dg) BY <2>2 DEF u
    <3>2. sz[loc'.folder] + Behind(loc') = sz[i] + Behind(loc)
      BY <1>5, <2>10, <2>12, <2>13
    <3> QED BY <1>4, <2>10, <2>11, <2>12, <2>14, <2>15, <3>1, <3>2 DEF Reads
  <2>17. EntryPlace' BY <1>1, <2>6, <2>16 DEF EntryPlace
  <2> QED BY <1>1, <2>6, <2>9, <2>10, <2>17, SecondReading
<1> QED BY <1>7, <1>8

LEMMA ReadEntryKeeps == ASSUME InfoInv, Info!ReadEntry PROVE InfoInv'
<1> DEFINE N == infoAr.NumFolders
           crcs == infoAr.FolderCRCs
           i == loc.folder
           last == loc.rem = 1
<1>1. infoPc = "entry" /\ loc.rem > 0 /\ UNCHANGED <<bytes, sdPos, infoAr>>
  BY DEF Info!ReadEntry, Info!To
<1>2. /\ EntryPlace /\ N \in Nat /\ bytes \in Seq(Nat) /\ i \in Nat /\ loc.entry \in Nat
      /\ loc.num \in Nat /\ loc.rem \in Nat /\ ssi.sdSizes \in Slices /\ ssi.sdCRCs \in Slices
  BY <1>1, EntryFacts
<1>3. PICK c, st, sz, dg, m, e : Reads(bytes, N, crcs, ssi, loc, c, st, sz, dg, m, e)
  BY <1>2 DEF EntryPlace
<1> DEFINE d == Behind(loc)
           x == sz[i] + d
           j == dg[i] + d
<1>4. /\ PlanAt(bytes, N, crcs, ssi.sdNumSubStreams, i + 1, c, st, sz, dg)
      /\ ssi.NumTotalSubStreams = st[N] /\ InFolder(N, loc, st)
      /\ m \in Nat /\ sz[N] <= m /\ Steps(crcs, N, st, sz, dg)
      /\ CrcsRight(bytes, ssi, loc, j, dg[N])
      /\ ssi.sdSizes # Absent => Walk(bytes, m, e, ssi.sdSizes[2]) /\ ssi.sdSizes[1] = e[x]
  BY <1>1, <1>3 DEF Reads, PlanAt
<1>5. /\ i \in 0 .. N - 1 /\ loc.num > 0 /\ d = loc.num - loc.rem /\ d \in Nat
      /\ st[i + 1] = st[i] + loc.num /\ sz[i + 1] = sz[i] + loc.num - 1
      /\ sz[i + 1] <= sz[N]
      /\ dg[i + 1] = dg[i] + DigestsOf(crcs, loc.num, i) /\ dg[i + 1] <= dg[N]
  BY <1>1, <1>2, <1>4, FolderFacts
<1>6. /\ st[i] \in Nat /\ sz[i] \in Nat /\ dg[i] \in Nat /\ st[i + 1] \in Nat
      /\ sz[i + 1] \in Nat /\ dg[i + 1] \in Nat /\ sz[N] \in Nat /\ dg[N] \in Nat
  <2>1. i \in 0 .. N /\ i + 1 \in 0 .. N /\ N \in 0 .. N BY <1>2, <1>5
  <2> QED BY <1>2, <1>4, <2>1, StepsShape
<1>7. loc.entry = st[i] + d /\ loc.rem <= loc.num BY <1>1, <1>4 DEF InFolder
<1> HIDE DEF d
<1>8. ~last => x \in 0 .. m - 1
  <2> SUFFICES ASSUME ~last PROVE x \in 0 .. m - 1
    OBVIOUS
  <2>1. loc.rem >= 2 BY <1>1, <1>2
  <2>2. sz[i] + d < sz[i] + loc.num - 1
    <3>1. d < loc.num - 1 BY <1>2, <1>5, <2>1
    <3> DEFINE y == sz[i]
    <3>2. y \in Nat /\ d \in Nat /\ loc.num \in Nat BY <1>2, <1>5, <1>6
    <3> HIDE DEF y
    <3>3. y + d < y + loc.num - 1 BY ONLY <3>1, <3>2
    <3> QED BY <3>3 DEF y
  <2> QED BY <1>4, <1>5, <1>6, <2>2
<1>9. ssi.sdSizes # Absent /\ ~last =>
        /\ ssi.sdSizes \in Nat \X Nat
        /\ e[x] \in Nat /\ e[x + 1] \in Nat /\ e[x + 1] = e[x] + LengthAt(bytes, e[x])
        /\ Info!Holds(ssi.sdSizes) /\ Info!ReadLength(bytes[e[x] + 1]) = LengthAt(bytes, e[x])
  <2> SUFFICES ASSUME ssi.sdSizes # Absent, ~last
        PROVE /\ ssi.sdSizes \in Nat \X Nat
              /\ e[x] \in Nat /\ e[x + 1] \in Nat /\ e[x + 1] = e[x] + LengthAt(bytes, e[x])
              /\ Info!Holds(ssi.sdSizes)
              /\ Info!ReadLength(bytes[e[x] + 1]) = LengthAt(bytes, e[x])
    OBVIOUS
  <2>1. ssi.sdSizes \in Nat \X Nat BY <1>2 DEF Slices
  <2>2. Walk(bytes, m, e, ssi.sdSizes[2]) /\ ssi.sdSizes[1] = e[x] /\ x \in 0 .. m - 1
    BY <1>4, <1>8
  <2> HIDE DEF x
  <2>3. x \in 0 .. m /\ x + 1 \in 0 .. m BY <1>4, <2>2
  <2>4. /\ e[x] \in Nat /\ e[x + 1] \in Nat /\ e[x + 1] = e[x] + LengthAt(bytes, e[x])
        /\ e[x + 1] <= ssi.sdSizes[2] /\ ssi.sdSizes[2] <= Len(bytes)
    BY <2>2, <2>3 DEF Walk
  <2>5. ssi.sdSizes[1] + LengthAt(bytes, ssi.sdSizes[1]) <= ssi.sdSizes[2] BY <2>2, <2>4
  <2>6. /\ Info!Holds(ssi.sdSizes)
        /\ Info!ReadLength(bytes[ssi.sdSizes[1] + 1]) = LengthAt(bytes, ssi.sdSizes[1])
    BY <1>2, <2>1, <2>4, <2>5, SliceHolds
  <2> QED BY <2>1, <2>2, <2>4, <2>6
<1>10. CASE Info!SizeShort
  <2>1. ssi.sdSizes = Absent BY <1>9, <1>10 DEF Info!SizeShort, Info!IsLast
  <2>2. infoPc' = "failed" /\ ssi' = ssi /\ loc' = loc
    BY <1>10, <2>1 DEF Info!ReadEntry, Info!To
  <2> QED BY <1>1, <2>2, InfoFails
<1>11. CASE ~Info!SizeShort
  <2> DEFINE sizes == IF last THEN ssi.sdSizes ELSE <<e[x + 1], ssi.sdSizes[2]>>
             read == Info!CrcRead
             f == IF last THEN i + 1 ELSE i
             vals == IF read /\ Info!Defined THEN loc.digestsVals + 4 ELSE loc.digestsVals
             index == IF read THEN loc.digestIndex + 1 ELSE loc.digestIndex
  <2>1. /\ infoPc' = "entry"
        /\ ssi' = IF last THEN ssi
                  ELSE [ssi EXCEPT !.sdSizes[1] = @ + Info!ReadLength(bytes[@ + 1])]
        /\ loc' = [loc EXCEPT !.rem = loc.rem - 1, !.entry = loc.entry + 1, !.folder = f,
                              !.digestsVals = vals, !.digestIndex = index]
    BY <1>11 DEF Info!ReadEntry, Info!To, Info!IsLast
  <2>2. ~last => ssi.sdSizes # Absent BY <1>11 DEF Info!SizeShort, Info!IsLast
  <2>3. sizes \in Slices
    <3>1. CASE last BY <1>2, <3>1
    <3>2. CASE ~last
      <4>1. ssi.sdSizes[2] \in Nat /\ e[x + 1] \in Nat BY <1>9, <2>2, <3>2
      <4> QED BY <3>2, <4>1, PairOfNat
    <3> QED BY <3>1, <3>2
  <2>4. ssi' = [NumTotalSubStreams |-> ssi.NumTotalSubStreams,
                NumSubDigests |-> ssi.NumSubDigests,
                sdNumSubStreams |-> ssi.sdNumSubStreams, sdSizes |-> sizes,
                sdCRCs |-> ssi.sdCRCs]
    <3>1. CASE last BY <2>1, <3>1, InfoShapes DEF InfoInv
    <3>2. CASE ~last
      <4>1. ssi' = [ssi EXCEPT !.sdSizes =
                      [ssi.sdSizes EXCEPT ![1] =
                         ssi.sdSizes[1] + Info!ReadLength(bytes[ssi.sdSizes[1] + 1])]]
        BY <2>1, <3>2
      <4>2. /\ ssi.sdSizes \in Nat \X Nat /\ ssi.sdSizes[1] = e[x]
            /\ e[x + 1] = e[x] + Info!ReadLength(bytes[e[x] + 1])
        BY <1>4, <1>9, <2>2, <3>2
      <4> HIDE DEF x
      <4>3. [ssi.sdSizes EXCEPT ![1] = e[x + 1]] = <<e[x + 1], ssi.sdSizes[2]>> BY <4>2
      <4>4. ssi' = [ssi EXCEPT !.sdSizes = sizes] BY <3>2, <4>1, <4>2, <4>3
      <4> HIDE DEF sizes
      <4> QED BY <4>4, InfoShapes DEF InfoInv
    <3> QED BY <3>1, <3>2
  <2> HIDE DEF sizes, f, vals, index
  <2>5. loc' = [dataOffset |-> loc.dataOffset, left |-> loc.left, streams |-> loc.streams,
              digests |-> loc.digests, sizes |-> loc.sizes, folder |-> f,
              num |-> loc.num, rem |-> loc.rem - 1, entry |-> loc.entry + 1,
              digestIndex |-> index, digestsDefs |-> loc.digestsDefs,
              digestsVals |-> vals]
    BY <2>1, InfoShapes DEF InfoInv
  <2>6. /\ loc'.folder = f /\ loc'.num = loc.num /\ loc'.rem = loc.rem - 1
        /\ loc'.entry = loc.entry + 1 /\ loc'.digestIndex = index
        /\ loc'.digestsDefs = loc.digestsDefs /\ loc'.digestsVals = vals
        /\ loc'.dataOffset = loc.dataOffset
    BY <2>5
  <2>7. /\ ssi'.NumTotalSubStreams = ssi.NumTotalSubStreams
        /\ ssi'.NumSubDigests = ssi.NumSubDigests
        /\ ssi'.sdNumSubStreams = ssi.sdNumSubStreams
        /\ ssi'.sdSizes = sizes /\ ssi'.sdCRCs = ssi.sdCRCs
    BY <2>4
  <2>8. /\ f \in Nat /\ f <= N /\ (IF loc'.rem > 0 THEN f + 1 ELSE f) = i + 1
        /\ Behind(loc') = IF last THEN 0 ELSE d + 1
    <3>1. CASE last
      <4>1. f = i + 1 /\ ~(loc'.rem > 0) BY <2>6, <3>1 DEF f
      <4> QED BY <1>2, <1>5, <3>1, <4>1 DEF Behind
    <3>2. CASE ~last
      <4>1. f = i /\ loc'.rem > 0 BY <1>1, <1>2, <2>6, <3>2 DEF f
      <4>2. Behind(loc') = loc.num - (loc.rem - 1) BY <2>6, <4>1 DEF Behind
      <4>3. Behind(loc') = d + 1 BY <1>2, <1>5, <4>2
      <4>4. f \in Nat /\ f <= N BY <1>2, <1>5, <4>1
      <4> QED BY ONLY <3>2, <4>1, <4>3, <4>4
    <3> QED BY <3>1, <3>2
  <2>9. last => d = loc.num - 1 BY <1>5
  <2>10. InFolder(N, loc', st)
    <3>1. loc'.rem > 0 => /\ loc'.folder < N /\ loc'.rem <= loc'.num
                          /\ loc'.num = st[loc'.folder + 1] - st[loc'.folder]
      <4> SUFFICES ASSUME loc'.rem > 0
            PROVE /\ f < N /\ loc.rem - 1 <= loc.num /\ loc.num = st[f + 1] - st[f]
        BY <2>6
      <4>1. ~last BY <2>6
      <4>2. f = i BY <4>1 DEF f
      <4>3. i < N BY <1>2, <1>5
      <4>4. loc.rem - 1 <= loc.num BY <1>2, <1>7
      <4>5. loc.num = st[i + 1] - st[i]
        <5>1. st[i + 1] = st[i] + loc.num BY <1>5
        <5> QED BY ONLY <1>2, <1>6, <5>1
      <4> QED BY ONLY <4>2, <4>3, <4>4, <4>5
    <3>2. loc.entry + 1 = st[f] + Behind(loc')
      <4>1. CASE last
        <5>1. f = i + 1 BY <4>1 DEF f
        <5>2. Behind(loc') = 0 BY <2>8, <4>1
        <5>3. st[f] = st[i] + loc.num BY <1>5, <5>1
        <5>4. loc.entry = st[i] + (loc.num - 1) BY <1>7, <2>9, <4>1
        <5> QED BY ONLY <1>2, <1>6, <5>2, <5>3, <5>4
      <4>2. CASE ~last
        <5>1. f = i BY <4>2 DEF f
        <5> QED BY <1>5, <1>6, <1>7, <2>8, <4>2, <5>1
      <4> QED BY <4>1, <4>2
    <3> QED BY <2>6, <2>8, <3>1, <3>2 DEF InFolder
  <2>11. sz[f] + Behind(loc') = IF last THEN x ELSE x + 1
    <3>1. CASE last
      <4>1. f = i + 1 BY <3>1 DEF f
      <4> QED BY <1>2, <1>5, <1>6, <2>8, <2>9, <3>1, <4>1
    <3>2. CASE ~last
      <4>1. f = i BY <3>2 DEF f
      <4> QED BY <1>5, <1>6, <2>8, <3>2, <4>1
    <3> QED BY <3>1, <3>2
  <2>12. ssi'.sdSizes # Absent =>
           /\ Walk(bytes, m, e, ssi'.sdSizes[2])
           /\ ssi'.sdSizes[1] = e[sz[loc'.folder] + Behind(loc')]
    <3>1. CASE last
      <4>1. ssi'.sdSizes = ssi.sdSizes BY <2>7, <3>1 DEF sizes
      <4> QED BY <1>4, <2>6, <2>11, <3>1, <4>1
    <3>2. CASE ~last
      <4>1. ssi'.sdSizes = <<e[x + 1], ssi.sdSizes[2]>> BY <2>7, <3>2 DEF sizes
      <4>2. ssi'.sdSizes[1] = e[x + 1] /\ ssi'.sdSizes[2] = ssi.sdSizes[2] BY <4>1
      <4> HIDE DEF x
      <4> QED BY <1>4, <2>2, <2>6, <2>11, <3>2, <4>2
    <3> QED BY <3>1, <3>2
  <2>13. CrcsRight(bytes, ssi', loc', dg[loc'.folder] + Behind(loc'), dg[N])
    <3>1. CASE ssi.sdCRCs = Absent
      <4>1. loc.digestsVals = Absent BY <1>4, <3>1 DEF CrcsRight
      <4>2. ~read BY <4>1 DEF Info!CrcRead
      <4>3. vals = Absent BY <4>1, <4>2 DEF vals
      <4> QED BY <2>6, <2>7, <3>1, <4>3 DEF CrcsRight
    <3>2. CASE ssi.sdCRCs # Absent
      <4>0. ssi.sdCRCs \in Nat \X Nat BY <1>2, <3>2 DEF Slices
      <4>1. /\ ssi.NumSubDigests = dg[N] /\ CrcsAt(bytes, ssi.sdCRCs, dg[N])
            /\ loc.digestIndex = j
            /\ loc.digestsVals = ValsAt(bytes, ssi.sdCRCs[1], dg[N], j)
            /\ loc.digestsDefs = IF bytes[ssi.sdCRCs[1] + 1] # 0 THEN Absent
                                 ELSE ssi.sdCRCs[1] + 1
        BY <1>4, <3>2 DEF CrcsRight
      <4>2. loc.digestsVals # Absent
        <5>1. j \in 0 .. dg[N] BY <1>2, <1>4, FolderFacts DEF d
        <5> HIDE DEF j
        <5> DEFINE o == ssi.sdCRCs[1]
                   n == dg[N]
        <5>3. o \in Nat /\ n \in Nat /\ j \in 0 .. n BY <1>6, <4>0, <5>1
        <5>4. loc.digestsVals = ValsAt(bytes, o, n, j) BY <4>1
        <5> HIDE DEF o, n
        <5>2. loc.digestsVals \in Nat BY <5>3, <5>4, ValsGrow
        <5> QED BY <5>2, InfoAssumption
      <4>3. read <=> ~(last /\ loc.num = 1 /\ HasOwn(crcs, i))
        BY <4>2 DEF Info!CrcRead, Info!IsLast, Info!HasCrc, HasOwn
      <4>4. dg[f] + Behind(loc') = IF read THEN j + 1 ELSE j
        <5>1. CASE last /\ read
          <6>1. DigestsOf(crcs, loc.num, i) = loc.num BY <4>3, <5>1 DEF DigestsOf
          <6>2. f = i + 1 BY <5>1 DEF f
          <6> HIDE DEF read
          <6>3. Behind(loc') = 0 /\ d = loc.num - 1 BY <2>8, <2>9, <5>1
          <6>4. dg[f] = dg[i] + loc.num BY <1>5, <6>1, <6>2
          <6> DEFINE y == dg[i]
                     z == dg[f] + Behind(loc')
          <6>5. y \in Nat /\ loc.num \in Nat BY <1>2, <1>6
          <6>6. z = y + loc.num BY <6>3, <6>4, <6>5
          <6>7. j = y + d BY <1>6
          <6> HIDE DEF j, y, z
          <6>8. z = j + 1 BY ONLY <6>3, <6>5, <6>6, <6>7
          <6>9. dg[f] + Behind(loc') = j + 1 BY <6>8 DEF z
          <6> QED BY ONLY <5>1, <6>9
        <5>2. CASE last /\ ~read
          <6>1. DigestsOf(crcs, loc.num, i) = 0 /\ loc.num = 1 BY <4>3, <5>2 DEF DigestsOf
          <6>2. f = i + 1 BY <5>2 DEF f
          <6> HIDE DEF read
          <6>3. Behind(loc') = 0 /\ d = loc.num - 1 BY <2>8, <2>9, <5>2
          <6>4. dg[f] = dg[i] + 0 BY <1>5, <6>1, <6>2
          <6>5. d = 0 BY <6>1, <6>3
          <6>6. dg[f] + Behind(loc') = dg[i] /\ j = dg[i] BY <1>6, <6>3, <6>4, <6>5
          <6> HIDE DEF j
          <6> QED BY ONLY <5>2, <6>6
        <5>3. CASE ~last
          <6>1. f = i /\ read BY <4>3, <5>3 DEF f
          <6> HIDE DEF read
          <6> QED BY <1>5, <1>6, <2>8, <5>3, <6>1
        <5> QED BY <5>1, <5>2, <5>3
      <4>5. index = IF read THEN j + 1 ELSE j BY <4>1 DEF index
      <4>6. vals = ValsAt(bytes, ssi.sdCRCs[1], dg[N], IF read THEN j + 1 ELSE j)
        <5>1. CASE ~read BY <4>1, <5>1 DEF vals
        <5>2. CASE read
          <6>1. j \in 0 .. dg[N] - 1
            <7>1. DigestsOf(crcs, loc.num, i) = loc.num
              <8>1. CASE loc.num = 1
                <9>1. last BY <1>1, <1>2, <1>7, <8>1
                <9> QED BY <4>3, <5>2, <8>1, <9>1 DEF DigestsOf
              <8>2. CASE loc.num # 1 BY <8>2 DEF DigestsOf
              <8> QED BY <8>1, <8>2
            <7>2. d < loc.num /\ d \in Nat BY <1>1, <1>2, <1>5
            <7>3. dg[i] + loc.num <= dg[N] BY <1>5, <7>1
            <7> DEFINE y == dg[i]
                       z == dg[N]
            <7>4. y \in Nat /\ z \in Nat /\ loc.num \in Nat BY <1>2, <1>6
            <7>5. y + loc.num <= z BY <7>3
            <7> HIDE DEF y, z
            <7>6. y + d \in 0 .. z - 1 BY ONLY <7>2, <7>4, <7>5
            <7> QED BY ONLY <7>6 DEF y, z
          <6>2. Info!Defined = (loc.digestsDefs = Absent
                   \/ Info!BitOf(SubSeq(bytes, loc.digestsDefs + 1, Len(bytes)), loc.digestIndex))
            BY DEF Info!Defined
          <6> HIDE DEF j
          <6>3. ValsAt(bytes, ssi.sdCRCs[1], dg[N], j + 1) =
                  IF Info!Defined THEN loc.digestsVals + 4 ELSE loc.digestsVals
            <7> DEFINE t == dg[N]
            <7>1. /\ t \in Nat /\ j \in 0 .. t - 1 /\ CrcsRight(bytes, ssi, loc, j, t)
                  /\ bytes \in Seq(Nat)
              BY <1>2, <1>4, <1>6, <6>1
            <7> HIDE DEF t
            <7>2. ValsAt(bytes, ssi.sdCRCs[1], t, j + 1) =
                    IF loc.digestsDefs = Absent
                         \/ Info!BitOf(SubSeq(bytes, loc.digestsDefs + 1, Len(bytes)),
                                       loc.digestIndex)
                    THEN loc.digestsVals + 4 ELSE loc.digestsVals
              BY <4>0, <7>1, CrcStep
            <7> QED BY <6>2, <7>2 DEF t
          <6> QED BY <5>2, <6>3 DEF vals
        <5> QED BY <5>1, <5>2
      <4> HIDE DEF read, j
      <4> QED BY <2>6, <2>7, <3>2, <4>1, <4>4, <4>5, <4>6 DEF CrcsRight
    <3> QED BY <3>1, <3>2
  <2>14. Reads(bytes, N, crcs, ssi', loc', c, st, sz, dg, m, e)
    BY <1>4, <2>6, <2>7, <2>8, <2>10, <2>12, <2>13 DEF Reads
  <2>15. EntryPlace' BY <1>1, <2>1, <2>14 DEF EntryPlace
  <2>16. InfoType'
    <3>1. index \in Nat
      <4>1. loc.digestIndex \in Nat BY InfoTypes DEF InfoInv
      <4> QED BY <4>1 DEF index
    <3>2. vals \in Offsets
      <4>1. loc.digestsVals \in Offsets BY InfoTypes DEF InfoInv
      <4>2. read => loc.digestsVals # Absent BY DEF Info!CrcRead
      <4> HIDE DEF read
      <4> QED BY <4>1, <4>2 DEF vals, Offsets
    <3>3. loc.rem - 1 \in Nat /\ loc.entry + 1 \in Nat BY <1>1, <1>2
    <3>4. loc' \in [dataOffset : Nat, left : Nat, streams : Nat, digests : Nat, sizes : Nat,
                    folder : Nat, num : Nat, rem : Nat, entry : Nat, digestIndex : Nat,
                    digestsDefs : Offsets, digestsVals : Offsets]
      BY <2>5, <2>8, <3>1, <3>2, <3>3, InfoTypes, LocTyped DEF InfoInv
    <3>5. ssi' \in [NumTotalSubStreams : Nat, NumSubDigests : Nat,
                    sdNumSubStreams : Slices, sdSizes : Slices, sdCRCs : Slices]
      <4>1. ssi.sdNumSubStreams \in Slices BY InfoTypes DEF InfoInv
      <4> QED BY <2>3, <2>4, <4>1, SsiReadTyped DEF InfoInv
    <3> QED BY <1>1, <3>4, <3>5 DEF InfoInv, InfoType
  <2> QED BY <1>1, <2>1, <2>6, <2>15, <2>16, SecondReading
<1> QED BY <1>10, <1>11

-----------------------------------------------------------------------------
LEMMA InfoStutter == ASSUME InfoInv, UNCHANGED infoVars PROVE InfoInv'
<1>1. UNCHANGED <<bytes, sdPos, infoAr, ssi, loc, infoPc>> BY DEF infoVars
<1>2. InfoType' /\ CrcBounds' BY <1>1 DEF InfoInv, InfoType, CrcBounds
<1>3. PacksRight' BY <1>1 DEF InfoInv, PacksRight
<1>4. NoLists' <=> NoLists BY <1>1 DEF NoLists
<1>5. SubPlace' <=> SubPlace
  <2>1. (Info!NumSubDigests =
           IF ssi.sdNumSubStreams # Absent THEN loc.digests
           ELSE Unchecked(infoAr.FolderCRCs, infoAr.NumFolders))'
    BY DigestsCounted, PTL
  <2>2. Info!NumSubDigests' = Info!NumSubDigests BY <1>1, <2>1, DigestsCounted
  <2> QED BY <1>1, <2>2 DEF SubPlace
<1>6. CountPlace' <=> CountPlace BY <1>1 DEF CountPlace
<1>7. SizesPlace' <=> SizesPlace BY <1>1 DEF SizesPlace, Known
<1>8. ListsPlace' <=> ListsPlace BY <1>1 DEF ListsPlace, Known
<1>9. EntryPlace' <=> EntryPlace BY <1>1 DEF EntryPlace
<1>10. InfoPlace' BY <1>1, <1>4, <1>5, <1>6, <1>7, <1>8, <1>9 DEF InfoInv, InfoPlace
<1> QED BY <1>2, <1>3, <1>10 DEF InfoInv

LEMMA InfoStep == ASSUME InfoInv, Info!Next PROVE InfoInv'
<1>1. CASE Info!EndOfData \/ Info!SkipPart BY <1>1, EndOfDataKeeps, SkipPartKeeps
<1>2. CASE \/ Info!ReadPackInfo \/ Info!ReadPackSize \/ Info!PackInfoEnd
           \/ Info!ReadUnpackInfo \/ Info!NoSubStreamsInfo
  BY <1>2, ReadPackInfoKeeps, ReadPackSizeKeeps, PackInfoEndKeeps, ReadUnpackInfoKeeps,
     NoSubStreamsInfoKeeps
<1>3. CASE \/ Info!SubStreamsBegin \/ Info!CountsBegin \/ Info!ReadCount \/ Info!CountsEnd
  BY <1>3, SubStreamsBeginKeeps, CountsBeginKeeps, ReadCountKeeps, CountsEndKeeps
<1>4. CASE \/ Info!SizesBegin \/ Info!SkipSize \/ Info!SizesEnd
           \/ Info!SkipCrcs \/ Info!SubStreamsEnd
  BY <1>4, SizesBeginKeeps, SkipSizeKeeps, SizesEndKeeps, SkipCrcsKeeps, SubStreamsEndKeeps
<1>5. CASE Info!OpenCrcs \/ Info!NextFolder \/ Info!ReadEntry \/ Info!LeftFolders
  BY <1>5, OpenCrcsKeeps, NextFolderKeeps, ReadEntryKeeps, LeftFoldersKeeps
<1> QED BY <1>1, <1>2, <1>3, <1>4, <1>5 DEF Info!Next

LEMMA InfoSound == InfoInv => Info!StreamInfoExact
<1> SUFFICES ASSUME InfoInv PROVE Info!StreamInfoExact
  OBVIOUS
<1>1. Info!ReadingsAgree BY DEF InfoInv, InfoPlace, Info!ReadingsAgree
<1>2. Info!CrcsInside
  <2>1. infoPc = "done" => EntryPlace BY DEF InfoInv, InfoPlace
  <2> QED BY <2>1, EntryBounds DEF InfoInv, CrcBounds, Info!CrcsInside
<1>3. Info!PacksInside BY DEF InfoInv, PacksRight, Info!PacksInside, Info!PackSum, Info!Last
<1> QED BY <1>1, <1>2, <1>3 DEF Info!StreamInfoExact

(* SzReadStreamsInfo and SzReadHeader2 read the same lists: the second reading *)
(* never lacks a count or a size and leaves none, the CRCs that are read       *)
(* unchecked are those in their slice, and the packed streams lie in order in  *)
(* front of the header, whatever the bytes of the header are.                  *)
THEOREM InfoSafety == HeadersSpec => []StreamInfoExact
<1> DEFINE Inv == part = "info" => InfoInv
<1>1. HeadersInit => Inv BY InfoBegins DEF HeadersInit
<1>2. Inv /\ [HeadersNext]_headersVars => Inv'
  <2> SUFFICES ASSUME Inv, [HeadersNext]_headersVars, part' = "info" PROVE InfoInv'
    OBVIOUS
  <2>1. part = "info" /\ (Info!Next \/ UNCHANGED infoVars)
    <3>1. CASE HeadersNext BY <3>1 DEF HeadersNext
    <3>2. CASE UNCHANGED headersVars BY <3>2 DEF headersVars
    <3> QED BY <3>1, <3>2
  <2> QED BY <2>1, InfoStep, InfoStutter
<1>3. Inv => StreamInfoExact BY InfoSound DEF StreamInfoExact
<1> QED BY <1>1, <1>2, <1>3, PTL DEF HeadersSpec
=============================================================================
