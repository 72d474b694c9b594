------------------------------ MODULE SzFilesInfo ------------------------------
(* The file properties of a header: the loop of SzReadHeader2 (7zArcIn.c)     *)
(* over k7zIdFilesInfo, SzReadFileNames and the reading of bit vectors,       *)
(* attributes and times.  Properties come in any order and more than once.    *)
(* Where a vector is read again, entry by entry, nothing checks its end.      *)
EXTENDS Naturals, FiniteSetsExt, SequencesExt

CONSTANTS FilesMax,    \* bound on the entries
          PropsMax,    \* bound on the properties of a header
          NamesMax,    \* bound on the units of FileNames
          TempBufs,    \* values each of the external buffers holds, a sequence
          NULL

VARIABLES p,      \* what the properties leave in CSzArEx, and numFiles
          empty,  \* emptyStreams, emptyFiles and numEmptyStreams
          names,  \* FileNames, the position in it, and FileNameOffsets
          loc,    \* properties so far; entry and emptyFileIndex of the table's loop
          pc

vars == <<p, empty, names, loc, pc>>

Kinds == {"Attribs", "MTime", "CTime"}
Entries == 0 .. p.numFiles - 1

Init ==
  /\ \E n \in 0 .. FilesMax :
       p = [numFiles |-> n, vals |-> [k \in Kinds |-> NULL]]
  /\ empty = [streams |-> NULL, files |-> NULL, num |-> 0]
  /\ names = [units |-> << >>, at |-> 0, offsets |-> NULL]
  /\ loc = [props |-> 0, entry |-> 0, emptyFile |-> 0]
  /\ pc = "property"

Property(to) == /\ pc = "property" /\ pc' = to
                /\ loc.props < PropsMax
                /\ loc' = [loc EXCEPT !.props = @ + 1]

(* A property that is too short for what it should hold.                      *)
Short == Property("failed") /\ UNCHANGED <<p, empty, names>>

-----------------------------------------------------------------------------
(* Slip: the flags of the empty entries before are kept.                      *)
EmptyStreamKeeps ==
  /\ Property("property")
  /\ \E S \in SUBSET Entries :
       empty' = [empty EXCEPT !.streams = S, !.num = Cardinality(S)]
  /\ UNCHANGED <<p, names>>

(* RememberBitVector, CountDefinedBits                                        *)
EmptyStream ==
  /\ Property("property")
  /\ \E S \in SUBSET Entries :
       empty' = [streams |-> S, num |-> Cardinality(S), files |-> NULL]
  /\ UNCHANGED <<p, names>>

(* As many bits as there were empty streams when it was read                  *)
EmptyFile ==
  /\ Property("property")
  /\ \E v \in [0 .. empty.num - 1 -> BOOLEAN] : empty' = [empty EXCEPT !.files = v]
  /\ UNCHANGED <<p, names>>

(* ReadBitVector, then a value for every bit, from the header or from a       *)
(* buffer of additional streams (ReadUi32s, ReadTime).  A value is known by   *)
(* its source and its place there; NULL for an entry without one.             *)
Values(S, source) ==
  [e \in Entries |-> IF e \in S THEN <<source, Cardinality({g \in S : g < e})>> ELSE NULL]

Enough(source, n) == IF source = 0 THEN TRUE ELSE n <= TempBufs[source]

(* Without entries there is no vector.                                        *)
ReadValues ==
  \E k \in Kinds, S \in SUBSET Entries, source \in 0 .. Len(TempBufs) :
    \/ /\ Enough(source, Cardinality(S))
       /\ Property("property")
       /\ p' = [p EXCEPT !.vals[k] = IF p.numFiles = 0 THEN NULL ELSE Values(S, source)]
       /\ UNCHANGED <<empty, names>>
    \/ /\ ~Enough(source, Cardinality(S))
       /\ Property("failed")
       /\ UNCHANGED <<p, empty, names>>

(* SzReadFileNames.  The names may come again; the last ones are used.        *)
Terminated(u) == u # << >> /\ Last(u) = 0

FileNames ==
  \E u \in UNION {[1 .. n -> {0, 1}] : n \in 0 .. NamesMax} :
    /\ names' = [units |-> u, at |-> 0, offsets |-> <<0>>]
    /\ Property(IF p.numFiles = 0 THEN IF u = << >> THEN "property" ELSE "failed"
                ELSE IF Terminated(u) THEN "name" ELSE "failed")
    /\ UNCHANGED <<p, empty>>

NamesLeft == p.numFiles + 1 - Len(names.offsets)

(* A name is read up to its zero, without a look at the end of FileNames.     *)
ReadUnit ==
  /\ pc = "name" /\ NamesLeft > 0
  /\ IF names.at = Last(names.offsets) /\ names.at >= Len(names.units)
     THEN pc' = "failed" /\ UNCHANGED names
     ELSE /\ names' = [names EXCEPT !.at = @ + 1,
               !.offsets = IF names.units[names.at + 1] = 0
                           THEN Append(@, names.at + 1) ELSE @]
          /\ UNCHANGED pc
  /\ UNCHANGED <<p, empty, loc>>

NamesEnd ==
  /\ pc = "name" /\ NamesLeft = 0
  /\ pc' = IF names.at = Len(names.units) THEN "property" ELSE "failed"
  /\ UNCHANGED <<p, empty, names, loc>>

PropertiesEnd ==
  /\ pc = "property" /\ pc' = "entry"
  /\ UNCHANGED <<p, empty, names, loc>>

-----------------------------------------------------------------------------
(* The loop over the entries looks at the vectors.                            *)
IsEmpty(e) == empty.streams # NULL /\ e \in empty.streams

EntryKind ==
  /\ pc = "entry"
  /\ IF loc.entry = p.numFiles
     THEN pc' = "done" /\ UNCHANGED loc
     ELSE /\ loc' = [loc EXCEPT !.entry = @ + 1,
               !.emptyFile = IF IsEmpty(loc.entry) /\ empty.files # NULL
                             THEN @ + 1 ELSE @]
          /\ UNCHANGED pc
  /\ UNCHANGED <<p, empty, names>>

Next == \/ Short \/ EmptyStream \/ EmptyFile \/ ReadValues
        \/ FileNames \/ ReadUnit \/ NamesEnd \/ PropertiesEnd \/ EntryKind

-----------------------------------------------------------------------------
(* In whatever order the properties came: the vector of empty files has a bit *)
(* for every empty entry, so that the index into it stays inside.             *)
FlagsInside ==
  pc \in {"entry", "done"} /\ empty.files # NULL =>
    /\ loc.emptyFile <= Cardinality(DOMAIN empty.files)
    /\ pc = "done" => loc.emptyFile = Cardinality(DOMAIN empty.files)

(* No unit behind the last zero is read as part of a name, and in the end     *)
(* each entry has one name, which SzArEx_GetFileNameUtf16 copies with its     *)
(* zero.                                                                      *)
NamesInside ==
  /\ pc = "name" /\ NamesLeft > 0 /\ names.at # Last(names.offsets) =>
       names.at < Len(names.units)
  /\ pc = "done" /\ names.offsets # NULL =>
       /\ Len(names.offsets) = p.numFiles + 1
       /\ Last(names.offsets) = Len(names.units)
       /\ \A e \in 1 .. p.numFiles :
            {i \in names.offsets[e] + 1 .. names.offsets[e + 1] : names.units[i] = 0}
              = {names.offsets[e + 1]}

(* A value that getEntryInfo finds was read from the bytes it was sent in.    *)
ValuesInside ==
  \A k \in Kinds : p.vals[k] # NULL =>
    \A e \in Entries : p.vals[k][e] # NULL /\ p.vals[k][e][1] # 0 =>
      p.vals[k][e][2] < TempBufs[p.vals[k][e][1]]

(* Altogether: nothing outside the header and its buffers is ever read.       *)
FilesInfoExact == FlagsInside /\ NamesInside /\ ValuesInside
=============================================================================
