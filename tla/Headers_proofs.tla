---------------------------- MODULE Headers_proofs ----------------------------
(***************************************************************************)
(* The two parsers of folders agree, for every limit, number of folders    *)
(* and choice of bytes.                                                    *)
(*                                                                         *)
(* What both read is said once, as a predicate on the bytes: Layout, the   *)
(* coders one behind another, the bonds and the packed streams.  ScanInv   *)
(* says how much of a layout ReadUnpackInfo has seen at each of its steps, *)
(* and that every row of the tables stands for a whole one.  Bytes that    *)
(* are read later leave it as it is.  ItemInv says that                    *)
(* SzGetNextFolderItem is at a place of the layout of its row; each of its *)
(* checks has then been made by the scan, but for those it alone makes and *)
(* answers with SZ_ERROR_UNSUPPORTED.  That the graph is sound at the end  *)
(* is counting: as many inputs as bonds and packed streams, none twice.    *)
(***************************************************************************)
EXTENDS MCHeaders, FiniteSetTheorems, SequenceTheorems, WellFoundedInduction, TLAPS

-----------------------------------------------------------------------------
(* The bytes of a folder, from offset off on: the number of coders, the      *)
(* coders, the bonds and the packed streams.  d stands for data.             *)

IdEnd(d, o) == o + 1 + IdSize(d[o + 1])
PropsAt(d, o) == IdEnd(d, o) + (IF IsComplex(d[o + 1]) THEN 2 ELSE 0)
CoderEnd(d, o) ==
  PropsAt(d, o) + (IF HasProps(d[o + 1]) THEN 1 + d[PropsAt(d, o) + 1] ELSE 0)
Streams(d, o) == IF IsComplex(d[o + 1]) THEN d[IdEnd(d, o) + 1] ELSE 1

(* The coder whose main byte stands at offset o, as far as each byte of it.  *)
MainOk(d, o) ==
  /\ o < Len(d) /\ ~Reserved(d[o + 1]) /\ IdSize(d[o + 1]) <= 8
  /\ IdEnd(d, o) <= Len(d)
StreamsOk(d, o) ==
  /\ MainOk(d, o) /\ PropsAt(d, o) <= Len(d)
  /\ IsComplex(d[o + 1]) => d[IdEnd(d, o) + 2] = 1
CoderOk(d, o) ==
  /\ StreamsOk(d, o) /\ CoderEnd(d, o) <= Len(d)
  /\ HasProps(d[o + 1]) => PropsAt(d, o) < Len(d)

(* The first c coders: from[k] is the offset of a coder and of what follows  *)
(* the last one, ins[k] counts the input streams of the coders before.       *)
Walk(d, off, c, from, ins) ==
  /\ from \in [0 .. c -> Nat] /\ ins \in [0 .. c -> Nat]
  /\ from[0] = off + 1 /\ ins[0] = 0 /\ from[c] <= Len(d)
  /\ \A k \in 0 .. c : off < from[k]
  /\ \A k \in 0 .. c - 1 :
       /\ CoderOk(d, from[k])
       /\ from[k + 1] = CoderEnd(d, from[k]) /\ from[k + 1] <= from[c]
       /\ ins[k + 1] = ins[k] + Streams(d, from[k])

(* The first j bonds, from offset g on, of n coders with m inputs.           *)
BondIn(d, g, k) == d[g + 2 * k + 1]
BondOut(d, g, k) == d[g + 2 * k + 2]
BondIns(d, g, j) == {BondIn(d, g, k) : k \in 0 .. j - 1}
BondOuts(d, g, j) == {BondOut(d, g, k) : k \in 0 .. j - 1}
BondsOk(d, g, n, m, j) ==
  /\ g + 2 * j <= Len(d)
  /\ \A k \in 0 .. j - 1 :
       /\ BondIn(d, g, k) < m /\ BondIn(d, g, k) \notin BondIns(d, g, k)
       /\ BondOut(d, g, k) < n /\ BondOut(d, g, k) \notin BondOuts(d, g, k)

(* The first j packed streams, from offset h on; S are the inputs of bonds.  *)
PackIn(d, h, k) == d[h + k + 1]
PackIns(d, h, j) == {PackIn(d, h, k) : k \in 0 .. j - 1}
PacksOk(d, h, S, m, j) ==
  /\ h + j <= Len(d)
  /\ \A k \in 0 .. j - 1 :
       PackIn(d, h, k) < m /\ PackIn(d, h, k) \notin S \cup PackIns(d, h, k)

Least(S) == CHOOSE k \in S : \A j \in S : k <= j

(* The graph of n coders with m inputs, between the offsets g and e.         *)
BondsEnd(g, n) == g + 2 * (n - 1)
GraphOk(d, g, n, m, e, packs, main) ==
  /\ n - 1 <= m /\ packs = m - (n - 1)
  /\ BondsOk(d, g, n, m, n - 1)
  /\ packs # 1 => PacksOk(d, BondsEnd(g, n), BondIns(d, g, n - 1), m, packs)
  /\ e = BondsEnd(g, n) + (IF packs = 1 THEN 0 ELSE packs)
  /\ (0 .. n - 1) \ BondOuts(d, g, n - 1) # {}
  /\ main = Least((0 .. n - 1) \ BondOuts(d, g, n - 1))

(* A folder of the scan that lies between the offsets off and e.             *)
Begun(d, off, n) == off < Len(d) /\ d[off + 1] = n /\ n \in Nat \ {0}
Layout(d, off, e, n, packs, main, from, ins) ==
  /\ Begun(d, off, n) /\ e <= Len(d)
  /\ Walk(d, off, n, from, ins)
  /\ GraphOk(d, from[n], n, ins[n], e, packs, main)
FolderBytes(d, off, e, n, packs, main) ==
  \E from, ins : Layout(d, off, e, n, packs, main, from, ins)

-----------------------------------------------------------------------------
(* A folder stays when bytes are put behind it.                              *)

Byte == 0 .. 255
Prefix(d, e) ==
  /\ d \in Seq(Byte) /\ e \in Seq(Byte) /\ Len(d) <= Len(e)
  /\ \A k \in 1 .. Len(d) : e[k] = d[k]

(* The fields of a main byte have their types.                               *)
LEMMA MainByte ==
  ASSUME NEW b \in Nat
  PROVE IdSize(b) \in Nat /\ IsComplex(b) \in BOOLEAN /\ HasProps(b) \in BOOLEAN
BY DEF IdSize, IsComplex, HasProps

(* A byte put behind the bytes leaves them a prefix.                         *)
LEMMA AppendByte ==
  ASSUME NEW d \in Seq(Byte), NEW n \in Byte
  PROVE /\ Prefix(d, Append(d, n)) /\ Len(Append(d, n)) = Len(d) + 1
        /\ Append(d, n)[Len(d) + 1] = n
<1>1. /\ Append(d, n) \in Seq(Byte) /\ Len(Append(d, n)) = Len(d) + 1
      /\ \A i \in 1 .. Len(d) : Append(d, n)[i] = d[i]
      /\ Append(d, n)[Len(d) + 1] = n
  BY AppendProperties
<1>2. Len(d) \in Nat BY LenProperties
<1> QED BY <1>1, <1>2 DEF Prefix

(* ... and so do a byte and a sequence.                                      *)
LEMMA AppendBytes ==
  ASSUME NEW d \in Seq(Byte), NEW n \in Byte, NEW t \in Seq(Byte)
  PROVE /\ Prefix(d, Append(d, n) \o t)
        /\ Len(Append(d, n) \o t) = Len(d) + 1 + Len(t)
        /\ (Append(d, n) \o t)[Len(d) + 1] = n
<1> DEFINE a == Append(d, n)
<1>1. /\ a \in Seq(Byte) /\ Len(a) = Len(d) + 1 /\ a[Len(d) + 1] = n
      /\ \A i \in 1 .. Len(d) : a[i] = d[i]
  BY AppendByte DEF Prefix
<1> HIDE DEF a
<1>2. Len(d) \in Nat /\ Len(t) \in Nat /\ Len(a) \in Nat BY <1>1, LenProperties
<1>3. /\ a \o t \in Seq(Byte) /\ Len(a \o t) = Len(a) + Len(t)
      /\ \A i \in 1 .. Len(a) : (a \o t)[i] = a[i]
  <2>1. a \o t \in Seq(Byte) /\ Len(a \o t) = Len(a) + Len(t)
    BY <1>1, ConcatProperties
  <2>2. \A i \in 1 .. Len(a) + Len(t) :
          (a \o t)[i] = IF i <= Len(a) THEN a[i] ELSE t[i - Len(a)]
    BY <1>1, ConcatProperties
  <2> QED BY <2>1, <2>2, <1>2
<1>4. Prefix(d, a \o t) BY <1>1, <1>2, <1>3 DEF Prefix
<1>5. (a \o t)[Len(d) + 1] = n
  <2>1. Len(d) + 1 \in 1 .. Len(a) BY <1>1, <1>2
  <2> QED BY <1>3, <1>1, <2>1
<1> QED BY <1>1, <1>2, <1>3, <1>4, <1>5 DEF a

(* A byte within the data is one.                                            *)
LEMMA ByteAt ==
  ASSUME NEW d \in Seq(Byte), NEW o \in Nat, o < Len(d)
  PROVE d[o + 1] \in Byte /\ d[o + 1] \in Nat
<1>1. Len(d) \in Nat BY LenProperties
<1>2. o + 1 \in 1 .. Len(d) BY <1>1
<1>3. d[o + 1] \in Byte BY <1>2, ElementOfSeq
<1>4. PICK x \in Byte : x = d[o + 1] BY <1>3
<1>5. x \in Nat BY DEF Byte
<1> QED BY <1>3, <1>4, <1>5

(* A prefix has the same bytes.                                              *)
LEMMA SameByte ==
  ASSUME NEW d, NEW e, Prefix(d, e), NEW o \in Nat, o < Len(d)
  PROVE e[o + 1] = d[o + 1]
<1>1. Len(d) \in Nat BY LenProperties DEF Prefix
<1>2. o + 1 \in 1 .. Len(d) BY <1>1
<1> QED BY <1>2 DEF Prefix

(* The places after the main byte and the identifier, in their order.        *)
LEMMA MainPlaces ==
  ASSUME NEW d \in Seq(Byte), NEW o \in Nat, MainOk(d, o)
  PROVE /\ d[o + 1] \in Byte /\ d[o + 1] \in Nat
        /\ IdSize(d[o + 1]) \in Nat /\ IdEnd(d, o) \in Nat /\ o < IdEnd(d, o)
        /\ PropsAt(d, o) \in Nat /\ IdEnd(d, o) <= PropsAt(d, o)
        /\ IsComplex(d[o + 1]) => PropsAt(d, o) = IdEnd(d, o) + 2
        /\ ~IsComplex(d[o + 1]) => PropsAt(d, o) = IdEnd(d, o)
<1>1. d[o + 1] \in Byte /\ d[o + 1] \in Nat BY ByteAt DEF MainOk
<1>2. IdSize(d[o + 1]) \in Nat BY <1>1, MainByte
<1>3. IdEnd(d, o) \in Nat /\ o < IdEnd(d, o) BY <1>2 DEF IdEnd
<1> QED BY <1>1, <1>2, <1>3 DEF PropsAt

(* The place after the properties.                                           *)
LEMMA CoderPlaces ==
  ASSUME NEW d \in Seq(Byte), NEW o \in Nat, CoderOk(d, o)
  PROVE /\ CoderEnd(d, o) \in Nat /\ PropsAt(d, o) <= CoderEnd(d, o)
        /\ HasProps(d[o + 1]) =>
             /\ d[PropsAt(d, o) + 1] \in Nat
             /\ CoderEnd(d, o) = PropsAt(d, o) + 1 + d[PropsAt(d, o) + 1]
        /\ ~HasProps(d[o + 1]) => CoderEnd(d, o) = PropsAt(d, o)
<1>1. PropsAt(d, o) \in Nat BY MainPlaces DEF CoderOk, StreamsOk
<1>2. CASE HasProps(d[o + 1])
  <2>1. PropsAt(d, o) < Len(d) BY <1>2 DEF CoderOk
  <2>2. d[PropsAt(d, o) + 1] \in Nat BY <1>1, <2>1, ByteAt
  <2> QED BY <1>1, <1>2, <2>2 DEF CoderEnd
<1>3. CASE ~HasProps(d[o + 1]) BY <1>1, <1>3 DEF CoderEnd
<1> QED BY <1>2, <1>3

(* The number of input streams of a coder.                                   *)
LEMMA StreamsNat ==
  ASSUME NEW d \in Seq(Byte), NEW o \in Nat, StreamsOk(d, o)
  PROVE /\ Streams(d, o) \in Nat
        /\ IsComplex(d[o + 1]) => IdEnd(d, o) + 2 <= Len(d)
<1>1. /\ IdEnd(d, o) \in Nat /\ Len(d) \in Nat
      /\ IsComplex(d[o + 1]) => PropsAt(d, o) = IdEnd(d, o) + 2
  BY MainPlaces, LenProperties DEF StreamsOk
<1>2. CASE IsComplex(d[o + 1])
  <2>1. IdEnd(d, o) + 2 <= Len(d) BY <1>1, <1>2 DEF StreamsOk
  <2>2. IdEnd(d, o) < Len(d) BY <2>1, <1>1
  <2>3. d[IdEnd(d, o) + 1] \in Nat BY <1>1, <2>2, ByteAt
  <2> QED BY <1>2, <2>1, <2>3 DEF Streams
<1>3. CASE ~IsComplex(d[o + 1]) BY <1>3 DEF Streams
<1> QED BY <1>2, <1>3

(* A main byte and its identifier in a prefix.                               *)
LEMMA MainStays ==
  ASSUME NEW d, NEW e, Prefix(d, e), NEW o \in Nat, MainOk(d, o)
  PROVE /\ MainOk(e, o) /\ e[o + 1] = d[o + 1]
        /\ IdEnd(e, o) = IdEnd(d, o) /\ PropsAt(e, o) = PropsAt(d, o)
<1>1. o < Len(d) BY DEF MainOk
<1>2. e[o + 1] = d[o + 1] BY <1>1, SameByte
<1>3. /\ d \in Seq(Byte) /\ Len(d) \in Nat /\ Len(e) \in Nat /\ Len(d) <= Len(e)
  BY LenProperties DEF Prefix
<1>4. IdEnd(d, o) \in Nat BY <1>3, MainPlaces
<1>5. IdEnd(e, o) = IdEnd(d, o) /\ PropsAt(e, o) = PropsAt(d, o)
  BY <1>2 DEF IdEnd, PropsAt
<1> QED BY <1>2, <1>3, <1>4, <1>5 DEF MainOk

(* ... with the numbers of streams.                                          *)
LEMMA StreamsStay ==
  ASSUME NEW d, NEW e, Prefix(d, e), NEW o \in Nat, StreamsOk(d, o)
  PROVE /\ StreamsOk(e, o) /\ Streams(e, o) = Streams(d, o)
<1>1. /\ d \in Seq(Byte) /\ Len(d) \in Nat /\ Len(e) \in Nat /\ Len(d) <= Len(e)
  BY LenProperties DEF Prefix
<1>2. MainOk(d, o) BY DEF StreamsOk
<1>3. /\ MainOk(e, o) /\ e[o + 1] = d[o + 1]
      /\ IdEnd(e, o) = IdEnd(d, o) /\ PropsAt(e, o) = PropsAt(d, o)
  BY <1>2, MainStays
<1>4. IdEnd(d, o) \in Nat /\ PropsAt(d, o) \in Nat BY <1>1, <1>2, MainPlaces
<1>5. PropsAt(e, o) <= Len(e) BY <1>1, <1>3, <1>4 DEF StreamsOk
<1>6. CASE IsComplex(d[o + 1])
  <2>1. IdEnd(d, o) + 2 <= Len(d) BY <1>1, <1>6, StreamsNat
  <2>2. e[IdEnd(d, o) + 1] = d[IdEnd(d, o) + 1]
    <3>1. IdEnd(d, o) < Len(d) BY <2>1, <1>1, <1>4
    <3> QED BY <3>1, <1>4, SameByte
  <2>3. e[IdEnd(d, o) + 2] = d[IdEnd(d, o) + 2]
    <3>1. IdEnd(d, o) + 1 < Len(d) /\ IdEnd(d, o) + 1 \in Nat BY <2>1, <1>1, <1>4
    <3>2. e[IdEnd(d, o) + 1 + 1] = d[IdEnd(d, o) + 1 + 1] BY <3>1, SameByte
    <3>3. IdEnd(d, o) + 1 + 1 = IdEnd(d, o) + 2 BY <1>4
    <3> QED BY <3>2, <3>3
  <2> QED BY <1>3, <1>5, <1>6, <2>2, <2>3 DEF StreamsOk, Streams
<1>7. CASE ~IsComplex(d[o + 1])
  BY <1>3, <1>5, <1>7 DEF StreamsOk, Streams
<1> QED BY <1>6, <1>7

(* A coder in a prefix.                                                      *)
LEMMA CoderStays ==
  ASSUME NEW d, NEW e, Prefix(d, e), NEW o \in Nat, CoderOk(d, o)
  PROVE /\ CoderOk(e, o) /\ CoderEnd(e, o) = CoderEnd(d, o)
        /\ Streams(e, o) = Streams(d, o)
<1>1. /\ d \in Seq(Byte) /\ Len(d) \in Nat /\ Len(e) \in Nat /\ Len(d) <= Len(e)
  BY LenProperties DEF Prefix
<1>2. StreamsOk(d, o) /\ MainOk(d, o) BY DEF CoderOk, StreamsOk
<1>3. StreamsOk(e, o) /\ Streams(e, o) = Streams(d, o) BY <1>2, StreamsStay
<1>4. e[o + 1] = d[o + 1] /\ PropsAt(e, o) = PropsAt(d, o) BY <1>2, MainStays
<1>5. PropsAt(d, o) \in Nat BY <1>1, <1>2, MainPlaces
<1>6. CoderEnd(d, o) \in Nat BY <1>1, CoderPlaces
<1>7. CASE HasProps(d[o + 1])
  <2>1. PropsAt(d, o) < Len(d) BY <1>7 DEF CoderOk
  <2>2. e[PropsAt(d, o) + 1] = d[PropsAt(d, o) + 1] BY <2>1, <1>5, SameByte
  <2>3. CoderEnd(e, o) = CoderEnd(d, o) BY <1>4, <2>2 DEF CoderEnd
  <2> QED BY <1>1, <1>3, <1>4, <1>5, <1>6, <2>1, <2>3 DEF CoderOk
<1>8. CASE ~HasProps(d[o + 1])
  <2>1. CoderEnd(e, o) = CoderEnd(d, o) BY <1>4, <1>8 DEF CoderEnd
  <2> QED BY <1>1, <1>3, <1>4, <1>6, <1>8, <2>1 DEF CoderOk
<1> QED BY <1>7, <1>8

(* The coders in a prefix.                                                   *)
LEMMA WalkStays ==
  ASSUME NEW d, NEW e, Prefix(d, e), NEW off, NEW c \in Nat, NEW from, NEW ins,
         Walk(d, off, c, from, ins)
  PROVE Walk(e, off, c, from, ins)
<1>1. /\ Len(d) \in Nat /\ Len(e) \in Nat /\ Len(d) <= Len(e)
  BY LenProperties DEF Prefix
<1>2. from[c] \in Nat
  <2>1. c \in 0 .. c OBVIOUS
  <2> QED BY <2>1 DEF Walk
<1>3. from[c] <= Len(e) BY <1>1, <1>2 DEF Walk
<1>4. ASSUME NEW k \in 0 .. c - 1
      PROVE /\ CoderOk(e, from[k])
            /\ from[k + 1] = CoderEnd(e, from[k]) /\ from[k + 1] <= from[c]
            /\ ins[k + 1] = ins[k] + Streams(e, from[k])
  <2>1. k \in 0 .. c OBVIOUS
  <2>2. from[k] \in Nat BY <2>1 DEF Walk
  <2>3. CoderOk(d, from[k]) BY DEF Walk
  <2>4. /\ CoderOk(e, from[k]) /\ CoderEnd(e, from[k]) = CoderEnd(d, from[k])
        /\ Streams(e, from[k]) = Streams(d, from[k])
    BY <2>2, <2>3, CoderStays
  <2> QED BY <2>4 DEF Walk
<1> QED BY <1>3, <1>4 DEF Walk

(* The two bytes of a bond.                                                  *)
LEMMA BondPlaces ==
  ASSUME NEW d \in Seq(Byte), NEW g \in Nat, NEW k \in Nat, g + 2 * k + 2 <= Len(d)
  PROVE BondIn(d, g, k) \in Nat /\ BondOut(d, g, k) \in Nat
<1>1. Len(d) \in Nat BY LenProperties
<1>2. /\ g + 2 * k \in Nat /\ g + 2 * k < Len(d)
      /\ g + 2 * k + 1 \in Nat /\ g + 2 * k + 1 < Len(d)
  BY <1>1
<1>3. d[(g + 2 * k + 1) + 1] \in Nat BY <1>2, ByteAt
<1>4. d[(g + 2 * k) + 1] \in Nat BY <1>2, ByteAt
<1>5. (g + 2 * k + 1) + 1 = g + 2 * k + 2 OBVIOUS
<1> QED BY <1>3, <1>4, <1>5 DEF BondIn, BondOut

(* A bond in a prefix.                                                       *)
LEMMA BondStays ==
  ASSUME NEW d, NEW e, Prefix(d, e), NEW g \in Nat, NEW k \in Nat, g + 2 * k + 2 <= Len(d)
  PROVE BondIn(e, g, k) = BondIn(d, g, k) /\ BondOut(e, g, k) = BondOut(d, g, k)
<1>1. Len(d) \in Nat BY LenProperties DEF Prefix
<1>2. /\ g + 2 * k \in Nat /\ g + 2 * k < Len(d)
      /\ g + 2 * k + 1 \in Nat /\ g + 2 * k + 1 < Len(d)
  BY <1>1
<1>3. e[(g + 2 * k + 1) + 1] = d[(g + 2 * k + 1) + 1] BY <1>2, SameByte
<1>4. e[(g + 2 * k) + 1] = d[(g + 2 * k) + 1] BY <1>2, SameByte
<1>5. (g + 2 * k + 1) + 1 = g + 2 * k + 2 OBVIOUS
<1> QED BY <1>3, <1>4, <1>5 DEF BondIn, BondOut

(* The streams that the bonds name, in a prefix.                             *)
LEMMA BondSetsStay ==
  ASSUME NEW d, NEW e, Prefix(d, e), NEW g \in Nat, NEW j \in Nat, g + 2 * j <= Len(d)
  PROVE BondIns(e, g, j) = BondIns(d, g, j) /\ BondOuts(e, g, j) = BondOuts(d, g, j)
<1>1. \A k \in 0 .. j - 1 :
        BondIn(e, g, k) = BondIn(d, g, k) /\ BondOut(e, g, k) = BondOut(d, g, k)
  <2> TAKE k \in 0 .. j - 1
  <2>1. Len(d) \in Nat BY LenProperties DEF Prefix
  <2>2. k \in Nat /\ g + 2 * k + 2 <= Len(d) BY <2>1
  <2> QED BY <2>2, BondStays
<1> QED BY <1>1 DEF BondIns, BondOuts

(* The bonds in a prefix.                                                    *)
LEMMA BondsStay ==
  ASSUME NEW d, NEW e, Prefix(d, e), NEW g \in Nat, NEW j \in Nat, NEW n, NEW m,
         BondsOk(d, g, n, m, j)
  PROVE BondsOk(e, g, n, m, j)
<1>1. /\ Len(d) \in Nat /\ Len(e) \in Nat /\ Len(d) <= Len(e) /\ g + 2 * j <= Len(d)
  BY LenProperties DEF Prefix, BondsOk
<1>2. ASSUME NEW k \in 0 .. j - 1
      PROVE /\ BondIn(e, g, k) < m /\ BondIn(e, g, k) \notin BondIns(e, g, k)
            /\ BondOut(e, g, k) < n /\ BondOut(e, g, k) \notin BondOuts(e, g, k)
  <2>1. k \in Nat /\ g + 2 * k + 2 <= Len(d) /\ g + 2 * k <= Len(d) BY <1>1
  <2>2. BondIn(e, g, k) = BondIn(d, g, k) /\ BondOut(e, g, k) = BondOut(d, g, k)
    BY <2>1, BondStays
  <2>3. BondIns(e, g, k) = BondIns(d, g, k) /\ BondOuts(e, g, k) = BondOuts(d, g, k)
    BY <2>1, BondSetsStay
  <2> QED BY <2>2, <2>3 DEF BondsOk
<1>3. g + 2 * j <= Len(e) BY <1>1
<1> QED BY <1>2, <1>3 DEF BondsOk

(* The byte of a packed stream.                                              *)
LEMMA PackPlace ==
  ASSUME NEW d \in Seq(Byte), NEW h \in Nat, NEW k \in Nat, h + k + 1 <= Len(d)
  PROVE PackIn(d, h, k) \in Nat
<1>1. Len(d) \in Nat BY LenProperties
<1>2. h + k \in Nat /\ h + k < Len(d) BY <1>1
<1>3. d[(h + k) + 1] \in Nat BY <1>2, ByteAt
<1> QED BY <1>3 DEF PackIn

(* The streams that are packed, in a prefix.                                 *)
LEMMA PackSetStays ==
  ASSUME NEW d, NEW e, Prefix(d, e), NEW h \in Nat, NEW j \in Nat, h + j <= Len(d)
  PROVE /\ \A k \in 0 .. j - 1 : PackIn(e, h, k) = PackIn(d, h, k)
        /\ PackIns(e, h, j) = PackIns(d, h, j)
<1>1. ASSUME NEW k \in 0 .. j - 1
      PROVE PackIn(e, h, k) = PackIn(d, h, k)
  <2>1. Len(d) \in Nat BY LenProperties DEF Prefix
  <2>2. h + k \in Nat /\ h + k < Len(d) BY <2>1
  <2>3. e[(h + k) + 1] = d[(h + k) + 1] BY <2>2, SameByte
  <2> QED BY <2>3 DEF PackIn
<1> QED BY <1>1 DEF PackIns

(* The packed streams in a prefix.                                           *)
LEMMA PacksStay ==
  ASSUME NEW d, NEW e, Prefix(d, e), NEW h \in Nat, NEW j \in Nat, NEW S, NEW m,
         PacksOk(d, h, S, m, j)
  PROVE PacksOk(e, h, S, m, j)
<1>1. /\ Len(d) \in Nat /\ Len(e) \in Nat /\ Len(d) <= Len(e) /\ h + j <= Len(d)
  BY LenProperties DEF Prefix, PacksOk
<1>2. ASSUME NEW k \in 0 .. j - 1
      PROVE PackIn(e, h, k) < m /\ PackIn(e, h, k) \notin S \cup PackIns(e, h, k)
  <2>1. k \in Nat /\ h + k <= Len(d) BY <1>1
  <2>2. PackIns(e, h, k) = PackIns(d, h, k) BY <2>1, PackSetStays
  <2>3. PackIn(e, h, k) = PackIn(d, h, k) BY <1>1, PackSetStays
  <2> QED BY <2>2, <2>3 DEF PacksOk
<1>3. h + j <= Len(e) BY <1>1
<1> QED BY <1>2, <1>3 DEF PacksOk

(* The graph in a prefix.                                                    *)
LEMMA GraphStays ==
  ASSUME NEW d, NEW e, Prefix(d, e), NEW g \in Nat, NEW n \in Nat \ {0}, NEW m \in Nat,
         NEW end, NEW packs, NEW main, GraphOk(d, g, n, m, end, packs, main)
  PROVE GraphOk(e, g, n, m, end, packs, main)
<1>1. n - 1 \in Nat /\ g + 2 * (n - 1) \in Nat OBVIOUS
<1>2. BondsOk(e, g, n, m, n - 1) BY <1>1, BondsStay DEF GraphOk
<1>3. g + 2 * (n - 1) <= Len(d) BY DEF GraphOk, BondsOk
<1>4. /\ BondIns(e, g, n - 1) = BondIns(d, g, n - 1)
      /\ BondOuts(e, g, n - 1) = BondOuts(d, g, n - 1)
  BY <1>1, <1>3, BondSetsStay
<1>5. ASSUME packs # 1
      PROVE PacksOk(e, BondsEnd(g, n), BondIns(e, g, n - 1), m, packs)
  <2>1. PacksOk(d, BondsEnd(g, n), BondIns(d, g, n - 1), m, packs)
    BY <1>5 DEF GraphOk
  <2>2. BondsEnd(g, n) \in Nat BY <1>1 DEF BondsEnd
  <2>3. packs \in Nat
    <3>1. packs = m - (n - 1) /\ n - 1 <= m BY DEF GraphOk
    <3> QED BY <3>1, <1>1
  <2> QED BY <2>1, <2>2, <2>3, <1>4, PacksStay
<1> QED BY <1>2, <1>4, <1>5 DEF GraphOk

(* The coders end somewhere, with some number of inputs.                     *)
LEMMA WalkEnds ==
  ASSUME NEW d, NEW off, NEW c \in Nat, NEW from, NEW ins, Walk(d, off, c, from, ins)
  PROVE from[c] \in Nat /\ ins[c] \in Nat /\ from[c] <= Len(d)
<1>1. c \in 0 .. c OBVIOUS
<1> QED BY <1>1 DEF Walk

(* A folder in a prefix.                                                     *)
LEMMA FolderStays ==
  ASSUME NEW d, NEW e, Prefix(d, e), NEW off \in Nat, NEW end \in Nat, NEW n,
         NEW packs, NEW main, FolderBytes(d, off, end, n, packs, main)
  PROVE FolderBytes(e, off, end, n, packs, main)
<1>1. PICK from, ins : Layout(d, off, end, n, packs, main, from, ins) BY DEF FolderBytes
<1>2. n \in Nat \ {0} BY <1>1 DEF Layout, Begun
<1>3. n \in Nat BY <1>2
<1>4. Walk(e, off, n, from, ins) BY <1>1, <1>3, WalkStays DEF Layout
<1>5. from[n] \in Nat /\ ins[n] \in Nat BY <1>4, <1>3, WalkEnds
<1>6. GraphOk(e, from[n], n, ins[n], end, packs, main)
  BY <1>1, <1>2, <1>5, GraphStays DEF Layout
<1>7. /\ Len(d) \in Nat /\ Len(e) \in Nat /\ Len(d) <= Len(e)
  BY LenProperties DEF Prefix
<1>8. Begun(e, off, n)
  <2>1. off < Len(d) BY <1>1 DEF Layout, Begun
  <2>2. e[off + 1] = d[off + 1] BY <2>1, SameByte
  <2> QED BY <1>1, <1>7, <2>1, <2>2 DEF Layout, Begun
<1>9. end <= Len(e) BY <1>1, <1>7 DEF Layout
<1> QED BY <1>4, <1>6, <1>8, <1>9 DEF Layout, FolderBytes

-----------------------------------------------------------------------------
(* How far the scan of a folder has come: c of its n coders are read, they   *)
(* have m input streams and end at o.                                        *)
Coders(d, off, n, c, m, o) ==
  /\ Begun(d, off, n)
  /\ \E from, ins : Walk(d, off, c, from, ins) /\ from[c] = o /\ ins[c] = m

(* The coders read so far, in a prefix.                                      *)
LEMMA CodersStay ==
  ASSUME NEW d, NEW e, Prefix(d, e), NEW off \in Nat, NEW n, NEW c \in Nat, NEW m, NEW o,
         Coders(d, off, n, c, m, o)
  PROVE Coders(e, off, n, c, m, o) /\ o \in Nat /\ m \in Nat /\ o <= Len(d)
<1>1. PICK from, ins : Walk(d, off, c, from, ins) /\ from[c] = o /\ ins[c] = m
  BY DEF Coders
<1>2. Walk(e, off, c, from, ins) BY <1>1, WalkStays
<1>3. o \in Nat /\ m \in Nat /\ o <= Len(d) BY <1>1, WalkEnds
<1>4. /\ Len(d) \in Nat /\ Len(e) \in Nat /\ Len(d) <= Len(e)
  BY LenProperties DEF Prefix
<1>5. Begun(e, off, n)
  <2>1. off < Len(d) BY DEF Coders, Begun
  <2>2. e[off + 1] = d[off + 1] BY <2>1, SameByte
  <2> QED BY <1>4, <2>1, <2>2 DEF Coders, Begun
<1> QED BY <1>1, <1>2, <1>3, <1>5 DEF Coders

(* Behind the number of coders none has been read.                           *)
LEMMA NoCoders ==
  ASSUME NEW d \in Seq(Byte), NEW off \in Nat, NEW n, Begun(d, off, n)
  PROVE Coders(d, off, n, 0, 0, off + 1)
<1> DEFINE from == [k \in 0 .. 0 |-> off + 1]  ins == [k \in 0 .. 0 |-> 0]
<1>1. Len(d) \in Nat BY LenProperties
<1>2. off + 1 <= Len(d) BY <1>1 DEF Begun
<1>3. from \in [0 .. 0 -> Nat] /\ ins \in [0 .. 0 -> Nat] OBVIOUS
<1>4. from[0] = off + 1 /\ ins[0] = 0 OBVIOUS
<1>5. 0 .. 0 - 1 = {} OBVIOUS
<1> HIDE DEF from, ins
<1>6. \A k \in 0 .. 0 : off < from[k]
  <2>1. 0 .. 0 = {0} /\ off < off + 1 OBVIOUS
  <2> QED BY <2>1, <1>4
<1>7. Walk(d, off, 0, from, ins) BY <1>2, <1>3, <1>4, <1>5, <1>6 DEF Walk
<1> QED BY <1>4, <1>7 DEF Coders

(* A coder behind the coders makes them one more.                            *)
LEMMA OneCoderMore ==
  ASSUME NEW d \in Seq(Byte), NEW off \in Nat, NEW n, NEW c \in Nat, NEW m, NEW o,
         Coders(d, off, n, c, m, o), CoderOk(d, o)
  PROVE Coders(d, off, n, c + 1, m + Streams(d, o), CoderEnd(d, o))
<1>1. PICK from, ins : Walk(d, off, c, from, ins) /\ from[c] = o /\ ins[c] = m
  BY DEF Coders
<1>2. o \in Nat /\ m \in Nat /\ o <= Len(d) BY <1>1, WalkEnds
<1>3. /\ CoderEnd(d, o) \in Nat /\ PropsAt(d, o) <= CoderEnd(d, o)
      /\ o < IdEnd(d, o) /\ IdEnd(d, o) <= PropsAt(d, o)
      /\ IdEnd(d, o) \in Nat /\ PropsAt(d, o) \in Nat
  BY <1>2, CoderPlaces, MainPlaces DEF CoderOk, StreamsOk
<1>4. o < CoderEnd(d, o) BY <1>2, <1>3
<1>5. Streams(d, o) \in Nat BY <1>2, StreamsNat DEF CoderOk
<1> DEFINE from2 == [k \in 0 .. c + 1 |-> IF k <= c THEN from[k] ELSE CoderEnd(d, o)]
           ins2 == [k \in 0 .. c + 1 |-> IF k <= c THEN ins[k] ELSE m + Streams(d, o)]
<1>6. from2 \in [0 .. c + 1 -> Nat] /\ ins2 \in [0 .. c + 1 -> Nat]
  <2>1. m + Streams(d, o) \in Nat BY <1>2, <1>5
  <2>2. \A k \in 0 .. c + 1 : k <= c => k \in 0 .. c OBVIOUS
  <2>3. \A k \in 0 .. c : from[k] \in Nat /\ ins[k] \in Nat BY <1>1 DEF Walk
  <2> QED BY <2>1, <2>2, <2>3, <1>3
<1>7. /\ \A k \in 0 .. c : from2[k] = from[k] /\ ins2[k] = ins[k]
      /\ from2[c + 1] = CoderEnd(d, o) /\ ins2[c + 1] = m + Streams(d, o)
  OBVIOUS
<1> HIDE DEF from2, ins2
<1>8. from2[0] = off + 1 /\ ins2[0] = 0 BY <1>1, <1>7 DEF Walk
<1>9. ASSUME NEW k \in 0 .. (c + 1) - 1
      PROVE /\ CoderOk(d, from2[k])
            /\ from2[k + 1] = CoderEnd(d, from2[k]) /\ from2[k + 1] <= from2[c + 1]
            /\ ins2[k + 1] = ins2[k] + Streams(d, from2[k])
  <2>1. k \in 0 .. c OBVIOUS
  <2>2. CASE k = c
    <3>1. from2[k] = o /\ ins2[k] = m BY <2>1, <2>2, <1>1, <1>7
    <3>2. from2[k + 1] = CoderEnd(d, o) /\ ins2[k + 1] = m + Streams(d, o)
      BY <2>2, <1>7
    <3>3. from2[c + 1] <= from2[c + 1] BY <1>3, <1>7
    <3> QED BY <2>2, <3>1, <3>2, <3>3
  <2>3. CASE k # c
    <3>1. k \in 0 .. c - 1 /\ k + 1 \in 0 .. c BY <2>1, <2>3
    <3>2. /\ CoderOk(d, from[k])
          /\ from[k + 1] = CoderEnd(d, from[k]) /\ from[k + 1] <= from[c]
          /\ ins[k + 1] = ins[k] + Streams(d, from[k])
      BY <1>1, <3>1 DEF Walk
    <3>3. /\ from2[k] = from[k] /\ from2[k + 1] = from[k + 1]
          /\ ins2[k] = ins[k] /\ ins2[k + 1] = ins[k + 1]
      BY <2>1, <3>1, <1>7
    <3>4. from[k + 1] \in Nat BY <3>1, <1>1 DEF Walk
    <3>5. from[k + 1] <= CoderEnd(d, o) BY <3>2, <3>4, <1>1, <1>2, <1>3, <1>4
    <3> QED BY <3>2, <3>3, <3>5, <1>7
  <2> QED BY <2>2, <2>3
<1>10. from2[c + 1] <= Len(d) BY <1>7 DEF CoderOk
<1>11. ASSUME NEW k \in 0 .. c + 1 PROVE off < from2[k]
  <2>1. CASE k <= c
    <3>1. k \in 0 .. c BY <2>1
    <3> QED BY <3>1, <1>1, <1>7 DEF Walk
  <2>2. CASE ~(k <= c)
    <3>1. k = c + 1 /\ c \in 0 .. c BY <2>2
    <3>2. off < o BY <3>1, <1>1 DEF Walk
    <3> QED BY <3>1, <3>2, <1>2, <1>3, <1>4, <1>7
  <2> QED BY <2>1, <2>2
<1>12. Walk(d, off, c + 1, from2, ins2)
  BY <1>6, <1>8, <1>9, <1>10, <1>11 DEF Walk
<1> QED BY <1>7, <1>12 DEF Coders

(* A bond behind the bonds.                                                  *)
LEMMA OneBondMore ==
  ASSUME NEW d \in Seq(Byte), NEW g \in Nat, NEW n \in Nat, NEW m \in Nat, NEW j \in Nat,
         BondsOk(d, g, n, m, j), g + 2 * j + 2 <= Len(d),
         BondIn(d, g, j) < m, BondIn(d, g, j) \notin BondIns(d, g, j),
         BondOut(d, g, j) < n, BondOut(d, g, j) \notin BondOuts(d, g, j)
  PROVE BondsOk(d, g, n, m, j + 1)
<1>1. Len(d) \in Nat BY LenProperties
<1>2. g + 2 * (j + 1) <= Len(d) BY <1>1
<1>3. \A k \in 0 .. (j + 1) - 1 : k # j => k \in 0 .. j - 1 OBVIOUS
<1> QED BY <1>2, <1>3 DEF BondsOk

(* Its two streams are added to those that are named.                        *)
BondAdded(d, g, j) ==
  /\ BondIns(d, g, j + 1) = BondIns(d, g, j) \cup {BondIn(d, g, j)}
  /\ BondOuts(d, g, j + 1) = BondOuts(d, g, j) \cup {BondOut(d, g, j)}
LEMMA BondSetsGrow ==
  ASSUME NEW d, NEW g, NEW j \in Nat
  PROVE BondAdded(d, g, j)
<1>1. 0 .. (j + 1) - 1 = (0 .. j - 1) \cup {j} OBVIOUS
<1> QED BY <1>1 DEF BondIns, BondOuts, BondAdded

(* No bond names a stream.                                                   *)
LEMMA NoBonds ==
  ASSUME NEW d, NEW g
  PROVE BondIns(d, g, 0) = {} /\ BondOuts(d, g, 0) = {}
<1>1. 0 .. 0 - 1 = {} OBVIOUS
<1> QED BY <1>1 DEF BondIns, BondOuts

(* A packed stream behind the packed streams.                                *)
LEMMA OnePackMore ==
  ASSUME NEW d \in Seq(Byte), NEW h \in Nat, NEW S, NEW m \in Nat, NEW j \in Nat,
         PacksOk(d, h, S, m, j), h + j + 1 <= Len(d),
         PackIn(d, h, j) < m, PackIn(d, h, j) \notin S \cup PackIns(d, h, j)
  PROVE PacksOk(d, h, S, m, j + 1)
<1>1. Len(d) \in Nat BY LenProperties
<1>2. h + (j + 1) <= Len(d) BY <1>1
<1>3. \A k \in 0 .. (j + 1) - 1 : k # j => k \in 0 .. j - 1 OBVIOUS
<1> QED BY <1>2, <1>3 DEF PacksOk

(* It is added to those that are packed.                                     *)
LEMMA PackSetGrows ==
  ASSUME NEW d, NEW h \in Nat, NEW j \in Nat
  PROVE PackIns(d, h, j + 1) = PackIns(d, h, j) \cup {PackIn(d, h, j)}
<1>1. 0 .. (j + 1) - 1 = (0 .. j - 1) \cup {j} OBVIOUS
<1> QED BY <1>1 DEF PackIns

(* No stream is packed at first.                                             *)
LEMMA NoPacks ==
  ASSUME NEW d, NEW h
  PROVE PackIns(d, h, 0) = {}
<1>1. 0 .. 0 - 1 = {} OBVIOUS
<1> QED BY <1>1 DEF PackIns

(* A set of numbers has a least one.                                         *)
LEMMA LeastNatural ==
  ASSUME NEW S \in SUBSET Nat, S # {}
  PROVE Least(S) \in S /\ \A j \in S : Least(S) <= j
<1>1. PICK x \in S : \A y \in S : ~(<<y, x>> \in OpToRel(<, Nat))
  BY NatLessThanWellFounded, WFMin
<1>2. \A y \in S : ~(y < x) BY <1>1 DEF OpToRel
<1>3. \A y \in S : x <= y BY <1>2
<1> QED BY <1>3 DEF Least

-----------------------------------------------------------------------------
(* Where the scan stands in the bytes d when ReadUnpackInfo is at one of its *)
(* places; the arguments are its local variables.                            *)

AtMain(d, off, n, c, m) == c < n /\ Coders(d, off, n, c, m, Len(d))

(* Inside of the coder at o                                                  *)
InMain(d, o, b) == MainOk(d, o) /\ b = d[o + 1]
AtInStreams(d, off, n, c, m, b) ==
  c < n /\ \E o \in Nat : /\ Coders(d, off, n, c, m, o)
                          /\ InMain(d, o, b) /\ IsComplex(b) /\ Len(d) = IdEnd(d, o)
AtOutStreams(d, off, n, c, m, b, i) ==
  c < n /\ \E o \in Nat : /\ Coders(d, off, n, c, m, o)
                          /\ InMain(d, o, b) /\ IsComplex(b) /\ Len(d) = IdEnd(d, o) + 1
                          /\ i = d[IdEnd(d, o) + 1]
AtProps(d, off, n, c, m, b) ==
  c < n /\ \E o \in Nat, k \in Nat :
              /\ Coders(d, off, n, c, k, o) /\ m = k + Streams(d, o)
              /\ InMain(d, o, b) /\ HasProps(b)
              /\ StreamsOk(d, o) /\ Len(d) = PropsAt(d, o)

(* Behind the coders, at g: the bonds and the packed streams                 *)
AtBonds(d, off, n, m) == Coders(d, off, n, n, m, Len(d))
Counted(n, m, packs) == n - 1 <= m /\ packs = m - (n - 1)
InBonds(d, off, n, m, packs, i, g, T) ==
  /\ Coders(d, off, n, n, m, g) /\ Counted(n, m, packs)
  /\ i <= n - 1 /\ BondsOk(d, g, n, m, i) /\ T = BondOuts(d, g, i)
AtBond(d, off, n, m, packs, i, S, T) ==
  \E g \in Nat : /\ InBonds(d, off, n, m, packs, i, g, T)
                 /\ Len(d) = g + 2 * i /\ S = BondIns(d, g, i)
AtBondOut(d, off, n, m, packs, i, S, T) ==
  \E g \in Nat : /\ InBonds(d, off, n, m, packs, i, g, T)
                 /\ i < n - 1 /\ Len(d) = g + 2 * i + 1
                 /\ BondIn(d, g, i) < m /\ BondIn(d, g, i) \notin BondIns(d, g, i)
                 /\ S = BondIns(d, g, i) \cup {BondIn(d, g, i)}
AtPack(d, off, n, m, packs, i, S, T) ==
  \E g \in Nat : /\ InBonds(d, off, n, m, packs, n - 1, g, T)
                 /\ packs # 1 /\ i <= packs
                 /\ PacksOk(d, BondsEnd(g, n), BondIns(d, g, n - 1), m, i)
                 /\ Len(d) = BondsEnd(g, n) + i
                 /\ S = BondIns(d, g, n - 1) \cup PackIns(d, BondsEnd(g, n), i)
AtMainStream(d, off, n, m, packs, T) ==
  \E g \in Nat :
     /\ InBonds(d, off, n, m, packs, n - 1, g, T)
     /\ packs # 1 => PacksOk(d, BondsEnd(g, n), BondIns(d, g, n - 1), m, packs)
     /\ Len(d) = BondsEnd(g, n) + (IF packs = 1 THEN 0 ELSE packs)

-----------------------------------------------------------------------------
(* The steps of the scan.                                                    *)

(* The scan reads a main byte and an identifier.                             *)
LEMMA ScanMainFinds ==
  ASSUME NEW d, NEW e, Prefix(d, e), NEW off \in Nat, NEW n \in Nat, NEW c \in Nat, NEW m,
         NEW b \in Byte, ~Reserved(b), IdSize(b) <= 8, AtMain(d, off, n, c, m),
         e[Len(d) + 1] = b, Len(e) = Len(d) + 1 + IdSize(b)
  PROVE /\ Len(d) \in Nat /\ Coders(e, off, n, c, m, Len(d)) /\ InMain(e, Len(d), b)
        /\ Len(e) = IdEnd(e, Len(d)) /\ m \in Nat
<1>1. Len(d) \in Nat /\ Len(e) \in Nat BY LenProperties DEF Prefix
<1>2. Coders(e, off, n, c, m, Len(d)) /\ m \in Nat BY CodersStay DEF AtMain
<1>3. PICK x \in Byte : x = b OBVIOUS
<1>4. x \in Nat BY DEF Byte
<1>5. IdSize(b) \in Nat BY <1>3, <1>4, MainByte
<1>6. Len(e) = IdEnd(e, Len(d)) BY DEF IdEnd
<1>7. InMain(e, Len(d), b)
  <2>1. Len(d) < Len(e) BY <1>1, <1>5
  <2>2. IdEnd(e, Len(d)) <= Len(e) BY <1>6, <1>1
  <2> QED BY <2>1, <2>2 DEF InMain, MainOk
<1> QED BY <1>1, <1>2, <1>6, <1>7

(* ... and a coder that is not complex has one stream.                       *)
LEMMA PlainCoder ==
  ASSUME NEW d \in Seq(Byte), NEW off \in Nat, NEW n \in Nat, NEW c \in Nat, NEW m \in Nat,
         NEW o \in Nat, NEW b,
         c < n, Coders(d, off, n, c, m, o), InMain(d, o, b), ~IsComplex(b),
         Len(d) = IdEnd(d, o)
  PROVE /\ HasProps(b) => AtProps(d, off, n, c, m + 1, b)
        /\ ~HasProps(b) => Coders(d, off, n, c + 1, m + 1, Len(d))
<1>1. /\ PropsAt(d, o) = IdEnd(d, o) /\ MainOk(d, o) /\ PropsAt(d, o) \in Nat
  BY MainPlaces DEF InMain
<1>2. StreamsOk(d, o) BY <1>1 DEF StreamsOk, InMain
<1>3. Streams(d, o) = 1 BY DEF Streams, InMain
<1>4. ASSUME HasProps(b) PROVE AtProps(d, off, n, c, m + 1, b)
  <2>1. Len(d) = PropsAt(d, o) BY <1>1
  <2> QED BY <1>1, <1>2, <1>3, <1>4, <2>1 DEF AtProps
<1>5. ASSUME ~HasProps(b) PROVE Coders(d, off, n, c + 1, m + 1, Len(d))
  <2>1. CoderEnd(d, o) = Len(d) BY <1>1, <1>5 DEF CoderEnd, InMain
  <2>2. CoderOk(d, o) BY <1>1, <1>2, <1>5, <2>1 DEF CoderOk, InMain
  <2>3. Coders(d, off, n, c + 1, m + Streams(d, o), CoderEnd(d, o))
    BY <2>2, OneCoderMore
  <2> QED BY <2>1, <2>3, <1>3
<1> QED BY <1>4, <1>5

(* The scan reads the number of input streams.                               *)
LEMMA ScanInStreamsFinds ==
  ASSUME NEW d \in Seq(Byte), NEW off \in Nat, NEW n \in Nat, NEW c \in Nat, NEW m, NEW b,
         NEW i \in Byte, AtInStreams(d, off, n, c, m, b)
  PROVE AtOutStreams(Append(d, i), off, n, c, m, b, i)
<1> DEFINE e == Append(d, i)
<1>1. Prefix(d, e) /\ Len(e) = Len(d) + 1 /\ e[Len(d) + 1] = i BY AppendByte
<1> HIDE DEF e
<1>2. PICK o \in Nat : /\ Coders(d, off, n, c, m, o)
                       /\ InMain(d, o, b) /\ IsComplex(b) /\ Len(d) = IdEnd(d, o)
  BY DEF AtInStreams
<1>3. /\ MainOk(e, o) /\ e[o + 1] = d[o + 1] /\ IdEnd(e, o) = IdEnd(d, o)
  BY <1>1, <1>2, MainStays DEF InMain
<1>4. Coders(e, off, n, c, m, o) BY <1>1, <1>2, CodersStay
<1>5. InMain(e, o, b) BY <1>2, <1>3 DEF InMain
<1>6. Len(e) = IdEnd(e, o) + 1 /\ i = e[IdEnd(e, o) + 1] BY <1>1, <1>2, <1>3
<1>7. c < n BY DEF AtInStreams
<1>8. AtOutStreams(e, off, n, c, m, b, i)
  BY <1>2, <1>4, <1>5, <1>6, <1>7 DEF AtOutStreams
<1> QED BY <1>8 DEF e

(* The scan reads the number of outputs, which is one.                       *)
LEMMA ScanOutStreamsFinds ==
  ASSUME NEW d \in Seq(Byte), NEW off \in Nat, NEW n \in Nat, NEW c \in Nat, NEW m, NEW b,
         NEW i, AtOutStreams(d, off, n, c, m, b, i)
  PROVE /\ i \in Nat /\ m \in Nat
        /\ HasProps(b) => AtProps(Append(d, 1), off, n, c, m + i, b)
        /\ ~HasProps(b) =>
             Coders(Append(d, 1), off, n, c + 1, m + i, Len(Append(d, 1)))
<1> DEFINE e == Append(d, 1)
<1>1. Prefix(d, e) /\ Len(e) = Len(d) + 1 /\ e[Len(d) + 1] = 1
  <2>1. 1 \in Byte BY DEF Byte
  <2> QED BY <2>1, AppendByte
<1>0. e \in Seq(Byte) BY <1>1 DEF Prefix
<1> HIDE DEF e
<1>2. PICK o \in Nat : /\ Coders(d, off, n, c, m, o)
                       /\ InMain(d, o, b) /\ IsComplex(b) /\ Len(d) = IdEnd(d, o) + 1
                       /\ i = d[IdEnd(d, o) + 1]
  BY DEF AtOutStreams
<1>3. /\ MainOk(e, o) /\ e[o + 1] = d[o + 1] /\ IdEnd(e, o) = IdEnd(d, o)
      /\ PropsAt(e, o) = PropsAt(d, o)
  BY <1>1, <1>2, MainStays DEF InMain
<1>4. Coders(e, off, n, c, m, o) /\ m \in Nat BY <1>1, <1>2, CodersStay
<1>5. IdEnd(d, o) \in Nat /\ PropsAt(d, o) = IdEnd(d, o) + 2
  BY <1>2, MainPlaces DEF InMain
<1>6. IdEnd(d, o) < Len(d) BY <1>2, <1>5
<1>7. i \in Nat BY <1>2, <1>5, <1>6, ByteAt
<1>8. e[IdEnd(e, o) + 1] = i
  <2>1. e[IdEnd(d, o) + 1] = d[IdEnd(d, o) + 1] BY <1>1, <1>5, <1>6, SameByte
  <2> QED BY <2>1, <1>2, <1>3
<1>9. e[IdEnd(e, o) + 2] = 1
  <2>1. IdEnd(e, o) + 2 = Len(d) + 1 BY <1>2, <1>3, <1>5
  <2> QED BY <2>1, <1>1
<1>10. Len(e) = PropsAt(e, o) BY <1>1, <1>2, <1>3, <1>5
<1>11. StreamsOk(e, o)
  <2>1. PropsAt(e, o) <= Len(e) BY <1>10, <1>3, <1>5
  <2> QED BY <1>3, <1>9, <2>1 DEF StreamsOk
<1>12. IsComplex(e[o + 1]) /\ b = e[o + 1] BY <1>2, <1>3 DEF InMain
<1>13. Streams(e, o) = i BY <1>8, <1>12 DEF Streams
<1>14. c < n BY DEF AtOutStreams
<1>15. ASSUME HasProps(b) PROVE AtProps(e, off, n, c, m + i, b)
  BY <1>3, <1>4, <1>10, <1>11, <1>12, <1>13, <1>14, <1>15 DEF AtProps, InMain
<1>16. ASSUME ~HasProps(b) PROVE Coders(e, off, n, c + 1, m + i, Len(e))
  <2>1. PropsAt(e, o) \in Nat BY <1>3, <1>5
  <2>2. CoderEnd(e, o) = Len(e) BY <1>10, <1>12, <1>16, <2>1 DEF CoderEnd
  <2>3. CoderOk(e, o) BY <1>10, <1>11, <1>12, <1>16, <2>1, <2>2 DEF CoderOk
  <2>4. Coders(e, off, n, c + 1, m + Streams(e, o), CoderEnd(e, o))
    BY <1>0, <1>4, <2>3, OneCoderMore
  <2> QED BY <2>2, <2>4, <1>13
<1> QED BY <1>4, <1>7, <1>15, <1>16 DEF e

(* The scan skips the properties.                                            *)
LEMMA ScanPropsFinds ==
  ASSUME NEW d \in Seq(Byte), NEW off \in Nat, NEW n \in Nat, NEW c \in Nat, NEW m, NEW b,
         NEW i \in Byte, NEW e, Prefix(d, e), Len(e) = Len(d) + 1 + i, e[Len(d) + 1] = i,
         AtProps(d, off, n, c, m, b)
  PROVE Coders(e, off, n, c + 1, m, Len(e))
<1>1. PICK o \in Nat, k \in Nat :
        /\ Coders(d, off, n, c, k, o) /\ m = k + Streams(d, o)
        /\ InMain(d, o, b) /\ HasProps(b)
        /\ StreamsOk(d, o) /\ Len(d) = PropsAt(d, o)
  BY DEF AtProps
<1>2. /\ StreamsOk(e, o) /\ Streams(e, o) = Streams(d, o) BY <1>1, StreamsStay
<1>3. e[o + 1] = d[o + 1] /\ PropsAt(e, o) = PropsAt(d, o)
  BY <1>1, MainStays DEF InMain
<1>4. Coders(e, off, n, c, k, o) BY <1>1, CodersStay
<1>5. Len(d) \in Nat /\ e \in Seq(Byte) BY LenProperties DEF Prefix
<1>6. PICK x \in Byte : x = i OBVIOUS
<1>7. x \in Nat BY DEF Byte
<1>8. HasProps(e[o + 1]) BY <1>1, <1>3 DEF InMain
<1>9. CoderEnd(e, o) = Len(e)
  <2>1. CoderEnd(e, o) = Len(d) + (1 + i) BY <1>1, <1>3, <1>8 DEF CoderEnd
  <2> QED BY <2>1, <1>5, <1>6, <1>7
<1>10. CoderOk(e, o)
  <2>1. PropsAt(e, o) < Len(e) /\ Len(e) <= Len(e) BY <1>1, <1>3, <1>5, <1>6, <1>7
  <2> QED BY <1>2, <1>9, <2>1 DEF CoderOk
<1>11. Coders(e, off, n, c + 1, k + Streams(e, o), CoderEnd(e, o))
  BY <1>4, <1>5, <1>10, OneCoderMore
<1> QED BY <1>1, <1>2, <1>9, <1>11

(* The numbers of the coders that are read have their types.                 *)
LEMMA NumbersOf ==
  ASSUME NEW d \in Seq(Byte), NEW off \in Nat, NEW n, NEW c \in Nat, NEW m, NEW o,
         Coders(d, off, n, c, m, o)
  PROVE n \in Nat \ {0} /\ m \in Nat /\ o \in Nat /\ o <= Len(d) /\ Len(d) \in Nat
<1>1. PICK from, ins : Walk(d, off, c, from, ins) /\ from[c] = o /\ ins[c] = m
  BY DEF Coders
<1> QED BY <1>1, WalkEnds, LenProperties DEF Coders, Begun

(* The scan begins the graph.                                                *)
LEMMA ScanBondsFinds ==
  ASSUME NEW d \in Seq(Byte), NEW off \in Nat, NEW n \in Nat, NEW m,
         AtBonds(d, off, n, m)
  PROVE /\ n - 1 <= m => AtBond(d, off, n, m, m - n + 1, 0, {}, {})
        /\ n = 1 /\ m = 1 => FolderBytes(d, off, Len(d), n, 1, 0)
<1> DEFINE g == Len(d)
<1>1. Coders(d, off, n, n, m, g) BY DEF AtBonds
<1>2. n \in Nat \ {0} /\ m \in Nat /\ g \in Nat BY <1>1, NumbersOf
<1>3. BondsOk(d, g, n, m, 0)
  <2>1. g + 2 * 0 <= Len(d) /\ 0 .. 0 - 1 = {} BY <1>2
  <2> QED BY <2>1 DEF BondsOk
<1>4. BondIns(d, g, 0) = {} /\ BondOuts(d, g, 0) = {} BY NoBonds
<1>5. Len(d) = g + 2 * 0 BY <1>2
<1>6. 0 <= n - 1 /\ m - n + 1 = m - (n - 1) BY <1>2
<1> HIDE DEF g
<1>7. ASSUME n - 1 <= m PROVE AtBond(d, off, n, m, m - n + 1, 0, {}, {})
  <2>1. InBonds(d, off, n, m, m - n + 1, 0, g, {})
    BY <1>1, <1>3, <1>4, <1>6, <1>7 DEF InBonds, Counted
  <2> QED BY <2>1, <1>2, <1>4, <1>5 DEF AtBond
<1>8. ASSUME n = 1, m = 1 PROVE FolderBytes(d, off, Len(d), n, 1, 0)
  <2>1. PICK from, ins : Walk(d, off, n, from, ins) /\ from[n] = g /\ ins[n] = m
    BY <1>1 DEF Coders
  <2>2. (0 .. n - 1) \ BondOuts(d, g, n - 1) = {0}
    <3>1. n - 1 = 0 /\ 0 .. 0 = {0} BY <1>8
    <3> QED BY <3>1, <1>4
  <2>3. Least({0}) = 0
    <3>1. {0} \in SUBSET Nat /\ {0} # {} OBVIOUS
    <3> QED BY <3>1, LeastNatural
  <2>4. BondsOk(d, g, n, m, n - 1) BY <1>3, <1>8
  <2>5. Len(d) = BondsEnd(g, n) + (IF 1 = 1 THEN 0 ELSE 1)
    <3>1. g = g + 2 * (1 - 1) + 0 BY <1>2
    <3>2. Len(d) = g BY <1>5, <1>2
    <3> QED BY <3>1, <3>2, <1>8 DEF BondsEnd
  <2>6. n - 1 <= m /\ 1 = m - (n - 1) BY <1>8
  <2>7. GraphOk(d, g, n, m, Len(d), 1, 0) BY <2>2, <2>3, <2>4, <2>5, <2>6 DEF GraphOk
  <2>8. Len(d) <= Len(d) BY <1>5, <1>2
  <2> QED BY <2>1, <2>7, <2>8, <1>1 DEF Coders, Layout, FolderBytes
<1> QED BY <1>7, <1>8

(* The bonds that are read, in a prefix.                                     *)
LEMMA InBondsStay ==
  ASSUME NEW d, NEW e, Prefix(d, e), NEW off \in Nat, NEW n \in Nat, NEW m, NEW packs,
         NEW i \in Nat, NEW g \in Nat, NEW T, InBonds(d, off, n, m, packs, i, g, T)
  PROVE InBonds(e, off, n, m, packs, i, g, T) /\ BondIns(e, g, i) = BondIns(d, g, i)
<1>1. Coders(e, off, n, n, m, g) BY CodersStay DEF InBonds
<1>2. BondsOk(e, g, n, m, i) BY BondsStay DEF InBonds
<1>3. g + 2 * i <= Len(d) BY DEF InBonds, BondsOk
<1>4. BondIns(e, g, i) = BondIns(d, g, i) /\ BondOuts(e, g, i) = BondOuts(d, g, i)
  BY <1>3, BondSetsStay
<1> QED BY <1>1, <1>2, <1>4 DEF InBonds

(* The scan reads the input of a bond.                                       *)
LEMMA ScanBondInFinds ==
  ASSUME NEW d \in Seq(Byte), NEW off \in Nat, NEW n \in Nat, NEW m, NEW packs,
         NEW i \in Nat, NEW S, NEW T, NEW b \in Byte,
         AtBond(d, off, n, m, packs, i, S, T), i < n - 1, b < m, b \notin S
  PROVE AtBondOut(Append(d, b), off, n, m, packs, i, S \cup {b}, T)
<1> DEFINE e == Append(d, b)
<1>1. Prefix(d, e) /\ Len(e) = Len(d) + 1 /\ e[Len(d) + 1] = b BY AppendByte
<1> HIDE DEF e
<1>2. PICK g \in Nat : /\ InBonds(d, off, n, m, packs, i, g, T)
                       /\ Len(d) = g + 2 * i /\ S = BondIns(d, g, i)
  BY DEF AtBond
<1>3. InBonds(e, off, n, m, packs, i, g, T) /\ BondIns(e, g, i) = BondIns(d, g, i)
  BY <1>1, <1>2, InBondsStay
<1>4. BondIn(e, g, i) = b BY <1>1, <1>2 DEF BondIn
<1>5. Len(e) = g + 2 * i + 1 BY <1>1, <1>2
<1>6. AtBondOut(e, off, n, m, packs, i, S \cup {b}, T)
  BY <1>2, <1>3, <1>4, <1>5 DEF AtBondOut
<1> QED BY <1>6 DEF e

(* The scan reads the output of a bond.                                      *)
LEMMA ScanBondOutFinds ==
  ASSUME NEW d \in Seq(Byte), NEW off \in Nat, NEW n \in Nat, NEW m, NEW packs,
         NEW i \in Nat, NEW S, NEW T, NEW b \in Byte,
         AtBondOut(d, off, n, m, packs, i, S, T), b < n, b \notin T
  PROVE AtBond(Append(d, b), off, n, m, packs, i + 1, S, T \cup {b})
<1> DEFINE e == Append(d, b)
<1>1. /\ Prefix(d, e) /\ Len(e) = Len(d) + 1 /\ e[Len(d) + 1] = b /\ e \in Seq(Byte)
  BY AppendByte DEF Prefix
<1> HIDE DEF e
<1>2. PICK g \in Nat : /\ InBonds(d, off, n, m, packs, i, g, T)
                       /\ i < n - 1 /\ Len(d) = g + 2 * i + 1
                       /\ BondIn(d, g, i) < m /\ BondIn(d, g, i) \notin BondIns(d, g, i)
                       /\ S = BondIns(d, g, i) \cup {BondIn(d, g, i)}
  BY DEF AtBondOut
<1>3. InBonds(e, off, n, m, packs, i, g, T) /\ BondIns(e, g, i) = BondIns(d, g, i)
  BY <1>1, <1>2, InBondsStay
<1>4. BondIn(e, g, i) = BondIn(d, g, i)
  <2>1. g + 2 * i \in Nat /\ g + 2 * i < Len(d) BY <1>2
  <2>2. e[(g + 2 * i) + 1] = d[(g + 2 * i) + 1] BY <2>1, <1>1, SameByte
  <2> QED BY <2>2 DEF BondIn
<1>5. BondOut(e, g, i) = b
  <2>1. g + 2 * i + 2 = Len(d) + 1 BY <1>2
  <2> QED BY <2>1, <1>1 DEF BondOut
<1>6. m \in Nat BY <1>2, NumbersOf DEF InBonds
<1>7. g + 2 * i + 2 <= Len(e) BY <1>1, <1>2
<1>8. T = BondOuts(e, g, i) BY <1>3 DEF InBonds
<1>9. BondsOk(e, g, n, m, i + 1)
  BY <1>1, <1>2, <1>3, <1>4, <1>5, <1>6, <1>7, <1>8, OneBondMore DEF InBonds
<1>10. /\ BondIns(e, g, i + 1) = BondIns(e, g, i) \cup {BondIn(e, g, i)}
       /\ BondOuts(e, g, i + 1) = BondOuts(e, g, i) \cup {BondOut(e, g, i)}
  <2>1. BondAdded(e, g, i) BY BondSetsGrow
  <2> QED BY <2>1 DEF BondAdded
<1>11. InBonds(e, off, n, m, packs, i + 1, g, T \cup {b})
  <2>1. i + 1 <= n - 1 BY <1>2
  <2> QED BY <2>1, <1>3, <1>5, <1>8, <1>9, <1>10 DEF InBonds
<1>12. Len(e) = g + 2 * (i + 1) BY <1>1, <1>2
<1>13. S = BondIns(e, g, i + 1) BY <1>2, <1>3, <1>4, <1>10
<1>14. AtBond(e, off, n, m, packs, i + 1, S, T \cup {b})
  BY <1>11, <1>12, <1>13 DEF AtBond
<1> QED BY <1>14 DEF e

(* After the last bond come the packed streams, or the main output.          *)
LEMMA ScanBondEnds ==
  ASSUME NEW d \in Seq(Byte), NEW off \in Nat, NEW n \in Nat, NEW m, NEW packs,
         NEW i \in Nat, NEW S, NEW T,
         AtBond(d, off, n, m, packs, i, S, T), ~(i < n - 1)
  PROVE /\ packs # 1 => AtPack(d, off, n, m, packs, 0, S, T)
        /\ packs = 1 => AtMainStream(d, off, n, m, packs, T)
        /\ packs \in Nat
<1>1. PICK g \in Nat : /\ InBonds(d, off, n, m, packs, i, g, T)
                       /\ Len(d) = g + 2 * i /\ S = BondIns(d, g, i)
  BY DEF AtBond
<1>2. n \in Nat \ {0} /\ m \in Nat BY <1>1, NumbersOf DEF InBonds
<1>3. i = n - 1 BY <1>1, <1>2 DEF InBonds
<1>4. packs \in Nat
  <2>1. n - 1 <= m /\ packs = m - (n - 1) BY <1>1 DEF InBonds, Counted
  <2> QED BY <2>1, <1>2
<1>5. Len(d) = BondsEnd(g, n) + 0 BY <1>1, <1>2, <1>3 DEF BondsEnd
<1>6. BondsEnd(g, n) \in Nat BY <1>2 DEF BondsEnd
<1>7. PacksOk(d, BondsEnd(g, n), BondIns(d, g, n - 1), m, 0)
  <2>1. BondsEnd(g, n) + 0 <= Len(d) /\ 0 .. 0 - 1 = {} BY <1>5, <1>6
  <2> QED BY <2>1 DEF PacksOk
<1>8. PackIns(d, BondsEnd(g, n), 0) = {} BY NoPacks
<1>9. InBonds(d, off, n, m, packs, n - 1, g, T) BY <1>1, <1>3
<1>10. ASSUME packs # 1 PROVE AtPack(d, off, n, m, packs, 0, S, T)
  <2>1. 0 <= packs BY <1>4
  <2>2. S = BondIns(d, g, n - 1) \cup PackIns(d, BondsEnd(g, n), 0) BY <1>1, <1>3, <1>8
  <2> QED BY <2>1, <2>2, <1>5, <1>7, <1>9, <1>10 DEF AtPack
<1>11. ASSUME packs = 1 PROVE AtMainStream(d, off, n, m, packs, T)
  BY <1>5, <1>9, <1>11 DEF AtMainStream
<1> QED BY <1>4, <1>10, <1>11

(* The scan reads a packed stream.                                           *)
LEMMA ScanPackStreamFinds ==
  ASSUME NEW d \in Seq(Byte), NEW off \in Nat, NEW n \in Nat, NEW m, NEW packs \in Nat,
         NEW i \in Nat, NEW S, NEW T, NEW b \in Byte,
         AtPack(d, off, n, m, packs, i, S, T), i < packs, b < m, b \notin S
  PROVE AtPack(Append(d, b), off, n, m, packs, i + 1, S \cup {b}, T)
<1> DEFINE e == Append(d, b)
<1>1. /\ Prefix(d, e) /\ Len(e) = Len(d) + 1 /\ e[Len(d) + 1] = b /\ e \in Seq(Byte)
  BY AppendByte DEF Prefix
<1> HIDE DEF e
<1>2. PICK g \in Nat : /\ InBonds(d, off, n, m, packs, n - 1, g, T)
                 /\ packs # 1 /\ i <= packs
                 /\ PacksOk(d, BondsEnd(g, n), BondIns(d, g, n - 1), m, i)
                 /\ Len(d) = BondsEnd(g, n) + i
                 /\ S = BondIns(d, g, n - 1) \cup PackIns(d, BondsEnd(g, n), i)
  BY DEF AtPack
<1>3. n \in Nat \ {0} /\ m \in Nat BY <1>2, NumbersOf DEF InBonds
<1>4. n - 1 \in Nat /\ BondsEnd(g, n) \in Nat BY <1>3 DEF BondsEnd
<1> DEFINE h == BondsEnd(g, n)
<1>5. InBonds(e, off, n, m, packs, n - 1, g, T) /\ BondIns(e, g, n - 1) = BondIns(d, g, n - 1)
  BY <1>1, <1>2, <1>4, InBondsStay
<1> HIDE DEF h
<1>6. PacksOk(e, h, BondIns(d, g, n - 1), m, i) BY <1>1, <1>2, <1>4, PacksStay DEF h
<1>7. PackIn(e, h, i) = b BY <1>1, <1>2 DEF PackIn, h
<1>8. PackIns(e, h, i) = PackIns(d, h, i)
  <2>1. h + i <= Len(d) BY <1>2 DEF PacksOk, h
  <2> QED BY <2>1, <1>1, <1>4, PackSetStays DEF h
<1>9. h + i + 1 <= Len(e) BY <1>1, <1>2, <1>4 DEF h
<1>10. PacksOk(e, h, BondIns(d, g, n - 1), m, i + 1)
  <2>1. b \notin BondIns(d, g, n - 1) \cup PackIns(e, h, i) BY <1>2, <1>8 DEF h
  <2> QED BY <2>1, <1>1, <1>3, <1>4, <1>6, <1>7, <1>9, OnePackMore DEF h
<1>11. PackIns(e, h, i + 1) = PackIns(e, h, i) \cup {b}
  BY <1>4, <1>7, PackSetGrows DEF h
<1>12. Len(e) = h + (i + 1) BY <1>1, <1>2, <1>4 DEF h
<1>13. i + 1 <= packs OBVIOUS
<1>14. S \cup {b} = BondIns(e, g, n - 1) \cup PackIns(e, h, i + 1)
  BY <1>2, <1>5, <1>8, <1>11 DEF h
<1>15. AtPack(e, off, n, m, packs, i + 1, S \cup {b}, T)
  BY <1>2, <1>5, <1>10, <1>12, <1>13, <1>14 DEF AtPack, h
<1> QED BY <1>15 DEF e

(* After the last packed stream comes the main output.                       *)
LEMMA ScanPackEnds ==
  ASSUME NEW d \in Seq(Byte), NEW off \in Nat, NEW n \in Nat, NEW m, NEW packs \in Nat,
         NEW i \in Nat, NEW S, NEW T,
         AtPack(d, off, n, m, packs, i, S, T), ~(i < packs)
  PROVE AtMainStream(d, off, n, m, packs, T)
<1>1. PICK g \in Nat : /\ InBonds(d, off, n, m, packs, n - 1, g, T)
                 /\ packs # 1 /\ i <= packs
                 /\ PacksOk(d, BondsEnd(g, n), BondIns(d, g, n - 1), m, i)
                 /\ Len(d) = BondsEnd(g, n) + i
  BY DEF AtPack
<1>2. i = packs BY <1>1
<1> QED BY <1>1, <1>2 DEF AtMainStream

(* The scan finds the output that no bond names.                             *)
LEMMA ScanMainStreamFinds ==
  ASSUME NEW d \in Seq(Byte), NEW off \in Nat, NEW n \in Nat, NEW m, NEW packs \in Nat,
         NEW T, AtMainStream(d, off, n, m, packs, T), ~((0 .. n - 1) \subseteq T)
  PROVE FolderBytes(d, off, Len(d), n, packs, Least((0 .. n - 1) \ T))
<1>1. PICK g \in Nat :
     /\ InBonds(d, off, n, m, packs, n - 1, g, T)
     /\ packs # 1 => PacksOk(d, BondsEnd(g, n), BondIns(d, g, n - 1), m, packs)
     /\ Len(d) = BondsEnd(g, n) + (IF packs = 1 THEN 0 ELSE packs)
  BY DEF AtMainStream
<1>2. PICK from, ins : Walk(d, off, n, from, ins) /\ from[n] = g /\ ins[n] = m
  BY <1>1 DEF InBonds, Coders
<1>3. (0 .. n - 1) \ T # {} OBVIOUS
<1>4. GraphOk(d, g, n, m, Len(d), packs, Least((0 .. n - 1) \ T))
  BY <1>1, <1>3 DEF GraphOk, InBonds, Counted
<1>5. Len(d) <= Len(d)
  <2>1. Len(d) \in Nat BY LenProperties
  <2> QED BY <2>1
<1> QED BY <1>1, <1>2, <1>4, <1>5 DEF InBonds, Coders, Layout, FolderBytes

-----------------------------------------------------------------------------
(* What ReadUnpackInfo keeps true.                                           *)

LocalSet == [numCoders : Nat, ci : Nat, inStreams : Nat, mainByte : Nat, main : Nat,
             i : Nat, streamUsed : SUBSET Nat, coderUsed : SUBSET Nat, packs : Nat,
             at : Nat, fo : Nat, pack : Nat, outs : Nat]
RowSet == [FoCodersOffsets : Nat, FoStartPackStreamIndex : Nat,
           FoToCoderUnpackSizes : Nat, FoToMainUnpackSizeIndex : Nat]
ScanType == /\ data \in Seq(Byte) /\ scan \in LocalSet /\ ar \in Seq(RowSet)
            /\ scan.at <= Len(data)

ScanPlace ==
  /\ pc = "numCoders" => scan.at = Len(data)
  /\ pc \in {"main", "inStreams", "outStreams", "props", "bonds"} =>
       scan.streamUsed = {} /\ scan.coderUsed = {}
  /\ pc = "main" => AtMain(data, scan.at, scan.numCoders, scan.ci, scan.inStreams)
  /\ pc = "inStreams" =>
       AtInStreams(data, scan.at, scan.numCoders, scan.ci, scan.inStreams, scan.mainByte)
  /\ pc = "outStreams" =>
       AtOutStreams(data, scan.at, scan.numCoders, scan.ci, scan.inStreams, scan.mainByte,
                    scan.i)
  /\ pc = "props" =>
       AtProps(data, scan.at, scan.numCoders, scan.ci, scan.inStreams, scan.mainByte)
  /\ pc = "bonds" => AtBonds(data, scan.at, scan.numCoders, scan.inStreams)
  /\ pc \in {"bond", "bondIn"} =>
       AtBond(data, scan.at, scan.numCoders, scan.inStreams, scan.packs, scan.i,
              scan.streamUsed, scan.coderUsed)
  /\ pc = "bondIn" => scan.i < scan.numCoders - 1
  /\ pc = "bondOut" =>
       AtBondOut(data, scan.at, scan.numCoders, scan.inStreams, scan.packs, scan.i,
                 scan.streamUsed, scan.coderUsed)
  /\ pc \in {"pack", "packStream"} =>
       AtPack(data, scan.at, scan.numCoders, scan.inStreams, scan.packs, scan.i,
              scan.streamUsed, scan.coderUsed)
  /\ pc = "packStream" => scan.i < scan.packs
  /\ pc = "main stream" =>
       AtMainStream(data, scan.at, scan.numCoders, scan.inStreams, scan.packs,
                    scan.coderUsed)
  /\ pc = "record" =>
       FolderBytes(data, scan.at, Len(data), scan.numCoders, scan.packs, scan.main)

(* Every row of the tables stands for a folder in the bytes.                 *)
Outs(fo) == IF fo < Len(ar) THEN ar[fo + 1].FoToCoderUnpackSizes ELSE scan.outs
Row(fo) == FolderBytes(data, Offset(fo), Offset(fo + 1), Outs(fo + 1) - Outs(fo),
                       StartPack(fo + 1) - StartPack(fo),
                       ar[fo + 1].FoToMainUnpackSizeIndex)
Rows == \A fo \in 0 .. Len(ar) - 1 : Offset(fo) \in Nat /\ Offset(fo + 1) \in Nat /\ Row(fo)

ScanInv == ScanType /\ ScanPlace /\ Rows

(* The rows of the tables keep their folders when bytes are read.            *)
LEMMA RowsStay ==
  ASSUME Rows, Prefix(data, data'), ar' = ar, scan'.at = scan.at,
         scan'.pack = scan.pack, scan'.outs = scan.outs
  PROVE Rows'
<1> SUFFICES ASSUME NEW fo \in 0 .. Len(ar) - 1
             PROVE (Offset(fo) \in Nat /\ Offset(fo + 1) \in Nat /\ Row(fo))'
  BY DEF Rows
<1>1. /\ Offset(fo)' = Offset(fo) /\ Offset(fo + 1)' = Offset(fo + 1)
      /\ Outs(fo)' = Outs(fo) /\ Outs(fo + 1)' = Outs(fo + 1)
      /\ StartPack(fo)' = StartPack(fo) /\ StartPack(fo + 1)' = StartPack(fo + 1)
  BY DEF Offset, Outs, StartPack
<1>2. Offset(fo) \in Nat /\ Offset(fo + 1) \in Nat /\ Row(fo) BY DEF Rows
<1>3. FolderBytes(data', Offset(fo), Offset(fo + 1), Outs(fo + 1) - Outs(fo),
                  StartPack(fo + 1) - StartPack(fo), ar[fo + 1].FoToMainUnpackSizeIndex)
  BY <1>2, FolderStays DEF Row
<1> QED BY <1>1, <1>2, <1>3 DEF Row

(* The bytes are a prefix of themselves.                                     *)
LEMMA SamePrefix ==
  ASSUME NEW d \in Seq(Byte)
  PROVE Prefix(d, d)
<1>1. Len(d) \in Nat BY LenProperties
<1> QED BY <1>1 DEF Prefix

(* The invariant of the scan holds at first.                                 *)
LEMMA ScanStart ==
  ASSUME Init
  PROVE ScanInv
<1>1. Local \in LocalSet /\ Local.at = 0 BY DEF Local, LocalSet
<1>2. data \in Seq(Byte) /\ ar \in Seq(RowSet) /\ Len(data) = 0 /\ Len(ar) = 0
  BY DEF Init
<1>3. ScanType BY <1>1, <1>2 DEF ScanType, Init
<1>4. ScanPlace BY <1>1, <1>2 DEF ScanPlace, Init
<1>5. Rows BY <1>2 DEF Rows
<1> QED BY <1>3, <1>4, <1>5 DEF ScanInv

(* Outside of the scan nothing of it changes.                                *)
ScanPcs == {"numCoders", "main", "inStreams", "outStreams", "props", "bonds", "bond",
            "bondIn", "bondOut", "pack", "packStream", "main stream", "record"}
(* ... and outside of the scan.                                              *)
LEMMA ScanOver ==
  ASSUME ScanInv, UNCHANGED <<data, scan, ar>>, pc' \notin ScanPcs
  PROVE ScanInv'
<1>1. ScanType' BY DEF ScanInv, ScanType
<1>2. ScanPlace' BY DEF ScanPlace, ScanPcs
<1>3. Rows'
  <2>1. Prefix(data, data') BY SamePrefix DEF ScanInv, ScanType
  <2> QED BY <2>1, RowsStay DEF ScanInv
<1> QED BY <1>1, <1>2, <1>3 DEF ScanInv

(* The numbers that are read take one byte.                                  *)
LEMMA NumbersAreBytes == Numbers \subseteq Byte /\ Numbers \subseteq Nat
BY LimitAssumption DEF Byte

(* A byte more in data, and nothing in the tables.                           *)
LEMMA ScanReads ==
  ASSUME ScanInv, Prefix(data, data'), ar' = ar, scan' \in LocalSet,
         scan'.at = scan.at, scan'.pack = scan.pack, scan'.outs = scan.outs, ScanPlace'
  PROVE ScanInv'
<1>1. ScanType'
  <2>1. /\ Len(data) \in Nat /\ Len(data') \in Nat /\ Len(data) <= Len(data')
        /\ data' \in Seq(Byte)
    BY LenProperties DEF Prefix
  <2>2. scan.at \in Nat BY DEF ScanInv, ScanType, LocalSet
  <2> QED BY <2>1, <2>2 DEF ScanInv, ScanType
<1>2. Rows' BY RowsStay DEF ScanInv
<1> QED BY <1>1, <1>2 DEF ScanInv

(* The number of coders keeps the invariant of the scan.                     *)
LEMMA ScanNumCodersKeeps ==
  ASSUME ScanInv, ScanNumCoders
  PROVE ScanInv'
<1>1. PICK n \in Numbers :
       /\ data' = Append(data, n)
       /\ IF n = 0 \/ n > ScanCodersMax
          THEN Stop("unsupported")
          ELSE /\ scan' = [scan EXCEPT !.numCoders = n, !.ci = 0, !.inStreams = 0,
                             !.streamUsed = {}, !.coderUsed = {}, !.i = 0]
               /\ pc' = "main" /\ Keep
  BY DEF ScanNumCoders, Take
<1>2. n \in Byte /\ n \in Nat BY NumbersAreBytes
<1>3. data \in Seq(Byte) /\ scan \in LocalSet BY DEF ScanInv, ScanType
<1>4. /\ Prefix(data, data') /\ data'[Len(data) + 1] = n /\ Len(data') = Len(data) + 1
  BY <1>1, <1>2, <1>3, AppendByte
<1>5. Len(data) \in Nat /\ data' \in Seq(Byte) BY <1>3, <1>4, LenProperties DEF Prefix
<1>6. scan.at = Len(data) BY DEF ScanInv, ScanPlace, ScanNumCoders
<1>7. CASE n = 0 \/ n > ScanCodersMax
  <2>1. UNCHANGED <<scan, ar>> /\ pc' = "unsupported" BY <1>1, <1>7 DEF Stop
  <2>2. ScanPlace' BY <2>1 DEF ScanPlace
  <2> QED BY <2>1, <2>2, <1>3, <1>4, ScanReads
<1>8. CASE ~(n = 0 \/ n > ScanCodersMax)
  <2>1. /\ scan' = [scan EXCEPT !.numCoders = n, !.ci = 0, !.inStreams = 0,
                             !.streamUsed = {}, !.coderUsed = {}, !.i = 0]
        /\ pc' = "main" /\ ar' = ar
    BY <1>1, <1>8 DEF Keep
  <2>2. /\ scan' \in LocalSet /\ scan'.at = scan.at /\ scan'.pack = scan.pack
        /\ scan'.outs = scan.outs /\ scan'.numCoders = n /\ scan'.ci = 0
        /\ scan'.inStreams = 0 /\ scan'.streamUsed = {} /\ scan'.coderUsed = {}
    BY <2>1, <1>2, <1>3 DEF LocalSet
  <2>3. Begun(data', scan.at, n)
    <3>1. scan.at < Len(data') BY <1>4, <1>5, <1>6
    <3> QED BY <3>1, <1>2, <1>4, <1>6, <1>8 DEF Begun
  <2>4. Coders(data', scan.at, n, 0, 0, Len(data'))
    <3>1. scan.at \in Nat /\ scan.at + 1 = Len(data') BY <1>4, <1>5, <1>6
    <3>2. Coders(data', scan.at, n, 0, 0, scan.at + 1) BY <2>3, <3>1, <1>5, NoCoders
    <3> QED BY <3>1, <3>2
  <2>5. AtMain(data', scan.at, n, 0, 0) BY <2>4, <1>2, <1>8 DEF AtMain
  <2>6. ScanPlace' BY <2>1, <2>2, <2>5 DEF ScanPlace
  <2> QED BY <2>1, <2>2, <2>6, <1>4, ScanReads
<1> QED BY <1>7, <1>8

(* So does an error.                                                         *)
LEMMA ScanStops ==
  ASSUME ScanInv, Prefix(data, data'), UNCHANGED <<scan, ar>>,
         pc' \notin ScanPcs
  PROVE ScanInv'
<1>1. scan' \in LocalSet BY DEF ScanInv, ScanType
<1>2. ScanPlace' BY DEF ScanPlace, ScanPcs
<1> QED BY <1>1, <1>2, ScanReads

(* So does the end of the header.                                            *)
LEMMA EndOfDataKeeps ==
  ASSUME ScanInv, EndOfData
  PROVE ScanInv'
<1>1. UNCHANGED <<scan, ar, data>> /\ pc' = "archive" BY DEF EndOfData, Stop
<1> QED BY <1>1, ScanOver DEF ScanPcs

(* An identifier is a sequence of bytes.                                     *)
LEMMA IdIsBytes ==
  ASSUME NEW k \in Nat, NEW id \in Ids(k)
  PROVE id \in Seq(Byte) /\ Len(id) = k
<1>1. PICK b \in {0, 1} : id = [j \in 1 .. k |-> b] BY DEF Ids
<1>2. b \in Byte BY DEF Byte
<1> QED BY <1>1, <1>2

(* Behind the coder that ends here                                           *)
LEMMA NextCoderKeeps ==
  ASSUME ScanInv, Prefix(data, data'), ar' = ar, NEW m \in Nat, NEW b \in Nat,
         NEW k \in Nat,
         pc \in {"main", "outStreams", "props"},
         NextCoder([scan EXCEPT !.mainByte = b, !.inStreams = m, !.i = k]),
         Coders(data', scan.at, scan.numCoders, scan.ci + 1, m, Len(data')),
         scan.ci < scan.numCoders
  PROVE ScanInv'
<1>1. scan \in LocalSet BY DEF ScanInv, ScanType
<1>2. scan.streamUsed = {} /\ scan.coderUsed = {} BY DEF ScanInv, ScanPlace
<1>3. /\ scan' \in LocalSet /\ scan'.at = scan.at /\ scan'.pack = scan.pack
      /\ scan'.outs = scan.outs /\ scan'.numCoders = scan.numCoders
      /\ scan'.ci = scan.ci + 1 /\ scan'.inStreams = m
      /\ scan'.streamUsed = {} /\ scan'.coderUsed = {}
  <2>1. scan.ci \in Nat /\ scan.ci + 1 \in Nat BY <1>1 DEF LocalSet
  <2>2. scan' = [scan EXCEPT !.mainByte = b, !.inStreams = m, !.i = k, !.ci = scan.ci + 1]
    BY <1>1 DEF NextCoder, LocalSet
  <2> QED BY <1>1, <1>2, <2>1, <2>2 DEF LocalSet
<1>4. pc' = IF scan.ci + 1 < scan.numCoders THEN "main" ELSE "bonds"
  BY <1>1 DEF NextCoder, AfterCoder, LocalSet
<1>5. CASE scan.ci + 1 < scan.numCoders
  <2>1. AtMain(data', scan.at, scan.numCoders, scan.ci + 1, m) BY <1>5 DEF AtMain
  <2>2. ScanPlace' BY <2>1, <1>3, <1>4, <1>5 DEF ScanPlace
  <2> QED BY <2>2, <1>3, ScanReads
<1>6. CASE ~(scan.ci + 1 < scan.numCoders)
  <2>1. scan.ci + 1 = scan.numCoders BY <1>1, <1>6 DEF LocalSet
  <2>2. AtBonds(data', scan.at, scan.numCoders, m) BY <2>1 DEF AtBonds
  <2>3. ScanPlace' BY <2>2, <1>3, <1>4, <1>6 DEF ScanPlace
  <2> QED BY <2>3, <1>3, ScanReads
<1> QED BY <1>5, <1>6

(* So does the main byte of a coder.                                         *)
LEMMA ScanMainKeeps ==
  ASSUME ScanInv, ScanMain
  PROVE ScanInv'
<1>1. PICK b \in MainBytes :
       IF Reserved(b) \/ IdSize(b) > 8
       THEN Take(b) /\ Stop("unsupported")
       ELSE /\ \E id \in Ids(IdSize(b)) : data' = Append(data, b) \o id
            /\ IF IsComplex(b)
               THEN scan' = [scan EXCEPT !.mainByte = b] /\ pc' = "inStreams"
               ELSE LET s == [scan EXCEPT !.mainByte = b, !.inStreams = @ + 1]
                    IN IF HasProps(b) THEN scan' = s /\ pc' = "props" ELSE NextCoder(s)
            /\ Keep
  BY DEF ScanMain
<1>2. b \in Byte /\ b \in Nat BY LimitAssumption DEF Byte
<1>3. data \in Seq(Byte) /\ scan \in LocalSet BY DEF ScanInv, ScanType
<1>4. CASE Reserved(b) \/ IdSize(b) > 8
  <2>1. data' = Append(data, b) /\ UNCHANGED <<scan, ar>> /\ pc' = "unsupported"
    BY <1>1, <1>4 DEF Take, Stop
  <2>2. Prefix(data, data') BY <2>1, <1>2, <1>3, AppendByte
  <2> QED BY <2>1, <2>2, ScanStops DEF ScanPcs
<1>5. CASE ~(Reserved(b) \/ IdSize(b) > 8)
  <2>1. IdSize(b) \in Nat BY <1>2, MainByte
  <2>2. PICK id \in Ids(IdSize(b)) : data' = Append(data, b) \o id BY <1>1, <1>5
  <2>3. id \in Seq(Byte) /\ Len(id) = IdSize(b) BY <2>1, IdIsBytes
  <2>4. /\ Prefix(data, data') /\ Len(data') = Len(data) + 1 + IdSize(b)
        /\ data'[Len(data) + 1] = b
    BY <1>2, <1>3, <2>2, <2>3, AppendBytes
  <2>5. data' \in Seq(Byte) BY <2>4 DEF Prefix
  <2>6. /\ scan.at \in Nat /\ scan.numCoders \in Nat /\ scan.ci \in Nat
        /\ scan.inStreams \in Nat /\ scan.i \in Nat
    BY <1>3 DEF LocalSet
  <2>7. /\ AtMain(data, scan.at, scan.numCoders, scan.ci, scan.inStreams)
        /\ scan.streamUsed = {} /\ scan.coderUsed = {}
    BY DEF ScanInv, ScanPlace, ScanMain
  <2>8. IdSize(b) <= 8 /\ ~Reserved(b) BY <1>5, <2>1
  <2>9. /\ Len(data) \in Nat
        /\ Coders(data', scan.at, scan.numCoders, scan.ci, scan.inStreams, Len(data))
        /\ InMain(data', Len(data), b)
        /\ Len(data') = IdEnd(data', Len(data))
    BY <1>2, <2>4, <2>6, <2>7, <2>8, ScanMainFinds
  <2>10. scan.ci < scan.numCoders BY <2>7 DEF AtMain
  <2>11. ar' = ar BY <1>1, <1>5 DEF Keep
  <2>12. CASE IsComplex(b)
    <3>1. scan' = [scan EXCEPT !.mainByte = b] /\ pc' = "inStreams" BY <1>1, <1>5, <2>12
    <3>2. /\ scan' \in LocalSet /\ scan'.at = scan.at /\ scan'.pack = scan.pack
          /\ scan'.outs = scan.outs /\ scan'.numCoders = scan.numCoders
          /\ scan'.ci = scan.ci /\ scan'.inStreams = scan.inStreams
          /\ scan'.mainByte = b /\ scan'.streamUsed = {} /\ scan'.coderUsed = {}
      BY <3>1, <1>2, <1>3, <2>7 DEF LocalSet
    <3>3. AtInStreams(data', scan.at, scan.numCoders, scan.ci, scan.inStreams, b)
      BY <2>9, <2>10, <2>12 DEF AtInStreams
    <3>4. ScanPlace' BY <3>1, <3>2, <3>3 DEF ScanPlace
    <3> QED BY <3>2, <3>4, <2>4, <2>11, ScanReads
  <2>13. CASE ~IsComplex(b)
    <3>1. /\ HasProps(b) => AtProps(data', scan.at, scan.numCoders, scan.ci,
                                    scan.inStreams + 1, b)
          /\ ~HasProps(b) => Coders(data', scan.at, scan.numCoders, scan.ci + 1,
                                    scan.inStreams + 1, Len(data'))
      BY <2>5, <2>6, <2>9, <2>10, <2>13, PlainCoder
    <3>2. CASE HasProps(b)
      <4>1. scan' = [scan EXCEPT !.mainByte = b, !.inStreams = @ + 1] /\ pc' = "props"
        BY <1>1, <1>5, <2>13, <3>2
      <4>2. /\ scan' \in LocalSet /\ scan'.at = scan.at /\ scan'.pack = scan.pack
            /\ scan'.outs = scan.outs /\ scan'.numCoders = scan.numCoders
            /\ scan'.ci = scan.ci /\ scan'.inStreams = scan.inStreams + 1
            /\ scan'.mainByte = b /\ scan'.streamUsed = {} /\ scan'.coderUsed = {}
        <5>1. scan' = [scan EXCEPT !.mainByte = b, !.inStreams = scan.inStreams + 1]
          BY <4>1
        <5>2. scan.inStreams + 1 \in Nat BY <2>6
        <5> QED BY <5>1, <5>2, <1>2, <1>3, <2>7 DEF LocalSet
      <4>3. ScanPlace' BY <4>1, <4>2, <3>1, <3>2 DEF ScanPlace
      <4> QED BY <4>2, <4>3, <2>4, <2>11, ScanReads
    <3>3. CASE ~HasProps(b)
      <4>1. NextCoder([scan EXCEPT !.mainByte = b, !.inStreams = @ + 1])
        BY <1>1, <1>5, <2>13, <3>3
      <4>2. [scan EXCEPT !.mainByte = b, !.inStreams = @ + 1]
              = [scan EXCEPT !.mainByte = b, !.inStreams = scan.inStreams + 1, !.i = scan.i]
        BY <1>3 DEF LocalSet
      <4>3. scan.inStreams + 1 \in Nat BY <2>6
      <4>4. NextCoder([scan EXCEPT !.mainByte = b, !.inStreams = scan.inStreams + 1,
                                   !.i = scan.i])
        BY <4>1, <4>2
      <4>5. pc = "main" BY DEF ScanMain
      <4> QED BY <4>3, <4>4, <4>5, <1>2, <2>4, <2>6, <2>10, <2>11, <3>1, <3>3,
                 NextCoderKeeps
    <3> QED BY <3>2, <3>3
  <2> QED BY <2>12, <2>13
<1> QED BY <1>4, <1>5

(* So does the number of its input streams.                                  *)
LEMMA ScanInStreamsKeeps ==
  ASSUME ScanInv, ScanInStreams
  PROVE ScanInv'
<1>1. PICK n \in Numbers : data' = Append(data, n) /\ scan' = [scan EXCEPT !.i = n]
  BY DEF ScanInStreams, Take
<1>2. n \in Byte /\ n \in Nat BY NumbersAreBytes
<1>3. data \in Seq(Byte) /\ scan \in LocalSet BY DEF ScanInv, ScanType
<1>4. Prefix(data, data') BY <1>1, <1>2, <1>3, AppendByte
<1>5. /\ scan.at \in Nat /\ scan.numCoders \in Nat /\ scan.ci \in Nat
  BY <1>3 DEF LocalSet
<1>6. /\ AtInStreams(data, scan.at, scan.numCoders, scan.ci, scan.inStreams, scan.mainByte)
      /\ scan.streamUsed = {} /\ scan.coderUsed = {}
  BY DEF ScanInv, ScanPlace, ScanInStreams
<1>7. AtOutStreams(data', scan.at, scan.numCoders, scan.ci, scan.inStreams, scan.mainByte, n)
  BY <1>1, <1>2, <1>3, <1>5, <1>6, ScanInStreamsFinds
<1>8. /\ scan' \in LocalSet /\ scan'.at = scan.at /\ scan'.pack = scan.pack
      /\ scan'.outs = scan.outs /\ scan'.numCoders = scan.numCoders
      /\ scan'.ci = scan.ci /\ scan'.inStreams = scan.inStreams
      /\ scan'.mainByte = scan.mainByte /\ scan'.i = n
      /\ scan'.streamUsed = {} /\ scan'.coderUsed = {}
  BY <1>1, <1>2, <1>3, <1>6 DEF LocalSet
<1>9. pc' = "outStreams" /\ ar' = ar BY DEF ScanInStreams, Keep
<1>10. ScanPlace' BY <1>7, <1>8, <1>9 DEF ScanPlace
<1> QED BY <1>4, <1>8, <1>9, <1>10, ScanReads

(* So does the number of its outputs.                                        *)
LEMMA ScanOutStreamsKeeps ==
  ASSUME ScanInv, ScanOutStreams
  PROVE ScanInv'
<1> DEFINE s == [scan EXCEPT !.inStreams = @ + scan.i, !.i = 0]
<1>1. PICK n \in Numbers :
        /\ data' = Append(data, n)
        /\ IF scan.i > ScanStreamsMax \/ n /= 1
             THEN Stop("unsupported")
             ELSE /\ IF HasProps(scan.mainByte) THEN scan' = s /\ pc' = "props"
                                            ELSE NextCoder(s)
                  /\ Keep
  BY DEF ScanOutStreams, Take
<1>2. n \in Byte /\ n \in Nat BY NumbersAreBytes
<1>3. data \in Seq(Byte) /\ scan \in LocalSet BY DEF ScanInv, ScanType
<1>4. Prefix(data, data') BY <1>1, <1>2, <1>3, AppendByte
<1>5. /\ scan.at \in Nat /\ scan.numCoders \in Nat /\ scan.ci \in Nat
      /\ scan.inStreams \in Nat /\ scan.i \in Nat /\ scan.mainByte \in Nat
  BY <1>3 DEF LocalSet
<1>6. CASE scan.i > ScanStreamsMax \/ n /= 1
  <2>1. UNCHANGED <<scan, ar>> /\ pc' = "unsupported" BY <1>1, <1>6 DEF Stop
  <2> QED BY <2>1, <1>4, ScanStops DEF ScanPcs
<1>7. CASE ~(scan.i > ScanStreamsMax \/ n /= 1)
  <2>1. data' = Append(data, 1) BY <1>1, <1>7
  <2>2. /\ AtOutStreams(data, scan.at, scan.numCoders, scan.ci, scan.inStreams,
                        scan.mainByte, scan.i)
        /\ scan.streamUsed = {} /\ scan.coderUsed = {} /\ pc = "outStreams"
    BY DEF ScanInv, ScanPlace, ScanOutStreams
  <2> DEFINE m == scan.inStreams + scan.i
  <2>3. /\ HasProps(scan.mainByte) => AtProps(data', scan.at, scan.numCoders, scan.ci,
                                              m, scan.mainByte)
        /\ ~HasProps(scan.mainByte) =>
             Coders(data', scan.at, scan.numCoders, scan.ci + 1, m, Len(data'))
    BY <1>3, <1>5, <2>1, <2>2, ScanOutStreamsFinds
  <2>4. scan.ci < scan.numCoders BY <2>2 DEF AtOutStreams
  <2>5. ar' = ar BY <1>1, <1>7 DEF Keep
  <2>6. m \in Nat BY <1>5
  <2>7. CASE HasProps(scan.mainByte)
    <3>1. scan' = s /\ pc' = "props" BY <1>1, <1>7, <2>7
    <3>2. /\ scan' \in LocalSet /\ scan'.at = scan.at /\ scan'.pack = scan.pack
          /\ scan'.outs = scan.outs /\ scan'.numCoders = scan.numCoders
          /\ scan'.ci = scan.ci /\ scan'.inStreams = m
          /\ scan'.mainByte = scan.mainByte
          /\ scan'.streamUsed = {} /\ scan'.coderUsed = {}
      <4>1. scan' = [scan EXCEPT !.inStreams = m, !.i = 0] BY <3>1
      <4> HIDE DEF m
      <4> QED BY <4>1, <1>3, <2>2, <2>6 DEF LocalSet
    <3> HIDE DEF m
    <3>3. ScanPlace' BY <3>1, <3>2, <2>3, <2>7 DEF ScanPlace
    <3> QED BY <3>2, <3>3, <1>4, <2>5, ScanReads
  <2>8. CASE ~HasProps(scan.mainByte)
    <3>1. NextCoder(s) BY <1>1, <1>7, <2>8
    <3>2. s = [scan EXCEPT !.mainByte = scan.mainByte, !.inStreams = m, !.i = 0]
      BY <1>3 DEF LocalSet
    <3> HIDE DEF m, s
    <3>3. NextCoder([scan EXCEPT !.mainByte = scan.mainByte, !.inStreams = m, !.i = 0])
      BY <3>1, <3>2
    <3>4. 0 \in Nat OBVIOUS
    <3> QED BY <3>3, <3>4, <1>4, <1>5, <2>2, <2>3, <2>4, <2>5, <2>6, <2>8,
               NextCoderKeeps
  <2> QED BY <2>7, <2>8
<1> QED BY <1>6, <1>7

(* So do its properties.                                                     *)
LEMMA ScanPropsKeeps ==
  ASSUME ScanInv, ScanProps
  PROVE ScanInv'
<1>1. PICK n \in Numbers : data' = Append(data, n) \o [k \in 1 .. n |-> 0]
  BY DEF ScanProps
<1>2. n \in Byte /\ n \in Nat BY NumbersAreBytes
<1>3. data \in Seq(Byte) /\ scan \in LocalSet BY DEF ScanInv, ScanType
<1>4. /\ Prefix(data, data') /\ Len(data') = Len(data) + 1 + n /\ data'[Len(data) + 1] = n
  <2> DEFINE t == [k \in 1 .. n |-> 0]
  <2>1. 0 \in Byte BY DEF Byte
  <2>2. t \in Seq(Byte) /\ Len(t) = n BY <2>1, <1>2
  <2> HIDE DEF t
  <2>3. data' = Append(data, n) \o t BY <1>1 DEF t
  <2> QED BY <2>2, <2>3, <1>2, <1>3, AppendBytes
<1>5. /\ scan.at \in Nat /\ scan.numCoders \in Nat /\ scan.ci \in Nat
      /\ scan.inStreams \in Nat /\ scan.i \in Nat /\ scan.mainByte \in Nat
  BY <1>3 DEF LocalSet
<1>6. AtProps(data, scan.at, scan.numCoders, scan.ci, scan.inStreams, scan.mainByte)
  BY DEF ScanInv, ScanPlace, ScanProps
<1>7. Coders(data', scan.at, scan.numCoders, scan.ci + 1, scan.inStreams, Len(data'))
  BY <1>2, <1>3, <1>4, <1>5, <1>6, ScanPropsFinds
<1>8. scan.ci < scan.numCoders BY <1>6 DEF AtProps
<1>9. NextCoder(scan) /\ ar' = ar /\ pc = "props" BY DEF ScanProps, Keep
<1>10. scan = [scan EXCEPT !.mainByte = scan.mainByte, !.inStreams = scan.inStreams,
                           !.i = scan.i]
  BY <1>3 DEF LocalSet
<1>11. NextCoder([scan EXCEPT !.mainByte = scan.mainByte, !.inStreams = scan.inStreams,
                              !.i = scan.i])
  BY <1>9, <1>10
<1> QED BY <1>4, <1>5, <1>7, <1>8, <1>9, <1>11, NextCoderKeeps

(* So does the beginning of the graph.                                       *)
LEMMA ScanBondsKeeps ==
  ASSUME ScanInv, ScanBonds
  PROVE ScanInv'
<1>1. data \in Seq(Byte) /\ scan \in LocalSet BY DEF ScanInv, ScanType
<1>2. data' = data /\ Prefix(data, data') BY <1>1, SamePrefix DEF ScanBonds
<1>3. /\ scan.at \in Nat /\ scan.numCoders \in Nat /\ scan.inStreams \in Nat
  BY <1>1 DEF LocalSet
<1>4. /\ AtBonds(data, scan.at, scan.numCoders, scan.inStreams)
      /\ scan.streamUsed = {} /\ scan.coderUsed = {}
  BY DEF ScanInv, ScanPlace, ScanBonds
<1> DEFINE n == scan.numCoders  m == scan.inStreams
<1>5. /\ n - 1 <= m => AtBond(data, scan.at, n, m, m - n + 1, 0, {}, {})
      /\ n = 1 /\ m = 1 => FolderBytes(data, scan.at, Len(data), n, 1, 0)
  BY <1>1, <1>3, <1>4, ScanBondsFinds
<1>6. CASE n = 1 /\ m = 1
  <2>1. scan' = [scan EXCEPT !.packs = 1, !.main = 0] /\ pc' = "record" /\ ar' = ar
    BY <1>6 DEF ScanBonds, Keep
  <2>2. /\ scan' \in LocalSet /\ scan'.at = scan.at /\ scan'.pack = scan.pack
        /\ scan'.outs = scan.outs /\ scan'.numCoders = n /\ scan'.packs = 1
        /\ scan'.main = 0
    BY <2>1, <1>1 DEF LocalSet
  <2>3. FolderBytes(data', scan'.at, Len(data'), scan'.numCoders, scan'.packs, scan'.main)
    BY <1>2, <1>5, <1>6, <2>2
  <2>4. ScanPlace' BY <2>1, <2>3 DEF ScanPlace
  <2> QED BY <2>1, <2>2, <2>4, <1>2, ScanReads
<1>7. CASE ~(n = 1 /\ m = 1) /\ (m < n - 1 \/ m > ScanStreamsMax)
  <2>1. UNCHANGED <<scan, ar>> /\ pc' \in {"archive", "unsupported"}
    BY <1>7 DEF ScanBonds, Stop
  <2> QED BY <2>1, <1>2, ScanStops DEF ScanPcs
<1>8. CASE ~(n = 1 /\ m = 1) /\ ~(m < n - 1 \/ m > ScanStreamsMax)
  <2>1. /\ scan' = [scan EXCEPT !.i = 0, !.packs = m - n + 1]
        /\ pc' = "bond" /\ ar' = ar
    BY <1>8 DEF ScanBonds, Keep
  <2>2. n - 1 <= m /\ m - n + 1 \in Nat BY <1>3, <1>8
  <2>3. /\ scan' \in LocalSet /\ scan'.at = scan.at /\ scan'.pack = scan.pack
        /\ scan'.outs = scan.outs /\ scan'.numCoders = n /\ scan'.inStreams = m
        /\ scan'.packs = m - n + 1 /\ scan'.i = 0
        /\ scan'.streamUsed = {} /\ scan'.coderUsed = {}
    BY <2>1, <2>2, <1>1, <1>4 DEF LocalSet
  <2>4. ScanPlace' BY <2>1, <2>2, <2>3, <1>2, <1>5 DEF ScanPlace
  <2> QED BY <2>1, <2>3, <2>4, <1>2, ScanReads
<1> QED BY <1>6, <1>7, <1>8

(* So does the turn to a bond, or to what follows them.                      *)
LEMMA ScanBondKeeps ==
  ASSUME ScanInv, ScanBond
  PROVE ScanInv'
<1>1. data \in Seq(Byte) /\ scan \in LocalSet BY DEF ScanInv, ScanType
<1>2. data' = data /\ Prefix(data, data') BY <1>1, SamePrefix DEF ScanBond
<1>3. scan.at \in Nat /\ scan.numCoders \in Nat /\ scan.i \in Nat BY <1>1 DEF LocalSet
<1>4. AtBond(data, scan.at, scan.numCoders, scan.inStreams, scan.packs, scan.i,
              scan.streamUsed, scan.coderUsed)
  BY DEF ScanInv, ScanPlace, ScanBond
<1>5. ar' = ar BY DEF ScanBond, Keep
<1>6. CASE scan.i < scan.numCoders - 1
  <2>1. pc' = "bondIn" /\ scan' = scan BY <1>6 DEF ScanBond
  <2>2. ScanPlace' BY <2>1, <1>2, <1>4, <1>6 DEF ScanPlace
  <2> QED BY <2>1, <2>2, <1>1, <1>2, <1>5, ScanReads
<1>7. CASE ~(scan.i < scan.numCoders - 1)
  <2>1. /\ scan' = [scan EXCEPT !.i = 0]
        /\ pc' = IF scan.packs /= 1 THEN "pack" ELSE "main stream"
    BY <1>7 DEF ScanBond
  <2>2. /\ scan' \in LocalSet /\ scan'.at = scan.at /\ scan'.pack = scan.pack
        /\ scan'.outs = scan.outs /\ scan'.numCoders = scan.numCoders
        /\ scan'.inStreams = scan.inStreams /\ scan'.packs = scan.packs /\ scan'.i = 0
        /\ scan'.streamUsed = scan.streamUsed /\ scan'.coderUsed = scan.coderUsed
    BY <2>1, <1>1 DEF LocalSet
  <2>3. /\ scan.packs # 1 => AtPack(data, scan.at, scan.numCoders, scan.inStreams, scan.packs,
                                    0, scan.streamUsed, scan.coderUsed)
        /\ scan.packs = 1 => AtMainStream(data, scan.at, scan.numCoders, scan.inStreams,
                                          scan.packs, scan.coderUsed)
    BY <1>1, <1>3, <1>4, <1>7, ScanBondEnds
  <2>4. ScanPlace' BY <2>1, <2>2, <2>3, <1>2 DEF ScanPlace
  <2> QED BY <2>2, <2>4, <1>2, <1>5, ScanReads
<1> QED BY <1>6, <1>7

(* So does the input of a bond.                                              *)
LEMMA ScanBondInKeeps ==
  ASSUME ScanInv, ScanBondIn
  PROVE ScanInv'
<1>1. PICK n \in Numbers :
       /\ data' = Append(data, n)
       /\ IF n >= scan.inStreams \/ n \in scan.streamUsed
          THEN Stop("archive")
          ELSE /\ scan' = [scan EXCEPT !.streamUsed = @ \cup {n}]
               /\ pc' = "bondOut" /\ Keep
  BY DEF ScanBondIn, Take
<1>2. n \in Byte /\ n \in Nat BY NumbersAreBytes
<1>3. data \in Seq(Byte) /\ scan \in LocalSet BY DEF ScanInv, ScanType
<1>4. Prefix(data, data') BY <1>1, <1>2, <1>3, AppendByte
<1>5. /\ scan.at \in Nat /\ scan.numCoders \in Nat /\ scan.i \in Nat
      /\ scan.inStreams \in Nat
  BY <1>3 DEF LocalSet
<1>6. CASE n >= scan.inStreams \/ n \in scan.streamUsed
  <2>1. UNCHANGED <<scan, ar>> /\ pc' = "archive" BY <1>1, <1>6 DEF Stop
  <2> QED BY <2>1, <1>4, ScanStops DEF ScanPcs
<1>7. CASE ~(n >= scan.inStreams \/ n \in scan.streamUsed)
  <2>1. /\ scan' = [scan EXCEPT !.streamUsed = @ \cup {n}]
        /\ pc' = "bondOut" /\ ar' = ar
    BY <1>1, <1>7 DEF Keep
  <2>2. /\ AtBond(data, scan.at, scan.numCoders, scan.inStreams, scan.packs, scan.i,
                  scan.streamUsed, scan.coderUsed)
        /\ scan.i < scan.numCoders - 1
    BY DEF ScanInv, ScanPlace, ScanBondIn
  <2>3. n < scan.inStreams BY <1>2, <1>5, <1>7
  <2>4. AtBondOut(data', scan.at, scan.numCoders, scan.inStreams, scan.packs, scan.i,
                  scan.streamUsed \cup {n}, scan.coderUsed)
    BY <1>1, <1>2, <1>3, <1>5, <1>7, <2>2, <2>3, ScanBondInFinds
  <2>5. scan.streamUsed \cup {n} \in SUBSET Nat BY <1>2, <1>3 DEF LocalSet
  <2>6. /\ scan' \in LocalSet /\ scan'.at = scan.at /\ scan'.pack = scan.pack
        /\ scan'.outs = scan.outs /\ scan'.numCoders = scan.numCoders
        /\ scan'.inStreams = scan.inStreams /\ scan'.packs = scan.packs
        /\ scan'.i = scan.i /\ scan'.coderUsed = scan.coderUsed
        /\ scan'.streamUsed = scan.streamUsed \cup {n}
    BY <2>1, <2>5, <1>3 DEF LocalSet
  <2>7. ScanPlace' BY <2>1, <2>4, <2>6 DEF ScanPlace
  <2> QED BY <2>1, <2>6, <2>7, <1>4, ScanReads
<1> QED BY <1>6, <1>7

(* So does its output.                                                       *)
LEMMA ScanBondOutKeeps ==
  ASSUME ScanInv, ScanBondOut
  PROVE ScanInv'
<1>1. PICK n \in Numbers :
       /\ data' = Append(data, n)
       /\ IF n >= scan.numCoders \/ n \in scan.coderUsed
          THEN Stop("archive")
          ELSE /\ scan' = [scan EXCEPT !.coderUsed = @ \cup {n}, !.i = @ + 1]
               /\ pc' = "bond" /\ Keep
  BY DEF ScanBondOut, Take
<1>2. n \in Byte /\ n \in Nat BY NumbersAreBytes
<1>3. data \in Seq(Byte) /\ scan \in LocalSet BY DEF ScanInv, ScanType
<1>4. Prefix(data, data') BY <1>1, <1>2, <1>3, AppendByte
<1>5. /\ scan.at \in Nat /\ scan.numCoders \in Nat /\ scan.i \in Nat
      /\ scan.inStreams \in Nat
  BY <1>3 DEF LocalSet
<1>6. CASE n >= scan.numCoders \/ n \in scan.coderUsed
  <2>1. UNCHANGED <<scan, ar>> /\ pc' = "archive" BY <1>1, <1>6 DEF Stop
  <2> QED BY <2>1, <1>4, ScanStops DEF ScanPcs
<1>7. CASE ~(n >= scan.numCoders \/ n \in scan.coderUsed)
  <2>1. /\ scan' = [scan EXCEPT !.coderUsed = @ \cup {n}, !.i = @ + 1]
        /\ pc' = "bond" /\ ar' = ar
    BY <1>1, <1>7 DEF Keep
  <2>2. AtBondOut(data, scan.at, scan.numCoders, scan.inStreams, scan.packs, scan.i,
                  scan.streamUsed, scan.coderUsed)
    BY DEF ScanInv, ScanPlace, ScanBondOut
  <2>3. n < scan.numCoders BY <1>2, <1>5, <1>7
  <2>4. AtBond(data', scan.at, scan.numCoders, scan.inStreams, scan.packs, scan.i + 1,
               scan.streamUsed, scan.coderUsed \cup {n})
    BY <1>1, <1>2, <1>3, <1>5, <1>7, <2>2, <2>3, ScanBondOutFinds
  <2>5. scan.coderUsed \cup {n} \in SUBSET Nat /\ scan.i + 1 \in Nat
    BY <1>2, <1>3 DEF LocalSet
  <2>6. scan' = [scan EXCEPT !.coderUsed = scan.coderUsed \cup {n}, !.i = scan.i + 1]
    BY <2>1
  <2>7. /\ scan' \in LocalSet /\ scan'.at = scan.at /\ scan'.pack = scan.pack
        /\ scan'.outs = scan.outs /\ scan'.numCoders = scan.numCoders
        /\ scan'.inStreams = scan.inStreams /\ scan'.packs = scan.packs
        /\ scan'.i = scan.i + 1 /\ scan'.coderUsed = scan.coderUsed \cup {n}
        /\ scan'.streamUsed = scan.streamUsed
    BY <2>5, <2>6, <1>3 DEF LocalSet
  <2>8. ScanPlace' BY <2>1, <2>4, <2>7 DEF ScanPlace
  <2> QED BY <2>1, <2>7, <2>8, <1>4, ScanReads
<1> QED BY <1>6, <1>7

(* So does the turn to a packed stream.                                      *)
LEMMA ScanPackKeeps ==
  ASSUME ScanInv, ScanPack
  PROVE ScanInv'
<1>1. data \in Seq(Byte) /\ scan \in LocalSet BY DEF ScanInv, ScanType
<1>2. data' = data /\ Prefix(data, data') BY <1>1, SamePrefix DEF ScanPack
<1>3. /\ scan.at \in Nat /\ scan.numCoders \in Nat /\ scan.i \in Nat
      /\ scan.packs \in Nat
  BY <1>1 DEF LocalSet
<1>4. AtPack(data, scan.at, scan.numCoders, scan.inStreams, scan.packs, scan.i,
              scan.streamUsed, scan.coderUsed)
  BY DEF ScanInv, ScanPlace, ScanPack
<1>5. ar' = ar /\ scan' = scan BY DEF ScanPack, Keep
<1>6. CASE scan.i < scan.packs
  <2>1. pc' = "packStream" BY <1>6 DEF ScanPack
  <2>2. ScanPlace' BY <2>1, <1>2, <1>4, <1>5, <1>6 DEF ScanPlace
  <2> QED BY <2>2, <1>1, <1>2, <1>5, ScanReads
<1>7. CASE ~(scan.i < scan.packs)
  <2>1. pc' = "main stream" BY <1>7 DEF ScanPack
  <2>2. AtMainStream(data, scan.at, scan.numCoders, scan.inStreams, scan.packs,
                     scan.coderUsed)
    BY <1>1, <1>3, <1>4, <1>7, ScanPackEnds
  <2>3. ScanPlace' BY <2>1, <2>2, <1>2, <1>5 DEF ScanPlace
  <2> QED BY <2>3, <1>1, <1>2, <1>5, ScanReads
<1> QED BY <1>6, <1>7

(* So does a packed stream.                                                  *)
LEMMA ScanPackStreamKeeps ==
  ASSUME ScanInv, ScanPackStream
  PROVE ScanInv'
<1>1. PICK n \in Numbers :
       /\ data' = Append(data, n)
       /\ IF n >= scan.inStreams \/ n \in scan.streamUsed
          THEN Stop("archive")
          ELSE /\ scan' = [scan EXCEPT !.streamUsed = @ \cup {n}, !.i = @ + 1]
               /\ pc' = "pack" /\ Keep
  BY DEF ScanPackStream, Take
<1>2. n \in Byte /\ n \in Nat BY NumbersAreBytes
<1>3. data \in Seq(Byte) /\ scan \in LocalSet BY DEF ScanInv, ScanType
<1>4. Prefix(data, data') BY <1>1, <1>2, <1>3, AppendByte
<1>5. /\ scan.at \in Nat /\ scan.numCoders \in Nat /\ scan.i \in Nat
      /\ scan.inStreams \in Nat /\ scan.packs \in Nat
  BY <1>3 DEF LocalSet
<1>6. CASE n >= scan.inStreams \/ n \in scan.streamUsed
  <2>1. UNCHANGED <<scan, ar>> /\ pc' = "archive" BY <1>1, <1>6 DEF Stop
  <2> QED BY <2>1, <1>4, ScanStops DEF ScanPcs
<1>7. CASE ~(n >= scan.inStreams \/ n \in scan.streamUsed)
  <2>1. /\ scan' = [scan EXCEPT !.streamUsed = @ \cup {n}, !.i = @ + 1]
        /\ pc' = "pack" /\ ar' = ar
    BY <1>1, <1>7 DEF Keep
  <2>2. /\ AtPack(data, scan.at, scan.numCoders, scan.inStreams, scan.packs, scan.i,
                  scan.streamUsed, scan.coderUsed)
        /\ scan.i < scan.packs
    BY DEF ScanInv, ScanPlace, ScanPackStream
  <2>3. n < scan.inStreams BY <1>2, <1>5, <1>7
  <2>4. AtPack(data', scan.at, scan.numCoders, scan.inStreams, scan.packs, scan.i + 1,
               scan.streamUsed \cup {n}, scan.coderUsed)
    BY <1>1, <1>2, <1>3, <1>5, <1>7, <2>2, <2>3, ScanPackStreamFinds
  <2>5. scan.streamUsed \cup {n} \in SUBSET Nat /\ scan.i + 1 \in Nat
    BY <1>2, <1>3 DEF LocalSet
  <2>6. scan' = [scan EXCEPT !.streamUsed = scan.streamUsed \cup {n}, !.i = scan.i + 1]
    BY <2>1
  <2>7. /\ scan' \in LocalSet /\ scan'.at = scan.at /\ scan'.pack = scan.pack
        /\ scan'.outs = scan.outs /\ scan'.numCoders = scan.numCoders
        /\ scan'.inStreams = scan.inStreams /\ scan'.packs = scan.packs
        /\ scan'.i = scan.i + 1 /\ scan'.coderUsed = scan.coderUsed
        /\ scan'.streamUsed = scan.streamUsed \cup {n}
    BY <2>5, <2>6, <1>3 DEF LocalSet
  <2>8. ScanPlace' BY <2>1, <2>4, <2>7 DEF ScanPlace
  <2> QED BY <2>1, <2>7, <2>8, <1>4, ScanReads
<1> QED BY <1>6, <1>7

(* So does the choice of the main output.                                    *)
LEMMA ScanMainStreamKeeps ==
  ASSUME ScanInv, ScanMainStream
  PROVE ScanInv'
<1>1. data \in Seq(Byte) /\ scan \in LocalSet BY DEF ScanInv, ScanType
<1>2. data' = data /\ Prefix(data, data') BY <1>1, SamePrefix DEF ScanMainStream
<1>3. scan.at \in Nat /\ scan.numCoders \in Nat /\ scan.packs \in Nat BY <1>1 DEF LocalSet
<1>4. AtMainStream(data, scan.at, scan.numCoders, scan.inStreams, scan.packs,
                   scan.coderUsed)
  BY DEF ScanInv, ScanPlace, ScanMainStream
<1> DEFINE free == (0 .. scan.numCoders - 1) \ scan.coderUsed
<1>5. CASE (0 .. scan.numCoders - 1) \subseteq scan.coderUsed
  <2>1. UNCHANGED <<scan, ar>> /\ pc' = "archive" BY <1>5 DEF ScanMainStream, Stop
  <2> QED BY <2>1, <1>2, ScanStops DEF ScanPcs
<1>6. CASE ~((0 .. scan.numCoders - 1) \subseteq scan.coderUsed)
  <2>1. /\ scan' = [scan EXCEPT !.main = FirstUnused(scan)]
        /\ pc' = "record" /\ ar' = ar
    BY <1>6 DEF ScanMainStream, Keep
  <2>2. FirstUnused(scan) = Least(free) BY DEF FirstUnused, Least
  <2>3. Least(free) \in Nat
    <3>1. free \in SUBSET Nat /\ free # {} BY <1>6
    <3> QED BY <3>1, LeastNatural
  <2>4. FolderBytes(data, scan.at, Len(data), scan.numCoders, scan.packs, Least(free))
    BY <1>1, <1>3, <1>4, <1>6, ScanMainStreamFinds
  <2> HIDE DEF free
  <2>5. /\ scan' \in LocalSet /\ scan'.at = scan.at /\ scan'.pack = scan.pack
        /\ scan'.outs = scan.outs /\ scan'.numCoders = scan.numCoders
        /\ scan'.packs = scan.packs /\ scan'.main = Least(free)
    BY <2>1, <2>2, <2>3, <1>1 DEF LocalSet
  <2>6. ScanPlace' BY <2>1, <2>4, <2>5, <1>2 DEF ScanPlace
  <2> QED BY <2>1, <2>5, <2>6, <1>2, ScanReads
<1> QED BY <1>5, <1>6

(* A folder that is recorded is a row that stands for its bytes.             *)
LEMMA ScanRecordKeeps ==
  ASSUME ScanInv, ScanRecord
  PROVE ScanInv'
<1>1. data \in Seq(Byte) /\ scan \in LocalSet /\ ar \in Seq(RowSet)
  BY DEF ScanInv, ScanType
<1>2. data' = data /\ Prefix(data, data') BY <1>1, SamePrefix DEF ScanRecord
<1>3. /\ scan.at \in Nat /\ scan.numCoders \in Nat /\ scan.packs \in Nat
      /\ scan.pack \in Nat /\ scan.outs \in Nat /\ scan.main \in Nat
  BY <1>1 DEF LocalSet
<1>4. FolderBytes(data, scan.at, Len(data), scan.numCoders, scan.packs, scan.main)
  BY DEF ScanInv, ScanPlace, ScanRecord
<1>5. CASE scan.packs > NumPackStreams - scan.pack
  <2>1. UNCHANGED <<scan, ar>> /\ pc' = "archive" BY <1>5 DEF ScanRecord, Stop
  <2> QED BY <2>1, <1>2, ScanStops DEF ScanPcs
<1>6. CASE ~(scan.packs > NumPackStreams - scan.pack)
  <2> DEFINE row == [FoCodersOffsets |-> scan.at,
                     FoStartPackStreamIndex |-> scan.pack,
                     FoToCoderUnpackSizes |-> scan.outs,
                     FoToMainUnpackSizeIndex |-> scan.main]
  <2>1. /\ ar' = Append(ar, row)
        /\ scan' = [scan EXCEPT !.pack = @ + scan.packs, !.outs = @ + scan.numCoders,
                                !.at = Len(data)]
        /\ pc' \in {"numCoders", "decode"}
    BY <1>6 DEF ScanRecord
  <2>2. /\ Len(data) \in Nat /\ scan.pack + scan.packs \in Nat
        /\ scan.outs + scan.numCoders \in Nat
    <3>1. Len(data) \in Nat BY <1>1, LenProperties
    <3> QED BY <3>1, <1>3
  <2>3. /\ scan' \in LocalSet /\ scan'.at = Len(data)
        /\ scan'.pack = scan.pack + scan.packs
        /\ scan'.outs = scan.outs + scan.numCoders
    <3>1. scan' = [scan EXCEPT !.pack = scan.pack + scan.packs,
                               !.outs = scan.outs + scan.numCoders, !.at = Len(data)]
      BY <2>1
    <3> QED BY <3>1, <2>2, <1>1 DEF LocalSet
  <2>4. row \in RowSet BY <1>3 DEF RowSet
  <2>5. /\ row.FoCodersOffsets = scan.at /\ row.FoStartPackStreamIndex = scan.pack
        /\ row.FoToCoderUnpackSizes = scan.outs /\ row.FoToMainUnpackSizeIndex = scan.main
    OBVIOUS
  <2> HIDE DEF row
  <2>6. /\ ar' \in Seq(RowSet) /\ Len(ar') = Len(ar) + 1 /\ ar'[Len(ar) + 1] = row
        /\ \A k \in 1 .. Len(ar) : ar'[k] = ar[k]
    BY <2>1, <2>4, <1>1, AppendProperties
  <2>7. Len(ar) \in Nat BY <1>1, LenProperties
  <2>8. ScanType' BY <1>1, <1>2, <2>2, <2>3, <2>6 DEF ScanType
  <2>9. ScanPlace' BY <1>2, <2>1, <2>3 DEF ScanPlace
  <2>10. \A fo \in 0 .. Len(ar) :
          /\ Offset(fo)' = Offset(fo) /\ Outs(fo)' = Outs(fo)
          /\ StartPack(fo)' = StartPack(fo)
    <3> TAKE fo \in 0 .. Len(ar)
    <3>1. fo < Len(ar') BY <2>6, <2>7
    <3>2. CASE fo < Len(ar)
      <4>1. fo + 1 \in 1 .. Len(ar) BY <2>7, <3>2
      <4>2. ar'[fo + 1] = ar[fo + 1] BY <4>1, <2>6
      <4> QED BY <3>1, <3>2, <4>2 DEF Offset, Outs, StartPack
    <3>3. CASE fo = Len(ar)
      <4>1. ar'[fo + 1] = row BY <3>3, <2>6
      <4>2. ~(fo < Len(ar)) BY <3>3, <2>7
      <4> QED BY <3>1, <4>1, <4>2, <2>5 DEF Offset, Outs, StartPack
    <3> QED BY <3>2, <3>3, <2>7
  <2>11. ASSUME NEW k \in Nat, k = Len(ar) + 1
         PROVE /\ Offset(k)' = Len(data) /\ Outs(k)' = scan.outs + scan.numCoders
               /\ StartPack(k)' = scan.pack + scan.packs
    <3>1. ~(k < Len(ar')) BY <2>6, <2>7, <2>11
    <3> QED BY <3>1, <2>3 DEF Offset, Outs, StartPack
  <2>12. /\ Offset(Len(ar)) = scan.at /\ Outs(Len(ar)) = scan.outs
         /\ StartPack(Len(ar)) = scan.pack
    BY <2>7 DEF Offset, Outs, StartPack
  <2>13. Rows'
    <3> SUFFICES ASSUME NEW fo \in 0 .. Len(ar') - 1
                 PROVE (Offset(fo) \in Nat /\ Offset(fo + 1) \in Nat /\ Row(fo))'
      BY DEF Rows
    <3>1. fo \in 0 .. Len(ar) BY <2>6, <2>7
    <3>2. CASE fo = Len(ar)
      <4>1. /\ Offset(fo)' = scan.at /\ Outs(fo)' = scan.outs /\ StartPack(fo)' = scan.pack
        BY <2>10, <2>12, <3>1, <3>2
      <4>2. /\ Offset(fo + 1)' = Len(data) /\ Outs(fo + 1)' = scan.outs + scan.numCoders
            /\ StartPack(fo + 1)' = scan.pack + scan.packs
        <5>1. fo + 1 \in Nat /\ fo + 1 = Len(ar) + 1 BY <2>7, <3>2
        <5> QED BY <2>11, <5>1
      <4>3. /\ (scan.outs + scan.numCoders) - scan.outs = scan.numCoders
            /\ (scan.pack + scan.packs) - scan.pack = scan.packs
        BY <1>3
      <4>4. ar'[fo + 1].FoToMainUnpackSizeIndex = scan.main BY <2>5, <2>6, <3>2
      <4>5. FolderBytes(data', scan.at, Len(data), scan.numCoders, scan.packs, scan.main)
        BY <1>2, <1>4
      <4>6. Row(fo)' BY <4>1, <4>2, <4>3, <4>4, <4>5 DEF Row
      <4> QED BY <4>1, <4>2, <4>6, <1>3, <2>2
    <3>3. CASE fo # Len(ar)
      <4>1. fo \in 0 .. Len(ar) - 1 /\ fo + 1 \in 0 .. Len(ar) /\ fo + 1 \in 1 .. Len(ar)
        BY <3>1, <3>3, <2>7
      <4>2. /\ Offset(fo)' = Offset(fo) /\ Outs(fo)' = Outs(fo)
            /\ StartPack(fo)' = StartPack(fo)
        BY <2>10, <3>1
      <4>3. /\ Offset(fo + 1)' = Offset(fo + 1) /\ Outs(fo + 1)' = Outs(fo + 1)
            /\ StartPack(fo + 1)' = StartPack(fo + 1)
        BY <2>10, <4>1
      <4>4. ar'[fo + 1] = ar[fo + 1] BY <4>1, <2>6
      <4>5. Offset(fo) \in Nat /\ Offset(fo + 1) \in Nat /\ Row(fo)
        BY <4>1 DEF ScanInv, Rows
      <4>6. Row(fo)' BY <4>2, <4>3, <4>4, <4>5, <1>2 DEF Row
      <4> QED BY <4>2, <4>3, <4>5, <4>6
    <3> QED BY <3>2, <3>3
  <2> QED BY <2>8, <2>9, <2>13 DEF ScanInv
<1> QED BY <1>5, <1>6

-----------------------------------------------------------------------------
(* Counting the bonds and the packed streams of a folder in the bytes.       *)

(* A set of numbers that has 0 and the successor of each has them all.       *)
LEMMA Induction ==
  ASSUME NEW T \in SUBSET Nat, 0 \in T, \A n \in Nat : n \in T => n + 1 \in T
  PROVE T = Nat
<1> SUFFICES ASSUME T # Nat PROVE FALSE OBVIOUS
<1> DEFINE x == Least(Nat \ T)
<1>1. Nat \ T \in SUBSET Nat /\ Nat \ T # {} OBVIOUS
<1>2. x \in Nat \ T /\ \A y \in Nat \ T : x <= y BY <1>1, LeastNatural
<1> HIDE DEF x
<1>3. x - 1 \in Nat BY <1>2
<1> QED BY <1>2, <1>3

(* The bonds name as many inputs, and as many outputs, as there are.         *)
LEMMA BondCounts ==
  ASSUME NEW d \in Seq(Byte), NEW g \in Nat, NEW n \in Nat, NEW m \in Nat, NEW j \in Nat,
         BondsOk(d, g, n, m, j)
  PROVE /\ IsFiniteSet(BondIns(d, g, j)) /\ Cardinality(BondIns(d, g, j)) = j
        /\ IsFiniteSet(BondOuts(d, g, j)) /\ Cardinality(BondOuts(d, g, j)) = j
        /\ BondIns(d, g, j) \subseteq 0 .. m - 1
        /\ BondOuts(d, g, j) \subseteq 0 .. n - 1
<1> DEFINE Counts(k) == /\ IsFiniteSet(BondIns(d, g, k)) /\ Cardinality(BondIns(d, g, k)) = k
                        /\ IsFiniteSet(BondOuts(d, g, k)) /\ Cardinality(BondOuts(d, g, k)) = k
           T == {k \in Nat : k <= j => Counts(k)}
<1>1. 0 \in T
  <2>1. BondIns(d, g, 0) = {} /\ BondOuts(d, g, 0) = {} BY NoBonds
  <2>2. Counts(0) BY <2>1, FS_EmptySet
  <2> QED BY <2>2
<1>2. \A k \in Nat : k \in T => k + 1 \in T
  <2> SUFFICES ASSUME NEW k \in Nat, k \in T, k + 1 <= j PROVE Counts(k + 1)
    OBVIOUS
  <2>1. Counts(k) OBVIOUS
  <2>2. k \in 0 .. j - 1 OBVIOUS
  <2>3. /\ BondIn(d, g, k) \notin BondIns(d, g, k)
        /\ BondOut(d, g, k) \notin BondOuts(d, g, k)
    BY <2>2 DEF BondsOk
  <2>4. /\ BondIns(d, g, k + 1) = BondIns(d, g, k) \cup {BondIn(d, g, k)}
        /\ BondOuts(d, g, k + 1) = BondOuts(d, g, k) \cup {BondOut(d, g, k)}
    <3>1. BondAdded(d, g, k) BY BondSetsGrow
    <3> QED BY <3>1 DEF BondAdded
  <2>5. /\ IsFiniteSet(BondIns(d, g, k + 1))
        /\ Cardinality(BondIns(d, g, k + 1)) = k + 1
    BY <2>1, <2>3, <2>4, FS_AddElement
  <2>6. /\ IsFiniteSet(BondOuts(d, g, k + 1))
        /\ Cardinality(BondOuts(d, g, k + 1)) = k + 1
    BY <2>1, <2>3, <2>4, FS_AddElement
  <2> QED BY <2>5, <2>6
<1>3. T \in SUBSET Nat OBVIOUS
<1>4. Counts(j)
  <2> HIDE DEF Counts
  <2>1. T = Nat
    <3> HIDE DEF T
    <3> QED BY <1>1, <1>2, <1>3, Induction
  <2> QED BY <2>1
<1>5. ASSUME NEW k \in 0 .. j - 1
      PROVE BondIn(d, g, k) \in 0 .. m - 1 /\ BondOut(d, g, k) \in 0 .. n - 1
  <2>1. k \in Nat /\ g + 2 * k + 2 <= Len(d)
    <3>1. g + 2 * j <= Len(d) /\ Len(d) \in Nat BY LenProperties DEF BondsOk
    <3> QED BY <3>1
  <2>2. BondIn(d, g, k) \in Nat /\ BondOut(d, g, k) \in Nat BY <2>1, BondPlaces
  <2>3. BondIn(d, g, k) < m /\ BondOut(d, g, k) < n BY DEF BondsOk
  <2> QED BY <2>2, <2>3
<1>6. BondIns(d, g, j) \subseteq 0 .. m - 1 /\ BondOuts(d, g, j) \subseteq 0 .. n - 1
  BY <1>5 DEF BondIns, BondOuts
<1> QED BY <1>4, <1>6

PacksCounted(d, h, S, m, j) ==
  /\ IsFiniteSet(S \cup PackIns(d, h, j))
  /\ Cardinality(S \cup PackIns(d, h, j)) = Cardinality(S) + j
  /\ PackIns(d, h, j) \subseteq 0 .. m - 1

(* So do the packed streams, besides the inputs of bonds.                    *)
LEMMA PackCounts ==
  ASSUME NEW d \in Seq(Byte), NEW h \in Nat, NEW S, NEW m \in Nat, NEW j \in Nat,
         PacksOk(d, h, S, m, j), IsFiniteSet(S)
  PROVE PacksCounted(d, h, S, m, j)
<1>0. Cardinality(S) \in Nat BY FS_CardinalityType
<1> DEFINE Counts(k) == /\ IsFiniteSet(S \cup PackIns(d, h, k))
                        /\ Cardinality(S \cup PackIns(d, h, k)) = Cardinality(S) + k
           T == {k \in Nat : k <= j => Counts(k)}
<1>1. 0 \in T
  <2>1. PackIns(d, h, 0) = {} BY NoPacks
  <2>2. S \cup PackIns(d, h, 0) = S BY <2>1
  <2>3. Cardinality(S) + 0 = Cardinality(S) BY <1>0
  <2>4. Counts(0) BY <2>2, <2>3
  <2> HIDE DEF Counts
  <2> QED BY <2>4
<1>2. \A k \in Nat : k \in T => k + 1 \in T
  <2> SUFFICES ASSUME NEW k \in Nat, k \in T, k + 1 <= j PROVE Counts(k + 1)
    OBVIOUS
  <2>1. Counts(k) OBVIOUS
  <2>2. k \in 0 .. j - 1 OBVIOUS
  <2>3. PackIn(d, h, k) \notin S \cup PackIns(d, h, k) BY <2>2 DEF PacksOk
  <2>4. PackIns(d, h, k + 1) = PackIns(d, h, k) \cup {PackIn(d, h, k)} BY PackSetGrows
  <2>5. S \cup PackIns(d, h, k + 1) = (S \cup PackIns(d, h, k)) \cup {PackIn(d, h, k)}
    BY <2>4
  <2>6. /\ IsFiniteSet(S \cup PackIns(d, h, k + 1))
        /\ Cardinality(S \cup PackIns(d, h, k + 1))
             = Cardinality(S \cup PackIns(d, h, k)) + 1
    BY <2>1, <2>3, <2>5, FS_AddElement
  <2>7. Cardinality(S \cup PackIns(d, h, k)) = Cardinality(S) + k BY <2>1
  <2>8. (Cardinality(S) + k) + 1 = Cardinality(S) + (k + 1) BY <1>0
  <2> QED BY <2>6, <2>7, <2>8
<1>3. T \in SUBSET Nat OBVIOUS
<1>4. Counts(j)
  <2> HIDE DEF Counts
  <2>1. T = Nat
    <3> HIDE DEF T
    <3> QED BY <1>1, <1>2, <1>3, Induction
  <2> QED BY <2>1
<1>5. ASSUME NEW k \in 0 .. j - 1 PROVE PackIn(d, h, k) \in 0 .. m - 1
  <2>1. k \in Nat /\ h + k + 1 <= Len(d)
    <3>1. h + j <= Len(d) /\ Len(d) \in Nat BY LenProperties DEF PacksOk
    <3> QED BY <3>1
  <2>2. PackIn(d, h, k) \in Nat BY <2>1, PackPlace
  <2>3. PackIn(d, h, k) < m BY DEF PacksOk
  <2> QED BY <2>2, <2>3
<1>6. PackIns(d, h, j) \subseteq 0 .. m - 1 BY <1>5 DEF PackIns
<1> QED BY <1>4, <1>6 DEF PacksCounted

(* A set of numbers below k that misses one of them, and a full one.         *)
LEMMA AllOf ==
  ASSUME NEW k \in Nat, NEW S \in SUBSET (0 .. k - 1), Cardinality(S) = k
  PROVE S = 0 .. k - 1
<1>1. IsFiniteSet(0 .. k - 1) /\ Cardinality(0 .. k - 1) = k
  <2>1. 0 \in Int /\ k - 1 \in Int OBVIOUS
  <2>2. Cardinality(0 .. k - 1) = IF 0 > k - 1 THEN 0 ELSE (k - 1) - 0 + 1
    BY <2>1, FS_Interval
  <2> QED BY <2>1, <2>2, FS_Interval
<1> QED BY <1>1, FS_Subset

(* A set of numbers below k that misses one of them.                         *)
LEMMA AllButOne ==
  ASSUME NEW k \in Nat \ {0}, NEW S \in SUBSET (0 .. k - 1), IsFiniteSet(S),
         Cardinality(S) = k - 1, (0 .. k - 1) \ S # {}
  PROVE LET x == Least((0 .. k - 1) \ S)
        IN x \in 0 .. k - 1 /\ x \notin S /\ S = (0 .. k - 1) \ {x}
             /\ S \cup {x} = 0 .. k - 1
<1> DEFINE x == Least((0 .. k - 1) \ S)
<1>1. (0 .. k - 1) \ S \in SUBSET Nat OBVIOUS
<1>2. x \in (0 .. k - 1) \ S BY <1>1, LeastNatural
<1> HIDE DEF x
<1>3. Cardinality(S \cup {x}) = k BY <1>2, FS_AddElement
<1>4. S \cup {x} \in SUBSET (0 .. k - 1) BY <1>2
<1>5. S \cup {x} = 0 .. k - 1 BY <1>3, <1>4, AllOf
<1>6. S = (0 .. k - 1) \ {x} BY <1>2, <1>5
<1> QED BY <1>2, <1>5, <1>6 DEF x

(* ... misses one if it has one element less.                                *)
LEMMA OneMissing ==
  ASSUME NEW k \in Nat \ {0}, NEW S \in SUBSET (0 .. k - 1), IsFiniteSet(S),
         Cardinality(S) = k - 1
  PROVE (0 .. k - 1) \ S # {}
<1> SUFFICES ASSUME (0 .. k - 1) \ S = {} PROVE FALSE OBVIOUS
<1>1. S = 0 .. k - 1 OBVIOUS
<1>2. 0 \in Int /\ k - 1 \in Int OBVIOUS
<1>3. Cardinality(0 .. k - 1) = IF 0 > k - 1 THEN 0 ELSE (k - 1) - 0 + 1
  BY <1>2, FS_Interval
<1> QED BY <1>1, <1>3

-----------------------------------------------------------------------------
(* What SzGetNextFolderItem finds in the bytes of a folder of the scan.      *)

(* The graph of a folder, however many packed streams it has                 *)
LEMMA GraphFacts ==
  ASSUME NEW d \in Seq(Byte), NEW g \in Nat, NEW n \in Nat \ {0}, NEW m \in Nat,
         NEW e, NEW packs, NEW main, GraphOk(d, g, n, m, e, packs, main)
  PROVE /\ packs \in Nat /\ n - 1 <= m /\ packs = m - (n - 1)
        /\ main \in 0 .. n - 1 /\ BondOuts(d, g, n - 1) = (0 .. n - 1) \ {main}
        /\ BondIns(d, g, n - 1) \subseteq 0 .. m - 1
        /\ IsFiniteSet(BondIns(d, g, n - 1)) /\ Cardinality(BondIns(d, g, n - 1)) = n - 1
        /\ BondsEnd(g, n) \in Nat /\ e \in Nat
<1>1. n - 1 \in Nat /\ n - 1 <= m /\ packs = m - (n - 1) /\ BondsOk(d, g, n, m, n - 1)
  BY DEF GraphOk
<1>2. packs \in Nat BY <1>1
<1>3. /\ IsFiniteSet(BondIns(d, g, n - 1)) /\ Cardinality(BondIns(d, g, n - 1)) = n - 1
      /\ IsFiniteSet(BondOuts(d, g, n - 1)) /\ Cardinality(BondOuts(d, g, n - 1)) = n - 1
      /\ BondIns(d, g, n - 1) \subseteq 0 .. m - 1
      /\ BondOuts(d, g, n - 1) \subseteq 0 .. n - 1
  BY <1>1, BondCounts
<1>4. /\ (0 .. n - 1) \ BondOuts(d, g, n - 1) # {}
      /\ main = Least((0 .. n - 1) \ BondOuts(d, g, n - 1))
      /\ e = BondsEnd(g, n) + (IF packs = 1 THEN 0 ELSE packs)
  BY DEF GraphOk
<1>5. main \in 0 .. n - 1 /\ BondOuts(d, g, n - 1) = (0 .. n - 1) \ {main}
  BY <1>3, <1>4, AllButOne
<1>6. BondsEnd(g, n) \in Nat BY DEF BondsEnd
<1>7. e \in Nat BY <1>2, <1>4, <1>6
<1> QED BY <1>1, <1>2, <1>3, <1>5, <1>6, <1>7

(* All inputs are used at the end.                                           *)
LEMMA AllInputs ==
  ASSUME NEW d \in Seq(Byte), NEW g \in Nat, NEW n \in Nat \ {0}, NEW m \in Nat,
         NEW e, NEW packs, NEW main, GraphOk(d, g, n, m, e, packs, main), packs # 1
  PROVE BondIns(d, g, n - 1) \cup PackIns(d, BondsEnd(g, n), packs) = 0 .. m - 1
<1> DEFINE S == BondIns(d, g, n - 1)  h == BondsEnd(g, n)
<1>1. /\ packs \in Nat /\ packs = m - (n - 1) /\ S \subseteq 0 .. m - 1
      /\ IsFiniteSet(S) /\ Cardinality(S) = n - 1 /\ h \in Nat
  BY GraphFacts
<1>2. PacksOk(d, h, S, m, packs) BY DEF GraphOk
<1> HIDE DEF S, h
<1>3. /\ Cardinality(S \cup PackIns(d, h, packs)) = Cardinality(S) + packs
      /\ PackIns(d, h, packs) \subseteq 0 .. m - 1
  <2>1. PacksCounted(d, h, S, m, packs) BY <1>1, <1>2, PackCounts
  <2> QED BY <2>1 DEF PacksCounted
<1>4. Cardinality(S) + packs = m BY <1>1
<1>5. S \cup PackIns(d, h, packs) \in SUBSET (0 .. m - 1) BY <1>1, <1>3
<1>6. S \cup PackIns(d, h, packs) = 0 .. m - 1
  <2> DEFINE U == S \cup PackIns(d, h, packs)
  <2>1. U \in SUBSET (0 .. m - 1) /\ Cardinality(U) = m BY <1>3, <1>4, <1>5
  <2> HIDE DEF U
  <2>2. U = 0 .. m - 1 BY <2>1, AllOf
  <2> QED BY <2>2 DEF U
<1> QED BY <1>6 DEF S, h

(* The one packed stream is the input that is left.                          *)
LeftOver(n, S, k) ==
  /\ k \in Nat /\ (0 .. n - 1) \ S # {} /\ k = Least((0 .. n - 1) \ S)
  /\ S \cup {k} = 0 .. n - 1
(* That one is the least, as there is no other.                              *)
LEMMA LastInput ==
  ASSUME NEW n \in Nat \ {0}, NEW S \in SUBSET (0 .. n - 1), IsFiniteSet(S),
         Cardinality(S) = n - 1
  PROVE LeftOver(n, S, Least((0 .. n - 1) \ S))
<1> DEFINE x == Least((0 .. n - 1) \ S)
<1>1. (0 .. n - 1) \ S # {} BY OneMissing
<1>2. x \in 0 .. n - 1 /\ S \cup {x} = 0 .. n - 1 BY <1>1, AllButOne
<1>3. x \in Nat
  <2> HIDE DEF x
  <2> QED BY <1>2
<1> QED BY <1>1, <1>2, <1>3 DEF LeftOver

(* A coder lies in front of what follows it.                                 *)
LEMMA CoderOfWalk ==
  ASSUME NEW d \in Seq(Byte), NEW off, NEW n \in Nat, NEW from, NEW ins,
         Walk(d, off, n, from, ins), NEW c \in Nat, c < n
  PROVE /\ CoderOk(d, from[c]) /\ from[c] \in Nat /\ ins[c] \in Nat
        /\ from[c + 1] = CoderEnd(d, from[c]) /\ from[c + 1] <= from[n]
        /\ from[c + 1] \in Nat /\ from[n] \in Nat /\ ins[c + 1] \in Nat
        /\ ins[c + 1] = ins[c] + Streams(d, from[c])
<1>1. c \in 0 .. n - 1 /\ c \in 0 .. n /\ c + 1 \in 0 .. n /\ n \in 0 .. n OBVIOUS
<1> QED BY <1>1 DEF Walk

(* The bonds end before the folder does.                                     *)
LEMMA GraphEnd ==
  ASSUME NEW d \in Seq(Byte), NEW g \in Nat, NEW n \in Nat \ {0}, NEW m \in Nat,
         NEW e, NEW packs, NEW main, GraphOk(d, g, n, m, e, packs, main)
  PROVE /\ e \in Nat /\ g + 2 * (n - 1) <= e
        /\ packs # 1 => e = BondsEnd(g, n) + packs
        /\ packs = 1 => e = BondsEnd(g, n)
<1>1. packs \in Nat /\ BondsEnd(g, n) \in Nat /\ e \in Nat BY GraphFacts
<1>2. e = BondsEnd(g, n) + (IF packs = 1 THEN 0 ELSE packs) BY DEF GraphOk
<1>3. BondsEnd(g, n) <= e BY <1>1, <1>2
<1>4. BondsEnd(g, n) + 0 = BondsEnd(g, n) BY <1>1
<1> QED BY <1>1, <1>2, <1>3, <1>4 DEF BondsEnd

-----------------------------------------------------------------------------
(* What SzGetNextFolderItem keeps true: it is in step with the scan.         *)

CoderSet == [NumStreams : Nat, PropsOffset : Nat, PropsSize : Nat]
BondSet == [InIndex : Nat, OutIndex : Nat]
FolderSet == [NumCoders : Nat, Coders : Seq(CoderSet), Bonds : Seq(BondSet),
              PackStreams : Seq(Nat), NumPackStreams : Nat, UnpackStream : Nat]
ItemPcs == {"item", "item coder", "item streams", "item props", "item bonds", "item bond",
            "item one pack", "item pack", "item done"}

(* What the tables say of the folder                                         *)
Start == Offset(item.fo)
NumOf == Outs(item.fo + 1) - Outs(item.fo)
PacksOf == StartPack(item.fo + 1) - StartPack(item.fo)
MainOf == ar[item.fo + 1].FoToMainUnpackSizeIndex
Mine(from, ins) == Layout(data, Start, End, NumOf, PacksOf, MainOf, from, ins)

Inside == \A k \in 1 .. Len(folder.Coders) :
            folder.Coders[k].PropsOffset + folder.Coders[k].PropsSize <= End - Start

CodersStage(ins) ==
  /\ item.numCoders = NumOf /\ item.ci <= NumOf /\ item.inStreams = ins[item.ci]
  /\ item.streamUsed = {} /\ item.coderUsed = {} /\ item.i = 0
  /\ folder.Bonds = << >> /\ folder.PackStreams = << >> /\ Inside
InCoder(from) ==
  /\ item.ci < NumOf /\ item.mainByte = data[from[item.ci] + 1]
  /\ Len(folder.Coders) = item.ci + 1

GraphStage(from, ins, i) ==
  /\ item.numCoders = NumOf /\ item.inStreams = ins[NumOf]
  /\ item.packs = PacksOf /\ folder.NumPackStreams = PacksOf /\ Inside
  /\ item.coderUsed = BondOuts(data, from[NumOf], i)
  /\ InIndexes = BondIns(data, from[NumOf], i) /\ OutIndexes = BondOuts(data, from[NumOf], i)
  /\ Len(folder.Bonds) = i
PacksAt(from) == BondsEnd(from[NumOf], NumOf)

ItemPlace(from, ins) ==
  /\ pc = "item" => /\ item = [Local EXCEPT !.fo = item.fo, !.at = Start]
                    /\ folder = NoFolder
  /\ pc \in {"item coder", "item streams", "item props", "item bonds"} => CodersStage(ins)
  /\ pc = "item coder" => item.at = from[item.ci] /\ Len(folder.Coders) = item.ci
  /\ pc = "item streams" => /\ InCoder(from) /\ IsComplex(item.mainByte)
                            /\ item.at = IdEnd(data, from[item.ci])
  /\ pc = "item props" => /\ InCoder(from) /\ item.at = PropsAt(data, from[item.ci])
                          /\ folder.Coders[item.ci + 1].NumStreams
                               = Streams(data, from[item.ci])
  /\ pc = "item bonds" => item.ci = NumOf /\ item.at = from[NumOf]
  /\ pc = "item bond" =>
       /\ GraphStage(from, ins, item.i) /\ item.i <= NumOf - 1
       /\ item.at = from[NumOf] + 2 * item.i
       /\ item.streamUsed = BondIns(data, from[NumOf], item.i)
       /\ folder.PackStreams = << >>
  /\ pc \in {"item one pack", "item pack"} =>
       GraphStage(from, ins, NumOf - 1) /\ folder.UnpackStream = MainOf
  /\ pc = "item one pack" =>
       /\ PacksOf = 1 /\ item.at = PacksAt(from)
       /\ item.streamUsed = BondIns(data, from[NumOf], NumOf - 1)
  /\ pc = "item pack" =>
       /\ PacksOf # 1 /\ item.i <= PacksOf /\ item.at = PacksAt(from) + item.i
       /\ item.streamUsed = BondIns(data, from[NumOf], NumOf - 1)
                              \cup PackIns(data, PacksAt(from), item.i)
       /\ Packed = PackIns(data, PacksAt(from), item.i)
       /\ Len(folder.PackStreams) = item.i
  /\ pc = "item done" =>
       /\ item.numCoders = NumOf /\ item.at = End /\ Inside
       /\ folder.UnpackStream = MainOf /\ folder.NumPackStreams = PacksOf
       /\ GraphSound

ItemInv ==
  /\ pc # "item archive"
  /\ pc \in ItemPcs =>
       /\ item \in LocalSet /\ folder \in FolderSet /\ item.fo \in 0 .. Len(ar) - 1
       /\ \E from, ins : Mine(from, ins) /\ ItemPlace(from, ins)

(* A step of SzGetNextFolderItem within the folder.                          *)
LEMMA ItemGoesOn ==
  ASSUME ItemInv, pc \in ItemPcs, UNCHANGED <<data, scan, ar>>, NEW from, NEW ins,
         Mine(from, ins), item'.fo = item.fo, item' \in LocalSet, folder' \in FolderSet,
         pc' \in ItemPcs, ItemPlace(from, ins)'
  PROVE ItemInv'
<1>1. /\ Start' = Start /\ End' = End /\ NumOf' = NumOf /\ PacksOf' = PacksOf
      /\ MainOf' = MainOf
  BY DEF Start, End, NumOf, PacksOf, MainOf, Offset, Outs, StartPack
<1>2. Mine(from, ins)' BY <1>1 DEF Mine
<1>3. item'.fo \in 0 .. Len(ar') - 1 BY DEF ItemInv
<1>4. pc' # "item archive" BY DEF ItemPcs
<1> QED BY <1>2, <1>3, <1>4 DEF ItemInv

(* A step that leaves it, with any other result than an error in the data.   *)
LEMMA ItemStops ==
  ASSUME pc' \notin ItemPcs, pc' # "item archive"
  PROVE ItemInv'
BY DEF ItemInv

(* Arithmetic of the places                                                  *)
LEMMA MineFacts ==
  ASSUME ScanInv, item.fo \in 0 .. Len(ar) - 1, NEW from, NEW ins, Mine(from, ins)
  PROVE /\ data \in Seq(Byte) /\ Len(data) \in Nat /\ Start \in Nat /\ End \in Nat
        /\ End <= Len(data) /\ data[Start + 1] = NumOf /\ NumOf \in Nat \ {0}
        /\ Walk(data, Start, NumOf, from, ins)
        /\ from[NumOf] \in Nat /\ ins[NumOf] \in Nat /\ Start < from[NumOf]
        /\ GraphOk(data, from[NumOf], NumOf, ins[NumOf], End, PacksOf, MainOf)
        /\ from[NumOf] + 2 * (NumOf - 1) <= End /\ PacksOf \in Nat
        /\ from[0] = Start + 1 /\ ins[0] = 0
<1>1. data \in Seq(Byte) /\ Len(data) \in Nat BY LenProperties DEF ScanInv, ScanType
<1>2. Start \in Nat /\ End \in Nat BY DEF ScanInv, Rows, Start, End
<1>3. /\ End <= Len(data) /\ data[Start + 1] = NumOf /\ NumOf \in Nat \ {0}
      /\ Walk(data, Start, NumOf, from, ins)
      /\ GraphOk(data, from[NumOf], NumOf, ins[NumOf], End, PacksOf, MainOf)
  BY DEF Mine, Layout, Begun
<1>4. from[NumOf] \in Nat /\ ins[NumOf] \in Nat BY <1>3, WalkEnds
<1>5. from[0] = Start + 1 /\ ins[0] = 0 BY <1>3 DEF Walk
<1>6. from[1] <= from[NumOf] /\ from[0] < from[1] /\ from[1] \in Nat
  <2>1. 0 \in Nat /\ 0 < NumOf /\ NumOf \in Nat BY <1>3
  <2>2. /\ CoderOk(data, from[0]) /\ from[0] \in Nat /\ from[0 + 1] = CoderEnd(data, from[0])
        /\ from[0 + 1] <= from[NumOf] /\ from[0 + 1] \in Nat
    BY <1>1, <1>3, <2>1, CoderOfWalk
  <2>3. /\ PropsAt(data, from[0]) <= CoderEnd(data, from[0])
        /\ from[0] < IdEnd(data, from[0]) /\ IdEnd(data, from[0]) <= PropsAt(data, from[0])
        /\ IdEnd(data, from[0]) \in Nat /\ PropsAt(data, from[0]) \in Nat
        /\ CoderEnd(data, from[0]) \in Nat
    BY <1>1, <2>2, CoderPlaces, MainPlaces DEF CoderOk, StreamsOk
  <2>4. 0 + 1 = 1 OBVIOUS
  <2> QED BY <2>2, <2>3, <2>4
<1>7. Start < from[NumOf] BY <1>2, <1>4, <1>5, <1>6
<1>8. from[NumOf] + 2 * (NumOf - 1) <= End /\ PacksOf \in Nat
  BY <1>1, <1>3, <1>4, GraphEnd, GraphFacts
<1> QED BY <1>1, <1>2, <1>3, <1>4, <1>5, <1>7, <1>8

(* SzAr_DecodeFolder begins at the row of the folder.                        *)
LEMMA DecodeFolderKeeps ==
  ASSUME ScanInv, DecodeFolder
  PROVE ItemInv'
<1>1. PICK fo \in 0 .. Len(ar) - 1 : item' = [Local EXCEPT !.fo = fo, !.at = Offset(fo)]
  BY DEF DecodeFolder
<1>2. /\ folder' = NoFolder /\ pc' = "item" /\ UNCHANGED <<data, scan, ar>>
  BY DEF DecodeFolder
<1>3. Offset(fo) \in Nat /\ Row(fo) BY DEF ScanInv, Rows
<1>4. Len(ar) \in Nat BY LenProperties DEF ScanInv, ScanType
<1>5. fo \in Nat BY <1>4
<1>6. /\ item' \in LocalSet /\ item'.fo = fo /\ item'.at = Offset(fo)
  BY <1>1, <1>3, <1>5 DEF Local, LocalSet
<1>7. folder' \in FolderSet BY <1>2, EmptySeq DEF NoFolder, FolderSet
<1>8. /\ Start' = Offset(fo) /\ End' = Offset(fo + 1)
      /\ NumOf' = Outs(fo + 1) - Outs(fo)
      /\ PacksOf' = StartPack(fo + 1) - StartPack(fo)
      /\ MainOf' = ar[fo + 1].FoToMainUnpackSizeIndex
  BY <1>2, <1>6 DEF Start, End, NumOf, PacksOf, MainOf, Offset, Outs, StartPack
<1>9. PICK from, ins :
        Layout(data, Offset(fo), Offset(fo + 1), Outs(fo + 1) - Outs(fo),
               StartPack(fo + 1) - StartPack(fo), ar[fo + 1].FoToMainUnpackSizeIndex,
               from, ins)
  BY <1>3 DEF Row, FolderBytes
<1>10. Mine(from, ins)' BY <1>2, <1>8, <1>9 DEF Mine
<1>11. item' = [Local EXCEPT !.fo = item'.fo, !.at = Start'] BY <1>1, <1>6, <1>8
<1>12. ItemPlace(from, ins)' BY <1>2, <1>11 DEF ItemPlace
<1> QED BY <1>2, <1>6, <1>7, <1>10, <1>12 DEF ItemInv

(* The tables say the same of the folder as long as it is read.              *)
LEMMA SameFolder ==
  ASSUME Same, item'.fo = item.fo
  PROVE /\ data' = data /\ UNCHANGED <<data, scan, ar>>
        /\ Start' = Start /\ End' = End /\ NumOf' = NumOf /\ PacksOf' = PacksOf
        /\ MainOf' = MainOf
BY DEF Same, Start, End, NumOf, PacksOf, MainOf, Offset, Outs, StartPack

(* What a step finds                                                         *)
LEMMA ItemFinds ==
  ASSUME ScanInv, ItemInv, pc \in ItemPcs
  PROVE /\ item \in LocalSet /\ folder \in FolderSet /\ item.fo \in 0 .. Len(ar) - 1
        /\ pc # "item archive"
        /\ \E from, ins : Mine(from, ins) /\ ItemPlace(from, ins)
BY DEF ItemInv

(* The second parser finds the number of coders of the row.                  *)
LEMMA ItemNumCodersKeeps ==
  ASSUME ScanInv, ItemInv, ItemNumCoders
  PROVE ItemInv'
<1>1. pc = "item" /\ pc \in ItemPcs BY DEF ItemNumCoders, ItemPcs
<1>2. item \in LocalSet /\ folder \in FolderSet /\ item.fo \in 0 .. Len(ar) - 1
  BY <1>1, ItemFinds
<1>3. PICK from, ins : Mine(from, ins) /\ ItemPlace(from, ins) BY <1>1, ItemFinds
<1>4. /\ Start \in Nat /\ End \in Nat /\ data[Start + 1] = NumOf /\ NumOf \in Nat \ {0}
      /\ from[NumOf] \in Nat /\ Start < from[NumOf]
      /\ from[NumOf] + 2 * (NumOf - 1) <= End /\ from[0] = Start + 1 /\ ins[0] = 0
  BY <1>2, <1>3, MineFacts
<1>5. item = [Local EXCEPT !.fo = item.fo, !.at = Start] /\ folder = NoFolder
  BY <1>1, <1>3 DEF ItemPlace
<1>6. /\ item.at = Start /\ item.ci = 0 /\ item.inStreams = 0 /\ item.i = 0
      /\ item.streamUsed = {} /\ item.coderUsed = {}
  BY <1>5 DEF Local
<1>7. Start < End BY <1>4
<1>8. ~Short BY <1>4, <1>6, <1>7 DEF Short, Left
<1>9. B = NumOf BY <1>4, <1>6 DEF B
<1>10. B # 0 BY <1>4, <1>9
<1>11. CASE B > CodersMax
  <2>1. pc' = "item unsupported" BY <1>8, <1>10, <1>11 DEF ItemNumCoders, GotStop
  <2> QED BY <2>1, ItemStops DEF ItemPcs
<1>12. CASE ~(B > CodersMax)
  <2>1. /\ item' = [item EXCEPT !.numCoders = B, !.at = @ + 1]
        /\ folder' = folder /\ pc' = "item coder" /\ Same
    BY <1>8, <1>10, <1>12 DEF ItemNumCoders, Got
  <2>2. item' = [item EXCEPT !.numCoders = NumOf, !.at = Start + 1] BY <2>1, <1>6, <1>9
  <2>3. /\ item' \in LocalSet /\ item'.fo = item.fo /\ item'.numCoders = NumOf
        /\ item'.at = Start + 1 /\ item'.ci = 0 /\ item'.inStreams = 0
        /\ item'.streamUsed = {} /\ item'.coderUsed = {} /\ item'.i = 0
    <3>1. Start + 1 \in Nat BY <1>4
    <3> QED BY <2>2, <3>1, <1>2, <1>4, <1>6 DEF LocalSet
  <2>4. /\ data' = data /\ UNCHANGED <<data, scan, ar>>
        /\ Start' = Start /\ End' = End /\ NumOf' = NumOf
    BY <2>1, <2>3, SameFolder
  <2>5. folder'.Bonds = << >> /\ folder'.PackStreams = << >> /\ folder'.Coders = << >>
    BY <2>1, <1>5 DEF NoFolder
  <2>6. Len(folder'.Coders) = 0 BY <2>5, EmptySeq
  <2>7. CodersStage(ins)'
    <3>1. Inside' BY <2>6 DEF Inside
    <3>2. 0 <= NumOf BY <1>4
    <3> QED BY <2>3, <2>4, <2>5, <3>1, <3>2, <1>4 DEF CodersStage
  <2>8. ItemPlace(from, ins)'
    BY <2>1, <2>3, <2>4, <2>6, <2>7, <1>4 DEF ItemPlace
  <2> QED BY <2>1, <2>3, <2>4, <2>8, <1>1, <1>2, <1>3, ItemGoesOn DEF ItemPcs
<1> QED BY <1>11, <1>12

(* The places within the coder at hand                                       *)
CoderPlacesAre(from, ins, c, o) ==
  /\ o \in Nat /\ CoderOk(data, o) /\ data[o + 1] \in Nat
  /\ IdEnd(data, o) \in Nat /\ PropsAt(data, o) \in Nat /\ o < IdEnd(data, o)
  /\ IdEnd(data, o) = o + 1 + IdSize(data[o + 1]) /\ IdSize(data[o + 1]) \in Nat
  /\ IdEnd(data, o) <= PropsAt(data, o) /\ PropsAt(data, o) <= from[c + 1]
  /\ IsComplex(data[o + 1]) => PropsAt(data, o) = IdEnd(data, o) + 2
  /\ ~IsComplex(data[o + 1]) => PropsAt(data, o) = IdEnd(data, o)
  /\ HasProps(data[o + 1]) =>
       /\ data[PropsAt(data, o) + 1] \in Nat
       /\ from[c + 1] = PropsAt(data, o) + 1 + data[PropsAt(data, o) + 1]
  /\ ~HasProps(data[o + 1]) => from[c + 1] = PropsAt(data, o)
  /\ from[c + 1] \in Nat /\ from[c + 1] <= End
  /\ ins[c] \in Nat /\ Streams(data, o) \in Nat
  /\ ins[c + 1] = ins[c] + Streams(data, o)
(* A coder of the scan, place by place.                                      *)
LEMMA CoderFacts ==
  ASSUME ScanInv, item.fo \in 0 .. Len(ar) - 1, NEW from, NEW ins, Mine(from, ins),
         NEW c \in Nat, c < NumOf
  PROVE CoderPlacesAre(from, ins, c, from[c])
<1> DEFINE o == from[c]
<1>1. /\ data \in Seq(Byte) /\ End \in Nat /\ NumOf \in Nat \ {0} /\ from[NumOf] \in Nat
      /\ Walk(data, Start, NumOf, from, ins) /\ from[NumOf] + 2 * (NumOf - 1) <= End
  BY MineFacts
<1>2. /\ CoderOk(data, o) /\ o \in Nat /\ ins[c] \in Nat
      /\ from[c + 1] = CoderEnd(data, o) /\ from[c + 1] <= from[NumOf]
      /\ from[c + 1] \in Nat /\ ins[c + 1] = ins[c] + Streams(data, o)
  BY <1>1, CoderOfWalk
<1> HIDE DEF o
<1>3. /\ data[o + 1] \in Nat /\ IdSize(data[o + 1]) \in Nat /\ IdEnd(data, o) \in Nat
      /\ o < IdEnd(data, o) /\ PropsAt(data, o) \in Nat
      /\ IdEnd(data, o) <= PropsAt(data, o)
      /\ IsComplex(data[o + 1]) => PropsAt(data, o) = IdEnd(data, o) + 2
      /\ ~IsComplex(data[o + 1]) => PropsAt(data, o) = IdEnd(data, o)
  BY <1>1, <1>2, MainPlaces DEF CoderOk, StreamsOk
<1>4. /\ PropsAt(data, o) <= from[c + 1]
      /\ HasProps(data[o + 1]) =>
             /\ data[PropsAt(data, o) + 1] \in Nat
             /\ from[c + 1] = PropsAt(data, o) + 1 + data[PropsAt(data, o) + 1]
      /\ ~HasProps(data[o + 1]) => from[c + 1] = PropsAt(data, o)
  BY <1>1, <1>2, CoderPlaces
<1>5. Streams(data, o) \in Nat BY <1>1, <1>2, StreamsNat DEF CoderOk
<1>6. from[c + 1] <= End BY <1>1, <1>2
<1>7. IdEnd(data, o) = o + 1 + IdSize(data[o + 1]) BY DEF IdEnd
<1>8. CoderPlacesAre(from, ins, c, o)
  BY <1>2, <1>3, <1>4, <1>5, <1>6, <1>7 DEF CoderPlacesAre
<1> QED BY <1>8 DEF o

(* A coder more, or another one in the place of the last                     *)
LEMMA CoderAppended ==
  ASSUME folder \in FolderSet, NEW c \in CoderSet, Inside,
         c.PropsOffset + c.PropsSize <= End - Start, End' = End, Start' = Start,
         folder' = [folder EXCEPT !.Coders = Append(@, c)]
  PROVE /\ folder' \in FolderSet /\ Inside' /\ folder'.Bonds = folder.Bonds
        /\ folder'.PackStreams = folder.PackStreams
        /\ Len(folder'.Coders) = Len(folder.Coders) + 1
        /\ folder'.Coders[Len(folder.Coders) + 1] = c
<1> DEFINE s == folder.Coders
<1>1. s \in Seq(CoderSet) BY DEF FolderSet
<1>2. /\ Append(s, c) \in Seq(CoderSet) /\ Len(Append(s, c)) = Len(s) + 1
      /\ Append(s, c)[Len(s) + 1] = c
      /\ \A k \in 1 .. Len(s) : Append(s, c)[k] = s[k]
  BY <1>1, AppendProperties
<1>3. Len(s) \in Nat BY <1>1, LenProperties
<1>4. /\ folder' \in FolderSet /\ folder'.Coders = Append(s, c)
      /\ folder'.Bonds = folder.Bonds /\ folder'.PackStreams = folder.PackStreams
  BY <1>2 DEF FolderSet
<1>5. \A k \in 1 .. Len(s) : s[k].PropsOffset + s[k].PropsSize <= End - Start
  BY DEF Inside
<1>6. Inside'
  <2> SUFFICES ASSUME NEW k \in 1 .. Len(s) + 1
               PROVE Append(s, c)[k].PropsOffset + Append(s, c)[k].PropsSize <= End - Start
    BY <1>2, <1>4 DEF Inside
  <2>1. k = Len(s) + 1 \/ k \in 1 .. Len(s) BY <1>3
  <2> QED BY <2>1, <1>2, <1>5
<1> QED BY <1>2, <1>4, <1>6

(* ... in the place of the last.                                             *)
LEMMA CoderReplaced ==
  ASSUME folder \in FolderSet, NEW c \in CoderSet, Inside, NEW j \in 1 .. Len(folder.Coders),
         c.PropsOffset + c.PropsSize <= End - Start, End' = End, Start' = Start,
         folder' = [folder EXCEPT !.Coders[j] = c]
  PROVE /\ folder' \in FolderSet /\ Inside' /\ folder'.Bonds = folder.Bonds
        /\ folder'.PackStreams = folder.PackStreams
        /\ Len(folder'.Coders) = Len(folder.Coders)
        /\ folder'.Coders[j] = c
<1> DEFINE s == folder.Coders
           t == [s EXCEPT ![j] = c]
<1>1. s \in Seq(CoderSet) BY DEF FolderSet
<1>2. /\ t \in Seq(CoderSet) /\ Len(t) = Len(s)
      /\ \A k \in 1 .. Len(s) : t[k] = IF k = j THEN c ELSE s[k]
  BY <1>1, ExceptSeq
<1>3. folder' = [folder EXCEPT !.Coders = t] OBVIOUS
<1>4. \A k \in 1 .. Len(s) : s[k].PropsOffset + s[k].PropsSize <= End - Start
  BY DEF Inside
<1> HIDE DEF t
<1>5. /\ folder' \in FolderSet /\ folder'.Coders = t
      /\ folder'.Bonds = folder.Bonds /\ folder'.PackStreams = folder.PackStreams
  BY <1>2, <1>3 DEF FolderSet
<1>6. Inside'
  <2> SUFFICES ASSUME NEW k \in 1 .. Len(s)
               PROVE t[k].PropsOffset + t[k].PropsSize <= End - Start
    BY <1>2, <1>5 DEF Inside
  <2> QED BY <1>2, <1>4
<1> QED BY <1>2, <1>5, <1>6

(* It finds the main byte of a coder of the scan, or their end.              *)
LEMMA ItemCoderKeeps ==
  ASSUME ScanInv, ItemInv, ItemCoder
  PROVE ItemInv'
<1>1. pc = "item coder" /\ pc \in ItemPcs BY DEF ItemCoder, ItemPcs
<1>2. item \in LocalSet /\ folder \in FolderSet /\ item.fo \in 0 .. Len(ar) - 1
  BY <1>1, ItemFinds
<1>3. PICK from, ins : Mine(from, ins) /\ ItemPlace(from, ins) BY <1>1, ItemFinds
<1>4. /\ Start \in Nat /\ End \in Nat /\ NumOf \in Nat \ {0}
      /\ from[NumOf] \in Nat /\ Start < from[NumOf]
      /\ from[NumOf] + 2 * (NumOf - 1) <= End
  BY <1>2, <1>3, MineFacts
<1> DEFINE c == item.ci
           o == from[c]
<1>5. /\ item.numCoders = NumOf /\ c <= NumOf /\ item.inStreams = ins[c]
      /\ item.streamUsed = {} /\ item.coderUsed = {} /\ item.i = 0
      /\ folder.Bonds = << >> /\ folder.PackStreams = << >> /\ Inside
      /\ item.at = o /\ Len(folder.Coders) = c
  BY <1>1, <1>3 DEF ItemPlace, CodersStage
<1>6. c \in Nat BY <1>2 DEF LocalSet
<1>7. CASE c = NumOf
  <2>1. /\ pc' = "item bonds" /\ UNCHANGED <<item, folder>> /\ Same
    BY <1>5, <1>7 DEF ItemCoder, GotStop
  <2>2. /\ data' = data /\ UNCHANGED <<data, scan, ar>>
        /\ Start' = Start /\ End' = End /\ NumOf' = NumOf
    BY <2>1, SameFolder
  <2>3. CodersStage(ins)'
    <3>1. Inside' BY <2>1, <2>2, <1>5 DEF Inside
    <3> QED BY <2>1, <2>2, <3>1, <1>5 DEF CodersStage
  <2>4. ItemPlace(from, ins)' BY <2>1, <2>2, <2>3, <1>5, <1>7 DEF ItemPlace
  <2> QED BY <2>1, <2>2, <2>4, <1>1, <1>2, <1>3, ItemGoesOn DEF ItemPcs
<1>8. CASE c # NumOf
  <2>0. c < NumOf BY <1>4, <1>5, <1>6, <1>8
  <2>1. /\ o \in Nat /\ CoderOk(data, o) /\ data[o + 1] \in Nat
        /\ IdEnd(data, o) \in Nat /\ PropsAt(data, o) \in Nat /\ o < IdEnd(data, o)
        /\ IdEnd(data, o) = o + 1 + IdSize(data[o + 1]) /\ IdSize(data[o + 1]) \in Nat
        /\ IdEnd(data, o) <= PropsAt(data, o) /\ PropsAt(data, o) <= from[c + 1]
        /\ ~IsComplex(data[o + 1]) => PropsAt(data, o) = IdEnd(data, o)
        /\ from[c + 1] \in Nat /\ from[c + 1] <= End
    BY <1>2, <1>3, <1>6, <2>0, CoderFacts DEF CoderPlacesAre
  <2>2. B = data[o + 1] BY <1>5 DEF B
  <2>3. ~Reserved(B) /\ IdSize(B) <= 8 BY <2>1, <2>2 DEF CoderOk, StreamsOk, MainOk
  <2>4. Left = End - o BY <1>5 DEF Left
  <2>5. ~Short /\ ~(IdSize(B) > Left - 1)
    <3>1. IdEnd(data, o) <= End BY <2>1, <1>4
    <3> HIDE DEF o, c
    <3>2. IdSize(B) = IdSize(data[o + 1]) BY <2>2
    <3>3. End - o > 0 /\ ~(IdSize(data[o + 1]) > End - o - 1) BY <2>1, <3>1, <1>4
    <3> QED BY <2>4, <3>2, <3>3, <2>1, <1>4 DEF Short
  <2>6. ~(Reserved(B) \/ IdSize(B) > 8)
    <3>1. IdSize(B) \in Nat BY <2>1, <2>2
    <3> QED BY <2>3, <3>1
  <2>7. CASE LargeId
    <3>1. pc' = "item unsupported"
      BY <2>5, <2>6, <2>7, <1>5, <1>8 DEF ItemCoder, GotStop
    <3> QED BY <3>1, ItemStops DEF ItemPcs
  <2>8. CASE ~LargeId
    <3>1. /\ item' = [item EXCEPT !.mainByte = B, !.at = @ + 1 + IdSize(B)]
          /\ folder' = [folder EXCEPT !.Coders = Append(@, PlainProps)]
          /\ pc' = (IF IsComplex(B) THEN "item streams" ELSE "item props")
          /\ Same
      BY <2>5, <2>6, <2>8, <1>1, <1>5, <1>8 DEF ItemCoder, Got
    <3> HIDE DEF o
    <3>2. item' = [item EXCEPT !.mainByte = data[o + 1], !.at = IdEnd(data, o)]
      BY <3>1, <2>1, <2>2, <1>5
    <3>3. /\ item' \in LocalSet /\ item'.fo = item.fo /\ item'.numCoders = NumOf
          /\ item'.ci = c /\ item'.inStreams = item.inStreams
          /\ item'.mainByte = data[o + 1] /\ item'.at = IdEnd(data, o)
          /\ item'.streamUsed = {} /\ item'.coderUsed = {} /\ item'.i = 0
      BY <3>2, <1>2, <1>5, <2>1 DEF LocalSet
    <3>4. /\ data' = data /\ UNCHANGED <<data, scan, ar>>
          /\ Start' = Start /\ End' = End /\ NumOf' = NumOf
      BY <3>1, <3>3, SameFolder
    <3>5. /\ PlainProps \in CoderSet /\ PlainProps.NumStreams = 1
          /\ PlainProps.PropsOffset + PlainProps.PropsSize <= End - Start
      <4>1. 0 + 0 <= End - Start BY <1>4
      <4> QED BY <4>1 DEF PlainProps, Coder, CoderSet
    <3>6. /\ folder' \in FolderSet /\ Inside' /\ folder'.Bonds = << >>
          /\ folder'.PackStreams = << >> /\ Len(folder'.Coders) = c + 1
          /\ folder'.Coders[c + 1] = PlainProps
      BY <3>1, <3>4, <3>5, <1>2, <1>5, CoderAppended
    <3> HIDE DEF c
    <3>7. CodersStage(ins)'
      BY <3>3, <3>4, <3>6, <1>5 DEF CodersStage
    <3>8. InCoder(from)' BY <3>3, <3>4, <3>6, <2>0 DEF InCoder, o
    <3>9. CASE IsComplex(B)
      <4>1. pc' = "item streams" BY <3>1, <3>9
      <4>2. ItemPlace(from, ins)'
        BY <4>1, <3>3, <3>4, <3>7, <3>8, <3>9, <2>2 DEF ItemPlace, o
      <4> QED BY <4>1, <4>2, <3>3, <3>4, <3>6, <1>1, <1>3, ItemGoesOn DEF ItemPcs
    <3>10. CASE ~IsComplex(B)
      <4>1. pc' = "item props" BY <3>1, <3>10
      <4>2. PropsAt(data, o) = IdEnd(data, o) /\ Streams(data, o) = 1
        BY <2>1, <2>2, <3>10 DEF Streams
      <4>3. ItemPlace(from, ins)'
        BY <4>1, <4>2, <3>3, <3>4, <3>5, <3>6, <3>7, <3>8 DEF ItemPlace, o
      <4> QED BY <4>1, <4>3, <3>3, <3>4, <3>6, <1>1, <1>3, ItemGoesOn DEF ItemPcs
    <3> QED BY <3>9, <3>10
  <2> QED BY <2>7, <2>8
<1> QED BY <1>7, <1>8

(* It finds as many streams of the coder.                                    *)
LEMMA ItemStreamsKeeps ==
  ASSUME ScanInv, ItemInv, ItemStreams
  PROVE ItemInv'
<1>1. pc = "item streams" /\ pc \in ItemPcs BY DEF ItemStreams, ItemPcs
<1>2. item \in LocalSet /\ folder \in FolderSet /\ item.fo \in 0 .. Len(ar) - 1
  BY <1>1, ItemFinds
<1>3. PICK from, ins : Mine(from, ins) /\ ItemPlace(from, ins) BY <1>1, ItemFinds
<1>4. /\ Start \in Nat /\ End \in Nat /\ NumOf \in Nat \ {0}
  BY <1>2, <1>3, MineFacts
<1> DEFINE c == item.ci
           o == from[c]
<1>5. /\ item.numCoders = NumOf /\ c <= NumOf /\ item.inStreams = ins[c]
      /\ item.streamUsed = {} /\ item.coderUsed = {} /\ item.i = 0
      /\ folder.Bonds = << >> /\ folder.PackStreams = << >> /\ Inside
      /\ item.at = IdEnd(data, o) /\ Len(folder.Coders) = c + 1
      /\ c < NumOf /\ item.mainByte = data[o + 1] /\ IsComplex(item.mainByte)
  BY <1>1, <1>3 DEF ItemPlace, CodersStage, InCoder
<1>6. c \in Nat BY <1>2 DEF LocalSet
<1>7. /\ o \in Nat /\ CoderOk(data, o)
      /\ IdEnd(data, o) \in Nat /\ PropsAt(data, o) \in Nat
      /\ PropsAt(data, o) <= from[c + 1] /\ PropsAt(data, o) = IdEnd(data, o) + 2
      /\ from[c + 1] \in Nat /\ from[c + 1] <= End /\ Streams(data, o) \in Nat
  BY SMTT(30), <1>2, <1>3, <1>5, <1>6, CoderFacts DEF CoderPlacesAre
<1>8. Left = End - IdEnd(data, o) BY <1>5 DEF Left
<1>9. ~Short /\ ~(Left < 2)
  <2>1. End - IdEnd(data, o) >= 2 BY <1>4, <1>7
  <2>2. End - IdEnd(data, o) \in Int BY <1>4, <1>7
  <2> HIDE DEF o
  <2> QED BY <1>8, <2>1, <2>2 DEF Short
<1>10. B = Streams(data, o) BY <1>5 DEF B, Streams
<1>11. data[item.at + 2] = 1 BY <1>5, <1>7 DEF CoderOk, StreamsOk
<1>12. CASE B > StreamsMax
  <2>1. pc' = "item unsupported" BY <1>9, <1>12 DEF ItemStreams, GotStop
  <2> QED BY <2>1, ItemStops DEF ItemPcs
<1>13. CASE ~(B > StreamsMax)
  <2> DEFINE r == [folder.Coders[c + 1] EXCEPT !.NumStreams = Streams(data, o)]
  <2>1. /\ item' = [item EXCEPT !.at = @ + 2]
        /\ folder' = [folder EXCEPT !.Coders[item.ci + 1].NumStreams = B]
        /\ pc' = "item props" /\ Same
    BY <1>9, <1>11, <1>13 DEF ItemStreams, Got
  <2> HIDE DEF o
  <2>2. item' = [item EXCEPT !.at = PropsAt(data, o)] BY <2>1, <1>5, <1>7
  <2>3. /\ item' \in LocalSet /\ item'.fo = item.fo /\ item'.numCoders = NumOf
        /\ item'.ci = c /\ item'.inStreams = item.inStreams
        /\ item'.mainByte = data[o + 1] /\ item'.at = PropsAt(data, o)
        /\ item'.streamUsed = {} /\ item'.coderUsed = {} /\ item'.i = 0
    BY <2>2, <1>2, <1>5, <1>7 DEF LocalSet
  <2>4. /\ data' = data /\ UNCHANGED <<data, scan, ar>>
        /\ Start' = Start /\ End' = End /\ NumOf' = NumOf
    BY <2>1, <2>3, SameFolder
  <2>5. c + 1 \in 1 .. Len(folder.Coders) BY <1>5, <1>6
  <2>6. folder.Coders[c + 1] \in CoderSet
    <3>1. folder.Coders \in Seq(CoderSet) BY <1>2 DEF FolderSet
    <3> QED BY <3>1, <2>5, ElementOfSeq
  <2>7. /\ r \in CoderSet /\ r.NumStreams = Streams(data, o)
        /\ r.PropsOffset = folder.Coders[c + 1].PropsOffset
        /\ r.PropsSize = folder.Coders[c + 1].PropsSize
    BY <2>6, <1>7 DEF CoderSet
  <2>8. r.PropsOffset + r.PropsSize <= End - Start BY <2>5, <2>7, <1>5 DEF Inside
  <2>9. folder' = [folder EXCEPT !.Coders[c + 1] = r] BY <2>1, <1>10
  <2> HIDE DEF r
  <2>10. /\ folder' \in FolderSet /\ Inside' /\ folder'.Bonds = << >>
         /\ folder'.PackStreams = << >> /\ Len(folder'.Coders) = c + 1
         /\ folder'.Coders[c + 1] = r
    BY <2>4, <2>5, <2>7, <2>8, <2>9, <1>2, <1>5, CoderReplaced
  <2> HIDE DEF c
  <2>11. CodersStage(ins)' BY <2>3, <2>4, <2>10, <1>5 DEF CodersStage
  <2>12. InCoder(from)' BY <2>3, <2>4, <2>10, <1>5 DEF InCoder, o
  <2>13. ItemPlace(from, ins)'
    BY <2>1, <2>3, <2>4, <2>7, <2>10, <2>11, <2>12 DEF ItemPlace, o
  <2> QED BY <2>1, <2>3, <2>4, <2>10, <2>13, <1>1, <1>3, ItemGoesOn DEF ItemPcs
<1> QED BY <1>12, <1>13

(* It finds its properties within the folder.                                *)
LEMMA ItemPropsKeeps ==
  ASSUME ScanInv, ItemInv, ItemProps
  PROVE ItemInv'
<1>1. pc = "item props" /\ pc \in ItemPcs BY DEF ItemProps, ItemPcs
<1>2. item \in LocalSet /\ folder \in FolderSet /\ item.fo \in 0 .. Len(ar) - 1
  BY <1>1, ItemFinds
<1>3. PICK from, ins : Mine(from, ins) /\ ItemPlace(from, ins) BY <1>1, ItemFinds
<1>4. /\ Start \in Nat /\ End \in Nat /\ NumOf \in Nat \ {0} /\ from[0] = Start + 1
      /\ from[NumOf] \in Nat /\ Start < from[NumOf]
  BY <1>2, <1>3, MineFacts
<1> DEFINE c == item.ci
           o == from[c]
           m == ins[c + 1]
<1>5. /\ item.numCoders = NumOf /\ item.inStreams = ins[c]
      /\ item.streamUsed = {} /\ item.coderUsed = {} /\ item.i = 0
      /\ folder.Bonds = << >> /\ folder.PackStreams = << >> /\ Inside
      /\ item.at = PropsAt(data, o) /\ Len(folder.Coders) = c + 1
      /\ c < NumOf /\ item.mainByte = data[o + 1]
      /\ folder.Coders[c + 1].NumStreams = Streams(data, o)
  BY <1>1, <1>3 DEF ItemPlace, CodersStage, InCoder
<1>6. c \in Nat BY <1>2 DEF LocalSet
<1>7. /\ o \in Nat /\ PropsAt(data, o) \in Nat
      /\ PropsAt(data, o) <= from[c + 1]
      /\ HasProps(data[o + 1]) =>
             /\ data[PropsAt(data, o) + 1] \in Nat
             /\ from[c + 1] = PropsAt(data, o) + 1 + data[PropsAt(data, o) + 1]
      /\ ~HasProps(data[o + 1]) => from[c + 1] = PropsAt(data, o)
      /\ from[c + 1] \in Nat /\ from[c + 1] <= End
      /\ ins[c] \in Nat /\ Streams(data, o) \in Nat
      /\ ins[c + 1] = ins[c] + Streams(data, o)
      /\ o < IdEnd(data, o) /\ IdEnd(data, o) <= PropsAt(data, o)
      /\ IdEnd(data, o) \in Nat
  <2>1. CoderPlacesAre(from, ins, c, o) BY <1>2, <1>3, <1>5, <1>6, CoderFacts
  <2> HIDE DEF o, c, m
  <2> QED BY <2>1 DEF CoderPlacesAre
<1>8. m \in Nat /\ c + 1 \in Nat /\ c + 1 <= NumOf
  <2>1. m = ins[c] + Streams(data, o) /\ ins[c] \in Nat /\ Streams(data, o) \in Nat
    BY <1>7
  <2>2. c < NumOf BY <1>5
  <2>3. NumOf \in Nat BY <1>4
  <2> HIDE DEF o, c, m
  <2>4. m \in Nat BY <2>1
  <2>5. c + 1 \in Nat /\ c + 1 <= NumOf BY <2>2, <2>3, <1>6
  <2> QED BY <2>4, <2>5
<1> DEFINE i == [item EXCEPT !.inStreams = m, !.ci = c + 1]
<1>9. [item EXCEPT !.inStreams = @ + folder.Coders[item.ci + 1].NumStreams,
                   !.ci = @ + 1] = i
  BY <1>5, <1>7
<1>10. i.inStreams = m BY <1>2 DEF LocalSet
<1>11. Left = End - PropsAt(data, o) BY <1>5 DEF Left
<1>12. B = data[PropsAt(data, o) + 1] BY <1>5 DEF B
<1> HIDE DEF i, m
<1>13. IF i.inStreams > StreamsMax THEN GotStop("item unsupported")
       ELSE IF ~HasProps(item.mainByte) THEN Got(i, folder, "item coder")
       ELSE IF Short \/ B > Left - 1 THEN GotStop("item archive")
       ELSE Got([i EXCEPT !.at = @ + 1 + B],
                 [folder EXCEPT !.Coders[item.ci + 1] =
                    Coder(folder.Coders[item.ci + 1].NumStreams,
                          item.at + 1 - Offset(item.fo), B)], "item coder")
  BY <1>9 DEF ItemProps
<1>14. Same BY DEF ItemProps
<1>15. CASE i.inStreams > StreamsMax
  <2>1. pc' = "item unsupported" BY <1>13, <1>15 DEF GotStop
  <2> QED BY <2>1, ItemStops DEF ItemPcs
<1>16. CASE ~(i.inStreams > StreamsMax) /\ ~HasProps(item.mainByte)
  <2>1. item' = i /\ folder' = folder /\ pc' = "item coder" BY <1>13, <1>16 DEF Got
  <2>2. from[c + 1] = PropsAt(data, o) BY <1>5, <1>7, <1>16
  <2> HIDE DEF o
  <2>3. /\ item' \in LocalSet /\ item'.fo = item.fo /\ item'.numCoders = NumOf
        /\ item'.ci = c + 1 /\ item'.inStreams = m /\ item'.at = PropsAt(data, o)
        /\ item'.streamUsed = {} /\ item'.coderUsed = {} /\ item'.i = 0
    BY <2>1, <1>2, <1>5, <1>8 DEF LocalSet, i
  <2>4. /\ data' = data /\ UNCHANGED <<data, scan, ar>>
        /\ Start' = Start /\ End' = End /\ NumOf' = NumOf
    BY <2>3, <1>14, SameFolder
  <2> HIDE DEF c
  <2>5. CodersStage(ins)'
    <3>1. Inside' BY <2>1, <2>4, <1>5 DEF Inside
    <3> QED BY <2>1, <2>3, <2>4, <3>1, <1>5, <1>8 DEF CodersStage, m
  <2>6. ItemPlace(from, ins)'
    BY <2>1, <2>2, <2>3, <2>4, <2>5, <1>5 DEF ItemPlace
  <2> QED BY <2>1, <2>3, <2>4, <2>6, <1>1, <1>2, <1>3, ItemGoesOn DEF ItemPcs
<1>17. CASE ~(i.inStreams > StreamsMax) /\ HasProps(item.mainByte)
  <2> DEFINE r == Coder(Streams(data, o), PropsAt(data, o) + 1 - Start, B)
  <2>1. /\ B \in Nat /\ from[c + 1] = PropsAt(data, o) + 1 + B
    BY <1>5, <1>7, <1>12, <1>17
  <2>2. ~Short /\ ~(B > Left - 1)
    <3> HIDE DEF o, c
    <3>1. End - PropsAt(data, o) > 0 /\ ~(B > End - PropsAt(data, o) - 1)
      BY <2>1, <1>4, <1>7
    <3> QED BY <1>11, <3>1, <1>4, <1>7 DEF Short
  <2>3. /\ item' = [i EXCEPT !.at = @ + 1 + B] /\ pc' = "item coder"
        /\ folder' = [folder EXCEPT !.Coders[c + 1] = r]
    BY <2>2, <1>5, <1>13, <1>17 DEF Got, Start
  <2>4. Start <= PropsAt(data, o)
    <3>1. Walk(data, Start, NumOf, from, ins) BY <1>2, <1>3, MineFacts
    <3>2. c \in 0 .. NumOf BY <1>4, <1>5, <1>6
    <3>3. Start < o BY <3>1, <3>2 DEF Walk
    <3> QED BY <3>3, <1>4, <1>7
  <2>5. r \in CoderSet /\ r.PropsOffset + r.PropsSize <= End - Start
    <3>1. PropsAt(data, o) + 1 - Start \in Nat BY <2>4, <1>4, <1>7
    <3>2. PropsAt(data, o) + 1 - Start + B <= End - Start BY <2>1, <1>4, <1>7
    <3> HIDE DEF o, c
    <3> QED BY <3>1, <3>2, <2>1, <1>7 DEF Coder, CoderSet
  <2> HIDE DEF r
  <2>6. item' = [item EXCEPT !.inStreams = m, !.ci = c + 1, !.at = from[c + 1]]
    BY <2>1, <2>3, <1>2, <1>5 DEF i, LocalSet
  <2> HIDE DEF o
  <2>7. /\ item' \in LocalSet /\ item'.fo = item.fo /\ item'.numCoders = NumOf
        /\ item'.ci = c + 1 /\ item'.inStreams = m /\ item'.at = from[c + 1]
        /\ item'.streamUsed = {} /\ item'.coderUsed = {} /\ item'.i = 0
    BY <2>6, <1>2, <1>5, <1>7, <1>8 DEF LocalSet
  <2>8. /\ data' = data /\ UNCHANGED <<data, scan, ar>>
        /\ Start' = Start /\ End' = End /\ NumOf' = NumOf
    BY <2>7, <1>14, SameFolder
  <2>9. c + 1 \in 1 .. Len(folder.Coders) BY <1>5, <1>6
  <2>10. /\ folder' \in FolderSet /\ Inside' /\ folder'.Bonds = << >>
         /\ folder'.PackStreams = << >> /\ Len(folder'.Coders) = c + 1
    BY <2>3, <2>5, <2>8, <2>9, <1>2, <1>5, CoderReplaced
  <2> HIDE DEF c
  <2>11. CodersStage(ins)'
    BY <2>7, <2>8, <2>10, <1>8 DEF CodersStage, m
  <2>12. ItemPlace(from, ins)' BY <2>3, <2>7, <2>8, <2>10, <2>11 DEF ItemPlace
  <2> QED BY <2>3, <2>7, <2>8, <2>10, <2>12, <1>1, <1>3, ItemGoesOn DEF ItemPcs
<1> QED BY <1>15, <1>16, <1>17

(* It finds as many packed streams as the row has.                           *)
LEMMA ItemBondsKeeps ==
  ASSUME ScanInv, ItemInv, ItemBonds
  PROVE ItemInv'
<1>1. pc = "item bonds" /\ pc \in ItemPcs BY DEF ItemBonds, ItemPcs
<1>2. item \in LocalSet /\ folder \in FolderSet /\ item.fo \in 0 .. Len(ar) - 1
  BY <1>1, ItemFinds
<1>3. PICK from, ins : Mine(from, ins) /\ ItemPlace(from, ins) BY <1>1, ItemFinds
<1>4. /\ data \in Seq(Byte) /\ NumOf \in Nat \ {0} /\ from[NumOf] \in Nat
      /\ ins[NumOf] \in Nat /\ PacksOf \in Nat
      /\ GraphOk(data, from[NumOf], NumOf, ins[NumOf], End, PacksOf, MainOf)
  BY <1>2, <1>3, MineFacts
<1>5. /\ item.numCoders = NumOf /\ item.inStreams = ins[NumOf]
      /\ item.streamUsed = {} /\ item.coderUsed = {} /\ item.i = 0
      /\ folder.Bonds = << >> /\ folder.PackStreams = << >> /\ Inside
      /\ item.at = from[NumOf]
  BY <1>1, <1>3 DEF ItemPlace, CodersStage
<1>6. NumOf - 1 <= ins[NumOf] /\ PacksOf = ins[NumOf] - (NumOf - 1)
  BY <1>4 DEF GraphOk
<1>7. ~(item.inStreams < item.numCoders - 1) BY <1>4, <1>5, <1>6
<1>8. item.inStreams - (item.numCoders - 1) = PacksOf BY <1>5, <1>6
<1>9. CASE item.numCoders - 1 > BondsMax \/ PacksOf > PackMax
  <2>1. pc' = "item unsupported" BY <1>7, <1>8, <1>9 DEF ItemBonds, GotStop
  <2> QED BY <2>1, ItemStops DEF ItemPcs
<1>10. CASE ~(item.numCoders - 1 > BondsMax \/ PacksOf > PackMax)
  <2>1. /\ item' = [item EXCEPT !.i = 0, !.packs = PacksOf]
        /\ folder' = [folder EXCEPT !.NumPackStreams = PacksOf]
        /\ pc' = "item bond" /\ Same
    BY <1>7, <1>8, <1>10 DEF ItemBonds, Got
  <2>2. /\ item' \in LocalSet /\ item'.fo = item.fo /\ item'.numCoders = NumOf
        /\ item'.inStreams = ins[NumOf] /\ item'.packs = PacksOf
        /\ item'.at = from[NumOf]
        /\ item'.streamUsed = {} /\ item'.coderUsed = {} /\ item'.i = 0
    BY <2>1, <1>2, <1>4, <1>5 DEF LocalSet
  <2>3. /\ folder' \in FolderSet /\ folder'.NumPackStreams = PacksOf
        /\ folder'.Coders = folder.Coders /\ folder'.Bonds = << >>
        /\ folder'.PackStreams = << >>
    BY <2>1, <1>2, <1>4, <1>5 DEF FolderSet
  <2>4. /\ data' = data /\ UNCHANGED <<data, scan, ar>>
        /\ Start' = Start /\ End' = End /\ NumOf' = NumOf /\ PacksOf' = PacksOf
    BY <2>1, <2>2, SameFolder
  <2>5. BondIns(data, from[NumOf], 0) = {} /\ BondOuts(data, from[NumOf], 0) = {}
    BY NoBonds
  <2>6. Len(folder'.Bonds) = 0 BY <2>3, EmptySeq
  <2>7. InIndexes' = {} /\ OutIndexes' = {}
    <3>1. 1 .. 0 = {} OBVIOUS
    <3> QED BY <2>6, <3>1 DEF InIndexes, OutIndexes
  <2>8. Inside' BY <2>3, <2>4, <1>5 DEF Inside
  <2>9. GraphStage(from, ins, 0)'
    BY <2>2, <2>3, <2>4, <2>5, <2>6, <2>7, <2>8 DEF GraphStage
  <2>10. 0 <= NumOf - 1 /\ from[NumOf] = from[NumOf] + 2 * 0 BY <1>4
  <2>11. GraphStage(from, ins, item.i)' BY <2>2, <2>9 DEF GraphStage
  <2>12. ItemPlace(from, ins)'
    BY <2>1, <2>2, <2>3, <2>4, <2>5, <2>10, <2>11 DEF ItemPlace
  <2> QED BY <2>1, <2>2, <2>3, <2>4, <2>12, <1>1, <1>3, ItemGoesOn DEF ItemPcs
<1> QED BY <1>9, <1>10

(* The sets of a list of bonds that grows                                    *)
LEMMA BondAppended ==
  ASSUME folder \in FolderSet, NEW r \in BondSet,
         folder' = [folder EXCEPT !.Bonds = Append(@, r)]
  PROVE /\ folder' \in FolderSet /\ folder'.Coders = folder.Coders
        /\ folder'.NumPackStreams = folder.NumPackStreams
        /\ folder'.PackStreams = folder.PackStreams
        /\ Len(folder'.Bonds) = Len(folder.Bonds) + 1
        /\ InIndexes' = InIndexes \cup {r.InIndex}
        /\ OutIndexes' = OutIndexes \cup {r.OutIndex}
<1> DEFINE s == folder.Bonds
<1>1. s \in Seq(BondSet) BY DEF FolderSet
<1>2. /\ Append(s, r) \in Seq(BondSet) /\ Len(Append(s, r)) = Len(s) + 1
      /\ Append(s, r)[Len(s) + 1] = r
      /\ \A k \in 1 .. Len(s) : Append(s, r)[k] = s[k]
  BY <1>1, AppendProperties
<1>3. Len(s) \in Nat BY <1>1, LenProperties
<1>4. /\ folder' \in FolderSet /\ folder'.Bonds = Append(s, r)
      /\ folder'.Coders = folder.Coders /\ folder'.PackStreams = folder.PackStreams
      /\ folder'.NumPackStreams = folder.NumPackStreams
  BY <1>2 DEF FolderSet
<1>5. 1 .. Len(s) + 1 = (1 .. Len(s)) \cup {Len(s) + 1} BY <1>3
<1>6. InIndexes' = {Append(s, r)[k].InIndex : k \in (1 .. Len(s)) \cup {Len(s) + 1}}
  BY <1>2, <1>4, <1>5 DEF InIndexes
<1>7. OutIndexes' = {Append(s, r)[k].OutIndex : k \in (1 .. Len(s)) \cup {Len(s) + 1}}
  BY <1>2, <1>4, <1>5 DEF OutIndexes
<1>8. InIndexes' = InIndexes \cup {r.InIndex} BY <1>2, <1>6 DEF InIndexes
<1>9. OutIndexes' = OutIndexes \cup {r.OutIndex} BY <1>2, <1>7 DEF OutIndexes
<1> QED BY <1>2, <1>4, <1>8, <1>9

(* It finds a bond of the scan.                                              *)
LEMMA ItemBondKeeps ==
  ASSUME ScanInv, ItemInv, ItemBond
  PROVE ItemInv'
<1>1. pc = "item bond" /\ pc \in ItemPcs BY DEF ItemBond, ItemPcs
<1>2. item \in LocalSet /\ folder \in FolderSet /\ item.fo \in 0 .. Len(ar) - 1
  BY <1>1, ItemFinds
<1>3. PICK from, ins : Mine(from, ins) /\ ItemPlace(from, ins) BY <1>1, ItemFinds
<1> DEFINE g == from[NumOf]
           m == ins[NumOf]
           i == item.i
<1>4. /\ data \in Seq(Byte) /\ NumOf \in Nat \ {0} /\ g \in Nat
      /\ m \in Nat /\ End \in Nat /\ End <= Len(data) /\ Len(data) \in Nat
      /\ GraphOk(data, g, NumOf, m, End, PacksOf, MainOf)
      /\ g + 2 * (NumOf - 1) <= End
  BY <1>2, <1>3, MineFacts
<1>5. /\ GraphStage(from, ins, i)
      /\ item.at = g + 2 * i /\ item.streamUsed = BondIns(data, g, i)
      /\ folder.PackStreams = << >>
  BY <1>1, <1>3 DEF ItemPlace
<1>6. i \in Nat /\ i < NumOf - 1
  <2>1. i \in Nat BY <1>2 DEF LocalSet
  <2>2. item.numCoders = NumOf BY <1>5 DEF GraphStage
  <2> QED BY <2>1, <2>2 DEF ItemBond
<1> DEFINE x == BondIn(data, g, i)
           y == BondOut(data, g, i)
<1>7. /\ x < m /\ x \notin BondIns(data, g, i) /\ y < NumOf /\ y \notin BondOuts(data, g, i)
  <2>1. BondsOk(data, g, NumOf, m, NumOf - 1) BY <1>4 DEF GraphOk
  <2>2. i \in 0 .. (NumOf - 1) - 1 BY <1>4, <1>6
  <2> HIDE DEF g, m, i
  <2> QED BY <2>1, <2>2 DEF BondsOk
<1>8. x \in Nat /\ y \in Nat
  <2>1. g + 2 * i + 2 <= Len(data)
    <3> HIDE DEF g, m, i
    <3> QED BY <1>4, <1>6
  <2> HIDE DEF g, m, i
  <2> QED BY <2>1, <1>4, <1>6, BondPlaces
<1>9. Left = End - (g + 2 * i) BY <1>5 DEF Left
<1>10. ~Short /\ ~(Left < 2)
  <2> HIDE DEF g, m, i
  <2>1. End - (g + 2 * i) >= 2 /\ End - (g + 2 * i) \in Int BY <1>4, <1>6
  <2> QED BY <2>1, <1>9 DEF Short
<1>11. B = x BY <1>5 DEF B, BondIn
<1>12. data[item.at + 2] = y BY <1>5 DEF BondOut
<1>13. /\ item.inStreams = m /\ item.numCoders = NumOf
       /\ item.coderUsed = BondOuts(data, g, i)
  BY <1>5 DEF GraphStage
<1> HIDE DEF x, y
<1>14. ~(B >= item.inStreams \/ B \in item.streamUsed)
  <2>1. ~(x >= m) BY <1>4, <1>7, <1>8
  <2> QED BY <2>1, <1>5, <1>7, <1>11, <1>13
<1>15. ~(data[item.at + 2] >= item.numCoders \/ data[item.at + 2] \in item.coderUsed)
  <2>1. ~(y >= NumOf) BY <1>4, <1>7, <1>8
  <2> QED BY <2>1, <1>7, <1>12, <1>13
<1>16. /\ item' = [item EXCEPT !.streamUsed = @ \cup {x}, !.coderUsed = @ \cup {y},
                               !.i = @ + 1, !.at = @ + 2]
       /\ folder' = [folder EXCEPT !.Bonds = Append(@, [InIndex |-> x, OutIndex |-> y])]
       /\ pc' = "item bond" /\ Same
  BY <1>10, <1>11, <1>12, <1>14, <1>15 DEF ItemBond, Got
<1> DEFINE r == [InIndex |-> x, OutIndex |-> y]
<1>17. r \in BondSet /\ r.InIndex = x /\ r.OutIndex = y BY <1>8 DEF BondSet
<1>18. folder' = [folder EXCEPT !.Bonds = Append(@, r)] BY <1>16
<1> HIDE DEF r
<1>19. /\ folder' \in FolderSet /\ folder'.Coders = folder.Coders
       /\ folder'.NumPackStreams = folder.NumPackStreams
       /\ folder'.PackStreams = << >>
       /\ Len(folder'.Bonds) = Len(folder.Bonds) + 1
       /\ InIndexes' = InIndexes \cup {x} /\ OutIndexes' = OutIndexes \cup {y}
  BY <1>2, <1>5, <1>17, <1>18, BondAppended
<1>20. /\ BondIns(data, g, i + 1) = BondIns(data, g, i) \cup {x}
       /\ BondOuts(data, g, i + 1) = BondOuts(data, g, i) \cup {y}
  <2> HIDE DEF g, i
  <2>1. BondAdded(data, g, i) BY <1>6, BondSetsGrow
  <2> QED BY <2>1 DEF BondAdded, x, y
<1>21. item' = [item EXCEPT !.streamUsed = BondIns(data, g, i + 1),
                            !.coderUsed = BondOuts(data, g, i + 1),
                            !.i = i + 1, !.at = g + 2 * (i + 1)]
  <2>1. item.at + 2 = g + 2 * (i + 1)
    <3> HIDE DEF g, i
    <3>1. g + 2 * i + 2 = g + 2 * (i + 1) BY <1>4, <1>6
    <3> QED BY <1>5, <3>1
  <2> QED BY <2>1, <1>5, <1>13, <1>16, <1>20
<1>22. /\ BondIns(data, g, i + 1) \in SUBSET Nat /\ BondOuts(data, g, i + 1) \in SUBSET Nat
       /\ i + 1 \in Nat /\ g + 2 * (i + 1) \in Nat
  <2>1. item.streamUsed \in SUBSET Nat /\ item.coderUsed \in SUBSET Nat
    BY <1>2 DEF LocalSet
  <2>2. i + 1 \in Nat /\ g + 2 * (i + 1) \in Nat
    <3> HIDE DEF g, i
    <3> QED BY <1>4, <1>6
  <2> QED BY <2>1, <2>2, <1>5, <1>8, <1>13, <1>20
<1>23. /\ item' \in LocalSet /\ item'.fo = item.fo /\ item'.numCoders = NumOf
       /\ item'.inStreams = m /\ item'.packs = item.packs
       /\ item'.at = g + 2 * (i + 1) /\ item'.i = i + 1
       /\ item'.streamUsed = BondIns(data, g, i + 1)
       /\ item'.coderUsed = BondOuts(data, g, i + 1)
  <2> DEFINE S == BondIns(data, g, i + 1)
             T == BondOuts(data, g, i + 1)
             q == g + 2 * (i + 1)
             j == i + 1
  <2>1. item' = [item EXCEPT !.streamUsed = S, !.coderUsed = T, !.i = j, !.at = q]
    BY <1>21
  <2>2. S \in SUBSET Nat /\ T \in SUBSET Nat /\ j \in Nat /\ q \in Nat BY <1>22
  <2> HIDE DEF S, T, q, j, g, m, i
  <2>3. /\ item' \in LocalSet /\ item'.fo = item.fo /\ item'.numCoders = NumOf
       /\ item'.inStreams = m /\ item'.packs = item.packs
       /\ item'.at = q /\ item'.i = j /\ item'.streamUsed = S /\ item'.coderUsed = T
    BY <2>1, <2>2, <1>2, <1>13 DEF LocalSet
  <2> QED BY <2>3 DEF S, T, q, j
<1>24. /\ data' = data /\ UNCHANGED <<data, scan, ar>>
       /\ Start' = Start /\ End' = End /\ NumOf' = NumOf /\ PacksOf' = PacksOf
  BY <1>16, <1>23, SameFolder
<1>25. GraphStage(from, ins, item.i)'
  <2>1. Inside' BY <1>5, <1>19, <1>24 DEF Inside, GraphStage
  <2>2. /\ item.packs = PacksOf /\ folder.NumPackStreams = PacksOf
        /\ InIndexes = BondIns(data, g, i) /\ OutIndexes = BondOuts(data, g, i)
        /\ Len(folder.Bonds) = i
    BY <1>5 DEF GraphStage
  <2>3. /\ InIndexes' = BondIns(data, g, i + 1) /\ OutIndexes' = BondOuts(data, g, i + 1)
        /\ Len(folder'.Bonds) = i + 1 /\ folder'.NumPackStreams = PacksOf
        /\ item'.packs = PacksOf
    BY <2>2, <1>19, <1>20, <1>23
  <2> DEFINE j == i + 1
  <2>4. /\ item'.numCoders = NumOf /\ item'.inStreams = ins[NumOf] /\ item'.i = j
        /\ item'.coderUsed = BondOuts(data, from[NumOf], j)
        /\ InIndexes' = BondIns(data, from[NumOf], j)
        /\ OutIndexes' = BondOuts(data, from[NumOf], j) /\ Len(folder'.Bonds) = j
    BY <2>3, <1>23
  <2> HIDE DEF j
  <2> QED BY <2>1, <2>3, <2>4, <1>24 DEF GraphStage
<1>26. item'.i <= NumOf - 1 /\ item'.at = g + 2 * item'.i
       /\ item'.streamUsed = BondIns(data, g, item'.i)
  <2>1. i + 1 <= NumOf - 1
    <3> HIDE DEF i
    <3> QED BY <1>4, <1>6
  <2> QED BY <2>1, <1>23
<1>27. ItemPlace(from, ins)'
  BY <1>16, <1>19, <1>24, <1>25, <1>26 DEF ItemPlace
<1> QED BY <1>16, <1>19, <1>23, <1>24, <1>27, <1>1, <1>3, ItemGoesOn DEF ItemPcs

(* It finds the main output of the row.                                      *)
LEMMA ItemUnpackStreamKeeps ==
  ASSUME ScanInv, ItemInv, ItemUnpackStream
  PROVE ItemInv'
<1>1. pc = "item bond" /\ pc \in ItemPcs BY DEF ItemUnpackStream, ItemPcs
<1>2. item \in LocalSet /\ folder \in FolderSet /\ item.fo \in 0 .. Len(ar) - 1
  BY <1>1, ItemFinds
<1>3. PICK from, ins : Mine(from, ins) /\ ItemPlace(from, ins) BY <1>1, ItemFinds
<1>4. /\ data \in Seq(Byte) /\ NumOf \in Nat \ {0} /\ from[NumOf] \in Nat
      /\ ins[NumOf] \in Nat
      /\ GraphOk(data, from[NumOf], NumOf, ins[NumOf], End, PacksOf, MainOf)
  BY <1>2, <1>3, MineFacts
<1>5. /\ GraphStage(from, ins, item.i) /\ folder.PackStreams = << >>
      /\ item.at = from[NumOf] + 2 * item.i
      /\ item.streamUsed = BondIns(data, from[NumOf], item.i)
  BY <1>1, <1>3 DEF ItemPlace
<1>6. item.numCoders = NumOf /\ item.i = NumOf - 1
  BY <1>5 DEF GraphStage, ItemUnpackStream
<1> DEFINE free == (0 .. NumOf - 1) \ BondOuts(data, from[NumOf], NumOf - 1)
<1>7. /\ free # {} /\ MainOf = Least(free)
  BY <1>4 DEF GraphOk
<1>8. /\ MainOf \in 0 .. NumOf - 1 /\ PacksOf \in Nat
  BY <1>4, GraphFacts
<1>9. MainOf \in Nat
  <2>1. PICK k \in 0 .. NumOf - 1 : k = MainOf BY <1>8
  <2> QED BY <2>1
<1>10. item.i = 0 => MainOf = 0
  <2>1. PICK k \in 0 .. NumOf - 1 : k = MainOf BY <1>8
  <2> QED BY <2>1, <1>4, <1>6
<1>11. item.coderUsed = BondOuts(data, from[NumOf], NumOf - 1) /\ item.packs = PacksOf
  BY <1>5, <1>6 DEF GraphStage
<1>12. (0 .. item.numCoders - 1) \ item.coderUsed = free BY <1>6, <1>11
<1>13. FirstUnused(item) = MainOf BY <1>7, <1>12 DEF FirstUnused, Least
<1> HIDE DEF free
<1>14. /\ item' = [item EXCEPT !.i = 0]
       /\ folder' = [folder EXCEPT !.UnpackStream = MainOf]
       /\ pc' = (IF item.packs = 1 THEN "item one pack" ELSE "item pack") /\ Same
  BY <1>7, <1>10, <1>12, <1>13 DEF ItemUnpackStream, Got
<1>15. /\ item' \in LocalSet /\ item'.fo = item.fo /\ item'.numCoders = NumOf
       /\ item'.inStreams = item.inStreams /\ item'.packs = PacksOf
       /\ item'.at = item.at /\ item'.i = 0
       /\ item'.streamUsed = item.streamUsed /\ item'.coderUsed = item.coderUsed
  BY <1>14, <1>2, <1>6, <1>11 DEF LocalSet
<1>16. /\ folder' \in FolderSet /\ folder'.UnpackStream = MainOf
       /\ folder'.Coders = folder.Coders /\ folder'.Bonds = folder.Bonds
       /\ folder'.PackStreams = << >>
       /\ folder'.NumPackStreams = folder.NumPackStreams
  BY <1>14, <1>2, <1>5, <1>9 DEF FolderSet
<1>17. /\ data' = data /\ UNCHANGED <<data, scan, ar>>
       /\ Start' = Start /\ End' = End /\ NumOf' = NumOf /\ PacksOf' = PacksOf
       /\ MainOf' = MainOf
  BY <1>14, <1>15, SameFolder
<1>18. InIndexes' = InIndexes /\ OutIndexes' = OutIndexes
  BY <1>16 DEF InIndexes, OutIndexes
<1>19. Packed' = {} /\ Len(folder'.PackStreams) = 0
  <2>1. Len(folder'.PackStreams) = 0 BY <1>16, EmptySeq
  <2>2. 1 .. 0 = {} OBVIOUS
  <2> QED BY <2>1, <2>2 DEF Packed
<1>20. Inside' BY <1>5, <1>16, <1>17 DEF Inside, GraphStage
<1>21. GraphStage(from, ins, NumOf - 1)'
  BY <1>5, <1>6, <1>15, <1>16, <1>17, <1>18, <1>20 DEF GraphStage
<1>22. PackIns(data, PacksAt(from), 0) = {} BY NoPacks
<1>23. /\ PacksAt(from)' = PacksAt(from) /\ PacksAt(from) = item.at
       /\ PacksAt(from) \in Nat
  BY <1>4, <1>5, <1>6, <1>17 DEF PacksAt, BondsEnd
<1>24. ItemPlace(from, ins)'
  <2>1. pc' = "item one pack" => PacksOf = 1 BY <1>11, <1>14
  <2>2. pc' = "item pack" => PacksOf # 1 BY <1>11, <1>14
  <2>3. pc' \in {"item one pack", "item pack"} BY <1>14
  <2>4. item'.at = PacksAt(from)' /\ item'.at = PacksAt(from)' + item'.i
    BY <1>15, <1>23
  <2>5. item'.streamUsed = BondIns(data', from[NumOf'], NumOf' - 1)
    BY <1>5, <1>6, <1>15, <1>17
  <2>6. PackIns(data', PacksAt(from)', item'.i) = {} BY <1>15, <1>17, <1>22, <1>23
  <2>7. item'.i <= PacksOf' BY <1>8, <1>15, <1>17
  <2> QED BY <2>1, <2>2, <2>3, <2>4, <2>5, <2>6, <2>7, <1>15, <1>16, <1>17, <1>19, <1>21
          DEF ItemPlace
<1>25. pc' \in ItemPcs BY <1>14 DEF ItemPcs
<1> QED BY <1>14, <1>15, <1>16, <1>17, <1>24, <1>25, <1>1, <1>3, ItemGoesOn

(* The end of the folder: the graph is a tree of all the coders              *)
LEMMA GraphDone ==
  ASSUME NEW from, NEW ins, NumOf \in Nat \ {0}, NEW m \in Nat, m = ins[NumOf],
         GraphStage(from, ins, NumOf - 1)', item' \in LocalSet, folder' \in FolderSet,
         data \in Seq(Byte), from[NumOf] \in Nat,
         GraphOk(data, from[NumOf], NumOf, m, End, PacksOf, MainOf),
         UNCHANGED <<data, scan, ar>>, item'.fo = item.fo, Same,
         folder'.UnpackStream = MainOf, item'.at = End,
         Len(folder'.PackStreams) = PacksOf,
         BondIns(data, from[NumOf], NumOf - 1) \cup Packed' = 0 .. m - 1
  PROVE /\ item'.numCoders = NumOf' /\ item'.at = End' /\ Inside'
        /\ folder'.UnpackStream = MainOf' /\ folder'.NumPackStreams = PacksOf'
        /\ GraphSound'
<1>1. /\ data' = data
      /\ Start' = Start /\ End' = End /\ NumOf' = NumOf /\ PacksOf' = PacksOf
      /\ MainOf' = MainOf
  BY SameFolder
<1>2. /\ PacksOf \in Nat /\ PacksOf = m - (NumOf - 1) /\ MainOf \in 0 .. NumOf - 1
      /\ BondOuts(data, from[NumOf], NumOf - 1) = (0 .. NumOf - 1) \ {MainOf}
  BY SMTT(30), GraphFacts
<1>3. /\ item'.numCoders = NumOf /\ item'.inStreams = m /\ Inside'
      /\ folder'.NumPackStreams = PacksOf /\ Len(folder'.Bonds) = NumOf - 1
      /\ InIndexes' = BondIns(data, from[NumOf], NumOf - 1)
      /\ OutIndexes' = BondOuts(data, from[NumOf], NumOf - 1)
  BY <1>1 DEF GraphStage
<1>4. Len(folder'.Bonds) + Len(folder'.PackStreams) = m BY <1>2, <1>3
<1>5. GraphSound' BY <1>2, <1>3, <1>4 DEF GraphSound
<1> QED BY <1>1, <1>3, <1>5

(* The only packed stream is the input that no bond names.                   *)
LEMMA ItemOnePackKeeps ==
  ASSUME ScanInv, ItemInv, ItemOnePack
  PROVE ItemInv'
<1>1. pc = "item one pack" /\ pc \in ItemPcs BY DEF ItemOnePack, ItemPcs
<1>2. item \in LocalSet /\ folder \in FolderSet /\ item.fo \in 0 .. Len(ar) - 1
  BY <1>1, ItemFinds
<1>3. PICK from, ins : Mine(from, ins) /\ ItemPlace(from, ins) BY <1>1, ItemFinds
<1>4. /\ data \in Seq(Byte) /\ NumOf \in Nat \ {0} /\ from[NumOf] \in Nat
      /\ ins[NumOf] \in Nat
      /\ GraphOk(data, from[NumOf], NumOf, ins[NumOf], End, PacksOf, MainOf)
  BY <1>2, <1>3, MineFacts
<1>5. /\ GraphStage(from, ins, NumOf - 1) /\ folder.UnpackStream = MainOf
      /\ PacksOf = 1 /\ item.at = PacksAt(from)
      /\ item.streamUsed = BondIns(data, from[NumOf], NumOf - 1)
  BY <1>1, <1>3 DEF ItemPlace
<1> DEFINE S == BondIns(data, from[NumOf], NumOf - 1)
           m == ins[NumOf]
<1>6. PICK k : LeftOver(m, S, k)
  <2>1. /\ PacksOf = m - (NumOf - 1) /\ S \subseteq 0 .. m - 1 /\ m \in Nat
        /\ IsFiniteSet(S) /\ Cardinality(S) = NumOf - 1
    <3> DEFINE g == from[NumOf]
    <3>1. g \in Nat /\ m \in Nat /\ GraphOk(data, g, NumOf, m, End, PacksOf, MainOf)
      BY <1>4
    <3> HIDE DEF g, m
    <3>2. /\ PacksOf \in Nat /\ NumOf - 1 <= m /\ PacksOf = m - (NumOf - 1)
          /\ MainOf \in 0 .. NumOf - 1
          /\ BondOuts(data, g, NumOf - 1) = (0 .. NumOf - 1) \ {MainOf}
          /\ BondIns(data, g, NumOf - 1) \subseteq 0 .. m - 1
          /\ IsFiniteSet(BondIns(data, g, NumOf - 1))
          /\ Cardinality(BondIns(data, g, NumOf - 1)) = NumOf - 1
      BY SMTT(30), <3>1, <1>4, GraphFacts
    <3> QED BY <3>1, <3>2 DEF g
  <2> HIDE DEF S, m
  <2>2. m = NumOf /\ m \in Nat \ {0} BY <2>1, <1>4, <1>5
  <2>3. S \in SUBSET (0 .. m - 1) /\ Cardinality(S) = m - 1 BY <2>1, <2>2
  <2> QED BY <2>1, <2>2, <2>3, LastInput
<1>7. /\ (0 .. item.inStreams - 1) \ item.streamUsed = (0 .. m - 1) \ S
      /\ k \in Nat /\ (0 .. m - 1) \ S # {} /\ S \cup {k} = 0 .. m - 1
      /\ k = Least((0 .. m - 1) \ S)
  BY <1>5, <1>6 DEF GraphStage, LeftOver
<1> DEFINE free == (0 .. m - 1) \ S
<1>8. /\ item' = item /\ folder' = [folder EXCEPT !.PackStreams = <<k>>]
      /\ pc' = "item done" /\ Same
  <2>1. (0 .. item.inStreams - 1) \ item.streamUsed = free BY <1>7
  <2>2. free # {} /\ k = (CHOOSE x \in free : \A j \in free : x <= j)
    BY <1>7 DEF Least
  <2> HIDE DEF free
  <2> QED BY <2>1, <2>2 DEF ItemOnePack, Got
<1>9. <<k>> \in Seq(Nat) /\ Len(<<k>>) = 1 /\ <<k>>[1] = k BY <1>7
<1>10. /\ folder' \in FolderSet /\ folder'.Coders = folder.Coders
       /\ folder'.Bonds = folder.Bonds /\ folder'.PackStreams = <<k>>
       /\ folder'.NumPackStreams = folder.NumPackStreams
       /\ folder'.UnpackStream = folder.UnpackStream
  BY <1>8, <1>9, <1>2 DEF FolderSet
<1>11. /\ data' = data /\ UNCHANGED <<data, scan, ar>> /\ item'.fo = item.fo
       /\ Start' = Start /\ End' = End /\ NumOf' = NumOf /\ PacksOf' = PacksOf
  BY <1>8, SameFolder
<1>12. Packed' = {k}
  <2>1. 1 .. 1 = {1} OBVIOUS
  <2> QED BY <2>1, <1>9, <1>10 DEF Packed
<1>13. GraphStage(from, ins, NumOf - 1)'
  <2>1. InIndexes' = InIndexes /\ OutIndexes' = OutIndexes
    BY <1>10 DEF InIndexes, OutIndexes
  <2>2. Inside' BY <1>5, <1>10, <1>11 DEF Inside, GraphStage
  <2> QED BY <1>5, <1>8, <1>10, <1>11, <2>1, <2>2 DEF GraphStage
<1>14. item'.at = End
  <2>1. PacksOf = 1 => End = BondsEnd(from[NumOf], NumOf) BY <1>4, GraphEnd
  <2> QED BY <2>1, <1>5, <1>8 DEF PacksAt
<1>15. /\ item'.numCoders = NumOf' /\ item'.at = End' /\ Inside'
       /\ folder'.UnpackStream = MainOf' /\ folder'.NumPackStreams = PacksOf'
       /\ GraphSound'
  <2>1. Len(folder'.PackStreams) = PacksOf /\ folder'.UnpackStream = MainOf
    BY <1>5, <1>9, <1>10
  <2>2. BondIns(data, from[NumOf], NumOf - 1) \cup Packed' = 0 .. ins[NumOf] - 1
    BY <1>7, <1>12
  <2>3. item' \in LocalSet BY <1>2, <1>8
  <2>4. m \in Nat /\ m = ins[NumOf] BY <1>4
  <2>5. /\ GraphOk(data, from[NumOf], NumOf, m, End, PacksOf, MainOf)
        /\ BondIns(data, from[NumOf], NumOf - 1) \cup Packed' = 0 .. m - 1
    BY <1>4, <2>2
  <2> HIDE DEF m
  <2> QED BY <2>1, <2>3, <2>4, <2>5, <1>4, <1>8, <1>10, <1>11, <1>13, <1>14, GraphDone
<1>16. ItemPlace(from, ins)' BY <1>8, <1>15 DEF ItemPlace
<1>17. pc' \in ItemPcs /\ item' \in LocalSet BY <1>2, <1>8 DEF ItemPcs
<1> QED BY <1>1, <1>3, <1>10, <1>11, <1>16, <1>17, ItemGoesOn

(* A packed stream more                                                      *)
LEMMA PackStreamAppended ==
  ASSUME folder \in FolderSet, NEW k \in Nat,
         folder' = [folder EXCEPT !.PackStreams = Append(@, k)]
  PROVE /\ folder' \in FolderSet /\ folder'.Coders = folder.Coders
        /\ folder'.Bonds = folder.Bonds
        /\ folder'.NumPackStreams = folder.NumPackStreams
        /\ folder'.UnpackStream = folder.UnpackStream
        /\ Len(folder'.PackStreams) = Len(folder.PackStreams) + 1
        /\ Packed' = Packed \cup {k}
<1> DEFINE s == folder.PackStreams
<1>1. s \in Seq(Nat) BY DEF FolderSet
<1>2. /\ Append(s, k) \in Seq(Nat) /\ Len(Append(s, k)) = Len(s) + 1
      /\ Append(s, k)[Len(s) + 1] = k
      /\ \A j \in 1 .. Len(s) : Append(s, k)[j] = s[j]
  BY <1>1, AppendProperties
<1>3. Len(s) \in Nat BY <1>1, LenProperties
<1>4. /\ folder' \in FolderSet /\ folder'.PackStreams = Append(s, k)
      /\ folder'.Coders = folder.Coders /\ folder'.Bonds = folder.Bonds
      /\ folder'.NumPackStreams = folder.NumPackStreams
      /\ folder'.UnpackStream = folder.UnpackStream
  BY <1>2 DEF FolderSet
<1>5. 1 .. Len(s) + 1 = (1 .. Len(s)) \cup {Len(s) + 1} BY <1>3
<1>6. Packed' = {Append(s, k)[j] : j \in (1 .. Len(s)) \cup {Len(s) + 1}}
  BY <1>2, <1>4, <1>5 DEF Packed
<1>7. Packed' = Packed \cup {k} BY <1>2, <1>6 DEF Packed
<1> QED BY <1>2, <1>4, <1>7

(* It finds a packed stream of the scan, or the end of the folder.           *)
LEMMA ItemPackKeeps ==
  ASSUME ScanInv, ItemInv, ItemPack
  PROVE ItemInv'
<1>1. pc = "item pack" /\ pc \in ItemPcs /\ Same BY DEF ItemPack, ItemPcs
<1>2. item \in LocalSet /\ folder \in FolderSet /\ item.fo \in 0 .. Len(ar) - 1
  BY <1>1, ItemFinds
<1>3. PICK from, ins : Mine(from, ins) /\ ItemPlace(from, ins) BY <1>1, ItemFinds
<1> DEFINE g == from[NumOf]
           m == ins[NumOf]
           h == BondsEnd(g, NumOf)
           i == item.i
           S == BondIns(data, g, NumOf - 1)
<1>4. /\ data \in Seq(Byte) /\ NumOf \in Nat \ {0} /\ g \in Nat
      /\ m \in Nat /\ End \in Nat /\ End <= Len(data) /\ Len(data) \in Nat
      /\ GraphOk(data, g, NumOf, m, End, PacksOf, MainOf)
  BY <1>2, <1>3, MineFacts
<1>5. /\ GraphStage(from, ins, NumOf - 1) /\ folder.UnpackStream = MainOf
      /\ PacksOf # 1 /\ i <= PacksOf /\ item.at = h + i
      /\ item.streamUsed = S \cup PackIns(data, h, i)
      /\ Packed = PackIns(data, h, i) /\ Len(folder.PackStreams) = i
  BY <1>1, <1>3 DEF ItemPlace, PacksAt
<1>6. /\ item.numCoders = NumOf /\ item.inStreams = m /\ item.packs = PacksOf
      /\ folder.NumPackStreams = PacksOf /\ Inside
  BY <1>5 DEF GraphStage
<1>7. i \in Nat BY <1>2 DEF LocalSet
<1>8. PacksOf \in Nat /\ h \in Nat
  <2> HIDE DEF g, m, h
  <2>1. PacksOf \in Nat BY <1>4, GraphFacts
  <2>2. h \in Nat BY <1>4 DEF h, BondsEnd
  <2> QED BY <2>1, <2>2
<1>9. End = h + PacksOf
  <2>1. PacksOf # 1 => End = BondsEnd(g, NumOf) + PacksOf
    <3> HIDE DEF g, m, h
    <3> QED BY <1>4, GraphEnd
  <2> QED BY <2>1, <1>5
<1>10. CASE i = PacksOf
  <2>1. /\ item' = item /\ folder' = folder /\ pc' = "item done"
    BY <1>6, <1>10 DEF ItemPack, GotStop
  <2>2. /\ data' = data /\ UNCHANGED <<data, scan, ar>> /\ item'.fo = item.fo
        /\ Start' = Start /\ End' = End /\ NumOf' = NumOf /\ PacksOf' = PacksOf
    BY <1>1, <2>1, SameFolder
  <2>3. GraphStage(from, ins, NumOf - 1)'
    <3>1. InIndexes' = InIndexes /\ OutIndexes' = OutIndexes
      BY <2>1 DEF InIndexes, OutIndexes
    <3>2. Inside' BY <1>6, <2>1, <2>2 DEF Inside
    <3> QED BY <1>5, <2>1, <2>2, <3>1, <3>2 DEF GraphStage
  <2>4. S \cup Packed' = 0 .. m - 1
    <3>1. Packed' = Packed BY <2>1 DEF Packed
    <3>2. S \cup PackIns(data, h, PacksOf) = 0 .. m - 1
      <4> HIDE DEF g, m
      <4> QED BY <1>4, <1>5, AllInputs
    <3> QED BY <3>1, <3>2, <1>5, <1>10
  <2>5. /\ item'.numCoders = NumOf' /\ item'.at = End' /\ Inside'
        /\ folder'.UnpackStream = MainOf' /\ folder'.NumPackStreams = PacksOf'
        /\ GraphSound'
    <3>1. item'.at = End BY <2>1, <1>5, <1>9, <1>10
    <3>2. Len(folder'.PackStreams) = PacksOf /\ folder'.UnpackStream = MainOf
      BY <2>1, <1>5, <1>10
    <3>3. item' \in LocalSet /\ folder' \in FolderSet BY <2>1, <1>2
    <3>4. m = ins[NumOf] /\ from[NumOf] \in Nat
          /\ GraphOk(data, from[NumOf], NumOf, m, End, PacksOf, MainOf)
          /\ BondIns(data, from[NumOf], NumOf - 1) \cup Packed' = 0 .. m - 1
      BY <1>4, <2>4
    <3> HIDE DEF g, m, h, i, S
    <3> QED BY <1>1, <1>4, <2>2, <2>3, <3>1, <3>2, <3>3, <3>4, GraphDone
  <2>6. ItemPlace(from, ins)' BY <2>1, <2>5 DEF ItemPlace
  <2>7. pc' \in ItemPcs /\ item' \in LocalSet /\ folder' \in FolderSet
    BY <2>1, <1>2 DEF ItemPcs
  <2> QED BY <1>1, <1>3, <2>2, <2>6, <2>7, ItemGoesOn
<1>11. CASE i # PacksOf
  <2> DEFINE x == PackIn(data, h, i)
  <2>1. i < PacksOf
    <3> HIDE DEF i
    <3> QED BY <1>5, <1>7, <1>8, <1>11
  <2>2. h + i + 1 <= End
    <3> HIDE DEF h, i
    <3> QED BY <2>1, <1>7, <1>8, <1>9
  <2>3. x < m /\ x \notin S \cup PackIns(data, h, i)
    <3>1. PacksOk(data, h, S, m, PacksOf) BY <1>4, <1>5 DEF GraphOk
    <3>2. i \in 0 .. PacksOf - 1
      <4> HIDE DEF i
      <4> QED BY <2>1, <1>7, <1>8
    <3> HIDE DEF h, i, S, m
    <3> QED BY <3>1, <3>2 DEF PacksOk
  <2>4. x \in Nat
    <3>1. h + i + 1 <= Len(data)
      <4> HIDE DEF h, i
      <4> QED BY <2>2, <1>4, <1>7, <1>8
    <3> HIDE DEF h, i
    <3> QED BY <3>1, <1>4, <1>7, <1>8, PackPlace
  <2>5. ~Short
    <3>1. Left = End - (h + i) BY <1>5 DEF Left
    <3> HIDE DEF h, i
    <3> QED BY <3>1, <2>2, <1>4, <1>7, <1>8 DEF Short
  <2>6. B = x BY <1>5 DEF B, PackIn
  <2> HIDE DEF x
  <2>7. ~(B >= item.inStreams \/ B \in item.streamUsed)
    <3>1. ~(x >= m) BY <2>3, <2>4, <1>4
    <3> QED BY <3>1, <2>3, <2>6, <1>5, <1>6
  <2>8. /\ item' = [item EXCEPT !.streamUsed = @ \cup {x}, !.i = @ + 1, !.at = @ + 1]
        /\ folder' = [folder EXCEPT !.PackStreams = Append(@, x)]
        /\ pc' = "item pack"
    BY <2>5, <2>6, <2>7, <1>6, <1>11 DEF ItemPack, Got
  <2>9. /\ folder' \in FolderSet /\ folder'.Coders = folder.Coders
        /\ folder'.Bonds = folder.Bonds
        /\ folder'.NumPackStreams = folder.NumPackStreams
        /\ folder'.UnpackStream = folder.UnpackStream
        /\ Len(folder'.PackStreams) = Len(folder.PackStreams) + 1
        /\ Packed' = Packed \cup {x}
    BY <2>8, <2>4, <1>2, PackStreamAppended
  <2>10. PackIns(data, h, i + 1) = PackIns(data, h, i) \cup {x}
    <3> HIDE DEF h, i
    <3> QED BY <1>7, <1>8, PackSetGrows DEF x
  <2> DEFINE U == S \cup PackIns(data, h, i + 1)
             j == i + 1
             q == h + (i + 1)
  <2>11. item' = [item EXCEPT !.streamUsed = U, !.i = j, !.at = q]
    <3>1. item.at + 1 = q
      <4>1. h + i + 1 = h + (i + 1)
        <5> HIDE DEF h, i
        <5> QED BY <1>7, <1>8
      <4> QED BY <4>1, <1>5
    <3>2. item.streamUsed \cup {x} = U BY <2>10, <1>5
    <3> QED BY <3>1, <3>2, <2>8
  <2>12. U \in SUBSET Nat /\ j \in Nat /\ q \in Nat
    <3>1. item.streamUsed \in SUBSET Nat BY <1>2 DEF LocalSet
    <3>2. U = item.streamUsed \cup {x} BY <2>10, <1>5
    <3>3. j \in Nat /\ q \in Nat
      <4> HIDE DEF h, i
      <4> QED BY <1>7, <1>8
    <3> QED BY <3>1, <3>2, <3>3, <2>4
  <2>13. /\ item' \in LocalSet /\ item'.fo = item.fo /\ item'.numCoders = NumOf
         /\ item'.inStreams = m /\ item'.packs = PacksOf
         /\ item'.coderUsed = item.coderUsed
         /\ item'.at = q /\ item'.i = j /\ item'.streamUsed = U
    <3> HIDE DEF U, q, j, g, m, h, i, S
    <3> QED BY <2>11, <2>12, <1>2, <1>6 DEF LocalSet
  <2>14. /\ data' = data /\ UNCHANGED <<data, scan, ar>>
         /\ Start' = Start /\ End' = End /\ NumOf' = NumOf /\ PacksOf' = PacksOf
         /\ MainOf' = MainOf
    BY <1>1, <2>13, SameFolder
  <2>15. GraphStage(from, ins, NumOf - 1)'
    <3>1. InIndexes' = InIndexes /\ OutIndexes' = OutIndexes
      BY <2>9 DEF InIndexes, OutIndexes
    <3>2. Inside' BY <1>6, <2>9, <2>14 DEF Inside
    <3>3. /\ item'.numCoders = NumOf /\ item'.inStreams = ins[NumOf]
          /\ item'.packs = PacksOf /\ item'.coderUsed = item.coderUsed
      BY <2>13
    <3> HIDE DEF g, m, h, i, S, U, j, q
    <3> QED BY <1>5, <2>9, <2>14, <3>1, <3>2, <3>3 DEF GraphStage
  <2>16. /\ PacksAt(from)' = h /\ item'.i <= PacksOf /\ item'.at = h + item'.i
         /\ item'.streamUsed = S \cup PackIns(data, h, item'.i)
         /\ Packed' = PackIns(data, h, item'.i)
         /\ Len(folder'.PackStreams) = item'.i
    <3>1. PacksAt(from)' = h BY <2>14 DEF PacksAt
    <3>2. j <= PacksOf
      <4> HIDE DEF i
      <4> QED BY <2>1, <1>7, <1>8
    <3> QED BY <3>1, <3>2, <2>9, <2>10, <2>13, <1>5
  <2>17. ItemPlace(from, ins)'
    <3>1. folder'.UnpackStream = MainOf' BY <2>9, <2>14, <1>5
    <3>2. item'.streamUsed = BondIns(data', from[NumOf'], NumOf' - 1)
                               \cup PackIns(data', PacksAt(from)', item'.i)
      BY <2>14, <2>16
    <3>3. Packed' = PackIns(data', PacksAt(from)', item'.i) BY <2>14, <2>16
    <3>4. /\ PacksOf' # 1 /\ item'.i <= PacksOf' /\ item'.at = PacksAt(from)' + item'.i
          /\ Len(folder'.PackStreams) = item'.i
      BY <2>14, <2>16, <1>5
    <3> HIDE DEF g, m, h, i, S, U, j, q
    <3> QED BY <2>8, <3>1, <3>2, <3>3, <3>4, <2>14, <2>15 DEF ItemPlace
  <2>18. pc' \in ItemPcs BY <2>8 DEF ItemPcs
  <2> QED BY <1>1, <1>3, <2>9, <2>13, <2>14, <2>17, <2>18, ItemGoesOn
<1> QED BY <1>10, <1>11

-----------------------------------------------------------------------------
(* The steps together.                                                       *)

FoldersInv == ScanInv /\ ItemInv

(* The invariant holds at first.                                             *)
LEMMA FoldersBegin ==
  ASSUME Init
  PROVE FoldersInv
<1>1. ScanInv BY ScanStart
<1>2. pc = "numCoders" BY DEF Init
<1> QED BY <1>1, <1>2 DEF FoldersInv, ItemInv, ItemPcs

(* A step of ReadUnpackInfo keeps it.                                        *)
LEMMA ScanStepKeeps ==
  ASSUME FoldersInv, Scan
  PROVE FoldersInv'
<1>1. ScanInv BY DEF FoldersInv
<1>2. ScanInv'
  <2>1. CASE EndOfData BY <1>1, <2>1, EndOfDataKeeps
  <2>2. CASE ScanNumCoders BY <1>1, <2>2, ScanNumCodersKeeps
  <2>3. CASE ScanMain BY <1>1, <2>3, ScanMainKeeps
  <2>4. CASE ScanInStreams BY <1>1, <2>4, ScanInStreamsKeeps
  <2>5. CASE ScanOutStreams BY <1>1, <2>5, ScanOutStreamsKeeps
  <2>6. CASE ScanProps BY <1>1, <2>6, ScanPropsKeeps
  <2>7. CASE ScanBonds BY <1>1, <2>7, ScanBondsKeeps
  <2>8. CASE ScanBond BY <1>1, <2>8, ScanBondKeeps
  <2>9. CASE ScanBondIn BY <1>1, <2>9, ScanBondInKeeps
  <2>10. CASE ScanBondOut BY <1>1, <2>10, ScanBondOutKeeps
  <2>11. CASE ScanPack BY <1>1, <2>11, ScanPackKeeps
  <2>12. CASE ScanPackStream BY <1>1, <2>12, ScanPackStreamKeeps
  <2>13. CASE ScanMainStream BY <1>1, <2>13, ScanMainStreamKeeps
  <2>14. CASE ScanRecord BY <1>1, <2>14, ScanRecordKeeps
  <2> QED BY <2>1, <2>2, <2>3, <2>4, <2>5, <2>6, <2>7, <2>8, <2>9, <2>10, <2>11, <2>12,
             <2>13, <2>14 DEF Scan
<1>3. pc' \notin ItemPcs /\ pc' # "item archive"
  <2>1. CASE EndOfData BY <2>1 DEF EndOfData, Stop, ItemPcs
  <2>2. CASE ScanNumCoders BY <2>2 DEF ScanNumCoders, Stop, ItemPcs
  <2>3. CASE ScanMain BY <2>3 DEF ScanMain, NextCoder, AfterCoder, Stop, ItemPcs
  <2>4. CASE ScanInStreams BY <2>4 DEF ScanInStreams, ItemPcs
  <2>5. CASE ScanOutStreams
    BY <2>5 DEF ScanOutStreams, NextCoder, AfterCoder, Stop, ItemPcs
  <2>6. CASE ScanProps BY <2>6 DEF ScanProps, NextCoder, AfterCoder, ItemPcs
  <2>7. CASE ScanBonds BY <2>7 DEF ScanBonds, Stop, ItemPcs
  <2>8. CASE ScanBond BY <2>8 DEF ScanBond, ItemPcs
  <2>9. CASE ScanBondIn BY <2>9 DEF ScanBondIn, Stop, ItemPcs
  <2>10. CASE ScanBondOut BY <2>10 DEF ScanBondOut, Stop, ItemPcs
  <2>11. CASE ScanPack BY <2>11 DEF ScanPack, ItemPcs
  <2>12. CASE ScanPackStream BY <2>12 DEF ScanPackStream, Stop, ItemPcs
  <2>13. CASE ScanMainStream BY <2>13 DEF ScanMainStream, Stop, ItemPcs
  <2>14. CASE ScanRecord BY <2>14 DEF ScanRecord, Stop, ItemPcs
  <2> QED BY <2>1, <2>2, <2>3, <2>4, <2>5, <2>6, <2>7, <2>8, <2>9, <2>10, <2>11, <2>12,
             <2>13, <2>14 DEF Scan
<1>4. ItemInv' BY <1>3, ItemStops
<1> QED BY <1>2, <1>4 DEF FoldersInv

(* A step of SzGetNextFolderItem keeps it.                                   *)
LEMMA ItemStepKeeps ==
  ASSUME FoldersInv, Item
  PROVE FoldersInv'
<1>1. ScanInv /\ ItemInv BY DEF FoldersInv
<1>2. ItemInv'
  <2>1. CASE ItemNumCoders BY <1>1, <2>1, ItemNumCodersKeeps
  <2>2. CASE ItemCoder BY <1>1, <2>2, ItemCoderKeeps
  <2>3. CASE ItemStreams BY <1>1, <2>3, ItemStreamsKeeps
  <2>4. CASE ItemProps BY <1>1, <2>4, ItemPropsKeeps
  <2>5. CASE ItemBonds BY <1>1, <2>5, ItemBondsKeeps
  <2>6. CASE ItemBond BY <1>1, <2>6, ItemBondKeeps
  <2>7. CASE ItemUnpackStream BY <1>1, <2>7, ItemUnpackStreamKeeps
  <2>8. CASE ItemOnePack BY <1>1, <2>8, ItemOnePackKeeps
  <2>9. CASE ItemPack BY <1>1, <2>9, ItemPackKeeps
  <2> QED BY <2>1, <2>2, <2>3, <2>4, <2>5, <2>6, <2>7, <2>8, <2>9 DEF Item
<1>3. UNCHANGED <<data, scan, ar>> /\ pc' \notin ScanPcs
  <2>1. CASE ItemNumCoders BY <2>1 DEF ItemNumCoders, Same, GotStop, Got, ScanPcs
  <2>2. CASE ItemCoder BY <2>2 DEF ItemCoder, Same, GotStop, Got, ScanPcs
  <2>3. CASE ItemStreams BY <2>3 DEF ItemStreams, Same, GotStop, Got, ScanPcs
  <2>4. CASE ItemProps BY <2>4 DEF ItemProps, Same, GotStop, Got, ScanPcs
  <2>5. CASE ItemBonds BY <2>5 DEF ItemBonds, Same, GotStop, Got, ScanPcs
  <2>6. CASE ItemBond BY <2>6 DEF ItemBond, Same, GotStop, Got, ScanPcs
  <2>7. CASE ItemUnpackStream
    BY <2>7 DEF ItemUnpackStream, Same, GotStop, Got, ScanPcs
  <2>8. CASE ItemOnePack BY <2>8 DEF ItemOnePack, Same, GotStop, Got, ScanPcs
  <2>9. CASE ItemPack BY <2>9 DEF ItemPack, Same, GotStop, Got, ScanPcs
  <2> QED BY <2>1, <2>2, <2>3, <2>4, <2>5, <2>6, <2>7, <2>8, <2>9 DEF Item
<1>4. ScanInv' BY <1>1, <1>3, ScanOver
<1> QED BY <1>2, <1>4 DEF FoldersInv

(* Every step keeps it.                                                      *)
LEMMA FoldersStep ==
  ASSUME FoldersInv, Next
  PROVE FoldersInv'
<1>1. CASE Scan BY <1>1, ScanStepKeeps
<1>2. CASE DecodeFolder
  <2>1. ScanInv' 
    <3>1. UNCHANGED <<data, scan, ar>> /\ pc' \notin ScanPcs
      BY <1>2 DEF DecodeFolder, ScanPcs
    <3> QED BY <3>1, ScanOver DEF FoldersInv
  <2>2. ItemInv' BY <1>2, DecodeFolderKeeps DEF FoldersInv
  <2> QED BY <2>1, <2>2 DEF FoldersInv
<1>3. CASE Item BY <1>3, ItemStepKeeps
<1> QED BY <1>1, <1>2, <1>3 DEF Next

(* ... and no step does.                                                     *)
LEMMA FoldersStutter ==
  ASSUME FoldersInv, UNCHANGED vars
  PROVE FoldersInv'
<1>1. /\ data' = data /\ scan' = scan /\ ar' = ar /\ item' = item /\ folder' = folder
      /\ pc' = pc
  BY DEF vars
<1>2. ScanType' BY <1>1 DEF FoldersInv, ScanInv, ScanType
<1>3. ScanPlace'
  <2>1. ScanPlace BY DEF FoldersInv, ScanInv
  <2>2. ScanPlace' = ScanPlace BY <1>1 DEF ScanPlace
  <2> QED BY <2>1, <2>2
<1>4. Rows' BY <1>1 DEF FoldersInv, ScanInv, Rows, Row, Offset, Outs, StartPack
<1>5. CASE pc \in ItemPcs
  <2>1. ItemInv BY DEF FoldersInv
  <2>2. PICK from, ins : Mine(from, ins) /\ ItemPlace(from, ins) BY <2>1, <1>5 DEF ItemInv
  <2>3. item' \in LocalSet /\ folder' \in FolderSet /\ item'.fo = item.fo /\ pc' \in ItemPcs
    BY <2>1, <1>1, <1>5 DEF ItemInv
  <2>4. /\ Start' = Start /\ End' = End /\ NumOf' = NumOf /\ PacksOf' = PacksOf
        /\ MainOf' = MainOf
    BY <1>1 DEF Start, End, NumOf, PacksOf, MainOf, Offset, Outs, StartPack
  <2>5. /\ InIndexes' = InIndexes /\ OutIndexes' = OutIndexes /\ Packed' = Packed
        /\ GraphSound' = GraphSound
    BY <1>1 DEF InIndexes, OutIndexes, Packed, GraphSound
  <2>6. Inside' = Inside BY <1>1, <2>4 DEF Inside
  <2>7. ItemPlace(from, ins)'
    <3>1. CodersStage(ins)' = CodersStage(ins) BY <1>1, <2>4, <2>6 DEF CodersStage
    <3>2. InCoder(from)' = InCoder(from) BY <1>1, <2>4 DEF InCoder
    <3>3. GraphStage(from, ins, item.i)' = GraphStage(from, ins, item.i)
      BY <1>1, <2>4, <2>5, <2>6 DEF GraphStage
    <3>4. GraphStage(from, ins, NumOf - 1)' = GraphStage(from, ins, NumOf - 1)
      BY <1>1, <2>4, <2>5, <2>6 DEF GraphStage
    <3>5. PacksAt(from)' = PacksAt(from) BY <2>4 DEF PacksAt
    <3> QED BY <1>1, <2>2, <2>4, <2>5, <2>6, <3>1, <3>2, <3>3, <3>4, <3>5 DEF ItemPlace
  <2> QED BY <1>1, <1>2, <1>3, <1>4, <1>5, <2>1, <2>2, <2>3, <2>7, ItemGoesOn
          DEF FoldersInv, ScanInv
<1>6. CASE pc \notin ItemPcs
  <2>1. pc' \notin ItemPcs /\ pc' # "item archive" BY <1>1, <1>6 DEF FoldersInv, ItemInv
  <2> QED BY <1>2, <1>3, <1>4, <2>1, ItemStops DEF FoldersInv, ScanInv
<1> QED BY <1>5, <1>6

(* What the invariant says of a folder that is decoded                       *)
LEMMA FoldersSound ==
  ASSUME FoldersInv
  PROVE GraphSound /\ FoldersAgree
<1>1. pc # "item archive" BY DEF FoldersInv, ItemInv
<1>2. CASE pc # "item done"
  BY <1>1, <1>2 DEF GraphSound, FoldersAgree, ParsersAgree, PropsInside
<1>3. CASE pc = "item done"
  <2>1. pc \in ItemPcs BY <1>3 DEF ItemPcs
  <2>2. PICK from, ins : Mine(from, ins) /\ ItemPlace(from, ins)
    BY <2>1 DEF FoldersInv, ItemInv
  <2>3. item.fo \in 0 .. Len(ar) - 1 /\ item \in LocalSet BY <2>1 DEF FoldersInv, ItemInv
  <2>4. /\ item.numCoders = NumOf /\ item.at = End /\ Inside
        /\ folder.UnpackStream = MainOf /\ folder.NumPackStreams = PacksOf /\ GraphSound
    BY <1>3, <2>2 DEF ItemPlace
  <2>5. Left = 0
    <3>1. End \in Nat BY <2>2, <2>3, MineFacts DEF FoldersInv
    <3> QED BY <3>1, <2>4 DEF Left
  <2>6. NumOf = (IF item.fo + 1 < Len(ar)
                 THEN ar[item.fo + 2].FoToCoderUnpackSizes ELSE scan.outs)
                - ar[item.fo + 1].FoToCoderUnpackSizes
    <3>1. Len(ar) \in Nat BY LenProperties DEF FoldersInv, ScanInv, ScanType
    <3>2. item.fo < Len(ar) /\ item.fo \in Nat
      <4>1. PICK k \in 0 .. Len(ar) - 1 : k = item.fo BY <2>3
      <4> QED BY <4>1, <3>1
    <3>3. item.fo + 1 + 1 = item.fo + 2 BY <3>2
    <3> QED BY <3>2, <3>3 DEF NumOf, Outs
  <2>7. ParsersAgree BY <1>1, <2>4, <2>5, <2>6 DEF ParsersAgree, MainOf, PacksOf
  <2>8. PropsInside BY <2>4 DEF PropsInside, Inside, Start, End
  <2> QED BY <2>4, <2>7, <2>8 DEF FoldersAgree
<1> QED BY <1>2, <1>3

(* Every folder that ReadUnpackInfo lets through is decoded as the tables    *)
(* say: SzGetNextFolderItem never fails with SZ_ERROR_ARCHIVE, it ends where *)
(* the folder does, and SzAr_DecodeFolder never with SZ_ERROR_FAIL           *)
(* (FoldersAgree); the graph it finds has every input fed once and every     *)
(* coder but the main one bound (GraphSound).  SzFolders by itself,          *)
THEOREM FoldersSafety == Spec => [](GraphSound /\ FoldersAgree)
<1>1. Init => FoldersInv BY FoldersBegin
<1>2. FoldersInv /\ [Next]_vars => FoldersInv' BY FoldersStep, FoldersStutter
<1>3. FoldersInv => GraphSound /\ FoldersAgree BY FoldersSound
<1> QED BY <1>1, <1>2, <1>3, PTL DEF Spec

(* ... and as a part of the reading of a header, in MCHeaders.               *)
THEOREM HeadersFolders == HeadersSpec => [](GraphSound /\ FoldersAgree)
<1>1. HeadersInit => FoldersInv BY FoldersBegin DEF HeadersInit
<1>2. FoldersInv /\ [HeadersNext]_headersVars => FoldersInv'
  <2>1. ASSUME [HeadersNext]_headersVars PROVE Next \/ UNCHANGED vars
    <3>1. CASE HeadersNext BY <3>1 DEF HeadersNext
    <3>2. CASE UNCHANGED headersVars BY <3>2 DEF headersVars
    <3> QED BY <2>1, <3>1, <3>2
  <2> QED BY <2>1, FoldersStep, FoldersStutter
<1>3. FoldersInv => GraphSound /\ FoldersAgree BY FoldersSound
<1> QED BY <1>1, <1>2, <1>3, PTL DEF HeadersSpec
=============================================================================
