---------------------------- MODULE Lzma_proofs -----------------------------
(* Proofs about the LZMA decoders: for every set of streams, every way to    *)
(* cut input and room and every size of the buffer.                          *)
EXTENDS MCLzma, SequenceTheorems, WellFoundedInduction, TLAPS

-----------------------------------------------------------------------------
(* Induction over the natural numbers, and the existence of functions that   *)
(* are defined by recursion: the provers know neither.                       *)

LEMMA LeastNatural ==
  ASSUME NEW T \in SUBSET Nat, T # {}
  PROVE \E x \in T : \A y \in T : x <= y
<1>1. PICK x \in T : \A y \in T : ~(<<y, x>> \in OpToRel(<, Nat))
  BY NatLessThanWellFounded, WFMin
<1>2. \A y \in T : ~(y < x)
  BY <1>1 DEF OpToRel
<1> QED BY <1>2

LEMMA Induction ==
  ASSUME NEW T \in SUBSET Nat, 0 \in T, \A n \in Nat : n \in T => n + 1 \in T
  PROVE T = Nat
<1> SUFFICES ASSUME T # Nat PROVE FALSE OBVIOUS
<1>1. Nat \ T # {} OBVIOUS
<1>2. PICK x \in Nat \ T : \A y \in Nat \ T : x <= y BY <1>1, LeastNatural
<1>3. x - 1 \in Nat BY <1>2
<1> QED BY <1>2, <1>3

StepsIn(g, S) == g \in [Nat -> [S -> S]]
Follows(f, S, a, g) ==
  f \in [Nat -> S] /\ f[0] = a /\ \A i \in Nat : f[i + 1] = g[i][f[i]]

LEMMA Recursion ==
  ASSUME NEW S, NEW a \in S, NEW g, StepsIn(g, S)
  PROVE \E f : Follows(f, S, a, g)
<1> USE DEF StepsIn
<1> DEFINE Begins(h, n) == /\ h \in [0 .. n -> S] /\ h[0] = a
                           /\ \A i \in 0 .. n - 1 : h[i + 1] = g[i][h[i]]
           T == {n \in Nat : \E h \in [0 .. n -> S] : Begins(h, n)}
           U == {n \in Nat : \A h1, h2 : Begins(h1, n) /\ Begins(h2, n) => h1[n] = h2[n]}
<1>1. 0 \in T
  <2>1. Begins([i \in 0 .. 0 |-> a], 0) OBVIOUS
  <2> QED BY <2>1
<1>2. \A n \in Nat : n \in T => n + 1 \in T
  <2> TAKE n \in Nat
  <2> HAVE n \in T
  <2>1. PICK h \in [0 .. n -> S] : Begins(h, n) OBVIOUS
  <2> DEFINE k == [i \in 0 .. n + 1 |-> IF i <= n THEN h[i] ELSE g[n][h[n]]]
  <2>2. k \in [0 .. n + 1 -> S] BY <2>1
  <2>3. \A i \in 0 .. n : k[i + 1] = g[i][k[i]]
    <3> TAKE i \in 0 .. n
    <3>1. CASE i = n BY <2>1, <3>1
    <3>2. CASE i # n
      <4>1. i \in 0 .. n - 1 /\ i + 1 \in 0 .. n /\ i + 1 \in 0 .. n + 1 BY <3>2
      <4> QED BY <2>1, <4>1
    <3> QED BY <3>1, <3>2
  <2>4. k[0] = a BY <2>1
  <2>5. 0 .. (n + 1) - 1 = 0 .. n OBVIOUS
  <2>6. Begins(k, n + 1) BY <2>2, <2>3, <2>4, <2>5
  <2> HIDE DEF k, Begins
  <2>7. \E f \in [0 .. n + 1 -> S] : Begins(f, n + 1) BY <2>6, <2>2
  <2> QED BY <2>7
<1>3. T = Nat
  <2>1. T \in SUBSET Nat OBVIOUS
  <2> HIDE DEF T
  <2> QED BY <2>1, <1>1, <1>2, Induction
<1>4. 0 \in U OBVIOUS
<1>5. \A n \in Nat : n \in U => n + 1 \in U
  <2> TAKE n \in Nat
  <2> HAVE n \in U
  <2> SUFFICES ASSUME NEW h1, NEW h2, Begins(h1, n + 1), Begins(h2, n + 1)
               PROVE h1[n + 1] = h2[n + 1]
    <3> HIDE DEF Begins
    <3> QED OBVIOUS
  <2> DEFINE k1 == [i \in 0 .. n |-> h1[i]]  k2 == [i \in 0 .. n |-> h2[i]]
  <2>1. 0 .. (n + 1) - 1 = 0 .. n /\ n \in 0 .. n OBVIOUS
  <2>2. Begins(k1, n)
    <3>1. \A i \in 0 .. n - 1 : i \in 0 .. n /\ i + 1 \in 0 .. n OBVIOUS
    <3> QED BY <2>1, <3>1
  <2>3. Begins(k2, n)
    <3>1. \A i \in 0 .. n - 1 : i \in 0 .. n /\ i + 1 \in 0 .. n OBVIOUS
    <3> QED BY <2>1, <3>1
  <2>4. k1[n] = h1[n] /\ k2[n] = h2[n] BY <2>1
  <2>5. h1[n] = h2[n]
    <3> HIDE DEF k1, k2, Begins
    <3> QED BY <2>2, <2>3, <2>4 DEF U
  <2> QED BY <2>5, <2>1
<1>6. U = Nat
  <2>1. U \in SUBSET Nat OBVIOUS
  <2> HIDE DEF U
  <2> QED BY <2>1, <1>4, <1>5, Induction
<1> DEFINE F(n) == CHOOSE h \in [0 .. n -> S] : Begins(h, n)
<1>7. \A n \in Nat : F(n) \in [0 .. n -> S] /\ Begins(F(n), n)
  <2> TAKE n \in Nat
  <2>1. \E h \in [0 .. n -> S] : Begins(h, n) BY <1>3
  <2> HIDE DEF Begins
  <2> QED BY <2>1
<1>8. \A n \in Nat : F(n + 1)[n] = F(n)[n]
  <2> TAKE n \in Nat
  <2> DEFINE k == [i \in 0 .. n |-> F(n + 1)[i]]
  <2>0. Begins(F(n + 1), n + 1)
    <3> HIDE DEF F, Begins
    <3> QED BY <1>7
  <2>1. Begins(k, n)
    <3> HIDE DEF F
    <3>1. \A i \in 0 .. n - 1 : i \in 0 .. n /\ i + 1 \in 0 .. n /\ i \in 0 .. (n + 1) - 1 OBVIOUS
    <3> QED BY <2>0, <3>1
  <2>2. Begins(F(n), n) BY <1>7
  <2>3. n \in U BY <1>6
  <2> HIDE DEF F, Begins
  <2>4. k[n] = F(n)[n] BY <2>1, <2>2, <2>3 DEF U
  <2> QED BY <2>4
<1> DEFINE f == [n \in Nat |-> F(n)[n]]
<1>9. f \in [Nat -> S]
  <2> HIDE DEF F
  <2> QED BY <1>7
<1>10. f[0] = a
  <2> HIDE DEF F
  <2> QED BY <1>7
<1>11. \A i \in Nat : f[i + 1] = g[i][f[i]]
  <2> TAKE i \in Nat
  <2>1. F(i + 1)[i + 1] = g[i][F(i + 1)[i]]
    <3>1. Begins(F(i + 1), i + 1)
      <4> HIDE DEF F, Begins
      <4> QED BY <1>7
    <3> HIDE DEF F
    <3> QED BY <3>1
  <2> HIDE DEF F
  <2> QED BY <2>1, <1>8
<1> HIDE DEF f
<1> QED BY <1>9, <1>10, <1>11 DEF Follows

LEMMA PlacesRec ==
  ASSUME NEW s, Len(s) \in Nat, \A i \in 1 .. Len(s) : ChunkSize(s[i]) \in Nat
  PROVE /\ Places(s) \in [1 .. Len(s) + 1 -> Nat] /\ Places(s)[1] = 0
        /\ \A i \in 1 .. Len(s) : Places(s)[i + 1] = Places(s)[i] + ChunkSize(s[i])
<1> DEFINE D == 1 .. Len(s) + 1
           Eq(f) == f = [i \in D |-> IF i = 1 THEN 0 ELSE f[i - 1] + ChunkSize(s[i - 1])]
           P == CHOOSE f : Eq(f)
           g == [i \in Nat |-> [x \in Nat |-> IF i + 1 \in 1 .. Len(s) THEN x + ChunkSize(s[i + 1]) ELSE x]]
<1>1. Places(s) = [i \in D |-> P[i]] BY DEF Places
<1>2. \E f : Eq(f)
  <2>1. StepsIn(g, Nat) BY DEF StepsIn
  <2>2. PICK h \in [Nat -> Nat] : h[0] = 0 /\ \A i \in Nat : h[i + 1] = g[i][h[i]]
    <3> HIDE DEF g
    <3>1. 0 \in Nat OBVIOUS
    <3>2. \E h : Follows(h, Nat, 0, g) BY <2>1, <3>1, Recursion
    <3> QED BY <3>2 DEF Follows
  <2> DEFINE f == [i \in D |-> h[i - 1]]
  <2>3. ASSUME NEW i \in D PROVE f[i] = IF i = 1 THEN 0 ELSE f[i - 1] + ChunkSize(s[i - 1])
    <3>1. CASE i = 1 BY <2>2, <3>1
    <3>2. CASE i # 1
      <4>1. i - 1 \in D /\ i - 1 \in 1 .. Len(s) /\ i - 2 \in Nat /\ i - 2 + 1 = i - 1 BY <3>2
      <4>2. h[i - 1] = g[i - 2][h[i - 2]] BY <2>2, <4>1
      <4>3. g[i - 2][h[i - 2]] = h[i - 2] + ChunkSize(s[i - 1]) BY <2>2, <4>1
      <4> QED BY <4>1, <4>2, <4>3, <3>2
    <3> QED BY <3>1, <3>2
  <2>4. Eq(f) BY <2>3
  <2> QED BY <2>4
<1>3. Eq(P) BY <1>2
<1> HIDE DEF P
<1>4. \A i \in D : P[i] = IF i = 1 THEN 0 ELSE P[i - 1] + ChunkSize(s[i - 1])
  BY <1>3
<1>5. \A i \in D : Places(s)[i] = P[i] BY <1>1
<1>6. Places(s)[1] = 0 BY <1>4, <1>5
<1>7. ASSUME NEW i \in 1 .. Len(s) PROVE Places(s)[i + 1] = Places(s)[i] + ChunkSize(s[i])
  <2>1. i + 1 \in D /\ i \in D /\ i + 1 # 1 /\ i + 1 - 1 = i OBVIOUS
  <2> HIDE DEF D
  <2> QED BY <2>1, <1>4, <1>5
<1> DEFINE T == {n \in Nat : n + 1 \in D => P[n + 1] \in Nat}
<1>8. T = Nat
  <2>1. 0 \in T BY <1>4
  <2>2. ASSUME NEW n \in Nat, n \in T PROVE n + 1 \in T
    <3> SUFFICES ASSUME n + 1 + 1 \in D PROVE P[n + 1 + 1] \in Nat OBVIOUS
    <3>1. n + 1 \in D /\ n + 1 \in 1 .. Len(s) /\ n + 1 + 1 - 1 = n + 1 OBVIOUS
    <3>2. P[n + 1 + 1] = P[n + 1] + ChunkSize(s[n + 1]) BY <3>1, <1>4
    <3> QED BY <3>1, <3>2, <2>2
  <2>3. T \in SUBSET Nat OBVIOUS
  <2> HIDE DEF T
  <2> QED BY <2>1, <2>2, <2>3, Induction
<1>9. \A i \in D : P[i] \in Nat
  <2> TAKE i \in D
  <2>1. i - 1 \in T
    <3>1. i - 1 \in Nat OBVIOUS
    <3> HIDE DEF T
    <3> QED BY <1>8, <3>1
  <2>2. i - 1 + 1 = i OBVIOUS
  <2> QED BY <2>1, <2>2
<1> QED BY <1>1, <1>5, <1>6, <1>7, <1>9

-----------------------------------------------------------------------------
(* The inductive invariant of Lzma2Decoder.  Chunk i of stream s holds       *)
(* position p; i is 0 in front of the first byte.                            *)

At(s, p, i) ==
  /\ i \in 0 .. Len(s)
  /\ i = 0 => p = 0
  /\ i > 0 => Places(s)[i] < p /\ p <= Places(s)[i + 1]

(* What a chunk leaves of needInitLevel, and whether its control byte is     *)
(* right where it stands.                                                    *)
After(control, level) ==
  IF control = 1 THEN 192 ELSE IF control >= 128 THEN 0 ELSE level
ControlOK(s, i) ==
  LET c == s[i].control IN
  \/ c \in {0, 1}
  \/ c = 2 /\ Need(s)[i] < 224
  \/ c >= 128 /\ c >= Need(s)[i]

HeaderStates == {"CONTROL", "UNPACK0", "UNPACK1", "PACK0", "PACK1", "PROP"}
DataStates == {"DATA", "DATA_CONT"}

DecForm(d) ==
  d = [state |-> d.state, control |-> d.control, needInitLevel |-> d.needInitLevel,
       isExtraMode |-> d.isExtraMode, unpackSize |-> d.unpackSize,
       packSize |-> d.packSize, dicPos |-> d.dicPos, start |-> d.start,
       probs |-> d.probs]
DecTypeOK(d) ==
  /\ DecForm(d)
  /\ d.state \in HeaderStates \cup DataStates \cup {"FINISHED", "ERROR"}
  /\ d.needInitLevel \in {0, 192, 224}
  /\ d.unpackSize \in 0 .. 256 /\ d.packSize \in 0 .. 256
  /\ d.dicPos \in Nat /\ d.start \in 0 .. 2
  /\ d.probs \in BOOLEAN /\ d.isExtraMode \in BOOLEAN

Statuses == {"none", "needs_more_input", "finished_with_mark", "not_finished",
             "new_block", "new_chunk"}
CallForm(c) ==
  c = [pc |-> c.pc, kind |-> c.kind, limit |-> c.limit, from |-> c.from,
       size |-> c.size, end |-> c.end, mode |-> c.mode, curMode |-> c.curMode,
       res |-> c.res, status |-> c.status]
CallTypeOK(c) ==
  /\ CallForm(c)
  /\ c.status \in Statuses
  /\ c.pc \in {"idle", "decode", "parse", "return"}
  /\ c.kind \in {"dic", "buf", "parse"}
  /\ {c.mode, c.curMode} \subseteq {"any", "end"}
  /\ {c.size, c.from, c.limit, c.end} \subseteq Nat

(* Where the states of the automaton stand in chunk i, and what they know    *)
(* of its sizes.                                                             *)
Stage(s, d, p, i) ==
  LET c == s[i]  k == p - Places(s)[i]  h == Len(Header(c)) IN
  /\ d.state = "CONTROL" =>
       d.unpackSize = 0 /\ (i > 0 => p = Places(s)[i + 1] /\ c.control /= 0)
  /\ d.state /= "CONTROL" => i > 0
  /\ i > 0 /\ d.state /= "ERROR" => d.control = c.control
  /\ d.state = "FINISHED" => c.control = 0 /\ k = 1
  /\ d.state \in {"UNPACK0", "UNPACK1"} => d.unpackSize = 0 /\ c.control /= 0
  /\ d.state = "UNPACK0" => k = 1
  /\ d.state = "UNPACK1" => k = 2
  /\ d.state \in {"PACK0", "PACK1", "PROP", "DATA"} =>
       d.unpackSize = c.unpack /\ c.control /= 0
  /\ d.state \in {"PACK0", "PACK1", "PROP"} => c.control >= 128
  /\ d.state = "PACK0" => k = 3
  /\ d.state = "PACK1" => k = 4 /\ d.packSize = 0
  /\ d.state = "PROP" => k = 5 /\ d.packSize = c.pack /\ c.control >= 192
  /\ d.state = "DATA" => k = h /\ (c.control >= 128 => d.packSize = c.pack)
  /\ d.state = "DATA_CONT" =>
       /\ c.control /= 0
       /\ c.control < 128 => /\ d.unpackSize \in 1 .. c.unpack
                             /\ k = h + c.unpack - d.unpackSize
       /\ c.control >= 128 => /\ d.unpackSize \in 0 .. c.unpack
                              /\ d.packSize \in 0 .. c.pack
                              /\ k = h + c.pack - d.packSize

(* The level of resets, and the verdict on the chunks read so far.           *)
Levels(s, d, i) ==
  /\ d.state /= "ERROR" =>
       d.needInitLevel = IF i = 0 THEN 224 ELSE After(s[i].control, Need(s)[i])
  /\ i > 0 /\ d.state /= "ERROR" => ControlOK(s, i)
  /\ i > 0 /\ d.state \in DataStates \cup {"CONTROL"} => HeaderOK(s, i)
Passed(s, d, i, decodes) ==
  \A j \in 1 .. i :
    j < i \/ d.state = "CONTROL" =>
      HeaderOK(s, j) /\ IF decodes THEN DataOK(s[j]) ELSE HeadOK(s[j])

(* How much of the text of chunk i is there.                                 *)
Made(s, d, i) ==
  IF i > 0 /\ d.state \in DataStates \cup {"CONTROL"}
  THEN s[i].unpack - d.unpackSize ELSE 0
TextSoFar(s, d, t, i) ==
  /\ i = 0 => t = <<>>
  /\ i > 0 => \E m \in 0 .. s[i].unpack :
       /\ t = TextOf(s)[i - 1] \o Tokens(i, 0, m)
       /\ d.state /= "ERROR" => m = Made(s, d, i)
       /\ s[i].control = 0 => m = 0

(* What the LZMA decoder has seen and written of its chunk: it has not gone  *)
(* past an end mark or the end of its text.                                  *)
Seen(c, used, made) ==
  /\ used > 0 => c.head
  /\ made <= c.yield[used]
  /\ c.stop /= 0 => used <= c.stop
  /\ \A j \in InitSize .. used - 1 : c.yield[j] <= made
  /\ \A k \in InitSize .. used - 1 :
       c.yield[k] = c.unpack /\ (\A j \in InitSize .. k - 1 : c.yield[j] < c.unpack)
       => k \notin c.exact
DataSoFar(d, c) == Seen(c, c.pack - d.packSize, c.unpack - d.unpackSize)

(* The probabilities are those of the properties in force.                   *)
ProbsSoFar(s, d, i) ==
  /\ i > 0 /\ (s[i].control < 128 \/ d.state = "CONTROL") /\ d.needInitLevel = 0 => d.probs
  /\ i > 0 /\ s[i].control \in {128, 160} => d.probs
  /\ i > 0 /\ s[i].control >= 192 /\ d.state = "DATA_CONT" =>
       d.start \in {0, 2} /\ (d.start = 0 => d.probs)

Decoded(s, d, t, i) ==
  /\ TextSoFar(s, d, t, i)
  /\ i > 0 /\ d.state = "DATA_CONT" /\ s[i].control >= 128 => DataSoFar(d, s[i])
  /\ d.state /= "ERROR" => ProbsSoFar(s, d, i)
  /\ d.dicPos <= DicBufSize

Parsed(s, d, i) ==
  /\ d.start = 2
  /\ d.state = "ERROR" => ~HeaderOK(s, i) \/ ~HeadOK(s[i])
  /\ i = 0 => d.dicPos = 0
  /\ i > 0 /\ (\A j \in 1 .. i : ChunkOK(s, j)) =>
       d.dicPos = Reach(s, Places(s)[i]) + Made(s, d, i)
  /\ d.state \in {"UNPACK0", "UNPACK1", "PACK0", "PACK1", "PROP", "FINISHED"} => ~d.isExtraMode
  /\ i > 0 /\ d.state = "DATA_CONT" /\ s[i].control >= 128 =>
       /\ d.isExtraMode
       /\ d.packSize > 0 => d.unpackSize = s[i].unpack
       /\ s[i].head

(* The call in progress.                                                     *)
InCall(s, d, p, i, c) ==
  /\ c.pc = "decode" => c.kind /= "parse"
  /\ c.pc = "parse" => c.kind = "parse"
  /\ c.pc /= "idle" => p <= c.end /\ c.end <= Size(s)
  /\ c.kind /= "parse" /\ c.pc /= "idle" =>
       c.from <= d.dicPos /\ d.dicPos <= c.limit /\ c.limit <= DicBufSize
  /\ c.kind /= "parse" /\ d.state = "ERROR" =>
       /\ c.pc = "decode" => ~ChunkOK(s, i)
       /\ c.pc = "return" => c.res = "data"

(* What a result says.                                                       *)
Result(s, d, p, i, c) ==
  c.pc = "return" =>
    /\ c.status = "needs_more_input" => p = c.end
    /\ c.kind /= "parse" =>
         /\ c.status = "finished_with_mark" =>
              i > 0 /\ s[i].control = 0 /\ p = Places(s)[i + 1]
         /\ c.status = "not_finished" => c.limit = d.dicPos /\ c.curMode = "any"
         /\ c.status \in {"none", "new_block", "new_chunk"} =>
              /\ i > 0 /\ c.res = "data"
              /\ \/ ~ChunkOK(s, i)
                 \/ c.limit = d.dicPos /\ c.curMode = "end" /\ s[i].control /= 0
    /\ c.kind = "parse" =>
         /\ c.status = "new_block" =>
              /\ i > 0 /\ p = Places(s)[i] + 1
              /\ s[i].control = 1 \/ s[i].control >= 224
         /\ c.status = "new_chunk" =>
              /\ i > 0 /\ p = Places(s)[i] + Len(Header(s[i]))
              /\ d.unpackSize = s[i].unpack
         /\ c.status = "finished_with_mark" =>
              i > 0 /\ s[i].control = 0 /\ p = Places(s)[i] + 1
         /\ c.status = "not_finished" => c.size = 0
         /\ c.status = "none" =>
              i > 0 /\ (~HeaderOK(s, i) \/ ~HeadOK(s[i]))

Here(s, d, p, t, i, decodes) ==
  /\ At(s, p, i) /\ Stage(s, d, p, i) /\ Levels(s, d, i) /\ Passed(s, d, i, decodes)
  /\ decodes => Decoded(s, d, t, i)
  /\ ~decodes => Parsed(s, d, i)
Standing(s, d, p, t, i, c) ==
  /\ Here(s, d, p, t, i, c.kind /= "parse")
  /\ InCall(s, d, p, i, c) /\ Result(s, d, p, i, c)

Lzma2Inv ==
  /\ stream \in ChunkStreams /\ src \in Nat /\ DecTypeOK(dec) /\ CallTypeOK(call)
  /\ \E i \in 0 .. Len(stream) : Standing(stream, dec, src, text, i, call)

LEMMA SizesAreNat ==
  ASSUME NEW c, c.unpack \in 1 .. 256, c.pack \in 1 .. 256
  PROVE /\ c.unpack \in Nat /\ 1 <= c.unpack /\ c.unpack <= 256
        /\ c.pack \in Nat /\ 1 <= c.pack /\ c.pack <= 256
OBVIOUS

LEMMA ChunkTypes ==
  ASSUME NEW s \in ChunkStreams
  PROVE /\ Len(s) \in Nat
        /\ \A i \in 1 .. Len(s) :
             /\ s[i].unpack \in Nat /\ 1 <= s[i].unpack /\ s[i].unpack <= 256
             /\ s[i].pack \in Nat /\ 1 <= s[i].pack /\ s[i].pack <= 256
             /\ s[i].control \in {0, 1, 2, 3, 128, 160, 192, 224}
             /\ s[i].unpack \in 1 .. 256 /\ s[i].pack \in 1 .. 256
             /\ s[i].prop \in BOOLEAN /\ s[i].head \in BOOLEAN /\ s[i].clean \in BOOLEAN
             /\ s[i].control >= 128 =>
                  /\ \A k \in 0 .. s[i].pack : /\ s[i].yield[k] \in Nat
                                               /\ k < InitSize => s[i].yield[k] = 0
                  /\ \A k \in 0 .. s[i].pack : \A j \in 0 .. k :
                       s[i].yield[j] <= s[i].yield[k]
                  /\ s[i].stop \in {0} \cup InitSize .. s[i].pack
<1>1. /\ Len(s) \in Nat
      /\ \A i \in 1 .. Len(s) :
           /\ s[i].control \in {0, 1, 2, 3, 128, 160, 192, 224}
           /\ s[i].unpack \in 1 .. 256 /\ s[i].pack \in 1 .. 256
           /\ s[i].prop \in BOOLEAN /\ s[i].head \in BOOLEAN /\ s[i].clean \in BOOLEAN
           /\ s[i].control >= 128 =>
                /\ \A k \in 0 .. s[i].pack : /\ s[i].yield[k] \in Nat
                                             /\ k < InitSize => s[i].yield[k] = 0
                /\ \A k \in 0 .. s[i].pack : \A j \in 0 .. k :
                     s[i].yield[j] <= s[i].yield[k]
                /\ s[i].stop \in {0} \cup InitSize .. s[i].pack
  BY ChunkAssumption
<1>2. ASSUME NEW i \in 1 .. Len(s)
      PROVE /\ s[i].unpack \in Nat /\ 1 <= s[i].unpack /\ s[i].unpack <= 256
            /\ s[i].pack \in Nat /\ 1 <= s[i].pack /\ s[i].pack <= 256
  <2>1. s[i].unpack \in 1 .. 256 /\ s[i].pack \in 1 .. 256 BY <1>1
  <2>2. PICK c : c = s[i] OBVIOUS
  <2>3. c.unpack \in 1 .. 256 /\ c.pack \in 1 .. 256 BY <2>1, <2>2
  <2>4. /\ c.unpack \in Nat /\ 1 <= c.unpack /\ c.unpack <= 256
        /\ c.pack \in Nat /\ 1 <= c.pack /\ c.pack <= 256
    BY <2>3, SizesAreNat, Zenon
  <2> QED BY <2>2, <2>4, Zenon
<1> QED BY <1>1, <1>2

LEMMA Limits == DicBufSize \in Nat \ {0} /\ InitSize \in Nat \ {0} /\ RequiredMax \in Nat \ {0}
BY LimitAssumption

LEMMA Join32 ==
  ASSUME NEW a \in Int, NEW b \in Int, NEW c \in Int, NEW d \in Int, NEW e \in Int
  PROVE <<a, b, c>> \o <<d, e>> = <<a, b, c, d, e>>
<1>1. <<a, b, c>> \in Seq(Int) /\ <<d, e>> \in Seq(Int) /\ <<a, b, c, d, e>> \in Seq(Int)
  OBVIOUS
<1>2. Len(<<a, b, c>> \o <<d, e>>) = 5 BY <1>1, ConcatProperties
<1>3. \A i \in 1 .. 5 : (<<a, b, c>> \o <<d, e>>)[i] = <<a, b, c, d, e>>[i]
  BY <1>1, ConcatProperties
<1> QED BY <1>1, <1>2, <1>3, SeqEqual, ConcatProperties

LEMMA HeaderForm ==
  ASSUME NEW c, c.control \in {0, 1, 2, 3, 128, 160, 192, 224},
         c.unpack \in 1 .. 256, c.pack \in 1 .. 256
  PROVE /\ c.control = 0 => Header(c) = <<0>>
        /\ c.control \in 1 .. 3 => Header(c) = <<c.control, 0, c.unpack - 1>>
        /\ c.control \in {128, 160} =>
             Header(c) = <<c.control, 0, c.unpack - 1, 0, c.pack - 1>>
        /\ c.control \in {192, 224} =>
             /\ Len(Header(c)) = 6
             /\ \A i \in 1 .. 5 :
                  Header(c)[i] = <<c.control, 0, c.unpack - 1, 0, c.pack - 1>>[i]
             /\ Header(c)[6] = IF c.prop THEN 93 ELSE 225
<1>1. ASSUME c.control = 0 PROVE Header(c) = <<0>> BY <1>1 DEF Header
<1> DEFINE x == c.control  y == c.unpack - 1  z == c.pack - 1
           w == IF c.prop THEN 93 ELSE 225
<1>0. 0 \in Int /\ x \in Int /\ y \in Int /\ z \in Int /\ w \in Int OBVIOUS
<1>5. Header(c) = IF x = 0 THEN <<0>>
                  ELSE <<x, 0, y>> \o (IF x >= 128 THEN <<0, z>> ELSE <<>>)
                                   \o (IF x >= 192 THEN <<w>> ELSE <<>>)
  BY DEF Header
<1>6. x \in {0, 1, 2, 3, 128, 160, 192, 224} OBVIOUS
<1> HIDE DEF x, y, z, w
<1>2. ASSUME x \in 1 .. 3 PROVE Header(c) = <<x, 0, y>>
  <2>1. <<x, 0, y>> \o <<>> = <<x, 0, y>> OBVIOUS
  <2>2. ~(x >= 128) /\ ~(x >= 192) /\ x # 0 BY <1>2
  <2> QED BY <2>1, <2>2, <1>5
<1>3. ASSUME x \in {128, 160} PROVE Header(c) = <<x, 0, y, 0, z>>
  <2>1. <<x, 0, y>> \o <<0, z>> = <<x, 0, y, 0, z>> BY <1>0, Join32
  <2>2. <<x, 0, y, 0, z>> \o <<>> = <<x, 0, y, 0, z>> OBVIOUS
  <2>3. x >= 128 /\ ~(x >= 192) /\ x # 0 BY <1>3
  <2> QED BY <2>1, <2>2, <2>3, <1>5
<1>4. ASSUME x \in {192, 224}
      PROVE /\ Len(Header(c)) = 6 /\ Header(c)[6] = w
            /\ \A i \in 1 .. 5 : Header(c)[i] = <<x, 0, y, 0, z>>[i]
  <2>1. <<x, 0, y>> \o <<0, z>> = <<x, 0, y, 0, z>> BY <1>0, Join32
  <2>2. x >= 128 /\ x >= 192 /\ x # 0 BY <1>4
  <2>3. Header(c) = <<x, 0, y, 0, z>> \o <<w>> BY <2>1, <2>2, <1>5
  <2>4. /\ <<x, 0, y, 0, z>> \in Seq(Int) /\ <<w>> \in Seq(Int)
        /\ Len(<<x, 0, y, 0, z>>) = 5 /\ Len(<<w>>) = 1 /\ <<w>>[1] = w
    BY <1>0
  <2> HIDE DEF w
  <2>5. PICK t : t = <<x, 0, y, 0, z>> OBVIOUS
  <2>6. PICK u : u = <<w>> OBVIOUS
  <2>7. /\ Len(t \o u) = 6 /\ \A i \in 1 .. 5 : (t \o u)[i] = t[i]
        /\ (t \o u)[6] = u[1]
    BY <2>4, <2>5, <2>6, ConcatProperties
  <2> QED BY <2>3, <2>4, <2>5, <2>6, <2>7
<1> QED BY <1>1, <1>2, <1>3, <1>4 DEF x, y, z, w

LEMMA SizeOf ==
  ASSUME NEW c, c.control \in {0, 1, 2, 3, 128, 160, 192, 224},
         c.unpack \in 1 .. 256, c.pack \in 1 .. 256
  PROVE /\ Len(Header(c)) = IF c.control = 0 THEN 1 ELSE IF c.control < 128 THEN 3
                            ELSE IF c.control < 192 THEN 5 ELSE 6
        /\ DataSize(c) = IF c.control = 0 THEN 0 ELSE IF c.control < 128 THEN c.unpack
                         ELSE c.pack
        /\ ChunkSize(c) = Len(Header(c)) + DataSize(c) /\ ChunkSize(c) \in Nat \ {0}
<1>1. CASE c.control = 0
  <2>1. Len(Header(c)) = 1 BY <1>1, HeaderForm
  <2>2. DataSize(c) = 0 BY <1>1 DEF DataSize
  <2> QED BY <1>1, <2>1, <2>2 DEF ChunkSize
<1>2. CASE c.control \in 1 .. 3
  <2>1. Len(Header(c)) = 3 BY <1>2, HeaderForm
  <2>2. DataSize(c) = c.unpack BY <1>2 DEF DataSize
  <2> QED BY <1>2, <2>1, <2>2 DEF ChunkSize
<1>3. CASE c.control \in {128, 160}
  <2>1. Len(Header(c)) = 5 BY <1>3, HeaderForm
  <2>2. DataSize(c) = c.pack BY <1>3 DEF DataSize
  <2> QED BY <1>3, <2>1, <2>2 DEF ChunkSize
<1>4. CASE c.control \in {192, 224}
  <2>1. Len(Header(c)) = 6 BY <1>4, HeaderForm
  <2>2. DataSize(c) = c.pack BY <1>4 DEF DataSize
  <2> QED BY <1>4, <2>1, <2>2 DEF ChunkSize
<1> QED BY <1>1, <1>2, <1>3, <1>4

LEMMA HeaderSize ==
  ASSUME NEW s \in ChunkStreams, NEW i \in 1 .. Len(s)
  PROVE /\ Len(Header(s[i])) =
             IF s[i].control = 0 THEN 1 ELSE IF s[i].control < 128 THEN 3
             ELSE IF s[i].control < 192 THEN 5 ELSE 6
        /\ DataSize(s[i]) = IF s[i].control = 0 THEN 0
                            ELSE IF s[i].control < 128 THEN s[i].unpack ELSE s[i].pack
        /\ ChunkSize(s[i]) = Len(Header(s[i])) + DataSize(s[i])
        /\ ChunkSize(s[i]) \in Nat \ {0}
<1>1. /\ s[i].control \in {0, 1, 2, 3, 128, 160, 192, 224}
      /\ s[i].unpack \in 1 .. 256 /\ s[i].pack \in 1 .. 256
  BY ChunkTypes
<1>2. PICK c : c = s[i] OBVIOUS
<1>3. /\ c.control \in {0, 1, 2, 3, 128, 160, 192, 224}
      /\ c.unpack \in 1 .. 256 /\ c.pack \in 1 .. 256
  BY <1>1, <1>2
<1>4. /\ Len(Header(c)) = IF c.control = 0 THEN 1 ELSE IF c.control < 128 THEN 3
                            ELSE IF c.control < 192 THEN 5 ELSE 6
      /\ DataSize(c) = IF c.control = 0 THEN 0 ELSE IF c.control < 128 THEN c.unpack
                       ELSE c.pack
      /\ ChunkSize(c) = Len(Header(c)) + DataSize(c) /\ ChunkSize(c) \in Nat \ {0}
  BY <1>3, SizeOf
<1> QED BY <1>2, <1>4

(* Where the chunks lie.                                                     *)
LEMMA PlacesAre ==
  ASSUME NEW s \in ChunkStreams
  PROVE /\ Places(s) \in [1 .. Len(s) + 1 -> Nat] /\ Places(s)[1] = 0
        /\ \A i \in 1 .. Len(s) : Places(s)[i + 1] = Places(s)[i] + ChunkSize(s[i])
<1>1. Len(s) \in Nat BY ChunkTypes
<1>2. \A i \in 1 .. Len(s) : ChunkSize(s[i]) \in Nat BY HeaderSize
<1> QED BY <1>1, <1>2, PlacesRec

LEMMA PlacesGrow ==
  ASSUME NEW s \in ChunkStreams, NEW i \in 1 .. Len(s), NEW j \in i + 1 .. Len(s) + 1
  PROVE Places(s)[i + 1] <= Places(s)[j]
<1> DEFINE T == {n \in Nat : i + 1 + n <= Len(s) + 1 => Places(s)[i + 1] <= Places(s)[i + 1 + n]}
<1>0. Len(s) \in Nat BY ChunkTypes
<1>1. T \in SUBSET Nat OBVIOUS
<1>2. 0 \in T
  <2>1. Places(s)[i + 1] \in Nat BY PlacesAre, <1>0
  <2> QED BY <2>1
<1>3. ASSUME NEW n \in Nat, n \in T PROVE n + 1 \in T
  <2> SUFFICES ASSUME i + 1 + (n + 1) <= Len(s) + 1
               PROVE Places(s)[i + 1] <= Places(s)[i + 1 + (n + 1)]
    OBVIOUS
  <2> DEFINE k == i + 1 + n
  <2>1. k \in 1 .. Len(s) /\ i + 1 + (n + 1) = k + 1 /\ i + 1 \in 1 .. Len(s) + 1 BY <1>0
  <2>2. Places(s)[k + 1] = Places(s)[k] + ChunkSize(s[k]) BY PlacesAre, <2>1
  <2>3. Places(s)[k] \in Nat /\ Places(s)[i + 1] \in Nat /\ ChunkSize(s[k]) \in Nat
    <3>1. k \in 1 .. Len(s) + 1 BY <2>1, <1>0
    <3> HIDE DEF k
    <3> QED BY PlacesAre, HeaderSize, <2>1, <3>1
  <2>4. Places(s)[i + 1] <= Places(s)[k] BY <1>3, <2>1, <1>0
  <2> QED BY <2>1, <2>2, <2>3, <2>4
<1> HIDE DEF T
<1>4. T = Nat BY <1>1, <1>2, <1>3, Induction
<1>5. j - (i + 1) \in T BY <1>4, <1>0
<1> QED BY <1>5, <1>0 DEF T

LEMMA Unique ==
  ASSUME NEW s \in ChunkStreams, NEW p \in Nat, NEW i, NEW j, At(s, p, i), At(s, p, j)
  PROVE i = j
<1>0. Len(s) \in Nat /\ i \in 0 .. Len(s) /\ j \in 0 .. Len(s) BY ChunkTypes DEF At
<1>1. \A k \in 1 .. Len(s) + 1 : Places(s)[k] \in Nat BY PlacesAre
<1>2. ASSUME NEW a \in 0 .. Len(s), NEW b \in 0 .. Len(s), At(s, p, a), At(s, p, b), a < b
      PROVE FALSE
  <2>1. b \in 1 .. Len(s) /\ Places(s)[b] < p /\ Places(s)[b] \in Nat BY <1>0, <1>1, <1>2 DEF At
  <2>2. CASE a = 0 BY <2>1, <2>2, <1>2 DEF At
  <2>3. CASE a # 0
    <3>1. a \in 1 .. Len(s) /\ b \in a + 1 .. Len(s) + 1 BY <2>3, <1>2, <1>0
    <3>2. Places(s)[a + 1] <= Places(s)[b] BY <3>1, PlacesGrow
    <3>3. p <= Places(s)[a + 1] /\ Places(s)[a + 1] \in Nat BY <3>1, <1>1, <1>0, <1>2 DEF At
    <3> QED BY <3>2, <3>3, <2>1
  <2> QED BY <2>2, <2>3
<1> QED BY <1>0, <1>2

LEMMA PlacesType ==
  ASSUME NEW s \in ChunkStreams
  PROVE /\ Len(s) \in Nat /\ Size(s) \in Nat
        /\ \A i \in 1 .. Len(s) + 1 : Places(s)[i] \in Nat
        /\ \A i \in 1 .. Len(s) : Places(s)[i] \in Nat /\ Places(s)[i + 1] \in Nat
                                  /\ Places(s)[i + 1] <= Size(s)
<1>1. Len(s) \in Nat BY ChunkTypes
<1>2. \A i \in 1 .. Len(s) + 1 : Places(s)[i] \in Nat BY PlacesAre
<1>3. Size(s) \in Nat BY <1>1, <1>2 DEF Size
<1>4. ASSUME NEW i \in 1 .. Len(s)
      PROVE Places(s)[i] \in Nat /\ Places(s)[i + 1] \in Nat /\ Places(s)[i + 1] <= Size(s)
  <2>1. i \in 1 .. Len(s) + 1 /\ i + 1 \in 1 .. Len(s) + 1 BY <1>1
  <2>2. CASE i = Len(s) BY <2>1, <2>2, <1>2 DEF Size
  <2>3. CASE i # Len(s)
    <3>1. Len(s) + 1 \in i + 1 .. Len(s) + 1 BY <1>1
    <3> QED BY <3>1, <2>1, <1>2, PlacesGrow DEF Size
  <2> QED BY <2>2, <2>3
<1> QED BY <1>1, <1>2, <1>3, <1>4

LEMMA AtAdvance ==
  ASSUME NEW s \in ChunkStreams, NEW p \in Nat, NEW i \in 1 .. Len(s), At(s, p, i),
         NEW q \in Nat, p <= q, q <= Places(s)[i + 1]
  PROVE At(s, q, i)
<1>1. Places(s)[i] \in Nat /\ Places(s)[i] < p BY PlacesType DEF At
<1>2. Places(s)[i] < q BY <1>1
<1> QED BY <1>2 DEF At

LEMMA AtNext ==
  ASSUME NEW s \in ChunkStreams, NEW p \in Nat, NEW i, At(s, p, i),
         i > 0 => p = Places(s)[i + 1], p < Size(s)
  PROVE /\ i \in Nat /\ i + 1 \in 1 .. Len(s) /\ p = Places(s)[i + 1]
        /\ At(s, p + 1, i + 1)
<1>1. Len(s) \in Nat /\ i \in 0 .. Len(s) BY ChunkTypes DEF At
<1>2. p = Places(s)[i + 1] BY <1>1, PlacesAre DEF At
<1>3. i # Len(s) BY <1>1, <1>2, PlacesType DEF Size
<1>4. i + 1 \in 1 .. Len(s) BY <1>1, <1>3
<1>5. Places(s)[(i + 1) + 1] = Places(s)[i + 1] + ChunkSize(s[i + 1]) BY <1>4, PlacesAre
<1>6. ChunkSize(s[i + 1]) \in Nat \ {0} BY <1>4, HeaderSize
<1>7. Places(s)[i + 1] \in Nat BY <1>4, PlacesType
<1>8. Places(s)[i + 1] < p + 1 /\ p + 1 <= Places(s)[(i + 1) + 1] BY <1>2, <1>5, <1>6, <1>7
<1> QED BY <1>1, <1>2, <1>4, <1>8 DEF At

LEMMA ByteIs ==
  ASSUME NEW s \in ChunkStreams, NEW i \in 1 .. Len(s), NEW k \in Nat, k < ChunkSize(s[i])
  PROVE ByteAt(s, Places(s)[i] + k) =
          IF k < Len(Header(s[i])) THEN Header(s[i])[k + 1]
          ELSE IF k = Len(Header(s[i])) /\ ~IsCopy(s[i]) /\ s[i].head THEN 0 ELSE 1
<1> DEFINE p == Places(s)[i] + k
           In(j) == Places(s)[j] <= p /\ p < Places(s)[j + 1]
           n == CHOOSE j \in 1 .. Len(s) : In(j)
<1>1. Places(s)[i + 1] = Places(s)[i] + ChunkSize(s[i]) BY PlacesAre
<1>2. Places(s)[i] \in Nat /\ ChunkSize(s[i]) \in Nat BY PlacesType, HeaderSize
<1>3. In(i) BY <1>1, <1>2
<1>4. \A j \in 1 .. Len(s) : In(j) => j = i
  <2> TAKE j \in 1 .. Len(s)
  <2> HAVE In(j)
  <2>1. At(s, p + 1, i)
    <3>1. Places(s)[i] < p + 1 /\ p + 1 <= Places(s)[i + 1] BY <1>1, <1>2
    <3>2. i \in 0 .. Len(s) /\ i # 0 BY PlacesType
    <3> QED BY <3>1, <3>2 DEF At
  <2>2. At(s, p + 1, j)
    <3>0. Places(s)[j] \in Nat /\ Places(s)[j + 1] \in Nat BY PlacesType
    <3>1. Places(s)[j] < p + 1 /\ p + 1 <= Places(s)[j + 1] BY <1>2, <3>0
    <3>2. j \in 0 .. Len(s) /\ j # 0 BY PlacesType
    <3> QED BY <3>1, <3>2 DEF At
  <2>3. p + 1 \in Nat BY <1>2
  <2> QED BY <2>1, <2>2, <2>3, Unique
<1>5. n = i
  <2>1. n \in 1 .. Len(s) /\ In(n)
    <3> HIDE DEF In
    <3> QED BY <1>3
  <2> HIDE DEF In
  <2> QED BY <2>1, <1>4
<1>6. ByteAt(s, p) = IF p - Places(s)[n] < Len(Header(s[n])) THEN Header(s[n])[p - Places(s)[n] + 1]
        ELSE IF p - Places(s)[n] = Len(Header(s[n])) /\ ~IsCopy(s[n]) /\ s[n].head THEN 0 ELSE 1
  BY DEF ByteAt
<1>7. p - Places(s)[i] = k BY <1>2
<1> HIDE DEF n, p
<1> QED BY <1>5, <1>6, <1>7 DEF p

LEMMA NeedIs ==
  ASSUME NEW s \in ChunkStreams
  PROVE /\ 1 <= Len(s) => Need(s)[1] = 224
        /\ \A i \in 1 .. Len(s) : Need(s)[i] \in {0, 192, 224}
        /\ \A i \in 1 .. Len(s) - 1 : Need(s)[i + 1] = After(s[i].control, Need(s)[i])
<1> DEFINE D == 1 .. Len(s)
           S == {0, 192, 224}
           Eq(f) == f = [i \in D |-> IF i = 1 THEN 224
                                     ELSE IF s[i - 1].control = 1 THEN 192
                                     ELSE IF s[i - 1].control >= 128 THEN 0 ELSE f[i - 1]]
           P == CHOOSE f : Eq(f)
           g == [i \in Nat |-> [x \in S |-> After(s[i + 1].control, x)]]
<1>0. Len(s) \in Nat BY ChunkTypes
<1>1. Need(s) = P BY DEF Need
<1>2. \E f \in [D -> S] : Eq(f)
  <2>1. StepsIn(g, S) BY DEF StepsIn, After
  <2>2. PICK h : Follows(h, S, 224, g)
    <3> HIDE DEF g
    <3>1. 224 \in S OBVIOUS
    <3> HIDE DEF S
    <3> QED BY <2>1, <3>1, Recursion
  <2>3. h \in [Nat -> S] /\ h[0] = 224 /\ \A i \in Nat : h[i + 1] = g[i][h[i]]
    BY <2>2 DEF Follows
  <2> DEFINE f == [i \in D |-> h[i - 1]]
  <2>4. ASSUME NEW i \in D
        PROVE f[i] = IF i = 1 THEN 224
                     ELSE IF s[i - 1].control = 1 THEN 192
                     ELSE IF s[i - 1].control >= 128 THEN 0 ELSE f[i - 1]
    <3>1. CASE i = 1 BY <2>3, <3>1
    <3>2. CASE i # 1
      <4>1. i - 1 \in D /\ i - 2 \in Nat /\ i - 2 + 1 = i - 1 BY <3>2
      <4>2. h[i - 1] = g[i - 2][h[i - 2]] BY <2>3, <4>1
      <4>3. h[i - 2] \in S BY <2>3, <4>1
      <4>4. g[i - 2][h[i - 2]] = After(s[i - 1].control, h[i - 2]) BY <4>1, <4>3
      <4>5. f[i] = h[i - 1] /\ f[i - 1] = h[i - 2] BY <4>1
      <4> HIDE DEF f, g, S
      <4> QED BY <4>2, <4>4, <4>5, <3>2 DEF After
    <3> QED BY <3>1, <3>2
  <2>5. f \in [D -> S] BY <2>3
  <2>6. Eq(f) BY <2>4
  <2> HIDE DEF f, Eq
  <2> QED BY <2>5, <2>6
<1>3. PICK f \in [D -> S] : Eq(f) BY <1>2
<1>4. Eq(P)
  <2> HIDE DEF Eq
  <2> QED BY <1>3
<1> DEFINE T == {n \in Nat : n + 1 \in D => P[n + 1] \in S}
<1> HIDE DEF P
<1>5. \A i \in D : P[i] = IF i = 1 THEN 224
                          ELSE IF s[i - 1].control = 1 THEN 192
                          ELSE IF s[i - 1].control >= 128 THEN 0 ELSE P[i - 1]
  BY <1>4
<1>6. \A i \in 1 .. Len(s) - 1 : P[i + 1] = After(s[i].control, P[i])
  <2> TAKE i \in 1 .. Len(s) - 1
  <2>1. i + 1 \in D /\ i + 1 # 1 /\ i + 1 - 1 = i BY <1>0
  <2> QED BY <2>1, <1>5 DEF After
<1>7. T = Nat
  <2>1. T \in SUBSET Nat OBVIOUS
  <2>2. 0 \in T BY <1>5
  <2>3. ASSUME NEW n \in Nat, n \in T PROVE n + 1 \in T
    <3> SUFFICES ASSUME n + 1 + 1 \in D PROVE P[n + 1 + 1] \in S OBVIOUS
    <3>1. n + 1 \in 1 .. Len(s) - 1 /\ n + 1 \in D BY <1>0
    <3>2. P[n + 1 + 1] = After(s[n + 1].control, P[n + 1]) BY <3>1, <1>6
    <3> QED BY <3>1, <3>2, <2>3 DEF After
  <2> HIDE DEF T
  <2> QED BY <2>1, <2>2, <2>3, Induction
<1>8. \A i \in D : P[i] \in S
  <2> TAKE i \in D
  <2>1. i - 1 \in Nat /\ i - 1 + 1 = i OBVIOUS
  <2>2. i - 1 \in T
    <3> HIDE DEF T
    <3> QED BY <1>7, <2>1
  <2> QED BY <2>1, <2>2
<1>9. 1 <= Len(s) => P[1] = 224 BY <1>5, <1>0
<1> QED BY <1>1, <1>6, <1>8, <1>9

(* The text of the chunks.                                                   *)
Bytes == Nat \X Nat
Adds(s, i) == IF s[i].control = 0 THEN <<>> ELSE Tokens(i, 0, s[i].unpack)

LEMMA Assoc ==
  ASSUME NEW a \in Seq(Bytes), NEW b \in Seq(Bytes), NEW c \in Seq(Bytes)
  PROVE /\ (a \o b) \o c = a \o (b \o c)
        /\ a \o (b \o c) \in Seq(Bytes) /\ a \o b \in Seq(Bytes)
BY ConcatAssociative, ConcatProperties

LEMMA TokensAre ==
  ASSUME NEW i \in Nat, NEW from \in Nat, NEW n \in Nat
  PROVE /\ Tokens(i, from, n) \in Seq(Bytes) /\ Len(Tokens(i, from, n)) = n
        /\ \A k \in 1 .. n : Tokens(i, from, n)[k] = <<i, from + k>>
BY DEF Tokens, Bytes

LEMMA TokensJoin ==
  ASSUME NEW i \in Nat, NEW m \in Nat, NEW n \in Nat
  PROVE Tokens(i, 0, m) \o Tokens(i, m, n) = Tokens(i, 0, m + n)
<1> DEFINE a == Tokens(i, 0, m)  b == Tokens(i, m, n)  c == Tokens(i, 0, m + n)
<1>1. /\ a \in Seq(Bytes) /\ Len(a) = m /\ \A k \in 1 .. m : a[k] = <<i, 0 + k>>
  BY TokensAre
<1>2. /\ b \in Seq(Bytes) /\ Len(b) = n /\ \A k \in 1 .. n : b[k] = <<i, m + k>>
  BY TokensAre
<1>3. /\ c \in Seq(Bytes) /\ Len(c) = m + n /\ \A k \in 1 .. m + n : c[k] = <<i, 0 + k>>
  <2>1. m + n \in Nat /\ 0 \in Nat OBVIOUS
  <2> QED BY <2>1, TokensAre
<1> HIDE DEF a, b, c
<1>0. PICK v : v = a \o b OBVIOUS
<1>4. v \in Seq(Bytes) /\ Len(v) = m + n
  BY <1>0, <1>1, <1>2, ConcatProperties
<1>5. \A k \in 1 .. m + n : v[k] = IF k <= m THEN a[k] ELSE b[k - m]
  BY <1>0, <1>1, <1>2, ConcatProperties
<1>6. ASSUME NEW k \in 1 .. m + n PROVE v[k] = c[k]
  <2>1. CASE k <= m
    <3>1. k \in 1 .. m BY <2>1
    <3>2. v[k] = a[k] /\ a[k] = <<i, 0 + k>> /\ c[k] = <<i, 0 + k>>
      BY <3>1, <2>1, <1>1, <1>3, <1>5
    <3> QED BY <3>2
  <2>2. CASE k > m
    <3>1. k - m \in 1 .. n /\ m + (k - m) = k /\ 0 + k = k BY <2>2
    <3>2. b[k - m] = <<i, m + (k - m)>> BY <3>1, <1>2
    <3>3. c[k] = <<i, 0 + k>> BY <1>3
    <3>4. v[k] = b[k - m] BY <2>2, <1>5
    <3> QED BY <3>1, <3>2, <3>3, <3>4, Zenon
  <2> QED BY <2>1, <2>2
<1>7. v = c BY <1>3, <1>4, <1>6, SeqEqual
<1> QED BY <1>0, <1>7 DEF a, b, c

LEMMA AddsType ==
  ASSUME NEW s \in ChunkStreams, NEW i \in 1 .. Len(s)
  PROVE Adds(s, i) \in Seq(Bytes)
<1>1. s[i].unpack \in Nat /\ i \in Nat BY ChunkTypes
<1>2. Tokens(i, 0, s[i].unpack) \in Seq(Bytes) BY <1>1, TokensAre
<1> QED BY <1>2 DEF Adds

LEMMA TextIs ==
  ASSUME NEW s \in ChunkStreams
  PROVE /\ TextOf(s)[0] = <<>>
        /\ \A i \in 0 .. Len(s) : TextOf(s)[i] \in Seq(Bytes)
        /\ \A i \in 1 .. Len(s) : TextOf(s)[i] = TextOf(s)[i - 1] \o Adds(s, i)
<1> DEFINE D == 0 .. Len(s)
           S == Seq(Bytes)
           Eq(f) == f = [i \in D |-> IF i = 0 THEN <<>>
                                     ELSE f[i - 1] \o (IF s[i].control = 0 THEN <<>>
                                                       ELSE Tokens(i, 0, s[i].unpack))]
           P == CHOOSE f : Eq(f)
           g == [i \in Nat |-> [x \in S |-> IF i + 1 \in D THEN x \o Adds(s, i + 1) ELSE x]]
<1>0. Len(s) \in Nat BY ChunkTypes
<1>1. TextOf(s) = P BY DEF TextOf
<1>2. \E f : Eq(f)
  <2>1. StepsIn(g, S)
    <3>1. ASSUME NEW i \in Nat, NEW x \in S, i + 1 \in D PROVE x \o Adds(s, i + 1) \in S
      <4>1. i + 1 \in 1 .. Len(s) BY <3>1
      <4>2. Adds(s, i + 1) \in Seq(Bytes) BY <4>1, AddsType
      <4> QED BY <4>2, ConcatProperties
    <3> HIDE DEF S, D
    <3> QED BY <3>1 DEF StepsIn
  <2>2. PICK h : Follows(h, S, <<>>, g)
    <3> HIDE DEF g
    <3>1. <<>> \in S OBVIOUS
    <3> HIDE DEF S
    <3> QED BY <2>1, <3>1, Recursion
  <2>3. h \in [Nat -> S] /\ h[0] = <<>> /\ \A i \in Nat : h[i + 1] = g[i][h[i]]
    BY <2>2 DEF Follows
  <2> DEFINE f == [i \in D |-> h[i]]
  <2>4. ASSUME NEW i \in D
        PROVE f[i] = IF i = 0 THEN <<>>
                     ELSE f[i - 1] \o (IF s[i].control = 0 THEN <<>>
                                       ELSE Tokens(i, 0, s[i].unpack))
    <3>1. CASE i = 0 BY <2>3, <3>1
    <3>2. CASE i # 0
      <4>1. i \in D /\ i - 1 \in D /\ i - 1 \in Nat /\ i - 1 + 1 = i BY <3>2
      <4>2. h[i] = g[i - 1][h[i - 1]] BY <2>3, <4>1
      <4>3. h[i - 1] \in S BY <2>3, <4>1
      <4>4. g[i - 1][h[i - 1]] = h[i - 1] \o Adds(s, i)
        <5> HIDE DEF S, D
        <5> QED BY <4>1, <4>3
      <4>5. f[i] = h[i] /\ f[i - 1] = h[i - 1] BY <4>1
      <4> HIDE DEF f, g, S
      <4> QED BY <4>2, <4>4, <4>5, <3>2 DEF Adds
    <3> QED BY <3>1, <3>2
  <2>5. Eq(f) BY <2>4
  <2> QED BY <2>5
<1>3. Eq(P) BY <1>2
<1> HIDE DEF P
<1>4. P[0] = <<>> BY <1>3, <1>0
<1>5. ASSUME NEW i \in 1 .. Len(s) PROVE P[i] = P[i - 1] \o Adds(s, i)
  <2>1. i \in D /\ i # 0 OBVIOUS
  <2> QED BY <2>1, <1>3 DEF Adds
<1> DEFINE T == {n \in Nat : n \in D => P[n] \in S}
<1>6. T = Nat
  <2>1. T \in SUBSET Nat OBVIOUS
  <2>2. 0 \in T
    <3>1. P[0] \in S BY <1>4
    <3> QED BY <3>1
  <2>3. ASSUME NEW n \in Nat, n \in T PROVE n + 1 \in T
    <3> SUFFICES ASSUME n + 1 \in D PROVE P[n + 1] \in S OBVIOUS
    <3>1. n + 1 \in 1 .. Len(s) /\ n \in D /\ n + 1 - 1 = n BY <1>0
    <3>0. PICK j : j = n + 1 OBVIOUS
    <3>2. P[j] = P[j - 1] \o Adds(s, j)
      <4>1. j \in 1 .. Len(s) BY <3>0, <3>1
      <4> QED BY <4>1, <1>5
    <3>3. Adds(s, j) \in Seq(Bytes)
      <4>1. j \in 1 .. Len(s) BY <3>0, <3>1
      <4> QED BY <4>1, AddsType
    <3>4. P[n] \in Seq(Bytes) BY <2>3, <3>1
    <3>5. P[j] = P[n] \o Adds(s, j)
      <4>1. j - 1 = n BY <3>0
      <4> QED BY <4>1, <3>2
    <3>6. P[n] \o Adds(s, j) \in Seq(Bytes) BY <3>3, <3>4, ConcatProperties
    <3> QED BY <3>0, <3>5, <3>6
  <2> HIDE DEF T
  <2> QED BY <2>1, <2>2, <2>3, Induction
<1>7. \A i \in D : P[i] \in S
  <2> TAKE i \in D
  <2>1. i \in Nat OBVIOUS
  <2>2. i \in T
    <3> HIDE DEF T
    <3> QED BY <1>6, <2>1
  <2> QED BY <2>1, <2>2
<1> QED BY <1>1, <1>4, <1>5, <1>7

(* The text so far is a prefix of the whole.                                 *)
LEMMA TextPrefix ==
  ASSUME NEW s \in ChunkStreams, NEW i \in 0 .. Len(s)
  PROVE \E r \in Seq(Bytes) : TextOf(s)[Len(s)] = TextOf(s)[i] \o r
<1> DEFINE D == 0 .. Len(s)
           T == {n \in Nat : i + n \in D => \E r \in Seq(Bytes) : TextOf(s)[i + n] = TextOf(s)[i] \o r}
<1>0. Len(s) \in Nat BY ChunkTypes
<1>1. T \in SUBSET Nat OBVIOUS
<1>2. 0 \in T
  <2>1. TextOf(s)[i] = TextOf(s)[i] \o <<>> BY TextIs, ConcatEmptySeq
  <2>2. <<>> \in Seq(Bytes) /\ i + 0 = i OBVIOUS
  <2>3. \E r \in Seq(Bytes) : TextOf(s)[i + 0] = TextOf(s)[i] \o r BY <2>1, <2>2
  <2> QED BY <2>3
<1>3. ASSUME NEW n \in Nat, n \in T PROVE n + 1 \in T
  <2> SUFFICES ASSUME i + (n + 1) \in D
               PROVE \E r \in Seq(Bytes) : TextOf(s)[i + (n + 1)] = TextOf(s)[i] \o r
    OBVIOUS
  <2> DEFINE j == i + (n + 1)
  <2>1. j \in 1 .. Len(s) /\ i + n \in D /\ j - 1 = i + n BY <1>0
  <2>2. PICK r \in Seq(Bytes) : TextOf(s)[i + n] = TextOf(s)[i] \o r BY <1>3, <2>1
  <2>3. TextOf(s)[j] = TextOf(s)[j - 1] \o Adds(s, j)
    <3> HIDE DEF j
    <3> QED BY <2>1, TextIs
  <2>4. Adds(s, j) \in Seq(Bytes)
    <3> HIDE DEF j
    <3> QED BY <2>1, AddsType
  <2>5. TextOf(s)[i] \in Seq(Bytes) BY TextIs
  <2> HIDE DEF j
  <2>6. (TextOf(s)[i] \o r) \o Adds(s, j) = TextOf(s)[i] \o (r \o Adds(s, j))
    BY <2>4, <2>5, Assoc
  <2>7. r \o Adds(s, j) \in Seq(Bytes) BY <2>4, ConcatProperties
  <2>8. TextOf(s)[j] = TextOf(s)[i] \o (r \o Adds(s, j)) BY <2>1, <2>2, <2>3, <2>6
  <2> QED BY <2>7, <2>8 DEF j
<1> HIDE DEF T
<1>4. T = Nat BY <1>1, <1>2, <1>3, Induction
<1>5. Len(s) - i \in T BY <1>4, <1>0
<1>6. i + (Len(s) - i) = Len(s) BY <1>0
<1> QED BY <1>0, <1>5, <1>6 DEF T

LEMMA PartPrefix ==
  ASSUME NEW s \in ChunkStreams, NEW i \in 1 .. Len(s), NEW m \in 0 .. s[i].unpack,
         s[i].control = 0 => m = 0,
         NEW t, t = TextOf(s)[i - 1] \o Tokens(i, 0, m)
  PROVE /\ t \in Seq(Bytes) /\ Len(t) <= Len(TextOf(s)[Len(s)])
        /\ t = SubSeq(TextOf(s)[Len(s)], 1, Len(t))
<1>0. i - 1 \in 0 .. Len(s) /\ i \in 0 .. Len(s) /\ i \in Nat /\ m \in Nat /\ s[i].unpack \in Nat
  BY ChunkTypes
<1> DEFINE a == TextOf(s)[i - 1]  b == Tokens(i, 0, m)
<1>1. a \in Seq(Bytes) /\ b \in Seq(Bytes) BY <1>0, TextIs, TokensAre
<1>2. \E u \in Seq(Bytes) : Adds(s, i) = b \o u
  <2>1. CASE s[i].control = 0
    <3>1. Len(b) = 0 BY <2>1, <1>0, TokensAre
    <3>2. b = <<>> BY <3>1, <1>1, EmptySeq
    <3>3. Adds(s, i) = <<>> BY <2>1 DEF Adds
    <3>4. <<>> = b \o <<>> BY <3>2
    <3>5. <<>> \in Seq(Bytes) OBVIOUS
    <3> HIDE DEF b
    <3> QED BY <3>3, <3>4, <3>5
  <2>2. CASE s[i].control # 0
    <3>1. PICK n \in Nat : m + n = s[i].unpack
      <4>1. s[i].unpack - m \in Nat /\ m + (s[i].unpack - m) = s[i].unpack BY <1>0
      <4> QED BY <4>1
    <3>2. b \o Tokens(i, m, n) = Tokens(i, 0, m + n) BY <1>0, TokensJoin
    <3>3. Adds(s, i) = Tokens(i, 0, m + n) BY <2>2, <3>1 DEF Adds
    <3>4. Tokens(i, m, n) \in Seq(Bytes) BY <1>0, TokensAre
    <3> HIDE DEF b
    <3> QED BY <3>2, <3>3, <3>4
  <2> QED BY <2>1, <2>2
<1>3. PICK u \in Seq(Bytes) : Adds(s, i) = b \o u BY <1>2
<1>4. PICK r \in Seq(Bytes) : TextOf(s)[Len(s)] = TextOf(s)[i] \o r BY <1>0, TextPrefix
<1>5. TextOf(s)[i] = a \o (b \o u) BY <1>3, TextIs
<1> HIDE DEF a, b
<1>6. a \o (b \o u) = (a \o b) \o u
  <2>1. PICK x \in Seq(Bytes) : x = a BY <1>1
  <2>2. PICK y \in Seq(Bytes) : y = b BY <1>1
  <2>3. (x \o y) \o u = x \o (y \o u) BY Assoc
  <2> QED BY <2>1, <2>2, <2>3
<1>7. a \o b \in Seq(Bytes) BY <1>1, ConcatProperties
<1>8. ((a \o b) \o u) \o r = (a \o b) \o (u \o r) BY <1>7, <1>3, <1>4, Assoc
<1>9. u \o r \in Seq(Bytes) BY ConcatProperties
<1>10. t = a \o b BY DEF a, b
<1>11. TextOf(s)[Len(s)] = t \o (u \o r) BY <1>4, <1>5, <1>6, <1>8, <1>10
<1>12. t \in Seq(Bytes) BY <1>7, <1>10
<1>13. PICK v \in Seq(Bytes) : v = u \o r BY <1>9
<1>14. PICK w : w = t \o v OBVIOUS
<1>15. Len(w) = Len(t) + Len(v) /\ Len(t) \in Nat /\ Len(v) \in Nat
  BY <1>12, <1>14, ConcatProperties, LenProperties
<1>16. SubSeq(w, 1, Len(t)) = t
  <2>1. SubSeq(t, 1, Len(t)) = t BY <1>12, SubSeqFull
  <2>2. CASE Len(t) = 0
    <3>1. t = <<>> BY <2>2, <1>12, EmptySeq
    <3>2. SubSeq(w, 1, 0) = <<>> BY SubSeqEmpty
    <3> QED BY <2>2, <3>1, <3>2
  <2>3. CASE Len(t) # 0
    <3>1. 1 \in 1 .. Len(t) /\ Len(t) \in 1 .. Len(t) BY <2>3, <1>15
    <3>2. SubSeq(w, 1, Len(t)) = SubSeq(t, 1, Len(t))
      BY <3>1, <1>12, <1>14, SubSeqOfConcat1
    <3> QED BY <2>1, <3>2
  <2> QED BY <2>2, <2>3
<1>17. TextOf(s)[Len(s)] = w BY <1>11, <1>13, <1>14
<1>18. Len(t) <= Len(w) BY <1>15
<1> QED BY <1>12, <1>16, <1>17, <1>18

LEMMA Span ==
  ASSUME NEW s \in ChunkStreams, NEW i \in 1 .. Len(s)
  PROVE /\ Places(s)[i] \in Nat /\ Len(Header(s[i])) \in 1 .. 6 /\ DataSize(s[i]) \in Nat
        /\ Places(s)[i + 1] = Places(s)[i] + (Len(Header(s[i])) + DataSize(s[i]))
        /\ s[i].control # 0 => DataSize(s[i]) >= 1
<1>1. PICK u : u = s[i].unpack OBVIOUS
<1>2. PICK v : v = s[i].pack OBVIOUS
<1>3. u \in Nat /\ v \in Nat /\ 1 <= u /\ 1 <= v
  <2>1. /\ s[i].unpack \in Nat /\ s[i].pack \in Nat
        /\ 1 <= s[i].unpack /\ 1 <= s[i].pack
    BY ChunkTypes
  <2> QED BY <2>1, <1>1, <1>2
<1>4. PICK x : x = s[i].control OBVIOUS
<1>5. PICK h : h = Len(Header(s[i])) OBVIOUS
<1>6. PICK d : d = DataSize(s[i]) OBVIOUS
<1>7. /\ h = IF x = 0 THEN 1 ELSE IF x < 128 THEN 3 ELSE IF x < 192 THEN 5 ELSE 6
      /\ d = IF x = 0 THEN 0 ELSE IF x < 128 THEN u ELSE v
      /\ ChunkSize(s[i]) = h + d
  BY <1>1, <1>2, <1>4, <1>5, <1>6, HeaderSize
<1>8. h \in 1 .. 6 /\ d \in Nat /\ (x # 0 => d >= 1) BY <1>3, <1>7
<1>9. Places(s)[i] \in Nat /\ Places(s)[i + 1] = Places(s)[i] + (h + d)
  BY <1>7, PlacesType, PlacesAre
<1> QED BY <1>4, <1>5, <1>6, <1>8, <1>9

(* What can be written at a place of the input.                              *)
Adding(s, i, p) == Brings(s[i], p - Places(s)[i] - Len(Header(s[i])))

LEMMA AddingType ==
  ASSUME NEW s \in ChunkStreams, NEW i \in 1 .. Len(s), NEW p \in Int
  PROVE Adding(s, i, p) \in Nat
<1> DEFINE c == s[i]  k == p - Places(s)[i] - Len(Header(s[i]))
<1>1. Places(s)[i] \in Nat BY PlacesType
<1>2. Len(Header(s[i])) \in Nat BY HeaderSize, ChunkTypes
<1>3. k \in Int BY <1>1, <1>2
<1>4. Adding(s, i, p) = Brings(c, k) BY DEF Adding
<1>5. /\ c.unpack \in Nat /\ c.pack \in Nat
      /\ c.control \in {0, 1, 2, 3, 128, 160, 192, 224}
      /\ c.control >= 128 => \A j \in 0 .. c.pack : c.yield[j] \in Nat
      /\ DataSize(c) = IF c.control = 0 THEN 0
                       ELSE IF c.control < 128 THEN c.unpack ELSE c.pack
  BY ChunkTypes, HeaderSize
<1> HIDE DEF c, k
<1>6. CASE k <= 0 \/ c.control = 0 BY <1>6, <1>4 DEF Brings
<1>7. CASE ~(k <= 0 \/ c.control = 0) /\ k >= DataSize(c) BY <1>7, <1>4, <1>5 DEF Brings
<1>8. CASE ~(k <= 0 \/ c.control = 0) /\ ~(k >= DataSize(c))
  <2>1. Brings(c, k) = IF c.control < 128 THEN k ELSE c.yield[k] BY <1>8 DEF Brings
  <2>2. CASE c.control < 128 BY <2>1, <2>2, <1>3, <1>4, <1>8
  <2>3. CASE ~(c.control < 128)
    <3>1. c.control >= 128 /\ DataSize(c) = c.pack BY <2>3, <1>5
    <3>2. k \in 0 .. c.pack BY <3>1, <1>3, <1>5, <1>8
    <3> QED BY <3>1, <3>2, <2>1, <2>3, <1>4, <1>5
  <2> QED BY <2>2, <2>3
<1> QED BY <1>6, <1>7, <1>8

(* f counts what the chunks add.                                             *)
Counts(f, s, p) ==
  /\ f[0] = 0
  /\ \A i \in 0 .. Len(s) : f[i] \in Nat
  /\ \A i \in 1 .. Len(s) : f[i] = f[i - 1] + Adding(s, i, p)

LEMMA ReachIs ==
  ASSUME NEW s \in ChunkStreams, NEW p \in Int
  PROVE \E f : Counts(f, s, p) /\ Reach(s, p) = f[Len(s)]
<1> DEFINE D == 0 .. Len(s)
           Eq(f) == f = [i \in D |->
                           IF i = 0 THEN 0
                           ELSE f[i - 1] + Brings(s[i], p - Places(s)[i] - Len(Header(s[i])))]
           P == CHOOSE f : Eq(f)
           g == [i \in Nat |-> [x \in Nat |-> IF i + 1 \in D THEN x + Adding(s, i + 1, p) ELSE x]]
<1>0. Len(s) \in Nat BY ChunkTypes
<1>1. Reach(s, p) = P[Len(s)] BY DEF Reach
<1>2. \E f : Eq(f)
  <2>1. StepsIn(g, Nat)
    <3>1. ASSUME NEW i \in Nat, NEW x \in Nat, i + 1 \in D PROVE x + Adding(s, i + 1, p) \in Nat
      <4>1. i + 1 \in 1 .. Len(s) BY <3>1
      <4>2. Adding(s, i + 1, p) \in Nat BY <4>1, AddingType
      <4> QED BY <4>2
    <3> HIDE DEF D
    <3> QED BY <3>1 DEF StepsIn
  <2>2. PICK h : Follows(h, Nat, 0, g)
    <3> HIDE DEF g
    <3>1. 0 \in Nat OBVIOUS
    <3> QED BY <2>1, <3>1, Recursion
  <2>3. h \in [Nat -> Nat] /\ h[0] = 0 /\ \A i \in Nat : h[i + 1] = g[i][h[i]]
    BY <2>2 DEF Follows
  <2> DEFINE f == [i \in D |-> h[i]]
  <2>4. ASSUME NEW i \in D
        PROVE f[i] = IF i = 0 THEN 0
                     ELSE f[i - 1] + Brings(s[i], p - Places(s)[i] - Len(Header(s[i])))
    <3>1. CASE i = 0 BY <2>3, <3>1
    <3>2. CASE i # 0
      <4>1. i \in D /\ i - 1 \in D /\ i - 1 \in Nat /\ i - 1 + 1 = i BY <3>2
      <4>2. h[i] = g[i - 1][h[i - 1]] BY <2>3, <4>1
      <4>3. h[i - 1] \in Nat BY <2>3, <4>1
      <4>4. g[i - 1][h[i - 1]] = h[i - 1] + Adding(s, i, p)
        <5> HIDE DEF D
        <5> QED BY <4>1, <4>3
      <4>5. f[i] = h[i] /\ f[i - 1] = h[i - 1] BY <4>1
      <4> HIDE DEF f, g
      <4> QED BY <4>2, <4>4, <4>5, <3>2 DEF Adding
    <3> QED BY <3>1, <3>2
  <2>5. Eq(f) BY <2>4
  <2> QED BY <2>5
<1>3. Eq(P) BY <1>2
<1> HIDE DEF P
<1>4. P[0] = 0 BY <1>3, <1>0
<1>5. ASSUME NEW i \in 1 .. Len(s) PROVE P[i] = P[i - 1] + Adding(s, i, p)
  <2>1. i \in D /\ i # 0 OBVIOUS
  <2> QED BY <2>1, <1>3 DEF Adding
<1> DEFINE T == {n \in Nat : n \in D => P[n] \in Nat}
<1>6. T = Nat
  <2>1. T \in SUBSET Nat OBVIOUS
  <2>2. 0 \in T BY <1>4
  <2>3. ASSUME NEW n \in Nat, n \in T PROVE n + 1 \in T
    <3> SUFFICES ASSUME n + 1 \in D PROVE P[n + 1] \in Nat OBVIOUS
    <3>0. PICK j : j = n + 1 OBVIOUS
    <3>1. j \in 1 .. Len(s) /\ n \in D /\ j - 1 = n BY <1>0, <3>0
    <3>2. P[j] = P[n] + Adding(s, j, p) BY <3>1, <1>5
    <3>3. Adding(s, j, p) \in Nat BY <3>1, AddingType
    <3>4. P[n] \in Nat BY <2>3, <3>1
    <3> QED BY <3>0, <3>2, <3>3, <3>4
  <2> HIDE DEF T
  <2> QED BY <2>1, <2>2, <2>3, Induction
<1>7. \A i \in D : P[i] \in Nat
  <2> TAKE i \in D
  <2>1. i \in Nat OBVIOUS
  <2>2. i \in T
    <3> HIDE DEF T
    <3> QED BY <1>6, <2>1
  <2> QED BY <2>1, <2>2
<1>8. Counts(P, s, p) BY <1>4, <1>5, <1>7 DEF Counts
<1> QED BY <1>1, <1>8

(* Only the chunk a position lies in adds what the one in front of it did not. *)
LEMMA AddingElsewhere ==
  ASSUME NEW s \in ChunkStreams, NEW i \in 1 .. Len(s), NEW j \in 1 .. Len(s), j # i,
         NEW q \in Nat, Places(s)[i] <= q, q <= Places(s)[i + 1]
  PROVE Adding(s, j, q) = Adding(s, j, Places(s)[i])
<1> DEFINE c == s[j]  h == Len(Header(s[j]))  a == Places(s)[i]  b == Places(s)[j]
<1>1. /\ a \in Nat /\ b \in Nat /\ Places(s)[j + 1] \in Nat /\ Places(s)[i + 1] \in Nat
      /\ Len(s) \in Nat
  BY PlacesType
<1>2. /\ h \in 1 .. 6 /\ DataSize(c) \in Nat /\ Places(s)[j + 1] = b + (h + DataSize(c))
      /\ c.control # 0 => DataSize(c) >= 1
  BY Span
<1>3. /\ Adding(s, j, q) = Brings(c, q - b - h)
      /\ Adding(s, j, a) = Brings(c, a - b - h)
  BY DEF Adding
<1>4. CASE j < i
  <2>1. i \in j + 1 .. Len(s) + 1 BY <1>4, <1>1
  <2>2. Places(s)[j + 1] <= a BY <2>1, PlacesGrow
  <2>3. q - b - h >= DataSize(c) /\ a - b - h >= DataSize(c)
    <3>1. PICK y : y = Places(s)[j + 1] OBVIOUS
    <3>2. PICK n : n = DataSize(c) OBVIOUS
    <3>3. a <= q OBVIOUS
    <3> HIDE DEF a, b, c, h
    <3>4. y <= a /\ y = b + (h + n) /\ h \in 1 .. 6 /\ n \in Nat /\ a \in Nat /\ b \in Nat
      BY <2>2, <1>1, <1>2, <3>1, <3>2
    <3>5. q - b - h >= n /\ a - b - h >= n BY <3>3, <3>4
    <3> QED BY <3>2, <3>5
  <2> HIDE DEF a, b, c, h
  <2>4. CASE c.control = 0 BY <2>4, <1>3 DEF Brings, a
  <2>5. CASE c.control # 0
    <3>1. ~(q - b - h <= 0) /\ ~(a - b - h <= 0) BY <2>3, <2>5, <1>1, <1>2
    <3> QED BY <3>1, <2>3, <2>5, <1>3 DEF Brings, a
  <2> QED BY <2>4, <2>5
<1>5. CASE j > i
  <2>1. j \in i + 1 .. Len(s) + 1 BY <1>5, <1>1
  <2>2. Places(s)[i + 1] <= b BY <2>1, PlacesGrow
  <2>3. q - b - h <= 0 /\ a - b - h <= 0
    <3>1. PICK z \in Nat : z = Places(s)[i + 1] BY <1>1
    <3>2. z <= b /\ a <= q /\ q <= z BY <3>1, <2>2
    <3>3. a \in Nat /\ b \in Nat /\ h \in 1 .. 6 BY <1>1, <1>2
    <3> HIDE DEF a, b, c, h
    <3>4. a <= b /\ q <= b BY <3>2, <3>3
    <3> QED BY <3>3, <3>4
  <2> HIDE DEF a, b, c, h
  <2> QED BY <2>3, <1>3 DEF Brings, a
<1> QED BY <1>1, <1>4, <1>5

LEMMA AddingAtStart ==
  ASSUME NEW s \in ChunkStreams, NEW i \in 1 .. Len(s)
  PROVE Adding(s, i, Places(s)[i]) = 0
<1>1. Places(s)[i] \in Nat /\ Len(Header(s[i])) \in Nat BY PlacesType, HeaderSize, ChunkTypes
<1>2. Places(s)[i] - Places(s)[i] - Len(Header(s[i])) <= 0 BY <1>1
<1> QED BY <1>2 DEF Adding, Brings

LEMMA ReachIn ==
  ASSUME NEW s \in ChunkStreams, NEW i \in 1 .. Len(s),
         NEW q \in Nat, Places(s)[i] <= q, q <= Places(s)[i + 1]
  PROVE /\ Reach(s, q) = Reach(s, Places(s)[i]) + Adding(s, i, q)
        /\ Reach(s, Places(s)[i]) \in Nat
<1> DEFINE a == Places(s)[i]
<1>0. Len(s) \in Nat /\ a \in Nat BY PlacesType
<1>1. PICK f : Counts(f, s, a) /\ Reach(s, a) = f[Len(s)]
  <2>1. a \in Int BY <1>0
  <2> QED BY <2>1, ReachIs
<1>2. PICK g : Counts(g, s, q) /\ Reach(s, q) = g[Len(s)]
  <2>1. q \in Int OBVIOUS
  <2> QED BY <2>1, ReachIs
<1>x. PICK x \in Nat : x = Adding(s, i, q)
  <2>1. q \in Int OBVIOUS
  <2> QED BY <2>1, AddingType
<1> DEFINE T == {n \in Nat : n <= Len(s) => g[n] = f[n] + (IF n >= i THEN x ELSE 0)}
<1>3. T \in SUBSET Nat OBVIOUS
<1>4. 0 \in T
  <2>1. f[0] = 0 /\ g[0] = 0 /\ ~(0 >= i) BY <1>1, <1>2 DEF Counts
  <2>2. g[0] = f[0] + (IF 0 >= i THEN x ELSE 0) BY <2>1
  <2> QED BY <2>2
<1>5. ASSUME NEW n \in Nat, n \in T PROVE n + 1 \in T
  <2> SUFFICES ASSUME n + 1 <= Len(s) PROVE g[n + 1] = f[n + 1] + (IF n + 1 >= i THEN x ELSE 0)
    OBVIOUS
  <2>0. PICK j : j = n + 1 OBVIOUS
  <2>1. j \in 1 .. Len(s) /\ j - 1 = n /\ n \in 0 .. Len(s) BY <2>0, <1>0
  <2>2. /\ f[j] = f[n] + Adding(s, j, a) /\ f[n] \in Nat
        /\ g[j] = g[n] + Adding(s, j, q) /\ g[n] \in Nat
    BY <2>1, <1>1, <1>2 DEF Counts
  <2>3. g[n] = f[n] + (IF n >= i THEN x ELSE 0) BY <1>5, <2>1
  <2>4. Adding(s, j, a) \in Nat /\ Adding(s, j, q) \in Nat
    <3>1. a \in Int /\ q \in Int BY <1>0
    <3> QED BY <3>1, <2>1, AddingType
  <2>5. CASE j = i
    <3>1. Adding(s, j, a) = 0 BY <2>5, AddingAtStart
    <3>2. Adding(s, j, q) = x BY <2>5, <1>x
    <3>3. ~(n >= i) /\ j >= i BY <2>5, <2>0
    <3> HIDE DEF a
    <3> QED BY <3>1, <3>2, <3>3, <2>2, <2>3, <2>0
  <2>6. CASE j # i
    <3>1. Adding(s, j, q) = Adding(s, j, a) BY <2>1, <2>6, AddingElsewhere
    <3>2. (n >= i) <=> (j >= i) BY <2>6, <2>0
    <3> HIDE DEF a
    <3> QED BY <3>1, <3>2, <2>2, <2>3, <2>4, <2>0
  <2> QED BY <2>5, <2>6
<1> HIDE DEF T
<1>6. T = Nat BY <1>3, <1>4, <1>5, Induction
<1>7. Len(s) \in T BY <1>0, <1>6
<1>8. g[Len(s)] = f[Len(s)] + x BY <1>7, <1>0 DEF T
<1>9. f[Len(s)] \in Nat BY <1>0, <1>1 DEF Counts
<1> QED BY <1>1, <1>2, <1>x, <1>8, <1>9

LEMMA ReachStart ==
  ASSUME NEW s \in ChunkStreams
  PROVE Reach(s, 0) = 0
<1>0. Len(s) \in Nat BY ChunkTypes
<1>1. PICK f : Counts(f, s, 0) /\ Reach(s, 0) = f[Len(s)]
  <2>1. 0 \in Int OBVIOUS
  <2> QED BY <2>1, ReachIs
<1> DEFINE T == {n \in Nat : n <= Len(s) => f[n] = 0}
<1>2. T \in SUBSET Nat OBVIOUS
<1>3. 0 \in T BY <1>1 DEF Counts
<1>4. ASSUME NEW n \in Nat, n \in T PROVE n + 1 \in T
  <2> SUFFICES ASSUME n + 1 <= Len(s) PROVE f[n + 1] = 0 OBVIOUS
  <2>0. PICK j : j = n + 1 OBVIOUS
  <2>1. j \in 1 .. Len(s) /\ j - 1 = n BY <2>0, <1>0
  <2>2. f[j] = f[n] + Adding(s, j, 0) BY <2>1, <1>1 DEF Counts
  <2>3. f[n] = 0 BY <1>4, <2>1, <1>0
  <2>4. Adding(s, j, 0) = 0
    <3>1. Places(s)[j] \in Nat /\ Len(Header(s[j])) \in Nat
      BY <2>1, PlacesType, HeaderSize, ChunkTypes
    <3>2. 0 - Places(s)[j] - Len(Header(s[j])) <= 0 BY <3>1
    <3> QED BY <3>2 DEF Adding, Brings
  <2> QED BY <2>0, <2>2, <2>3, <2>4
<1> HIDE DEF T
<1>5. T = Nat BY <1>2, <1>3, <1>4, Induction
<1>6. Len(s) \in T BY <1>0, <1>5
<1> QED BY <1>1, <1>6, <1>0 DEF T

(* A whole chunk adds its text.                                              *)
LEMMA ReachNext ==
  ASSUME NEW s \in ChunkStreams, NEW i \in 1 .. Len(s), s[i].control # 0
  PROVE Reach(s, Places(s)[i + 1]) = Reach(s, Places(s)[i]) + s[i].unpack
<1> DEFINE q == Places(s)[i + 1]  c == s[i]  h == Len(Header(s[i]))  b == Places(s)[i]
<1>1. /\ q \in Nat /\ b \in Nat /\ h \in 1 .. 6 /\ q = b + (h + DataSize(c))
      /\ DataSize(c) \in Nat /\ DataSize(c) >= 1
  BY PlacesType, Span
<1>2. Reach(s, q) = Reach(s, b) + Adding(s, i, q)
  <2>1. b <= q /\ q <= q
    <3> HIDE DEF q, c, h, b
    <3> QED BY <1>1
  <2> QED BY <2>1, <1>1, ReachIn
<1>3. Adding(s, i, q) = Brings(c, q - b - h) BY DEF Adding
<1>4. q - b - h >= DataSize(c) /\ ~(q - b - h <= 0)
  <2> HIDE DEF q, c, h, b
  <2> QED BY <1>1
<1>5. Adding(s, i, q) = c.unpack BY <1>3, <1>4 DEF Brings
<1> QED BY <1>2, <1>5

(* The header of a chunk, byte by byte.                                      *)
LEMMA ChunkOf ==
  ASSUME NEW s \in ChunkStreams, NEW i \in 1 .. Len(s)
  PROVE /\ s[i].control \in {0, 1, 2, 3, 128, 160, 192, 224}
        /\ s[i].unpack \in Nat /\ 1 <= s[i].unpack /\ s[i].unpack <= 256
        /\ s[i].pack \in Nat /\ 1 <= s[i].pack /\ s[i].pack <= 256
        /\ s[i].prop \in BOOLEAN /\ s[i].head \in BOOLEAN /\ s[i].clean \in BOOLEAN
        /\ Len(Header(s[i])) = IF s[i].control = 0 THEN 1 ELSE IF s[i].control < 128 THEN 3
                               ELSE IF s[i].control < 192 THEN 5 ELSE 6
        /\ DataSize(s[i]) = IF s[i].control = 0 THEN 0
                            ELSE IF s[i].control < 128 THEN s[i].unpack ELSE s[i].pack
BY ChunkTypes, HeaderSize

LEMMA HeaderBytes ==
  ASSUME NEW s \in ChunkStreams, NEW i \in 1 .. Len(s)
  PROVE /\ ByteAt(s, Places(s)[i]) = s[i].control
        /\ s[i].control # 0 => /\ ByteAt(s, Places(s)[i] + 1) = 0
                               /\ ByteAt(s, Places(s)[i] + 2) = s[i].unpack - 1
        /\ s[i].control >= 128 => /\ ByteAt(s, Places(s)[i] + 3) = 0
                                  /\ ByteAt(s, Places(s)[i] + 4) = s[i].pack - 1
        /\ s[i].control >= 192 =>
             ByteAt(s, Places(s)[i] + 5) = IF s[i].prop THEN 93 ELSE 225
<1> DEFINE b == Places(s)[i]
<1>1. PICK c : c = s[i] OBVIOUS
<1>2. /\ c.control \in {0, 1, 2, 3, 128, 160, 192, 224}
      /\ c.unpack \in 1 .. 256 /\ c.pack \in 1 .. 256
  <2>1. /\ s[i].control \in {0, 1, 2, 3, 128, 160, 192, 224}
        /\ s[i].unpack \in 1 .. 256 /\ s[i].pack \in 1 .. 256
    BY ChunkTypes
  <2> QED BY <2>1, <1>1
<1>3. PICK h : h = Header(c) OBVIOUS
<1>4. /\ c.control = 0 => h = <<0>>
      /\ c.control \in 1 .. 3 => h = <<c.control, 0, c.unpack - 1>>
      /\ c.control \in {128, 160} => h = <<c.control, 0, c.unpack - 1, 0, c.pack - 1>>
      /\ c.control \in {192, 224} =>
           /\ Len(h) = 6
           /\ \A k \in 1 .. 5 : h[k] = <<c.control, 0, c.unpack - 1, 0, c.pack - 1>>[k]
           /\ h[6] = IF c.prop THEN 93 ELSE 225
  BY <1>2, <1>3, HeaderForm
<1>5. Len(h) \in 1 .. 6 /\ Len(h) <= ChunkSize(s[i])
  <2>1. PICK n : n = Len(h) OBVIOUS
  <2>2. PICK m : m = DataSize(s[i]) OBVIOUS
  <2>3. n \in 1 .. 6 /\ m \in Nat /\ ChunkSize(s[i]) = n + m
    BY <2>1, <2>2, <1>1, <1>3, Span, HeaderSize
  <2>4. n <= n + m BY <2>3
  <2> QED BY <2>1, <2>3, <2>4
<1>6. ASSUME NEW k \in 0 .. 5, k < Len(h)
      PROVE ByteAt(s, b + k) = h[k + 1]
  <2>1. k \in Nat /\ k < ChunkSize(s[i])
    <3>1. PICK n : n = Len(h) OBVIOUS
    <3>2. PICK m : m = ChunkSize(s[i]) OBVIOUS
    <3>3. n \in 1 .. 6 /\ n <= m /\ m \in Nat BY <3>1, <3>2, <1>5, HeaderSize
    <3> QED BY <3>1, <3>2, <3>3, <1>6
  <2> QED BY <2>1, <1>6, <1>1, <1>3, ByteIs
<1>7. b + 0 = b BY PlacesType
<1> HIDE DEF b
<1>8. CASE c.control = 0
  <2>1. h = <<0>> BY <1>8, <1>4
  <2>2. Len(h) = 1 /\ h[0 + 1] = 0 BY <2>1
  <2>3. ByteAt(s, b + 0) = 0 BY <2>2, <1>6
  <2> QED BY <2>3, <1>7, <1>8, <1>1 DEF b
<1>9. CASE c.control \in 1 .. 3
  <2>1. h = <<c.control, 0, c.unpack - 1>> BY <1>9, <1>4
  <2>2. Len(h) = 3 /\ h[0 + 1] = c.control /\ h[1 + 1] = 0 /\ h[2 + 1] = c.unpack - 1 BY <2>1
  <2>3. ByteAt(s, b + 0) = c.control /\ ByteAt(s, b + 1) = 0
        /\ ByteAt(s, b + 2) = c.unpack - 1
    BY <2>2, <1>6
  <2>4. ~(c.control >= 128) /\ ~(c.control >= 192) BY <1>9
  <2> QED BY <2>3, <2>4, <1>7, <1>1 DEF b
<1>10. CASE c.control \in {128, 160}
  <2>1. h = <<c.control, 0, c.unpack - 1, 0, c.pack - 1>> BY <1>10, <1>4
  <2>2. /\ Len(h) = 5 /\ h[0 + 1] = c.control /\ h[1 + 1] = 0 /\ h[2 + 1] = c.unpack - 1
        /\ h[3 + 1] = 0 /\ h[4 + 1] = c.pack - 1
    BY <2>1
  <2>3. /\ ByteAt(s, b + 0) = c.control /\ ByteAt(s, b + 1) = 0
        /\ ByteAt(s, b + 2) = c.unpack - 1
        /\ ByteAt(s, b + 3) = 0 /\ ByteAt(s, b + 4) = c.pack - 1
    BY <2>2, <1>6
  <2>4. ~(c.control >= 192) BY <1>10
  <2> QED BY <2>3, <2>4, <1>7, <1>1 DEF b
<1>11. CASE c.control \in {192, 224}
  <2>1. /\ Len(h) = 6
        /\ \A k \in 1 .. 5 : h[k] = <<c.control, 0, c.unpack - 1, 0, c.pack - 1>>[k]
        /\ h[6] = IF c.prop THEN 93 ELSE 225
    BY <1>11, <1>4
  <2>2. /\ h[0 + 1] = c.control /\ h[1 + 1] = 0 /\ h[2 + 1] = c.unpack - 1
        /\ h[3 + 1] = 0 /\ h[4 + 1] = c.pack - 1 /\ h[5 + 1] = h[6]
    BY <2>1
  <2>3. /\ ByteAt(s, b + 0) = c.control /\ ByteAt(s, b + 1) = 0
        /\ ByteAt(s, b + 2) = c.unpack - 1
        /\ ByteAt(s, b + 3) = 0 /\ ByteAt(s, b + 4) = c.pack - 1 /\ ByteAt(s, b + 5) = h[6]
    BY <2>1, <2>2, <1>6
  <2> QED BY <2>1, <2>3, <1>7, <1>1 DEF b
<1> QED BY <1>2, <1>8, <1>9, <1>10, <1>11

LEMMA MakeDecType ==
  ASSUME NEW e, DecForm(e), e.state \in HeaderStates \cup DataStates \cup {"FINISHED", "ERROR"},
         e.needInitLevel \in {0, 192, 224}, e.unpackSize \in 0 .. 256,
         e.packSize \in 0 .. 256, e.dicPos \in Nat, e.start \in 0 .. 2,
         e.probs \in BOOLEAN, e.isExtraMode \in BOOLEAN
  PROVE DecTypeOK(e)
BY DEF DecTypeOK

LEMMA StageData ==
  ASSUME NEW s, NEW e, NEW p, NEW i, i > 0, e.state = "DATA",
         e.control = s[i].control, s[i].control # 0, e.unpackSize = s[i].unpack,
         p - Places(s)[i] = Len(Header(s[i])), s[i].control >= 128 => e.packSize = s[i].pack
  PROVE Stage(s, e, p, i)
BY DEF Stage

(* The control byte.                                                         *)
LEMMA ReadControl ==
  ASSUME NEW s \in ChunkStreams, NEW p \in Nat, p < Size(s), NEW d, DecTypeOK(d),
         NEW i, At(s, p, i), Stage(s, d, p, i), Levels(s, d, i), d.state = "CONTROL",
         NEW e, e = UpdateState(d, ByteAt(s, p))
  PROVE /\ i + 1 \in 1 .. Len(s) /\ At(s, p + 1, i + 1) /\ DecTypeOK(e)
        /\ Stage(s, e, p + 1, i + 1) /\ Levels(s, e, i + 1)
        /\ e.state = "ERROR" => ~HeaderOK(s, i + 1)
        /\ e.dicPos = d.dicPos /\ e.start = d.start /\ e.probs = d.probs
        /\ ~e.isExtraMode /\ e.state \in {"UNPACK0", "FINISHED", "ERROR"}
        /\ e.state # "FINISHED" => s[i + 1].control # 0
        /\ d.needInitLevel = Need(s)[i + 1]
        /\ i = 0 => d.needInitLevel = 224
<1>1. i \in 0 .. Len(s) /\ Len(s) \in Nat /\ (i > 0 => p = Places(s)[i + 1])
  BY ChunkTypes DEF At, Stage
<1>2. i + 1 \in 1 .. Len(s) /\ p = Places(s)[i + 1] /\ At(s, p + 1, i + 1)
  BY <1>1, AtNext
<1>3. PICK j : j = i + 1 OBVIOUS
<1>4. j \in 1 .. Len(s) /\ p = Places(s)[j] /\ At(s, p + 1, j) BY <1>2, <1>3
<1>5. PICK c : c = s[j] OBVIOUS
<1>6. ByteAt(s, p) = c.control BY <1>4, <1>5, HeaderBytes
<1>7. c.control \in {0, 1, 2, 3, 128, 160, 192, 224} BY <1>4, <1>5, ChunkOf
<1>8. Need(s)[j] \in {0, 192, 224} BY <1>4, NeedIs
<1>9. d.needInitLevel = Need(s)[j]
  <2>1. CASE i = 0
    <3>1. d.needInitLevel = 224 BY <2>1 DEF Levels
    <3>2. j = 1 /\ 1 <= Len(s) BY <2>1, <1>3, <1>4
    <3> QED BY <3>1, <3>2, NeedIs
  <2>2. CASE i # 0
    <3>1. i \in 1 .. Len(s) - 1 BY <2>2, <1>1, <1>2
    <3>2. d.needInitLevel = After(s[i].control, Need(s)[i]) BY <2>2 DEF Levels
    <3> QED BY <3>1, <3>2, <1>3, NeedIs
  <2> QED BY <2>1, <2>2
<1>10. e = Control(d, c.control) BY <1>6 DEF UpdateState
<1>11. PICK b : b = c.control OBVIOUS
<1>12. PICK n : n = Need(s)[j] OBVIOUS
<1>13. b \in {0, 1, 2, 3, 128, 160, 192, 224} /\ n \in {0, 192, 224} /\ d.needInitLevel = n
  BY <1>7, <1>8, <1>9, <1>11, <1>12
<1>14. d.unpackSize = 0 BY DEF Stage
<1>15. (b % 32) * 65536 = 0 \/ b < 128 BY <1>13
<1>15a. DecForm(d) BY DEF DecTypeOK
<1>15b. /\ e.control = b /\ e.isExtraMode = FALSE /\ e.packSize = d.packSize
        /\ e.dicPos = d.dicPos /\ e.start = d.start /\ e.probs = d.probs
  BY <1>10, <1>11, <1>15a DEF Control, DecForm
<1>15c. e.unpackSize = d.unpackSize \/ (e.unpackSize = (b % 32) * 65536 /\ ~(b < 128))
  BY <1>10, <1>11, <1>15a DEF Control, DecForm
<1>15d. DecForm(e)
  <2>1. PICK f : f = [d EXCEPT !.isExtraMode = FALSE, !.control = b] OBVIOUS
  <2>2. DecForm(f) BY <2>1, <1>15a DEF DecForm
  <2>3. \/ e = [f EXCEPT !.state = "FINISHED"]
        \/ e = [f EXCEPT !.needInitLevel = 192, !.state = "UNPACK0"]
        \/ e = [f EXCEPT !.state = "ERROR"]
        \/ e = [f EXCEPT !.state = "UNPACK0"]
        \/ e = [f EXCEPT !.needInitLevel = 0, !.state = "UNPACK0",
                         !.unpackSize = (b % 32) * 65536]
    BY <2>1, <1>10, <1>11 DEF Control
  <2>4. CASE e = [f EXCEPT !.state = "FINISHED"] BY <2>2, <2>4 DEF DecForm
  <2>5. CASE e = [f EXCEPT !.needInitLevel = 192, !.state = "UNPACK0"]
    BY <2>2, <2>5 DEF DecForm
  <2>6. CASE e = [f EXCEPT !.state = "ERROR"] BY <2>2, <2>6 DEF DecForm
  <2>7. CASE e = [f EXCEPT !.state = "UNPACK0"] BY <2>2, <2>7 DEF DecForm
  <2>8. CASE e = [f EXCEPT !.needInitLevel = 0, !.state = "UNPACK0",
                           !.unpackSize = (b % 32) * 65536]
    <3>1. PICK y : y = (b % 32) * 65536 OBVIOUS
    <3>2. e = [f EXCEPT !.needInitLevel = 0, !.state = "UNPACK0", !.unpackSize = y]
      BY <2>8, <3>1
    <3> QED BY <2>2, <3>2 DEF DecForm
  <2> QED BY <2>3, <2>4, <2>5, <2>6, <2>7, <2>8
<1>16. /\ e.control = b /\ e.isExtraMode = FALSE /\ e.packSize = d.packSize
       /\ e.dicPos = d.dicPos /\ e.start = d.start /\ e.probs = d.probs
       /\ e.unpackSize = 0
       /\ DecForm(e)
  BY <1>14, <1>15, <1>15b, <1>15c, <1>15d
<1>17. /\ e.state \in {"UNPACK0", "FINISHED", "ERROR"}
       /\ e.state = "FINISHED" <=> b = 0
       /\ e.state = "ERROR" <=> b = 3 \/ (b = 2 /\ n = 224) \/ (b >= 128 /\ b < n)
       /\ e.state # "ERROR" => e.needInitLevel = After(b, n)
       /\ e.needInitLevel \in {0, 192, 224}
  BY <1>10, <1>11, <1>13, <1>15a DEF Control, DecForm, After
<1>18. DecTypeOK(e)
  <2>1. d.packSize \in 0 .. 256 /\ d.dicPos \in Nat /\ d.start \in 0 .. 2 /\ d.probs \in BOOLEAN
    BY DEF DecTypeOK
  <2>2. e.state \in HeaderStates \cup DataStates \cup {"FINISHED", "ERROR"}
    BY <1>17 DEF HeaderStates
  <2>3. e.unpackSize \in 0 .. 256 BY <1>16
  <2> QED BY <2>1, <2>2, <2>3, <1>16, <1>17, MakeDecType
<1>19. Stage(s, e, p + 1, j)
  <2>1. (p + 1) - Places(s)[j] = 1 BY <1>4
  <2>2. j > 0 BY <1>4
  <2>3. s[j].control = b BY <1>5, <1>11
  <2> HIDE DEF UpdateState
  <2> QED BY <2>1, <2>2, <2>3, <1>16, <1>17 DEF Stage
<1>20. ControlOK(s, j) <=> b \in {0, 1} \/ (b = 2 /\ n < 224) \/ (b >= 128 /\ b >= n)
  BY <1>5, <1>11, <1>12 DEF ControlOK
<1>21. Levels(s, e, j)
  <2>1. j > 0 /\ j # 0 BY <1>4
  <2>2. s[j].control = b BY <1>5, <1>11
  <2>3. e.state # "ERROR" => ControlOK(s, j) BY <1>13, <1>17, <1>20
  <2>4. e.state \notin DataStates \cup {"CONTROL"} BY <1>17 DEF DataStates
  <2> QED BY <2>1, <2>2, <2>3, <2>4, <1>12, <1>17 DEF Levels
<1>22. e.state = "ERROR" => ~HeaderOK(s, j)
  <2>1. s[j].control = b /\ Need(s)[j] = n BY <1>5, <1>11, <1>12
  <2> QED BY <2>1, <1>13, <1>17 DEF HeaderOK
<1>23. i = 0 => d.needInitLevel = 224 BY DEF Levels
<1> QED BY <1>2, <1>3, <1>4, <1>5, <1>9, <1>11, <1>16, <1>17, <1>18, <1>19, <1>21, <1>22, <1>23

(* The bytes behind it.                                                      *)
LEMMA ReadSize ==
  ASSUME NEW s \in ChunkStreams, NEW p \in Nat, NEW d, DecTypeOK(d),
         NEW i, At(s, p, i), Stage(s, d, p, i), Levels(s, d, i),
         d.state \in HeaderStates, d.state # "CONTROL",
         NEW e, e = UpdateState(d, ByteAt(s, p))
  PROVE /\ i \in 1 .. Len(s) /\ At(s, p + 1, i) /\ DecTypeOK(e)
        /\ Stage(s, e, p + 1, i) /\ Levels(s, e, i)
        /\ e.state = "ERROR" => ~HeaderOK(s, i)
        /\ e.dicPos = d.dicPos /\ e.start = d.start /\ e.isExtraMode = d.isExtraMode
        /\ e.state \in {"UNPACK1", "PACK0", "PACK1", "PROP", "DATA", "ERROR"}
        /\ s[i].control # 0 /\ e.needInitLevel = d.needInitLevel
        /\ e.probs = d.probs \/ s[i].control >= 192
<1>1. i \in 1 .. Len(s) /\ Len(s) \in Nat
  <2>1. i \in 0 .. Len(s) /\ i > 0 BY DEF At, Stage
  <2> QED BY <2>1, ChunkTypes
<1>2. PICK c : c = s[i] OBVIOUS
<1>3. PICK a : a = Places(s)[i] OBVIOUS
<1>4. PICK b : b = ByteAt(s, p) OBVIOUS
<1>5. a \in Nat /\ Places(s)[i + 1] = a + (Len(Header(c)) + DataSize(c))
  BY <1>1, <1>2, <1>3, Span
<1>6. PICK h : h = Len(Header(c)) OBVIOUS
<1>7. PICK m : m = DataSize(c) OBVIOUS
<1>8. PICK u : u = c.unpack OBVIOUS
<1>9. PICK v : v = c.pack OBVIOUS
<1>10. PICK x : x = c.control OBVIOUS
<1>11. /\ x \in {0, 1, 2, 3, 128, 160, 192, 224}
       /\ u \in Nat /\ 1 <= u /\ u <= 256 /\ v \in Nat /\ 1 <= v /\ v <= 256
       /\ h = (IF x = 0 THEN 1 ELSE IF x < 128 THEN 3 ELSE IF x < 192 THEN 5 ELSE 6)
       /\ m = (IF x = 0 THEN 0 ELSE IF x < 128 THEN u ELSE v)
  BY <1>1, <1>2, <1>6, <1>7, <1>8, <1>9, <1>10, ChunkOf
<1>12. /\ x # 0 => ByteAt(s, a + 1) = 0 /\ ByteAt(s, a + 2) = u - 1
       /\ x >= 128 => ByteAt(s, a + 3) = 0 /\ ByteAt(s, a + 4) = v - 1
       /\ x >= 192 => ByteAt(s, a + 5) = IF c.prop THEN 93 ELSE 225
  BY <1>1, <1>2, <1>3, <1>8, <1>9, <1>10, HeaderBytes
<1>13. PICK n : n = Need(s)[i] OBVIOUS
<1>14. n \in {0, 192, 224} BY <1>1, <1>13, NeedIs
<1>15. ControlOK(s, i) /\ d.control = x /\ d.needInitLevel = After(x, n)
  BY <1>1, <1>2, <1>10, <1>13 DEF Levels, Stage, HeaderStates
<1>16. HeaderOK(s, i) <=> CASE x \in {0, 1} -> TRUE
                            [] x = 2 -> n < 224
                            [] x >= 128 -> x >= n /\ (x >= 192 => c.prop)
                            [] OTHER -> FALSE
  BY <1>2, <1>10, <1>13 DEF HeaderOK
<1>17. x \in {0, 1} \/ (x = 2 /\ n < 224) \/ (x >= 128 /\ x >= n)
  BY <1>15, <1>2, <1>10, <1>13 DEF ControlOK
<1>18. x # 0
  BY <1>2, <1>10, <1>11 DEF Stage, HeaderStates
<1>19. a < p /\ p <= Places(s)[i + 1] BY <1>1, <1>3 DEF At
<1>20. p + 1 <= a + (h + m) => At(s, p + 1, i)
  BY <1>1, <1>3, <1>5, <1>6, <1>7, <1>19 DEF At
<1>21. /\ d.dicPos \in Nat /\ d.start \in 0 .. 2 /\ d.probs \in BOOLEAN
       /\ d.isExtraMode \in BOOLEAN /\ d.packSize \in 0 .. 256
       /\ d.needInitLevel \in {0, 192, 224}
  BY DEF DecTypeOK
<1>22. d.state \in {"UNPACK0", "UNPACK1", "PACK0", "PACK1", "PROP"} BY DEF HeaderStates
<1>22a. DecForm(d) BY DEF DecTypeOK
<1> DEFINE Fits == DecForm(e)
           Same == /\ e.control = x /\ e.needInitLevel = d.needInitLevel
                   /\ e.isExtraMode = d.isExtraMode /\ e.dicPos = d.dicPos
                   /\ e.start = d.start
<1>23. Fits /\ Same
  BY <1>15, <1>22, <1>4, <1>22a DEF UpdateState, DecForm
<1>24. ASSUME e.state \in HeaderStates \cup DataStates \cup {"ERROR"},
              e.unpackSize \in 0 .. 256, e.packSize \in 0 .. 256, e.probs \in BOOLEAN
       PROVE DecTypeOK(e)
  BY <1>23, <1>24, <1>21, MakeDecType
<1>25. ASSUME e.state # "ERROR" => (e.state \in DataStates => HeaderOK(s, i)),
              e.state # "CONTROL"
       PROVE Levels(s, e, i)
  <2>1. i > 0 /\ i # 0 BY <1>1
  <2>2. e.needInitLevel = After(s[i].control, Need(s)[i]) BY <1>15, <1>23, <1>2, <1>10, <1>13
  <2>3. e.state \in DataStates \cup {"CONTROL"} => HeaderOK(s, i) BY <1>25 DEF DataStates
  <2> QED BY <2>1, <2>2, <2>3, <1>15 DEF Levels
<1>26. i > 0 BY <1>1
<1>27. CASE d.state = "UNPACK0"
  <2>1. p = a + 1 /\ d.unpackSize = 0
    <3>1. p - a = 1 /\ d.unpackSize = 0 BY <1>27, <1>3 DEF Stage
    <3> QED BY <3>1, <1>5
  <2>2. b = 0 BY <2>1, <1>4, <1>12, <1>18
  <2>3. e = [d EXCEPT !.unpackSize = d.unpackSize + 0 * 256, !.state = "UNPACK1"]
    BY <1>27, <1>4, <2>2 DEF UpdateState
  <2>z. /\ e.state = "UNPACK1" /\ e.unpackSize = d.unpackSize + 0 * 256
        /\ e.packSize = d.packSize /\ e.probs = d.probs
    BY <2>3, <1>22a DEF DecForm
  <2>4. e.state = "UNPACK1" /\ e.unpackSize = 0 /\ e.packSize = d.packSize /\ e.probs = d.probs
    BY <2>1, <2>z
  <2>5. (p + 1) - a = 2 /\ p + 1 <= a + (h + m) BY <2>1, <1>5, <1>11, <1>18
  <2>6. Stage(s, e, p + 1, i)
    BY <2>4, <2>5, <1>2, <1>3, <1>6, <1>8, <1>9, <1>10, <1>18, <1>23, <1>26 DEF Stage, HeaderStates, DataStates
  <2>7. DecTypeOK(e) BY <2>4, <1>21, <1>24 DEF HeaderStates
  <2>8. Levels(s, e, i) BY <2>4, <1>25 DEF DataStates
  <2> QED BY <2>4, <2>5, <2>6, <2>7, <2>8, <1>1, <1>2, <1>10, <1>18, <1>20, <1>23
<1>28. CASE d.state = "UNPACK1"
  <2>1. p = a + 2 /\ d.unpackSize = 0
    <3>1. p - a = 2 /\ d.unpackSize = 0 BY <1>28, <1>3 DEF Stage
    <3> QED BY <3>1, <1>5
  <2>2. b = u - 1 BY <2>1, <1>4, <1>12, <1>18
  <2>3. e = [d EXCEPT !.unpackSize = d.unpackSize + b + 1,
                      !.state = IF x < 128 THEN "DATA" ELSE "PACK0"]
    BY <1>28, <1>4, <1>15 DEF UpdateState, IsUncompressed
  <2>z. /\ e.state = (IF x < 128 THEN "DATA" ELSE "PACK0") /\ e.packSize = d.packSize
        /\ e.unpackSize = d.unpackSize + b + 1 /\ e.probs = d.probs
    BY <2>3, <1>22a DEF DecForm
  <2>4. /\ e.state = (IF x < 128 THEN "DATA" ELSE "PACK0") /\ e.packSize = d.packSize
        /\ e.unpackSize = 0 + (u - 1) + 1 /\ e.probs = d.probs
    BY <2>1, <2>2, <2>z
  <2>x. e.unpackSize = u BY <2>4, <1>11
  <2>5. (p + 1) - a = 3 /\ p + 1 <= a + (h + m) /\ (x < 128 => h = 3)
        /\ (x < 128 <=> ~(x >= 128))
    BY <2>1, <1>5, <1>11, <1>18
  <2>6. Stage(s, e, p + 1, i)
    BY <2>4, <2>x, <2>5, <1>2, <1>3, <1>6, <1>8, <1>9, <1>10, <1>18, <1>23, <1>26 DEF Stage, HeaderStates, DataStates
  <2>7. DecTypeOK(e)
    <3>1. u \in 0 .. 256 BY <1>11
    <3> QED BY <3>1, <2>4, <2>x, <1>21, <1>24 DEF HeaderStates, DataStates
  <2>9. e.state \in DataStates => HeaderOK(s, i)
    BY <2>4, <1>11, <1>16, <1>17 DEF DataStates
  <2>8. Levels(s, e, i) BY <2>4, <2>9, <1>25
  <2> QED BY <2>4, <2>5, <2>6, <2>7, <2>8, <1>1, <1>2, <1>10, <1>18, <1>20, <1>23
<1>29. CASE d.state = "PACK0"
  <2>1. p = a + 3 /\ d.unpackSize = u /\ x >= 128
    <3>1. p - a = 3 /\ d.unpackSize = u /\ x >= 128
      BY <1>29, <1>2, <1>3, <1>8, <1>10 DEF Stage
    <3> QED BY <3>1, <1>5
  <2>2. b = 0 BY <2>1, <1>4, <1>12
  <2>3. e = [d EXCEPT !.packSize = 0 * 256, !.state = "PACK1"]
    BY <1>29, <1>4, <2>2 DEF UpdateState
  <2>z. /\ e.state = "PACK1" /\ e.unpackSize = d.unpackSize /\ e.packSize = 0 * 256
        /\ e.probs = d.probs
    BY <2>3, <1>22a DEF DecForm
  <2>4. e.state = "PACK1" /\ e.unpackSize = u /\ e.packSize = 0 /\ e.probs = d.probs
    BY <2>1, <2>z
  <2>5. (p + 1) - a = 4 /\ p + 1 <= a + (h + m) BY <2>1, <1>5, <1>11
  <2>6. Stage(s, e, p + 1, i)
    BY <2>1, <2>4, <2>5, <1>2, <1>3, <1>6, <1>8, <1>9, <1>10, <1>18, <1>23, <1>26 DEF Stage, HeaderStates, DataStates
  <2>7. DecTypeOK(e)
    <3>1. u \in 0 .. 256 BY <1>11
    <3> QED BY <3>1, <2>4, <1>21, <1>24 DEF HeaderStates
  <2>8. Levels(s, e, i) BY <2>4, <1>25 DEF DataStates
  <2> QED BY <2>4, <2>5, <2>6, <2>7, <2>8, <1>1, <1>2, <1>10, <1>18, <1>20, <1>23
<1>30. CASE d.state = "PACK1"
  <2>1. p = a + 4 /\ d.unpackSize = u /\ x >= 128 /\ d.packSize = 0
    <3>1. p - a = 4 /\ d.unpackSize = u /\ x >= 128 /\ d.packSize = 0
      BY <1>30, <1>2, <1>3, <1>8, <1>10 DEF Stage
    <3> QED BY <3>1, <1>5
  <2>2. b = v - 1 BY <2>1, <1>4, <1>12
  <2>y. HasProp(x) <=> x >= 192 BY <1>11, <2>1 DEF HasProp
  <2>3. e = [d EXCEPT !.packSize = d.packSize + b + 1,
                      !.state = IF HasProp(x) THEN "PROP" ELSE "DATA"]
    BY <1>30, <1>4, <1>15 DEF UpdateState
  <2>z. /\ e.state = (IF HasProp(x) THEN "PROP" ELSE "DATA") /\ e.unpackSize = d.unpackSize
        /\ e.packSize = d.packSize + b + 1 /\ e.probs = d.probs
    BY <2>3, <1>22a DEF DecForm
  <2>4. /\ e.state = (IF x >= 192 THEN "PROP" ELSE "DATA") /\ e.unpackSize = u
        /\ e.packSize = 0 + (v - 1) + 1 /\ e.probs = d.probs
    BY <2>1, <2>2, <2>z, <2>y
  <2>x. e.packSize = v BY <2>4, <1>11
  <2>5. (p + 1) - a = 5 /\ p + 1 <= a + (h + m) /\ (~(x >= 192) => h = 5)
    BY <2>1, <1>5, <1>11
  <2>6. Stage(s, e, p + 1, i)
    <3>1. CASE x >= 192
      <4>1. e.state = "PROP" BY <2>4, <3>1
      <4> QED
        BY <2>1, <2>4, <2>x, <2>5, <4>1, <3>1, <1>2, <1>3, <1>6, <1>8, <1>9, <1>10, <1>18,
           <1>23, <1>26
        DEF Stage
    <3>2. CASE ~(x >= 192)
      <4>1. e.state = "DATA" /\ h = 5 BY <2>4, <2>5, <3>2
      <4>2. /\ e.control = s[i].control /\ s[i].control # 0 /\ e.unpackSize = s[i].unpack
            /\ (p + 1) - Places(s)[i] = Len(Header(s[i])) /\ e.packSize = s[i].pack
        BY <2>4, <2>x, <2>5, <4>1, <1>2, <1>3, <1>6, <1>8, <1>9, <1>10, <1>18, <1>23
      <4> QED BY <4>1, <4>2, <1>26, StageData
    <3> QED BY <3>1, <3>2
  <2>7. DecTypeOK(e)
    <3>1. u \in 0 .. 256 /\ v \in 0 .. 256 BY <1>11
    <3> QED BY <3>1, <2>4, <2>x, <1>21, <1>24 DEF HeaderStates, DataStates
  <2>9. e.state \in DataStates => HeaderOK(s, i)
    BY <2>1, <2>4, <1>11, <1>16, <1>17 DEF DataStates
  <2>8. Levels(s, e, i) BY <2>4, <2>9, <1>25
  <2> QED BY <2>4, <2>5, <2>6, <2>7, <2>8, <1>1, <1>2, <1>10, <1>18, <1>20, <1>23
<1>31. CASE d.state = "PROP"
  <2>1. p = a + 5 /\ d.unpackSize = u /\ x >= 192 /\ d.packSize = v
    <3>1. p - a = 5 /\ d.unpackSize = u /\ x >= 192 /\ d.packSize = v
      BY <1>31, <1>2, <1>3, <1>8, <1>9, <1>10 DEF Stage
    <3> QED BY <3>1, <1>5
  <2>2. b = IF c.prop THEN 93 ELSE 225 BY <2>1, <1>4, <1>12
  <2>y. PropOK(b) <=> c.prop BY <2>2 DEF PropOK
  <2>3. e = IF c.prop THEN [d EXCEPT !.state = "DATA", !.probs = FALSE]
                      ELSE [d EXCEPT !.state = "ERROR"]
    BY <1>31, <1>4, <2>y DEF UpdateState
  <2>4. /\ e.state = (IF c.prop THEN "DATA" ELSE "ERROR") /\ e.unpackSize = u
        /\ e.packSize = v /\ e.probs \in BOOLEAN
    <3>1. CASE c.prop
      <4>1. e = [d EXCEPT !.state = "DATA", !.probs = FALSE] BY <2>3, <3>1
      <4>2. /\ e.state = "DATA" /\ e.unpackSize = d.unpackSize /\ e.packSize = d.packSize
            /\ e.probs = FALSE
        BY <4>1, <1>22a DEF DecForm
      <4> QED BY <4>2, <2>1, <3>1
    <3>2. CASE ~c.prop
      <4>1. e = [d EXCEPT !.state = "ERROR"] BY <2>3, <3>2
      <4>2. /\ e.state = "ERROR" /\ e.unpackSize = d.unpackSize /\ e.packSize = d.packSize
            /\ e.probs = d.probs
        BY <4>1, <1>22a DEF DecForm
      <4> QED BY <4>2, <2>1, <3>2, <1>21
    <3> QED BY <3>1, <3>2
  <2>5. (p + 1) - a = 6 /\ p + 1 <= a + (h + m) /\ h = 6 /\ x >= 128 /\ ~(x < 128)
    BY <2>1, <1>5, <1>11
  <2>6. Stage(s, e, p + 1, i)
    BY <2>1, <2>4, <2>5, <1>2, <1>3, <1>6, <1>8, <1>9, <1>10, <1>18, <1>23, <1>26 DEF Stage, HeaderStates, DataStates
  <2>7. DecTypeOK(e)
    <3>1. u \in 0 .. 256 /\ v \in 0 .. 256 BY <1>11
    <3> QED BY <3>1, <2>4, <1>21, <1>24 DEF HeaderStates, DataStates
  <2>9. /\ e.state \in DataStates => HeaderOK(s, i)
        /\ e.state = "ERROR" => ~HeaderOK(s, i)
    BY <2>1, <2>4, <1>11, <1>16, <1>17 DEF DataStates
  <2>8. Levels(s, e, i) BY <2>4, <2>9, <1>25
  <2> QED BY <2>1, <2>4, <2>5, <2>6, <2>7, <2>8, <2>9, <1>1, <1>2, <1>10, <1>18, <1>20, <1>23
<1> QED BY <1>22, <1>27, <1>28, <1>29, <1>30, <1>31

(* What a byte of a header leaves as it was.                                 *)
LEMMA HeaderRead ==
  ASSUME NEW s \in ChunkStreams, NEW p \in Nat, p < Size(s), NEW d, DecTypeOK(d),
         NEW i, At(s, p, i), Stage(s, d, p, i), Levels(s, d, i), d.state \in HeaderStates,
         NEW e, e = UpdateState(d, ByteAt(s, p)),
         NEW j, j = IF d.state = "CONTROL" THEN i + 1 ELSE i
  PROVE /\ j \in 1 .. Len(s) /\ At(s, p + 1, j) /\ DecTypeOK(e)
        /\ Stage(s, e, p + 1, j) /\ Levels(s, e, j)
        /\ e.state = "ERROR" => ~HeaderOK(s, j)
        /\ e.dicPos = d.dicPos /\ e.start = d.start
        /\ e.state \in {"UNPACK0", "UNPACK1", "PACK0", "PACK1", "PROP", "DATA", "FINISHED", "ERROR"}
        /\ e.state # "FINISHED" => s[j].control # 0
        /\ e.isExtraMode => d.isExtraMode /\ d.state # "CONTROL"
<1>1. CASE d.state = "CONTROL"
  <2>1. j = i + 1 BY <1>1
  <2> HIDE DEF DecTypeOK, HeaderStates
  <2> QED BY <1>1, <2>1, ReadControl
<1>2. CASE d.state # "CONTROL"
  <2>1. j = i BY <1>2
  <2>2. /\ i \in 1 .. Len(s) /\ At(s, p + 1, i) /\ DecTypeOK(e)
        /\ Stage(s, e, p + 1, i) /\ Levels(s, e, i)
        /\ e.state = "ERROR" => ~HeaderOK(s, i)
        /\ e.dicPos = d.dicPos /\ e.start = d.start /\ e.isExtraMode = d.isExtraMode
        /\ e.state \in {"UNPACK1", "PACK0", "PACK1", "PROP", "DATA", "ERROR"}
        /\ s[i].control # 0
    BY <1>2, ReadSize
  <2> QED BY <1>2, <2>1, <2>2
<1> QED BY <1>1, <1>2

LEMMA PassedHeader ==
  ASSUME NEW s, NEW d, NEW i \in Nat, NEW e, NEW decodes, Passed(s, d, i, decodes),
         e.state # "CONTROL", NEW j, j = IF d.state = "CONTROL" THEN i + 1 ELSE i
  PROVE Passed(s, e, j, decodes)
<1> SUFFICES ASSUME NEW n \in 1 .. j, n < j
             PROVE HeaderOK(s, n) /\ IF decodes THEN DataOK(s[n]) ELSE HeadOK(s[n])
  BY DEF Passed
<1>1. n \in 1 .. i /\ (n < i \/ d.state = "CONTROL") OBVIOUS
<1> QED BY <1>1 DEF Passed

LEMMA TokensNone ==
  ASSUME NEW i \in Nat, NEW from \in Nat
  PROVE Tokens(i, from, 0) = <<>>
<1>1. 0 \in Nat OBVIOUS
<1>2. Tokens(i, from, 0) \in Seq(Bytes) /\ Len(Tokens(i, from, 0)) = 0 BY <1>1, TokensAre
<1> QED BY <1>2, EmptySeq

LEMMA TextStart ==
  ASSUME NEW s \in ChunkStreams, NEW i \in 1 .. Len(s)
  PROVE TextOf(s)[i - 1] = TextOf(s)[i - 1] \o Tokens(i, 0, 0)
<1>1. Tokens(i, 0, 0) = <<>>
  <2>1. i \in Nat /\ 0 \in Nat OBVIOUS
  <2> QED BY <2>1, TokensNone
<1>2. TextOf(s)[i - 1] \in Seq(Bytes)
  <2>1. i - 1 \in 0 .. Len(s) BY ChunkTypes
  <2> QED BY <2>1, TextIs
<1> QED BY <1>1, <1>2, ConcatEmptySeq

LEMMA TextGrows ==
  ASSUME NEW s \in ChunkStreams, NEW i \in 1 .. Len(s), NEW m \in Nat, NEW n \in Nat
  PROVE (TextOf(s)[i - 1] \o Tokens(i, 0, m)) \o Tokens(i, m, n)
          = TextOf(s)[i - 1] \o Tokens(i, 0, m + n)
<1>1. PICK a \in Seq(Bytes) : a = TextOf(s)[i - 1]
  <2>1. i - 1 \in 0 .. Len(s) BY ChunkTypes
  <2> QED BY <2>1, TextIs
<1>0. i \in Nat /\ 0 \in Nat OBVIOUS
<1>2. PICK b \in Seq(Bytes) : b = Tokens(i, 0, m) BY <1>0, TokensAre
<1>3. PICK c \in Seq(Bytes) : c = Tokens(i, m, n) BY <1>0, TokensAre
<1>4. b \o c = Tokens(i, 0, m + n) BY <1>0, <1>2, <1>3, TokensJoin
<1>5. (a \o b) \o c = a \o (b \o c) BY Assoc
<1> QED BY <1>1, <1>2, <1>3, <1>4, <1>5

LEMMA TextHeader ==
  ASSUME NEW s \in ChunkStreams, NEW p \in Nat, NEW d, NEW i \in 0 .. Len(s),
         Stage(s, d, p, i), d.state \in HeaderStates, NEW t, TextSoFar(s, d, t, i),
         NEW e, e.state # "CONTROL", e.state # "DATA_CONT",
         NEW j \in 1 .. Len(s), j = IF d.state = "CONTROL" THEN i + 1 ELSE i,
         e.state = "DATA" => e.unpackSize = s[j].unpack
  PROVE TextSoFar(s, e, t, j)
<1>1. t = TextOf(s)[j - 1]
  <2>1. CASE d.state = "CONTROL" /\ i = 0
    <3>1. t = <<>> /\ j - 1 = 0 BY <2>1 DEF TextSoFar
    <3> QED BY <3>1, TextIs
  <2>2. CASE d.state = "CONTROL" /\ i # 0
    <3>0. i > 0 /\ i \in 1 .. Len(s) /\ j - 1 = i BY <2>2
    <3>1. PICK m \in 0 .. s[i].unpack :
            /\ t = TextOf(s)[i - 1] \o Tokens(i, 0, m)
            /\ d.state # "ERROR" => m = Made(s, d, i)
      BY <3>0 DEF TextSoFar
    <3>2. d.unpackSize = 0 /\ s[i].control # 0 BY <2>2, <3>0 DEF Stage
    <3>3. m = s[i].unpack - 0 BY <2>2, <3>0, <3>1, <3>2 DEF Made
    <3>4. s[i].unpack - 0 = s[i].unpack BY <3>0, ChunkTypes
    <3>5. t = TextOf(s)[i - 1] \o Adds(s, i) BY <3>1, <3>2, <3>3, <3>4 DEF Adds
    <3> QED BY <3>0, <3>5, TextIs
  <2>3. CASE d.state # "CONTROL"
    <3>0. i > 0 /\ i \in 1 .. Len(s) /\ j = i BY <2>3 DEF Stage
    <3>1. PICK m \in 0 .. s[i].unpack :
            /\ t = TextOf(s)[i - 1] \o Tokens(i, 0, m)
            /\ d.state # "ERROR" => m = Made(s, d, i)
      BY <3>0 DEF TextSoFar
    <3>2. d.state # "ERROR" /\ d.state \notin DataStates \cup {"CONTROL"}
      BY <2>3 DEF HeaderStates, DataStates
    <3>3. m = 0 BY <3>1, <3>2 DEF Made
    <3> QED BY <3>0, <3>1, <3>3, TextStart
  <2> QED BY <2>1, <2>2, <2>3
<1>2. t = TextOf(s)[j - 1] \o Tokens(j, 0, 0) BY <1>1, TextStart
<1>3. PICK u : u = s[j].unpack OBVIOUS
<1>4. u \in Nat
  <2>1. s[j].unpack \in Nat BY ChunkTypes
  <2> QED BY <2>1, <1>3
<1>5. Made(s, e, j) = 0
  <2>1. CASE e.state = "DATA"
    <3>1. Made(s, e, j) = u - u BY <2>1, <1>3 DEF Made, DataStates
    <3> QED BY <3>1, <1>4
  <2>2. CASE e.state # "DATA"
    <3>1. e.state \notin DataStates \cup {"CONTROL"} BY <2>2 DEF DataStates
    <3> QED BY <3>1 DEF Made
  <2> QED BY <2>1, <2>2
<1>6. 0 \in 0 .. s[j].unpack /\ j > 0 /\ j # 0 BY <1>3, <1>4
<1> QED BY <1>2, <1>5, <1>6 DEF TextSoFar

LEMMA ProbsHeader ==
  ASSUME NEW s \in ChunkStreams, NEW p \in Nat, p < Size(s), NEW d, DecTypeOK(d),
         NEW i, At(s, p, i), Stage(s, d, p, i), Levels(s, d, i), d.state \in HeaderStates,
         NEW e, e = UpdateState(d, ByteAt(s, p)),
         NEW j, j = IF d.state = "CONTROL" THEN i + 1 ELSE i,
         ProbsSoFar(s, d, i), e.state # "ERROR"
  PROVE ProbsSoFar(s, e, j)
<1>0. PICK x : x = s[j].control OBVIOUS
<1>1. CASE d.state = "CONTROL"
  <2>1. /\ j \in 1 .. Len(s) /\ Levels(s, e, j) /\ e.probs = d.probs
        /\ e.state \in {"UNPACK0", "FINISHED", "ERROR"}
        /\ d.needInitLevel = Need(s)[j] /\ (i = 0 => d.needInitLevel = 224)
    <3>1. j = i + 1 BY <1>1
    <3> QED BY <3>1, <1>1, ReadControl
  <2>2. /\ x \in {0, 1, 2, 3, 128, 160, 192, 224} /\ Need(s)[j] \in {0, 192, 224}
    BY <1>0, <2>1, ChunkOf, NeedIs
  <2>3. ControlOK(s, j) /\ e.needInitLevel = After(x, Need(s)[j])
    BY <2>1, <1>0 DEF Levels
  <2>4. i > 0 /\ d.needInitLevel = 0 => d.probs BY <1>1 DEF ProbsSoFar
  <2>5. i \in Nat BY <2>1, <1>1 DEF At
  <2>6. Need(s)[j] = 0 => d.probs BY <2>1, <2>4, <2>5
  <2>7. x < 128 /\ e.needInitLevel = 0 => Need(s)[j] = 0 BY <2>2, <2>3 DEF After
  <2>8. x \in {128, 160} => Need(s)[j] = 0 BY <2>2, <2>3, <1>0 DEF ControlOK
  <2>9. e.state # "CONTROL" /\ e.state # "DATA_CONT" BY <2>1
  <2> QED BY <2>1, <2>6, <2>7, <2>8, <2>9, <1>0 DEF ProbsSoFar
<1>2. CASE d.state # "CONTROL"
  <2>1. /\ j = i /\ i \in 1 .. Len(s) /\ e.needInitLevel = d.needInitLevel
        /\ e.state \in {"UNPACK1", "PACK0", "PACK1", "PROP", "DATA", "ERROR"}
        /\ e.probs = d.probs \/ x >= 192
    BY <1>0, <1>2, ReadSize
  <2>2. e.state # "CONTROL" /\ e.state # "DATA_CONT" BY <2>1
  <2>3. /\ x < 128 /\ d.needInitLevel = 0 => d.probs
        /\ x \in {128, 160} => d.probs
    BY <2>1, <1>0 DEF ProbsSoFar
  <2>4. (x < 128 \/ x \in {128, 160}) => ~(x >= 192)
    <3>1. x \in {0, 1, 2, 3, 128, 160, 192, 224} BY <1>0, <2>1, ChunkOf
    <3> QED BY <3>1
  <2> QED BY <2>1, <2>2, <2>3, <2>4, <1>0 DEF ProbsSoFar
<1> QED BY <1>1, <1>2

LEMMA DecodedHeader ==
  ASSUME NEW s \in ChunkStreams, NEW p \in Nat, p < Size(s), NEW d, DecTypeOK(d),
         NEW i, At(s, p, i), Stage(s, d, p, i), Levels(s, d, i), d.state \in HeaderStates,
         NEW e, e = UpdateState(d, ByteAt(s, p)),
         NEW j, j = IF d.state = "CONTROL" THEN i + 1 ELSE i,
         NEW t, Decoded(s, d, t, i)
  PROVE Decoded(s, e, t, j)
<1>1. /\ j \in 1 .. Len(s) /\ Stage(s, e, p + 1, j) /\ e.dicPos = d.dicPos
      /\ e.state \in {"UNPACK0", "UNPACK1", "PACK0", "PACK1", "PROP", "DATA", "FINISHED", "ERROR"}
  BY HeaderRead
<1>2. e.state = "DATA" => e.unpackSize = s[j].unpack BY <1>1 DEF Stage
<1>3. TextSoFar(s, e, t, j)
  <2>1. i \in 0 .. Len(s) BY DEF At
  <2>2. TextSoFar(s, d, t, i) BY DEF Decoded
  <2>3. e.state # "CONTROL" /\ e.state # "DATA_CONT" BY <1>1
  <2> HIDE DEF HeaderStates
  <2> QED BY <1>1, <1>2, <2>1, <2>2, <2>3, TextHeader
<1>4. e.state # "ERROR" => ProbsSoFar(s, e, j)
  <2>1. d.state # "ERROR" BY DEF HeaderStates
  <2>2. ProbsSoFar(s, d, i) BY <2>1 DEF Decoded
  <2> QED BY <2>2, ProbsHeader
<1>5. d.dicPos <= DicBufSize BY DEF Decoded
<1> QED BY <1>1, <1>3, <1>4, <1>5 DEF Decoded

LEMMA ParsedHeader ==
  ASSUME NEW s \in ChunkStreams, NEW p \in Nat, p < Size(s), NEW d, DecTypeOK(d),
         NEW i, At(s, p, i), Stage(s, d, p, i), Levels(s, d, i), d.state \in HeaderStates,
         NEW e, e = UpdateState(d, ByteAt(s, p)),
         NEW j, j = IF d.state = "CONTROL" THEN i + 1 ELSE i,
         Parsed(s, d, i)
  PROVE Parsed(s, e, j)
<1>1. /\ j \in 1 .. Len(s) /\ Stage(s, e, p + 1, j)
      /\ e.state = "ERROR" => ~HeaderOK(s, j)
      /\ e.dicPos = d.dicPos /\ e.start = d.start
      /\ e.state \in {"UNPACK0", "UNPACK1", "PACK0", "PACK1", "PROP", "DATA", "FINISHED", "ERROR"}
      /\ e.isExtraMode => d.isExtraMode /\ d.state # "CONTROL"
  BY HeaderRead
<1>2. e.state = "DATA" => e.unpackSize = s[j].unpack BY <1>1 DEF Stage
<1>3. Made(s, e, j) = 0
  <2>1. CASE e.state = "DATA"
    <3>1. PICK u : u = s[j].unpack OBVIOUS
    <3>2. u \in Nat
      <4>1. s[j].unpack \in Nat BY <1>1, ChunkTypes
      <4> QED BY <3>1, <4>1
    <3>3. Made(s, e, j) = u - u \/ Made(s, e, j) = 0 BY <2>1, <3>1, <1>2 DEF Made
    <3> QED BY <3>2, <3>3
  <2>2. CASE e.state # "DATA"
    <3>1. e.state \notin DataStates \cup {"CONTROL"} BY <1>1, <2>2 DEF DataStates
    <3> QED BY <3>1 DEF Made
  <2> QED BY <2>1, <2>2
<1>4. ASSUME \A n \in 1 .. j : ChunkOK(s, n)
      PROVE d.dicPos = Reach(s, Places(s)[j])
  <2>1. CASE d.state = "CONTROL" /\ i = 0
    <3>1. d.dicPos = 0 BY <2>1 DEF Parsed
    <3>2. Places(s)[j] = 0 BY <2>1, PlacesAre
    <3> QED BY <3>1, <3>2, ReachStart
  <2>2. CASE d.state = "CONTROL" /\ i # 0
    <3>0. i \in 1 .. Len(s) /\ i > 0 /\ j = i + 1
      <4>1. i \in 0 .. Len(s) BY DEF At
      <4> QED BY <4>1, <2>2, <1>1
    <3>1. \A n \in 1 .. i : ChunkOK(s, n)
      <4>1. \A n \in 1 .. i : n \in 1 .. j BY <3>0
      <4> QED BY <4>1, <1>4
    <3>2. d.dicPos = Reach(s, Places(s)[i]) + Made(s, d, i) BY <3>0, <3>1 DEF Parsed
    <3>3. d.unpackSize = 0 /\ s[i].control # 0 BY <2>2, <3>0 DEF Stage
    <3>4. Made(s, d, i) = s[i].unpack - 0 BY <2>2, <3>0, <3>3 DEF Made
    <3>5. s[i].unpack - 0 = s[i].unpack BY <3>0, ChunkTypes
    <3> QED BY <3>0, <3>2, <3>3, <3>4, <3>5, ReachNext
  <2>3. CASE d.state # "CONTROL"
    <3>0. i > 0 /\ j = i BY <2>3 DEF Stage
    <3>1. d.dicPos = Reach(s, Places(s)[i]) + Made(s, d, i) BY <3>0, <1>4 DEF Parsed
    <3>2. d.state \notin DataStates \cup {"CONTROL"} BY <2>3 DEF HeaderStates, DataStates
    <3>3. Made(s, d, i) = 0 BY <3>2 DEF Made
    <3>4. Reach(s, Places(s)[j]) \in Nat
      <4>1. Places(s)[j] \in Nat /\ Places(s)[j + 1] \in Nat BY <1>1, PlacesType
      <4>2. Places(s)[j] <= Places(s)[j] BY <4>1
      <4>3. Places(s)[j] <= Places(s)[j + 1]
        <5>1. PICK a \in Nat : a = Places(s)[j] BY <4>1
        <5>2. PICK b \in Nat : b = DataSize(s[j]) BY <1>1, Span
        <5>3. PICK h \in 1 .. 6 : h = Len(Header(s[j])) BY <1>1, Span
        <5>4. Places(s)[j + 1] = a + (h + b) BY <1>1, <5>1, <5>2, <5>3, Span
        <5>5. a <= a + (h + b) OBVIOUS
        <5> QED BY <5>1, <5>4, <5>5
      <4> QED BY <1>1, <4>1, <4>2, <4>3, ReachIn
    <3> QED BY <3>0, <3>1, <3>3, <3>4
  <2> QED BY <2>1, <2>2, <2>3
<1>5. \A n \in Nat : n = n + 0 OBVIOUS
<1>6. (\A n \in 1 .. j : ChunkOK(s, n)) => e.dicPos = Reach(s, Places(s)[j]) + Made(s, e, j)
  <2>1. d.dicPos \in Nat BY DEF DecTypeOK
  <2> QED BY <1>1, <1>3, <1>4, <1>5, <2>1
<1>7. e.start = 2 BY <1>1 DEF Parsed
<1>8. e.state \in {"UNPACK0", "UNPACK1", "PACK0", "PACK1", "PROP", "FINISHED"} => ~e.isExtraMode
  <2>1. d.state \in {"UNPACK0", "UNPACK1", "PACK0", "PACK1", "PROP"} => ~d.isExtraMode
    BY DEF Parsed
  <2> QED BY <2>1, <1>1 DEF HeaderStates
<1>9. j > 0 /\ j # 0 /\ e.state # "DATA_CONT" BY <1>1
<1> QED BY <1>1, <1>6, <1>7, <1>8, <1>9 DEF Parsed

(* What the LZMA decoder makes of a piece of a chunk.                        *)
LzmaChunk(c) ==
  /\ c.unpack \in Nat /\ c.pack \in Nat /\ c.head \in BOOLEAN /\ c.clean \in BOOLEAN
  /\ \A k \in 0 .. c.pack : c.yield[k] \in Nat /\ (k < InitSize => c.yield[k] = 0)
  /\ \A k \in 0 .. c.pack : \A j \in 0 .. k : c.yield[j] <= c.yield[k]
  /\ c.stop \in {0} \cup InitSize .. c.pack
  /\ c.control >= 128
Stuck(c, used, made, r) ==
  \/ r.res # "ok"
  \/ r.status = "needs_more_input" /\ used + r.in = c.pack
  \/ /\ r.status # "needs_more_input" /\ r.in = 0 /\ r.wrote = 0
     /\ ~(r.status = "maybe_finished_without_mark" /\ made = c.unpack /\ used = c.pack)
Closes(c, used, made, r) ==
  /\ r.status = "maybe_finished_without_mark" /\ r.in = 0 /\ r.wrote = 0
  /\ made = c.unpack /\ used = c.pack

LEMMA PieceRight ==
  ASSUME NEW c, LzmaChunk(c), NEW used \in Nat, NEW n \in Nat, used + n <= c.pack,
         NEW made \in Nat, NEW room \in Nat, made + room <= c.unpack,
         NEW mode \in {"any", "end"}, mode = "end" => made + room = c.unpack,
         Seen(c, used, made), NEW r, r = LzmaDecode(c, used, made, n, room, mode)
  PROVE /\ r.in \in 0 .. n /\ r.wrote \in 0 .. room
        /\ r.status = "needs_more_input" => r.in = n
        /\ r.res = "ok" => Seen(c, used + r.in, made + r.wrote)
        /\ Stuck(c, used, made, r) => ~DataOK(c) \/ (room = 0 /\ mode = "any")
        /\ Closes(c, used, made, r) => DataOK(c)
<1> DEFINE all  == used + n
           goal == made + room
           stops == c.stop \in 1 .. all
           last == IF stops THEN c.stop ELSE all
           res  == IF c.clean THEN "ok" ELSE "data"
           status == IF c.clean THEN "finished_with_mark" ELSE "none"
           ready == {k \in InitSize .. last : c.yield[k] >= goal}
           k    == CHOOSE k \in ready : \A j \in ready : k <= j
           at   == IF k > used THEN k ELSE used
           more == {j \in k + 1 .. last : c.yield[j] > c.yield[k]}
           j    == CHOOSE j \in more : \A h \in more : j <= h
<1>0. InitSize \in Nat /\ InitSize >= 1 BY Limits
<1>1. PICK y : y = c.yield OBVIOUS
<1>2. PICK u : u = c.unpack OBVIOUS
<1>3. PICK v : v = c.pack OBVIOUS
<1>4. PICK st : st = c.stop OBVIOUS
<1>5. PICK ex : ex = c.exact OBVIOUS
<1>6. /\ u \in Nat /\ v \in Nat /\ c.head \in BOOLEAN /\ c.clean \in BOOLEAN
      /\ \A i \in 0 .. v : y[i] \in Nat /\ (i < InitSize => y[i] = 0)
      /\ \A i \in 0 .. v : \A h \in 0 .. i : y[h] <= y[i]
      /\ st \in {0} \cup InitSize .. v
  BY <1>1, <1>2, <1>3, <1>4 DEF LzmaChunk
<1>7. /\ used > 0 => c.head
      /\ made <= y[used]
      /\ st # 0 => used <= st
      /\ \A i \in InitSize .. used - 1 : y[i] <= made
      /\ \A i \in InitSize .. used - 1 :
           y[i] = u /\ (\A h \in InitSize .. i - 1 : y[h] < u) => i \notin ex
  BY <1>1, <1>2, <1>4, <1>5 DEF Seen
<1>8. ASSUME NEW a, NEW b,
             a > 0 => c.head,
             b <= y[a],
             st # 0 => a <= st,
             \A i \in InitSize .. a - 1 : y[i] <= b,
             \A i \in InitSize .. a - 1 :
               y[i] = u /\ (\A h \in InitSize .. i - 1 : y[h] < u) => i \notin ex
      PROVE Seen(c, a, b)
  BY <1>8, <1>1, <1>2, <1>4, <1>5 DEF Seen
<1>9. DataOK(c) <=> /\ c.head /\ v >= InitSize /\ v \in ex /\ y[v] = u /\ st \in {0, v}
                    /\ y[v - 1] < u \/ v = InitSize
  BY <1>1, <1>2, <1>3, <1>4, <1>5 DEF DataOK, LzmaChunk
<1>10. used + n <= v /\ made + room <= u /\ (mode = "end" => made + room = u)
  BY <1>2, <1>3
<1>11. all \in Nat /\ goal \in Nat /\ all <= v /\ goal <= u /\ used <= all /\ made <= goal
  BY <1>6, <1>10
<1>12. /\ last \in 0 .. all /\ used <= last
       /\ stops => last = st /\ st \in InitSize .. v /\ st <= all
       /\ ~stops => last = all /\ (st # 0 => st > all)
  <2>1. stops <=> st \in 1 .. all BY <1>4
  <2>2. last = IF stops THEN st ELSE all BY <1>4
  <2> HIDE DEF stops, last
  <2>3. CASE stops BY <2>1, <2>2, <2>3, <1>0, <1>6, <1>7, <1>11
  <2>4. CASE ~stops BY <2>1, <2>2, <2>4, <1>0, <1>6, <1>7, <1>11
  <2> QED BY <2>3, <2>4
<1>13. /\ \A i \in InitSize .. last : i \notin ready => y[i] < goal
       /\ \A i \in ready : i \in InitSize .. last /\ i \in 0 .. v /\ y[i] >= goal
  <2>1. ready = {i \in InitSize .. last : y[i] >= goal} BY <1>1
  <2>2. \A i \in InitSize .. last : i \in 0 .. v
    <3>1. last \in Nat /\ last <= v
      <4> HIDE DEF last, all
      <4> QED BY <1>6, <1>11, <1>12
    <3> HIDE DEF last
    <3> QED BY <3>1, <1>0, <1>6
  <2> HIDE DEF ready, last, goal, all
  <2> QED BY <2>1, <2>2, <1>6, <1>11
<1>14. ready # {} =>
         /\ k \in ready
         /\ \A i \in InitSize .. k - 1 : y[i] < goal
  <2> SUFFICES ASSUME ready # {}
               PROVE k \in ready /\ \A i \in InitSize .. k - 1 : y[i] < goal
    OBVIOUS
  <2>1. ready \in SUBSET Nat
    <3>1. \A i \in InitSize .. last : i \in Nat BY <1>0, <1>12
    <3> HIDE DEF last
    <3> QED BY <3>1
  <2>2. \E i \in ready : \A h \in ready : i <= h
    <3> HIDE DEF ready
    <3> QED BY <2>1, LeastNatural
  <2>3. k \in ready /\ \A i \in ready : k <= i
    <3> HIDE DEF ready
    <3> QED BY <2>2
  <2> HIDE DEF ready, k, last, goal
  <2>4. \A i \in InitSize .. k - 1 : i \in InitSize .. last /\ ~(k <= i)
    BY <2>3, <1>0, <1>12, <1>13
  <2> QED BY <2>3, <2>4, <1>13
<1>15. ready # {} /\ more # {} => j \in k + 1 .. last /\ y[j] > y[k]
  <2> SUFFICES ASSUME ready # {}, more # {} PROVE j \in k + 1 .. last /\ y[j] > y[k]
    OBVIOUS
  <2>1. more = {i \in k + 1 .. last : y[i] > y[k]} BY <1>1
  <2>2. k \in Nat
    <3>1. k \in InitSize .. last BY <1>13, <1>14
    <3> HIDE DEF k, last
    <3> QED BY <3>1, <1>0, <1>12
  <2> HIDE DEF more, k, last
  <2>3. \A i \in more : i \in k + 1 .. last /\ y[i] > y[k] BY <2>1
  <2>4. more \in SUBSET Nat BY <2>2, <2>3
  <2>5. \E i \in more : \A h \in more : i <= h BY <2>4, LeastNatural
  <2>6. j \in more BY <2>5
  <2> QED BY <2>3, <2>6
<1>16. ready # {} /\ more = {} => \A i \in k + 1 .. last : ~(y[i] > y[k])
  <2>1. more = {i \in k + 1 .. last : y[i] > y[k]} BY <1>1
  <2> HIDE DEF more, k, last
  <2> QED BY <2>1
<1>17. r = IF all > 0 /\ ~c.head
           THEN Outcome(IF InitSize - used < n THEN InitSize - used ELSE n, 0, "data", "none")
           ELSE IF all < InitSize
           THEN Outcome(n, 0, "ok", "needs_more_input")
           ELSE IF ready = {}
           THEN IF stops
                THEN Outcome(st - used, y[st] - made, res, status)
                ELSE Outcome(n, y[all] - made, "ok", "needs_more_input")
           ELSE IF y[k] = goal /\ k \in ex
           THEN Outcome(at - used, room, "ok", "maybe_finished_without_mark")
           ELSE IF mode = "any"
           THEN Outcome(at - used, room, "ok", "not_finished")
           ELSE IF y[k] > goal
           THEN Outcome(at - used, room, "data", "none")
           ELSE IF more /= {}
           THEN Outcome(j - used, room, "data", "none")
           ELSE IF stops
           THEN Outcome(st - used, room, res, status)
           ELSE Outcome(n, room, "ok", "needs_more_input")
  BY SMTT(40), <1>1, <1>4, <1>5 DEF LzmaDecode
<1>18. res \in {"ok", "data"} /\ (res = "ok" => status = "finished_with_mark")
       /\ status \in {"finished_with_mark", "none"}
  OBVIOUS
<1>19. \A a, b, x, z : LET o == Outcome(a, b, x, z) IN
         o.in = a /\ o.wrote = b /\ o.res = x /\ o.status = z
  BY DEF Outcome
<1>20. ASSUME NEW a, NEW b, NEW x, NEW z, r = Outcome(a, b, x, z)
       PROVE r.in = a /\ r.wrote = b /\ r.res = x /\ r.status = z
  BY <1>20 DEF Outcome
<1>21. goal = made + room /\ all = used + n /\ at = (IF k > used THEN k ELSE used)
  OBVIOUS
<1>22. Stuck(c, used, made, r) =>
         \/ r.res # "ok"
         \/ r.status = "needs_more_input" /\ used + r.in = v
         \/ /\ r.status # "needs_more_input" /\ r.in = 0 /\ r.wrote = 0
            /\ ~(r.status = "maybe_finished_without_mark" /\ made = u /\ used = v)
  BY <1>2, <1>3 DEF Stuck
<1>23. Closes(c, used, made, r) =>
         /\ r.status = "maybe_finished_without_mark" /\ r.in = 0 /\ r.wrote = 0
         /\ made = u /\ used = v
  BY <1>2, <1>3 DEF Closes
<1> HIDE DEF all, goal, stops, last, res, status, ready, k, at, more, j
<1>24. /\ used + (all - used) = all /\ made + room = goal
       /\ \A x \in Int : used + (x - used) = x /\ made + (x - made) = x
  BY <1>11, <1>21
<1>25. /\ used \in 0 .. v /\ last \in 0 .. v /\ all \in 0 .. v
       /\ y[used] \in Nat /\ y[last] \in Nat /\ y[all] \in Nat /\ y[v] \in Nat
       /\ made <= y[last] /\ y[last] <= y[v]
  <2>1. /\ used \in 0 .. v /\ last \in 0 .. v /\ all \in 0 .. v /\ v \in 0 .. v
        /\ used \in 0 .. last /\ last \in 0 .. v
    BY <1>6, <1>11, <1>12
  <2>2. y[used] \in Nat /\ y[last] \in Nat /\ y[all] \in Nat /\ y[v] \in Nat BY <2>1, <1>6
  <2>3. y[used] <= y[last] /\ y[last] <= y[v] BY <2>1, <1>6
  <2> QED BY <2>1, <2>2, <2>3, <1>7
<1>27. last \in Nat /\ last <= v /\ used \in Nat /\ used <= v BY <1>6, <1>25
<1>26. \A x : x \in Nat => x - x = 0 /\ x + 0 = x OBVIOUS
<1>30. CASE all > 0 /\ ~c.head
  <2>1. r = Outcome(IF InitSize - used < n THEN InitSize - used ELSE n, 0, "data", "none")
    BY <1>17, <1>30
  <2>2. used = 0 BY <1>7, <1>30
  <2>3. r.in = (IF InitSize - used < n THEN InitSize - used ELSE n) /\ r.wrote = 0
        /\ r.res = "data" /\ r.status = "none"
    BY <2>1, <1>20
  <2>4. r.in \in 0 .. n BY <2>2, <2>3, <1>0
  <2>5. ~DataOK(c) BY <1>9, <1>30
  <2>6. ~Closes(c, used, made, r) BY <2>3, <1>23
  <2> QED BY <2>3, <2>4, <2>5, <2>6
<1>31. CASE ~(all > 0 /\ ~c.head) /\ all < InitSize
  <2>1. r = Outcome(n, 0, "ok", "needs_more_input") BY <1>17, <1>31
  <2>2. r.in = n /\ r.wrote = 0 /\ r.res = "ok" /\ r.status = "needs_more_input"
    BY <2>1, <1>20
  <2>3. used + r.in = all /\ made + r.wrote = made BY <2>2, <1>21
  <2>4. Seen(c, all, made)
    <3>1. all > 0 => c.head BY <1>31, <1>6
    <3>2. made <= y[all]
      <4>1. all \in 0 .. v /\ used \in 0 .. all BY <1>6, <1>11
      <4>2. y[used] <= y[all] /\ y[used] \in Nat /\ y[all] \in Nat BY <4>1, <1>6, <1>11
      <4> QED BY <4>2, <1>7
    <3>3. st # 0 => all <= st BY <1>0, <1>6, <1>11, <1>31
    <3>4. \A i \in InitSize .. all - 1 : FALSE BY <1>0, <1>11, <1>31
    <3> QED BY <3>1, <3>2, <3>3, <3>4, <1>8
  <2>5. Stuck(c, used, made, r) => ~DataOK(c)
    <3>1. Stuck(c, used, made, r) => all = v BY <1>22, <2>2, <2>3
    <3>2. all = v => ~(v >= InitSize) BY <1>0, <1>6, <1>31
    <3> QED BY <3>1, <3>2, <1>9
  <2>6. ~Closes(c, used, made, r) BY <2>2, <1>23
  <2> QED BY <2>2, <2>3, <2>4, <2>5, <2>6
<1> DEFINE Begun == ~(all > 0 /\ ~c.head) /\ ~(all < InitSize)
<1>32. Begun => c.head /\ all >= InitSize /\ all > 0 /\ last >= InitSize
  BY <1>0, <1>6, <1>11, <1>12
<1>33. CASE Begun /\ ready = {}
  <2>0. /\ c.head /\ all >= InitSize /\ last >= InitSize /\ last \in InitSize .. last
    BY <1>0, <1>12, <1>32, <1>33
  <2>1. /\ y[last] < goal /\ y[last] < u
        /\ \A i \in InitSize .. last : y[i] < goal /\ y[i] < u
        /\ \A i \in InitSize .. last - 1 : y[i] <= y[last]
    <3>1. \A i \in InitSize .. last : y[i] < goal BY <1>13, <1>33
    <3>2. \A i \in InitSize .. last : i \in 0 .. v /\ y[i] \in Nat BY <1>0, <1>6, <1>25
    <3>3. \A i \in InitSize .. last - 1 : i \in 0 .. last /\ y[i] <= y[last]
      BY <1>0, <1>6, <1>25
    <3> QED BY <2>0, <3>1, <3>2, <3>3, <1>6, <1>11
  <2>2. Seen(c, last, y[last])
    <3>1. st # 0 => last <= st BY <1>6, <1>12
    <3>2. \A i \in InitSize .. last - 1 : i \in InitSize .. last BY <1>0, <1>12
    <3>3. \A i \in InitSize .. last - 1 : y[i] # u
      <4>1. \A i \in InitSize .. last : i \in 0 .. v /\ y[i] \in Nat BY <1>0, <1>6, <1>25
      <4> QED BY <3>2, <4>1, <2>1, <1>6
    <3>4. y[last] <= y[last] BY <1>25
    <3> QED BY <2>0, <2>1, <3>1, <3>3, <3>4, <1>8
  <2>3. made + (y[last] - made) = y[last] /\ y[last] - made \in 0 .. room
    BY <2>1, <1>11, <1>21, <1>25
  <2>4. CASE stops
    <3>1. r = Outcome(last - used, y[last] - made, res, status)
      BY <1>12, <1>17, <1>33, <2>4 DEF Begun
    <3>2. r.in = last - used /\ r.wrote = y[last] - made /\ r.res = res /\ r.status = status
      BY <3>1, <1>20
    <3>3. used + r.in = last /\ r.in \in 0 .. n BY <3>2, <1>12, <1>21, <1>11
    <3>4. ~DataOK(c) BY <1>6, <1>9, <1>12, <1>0, <2>1, <2>4, <1>25
    <3>5. r.status # "needs_more_input" /\ r.status # "maybe_finished_without_mark"
      BY <3>2, <1>18
    <3> QED BY <2>2, <2>3, <3>2, <3>3, <3>4, <3>5, <1>23
  <2>5. CASE ~stops
    <3>1. r = Outcome(n, y[last] - made, "ok", "needs_more_input")
      BY <1>12, <1>17, <1>33, <2>5 DEF Begun
    <3>2. r.in = n /\ r.wrote = y[last] - made /\ r.res = "ok" /\ r.status = "needs_more_input"
      BY <3>1, <1>20
    <3>3. used + r.in = last BY <3>2, <1>12, <1>21, <2>5
    <3>4. Stuck(c, used, made, r) => ~DataOK(c)
      <4>1. Stuck(c, used, made, r) => last = v BY <1>22, <3>2, <3>3
      <4>2. last = v => y[v] < u BY <2>1
      <4> QED BY <4>1, <4>2, <1>9, <1>6, <1>25
    <3> QED BY <2>2, <2>3, <3>2, <3>3, <3>4, <1>23
  <2> QED BY <2>4, <2>5
<1>35. ASSUME Begun, ready # {}
       PROVE /\ k \in InitSize .. last /\ k \in Nat /\ at \in used .. last /\ k <= at
             /\ y[k] \in Nat /\ y[k] >= goal /\ y[at] >= goal
             /\ (at = used \/ at = k) /\ (at = used => k <= used) /\ last <= v
             /\ (at # used => at = k /\ k > used) /\ k \in 0 .. v /\ y[k] <= y[v]
  <2>1. k \in InitSize .. last /\ k \in 0 .. v /\ y[k] >= goal BY <1>13, <1>14, <1>35
  <2>2. k \in Nat /\ y[k] \in Nat BY <2>1, <1>6
  <2>3. at \in used .. last /\ k <= at /\ (at = used \/ at = k) /\ (at = used => k <= used)
        /\ (at # used => at = k /\ k > used) /\ last <= v
    BY <2>1, <2>2, <1>12, <1>21, <1>25
  <2>4. at \in 0 .. v /\ k \in 0 .. at /\ v \in 0 .. v /\ k \in 0 .. v
    <3>1. at \in Nat /\ at <= last BY <2>3, <1>27
    <3> QED BY <3>1, <2>1, <2>2, <2>3, <1>6, <1>27
  <2>5. y[k] <= y[at] /\ y[at] \in Nat /\ y[k] <= y[v] BY <2>4, <1>6
  <2>6. y[at] >= goal BY <2>1, <2>2, <2>5, <1>11
  <2> QED BY <2>1, <2>2, <2>3, <2>5, <2>6
<1>36. ASSUME Begun, ready # {}
       PROVE Seen(c, at, goal)
  <2>0. /\ k \in Nat /\ at \in used .. last /\ (at = used \/ at = k) /\ (at = used => k <= used)
        /\ (at # used => at = k /\ k > used) /\ y[at] >= goal /\ c.head
    BY <1>35, <1>36, <1>32
  <2>1. goal <= y[at]
    <3>1. at \in 0 .. v
      <4>1. at \in Nat /\ at <= last BY <2>0, <1>27
      <4> QED BY <4>1, <1>6, <1>27
    <3> QED BY <2>0, <3>1, <1>6, <1>11
  <2>2. st # 0 => at <= st BY <2>0, <1>6, <1>12
  <2>3. \A i \in InitSize .. k - 1 : y[i] < goal BY <1>14, <1>36
  <2>4. CASE at = used
    <3>1. \A i \in InitSize .. used - 1 : i \in 0 .. v /\ y[i] \in Nat BY <1>0, <1>6, <1>25
    <3>2. \A i \in InitSize .. used - 1 : y[i] <= goal BY <3>1, <1>7, <1>11
    <3> QED BY <2>0, <2>1, <2>2, <2>4, <3>2, <1>7, <1>8
  <2>5. CASE at # used
    <3>1. at = k BY <2>0, <2>5
    <3>2. \A i \in InitSize .. k - 1 : i \in 0 .. v /\ y[i] \in Nat
      BY <2>0, <3>1, <1>0, <1>6, <1>25
    <3>3. \A i \in InitSize .. k - 1 : y[i] <= goal /\ y[i] # u
      BY <2>3, <3>2, <1>6, <1>11
    <3> QED BY <2>0, <2>1, <2>2, <3>1, <3>3, <1>8
  <2> QED BY <2>4, <2>5
<1>36a. ASSUME Begun, ready # {}
        PROVE at - used \in 0 .. n /\ used + (at - used) = at /\ (at - used = 0 => k <= used)
  <2>1. at \in used .. last /\ (at = used => k <= used) BY <1>35, <1>36a
  <2>2. last \in 0 .. all /\ all = used + n BY <1>12, <1>21
  <2> QED BY <2>1, <2>2
(* The last symbol that fits leaves a code of 0: too early, or just right.   *)
<1>37. CASE Begun /\ ready # {} /\ y[k] = goal /\ k \in ex
  <2>1. r = Outcome(at - used, room, "ok", "maybe_finished_without_mark")
    BY <1>17, <1>37 DEF Begun
  <2>2. r.in = at - used /\ r.wrote = room /\ r.res = "ok"
        /\ r.status = "maybe_finished_without_mark"
    BY <2>1, <1>20
  <2>3. Seen(c, at, goal) BY <1>36, <1>37
  <2>4. used + r.in = at /\ made + r.wrote = goal /\ r.in \in 0 .. n /\ r.wrote \in 0 .. room
    BY <2>2, <1>36a, <1>37, <1>21
  <2>5. /\ k \in InitSize .. last /\ k \in Nat /\ last <= v /\ y[k] <= y[v] /\ k \in 0 .. v
    BY <1>35, <1>37
  <2>6. Stuck(c, used, made, r) => ~DataOK(c) \/ (room = 0 /\ mode = "any")
    <3> SUFFICES ASSUME r.in = 0, r.wrote = 0, ~(made = u /\ used = v), ~(room = 0 /\ mode = "any"),
                        DataOK(c)
                 PROVE FALSE
      BY <2>2, <1>22
    <3>1. room = 0 /\ mode = "end" /\ k <= used BY <2>2, <1>36a, <1>37
    <3>2. goal = u /\ made = u BY <3>1, <1>10, <1>21
    <3>3. used < v
      <4>1. used # v BY <3>2
      <4> QED BY <4>1, <1>6, <1>27
    <3>4. v # InitSize BY <3>1, <3>3, <2>5, <1>0, <1>6, <1>25
    <3>5. k \in 0 .. v - 1 /\ v - 1 \in 0 .. v BY <3>1, <3>3, <2>5, <1>0, <1>6, <1>25
    <3>6. y[k] <= y[v - 1] /\ y[v - 1] \in Nat BY <3>5, <1>6
    <3>7. ~(y[v - 1] < u) BY <3>2, <3>6, <1>37, <1>6
    <3> QED BY <3>4, <3>7, <1>9
  <2>7. Closes(c, used, made, r) => DataOK(c)
    <3> SUFFICES ASSUME r.in = 0, r.wrote = 0, made = u, used = v PROVE DataOK(c)
      BY <1>23
    <3>1. room = 0 /\ goal = u /\ k <= used /\ y[k] = u BY <2>2, <1>36a, <1>37, <1>21, <1>26, <1>6
    <3>2. \A i \in InitSize .. k - 1 : y[i] < u BY <1>14, <1>37, <3>1
    <3>3. k = v
      <4> SUFFICES ASSUME k # v PROVE FALSE OBVIOUS
      <4>1. k \in InitSize .. used - 1 BY <3>1, <2>5, <1>0, <1>6, <1>25
      <4> QED BY <4>1, <3>1, <3>2, <1>7, <1>37
    <3>4. c.head /\ v >= InitSize BY <1>32, <1>37, <2>5, <3>3, <1>0, <1>6, <1>12
    <3>5. st \in {0, v} BY <1>6, <1>7, <1>0
    <3>6. y[v - 1] < u \/ v = InitSize
      <4> SUFFICES ASSUME v # InitSize PROVE y[v - 1] < u OBVIOUS
      <4>1. v - 1 \in InitSize .. k - 1 BY <3>3, <3>4, <1>0, <1>6
      <4> QED BY <4>1, <3>2
    <3> QED BY <3>1, <3>3, <3>4, <3>5, <3>6, <1>37, <1>9
  <2> QED BY <2>2, <2>3, <2>4, <2>6, <2>7
<1>38. CASE Begun /\ ready # {} /\ ~(y[k] = goal /\ k \in ex) /\ mode = "any"
  <2>1. r = Outcome(at - used, room, "ok", "not_finished")
    BY <1>17, <1>38 DEF Begun
  <2>2. r.in = at - used /\ r.wrote = room /\ r.res = "ok" /\ r.status = "not_finished"
    BY <2>1, <1>20
  <2>3. Seen(c, at, goal) BY <1>36, <1>38
  <2>4. used + r.in = at /\ made + r.wrote = goal /\ r.in \in 0 .. n /\ r.wrote \in 0 .. room
    BY <2>2, <1>36a, <1>38, <1>21
  <2>5. Stuck(c, used, made, r) => room = 0 /\ mode = "any" BY <2>2, <1>22, <1>38
  <2>6. ~Closes(c, used, made, r) BY <2>2, <1>23
  <2> QED BY <2>2, <2>3, <2>4, <2>5, <2>6
<1> DEFINE Ending == Begun /\ ready # {} /\ ~(y[k] = goal /\ k \in ex) /\ mode # "any"
<1>38a. ASSUME Ending
        PROVE /\ goal = u /\ Begun /\ ready # {} /\ mode = "end" /\ ~(room = 0 /\ mode = "any")
              /\ k \in InitSize .. last /\ k \in Nat /\ last <= v /\ y[k] <= y[v] /\ k \in 0 .. v
              /\ y[k] \in Nat /\ y[k] >= u /\ (~(y[k] > goal) => y[k] = u /\ k \notin ex)
              /\ c.head
  <2>1. goal = u /\ mode = "end" BY <1>38a, <1>10, <1>21
  <2> QED BY <2>1, <1>38a, <1>35, <1>6, <1>11, <1>32
<1>39. CASE Ending /\ y[k] > goal
  <2>1. r = Outcome(at - used, room, "data", "none")
    BY <1>17, <1>39 DEF Begun, Ending
  <2>2. r.in = at - used /\ r.wrote = room /\ r.res = "data" /\ r.status = "none"
    BY <2>1, <1>20
  <2>3. r.in \in 0 .. n /\ r.wrote \in 0 .. room BY <2>2, <1>36a, <1>38a, <1>39
  <2>4. ~DataOK(c) BY <1>38a, <1>39, <1>9, <1>6, <1>25
  <2> QED BY <2>2, <2>3, <2>4, <1>23
<1>40. CASE Ending /\ ~(y[k] > goal) /\ more # {}
  <2>1. r = Outcome(j - used, room, "data", "none")
    BY <1>17, <1>40 DEF Begun, Ending
  <2>2. r.in = j - used /\ r.wrote = room /\ r.res = "data" /\ r.status = "none"
    BY <2>1, <1>20
  <2>3. j \in k + 1 .. last /\ y[j] > u /\ k \in InitSize .. last /\ k \in Nat
    BY <1>15, <1>38a, <1>40
  <2>4. j \in Nat /\ j \in 0 .. v /\ y[j] \in Nat /\ y[j] <= y[v]
    <3>1. j \in 0 .. v /\ v \in 0 .. v BY <2>3, <1>0, <1>6, <1>25
    <3> QED BY <3>1, <1>6
  <2>5. j >= used
    <3> SUFFICES ASSUME j < used PROVE FALSE BY <2>4
    <3>1. j \in InitSize .. used - 1 BY <2>3, <2>4, <1>0, <1>25
    <3>2. y[j] <= made BY <3>1, <1>7
    <3> QED BY <2>3, <2>4, <3>2, <1>6, <1>10
  <2>6. r.in \in 0 .. n /\ r.wrote \in 0 .. room BY <2>2, <2>3, <2>4, <2>5, <1>12, <1>21
  <2>7. ~DataOK(c) BY <2>3, <2>4, <1>9, <1>6, <1>25
  <2> QED BY <2>2, <2>6, <2>7, <1>23
<1>41. CASE Ending /\ ~(y[k] > goal) /\ more = {}
  <2>1. /\ goal = u /\ k \in InitSize .. last /\ k \in Nat /\ last <= v /\ y[k] = u /\ k \notin ex
        /\ c.head
    BY <1>38a, <1>41
  <2>2. \A i \in InitSize .. last : i \in 0 .. v /\ y[i] \in Nat /\ y[i] <= u
    <3>1. \A i \in InitSize .. last : i \in 0 .. v /\ y[i] \in Nat BY <1>0, <1>6, <1>25
    <3>2. \A i \in InitSize .. k - 1 : y[i] < u BY <1>14, <1>38a, <1>41
    <3>3. \A i \in k + 1 .. last : ~(y[i] > y[k]) BY <1>16, <1>38a, <1>41
    <3> TAKE i \in InitSize .. last
    <3>4. i \in InitSize .. k - 1 \/ i = k \/ i \in k + 1 .. last BY <2>1, <1>0
    <3> QED BY <3>1, <3>2, <3>3, <3>4, <2>1, <1>6
  <2>3. u <= y[last]
    <3>1. last \in 0 .. v /\ k \in 0 .. last BY <2>1, <1>25
    <3>2. y[k] <= y[last] BY <3>1, <1>6
    <3> QED BY <3>2, <2>1
  <2>4. Seen(c, last, u)
    <3>1. st # 0 => last <= st BY <1>6, <1>12
    <3>2. \A i \in InitSize .. last - 1 : i \in InitSize .. last BY <1>0, <1>12
    <3>3. \A i \in InitSize .. last - 1 : y[i] <= u BY <3>2, <2>2
    <3>4. ASSUME NEW i \in InitSize .. last - 1, y[i] = u, \A h \in InitSize .. i - 1 : y[h] < u
          PROVE i \notin ex
      <4>1. \A h \in InitSize .. k - 1 : y[h] < u BY <1>14, <1>38a, <1>41
      <4>2. i = k
        <5>1. i \in Nat /\ i >= InitSize BY <1>0
        <5>2. CASE i < k
          <6>1. i \in InitSize .. k - 1 BY <5>1, <5>2, <2>1
          <6> QED BY <6>1, <4>1, <3>4, <1>6
        <5>3. CASE i > k
          <6>1. k \in InitSize .. i - 1 BY <5>1, <5>3, <2>1
          <6> QED BY <6>1, <3>4, <2>1, <1>6
        <5> QED BY <5>1, <5>2, <5>3, <2>1
      <4> QED BY <4>2, <2>1
    <3> QED BY <2>1, <2>3, <3>1, <3>3, <3>4, <1>8
  <2>5. made + room = u BY <2>1, <1>21
  <2>6. ASSUME last = v PROVE ~DataOK(c)
    <3> SUFFICES ASSUME DataOK(c) PROVE FALSE OBVIOUS
    <3>1. v \in ex /\ (y[v - 1] < u \/ v = InitSize) BY <1>9
    <3>2. k # v BY <3>1, <2>1
    <3>3. v # InitSize /\ k \in 0 .. v - 1 /\ v - 1 \in 0 .. v
      BY <3>2, <2>1, <2>6, <1>0, <1>6
    <3>4. y[k] <= y[v - 1] /\ y[v - 1] \in Nat BY <3>3, <1>6
    <3> QED BY <3>1, <3>3, <3>4, <2>1, <1>6
  <2>7. CASE stops
    <3>1. r = Outcome(last - used, room, res, status)
      BY <1>12, <1>17, <1>41, <2>7 DEF Begun, Ending
    <3>2. r.in = last - used /\ r.wrote = room /\ r.res = res /\ r.status = status
      BY <3>1, <1>20
    <3>3. used + r.in = last /\ r.in \in 0 .. n /\ r.wrote \in 0 .. room
      BY <3>2, <1>12, <1>21, <1>11
    <3>4. ~DataOK(c)
      <4>1. st \in {0, v} => last = v BY <2>7, <1>0, <1>12
      <4> QED BY <4>1, <2>6, <1>9
    <3>5. r.status # "needs_more_input" /\ r.status # "maybe_finished_without_mark"
      BY <3>2, <1>18
    <3> QED BY <2>4, <2>5, <3>2, <3>3, <3>4, <3>5, <1>23
  <2>8. CASE ~stops
    <3>1. r = Outcome(n, room, "ok", "needs_more_input")
      BY <1>17, <1>41, <2>8 DEF Begun, Ending
    <3>2. r.in = n /\ r.wrote = room /\ r.res = "ok" /\ r.status = "needs_more_input"
      BY <3>1, <1>20
    <3>3. used + r.in = last /\ r.in \in 0 .. n /\ r.wrote \in 0 .. room
      BY <3>2, <1>12, <1>21, <2>8
    <3>4. Stuck(c, used, made, r) => ~DataOK(c)
      <4>1. Stuck(c, used, made, r) => last = v BY <1>22, <3>2, <3>3
      <4> QED BY <4>1, <2>6
    <3> QED BY <2>4, <2>5, <3>2, <3>3, <3>4, <1>23
  <2> QED BY <2>7, <2>8
<1> HIDE DEF Begun, Ending
<1> QED
  <2>1. ~Begun => (all > 0 /\ ~c.head) \/ (~(all > 0 /\ ~c.head) /\ all < InitSize) BY DEF Begun
  <2>2. Begun /\ ready # {} /\ ~Ending => (y[k] = goal /\ k \in ex) \/ mode = "any" BY DEF Ending
  <2> QED BY <2>1, <2>2, <1>30, <1>31, <1>33, <1>37, <1>38, <1>39, <1>40, <1>41

(* What a step makes of the call.                                            *)
Back(c, res, status) == [c EXCEPT !.pc = "return", !.res = res, !.status = status]
LEMMA BackForm ==
  ASSUME NEW c, CallTypeOK(c), NEW res, NEW status \in Statuses, NEW b, b = Back(c, res, status)
  PROVE /\ CallTypeOK(b) /\ b.kind = c.kind
        /\ b.pc = "return" /\ b.res = res /\ b.status = status
        /\ b.end = c.end /\ b.limit = c.limit /\ b.curMode = c.curMode /\ b.size = c.size
        /\ b.from = c.from
<1>1. CallForm(c) BY DEF CallTypeOK
<1>2. /\ b.kind = c.kind
      /\ b.pc = "return" /\ b.res = res /\ b.status = status
      /\ b.end = c.end /\ b.limit = c.limit /\ b.curMode = c.curMode /\ b.size = c.size
      /\ b.mode = c.mode /\ b.from = c.from
  BY <1>1 DEF CallForm, Back
<1>3. CallForm(b) BY <1>1 DEF CallForm, Back
<1>4. CallTypeOK(b)
  <2>1. /\ c.kind \in {"dic", "buf", "parse"}
        /\ {c.mode, c.curMode} \subseteq {"any", "end"}
        /\ {c.size, c.from, c.limit, c.end} \subseteq Nat
    BY DEF CallTypeOK
  <2> QED BY <1>2, <1>3, <2>1 DEF CallTypeOK
<1> QED BY <1>2, <1>4

LEMMA Returns ==
  ASSUME NEW c, CallTypeOK(c), c.pc # "idle", NEW res, NEW status \in Statuses,
         NEW b, b = Back(c, res, status),
         NEW s, NEW d, NEW p, NEW i, p <= c.end, c.end <= Size(s),
         c.kind # "parse" => c.from <= d.dicPos /\ d.dicPos <= c.limit /\ c.limit <= DicBufSize,
         c.kind # "parse" /\ d.state = "ERROR" => res = "data"
  PROVE InCall(s, d, p, i, b)
<1>1. /\ b.kind = c.kind /\ b.pc = "return" /\ b.res = res
      /\ b.end = c.end /\ b.limit = c.limit /\ b.from = c.from
  BY BackForm
<1> QED BY <1>1 DEF InCall

LEMMA GoesOn ==
  ASSUME NEW s, NEW d, NEW p, NEW i, NEW c, CallTypeOK(c), InCall(s, d, p, i, c),
         c.pc \in {"decode", "parse"},
         NEW e, NEW q, NEW j, q <= c.end,
         c.pc = "decode" => c.from <= e.dicPos /\ e.dicPos <= c.limit,
         c.pc = "decode" /\ e.state = "ERROR" => ~ChunkOK(s, j)
  PROVE InCall(s, e, q, j, c) /\ Result(s, e, q, j, c)
BY DEF InCall, Result

(* The places a byte of a header leads to.                                   *)
LEMMA HereHeader ==
  ASSUME NEW s \in ChunkStreams, NEW p \in Nat, p < Size(s), NEW d, DecTypeOK(d),
         NEW t, NEW i, NEW decodes \in BOOLEAN, Here(s, d, p, t, i, decodes),
         d.state \in HeaderStates, NEW e, e = UpdateState(d, ByteAt(s, p)),
         NEW j, j = IF d.state = "CONTROL" THEN i + 1 ELSE i
  PROVE Here(s, e, p + 1, t, j, decodes)
<1>1. At(s, p, i) /\ Stage(s, d, p, i) /\ Levels(s, d, i) /\ Passed(s, d, i, decodes)
  BY DEF Here
<1>2. /\ At(s, p + 1, j) /\ Stage(s, e, p + 1, j) /\ Levels(s, e, j)
      /\ e.state \in {"UNPACK0", "UNPACK1", "PACK0", "PACK1", "PROP", "DATA", "FINISHED", "ERROR"}
  BY <1>1, HeaderRead
<1>3. Passed(s, e, j, decodes)
  <2>1. i \in Nat BY <1>1, ChunkTypes DEF At
  <2>2. e.state # "CONTROL" BY <1>2
  <2> QED BY <1>1, <2>1, <2>2, PassedHeader
<1>4. decodes => Decoded(s, e, t, j)
  <2>1. decodes => Decoded(s, d, t, i) BY DEF Here
  <2> QED BY <1>1, <2>1, DecodedHeader
<1>5. ~decodes => Parsed(s, e, j)
  <2>1. ~decodes => Parsed(s, d, i) BY DEF Here
  <2> QED BY <1>1, <2>1, ParsedHeader
<1> QED BY <1>2, <1>3, <1>4, <1>5 DEF Here

(* A decoder gives up.                                                       *)
LEMMA HereError ==
  ASSUME NEW s, NEW d, NEW p, NEW t, NEW i, i > 0,
         At(s, p, i), Passed(s, d, i, TRUE),
         NEW m \in 0 .. s[i].unpack, t = TextOf(s)[i - 1] \o Tokens(i, 0, m),
         s[i].control = 0 => m = 0, i # 0,
         NEW e, e.state = "ERROR", e.dicPos <= DicBufSize
  PROVE Here(s, e, p, t, i, TRUE)
<1>1. Stage(s, e, p, i) BY DEF Stage
<1>2. Levels(s, e, i) BY DEF Levels, DataStates
<1>3. Passed(s, e, i, TRUE) BY DEF Passed
<1>4. TextSoFar(s, e, t, i) BY DEF TextSoFar
<1>5. Decoded(s, e, t, i) BY <1>4 DEF Decoded
<1> QED BY <1>1, <1>2, <1>3, <1>5 DEF Here

LEMMA ChunkIs ==
  ASSUME stream \in ChunkStreams, src \in Nat, NEW i, i > 0, At(stream, src, i)
  PROVE Chunk = i
<1> DEFINE In(j) == Places(stream)[j] < src /\ src <= Places(stream)[j + 1]
<1>1. i \in 1 .. Len(stream) /\ In(i) BY ChunkTypes DEF At
<1>2. \A j \in 1 .. Len(stream) : In(j) => j = i
  <2> TAKE j \in 1 .. Len(stream)
  <2> HAVE In(j)
  <2>1. At(stream, src, j)
    <3>1. j \in 0 .. Len(stream) /\ j # 0 BY ChunkTypes
    <3> QED BY <3>1 DEF At
  <2> QED BY <2>1, Unique
<1>3. Chunk = CHOOSE j \in 1 .. Len(stream) : In(j) BY DEF Chunk
<1> HIDE DEF In
<1> QED BY <1>1, <1>2, <1>3

LEMMA InvParts ==
  ASSUME Lzma2Inv
  PROVE /\ stream \in ChunkStreams /\ src \in Nat /\ DecTypeOK(dec) /\ CallTypeOK(call)
        /\ \E i \in 0 .. Len(stream) :
             /\ Here(stream, dec, src, text, i, call.kind # "parse")
             /\ InCall(stream, dec, src, i, call) /\ Result(stream, dec, src, i, call)
             /\ At(stream, src, i) /\ Stage(stream, dec, src, i) /\ Levels(stream, dec, i)
             /\ Passed(stream, dec, i, call.kind # "parse")
             /\ call.kind # "parse" => Decoded(stream, dec, text, i)
             /\ call.kind = "parse" => Parsed(stream, dec, i)
             /\ i > 0 => Chunk = i
<1>1. stream \in ChunkStreams /\ src \in Nat /\ DecTypeOK(dec) /\ CallTypeOK(call)
  BY DEF Lzma2Inv
<1>2. PICK i \in 0 .. Len(stream) : Standing(stream, dec, src, text, i, call) BY DEF Lzma2Inv
<1>3. /\ Here(stream, dec, src, text, i, call.kind # "parse")
      /\ InCall(stream, dec, src, i, call) /\ Result(stream, dec, src, i, call)
  BY <1>2 DEF Standing
<1>4. /\ At(stream, src, i) /\ Stage(stream, dec, src, i) /\ Levels(stream, dec, i)
      /\ Passed(stream, dec, i, call.kind # "parse")
      /\ call.kind # "parse" => Decoded(stream, dec, text, i)
      /\ call.kind = "parse" => Parsed(stream, dec, i)
  BY <1>3 DEF Here
<1>5. i > 0 => Chunk = i BY <1>1, <1>4, ChunkIs
<1> QED BY <1>1, <1>2, <1>3, <1>4, <1>5

(* The invariant holds behind a step that leads to chunk i.                  *)
LEMMA InvNext ==
  ASSUME NEW s \in ChunkStreams, stream' = s, NEW p \in Nat, src' = p,
         NEW d, DecTypeOK(d), dec' = d, NEW c, CallTypeOK(c), call' = c,
         NEW t, text' = t, NEW i, Here(s, d, p, t, i, c.kind # "parse"),
         InCall(s, d, p, i, c), Result(s, d, p, i, c)
  PROVE Lzma2Inv'
<1>1. Standing(s, d, p, t, i, c) BY DEF Standing
<1>2. i \in 0 .. Len(s) BY DEF Here, At
<1>3. Standing(stream', dec', src', text', i, call') BY <1>1
<1> QED BY <1>2, <1>3 DEF Lzma2Inv

LEMMA EndPlace ==
  ASSUME NEW s \in ChunkStreams, NEW p \in Nat, NEW i \in 1 .. Len(s),
         s[i].control = 0, p - Places(s)[i] = 1
  PROVE p = Places(s)[i] + 1 /\ p = Places(s)[i + 1]
<1>1. PICK x : x = Places(s)[i] OBVIOUS
<1>2. PICK y : y = Places(s)[i + 1] OBVIOUS
<1>3. x \in Nat /\ y = x + (1 + 0) BY <1>1, <1>2, Span, ChunkOf
<1>4. p - x = 1 BY <1>1
<1>5. p = x + 1 /\ p = y BY <1>3, <1>4
<1> QED BY <1>1, <1>2, <1>5

(* What every decoding or parsing step knows of its call.                    *)
LEMMA CallIs ==
  ASSUME NEW s, NEW d, NEW p, NEW i, NEW c, CallTypeOK(c), InCall(s, d, p, i, c),
         DecTypeOK(d), c.pc \in {"decode", "parse"}
  PROVE /\ c.pc # "idle" /\ p <= c.end /\ c.end <= Size(s) /\ c.end \in Nat
        /\ c.limit \in Nat /\ c.from \in Nat /\ c.size \in Nat /\ d.dicPos \in Nat
        /\ c.curMode \in {"any", "end"}
        /\ c.pc = "decode" <=> c.kind # "parse"
        /\ c.pc = "decode" =>
             c.from <= d.dicPos /\ d.dicPos <= c.limit /\ c.limit <= DicBufSize
        /\ c.pc = "decode" /\ d.state = "ERROR" => ~ChunkOK(s, i)
<1>1. c.pc # "idle" /\ (c.pc = "decode" <=> c.kind # "parse") BY DEF InCall
<1>2. /\ {c.size, c.from, c.limit, c.end} \subseteq Nat
      /\ {c.mode, c.curMode} \subseteq {"any", "end"}
  BY DEF CallTypeOK
<1>3. d.dicPos \in Nat BY DEF DecTypeOK
<1>4. p <= c.end /\ c.end <= Size(s) BY <1>1 DEF InCall
<1>5. c.pc = "decode" => c.from <= d.dicPos /\ d.dicPos <= c.limit /\ c.limit <= DicBufSize
  BY <1>1 DEF InCall
<1>6. c.pc = "decode" /\ d.state = "ERROR" => ~ChunkOK(s, i) BY <1>1 DEF InCall
<1> QED BY <1>1, <1>2, <1>3, <1>4, <1>5, <1>6

-----------------------------------------------------------------------------
(* The steps of Lzma2Dec_DecodeToDic.                                        *)

LEMMA EndsDecode ==
  ASSUME Lzma2Inv, DecodeEnds
  PROVE Lzma2Inv'
<1>1. /\ stream \in ChunkStreams /\ src \in Nat /\ DecTypeOK(dec) /\ CallTypeOK(call)
  BY InvParts
<1>2. PICK i \in 0 .. Len(stream) :
        /\ Here(stream, dec, src, text, i, call.kind # "parse")
        /\ InCall(stream, dec, src, i, call) /\ Stage(stream, dec, src, i)
  BY InvParts
<1>3. call.pc = "decode" BY DEF DecodeEnds
<1>4. call.pc \in {"decode", "parse"} BY <1>3
<1>5. /\ call.pc # "idle" /\ src <= call.end /\ call.end <= Size(stream)
      /\ call.limit \in Nat /\ dec.dicPos \in Nat /\ call.kind # "parse"
      /\ call.from <= dec.dicPos /\ dec.dicPos <= call.limit /\ call.limit <= DicBufSize
      /\ dec.state = "ERROR" => ~ChunkOK(stream, i)
  BY <1>1, <1>2, <1>3, <1>4, CallIs
<1>6. PICK res, status :
        /\ Return(res, status)
        /\ \/ dec.state = "ERROR" /\ res = "data" /\ status = "none"
           \/ dec.state = "FINISHED" /\ res = "ok" /\ status = "finished_with_mark"
           \/ /\ dec.state # "ERROR" /\ Full /\ call.curMode = "any"
              /\ res = "ok" /\ status = "not_finished"
  BY DEF DecodeEnds, InHeader, InData
<1>7. PICK b : b = Back(call, res, status) OBVIOUS
<1>8. status \in Statuses BY <1>6 DEF Statuses
<1>9. /\ CallTypeOK(b) /\ InCall(stream, dec, src, i, b) /\ b.kind = call.kind
      /\ b.pc = "return" /\ b.res = res /\ b.status = status
      /\ b.end = call.end /\ b.limit = call.limit /\ b.curMode = call.curMode
  <2>1. call.kind # "parse" /\ dec.state = "ERROR" => res = "data" BY <1>6
  <2>2. call.kind # "parse" =>
          call.from <= dec.dicPos /\ dec.dicPos <= call.limit /\ call.limit <= DicBufSize
    BY <1>5
  <2>3. CallTypeOK(call) /\ call.pc # "idle" /\ src <= call.end /\ call.end <= Size(stream)
    BY <1>1, <1>5
  <2>4. InCall(stream, dec, src, i, b) BY <1>7, <1>8, <2>1, <2>2, <2>3, Returns
  <2> QED BY <1>1, <1>7, <1>8, <2>4, BackForm
<1>10. dec.state \in {"ERROR", "FINISHED"} => i > 0 BY <1>2 DEF Stage
<1>11. dec.state = "FINISHED" => stream[i].control = 0 /\ src = Places(stream)[i + 1]
  <2>1. dec.state = "FINISHED" => stream[i].control = 0 /\ src - Places(stream)[i] = 1
    BY <1>2 DEF Stage
  <2>2. dec.state = "FINISHED" => i \in 1 .. Len(stream) BY <1>1, <1>10, ChunkTypes
  <2> QED BY <1>1, <2>1, <2>2, EndPlace
<1>12. Full => call.limit = dec.dicPos BY <1>5 DEF Full, Room
<1>13. Result(stream, dec, src, i, b)
  BY <1>5, <1>6, <1>9, <1>10, <1>11, <1>12 DEF Result
<1>14. /\ stream' = stream /\ src' = src /\ dec' = dec /\ text' = text BY DEF DecodeEnds
<1>15. call' = b BY <1>6, <1>7 DEF Return, Back
<1>16. Here(stream, dec, src, text, i, b.kind # "parse") BY <1>2, <1>9
<1> QED BY <1>1, <1>9, <1>13, <1>14, <1>15, <1>16, InvNext

LEMMA EndsParse ==
  ASSUME Lzma2Inv, ParseEnds
  PROVE Lzma2Inv'
<1>1. /\ stream \in ChunkStreams /\ src \in Nat /\ DecTypeOK(dec) /\ CallTypeOK(call)
  BY InvParts
<1>2. PICK i \in 0 .. Len(stream) :
        /\ Here(stream, dec, src, text, i, call.kind # "parse")
        /\ InCall(stream, dec, src, i, call) /\ Stage(stream, dec, src, i)
        /\ call.kind = "parse" => Parsed(stream, dec, i)
  BY InvParts
<1>3. call.pc = "parse" BY DEF ParseEnds
<1>4. call.pc \in {"decode", "parse"} BY <1>3
<1>5. /\ call.pc # "idle" /\ src <= call.end /\ call.end <= Size(stream)
      /\ call.kind = "parse"
  BY <1>1, <1>2, <1>3, <1>4, CallIs
<1>6. PICK res, status :
        /\ Return(res, status)
        /\ \/ dec.state = "ERROR" /\ res = "data" /\ status = "none"
           \/ dec.state = "FINISHED" /\ res = "ok" /\ status = "finished_with_mark"
           \/ call.size = 0 /\ res = "ok" /\ status = "not_finished"
  BY DEF ParseEnds
<1>7. PICK b : b = Back(call, res, status) OBVIOUS
<1>8. status \in Statuses BY <1>6 DEF Statuses
<1>9. /\ CallTypeOK(b) /\ InCall(stream, dec, src, i, b) /\ b.kind = call.kind
      /\ b.pc = "return" /\ b.res = res /\ b.status = status
      /\ b.end = call.end /\ b.size = call.size
  <2>1. InCall(stream, dec, src, i, b) BY <1>1, <1>5, <1>7, <1>8, Returns
  <2> QED BY <1>1, <1>7, <1>8, <2>1, BackForm
<1>10. dec.state \in {"ERROR", "FINISHED"} => i > 0 BY <1>2 DEF Stage
<1>11. dec.state = "FINISHED" => stream[i].control = 0 /\ src = Places(stream)[i] + 1
  <2>1. dec.state = "FINISHED" => stream[i].control = 0 /\ src - Places(stream)[i] = 1
    BY <1>2 DEF Stage
  <2>2. dec.state = "FINISHED" => i \in 1 .. Len(stream) BY <1>1, <1>10, ChunkTypes
  <2> QED BY <1>1, <2>1, <2>2, EndPlace
<1>12. dec.state = "ERROR" => ~HeaderOK(stream, i) \/ ~HeadOK(stream[i])
  BY <1>2, <1>5 DEF Parsed
<1>13. Result(stream, dec, src, i, b)
  BY <1>5, <1>6, <1>9, <1>10, <1>11, <1>12 DEF Result
<1>14. /\ stream' = stream /\ src' = src /\ dec' = dec /\ text' = text BY DEF ParseEnds
<1>15. call' = b BY <1>6, <1>7 DEF Return, Back
<1>16. Here(stream, dec, src, text, i, b.kind # "parse") BY <1>2, <1>9
<1> QED BY <1>1, <1>9, <1>13, <1>14, <1>15, <1>16, InvNext
Failed(d) == [d EXCEPT !.state = "ERROR"]
LEMMA FailedForm ==
  ASSUME NEW d, DecTypeOK(d), NEW e, e = Failed(d)
  PROVE DecTypeOK(e) /\ e.state = "ERROR" /\ e.dicPos = d.dicPos
<1>form. DecForm(d) BY DEF DecTypeOK
<1>1. /\ DecForm(e) /\ e.state = "ERROR" /\ e.dicPos = d.dicPos
      /\ e.needInitLevel = d.needInitLevel /\ e.unpackSize = d.unpackSize
      /\ e.packSize = d.packSize /\ e.start = d.start /\ e.probs = d.probs
      /\ e.isExtraMode = d.isExtraMode
  BY <1>form DEF DecForm, Failed
<1>2. /\ d.needInitLevel \in {0, 192, 224}
      /\ d.unpackSize \in 0 .. 256 /\ d.packSize \in 0 .. 256
      /\ d.dicPos \in Nat /\ d.start \in 0 .. 2
      /\ d.probs \in BOOLEAN /\ d.isExtraMode \in BOOLEAN
  BY DEF DecTypeOK
<1> QED BY <1>1, <1>2, MakeDecType

(* The decoder gives up at chunk i, and says why.                            *)
LEMMA GivesUp ==
  ASSUME NEW s \in ChunkStreams, stream' = s, NEW p \in Nat, src' = p,
         NEW d, DecTypeOK(d), NEW e, e = Failed(d), dec' = e,
         NEW c, CallTypeOK(c), c.pc = "decode", c.kind # "parse",
         NEW b, b = Back(c, "data", "none"), call' = b,
         NEW t, text' = t, NEW i, i > 0, At(s, p, i), NEW g, Passed(s, g, i, TRUE),
         NEW m \in 0 .. s[i].unpack, t = TextOf(s)[i - 1] \o Tokens(i, 0, m),
         s[i].control = 0 => m = 0,
         p <= c.end, c.end <= Size(s),
         c.from <= d.dicPos /\ d.dicPos <= c.limit /\ c.limit <= DicBufSize,
         \/ ~ChunkOK(s, i)
         \/ c.limit = d.dicPos /\ c.curMode = "end" /\ s[i].control # 0
  PROVE Lzma2Inv'
<1>1. DecTypeOK(e) /\ e.state = "ERROR" /\ e.dicPos = d.dicPos BY FailedForm
<1>2. "none" \in Statuses BY DEF Statuses
<1>3. /\ CallTypeOK(b) /\ b.kind = c.kind
      /\ b.pc = "return" /\ b.res = "data" /\ b.status = "none"
      /\ b.end = c.end /\ b.limit = c.limit /\ b.curMode = c.curMode /\ b.size = c.size
  BY <1>2, BackForm
<1>4. InCall(s, e, p, i, b)
  <2>1. c.kind # "parse" => c.from <= e.dicPos /\ e.dicPos <= c.limit /\ c.limit <= DicBufSize
    BY <1>1
  <2>2. c.pc # "idle" OBVIOUS
  <2> QED BY <1>1, <1>2, <2>1, <2>2, Returns
<1>5. Result(s, e, p, i, b) BY <1>1, <1>3 DEF Result
<1>6. Here(s, e, p, t, i, TRUE)
  <2>1. i # 0 BY ChunkTypes DEF At
  <2>2. e.dicPos <= DicBufSize
    <3>1. PICK x : x = e.dicPos OBVIOUS
    <3>2. x \in Nat BY <1>1, <3>1 DEF DecTypeOK
    <3>3. PICK y : y = c.limit OBVIOUS
    <3>4. y \in Nat BY <3>3 DEF CallTypeOK
    <3>5. x <= y /\ y <= DicBufSize /\ DicBufSize \in Nat BY <1>1, <3>1, <3>3, Limits
    <3> QED BY <3>1, <3>2, <3>4, <3>5
  <2>3. Passed(s, e, i, TRUE) BY <1>1 DEF Passed
  <2>4. e.state = "ERROR" BY <1>1
  <2> QED BY <2>1, <2>2, <2>3, <2>4, HereError
<1>7. Here(s, e, p, t, i, b.kind # "parse") BY <1>3, <1>6
<1> QED BY <1>1, <1>3, <1>4, <1>5, <1>7, InvNext

LEMMA HeaderDecode ==
  ASSUME Lzma2Inv, DecodeHeader
  PROVE Lzma2Inv'
<1>1. /\ stream \in ChunkStreams /\ src \in Nat /\ DecTypeOK(dec) /\ CallTypeOK(call)
  BY InvParts
<1>2. PICK i \in 0 .. Len(stream) :
        /\ Here(stream, dec, src, text, i, call.kind # "parse")
        /\ InCall(stream, dec, src, i, call) /\ At(stream, src, i)
        /\ Stage(stream, dec, src, i) /\ Levels(stream, dec, i)
  BY InvParts
<1>3. call.pc = "decode" BY DEF DecodeHeader, Decoding
<1>4. call.pc \in {"decode", "parse"} BY <1>3
<1>5. /\ call.pc # "idle" /\ src <= call.end /\ call.end <= Size(stream) /\ call.end \in Nat
      /\ call.limit \in Nat /\ dec.dicPos \in Nat /\ call.kind # "parse"
      /\ call.from <= dec.dicPos /\ dec.dicPos <= call.limit /\ call.limit <= DicBufSize
      /\ dec.state = "ERROR" => ~ChunkOK(stream, i)
      /\ call.curMode \in {"any", "end"}
  BY <1>1, <1>2, <1>3, <1>4, CallIs
<1>6. dec.state \in HeaderStates BY DEF DecodeHeader, InHeader, HeaderStates
<1>7. stream' = stream /\ text' = text BY DEF DecodeHeader
<1>8. CASE InSize = 0
  <2>1. PICK b : b = Back(call, "ok", "needs_more_input") OBVIOUS
  <2>2. src' = src /\ dec' = dec /\ call' = b
    BY <1>8, <2>1 DEF DecodeHeader, Return, Back
  <2>3. "needs_more_input" \in Statuses BY DEF Statuses
  <2>4. /\ CallTypeOK(b) /\ b.kind = call.kind
        /\ b.pc = "return" /\ b.status = "needs_more_input" /\ b.end = call.end
    BY <1>1, <2>1, <2>3, BackForm
  <2>5. InCall(stream, dec, src, i, b)
    <3>1. dec.state # "ERROR" BY <1>6 DEF HeaderStates
    <3> QED BY <1>1, <1>5, <2>1, <2>3, <3>1, Returns
  <2>6. src = call.end BY <1>1, <1>5, <1>8 DEF InSize
  <2>7. Result(stream, dec, src, i, b) BY <1>5, <2>4, <2>6 DEF Result
  <2>8. Here(stream, dec, src, text, i, b.kind # "parse") BY <1>2, <2>4
  <2> QED BY <1>1, <1>7, <2>2, <2>4, <2>5, <2>7, <2>8, InvNext
<1>9. CASE InSize # 0
  <2>1. PICK e : e = UpdateState(dec, ByteAt(stream, src)) OBVIOUS
  <2>2. PICK p : p = src + 1 OBVIOUS
  <2>3. /\ src' = p
        /\ \/ /\ Full /\ e.state # "FINISHED"
              /\ dec' = Failed(e) /\ call' = Back(call, "data", "none")
           \/ ~(Full /\ e.state # "FINISHED") /\ dec' = e /\ call' = call
    BY <1>9, <2>1, <2>2 DEF DecodeHeader, Return, Back, Failed
  <2>4. src < Size(stream) /\ p <= call.end /\ p \in Nat
    <3>1. Size(stream) \in Nat BY <1>1, PlacesType
    <3> QED BY <1>1, <1>5, <1>9, <2>2, <3>1 DEF InSize
  <2>5. PICK j : j = IF dec.state = "CONTROL" THEN i + 1 ELSE i OBVIOUS
  <2>6. /\ j \in 1 .. Len(stream) /\ At(stream, p, j) /\ DecTypeOK(e)
        /\ e.state = "ERROR" => ~HeaderOK(stream, j)
        /\ e.dicPos = dec.dicPos
        /\ e.state # "FINISHED" => stream[j].control # 0
    BY <1>1, <1>2, <1>6, <2>1, <2>2, <2>4, <2>5, HeaderRead
  <2>7. Here(stream, e, p, text, j, TRUE)
    <3>1. Here(stream, dec, src, text, i, TRUE) BY <1>2, <1>5
    <3> QED BY <1>1, <1>6, <2>1, <2>2, <2>4, <2>5, <3>1, HereHeader
  <2>8. j > 0 /\ j # 0 BY <1>1, <2>6, ChunkTypes
  <2>9. CASE Full /\ e.state # "FINISHED"
    <3>1. PICK d : d = Failed(e) OBVIOUS
    <3>2. PICK b : b = Back(call, "data", "none") OBVIOUS
    <3>3. dec' = d /\ call' = b BY <2>3, <2>9, <3>1, <3>2
    <3>4. Passed(stream, e, j, TRUE) /\ TextSoFar(stream, e, text, j)
      BY <2>7 DEF Here, Decoded
    <3>5. PICK m \in 0 .. stream[j].unpack :
            /\ text = TextOf(stream)[j - 1] \o Tokens(j, 0, m)
            /\ stream[j].control = 0 => m = 0
      BY <2>8, <3>4 DEF TextSoFar
    <3>6. call.limit = e.dicPos /\ call.curMode = "end" /\ stream[j].control # 0
      BY <1>5, <2>6, <2>9 DEF DecodeHeader, Decoding, Full, Room
    <3>7. call.from <= e.dicPos /\ e.dicPos <= call.limit /\ call.limit <= DicBufSize
      BY <1>5, <2>6
    <3> QED BY <1>1, <1>3, <1>5, <1>7, <2>3, <2>4, <2>6, <2>8, <3>1, <3>2, <3>3, <3>4,
               <3>5, <3>6, <3>7, GivesUp
  <2>10. CASE ~(Full /\ e.state # "FINISHED")
    <3>1. dec' = e /\ call' = call BY <2>3, <2>10
    <3>2. InCall(stream, e, p, j, call) /\ Result(stream, e, p, j, call)
      <4>1. call.from <= e.dicPos /\ e.dicPos <= call.limit BY <1>5, <2>6
      <4>2. e.state = "ERROR" => ~ChunkOK(stream, j) BY <2>6 DEF ChunkOK
      <4> QED BY <1>1, <1>2, <1>4, <2>4, <4>1, <4>2, GoesOn
    <3>3. Here(stream, e, p, text, j, call.kind # "parse") BY <1>5, <2>7
    <3> QED BY <1>1, <1>7, <2>3, <2>4, <2>6, <3>1, <3>2, <3>3, InvNext
  <2> QED BY <2>9, <2>10
<1> QED BY <1>8, <1>9
(* A piece of a copied chunk.                                                *)
Copied(x, n) ==
  [x EXCEPT !.dicPos = @ + n, !.unpackSize = x.unpackSize - n,
            !.state = IF x.unpackSize - n = 0 THEN "CONTROL" ELSE "DATA_CONT"]
SameBut(x, d) ==     \* but for the start of the range coder
  /\ x.state = d.state /\ x.control = d.control /\ x.needInitLevel = d.needInitLevel
  /\ x.isExtraMode = d.isExtraMode /\ x.unpackSize = d.unpackSize
  /\ x.packSize = d.packSize /\ x.dicPos = d.dicPos /\ x.probs = d.probs

LEMMA InitForm ==
  ASSUME NEW d, DecTypeOK(d), NEW a \in BOOLEAN, NEW b \in BOOLEAN,
         NEW e, e = InitDicAndState(d, a, b)
  PROVE DecTypeOK(e) /\ SameBut(e, d) /\ e.start = IF a \/ b THEN 2 ELSE 1
<1>form. DecForm(d) BY DEF DecTypeOK
<1>1. DecForm(e) /\ SameBut(e, d) /\ e.start = IF a \/ b THEN 2 ELSE 1
  BY <1>form DEF DecForm, SameBut, InitDicAndState
<1>2. /\ d.state \in HeaderStates \cup DataStates \cup {"FINISHED", "ERROR"}
      /\ d.needInitLevel \in {0, 192, 224}
      /\ d.unpackSize \in 0 .. 256 /\ d.packSize \in 0 .. 256
      /\ d.dicPos \in Nat
      /\ d.probs \in BOOLEAN /\ d.isExtraMode \in BOOLEAN
  BY DEF DecTypeOK
<1>3. e.start \in 0 .. 2 BY <1>1
<1>4. /\ e.state \in HeaderStates \cup DataStates \cup {"FINISHED", "ERROR"}
      /\ e.needInitLevel \in {0, 192, 224} /\ e.unpackSize \in 0 .. 256
      /\ e.packSize \in 0 .. 256 /\ e.dicPos \in Nat
      /\ e.probs \in BOOLEAN /\ e.isExtraMode \in BOOLEAN
  BY <1>1, <1>2 DEF SameBut
<1> QED BY <1>1, <1>3, <1>4, MakeDecType

LEMMA CopiedForm ==
  ASSUME NEW d, DecTypeOK(d), NEW x, DecTypeOK(x), SameBut(x, d),
         NEW n \in Nat, n <= d.unpackSize, NEW e, e = Copied(x, n)
  PROVE /\ DecTypeOK(e) /\ d.unpackSize \in Nat
        /\ e.unpackSize = d.unpackSize - n /\ e.dicPos = d.dicPos + n
        /\ e.state = IF d.unpackSize - n = 0 THEN "CONTROL" ELSE "DATA_CONT"
        /\ e.control = d.control /\ e.needInitLevel = d.needInitLevel
        /\ e.packSize = d.packSize /\ e.probs = d.probs
        /\ e.isExtraMode = d.isExtraMode /\ e.start = x.start
<1>form. DecForm(x) BY DEF DecTypeOK
<1>1. /\ DecForm(e) /\ e.dicPos = x.dicPos + n /\ e.unpackSize = x.unpackSize - n
      /\ e.state = IF x.unpackSize - n = 0 THEN "CONTROL" ELSE "DATA_CONT"
      /\ e.control = x.control /\ e.needInitLevel = x.needInitLevel
      /\ e.packSize = x.packSize /\ e.probs = x.probs
      /\ e.isExtraMode = x.isExtraMode /\ e.start = x.start
  BY <1>form DEF DecForm, Copied
<1>2. PICK u : u = d.unpackSize OBVIOUS
<1>3. PICK v : v = d.dicPos OBVIOUS
<1>4. /\ x.needInitLevel \in {0, 192, 224} /\ x.packSize \in 0 .. 256
      /\ x.start \in 0 .. 2 /\ x.probs \in BOOLEAN /\ x.isExtraMode \in BOOLEAN
      /\ u \in 0 .. 256 /\ v \in Nat
  BY <1>2, <1>3 DEF DecTypeOK
<1>5. e.dicPos = v + n /\ e.unpackSize = u - n /\ n <= u
  BY <1>1, <1>2, <1>3 DEF SameBut
<1>6. v + n \in Nat /\ u - n \in 0 .. 256 BY <1>4, <1>5
<1>7. e.dicPos \in Nat /\ e.unpackSize \in 0 .. 256 BY <1>5, <1>6
<1>8. e.state \in HeaderStates \cup DataStates \cup {"FINISHED", "ERROR"}
  BY <1>1 DEF HeaderStates, DataStates
<1>9. DecTypeOK(e) BY <1>1, <1>4, <1>7, <1>8, MakeDecType
<1>10. u \in Nat BY <1>4
<1> QED BY <1>1, <1>2, <1>9, <1>10 DEF SameBut

(* Where a copied chunk stands.                                              *)
LEMMA CopyPlace ==
  ASSUME NEW s \in ChunkStreams, NEW p \in Nat, NEW d, DecTypeOK(d), NEW i,
         At(s, p, i), Stage(s, d, p, i), d.state \in DataStates, d.control < 128
  PROVE /\ i \in 1 .. Len(s) /\ i > 0 /\ i # 0
        /\ s[i].control < 128 /\ s[i].control # 0
        /\ d.unpackSize \in Nat /\ 1 <= d.unpackSize /\ d.unpackSize <= s[i].unpack
        /\ Len(Header(s[i])) = 3 /\ s[i].unpack \in Nat
        /\ p = Places(s)[i] + 3 + (s[i].unpack - d.unpackSize)
        /\ Places(s)[i + 1] = Places(s)[i] + 3 + s[i].unpack
        /\ Made(s, d, i) = s[i].unpack - d.unpackSize
<1>1. i > 0 /\ d.control = s[i].control
  <2>1. d.state # "CONTROL" /\ d.state # "ERROR" BY DEF DataStates
  <2> QED BY <2>1 DEF Stage
<1>2. i \in 1 .. Len(s) /\ i # 0 BY <1>1, ChunkTypes DEF At
<1>3. PICK u : u = d.unpackSize OBVIOUS
<1>4. PICK z : z = s[i].unpack OBVIOUS
<1>5. PICK a : a = Places(s)[i] OBVIOUS
<1>6. s[i].control < 128 BY <1>1
<1>7. s[i].control # 0
  <2>1. CASE d.state = "DATA" BY <2>1 DEF Stage
  <2>2. CASE d.state = "DATA_CONT" BY <2>2 DEF Stage
  <2> QED BY <2>1, <2>2 DEF DataStates
<1>8. Len(Header(s[i])) = 3 /\ z \in Nat /\ 1 <= z /\ DataSize(s[i]) = z
  <2>1. z \in Nat /\ 1 <= z BY <1>2, <1>4, ChunkOf
  <2>2. /\ Len(Header(s[i])) = IF s[i].control = 0 THEN 1 ELSE IF s[i].control < 128 THEN 3
                               ELSE IF s[i].control < 192 THEN 5 ELSE 6
        /\ DataSize(s[i]) = IF s[i].control = 0 THEN 0
                            ELSE IF s[i].control < 128 THEN s[i].unpack ELSE s[i].pack
    BY <1>2, ChunkOf
  <2> QED BY <1>4, <1>6, <1>7, <2>1, <2>2
<1>9. a \in Nat /\ Places(s)[i + 1] = a + (3 + z) BY <1>2, <1>5, <1>8, Span
<1>10. u \in 1 .. z /\ p - a = 3 + z - u
  <2>1. CASE d.state = "DATA"
    <3>1. u = z /\ p - a = 3 BY <1>3, <1>4, <1>5, <1>8, <2>1 DEF Stage
    <3> QED BY <1>8, <1>9, <3>1
  <2>2. CASE d.state = "DATA_CONT"
    <3>1. u \in 1 .. z /\ p - a = 3 + z - u
      BY <1>3, <1>4, <1>5, <1>6, <1>8, <2>2 DEF Stage
    <3> QED BY <3>1
  <2> QED BY <2>1, <2>2 DEF DataStates
<1>11. u \in Nat /\ 1 <= u /\ u <= z /\ p = a + 3 + (z - u) /\ Places(s)[i + 1] = a + 3 + z
  BY <1>8, <1>9, <1>10
<1>12. Made(s, d, i) = z - u BY <1>1, <1>3, <1>4 DEF Made
<1> QED BY <1>1, <1>2, <1>3, <1>4, <1>5, <1>6, <1>7, <1>8, <1>11, <1>12

LEMMA StageCopy ==
  ASSUME NEW s, NEW e, NEW p, NEW i, i > 0, e.state = "DATA_CONT",
         e.control = s[i].control, s[i].control # 0, ~(s[i].control >= 128),
         e.unpackSize \in 1 .. s[i].unpack,
         p - Places(s)[i] = Len(Header(s[i])) + s[i].unpack - e.unpackSize
  PROVE Stage(s, e, p, i)
BY DEF Stage

Moved(s, d, p, i, n, e, decodes) ==
  /\ At(s, p + n, i) /\ Stage(s, e, p + n, i) /\ Levels(s, e, i)
  /\ Passed(s, e, i, decodes) /\ Made(s, e, i) = Made(s, d, i) + n

LEMMA CopyRight ==
  ASSUME NEW s \in ChunkStreams, NEW p \in Nat, NEW d, DecTypeOK(d), NEW i,
         At(s, p, i), Stage(s, d, p, i), Levels(s, d, i),
         d.state \in DataStates, d.control < 128,
         NEW n \in Nat, n <= d.unpackSize, NEW e,
         e.unpackSize = d.unpackSize - n,
         e.state = IF d.unpackSize - n = 0 THEN "CONTROL" ELSE "DATA_CONT",
         e.control = d.control, e.needInitLevel = d.needInitLevel,
         NEW decodes \in BOOLEAN, Passed(s, d, i, decodes)
  PROVE Moved(s, d, p, i, n, e, decodes)
<1>1. /\ i \in 1 .. Len(s) /\ i > 0 /\ i # 0
      /\ s[i].control < 128 /\ s[i].control # 0
      /\ d.unpackSize \in Nat /\ 1 <= d.unpackSize /\ d.unpackSize <= s[i].unpack
      /\ Len(Header(s[i])) = 3 /\ s[i].unpack \in Nat
      /\ p = Places(s)[i] + 3 + (s[i].unpack - d.unpackSize)
      /\ Places(s)[i + 1] = Places(s)[i] + 3 + s[i].unpack
      /\ Made(s, d, i) = s[i].unpack - d.unpackSize
  BY CopyPlace
<1>2. PICK u : u = d.unpackSize OBVIOUS
<1>3. PICK z : z = s[i].unpack OBVIOUS
<1>4. PICK a : a = Places(s)[i] OBVIOUS
<1>5. PICK b : b = Places(s)[i + 1] OBVIOUS
<1>6. PICK v : v = e.unpackSize OBVIOUS
<1>7. a \in Nat /\ b \in Nat BY <1>1, <1>4, <1>5, PlacesType
<1>8. /\ u \in Nat /\ 1 <= u /\ u <= z /\ z \in Nat /\ n <= u /\ v = u - n
      /\ p = a + 3 + (z - u) /\ b = a + 3 + z
  BY <1>1, <1>2, <1>3, <1>4, <1>5, <1>6
<1>9. /\ p + n \in Nat /\ p <= p + n /\ p + n <= b /\ (p + n) - a = 3 + z - v
      /\ v \in 0 .. z /\ (v = 0 => p + n = b) /\ z - v = (z - u) + n
  BY <1>7, <1>8
<1>low. ~(s[i].control >= 128)
  <2>1. PICK g : g = s[i].control OBVIOUS
  <2>2. g \in {0, 1, 2, 3, 128, 160, 192, 224} /\ g < 128 BY <1>1, <2>1, ChunkOf
  <2>3. ~(g >= 128) BY <2>2
  <2> QED BY <2>1, <2>3
<1>10. At(s, p + n, i) BY <1>1, <1>5, <1>9, AtAdvance
<1>11. e.state = IF v = 0 THEN "CONTROL" ELSE "DATA_CONT" BY <1>2, <1>8
<1>12. e.control = s[i].control
  <2>1. d.state # "ERROR" BY DEF DataStates
  <2> QED BY <1>1, <2>1 DEF Stage
<1>13. Stage(s, e, p + n, i)
  <2>1. CASE v = 0
    <3>1. e.state = "CONTROL" /\ e.unpackSize = 0 /\ p + n = Places(s)[i + 1]
      BY <1>5, <1>6, <1>9, <1>11, <2>1
    <3> QED BY <1>1, <1>12, <3>1 DEF Stage
  <2>2. CASE v # 0
    <3>1. e.state = "DATA_CONT" BY <1>11, <2>2
    <3>2. v \in 1 .. z BY <1>8, <1>9, <2>2
    <3>3. /\ e.unpackSize \in 1 .. s[i].unpack
          /\ (p + n) - Places(s)[i] = Len(Header(s[i])) + s[i].unpack - e.unpackSize
      BY <1>1, <1>3, <1>4, <1>6, <1>9, <3>2
    <3>4. i > 0 /\ s[i].control # 0 BY <1>1
    <3>5. PICK q : q = p + n OBVIOUS
    <3>6. q - Places(s)[i] = Len(Header(s[i])) + s[i].unpack - e.unpackSize BY <3>3, <3>5
    <3>7. e.unpackSize \in 1 .. s[i].unpack BY <3>3
    <3>8. Stage(s, e, q, i) BY <1>12, <1>low, <3>1, <3>4, <3>6, <3>7, StageCopy
    <3> QED BY <3>5, <3>8
  <2> QED BY <2>1, <2>2
<1>14. e.state # "ERROR" /\ e.state \in DataStates \cup {"CONTROL"}
  BY <1>11 DEF DataStates
<1>15. HeaderOK(s, i) BY <1>1 DEF Levels
<1>16. Levels(s, e, i)
  <2>1. d.state # "ERROR" BY DEF DataStates
  <2> QED BY <1>1, <1>15, <2>1 DEF Levels
<1>17. Passed(s, e, i, decodes)
  <2>2. DataOK(s[i]) /\ HeadOK(s[i]) BY <1>low DEF DataOK, HeadOK
  <2>3. \A j \in 1 .. i : j < i => HeaderOK(s, j) /\ IF decodes THEN DataOK(s[j]) ELSE HeadOK(s[j])
    BY DEF Passed
  <2>4. \A j \in 1 .. i : j < i \/ j = i BY <1>1, ChunkTypes
  <2> QED BY <1>15, <2>2, <2>3, <2>4 DEF Passed
<1>18. Made(s, e, i) = Made(s, d, i) + n
  <2>1. Made(s, e, i) = z - v BY <1>1, <1>3, <1>6, <1>14 DEF Made
  <2>2. Made(s, d, i) = z - u BY <1>1, <1>2, <1>3
  <2> QED BY <1>9, <2>1, <2>2
<1> QED BY <1>10, <1>13, <1>16, <1>17, <1>18 DEF Moved
LEMMA LesserOf ==
  ASSUME NEW a \in Nat, NEW b \in Nat
  PROVE Lesser(a, b) \in Nat /\ Lesser(a, b) <= a /\ Lesser(a, b) <= b
        /\ Lesser(a, b) \in {a, b}
BY DEF Lesser

(* The call returns for more input.                                          *)
LEMMA NeedsMore ==
  ASSUME NEW s \in ChunkStreams, stream' = s, NEW p \in Nat, src' = p,
         NEW d, DecTypeOK(d), dec' = d, d.state # "ERROR",
         NEW c, CallTypeOK(c), c.pc # "idle", NEW t, text' = t, NEW i,
         p = c.end, c.end <= Size(s),
         c.kind # "parse" => c.from <= d.dicPos /\ d.dicPos <= c.limit /\ c.limit <= DicBufSize,
         NEW b, b = Back(c, "ok", "needs_more_input"), call' = b,
         Here(s, d, p, t, i, c.kind # "parse")
  PROVE Lzma2Inv'
<1>1. "needs_more_input" \in Statuses BY DEF Statuses
<1>2. /\ CallTypeOK(b) /\ b.kind = c.kind
      /\ b.pc = "return" /\ b.status = "needs_more_input" /\ b.end = c.end
  BY <1>1, BackForm
<1>3. InCall(s, d, p, i, b)
  <2>1. p <= c.end OBVIOUS
  <2> QED BY <1>1, <2>1, Returns
<1>4. Result(s, d, p, i, b) BY <1>2 DEF Result
<1>5. Here(s, d, p, t, i, b.kind # "parse") BY <1>2
<1> QED BY <1>2, <1>3, <1>4, <1>5, InvNext

LEMMA PieceCopy ==
  ASSUME Lzma2Inv, CopyPiece
  PROVE Lzma2Inv'
<1>1. /\ stream \in ChunkStreams /\ src \in Nat /\ DecTypeOK(dec) /\ CallTypeOK(call)
  BY InvParts
<1>2. PICK i \in 0 .. Len(stream) :
        /\ Here(stream, dec, src, text, i, call.kind # "parse")
        /\ InCall(stream, dec, src, i, call) /\ At(stream, src, i)
        /\ Stage(stream, dec, src, i) /\ Levels(stream, dec, i)
        /\ Passed(stream, dec, i, call.kind # "parse")
        /\ call.kind # "parse" => Decoded(stream, dec, text, i)
        /\ i > 0 => Chunk = i
  BY InvParts
<1>3. call.pc = "decode" BY DEF CopyPiece, Decoding
<1>4. call.pc \in {"decode", "parse"} BY <1>3
<1>5. /\ call.pc # "idle" /\ src <= call.end /\ call.end <= Size(stream) /\ call.end \in Nat
      /\ call.limit \in Nat /\ dec.dicPos \in Nat /\ call.kind # "parse" /\ call.from \in Nat
      /\ call.from <= dec.dicPos /\ dec.dicPos <= call.limit /\ call.limit <= DicBufSize
      /\ call.curMode \in {"any", "end"}
  BY <1>1, <1>2, <1>3, <1>4, CallIs
<1>6. /\ dec.state \in DataStates /\ dec.control < 128
      /\ dec.state # "ERROR"
  BY DEF CopyPiece, InData, DataStates, IsUncompressed
<1>7. stream' = stream BY DEF CopyPiece
<1>8. /\ i \in 1 .. Len(stream) /\ i > 0 /\ i # 0
      /\ stream[i].control < 128 /\ stream[i].control # 0
      /\ dec.unpackSize \in Nat /\ 1 <= dec.unpackSize /\ dec.unpackSize <= stream[i].unpack
      /\ stream[i].unpack \in Nat
      /\ Made(stream, dec, i) = stream[i].unpack - dec.unpackSize
  BY <1>1, <1>2, <1>6, CopyPlace
<1>9. Decoded(stream, dec, text, i) /\ Passed(stream, dec, i, TRUE) BY <1>2, <1>5
<1>10. PICK m : m = stream[i].unpack - dec.unpackSize OBVIOUS
<1>11. m \in Nat /\ m \in 0 .. stream[i].unpack BY <1>8, <1>10
<1>12. text = TextOf(stream)[i - 1] \o Tokens(i, 0, m)
  BY <1>6, <1>8, <1>9, <1>10 DEF Decoded, TextSoFar
<1>13. InSize \in Nat /\ Room \in Nat BY <1>1, <1>5 DEF InSize, Room
<1>14. PICK n : n = Lesser(InSize, Lesser(Room, dec.unpackSize)) OBVIOUS
<1>15. /\ n \in Nat /\ n <= InSize /\ n <= Room /\ n <= dec.unpackSize
       /\ n = 0 => InSize = 0 \/ Room = 0
  <2>1. PICK a : a = Lesser(Room, dec.unpackSize) OBVIOUS
  <2>2. a \in Nat /\ a <= Room /\ a <= dec.unpackSize /\ a \in {Room, dec.unpackSize}
    BY <1>8, <1>13, <2>1, LesserOf
  <2>3. n \in Nat /\ n <= InSize /\ n <= a /\ n \in {InSize, a}
    BY <1>13, <1>14, <2>1, <2>2, LesserOf
  <2> QED BY <1>8, <1>13, <2>2, <2>3
<1>16. CASE InSize = 0
  <2>1. PICK b : b = Back(call, "ok", "needs_more_input") OBVIOUS
  <2>2. src' = src /\ dec' = dec /\ call' = b /\ text' = text
    BY <1>16, <2>1 DEF CopyPiece, Return, Back
  <2>3. src = call.end BY <1>1, <1>5, <1>16 DEF InSize
  <2>4. call.kind # "parse" =>
          call.from <= dec.dicPos /\ dec.dicPos <= call.limit /\ call.limit <= DicBufSize
    BY <1>5
  <2>5. Here(stream, dec, src, text, i, call.kind # "parse") BY <1>2
  <2> QED BY <1>1, <1>5, <1>6, <1>7, <2>1, <2>2, <2>3, <2>4, <2>5, NeedsMore
<1>17. CASE InSize # 0 /\ n = 0
  <2>1. PICK d : d = Failed(dec) OBVIOUS
  <2>2. PICK b : b = Back(call, "data", "none") OBVIOUS
  <2>3. src' = src /\ dec' = d /\ call' = b /\ text' = text
    BY <1>14, <1>17, <2>1, <2>2 DEF CopyPiece, DataError, Failed, Return, Back
  <2>4. Room = 0 BY <1>15, <1>17
  <2>5. call.limit = dec.dicPos /\ call.curMode = "end" /\ stream[i].control # 0
    BY <1>5, <1>8, <2>4 DEF CopyPiece, Decoding, Full, Room
  <2>6. stream[i].control = 0 => m = 0 BY <1>8
  <2>7. call.from <= dec.dicPos /\ dec.dicPos <= call.limit /\ call.limit <= DicBufSize
    BY <1>5
  <2> QED BY <1>1, <1>2, <1>3, <1>5, <1>7, <1>8, <1>9, <1>11, <1>12, <2>1, <2>2, <2>3,
             <2>5, <2>6, <2>7, GivesUp
<1>18. CASE InSize # 0 /\ n # 0
  <2>1. PICK x : x = IF dec.state = "DATA"
                     THEN InitDicAndState(dec, dec.control = 1, FALSE) ELSE dec OBVIOUS
  <2>2. DecTypeOK(x) /\ SameBut(x, dec)
    <3>1. CASE dec.state = "DATA"
      <4>1. x = InitDicAndState(dec, dec.control = 1, FALSE) BY <2>1, <3>1
      <4>2. (dec.control = 1) \in BOOLEAN /\ FALSE \in BOOLEAN OBVIOUS
      <4> QED BY <1>1, <4>1, <4>2, InitForm
    <3>2. CASE dec.state # "DATA" BY <1>1, <2>1, <3>2 DEF SameBut
    <3> QED BY <3>1, <3>2
  <2>3. PICK e : e = Copied(x, n) OBVIOUS
  <2>4. PICK p : p = src + n OBVIOUS
  <2>5. x.unpackSize = dec.unpackSize BY <2>2 DEF SameBut
  <2>6. src' = p /\ dec' = e /\ call' = call
    BY <1>14, <1>18, <2>1, <2>3, <2>4, <2>5 DEF CopyPiece, Copied
  <2>7. text' = text \o Tokens(i, m, n)
    BY <1>2, <1>8, <1>10, <1>14, <1>18 DEF CopyPiece
  <2>8. /\ DecTypeOK(e)
        /\ e.unpackSize = dec.unpackSize - n /\ e.dicPos = dec.dicPos + n
        /\ e.state = IF dec.unpackSize - n = 0 THEN "CONTROL" ELSE "DATA_CONT"
        /\ e.control = dec.control /\ e.needInitLevel = dec.needInitLevel
        /\ e.probs = dec.probs
    BY <1>1, <1>15, <2>2, <2>3, CopiedForm
  <2>9. /\ At(stream, p, i) /\ Stage(stream, e, p, i) /\ Levels(stream, e, i)
        /\ Passed(stream, e, i, TRUE) /\ Made(stream, e, i) = m + n
    <3>1. TRUE \in BOOLEAN OBVIOUS
    <3>2. Moved(stream, dec, src, i, n, e, TRUE)
      BY <1>1, <1>2, <1>6, <1>9, <1>15, <2>8, <3>1, CopyRight
    <3> QED BY <1>8, <1>10, <2>4, <3>2 DEF Moved
  <2>10. PICK t : t = text \o Tokens(i, m, n) OBVIOUS
  <2>11. t = TextOf(stream)[i - 1] \o Tokens(i, 0, m + n)
    <3>1. (TextOf(stream)[i - 1] \o Tokens(i, 0, m)) \o Tokens(i, m, n) = TextOf(stream)[i - 1] \o Tokens(i, 0, m + n)
      BY <1>1, <1>8, <1>11, <1>15, TextGrows
    <3> QED BY <1>12, <2>10, <3>1
  <2>12. m + n \in 0 .. stream[i].unpack BY <1>8, <1>10, <1>15
  <2>13. TextSoFar(stream, e, t, i)
    BY <1>8, <2>9, <2>11, <2>12 DEF TextSoFar
  <2>14. e.state # "ERROR" /\ ~(stream[i].control >= 128)
    <3>1. PICK g : g = stream[i].control OBVIOUS
    <3>2. g \in {0, 1, 2, 3, 128, 160, 192, 224} /\ g < 128 BY <1>1, <1>8, <3>1, ChunkOf
    <3>3. ~(g >= 128) BY <3>2
    <3> QED BY <2>8, <3>1, <3>3
  <2>15. ProbsSoFar(stream, e, i)
    <3>1. dec.needInitLevel = 0 => dec.probs BY <1>6, <1>8, <1>9 DEF Decoded, ProbsSoFar
    <3>2. stream[i].control \notin {128, 160} /\ ~(stream[i].control >= 192)
      <4>1. PICK g : g = stream[i].control OBVIOUS
      <4>2. g \in {0, 1, 2, 3, 128, 160, 192, 224} /\ g < 128 BY <1>1, <1>8, <4>1, ChunkOf
      <4>3. g \notin {128, 160} /\ ~(g >= 192) BY <4>2
      <4> QED BY <4>1, <4>3
    <3> QED BY <2>8, <3>1, <3>2 DEF ProbsSoFar
  <2>16. call.from <= e.dicPos /\ e.dicPos <= call.limit
    BY <1>5, <1>15, <2>8 DEF Room
  <2>17. e.dicPos <= DicBufSize
    <3>1. e.dicPos \in Nat BY <2>8 DEF DecTypeOK
    <3> QED BY <1>5, <2>16, <3>1, Limits
  <2>18. Decoded(stream, e, t, i) BY <2>13, <2>14, <2>15, <2>17 DEF Decoded
  <2>19. Here(stream, e, p, t, i, call.kind # "parse") BY <1>5, <2>9, <2>18 DEF Here
  <2>20. p \in Nat /\ p <= call.end BY <1>1, <1>5, <1>15, <2>4 DEF InSize
  <2>21. InCall(stream, e, p, i, call) /\ Result(stream, e, p, i, call)
    BY <1>1, <1>2, <1>4, <2>14, <2>16, <2>20, GoesOn
  <2> QED BY <1>1, <1>7, <2>6, <2>7, <2>8, <2>10, <2>19, <2>20, <2>21, InvNext
<1> QED BY <1>16, <1>17, <1>18
(* Where an LZMA chunk stands.                                               *)
LEMMA LzmaPlace ==
  ASSUME NEW s \in ChunkStreams, NEW p \in Nat, NEW d, DecTypeOK(d), NEW i,
         At(s, p, i), Stage(s, d, p, i), d.state \in DataStates, ~(d.control < 128)
  PROVE /\ i \in 1 .. Len(s) /\ i > 0 /\ i # 0
        /\ s[i].control >= 128 /\ s[i].control # 0 /\ d.control = s[i].control
        /\ s[i].control \in {128, 160, 192, 224}
        /\ d.unpackSize \in Nat /\ d.unpackSize <= s[i].unpack /\ s[i].unpack \in Nat
        /\ d.packSize \in Nat /\ d.packSize <= s[i].pack /\ s[i].pack \in Nat
        /\ 1 <= s[i].pack
        /\ Len(Header(s[i])) \in Nat
        /\ p = Places(s)[i] + Len(Header(s[i])) + (s[i].pack - d.packSize)
        /\ Places(s)[i + 1] = Places(s)[i] + Len(Header(s[i])) + s[i].pack
        /\ Made(s, d, i) = s[i].unpack - d.unpackSize
        /\ d.state = "DATA" => d.packSize = s[i].pack /\ d.unpackSize = s[i].unpack
<1>1. i > 0 /\ d.control = s[i].control
  <2>1. d.state # "CONTROL" /\ d.state # "ERROR" BY DEF DataStates
  <2> QED BY <2>1 DEF Stage
<1>2. i \in 1 .. Len(s) /\ i # 0 BY <1>1, ChunkTypes DEF At
<1>3. PICK g : g = s[i].control OBVIOUS
<1>4. g >= 128 /\ g # 0 /\ g \in {128, 160, 192, 224} /\ ~(g < 128)
  <2>1. g \in {0, 1, 2, 3, 128, 160, 192, 224} BY <1>2, <1>3, ChunkOf
  <2>2. ~(g < 128) BY <1>1, <1>3
  <2> QED BY <2>1, <2>2
<1>5. PICK u : u = d.unpackSize OBVIOUS
<1>6. PICK z : z = s[i].unpack OBVIOUS
<1>7. PICK v : v = d.packSize OBVIOUS
<1>8. PICK y : y = s[i].pack OBVIOUS
<1>9. PICK a : a = Places(s)[i] OBVIOUS
<1>10. PICK h : h = Len(Header(s[i])) OBVIOUS
<1>11. z \in Nat /\ 1 <= z /\ y \in Nat /\ 1 <= y /\ DataSize(s[i]) = y /\ h \in Nat
  <2>1. DataSize(s[i]) = y BY <1>2, <1>3, <1>4, <1>8, ChunkOf
  <2>2. h \in Nat BY <1>2, <1>3, <1>4, <1>10, ChunkOf
  <2> QED BY <1>2, <1>6, <1>8, <2>1, <2>2, ChunkOf
<1>12. a \in Nat /\ Places(s)[i + 1] = a + (h + y) BY <1>2, <1>9, <1>10, <1>11, Span
<1>13. u \in 0 .. z /\ v \in 0 .. y /\ p - a = h + y - v
  <2>1. CASE d.state = "DATA"
    <3>1. u = z /\ p - a = h /\ v = y
      BY <1>1, <1>3, <1>4, <1>5, <1>6, <1>7, <1>8, <1>9, <1>10, <2>1 DEF Stage
    <3> QED BY <1>11, <1>12, <3>1
  <2>2. CASE d.state = "DATA_CONT"
    BY <1>1, <1>3, <1>4, <1>5, <1>6, <1>7, <1>8, <1>9, <1>10, <2>2 DEF Stage
  <2> QED BY <2>1, <2>2 DEF DataStates
<1>14. /\ u \in Nat /\ u <= z /\ v \in Nat /\ v <= y
       /\ p = a + h + (y - v) /\ Places(s)[i + 1] = a + h + y
  BY <1>11, <1>12, <1>13
<1>15. Made(s, d, i) = z - u BY <1>1, <1>5, <1>6 DEF Made
<1>16. d.state = "DATA" => v = y /\ u = z
  BY <1>1, <1>3, <1>4, <1>5, <1>6, <1>7, <1>8 DEF Stage
<1>17. s[i].control >= 128 /\ s[i].control # 0 /\ s[i].control \in {128, 160, 192, 224}
  BY <1>3, <1>4
<1>18. /\ d.unpackSize \in Nat /\ d.unpackSize <= s[i].unpack /\ s[i].unpack \in Nat
       /\ d.packSize \in Nat /\ d.packSize <= s[i].pack /\ s[i].pack \in Nat /\ 1 <= s[i].pack
  BY <1>5, <1>6, <1>7, <1>8, <1>11, <1>14
<1>19. /\ p = Places(s)[i] + Len(Header(s[i])) + (s[i].pack - d.packSize)
       /\ Places(s)[i + 1] = Places(s)[i] + Len(Header(s[i])) + s[i].pack
       /\ Len(Header(s[i])) \in Nat
  BY <1>7, <1>8, <1>9, <1>10, <1>11, <1>14
<1>20. Made(s, d, i) = s[i].unpack - d.unpackSize BY <1>5, <1>6, <1>15
<1>21. d.state = "DATA" => d.packSize = s[i].pack /\ d.unpackSize = s[i].unpack
  BY <1>5, <1>6, <1>7, <1>8, <1>16
<1> QED BY <1>1, <1>2, <1>17, <1>18, <1>19, <1>20, <1>21

LEMMA ChunkRight ==
  ASSUME NEW s \in ChunkStreams, NEW i \in 1 .. Len(s), s[i].control >= 128
  PROVE LzmaChunk(s[i]) /\ Seen(s[i], 0, 0)
<1>1. LzmaChunk(s[i]) BY ChunkTypes DEF LzmaChunk
<1>2. PICK y : y = s[i].yield OBVIOUS
<1>3. PICK st : st = s[i].stop OBVIOUS
<1>4. PICK v : v = s[i].pack OBVIOUS
<1>5. v \in Nat /\ 1 <= v /\ y[0] \in Nat /\ st \in {0} \cup InitSize .. v /\ InitSize \in Nat
  <2>1. v \in Nat /\ 1 <= v BY <1>4, ChunkTypes
  <2>2. 0 \in 0 .. v BY <2>1
  <2> QED BY <1>1, <1>2, <1>3, <1>4, <2>1, <2>2, Limits DEF LzmaChunk
<1>6. InitSize .. 0 - 1 = {} BY <1>5
<1>7. 0 <= y[0] /\ (st # 0 => 0 <= st) BY <1>5
<1> QED BY <1>1, <1>2, <1>3, <1>6, <1>7 DEF Seen

LEMMA BegunForm ==
  ASSUME DecTypeOK(dec), dec.state \in DataStates, NEW x, x = ChunkBegun
  PROVE /\ DecTypeOK(x) /\ x.state = "DATA_CONT"
        /\ x.control = dec.control /\ x.needInitLevel = dec.needInitLevel
        /\ x.isExtraMode = dec.isExtraMode /\ x.unpackSize = dec.unpackSize
        /\ x.packSize = dec.packSize /\ x.dicPos = dec.dicPos /\ x.probs = dec.probs
        /\ dec.state = "DATA" /\ dec.control >= 160 => x.start = 2
        /\ dec.state = "DATA_CONT" => x.start = dec.start
<1>type. DecTypeOK(dec) OBVIOUS
<1>1. CASE dec.state = "DATA"
  <2>a. PICK a : a = (dec.control >= 224) OBVIOUS
  <2>b. PICK b : b = (dec.control >= 160) OBVIOUS
  <2>1. PICK w : w = InitDicAndState(dec, a, b) OBVIOUS
  <2>2. x = [w EXCEPT !.state = "DATA_CONT"] BY <1>1, <2>a, <2>b, <2>1 DEF ChunkBegun
  <2>3. a \in BOOLEAN /\ b \in BOOLEAN BY <2>a, <2>b
  <2>4. /\ DecTypeOK(w) /\ SameBut(w, dec)
        /\ w.start = IF a \/ b THEN 2 ELSE 1
    BY <1>type, <2>1, <2>3, InitForm
  <2>form. DecForm(w) BY <2>4 DEF DecTypeOK
  <2>5. /\ DecForm(x) /\ x.state = "DATA_CONT"
        /\ x.control = w.control /\ x.needInitLevel = w.needInitLevel
        /\ x.isExtraMode = w.isExtraMode /\ x.unpackSize = w.unpackSize
        /\ x.packSize = w.packSize /\ x.dicPos = w.dicPos /\ x.probs = w.probs
        /\ x.start = w.start
    BY <2>form, <2>2 DEF DecForm
  <2>6. /\ w.needInitLevel \in {0, 192, 224} /\ w.unpackSize \in 0 .. 256
        /\ w.packSize \in 0 .. 256 /\ w.dicPos \in Nat /\ w.start \in 0 .. 2
        /\ w.probs \in BOOLEAN /\ w.isExtraMode \in BOOLEAN
    BY <2>4 DEF DecTypeOK
  <2>7. x.state \in HeaderStates \cup DataStates \cup {"FINISHED", "ERROR"}
    BY <2>5 DEF DataStates
  <2>8. DecTypeOK(x) BY <2>5, <2>6, <2>7, MakeDecType
  <2>9. dec.control >= 160 => x.start = 2 BY <2>b, <2>4, <2>5
  <2> QED BY <1>1, <2>4, <2>5, <2>8, <2>9 DEF SameBut
<1>2. CASE dec.state # "DATA"
  <2>1. x = dec /\ dec.state = "DATA_CONT" BY <1>2 DEF ChunkBegun, DataStates
  <2> QED BY <2>1
<1> QED BY <1>1, <1>2

LEMMA PieceForm ==
  ASSUME NEW x, DecTypeOK(x), NEW c, NEW r, r.in \in Nat, r.wrote \in Nat,
         r.in <= x.packSize, r.wrote <= x.unpackSize, c.head \in BOOLEAN,
         NEW runs, runs = (c.pack - dec.packSize + r.in >= InitSize /\ c.head),
         NEW e, e = AfterPiece(x, c, r)
  PROVE /\ DecTypeOK(e) /\ e.state = x.state
        /\ e.packSize = x.packSize - r.in /\ e.unpackSize = x.unpackSize - r.wrote
        /\ e.dicPos = x.dicPos + r.wrote
        /\ e.probs = (x.probs \/ (runs /\ x.start = 2))
        /\ e.start = IF runs THEN 0 ELSE x.start
        /\ e.control = x.control /\ e.needInitLevel = x.needInitLevel
        /\ e.isExtraMode = x.isExtraMode
<1>form. DecForm(x) BY DEF DecTypeOK
<1>1. runs \in BOOLEAN OBVIOUS
<1>2. e = [x EXCEPT !.packSize = @ - r.in, !.unpackSize = @ - r.wrote,
        !.dicPos = @ + r.wrote,
        !.probs = @ \/ (runs /\ x.start = 2),
        !.start = IF runs THEN 0 ELSE @]
  BY DEF AfterPiece
<1>3. /\ DecForm(e) /\ e.state = x.state
      /\ e.packSize = x.packSize - r.in /\ e.unpackSize = x.unpackSize - r.wrote
      /\ e.dicPos = x.dicPos + r.wrote
      /\ e.probs = (x.probs \/ (runs /\ x.start = 2))
      /\ e.start = IF runs THEN 0 ELSE x.start
      /\ e.control = x.control /\ e.needInitLevel = x.needInitLevel
      /\ e.isExtraMode = x.isExtraMode
  BY <1>form, <1>2 DEF DecForm
<1>4. PICK v : v = x.packSize OBVIOUS
<1>5. PICK u : u = x.unpackSize OBVIOUS
<1>6. PICK q : q = x.dicPos OBVIOUS
<1>7. PICK n : n = r.in OBVIOUS
<1>8. PICK m : m = r.wrote OBVIOUS
<1>9. /\ x.needInitLevel \in {0, 192, 224} /\ v \in 0 .. 256 /\ u \in 0 .. 256
      /\ x.start \in 0 .. 2 /\ x.probs \in BOOLEAN /\ x.isExtraMode \in BOOLEAN
      /\ q \in Nat /\ x.state \in HeaderStates \cup DataStates \cup {"FINISHED", "ERROR"}
  BY <1>4, <1>5, <1>6 DEF DecTypeOK
<1>10. v - n \in 0 .. 256 /\ u - m \in 0 .. 256 /\ q + m \in Nat
  <2>1. n \in Nat /\ n <= v /\ m \in Nat /\ m <= u BY <1>4, <1>5, <1>7, <1>8
  <2> QED BY <1>9, <2>1
<1>11. e.packSize \in 0 .. 256 /\ e.unpackSize \in 0 .. 256 /\ e.dicPos \in Nat
  BY <1>3, <1>4, <1>5, <1>6, <1>7, <1>8, <1>10
<1>12. e.probs \in BOOLEAN BY <1>1, <1>3
<1>13. e.start \in 0 .. 2 BY <1>1, <1>3, <1>9
<1>14. DecTypeOK(e) BY <1>3, <1>9, <1>11, <1>12, <1>13, MakeDecType
<1> QED BY <1>3, <1>14
Taken(s, d, p, i, in, wrote, e, decodes) ==
  /\ At(s, p + in, i) /\ Stage(s, e, p + in, i) /\ Levels(s, e, i)
  /\ Passed(s, e, i, decodes) /\ Made(s, e, i) = Made(s, d, i) + wrote

LEMMA StageTaken ==
  ASSUME NEW s, NEW e, NEW p, NEW i, i > 0, e.state = "DATA_CONT",
         e.control = s[i].control, s[i].control # 0, ~(s[i].control < 128),
         e.unpackSize \in 0 .. s[i].unpack, e.packSize \in 0 .. s[i].pack,
         p - Places(s)[i] = Len(Header(s[i])) + s[i].pack - e.packSize
  PROVE Stage(s, e, p, i)
BY DEF Stage

LEMMA StageDone ==
  ASSUME NEW s, NEW e, NEW p, NEW i, i > 0, e.state = "CONTROL",
         e.control = s[i].control, s[i].control # 0, e.unpackSize = 0, p = Places(s)[i + 1]
  PROVE Stage(s, e, p, i)
BY DEF Stage

LEMMA LzmaTaken ==
  ASSUME NEW s \in ChunkStreams, NEW p \in Nat, NEW d, DecTypeOK(d), NEW i,
         At(s, p, i), Stage(s, d, p, i), Levels(s, d, i),
         d.state \in DataStates, ~(d.control < 128),
         NEW in \in Nat, in <= d.packSize, NEW wrote \in Nat, wrote <= d.unpackSize,
         NEW e, e.packSize = d.packSize - in, e.unpackSize = d.unpackSize - wrote,
         e.state \in {"DATA_CONT", "CONTROL"},
         e.control = d.control, e.needInitLevel = d.needInitLevel,
         NEW decodes \in BOOLEAN, Passed(s, d, i, decodes),
         e.state = "CONTROL" => /\ e.packSize = 0 /\ e.unpackSize = 0
                                /\ IF decodes THEN DataOK(s[i]) ELSE HeadOK(s[i])
  PROVE Taken(s, d, p, i, in, wrote, e, decodes)
<1>1. /\ i \in 1 .. Len(s) /\ i > 0 /\ i # 0
      /\ s[i].control >= 128 /\ s[i].control # 0 /\ d.control = s[i].control
      /\ d.unpackSize \in Nat /\ d.unpackSize <= s[i].unpack /\ s[i].unpack \in Nat
      /\ d.packSize \in Nat /\ d.packSize <= s[i].pack /\ s[i].pack \in Nat
      /\ Len(Header(s[i])) \in Nat
      /\ p = Places(s)[i] + Len(Header(s[i])) + (s[i].pack - d.packSize)
      /\ Places(s)[i + 1] = Places(s)[i] + Len(Header(s[i])) + s[i].pack
      /\ Made(s, d, i) = s[i].unpack - d.unpackSize
  BY LzmaPlace
<1>2. PICK u : u = d.unpackSize OBVIOUS
<1>3. PICK z : z = s[i].unpack OBVIOUS
<1>4. PICK v : v = d.packSize OBVIOUS
<1>5. PICK y : y = s[i].pack OBVIOUS
<1>6. PICK a : a = Places(s)[i] OBVIOUS
<1>7. PICK b : b = Places(s)[i + 1] OBVIOUS
<1>8. PICK h : h = Len(Header(s[i])) OBVIOUS
<1>9. PICK q : q = p + in OBVIOUS
<1>10. a \in Nat /\ b \in Nat BY <1>1, <1>6, <1>7, PlacesType
<1>11. /\ u \in Nat /\ u <= z /\ z \in Nat /\ v \in Nat /\ v <= y /\ y \in Nat
       /\ in <= v /\ wrote <= u /\ h \in Nat
       /\ p = a + h + (y - v) /\ b = a + h + y
  BY <1>1, <1>2, <1>3, <1>4, <1>5, <1>6, <1>7, <1>8
<1>12. /\ q \in Nat /\ p <= q /\ q <= b /\ q - a = h + y - (v - in)
       /\ v - in \in 0 .. y /\ u - wrote \in 0 .. z /\ (v - in = 0 => q = b)
       /\ z - (u - wrote) = (z - u) + wrote
  BY <1>9, <1>10, <1>11
<1>13. At(s, q, i) BY <1>1, <1>7, <1>12, AtAdvance
<1>14. e.control = s[i].control /\ ~(s[i].control < 128) BY <1>1
<1>15. e.packSize = v - in /\ e.unpackSize = u - wrote BY <1>2, <1>4
<1>16. Stage(s, e, q, i)
  <2>1. CASE e.state = "CONTROL"
    <3>1. e.unpackSize = 0 /\ v - in = 0 BY <1>15, <2>1
    <3>2. q = Places(s)[i + 1] BY <1>7, <1>12, <3>1
    <3>3. i > 0 /\ s[i].control # 0 BY <1>1
    <3> QED BY <1>14, <2>1, <3>1, <3>2, <3>3, StageDone
  <2>2. CASE e.state = "DATA_CONT"
    <3>1. e.unpackSize \in 0 .. s[i].unpack /\ e.packSize \in 0 .. s[i].pack
      BY <1>3, <1>5, <1>12, <1>15
    <3>2. q - Places(s)[i] = Len(Header(s[i])) + s[i].pack - e.packSize
      BY <1>5, <1>6, <1>8, <1>12, <1>15
    <3>3. i > 0 /\ s[i].control # 0 BY <1>1
    <3> QED BY <1>14, <2>2, <3>1, <3>2, <3>3, StageTaken
  <2> QED BY <2>1, <2>2
<1>17. HeaderOK(s, i) BY <1>1 DEF Levels
<1>18. Levels(s, e, i)
  <2>1. d.state # "ERROR" BY DEF DataStates
  <2> QED BY <1>1, <1>17, <2>1 DEF Levels
<1>19. Passed(s, e, i, decodes)
  <2>1. \A j \in 1 .. i : j < i => HeaderOK(s, j) /\ IF decodes THEN DataOK(s[j]) ELSE HeadOK(s[j])
    BY DEF Passed
  <2>2. \A j \in 1 .. i : j < i \/ j = i BY <1>1, ChunkTypes
  <2> QED BY <1>17, <2>1, <2>2 DEF Passed
<1>20. Made(s, e, i) = Made(s, d, i) + wrote
  <2>1. e.state \in DataStates \cup {"CONTROL"} BY DEF DataStates
  <2>2. Made(s, e, i) = z - (u - wrote) BY <1>1, <1>3, <1>15, <2>1 DEF Made
  <2>3. Made(s, d, i) = z - u BY <1>1, <1>2, <1>3
  <2> QED BY <1>12, <2>2, <2>3
<1> QED BY <1>9, <1>13, <1>16, <1>18, <1>19, <1>20 DEF Taken

(* The probabilities behind a piece.                                         *)
ProbsAfter(control, d, start, e) ==
  /\ d.state = "DATA" /\ control >= 160 => start = 2
  /\ d.state = "DATA_CONT" => start = d.start
  /\ \/ e.start = 0 /\ e.probs = (d.probs \/ start = 2)
     \/ e.start = start /\ e.probs = d.probs
  /\ e.state = "DATA_CONT"
LEMMA ProbsTaken ==
  ASSUME NEW s \in ChunkStreams, NEW i \in 1 .. Len(s),
         NEW g \in {128, 160, 192, 224}, g = s[i].control,
         NEW d, DecTypeOK(d), d.state \in DataStates, ProbsSoFar(s, d, i),
         NEW start, NEW e, ProbsAfter(g, d, start, e)
  PROVE ProbsSoFar(s, e, i)
<1>0. /\ d.state = "DATA" /\ g >= 160 => start = 2
      /\ d.state = "DATA_CONT" => start = d.start
      /\ \/ e.start = 0 /\ e.probs = (d.probs \/ start = 2)
         \/ e.start = start /\ e.probs = d.probs
      /\ e.state = "DATA_CONT"
  BY DEF ProbsAfter
<1>1. d.probs \in BOOLEAN BY DEF DecTypeOK
<1>2. i > 0 BY ChunkTypes
<1>3. g = s[i].control OBVIOUS
<1>4. g \in {128, 160, 192, 224} OBVIOUS
<1>5. g \in {128, 160} => d.probs BY <1>2, <1>3 DEF ProbsSoFar
<1>6. g >= 192 => start \in {0, 2} /\ (start = 0 => d.probs)
  <2>1. CASE d.state = "DATA" BY <1>0, <1>3, <1>4, <2>1
  <2>2. CASE d.state = "DATA_CONT" BY <1>0, <1>2, <1>3, <2>2 DEF ProbsSoFar
  <2> QED BY <2>1, <2>2 DEF DataStates
<1>7. g >= 192 => e.start \in {0, 2} /\ (e.start = 0 => e.probs)
  BY <1>0, <1>1, <1>6
<1>8. g \in {128, 160} => e.probs BY <1>0, <1>1, <1>5
<1>9. ~(g < 128) BY <1>4
<1> QED BY <1>0, <1>3, <1>7, <1>8, <1>9 DEF ProbsSoFar
LEMMA PieceLzma ==
  ASSUME Lzma2Inv, LzmaPiece
  PROVE Lzma2Inv'
<1>1. /\ stream \in ChunkStreams /\ src \in Nat /\ DecTypeOK(dec) /\ CallTypeOK(call)
  BY InvParts
<1>2. PICK i \in 0 .. Len(stream) :
        /\ Here(stream, dec, src, text, i, call.kind # "parse")
        /\ InCall(stream, dec, src, i, call) /\ At(stream, src, i)
        /\ Stage(stream, dec, src, i) /\ Levels(stream, dec, i)
        /\ Passed(stream, dec, i, call.kind # "parse")
        /\ call.kind # "parse" => Decoded(stream, dec, text, i)
        /\ i > 0 => Chunk = i
  BY InvParts
<1>3. call.pc = "decode" BY DEF LzmaPiece, Decoding
<1>4. call.pc \in {"decode", "parse"} BY <1>3
<1>5. /\ call.pc # "idle" /\ src <= call.end /\ call.end <= Size(stream) /\ call.end \in Nat
      /\ call.limit \in Nat /\ dec.dicPos \in Nat /\ call.kind # "parse" /\ call.from \in Nat
      /\ call.from <= dec.dicPos /\ dec.dicPos <= call.limit /\ call.limit <= DicBufSize
      /\ call.curMode \in {"any", "end"}
  BY <1>1, <1>2, <1>3, <1>4, CallIs
<1>6. dec.state \in DataStates /\ ~(dec.control < 128) /\ dec.state # "ERROR"
  BY DEF LzmaPiece, InData, DataStates, IsUncompressed
<1>7. stream' = stream BY DEF LzmaPiece
<1>8. /\ i \in 1 .. Len(stream) /\ i > 0 /\ i # 0
      /\ stream[i].control >= 128 /\ stream[i].control # 0
      /\ dec.control = stream[i].control
      /\ stream[i].control \in {128, 160, 192, 224}
      /\ dec.unpackSize \in Nat /\ dec.unpackSize <= stream[i].unpack
      /\ stream[i].unpack \in Nat
      /\ dec.packSize \in Nat /\ dec.packSize <= stream[i].pack /\ stream[i].pack \in Nat
      /\ 1 <= stream[i].pack
      /\ Made(stream, dec, i) = stream[i].unpack - dec.unpackSize
      /\ dec.state = "DATA" =>
           dec.packSize = stream[i].pack /\ dec.unpackSize = stream[i].unpack
  BY <1>1, <1>2, <1>6, LzmaPlace
<1>9. Decoded(stream, dec, text, i) /\ Passed(stream, dec, i, TRUE) BY <1>2, <1>5
<1>10. PICK m : m = stream[i].unpack - dec.unpackSize OBVIOUS
<1>11. PICK used : used = stream[i].pack - dec.packSize OBVIOUS
<1>12. m \in Nat /\ used \in Nat BY <1>8, <1>10, <1>11
<1>13. text = TextOf(stream)[i - 1] \o Tokens(i, 0, m)
  BY <1>6, <1>8, <1>9, <1>10 DEF Decoded, TextSoFar
<1>14. InSize \in Nat /\ Room \in Nat BY <1>1, <1>5 DEF InSize, Room
<1>15. PICK n : n = Lesser(InSize, dec.packSize) OBVIOUS
<1>16. n \in Nat /\ n <= InSize /\ n <= dec.packSize /\ (n = InSize \/ n = dec.packSize)
  BY <1>8, <1>14, <1>15, LesserOf
<1>17. PICK room : room = IF Room >= dec.unpackSize THEN dec.unpackSize ELSE Room OBVIOUS
<1>18. PICK mode : mode = IF Room >= dec.unpackSize THEN "end" ELSE "any" OBVIOUS
<1>19. /\ room \in Nat /\ room <= Room /\ room <= dec.unpackSize
       /\ mode \in {"any", "end"}
       /\ mode = "end" => room = dec.unpackSize
       /\ mode = "any" => room = Room
  BY <1>8, <1>14, <1>17, <1>18
<1>20. PICK c : c = stream[i] OBVIOUS
<1>21. LzmaChunk(c) /\ c.head \in BOOLEAN
  BY <1>1, <1>8, <1>20, ChunkRight DEF LzmaChunk
<1>22. Seen(c, used, m)
  <2>1. CASE dec.state = "DATA"
    <3>1. used = 0 /\ m = 0 BY <1>8, <1>10, <1>11, <2>1
    <3> QED BY <1>1, <1>8, <1>20, <3>1, ChunkRight
  <2>2. CASE dec.state = "DATA_CONT"
    BY <1>8, <1>9, <1>10, <1>11, <1>20, <2>2 DEF Decoded, DataSoFar
  <2> QED BY <1>6, <2>1, <2>2 DEF DataStates
<1>23. PICK r : r = LzmaDecode(c, used, m, n, room, mode) OBVIOUS
<1>24. PieceOf(c) = r
  BY <1>10, <1>11, <1>15, <1>17, <1>18, <1>20, <1>23 DEF PieceOf
<1>25. PICK z : z = c.unpack OBVIOUS
<1>26. PICK y : y = c.pack OBVIOUS
<1>27. PICK v : v = dec.packSize OBVIOUS
<1>28. PICK u : u = dec.unpackSize OBVIOUS
<1>29. /\ z \in Nat /\ y \in Nat /\ v \in Nat /\ u \in Nat /\ v <= y /\ u <= z /\ 1 <= y
       /\ m = z - u /\ used = y - v /\ n <= v /\ room <= u
       /\ used + n <= c.pack /\ m + room <= c.unpack
       /\ mode = "end" => m + room = c.unpack
  <2>1. /\ z \in Nat /\ y \in Nat /\ v \in Nat /\ u \in Nat /\ v <= y /\ u <= z /\ 1 <= y
        /\ m = z - u /\ used = y - v /\ n <= v /\ room <= u
        /\ mode = "end" => room = u
    BY <1>8, <1>10, <1>11, <1>16, <1>19, <1>20, <1>25, <1>26, <1>27, <1>28
  <2>2. used + n <= y /\ m + room <= z /\ (mode = "end" => m + room = z)
    BY <1>16, <1>19, <2>1
  <2> QED BY <1>25, <1>26, <2>1, <2>2
<1>30. /\ r.in \in 0 .. n /\ r.wrote \in 0 .. room
       /\ r.status = "needs_more_input" => r.in = n
       /\ r.res = "ok" => Seen(c, used + r.in, m + r.wrote)
       /\ Stuck(c, used, m, r) => ~DataOK(c) \/ (room = 0 /\ mode = "any")
       /\ Closes(c, used, m, r) => DataOK(c)
  <2>1. /\ used + n <= c.pack /\ m + room <= c.unpack
        /\ mode = "end" => m + room = c.unpack
    BY <1>29
  <2>2. m \in Nat /\ used \in Nat /\ n \in Nat /\ room \in Nat /\ mode \in {"any", "end"}
    BY <1>12, <1>16, <1>19
  <2>3. LzmaChunk(c) BY <1>21
  <2> QED BY <1>22, <1>23, <2>1, <2>2, <2>3, PieceRight
<1>31. PICK in : in = r.in OBVIOUS
<1>32. PICK wrote : wrote = r.wrote OBVIOUS
<1>33. in \in Nat /\ in <= n /\ in <= v /\ wrote \in Nat /\ wrote <= room /\ wrote <= u
  <2>1. in \in 0 .. n /\ wrote \in 0 .. room BY <1>30, <1>31, <1>32
  <2> QED BY <1>16, <1>19, <1>29, <2>1
<1>34. PICK x : x = ChunkBegun OBVIOUS
<1>35. /\ DecTypeOK(x) /\ x.state = "DATA_CONT"
       /\ x.control = dec.control /\ x.needInitLevel = dec.needInitLevel
       /\ x.isExtraMode = dec.isExtraMode /\ x.unpackSize = dec.unpackSize
       /\ x.packSize = dec.packSize /\ x.dicPos = dec.dicPos /\ x.probs = dec.probs
       /\ dec.state = "DATA" /\ dec.control >= 160 => x.start = 2
       /\ dec.state = "DATA_CONT" => x.start = dec.start
  BY <1>1, <1>6, <1>34, BegunForm
<1>36. PICK runs : runs = (c.pack - dec.packSize + r.in >= InitSize /\ c.head) OBVIOUS
<1>37. PICK d : d = AfterPiece(x, c, r) OBVIOUS
<1>38. /\ DecTypeOK(d) /\ d.state = "DATA_CONT"
       /\ d.packSize = dec.packSize - in /\ d.unpackSize = dec.unpackSize - wrote
       /\ d.dicPos = dec.dicPos + wrote
       /\ d.probs = (dec.probs \/ (runs /\ x.start = 2))
       /\ d.start = IF runs THEN 0 ELSE x.start
       /\ d.control = dec.control /\ d.needInitLevel = dec.needInitLevel
  <2>1. r.in \in Nat /\ r.wrote \in Nat /\ r.in <= x.packSize /\ r.wrote <= x.unpackSize
    BY <1>27, <1>28, <1>31, <1>32, <1>33, <1>35
  <2>2. /\ DecTypeOK(d) /\ d.state = x.state
        /\ d.packSize = x.packSize - r.in /\ d.unpackSize = x.unpackSize - r.wrote
        /\ d.dicPos = x.dicPos + r.wrote
        /\ d.probs = (x.probs \/ (runs /\ x.start = 2))
        /\ d.start = IF runs THEN 0 ELSE x.start
        /\ d.control = x.control /\ d.needInitLevel = x.needInitLevel
    BY <1>21, <1>35, <1>36, <1>37, <2>1, PieceForm
  <2> QED BY <1>31, <1>32, <1>35, <2>2
<1>39. d.packSize = v - in /\ d.unpackSize = u - wrote BY <1>27, <1>28, <1>38
<1>40. PICK p : p = src + in OBVIOUS
<1>41. PICK t : t = text \o Tokens(i, m, wrote) OBVIOUS
<1>42. /\ src' = p /\ text' = t
       /\ IF Broken(d, r)
          THEN dec' = Failed(d) /\ call' = Back(call, "data", "none")
          ELSE IF r.status = "needs_more_input"
          THEN dec' = d /\ call' = Back(call, "ok", "needs_more_input")
          ELSE /\ dec' = IF Still(r) THEN [d EXCEPT !.state = "CONTROL"] ELSE d
               /\ call' = call
  <2>1. Chunk = i /\ stream[Chunk] = c BY <1>2, <1>8, <1>20
  <2>2. c.unpack - dec.unpackSize = m BY <1>10, <1>20
  <2> QED BY <1>24, <1>31, <1>32, <1>34, <1>37, <1>40, <1>41, <2>1, <2>2
          DEF LzmaPiece, Return, Back, Failed
<1>43. p \in Nat /\ p <= call.end BY <1>1, <1>5, <1>14, <1>16, <1>33, <1>40 DEF InSize
<1>44. call.from <= d.dicPos /\ d.dicPos <= call.limit /\ d.dicPos <= DicBufSize
  <2>1. PICK q : q = dec.dicPos OBVIOUS
  <2>2. PICK l : l = call.limit OBVIOUS
  <2>3. q \in Nat /\ l \in Nat /\ Room = l - q /\ call.from <= q /\ q <= l /\ l <= DicBufSize
    BY <1>5, <2>1, <2>2 DEF Room
  <2>4. d.dicPos = q + wrote /\ wrote <= Room BY <1>14, <1>19, <1>33, <1>38, <2>1
  <2>5. q + wrote <= l /\ call.from <= q + wrote /\ q + wrote <= DicBufSize
    BY <1>5, <1>33, <2>3, <2>4, Limits
  <2> QED BY <2>2, <2>4, <2>5
<1>45. t = TextOf(stream)[i - 1] \o Tokens(i, 0, m + wrote)
  <2>1. (TextOf(stream)[i - 1] \o Tokens(i, 0, m)) \o Tokens(i, m, wrote)
          = TextOf(stream)[i - 1] \o Tokens(i, 0, m + wrote)
    <3>1. i \in 1 .. Len(stream) /\ m \in Nat /\ wrote \in Nat BY <1>8, <1>12, <1>33
    <3> QED BY <1>1, <3>1, TextGrows
  <2> QED BY <1>13, <1>41, <2>1
<1>46. m + wrote \in 0 .. stream[i].unpack
  <2>1. m + wrote \in 0 .. z BY <1>12, <1>29, <1>33
  <2> QED BY <1>20, <1>25, <2>1
<1>47. stream[i].control = 0 => m + wrote = 0 BY <1>8
<1>48. Taken(stream, dec, src, i, in, wrote, d, TRUE)
  <2>1. in <= dec.packSize /\ wrote <= dec.unpackSize BY <1>27, <1>28, <1>33
  <2>2. d.state \in {"DATA_CONT", "CONTROL"} /\ d.state # "CONTROL" /\ TRUE \in BOOLEAN BY <1>38
  <2> QED BY <1>1, <1>2, <1>6, <1>9, <1>33, <1>38, <2>1, <2>2, LzmaTaken
<1>49. /\ At(stream, p, i) /\ Stage(stream, d, p, i) /\ Levels(stream, d, i)
       /\ Passed(stream, d, i, TRUE) /\ Made(stream, d, i) = m + wrote
  BY <1>8, <1>10, <1>40, <1>48 DEF Taken
<1>50. runs \in BOOLEAN BY <1>36
<1>51. ProbsSoFar(stream, dec, i) BY <1>6, <1>9 DEF Decoded
<1>52. ASSUME r.res = "ok" PROVE Here(stream, d, p, t, i, TRUE)
  <2>1. TextSoFar(stream, d, t, i) BY <1>8, <1>45, <1>46, <1>47, <1>49 DEF TextSoFar
  <2>2. DataSoFar(d, stream[i])
    <3>1. Seen(c, used + in, m + wrote) BY <1>30, <1>31, <1>32, <1>52
    <3>2. y - d.packSize = used + in /\ z - d.unpackSize = m + wrote
      BY <1>29, <1>33, <1>39
    <3> QED BY <1>20, <1>25, <1>26, <3>1, <3>2 DEF DataSoFar
  <2>3. ProbsSoFar(stream, d, i)
    <3>0. PICK g : g = stream[i].control OBVIOUS
    <3>1. dec.state = "DATA" /\ g >= 160 => x.start = 2 BY <1>8, <1>35, <3>0
    <3>2. ProbsAfter(g, dec, x.start, d)
      <4>1. \/ d.start = 0 /\ d.probs = (dec.probs \/ x.start = 2)
            \/ d.start = x.start /\ d.probs = dec.probs
        <5>1. dec.probs \in BOOLEAN BY <1>1 DEF DecTypeOK
        <5>2. CASE runs BY <1>38, <5>1, <5>2
        <5>3. CASE ~runs BY <1>38, <5>1, <5>3
        <5> QED BY <5>2, <5>3
      <4> QED BY <1>35, <1>38, <3>1, <4>1 DEF ProbsAfter
    <3>3. i \in 1 .. Len(stream) /\ g \in {128, 160, 192, 224} BY <1>8, <3>0
    <3>4. stream \in ChunkStreams /\ DecTypeOK(dec) /\ dec.state \in DataStates BY <1>1, <1>6
    <3> QED BY <1>51, <3>0, <3>2, <3>3, <3>4, ProbsTaken
  <2>4. Decoded(stream, d, t, i) BY <1>44, <2>1, <2>2, <2>3 DEF Decoded
  <2> QED BY <1>49, <2>4 DEF Here
<1>53. CASE Broken(d, r)
  <2>1. Stuck(c, used, m, r)
    <3>1. CASE r.res # "ok" BY <3>1 DEF Stuck
    <3>2. CASE r.status = "needs_more_input" /\ d.packSize = 0
      <4>1. used + in = y BY <1>29, <1>33, <1>39, <3>2
      <4> QED BY <1>26, <1>31, <3>2, <4>1 DEF Stuck
    <3>3. CASE r.status # "needs_more_input" /\ Still(r) /\ ~ChunkDone(d, r)
      <4>1. r.in = 0 /\ r.wrote = 0 BY <3>3 DEF Still
      <4>2. d.packSize = v /\ d.unpackSize = u BY <1>29, <1>31, <1>32, <1>39, <4>1
      <4>3. (m = z => u = 0) /\ (used = y => v = 0) BY <1>29
      <4>4. ~(r.status = "maybe_finished_without_mark" /\ m = z /\ used = y)
        BY <3>3, <4>2, <4>3 DEF ChunkDone
      <4> QED BY <1>25, <1>26, <3>3, <4>1, <4>4 DEF Stuck
    <3> QED BY <1>53, <3>1, <3>2, <3>3 DEF Broken
  <2>2. \/ ~ChunkOK(stream, i)
        \/ call.limit = d.dicPos /\ call.curMode = "end" /\ stream[i].control # 0
    <3>1. CASE ~DataOK(c) BY <1>20, <3>1 DEF ChunkOK
    <3>2. CASE room = 0 /\ mode = "any"
      <4>1. Room = 0 /\ wrote = 0 BY <1>19, <1>33, <3>2
      <4>2. call.limit = dec.dicPos BY <1>5, <4>1 DEF Room
      <4>3. d.dicPos = dec.dicPos BY <1>5, <1>38, <4>1
      <4>4. call.curMode = "end" BY <1>5, <4>1 DEF LzmaPiece, Decoding, Full
      <4> QED BY <1>8, <4>2, <4>3, <4>4
    <3> QED BY <1>30, <2>1, <3>1, <3>2
  <2>3. PICK e : e = Failed(d) OBVIOUS
  <2>4. PICK b : b = Back(call, "data", "none") OBVIOUS
  <2>5. src' = p /\ text' = t /\ dec' = e /\ call' = b BY <1>42, <1>53, <2>3, <2>4
  <2>6. call.from <= d.dicPos /\ d.dicPos <= call.limit /\ call.limit <= DicBufSize
    BY <1>5, <1>44
  <2> QED BY <1>1, <1>3, <1>5, <1>7, <1>8, <1>9, <1>38, <1>43, <1>45, <1>46, <1>47, <1>49,
             <2>2, <2>3, <2>4, <2>5, <2>6, GivesUp
<1>54. CASE ~Broken(d, r)
  <2>1. r.res = "ok" BY <1>54 DEF Broken
  <2>2. Here(stream, d, p, t, i, TRUE) BY <1>52, <2>1
  <2>3. d.state # "ERROR" BY <1>38
  <2>4. CASE r.status = "needs_more_input"
    <3>1. PICK b : b = Back(call, "ok", "needs_more_input") OBVIOUS
    <3>2. src' = p /\ text' = t /\ dec' = d /\ call' = b BY <1>42, <1>54, <2>4, <3>1
    <3>3. p = call.end
      <4>1. in = n BY <1>30, <1>31, <2>4
      <4>2. d.packSize # 0 BY <1>54, <2>4 DEF Broken
      <4>3. v - in # 0 BY <1>39, <4>2
      <4>4. n = InSize BY <1>16, <1>27, <1>29, <4>1, <4>3
      <4> QED BY <1>1, <1>5, <1>40, <4>1, <4>4 DEF InSize
    <3>4. call.kind # "parse" =>
            call.from <= d.dicPos /\ d.dicPos <= call.limit /\ call.limit <= DicBufSize
      BY <1>5, <1>44
    <3>5. Here(stream, d, p, t, i, call.kind # "parse") BY <1>5, <2>2
    <3> QED BY <1>1, <1>5, <1>7, <1>38, <1>43, <2>3, <3>1, <3>2, <3>3, <3>4, <3>5, NeedsMore
  <2>5. CASE r.status # "needs_more_input" /\ ~Still(r)
    <3>1. src' = p /\ text' = t /\ dec' = d /\ call' = call BY <1>42, <1>54, <2>5
    <3>2. InCall(stream, d, p, i, call) /\ Result(stream, d, p, i, call)
      BY <1>1, <1>2, <1>4, <1>43, <1>44, <2>3, GoesOn
    <3>3. Here(stream, d, p, t, i, call.kind # "parse") BY <1>5, <2>2
    <3> QED BY <1>1, <1>7, <1>38, <1>43, <3>1, <3>2, <3>3, InvNext
  <2>6. CASE r.status # "needs_more_input" /\ Still(r)
    <3>1. PICK e : e = [d EXCEPT !.state = "CONTROL"] OBVIOUS
    <3>2. src' = p /\ text' = t /\ dec' = e /\ call' = call BY <1>42, <1>54, <2>6, <3>1
    <3>3. r.in = 0 /\ r.wrote = 0 /\ ChunkDone(d, r) BY <1>54, <2>6 DEF Still, Broken
    <3>4. v = 0 /\ u = 0 /\ in = 0 /\ wrote = 0 /\ used = y /\ m = z
      BY <1>29, <1>31, <1>32, <1>39, <3>3 DEF ChunkDone
    <3>5. DataOK(c)
      <4>1. Closes(c, used, m, r) BY <1>25, <1>26, <3>3, <3>4 DEF ChunkDone, Closes
      <4> QED BY <1>30, <4>1
    <3>form. DecForm(d) BY <1>38 DEF DecTypeOK
    <3>6. /\ DecForm(e) /\ e.state = "CONTROL"
          /\ e.packSize = d.packSize /\ e.unpackSize = d.unpackSize
          /\ e.dicPos = d.dicPos /\ e.probs = d.probs /\ e.start = d.start
          /\ e.control = d.control /\ e.needInitLevel = d.needInitLevel
          /\ e.isExtraMode = d.isExtraMode
      BY <3>form, <3>1 DEF DecForm
    <3>7. DecTypeOK(e)
      <4>1. /\ d.needInitLevel \in {0, 192, 224} /\ d.unpackSize \in 0 .. 256
            /\ d.packSize \in 0 .. 256 /\ d.dicPos \in Nat /\ d.start \in 0 .. 2
            /\ d.probs \in BOOLEAN /\ d.isExtraMode \in BOOLEAN
        BY <1>38 DEF DecTypeOK
      <4>2. e.state \in HeaderStates \cup DataStates \cup {"FINISHED", "ERROR"}
        BY <3>6 DEF HeaderStates
      <4> QED BY <3>6, <4>1, <4>2, MakeDecType
    <3>8. Taken(stream, dec, src, i, in, wrote, e, TRUE)
      <4>1. in <= dec.packSize /\ wrote <= dec.unpackSize BY <1>27, <1>28, <1>33
      <4>2. e.packSize = dec.packSize - in /\ e.unpackSize = dec.unpackSize - wrote
        BY <1>38, <3>6
      <4>3. e.packSize = 0 /\ e.unpackSize = 0 BY <1>39, <3>4, <3>6
      <4>4. /\ e.state \in {"DATA_CONT", "CONTROL"} /\ TRUE \in BOOLEAN /\ DataOK(stream[i])
            /\ e.control = dec.control /\ e.needInitLevel = dec.needInitLevel
        BY <1>20, <1>38, <3>5, <3>6
      <4> QED BY <1>1, <1>2, <1>6, <1>9, <1>33, <4>1, <4>2, <4>3, <4>4, LzmaTaken
    <3>9. /\ At(stream, p, i) /\ Stage(stream, e, p, i) /\ Levels(stream, e, i)
          /\ Passed(stream, e, i, TRUE) /\ Made(stream, e, i) = m + wrote
      BY <1>8, <1>10, <1>40, <3>8 DEF Taken
    <3>10. TextSoFar(stream, e, t, i) BY <1>8, <1>45, <1>46, <1>47, <3>9 DEF TextSoFar
    <3>11. ProbsSoFar(stream, e, i)
      <4>1. dec.state = "DATA_CONT"
        <5>1. dec.state # "DATA" BY <1>8, <1>20, <1>26, <1>27, <1>29, <3>4
        <5> QED BY <1>6, <5>1 DEF DataStates
      <4>2. runs
        <5>1. c.head /\ c.pack >= InitSize BY <1>8, <1>20, <3>5 DEF DataOK
        <5>2. c.pack - dec.packSize + r.in = y BY <1>26, <1>27, <1>29, <3>3, <3>4
        <5> QED BY <1>26, <1>36, <5>1, <5>2
      <4>3. e.probs
        <5>1. PICK g : g = stream[i].control OBVIOUS
        <5>2. g \in {128, 160} \/ g >= 192 BY <1>8, <5>1
        <5>3. g \in {128, 160} => dec.probs BY <1>8, <1>51, <5>1 DEF ProbsSoFar
        <5>4. g >= 192 => dec.start \in {0, 2} /\ (dec.start = 0 => dec.probs)
          BY <1>8, <1>51, <4>1, <5>1 DEF ProbsSoFar
        <5>5. dec.probs \/ dec.start = 2 BY <5>2, <5>3, <5>4
        <5>6. dec.probs \/ (runs /\ x.start = 2) BY <1>35, <4>1, <4>2, <5>5
        <5>7. e.probs = (dec.probs \/ (runs /\ x.start = 2)) BY <1>38, <3>6
        <5> QED BY <5>6, <5>7
      <4>4. e.state # "DATA_CONT" BY <3>6
      <4> QED BY <4>3, <4>4 DEF ProbsSoFar
    <3>12. e.dicPos <= DicBufSize /\ call.from <= e.dicPos /\ e.dicPos <= call.limit
           /\ e.state # "DATA_CONT" /\ e.state # "ERROR"
      BY <1>44, <3>6
    <3>13. Here(stream, e, p, t, i, call.kind # "parse")
      <4>1. Decoded(stream, e, t, i) BY <3>10, <3>11, <3>12 DEF Decoded
      <4> QED BY <1>5, <3>9, <4>1 DEF Here
    <3>14. InCall(stream, e, p, i, call) /\ Result(stream, e, p, i, call)
      BY <1>1, <1>2, <1>4, <1>43, <3>12, GoesOn
    <3> QED BY <1>1, <1>7, <1>43, <3>2, <3>7, <3>13, <3>14, InvNext
  <2> QED BY <2>4, <2>5, <2>6
<1> QED BY <1>53, <1>54

-----------------------------------------------------------------------------
(* The steps of Lzma2Dec_Parse.                                              *)

LEMMA HeaderParse ==
  ASSUME Lzma2Inv, ParseHeader
  PROVE Lzma2Inv'
<1>1. /\ stream \in ChunkStreams /\ src \in Nat /\ DecTypeOK(dec) /\ CallTypeOK(call)
  BY InvParts
<1>2. PICK i \in 0 .. Len(stream) :
        /\ Here(stream, dec, src, text, i, call.kind # "parse")
        /\ InCall(stream, dec, src, i, call) /\ At(stream, src, i)
        /\ Stage(stream, dec, src, i) /\ Levels(stream, dec, i)
  BY InvParts
<1>3. call.pc = "parse" BY DEF ParseHeader
<1>4. call.pc \in {"decode", "parse"} BY <1>3
<1>5. /\ call.pc # "idle" /\ src <= call.end /\ call.end <= Size(stream) /\ call.end \in Nat
      /\ call.kind = "parse"
  BY <1>1, <1>2, <1>3, <1>4, CallIs
<1>6. dec.state \in HeaderStates BY DEF ParseHeader, InHeader, HeaderStates
<1>7. stream' = stream /\ text' = text BY DEF ParseHeader
<1>8. CASE InSize = 0
  <2>1. PICK b : b = Back(call, "ok", "needs_more_input") OBVIOUS
  <2>2. src' = src /\ dec' = dec /\ call' = b
    BY <1>8, <2>1 DEF ParseHeader, Return, Back
  <2>3. src = call.end BY <1>1, <1>5, <1>8 DEF InSize
  <2>4. call.kind # "parse" =>
          call.from <= dec.dicPos /\ dec.dicPos <= call.limit /\ call.limit <= DicBufSize
    BY <1>5
  <2>5. dec.state # "ERROR" BY <1>6 DEF HeaderStates
  <2>6. Here(stream, dec, src, text, i, call.kind # "parse") BY <1>2
  <2> QED BY <1>1, <1>5, <1>7, <2>1, <2>2, <2>3, <2>4, <2>5, <2>6, NeedsMore
<1>9. CASE InSize # 0
  <2>1. PICK e : e = UpdateState(dec, ByteAt(stream, src)) OBVIOUS
  <2>2. PICK p : p = src + 1 OBVIOUS
  <2>3. src' = p /\ dec' = e BY <1>9, <2>1, <2>2 DEF ParseHeader
  <2>4. src < Size(stream) /\ p <= call.end /\ p \in Nat
    <3>1. Size(stream) \in Nat BY <1>1, PlacesType
    <3> QED BY <1>1, <1>5, <1>9, <2>2, <3>1 DEF InSize
  <2>5. PICK j : j = IF dec.state = "CONTROL" THEN i + 1 ELSE i OBVIOUS
  <2>6. j \in 1 .. Len(stream) /\ DecTypeOK(e) /\ Stage(stream, e, p, j)
    BY <1>1, <1>2, <1>6, <2>1, <2>2, <2>4, <2>5, HeaderRead
  <2>7. Here(stream, e, p, text, j, FALSE)
    <3>1. Here(stream, dec, src, text, i, FALSE) BY <1>2, <1>5
    <3> QED BY <1>1, <1>6, <2>1, <2>2, <2>4, <2>5, <3>1, HereHeader
  <2>8. j > 0 BY <1>1, <2>6, ChunkTypes
  <2>9. PICK a : a = Places(stream)[j] OBVIOUS
  <2>10. a \in Nat BY <1>1, <2>6, <2>9, PlacesType
  <2>11. CASE call' = call
    <3>1. InCall(stream, e, p, j, call) /\ Result(stream, e, p, j, call)
      BY <1>1, <1>2, <1>3, <1>4, <2>4, GoesOn
    <3>2. Here(stream, e, p, text, j, call.kind # "parse") BY <1>5, <2>7
    <3> QED BY <1>1, <1>7, <2>3, <2>4, <2>6, <2>11, <3>1, <3>2, InvNext
  <2>12. CASE call' # call
    <3>1. PICK status :
            /\ call' = Back(call, "ok", status)
            /\ \/ status = "new_block" /\ e.state = "UNPACK0" /\ NewBlock(e.control)
               \/ status = "not_finished" /\ call.size = 0
               \/ status = "new_chunk" /\ e.state = "DATA"
      BY <1>9, <2>1, <2>12 DEF ParseHeader, Return, Back
    <3>2. PICK b : b = Back(call, "ok", status) OBVIOUS
    <3>3. status \in Statuses BY <3>1 DEF Statuses
    <3>4. /\ CallTypeOK(b) /\ b.kind = "parse"
          /\ b.pc = "return" /\ b.status = status /\ b.size = call.size
      BY <1>1, <1>5, <3>2, <3>3, BackForm
    <3>5. InCall(stream, e, p, j, b)
      BY <1>1, <1>5, <2>4, <3>2, <3>3, Returns
    <3>6. ASSUME status = "new_block" PROVE Result(stream, e, p, j, b)
      <4>1. e.state = "UNPACK0" /\ NewBlock(e.control) BY <3>1, <3>6
      <4>2. p - a = 1 /\ e.control = stream[j].control
        BY <2>6, <2>8, <2>9, <4>1 DEF Stage
      <4>3. p = Places(stream)[j] + 1 BY <2>4, <2>9, <2>10, <4>2
      <4>4. stream[j].control = 1 \/ stream[j].control >= 224
        BY <4>1, <4>2 DEF NewBlock
      <4> QED BY <2>8, <3>4, <3>6, <4>3, <4>4 DEF Result
    <3>7. ASSUME status = "not_finished" PROVE Result(stream, e, p, j, b)
      <4>1. call.size = 0 BY <3>1, <3>7
      <4> QED BY <3>4, <3>7, <4>1 DEF Result
    <3>8. ASSUME status = "new_chunk" PROVE Result(stream, e, p, j, b)
      <4>1. e.state = "DATA" BY <3>1, <3>8
      <4>2. PICK h : h = Len(Header(stream[j])) OBVIOUS
      <4>3. h \in Nat BY <1>1, <2>6, <4>2, ChunkOf
      <4>4. p - a = h /\ e.unpackSize = stream[j].unpack
        BY <2>9, <2>6, <4>1, <4>2 DEF Stage
      <4>5. p = Places(stream)[j] + Len(Header(stream[j])) BY <2>4, <2>9, <2>10, <4>2, <4>3, <4>4
      <4> QED BY <2>8, <3>4, <3>8, <4>4, <4>5 DEF Result
    <3>9. Result(stream, e, p, j, b) BY <3>1, <3>6, <3>7, <3>8
    <3>10. Here(stream, e, p, text, j, b.kind # "parse") BY <2>7, <3>4
    <3>11. call' = b BY <3>1, <3>2
    <3> QED BY <1>1, <1>7, <2>3, <2>4, <2>6, <3>4, <3>5, <3>9, <3>10, <3>11, InvNext
  <2> QED BY <2>11, <2>12
<1> QED BY <1>8, <1>9

Sized(c, n) == [c EXCEPT !.size = @ - n]
LEMMA SizedForm ==
  ASSUME NEW c, CallTypeOK(c), NEW n \in Nat, n <= c.size, NEW b, b = Sized(c, n)
  PROVE /\ CallTypeOK(b) /\ b.pc = c.pc /\ b.kind = c.kind /\ b.end = c.end
<1>1. CallForm(c) BY DEF CallTypeOK
<1>2. /\ CallForm(b) /\ b.pc = c.pc /\ b.kind = c.kind /\ b.end = c.end
      /\ b.size = c.size - n /\ b.limit = c.limit /\ b.from = c.from
      /\ b.mode = c.mode /\ b.curMode = c.curMode /\ b.status = c.status /\ b.res = c.res
  BY <1>1 DEF CallForm, Sized
<1>3. PICK z : z = c.size OBVIOUS
<1>4. z \in Nat /\ n <= z BY <1>3 DEF CallTypeOK
<1>5. z - n \in Nat BY <1>4
<1>6. /\ c.status \in Statuses /\ c.pc \in {"idle", "decode", "parse", "return"}
      /\ c.kind \in {"dic", "buf", "parse"} /\ {c.mode, c.curMode} \subseteq {"any", "end"}
      /\ {c.from, c.limit, c.end} \subseteq Nat
  BY DEF CallTypeOK
<1> QED BY <1>2, <1>3, <1>5, <1>6 DEF CallTypeOK

(* The parser goes on at chunk i.                                            *)
LEMMA ParsesOn ==
  ASSUME NEW s \in ChunkStreams, stream' = s, NEW p \in Nat, src' = p,
         NEW d, DecTypeOK(d), dec' = d, NEW c, CallTypeOK(c), call' = c,
         c.pc = "parse", c.kind = "parse", p <= c.end, c.end <= Size(s),
         NEW t, text' = t, NEW i, Here(s, d, p, t, i, FALSE)
  PROVE Lzma2Inv'
<1>1. InCall(s, d, p, i, c) /\ Result(s, d, p, i, c) BY DEF InCall, Result
<1>2. Here(s, d, p, t, i, c.kind # "parse") OBVIOUS
<1> QED BY <1>1, <1>2, InvNext

LEMMA CopyParse ==
  ASSUME Lzma2Inv, ParseCopy
  PROVE Lzma2Inv'
<1>1. /\ stream \in ChunkStreams /\ src \in Nat /\ DecTypeOK(dec) /\ CallTypeOK(call)
  BY InvParts
<1>2. PICK i \in 0 .. Len(stream) :
        /\ Here(stream, dec, src, text, i, call.kind # "parse")
        /\ InCall(stream, dec, src, i, call) /\ At(stream, src, i)
        /\ Stage(stream, dec, src, i) /\ Levels(stream, dec, i)
        /\ Passed(stream, dec, i, call.kind # "parse")
        /\ call.kind = "parse" => Parsed(stream, dec, i)
  BY InvParts
<1>3. call.pc = "parse" BY DEF ParseCopy
<1>4. call.pc \in {"decode", "parse"} BY <1>3
<1>5. /\ call.pc # "idle" /\ src <= call.end /\ call.end <= Size(stream) /\ call.end \in Nat
      /\ call.kind = "parse" /\ call.size \in Nat
  BY <1>1, <1>2, <1>3, <1>4, CallIs
<1>6. dec.state \in DataStates /\ dec.control < 128 /\ dec.state # "ERROR"
  BY DEF ParseCopy, InData, DataStates, IsUncompressed
<1>7. stream' = stream /\ text' = text BY DEF ParseCopy
<1>8. /\ i \in 1 .. Len(stream) /\ i > 0 /\ i # 0
      /\ stream[i].control < 128 /\ stream[i].control # 0
      /\ dec.unpackSize \in Nat /\ 1 <= dec.unpackSize /\ dec.unpackSize <= stream[i].unpack
      /\ stream[i].unpack \in Nat
      /\ Made(stream, dec, i) = stream[i].unpack - dec.unpackSize
  BY <1>1, <1>2, <1>6, CopyPlace
<1>9. Parsed(stream, dec, i) /\ Passed(stream, dec, i, FALSE) BY <1>2, <1>5
<1>10. InSize \in Nat BY <1>1, <1>5 DEF InSize
<1>11. CASE InSize = 0
  <2>1. PICK b : b = Back(call, "ok", "needs_more_input") OBVIOUS
  <2>2. src' = src /\ dec' = dec /\ call' = b
    BY <1>11, <2>1 DEF ParseCopy, Return, Back
  <2>3. src = call.end BY <1>1, <1>5, <1>11 DEF InSize
  <2>4. call.kind # "parse" =>
          call.from <= dec.dicPos /\ dec.dicPos <= call.limit /\ call.limit <= DicBufSize
    BY <1>5
  <2>5. Here(stream, dec, src, text, i, call.kind # "parse") BY <1>2
  <2> QED BY <1>1, <1>5, <1>6, <1>7, <2>1, <2>2, <2>3, <2>4, <2>5, NeedsMore
<1>12. CASE InSize # 0
  <2>1. PICK n : n = Lesser(InSize, Lesser(dec.unpackSize, call.size)) OBVIOUS
  <2>2. n \in Nat /\ n <= InSize /\ n <= dec.unpackSize /\ n <= call.size
    <3>1. PICK a : a = Lesser(dec.unpackSize, call.size) OBVIOUS
    <3>2. a \in Nat /\ a <= dec.unpackSize /\ a <= call.size
      BY <1>5, <1>8, <3>1, LesserOf
    <3>3. n \in Nat /\ n <= InSize /\ n <= a BY <1>10, <2>1, <3>1, <3>2, LesserOf
    <3> QED BY <1>5, <1>8, <3>2, <3>3
  <2>3. PICK e : e = Copied(dec, n) OBVIOUS
  <2>4. PICK b : b = Sized(call, n) OBVIOUS
  <2>5. PICK p : p = src + n OBVIOUS
  <2>6. src' = p /\ dec' = e /\ call' = b
    BY <1>12, <2>1, <2>3, <2>4, <2>5 DEF ParseCopy, Copied, Sized
  <2>7. /\ DecTypeOK(e)
        /\ e.unpackSize = dec.unpackSize - n /\ e.dicPos = dec.dicPos + n
        /\ e.state = IF dec.unpackSize - n = 0 THEN "CONTROL" ELSE "DATA_CONT"
        /\ e.control = dec.control /\ e.needInitLevel = dec.needInitLevel
        /\ e.start = dec.start
    <3>1. SameBut(dec, dec) BY DEF SameBut
    <3> QED BY <1>1, <2>2, <2>3, <3>1, CopiedForm
  <2>8. /\ At(stream, p, i) /\ Stage(stream, e, p, i) /\ Levels(stream, e, i)
        /\ Passed(stream, e, i, FALSE) /\ Made(stream, e, i) = Made(stream, dec, i) + n
    <3>1. FALSE \in BOOLEAN OBVIOUS
    <3>2. Moved(stream, dec, src, i, n, e, FALSE)
      BY <1>1, <1>2, <1>6, <1>9, <2>2, <2>7, <3>1, CopyRight
    <3> QED BY <2>5, <3>2 DEF Moved
  <2>9. Parsed(stream, e, i)
    <3>1. ~(stream[i].control >= 128)
      <4>1. PICK g : g = stream[i].control OBVIOUS
      <4>2. g \in {0, 1, 2, 3, 128, 160, 192, 224} /\ g < 128 BY <1>1, <1>8, <4>1, ChunkOf
      <4>3. ~(g >= 128) BY <4>2
      <4> QED BY <4>1, <4>3
    <3>2. (\A j \in 1 .. i : ChunkOK(stream, j)) =>
            e.dicPos = Reach(stream, Places(stream)[i]) + Made(stream, e, i)
      <4> HAVE \A j \in 1 .. i : ChunkOK(stream, j)
      <4>1. dec.dicPos = Reach(stream, Places(stream)[i]) + Made(stream, dec, i)
        BY <1>8, <1>9 DEF Parsed
      <4>2. PICK r : r = Reach(stream, Places(stream)[i]) OBVIOUS
      <4>3. PICK m : m = Made(stream, dec, i) OBVIOUS
      <4>4. r \in Nat
        <5>1. /\ Places(stream)[i] \in Nat /\ Places(stream)[i] <= Places(stream)[i]
              /\ Places(stream)[i] <= Places(stream)[i + 1]
          <6>1. PICK x : x = Places(stream)[i] OBVIOUS
          <6>2. PICK y : y = Places(stream)[i + 1] OBVIOUS
          <6>3. x \in Nat /\ y \in Nat BY <1>1, <1>8, <6>1, <6>2, PlacesType
          <6>4. x <= src /\ src <= y BY <1>1, <1>2, <1>8, <6>1, <6>2, <6>3 DEF At
          <6> QED BY <1>1, <6>1, <6>2, <6>3, <6>4
        <5> QED BY <1>1, <1>8, <4>2, <5>1, ReachIn
      <4>5. m \in Nat BY <1>8, <4>3
      <4> QED BY <2>2, <2>7, <2>8, <4>1, <4>2, <4>3, <4>4, <4>5
    <3>3. e.state \in {"CONTROL", "DATA_CONT"} BY <2>7
    <3> QED BY <1>8, <1>9, <2>7, <3>1, <3>2, <3>3 DEF Parsed
  <2>10. Here(stream, e, p, text, i, FALSE) BY <2>8, <2>9 DEF Here
  <2>11. p \in Nat /\ p <= call.end BY <1>1, <1>5, <2>2, <2>5 DEF InSize
  <2>12. CallTypeOK(b) /\ b.pc = "parse" /\ b.kind = "parse" /\ b.end = call.end
    BY <1>1, <1>3, <1>5, <2>2, <2>4, SizedForm
  <2>13. p <= b.end /\ b.end <= Size(stream) BY <1>5, <2>11, <2>12
  <2> QED BY <1>1, <1>7, <2>6, <2>7, <2>10, <2>11, <2>12, <2>13, ParsesOn
<1> QED BY <1>11, <1>12

(* What the parser counts at the places of a chunk.                          *)
LEMMA PlaceReach ==
  ASSUME NEW s \in ChunkStreams, NEW i \in 1 .. Len(s)
  PROVE Reach(s, Places(s)[i]) \in Nat
<1>1. PICK x : x = Places(s)[i] OBVIOUS
<1>2. PICK y : y = Places(s)[i + 1] OBVIOUS
<1>3. x \in Nat /\ y = x + (Len(Header(s[i])) + DataSize(s[i])) BY <1>1, <1>2, Span
<1>4. Len(Header(s[i])) \in Nat /\ DataSize(s[i]) \in Nat
  <2>1. Len(Header(s[i])) \in 1 .. 6 BY Span
  <2> QED BY <2>1, Span
<1>5. x <= y BY <1>3, <1>4
<1>6. Places(s)[i] <= x /\ x <= Places(s)[i + 1] BY <1>1, <1>2, <1>3, <1>5
<1>7. Reach(s, x) = Reach(s, Places(s)[i]) + Adding(s, i, x) /\ Reach(s, Places(s)[i]) \in Nat
  BY <1>3, <1>6, ReachIn
<1> QED BY <1>7

LEMMA ParsedTaken ==
  ASSUME NEW s \in ChunkStreams, NEW i \in 1 .. Len(s), NEW d, DecTypeOK(d), Parsed(s, d, i),
         d.state \in DataStates, s[i].control >= 128, s[i].head,
         Made(s, d, i) \in Nat, NEW n \in Nat, NEW e, e.start = 2, e.isExtraMode,
         e.state \in {"DATA_CONT", "CONTROL"}, e.dicPos = d.dicPos + n,
         Made(s, e, i) = Made(s, d, i) + n, e.packSize > 0 => e.unpackSize = s[i].unpack
  PROVE Parsed(s, e, i)
<1>1. i > 0 /\ i # 0 BY ChunkTypes
<1>2. (\A j \in 1 .. i : ChunkOK(s, j)) => e.dicPos = Reach(s, Places(s)[i]) + Made(s, e, i)
  <2> HAVE \A j \in 1 .. i : ChunkOK(s, j)
  <2>1. d.dicPos = Reach(s, Places(s)[i]) + Made(s, d, i) BY <1>1 DEF Parsed
  <2>2. PICK r : r = Reach(s, Places(s)[i]) OBVIOUS
  <2>3. PICK m : m = Made(s, d, i) OBVIOUS
  <2>4. r \in Nat /\ m \in Nat BY <2>2, <2>3, PlaceReach
  <2> QED BY <2>1, <2>2, <2>3, <2>4
<1> QED BY <1>1, <1>2 DEF Parsed

(* The first byte of the data of an LZMA chunk                               *)
LEMMA FirstByte ==
  ASSUME NEW s \in ChunkStreams, NEW p \in Nat, NEW i \in 1 .. Len(s),
         s[i].control \in {128, 160, 192, 224}, p = Places(s)[i] + Len(Header(s[i]))
  PROVE ByteAt(s, p) = 0 <=> s[i].head
<1>1. PICK k : k = Len(Header(s[i])) OBVIOUS
<1>2. k \in Nat /\ k < ChunkSize(s[i])
  <2>1. PICK n : n = ChunkSize(s[i]) OBVIOUS
  <2>2. PICK y : y = s[i].pack OBVIOUS
  <2>3. PICK g : g = s[i].control OBVIOUS
  <2>4. g \in {128, 160, 192, 224} BY <2>3
  <2>5. g # 0 /\ ~(g < 128) BY <2>4
  <2>6. y \in Nat /\ 1 <= y /\ DataSize(s[i]) = y BY <2>2, <2>3, <2>5, ChunkOf
  <2>7. n = k + y /\ k \in Nat BY <1>1, <2>1, <2>3, <2>5, <2>6, HeaderSize
  <2> QED BY <2>1, <2>6, <2>7
<1>3. ~(k < k) BY <1>2
<1>4. ~IsCopy(s[i]) BY DEF IsCopy
<1>5. ByteAt(s, Places(s)[i] + k) =
        IF k < k THEN Header(s[i])[k + 1]
        ELSE IF k = k /\ ~IsCopy(s[i]) /\ s[i].head THEN 0 ELSE 1
  BY <1>1, <1>2, ByteIs
<1>6. s[i].head \in BOOLEAN BY ChunkOf
<1> QED BY <1>1, <1>3, <1>4, <1>5, <1>6

LEMMA ExtraForm ==
  ASSUME DecTypeOK(dec), NEW d, d = ExtraMode
  PROVE /\ DecTypeOK(d) /\ d.isExtraMode /\ d.state = dec.state /\ d.control = dec.control
        /\ d.needInitLevel = dec.needInitLevel /\ d.unpackSize = dec.unpackSize
        /\ d.packSize = dec.packSize /\ d.dicPos = dec.dicPos /\ d.start = dec.start
        /\ d.probs = dec.probs
<1>form. DecForm(dec) BY DEF DecTypeOK
<1>1. /\ DecForm(d) /\ d.isExtraMode = TRUE /\ d.state = dec.state /\ d.control = dec.control
      /\ d.needInitLevel = dec.needInitLevel /\ d.unpackSize = dec.unpackSize
      /\ d.packSize = dec.packSize /\ d.dicPos = dec.dicPos /\ d.start = dec.start
      /\ d.probs = dec.probs
  BY <1>form DEF DecForm, ExtraMode
<1>2. /\ dec.state \in HeaderStates \cup DataStates \cup {"FINISHED", "ERROR"}
      /\ dec.needInitLevel \in {0, 192, 224} /\ dec.unpackSize \in 0 .. 256
      /\ dec.packSize \in 0 .. 256 /\ dec.dicPos \in Nat /\ dec.start \in 0 .. 2
      /\ dec.probs \in BOOLEAN
  BY DEF DecTypeOK
<1> QED BY <1>1, <1>2, MakeDecType

(* A piece of an LZMA chunk that is parsed, rem bytes of its text counted    *)
Counted(d, n, rem, state) ==
  [d EXCEPT !.packSize = @ - n, !.dicPos = @ + rem, !.unpackSize = @ - rem, !.state = state]
CountedTo(d, n, rem, state, e) ==
  /\ DecTypeOK(e) /\ e.isExtraMode = d.isExtraMode /\ e.state = state
  /\ e.control = d.control /\ e.needInitLevel = d.needInitLevel
  /\ e.unpackSize = d.unpackSize - rem /\ e.packSize = d.packSize - n
  /\ e.dicPos = d.dicPos + rem /\ e.start = d.start
LEMMA CountedForm ==
  ASSUME NEW d, DecTypeOK(d), NEW n \in Nat, n <= d.packSize, NEW rem \in Nat,
         rem <= d.unpackSize, NEW state, state \in {"DATA_CONT", "CONTROL", "ERROR"},
         NEW e, e = Counted(d, n, rem, state)
  PROVE CountedTo(d, n, rem, state, e)
<1>form. DecForm(d) BY DEF DecTypeOK
<1>1. /\ DecForm(e) /\ e.isExtraMode = d.isExtraMode /\ e.state = state
      /\ e.control = d.control /\ e.needInitLevel = d.needInitLevel
      /\ e.unpackSize = d.unpackSize - rem /\ e.packSize = d.packSize - n
      /\ e.dicPos = d.dicPos + rem /\ e.start = d.start /\ e.probs = d.probs
  BY <1>form DEF DecForm, Counted
<1>2. PICK v : v = d.packSize OBVIOUS
<1>3. PICK u : u = d.unpackSize OBVIOUS
<1>4. PICK q : q = d.dicPos OBVIOUS
<1>5. /\ d.needInitLevel \in {0, 192, 224} /\ v \in 0 .. 256 /\ u \in 0 .. 256
      /\ d.start \in 0 .. 2 /\ d.probs \in BOOLEAN /\ d.isExtraMode \in BOOLEAN /\ q \in Nat
  BY <1>2, <1>3, <1>4 DEF DecTypeOK
<1>6. n <= v /\ rem <= u BY <1>2, <1>3
<1>7. v - n \in 0 .. 256 /\ u - rem \in 0 .. 256 /\ q + rem \in Nat BY <1>5, <1>6
<1>8. e.packSize \in 0 .. 256 /\ e.unpackSize \in 0 .. 256 /\ e.dicPos \in Nat
  BY <1>1, <1>2, <1>3, <1>4, <1>7
<1>9. e.state \in HeaderStates \cup DataStates \cup {"FINISHED", "ERROR"}
  BY <1>1 DEF HeaderStates, DataStates
<1>10. DecTypeOK(e) BY <1>1, <1>5, <1>8, <1>9, MakeDecType
<1> QED BY <1>1, <1>10 DEF CountedTo

LEMMA LzmaParse ==
  ASSUME Lzma2Inv, ParseLzma
  PROVE Lzma2Inv'
<1>1. /\ stream \in ChunkStreams /\ src \in Nat /\ DecTypeOK(dec) /\ CallTypeOK(call)
  BY InvParts
<1>2. PICK i \in 0 .. Len(stream) :
        /\ InCall(stream, dec, src, i, call) /\ At(stream, src, i)
        /\ Stage(stream, dec, src, i) /\ Levels(stream, dec, i)
        /\ Passed(stream, dec, i, call.kind # "parse")
        /\ call.kind = "parse" => Parsed(stream, dec, i)
  BY InvParts
<1>3. call.pc = "parse" BY DEF ParseLzma
<1>4. call.pc \in {"decode", "parse"} BY <1>3
<1>5. /\ call.pc # "idle" /\ src <= call.end /\ call.end <= Size(stream) /\ call.end \in Nat
      /\ call.kind = "parse" /\ call.size \in Nat
  BY <1>1, <1>2, <1>3, <1>4, CallIs
<1>6. dec.state \in DataStates /\ ~(dec.control < 128) /\ dec.state # "ERROR"
  BY DEF ParseLzma, InData, DataStates, IsUncompressed
<1>7. stream' = stream /\ text' = text BY DEF ParseLzma
<1>8. /\ i \in 1 .. Len(stream) /\ i > 0 /\ i # 0
      /\ stream[i].control >= 128 /\ stream[i].control # 0
      /\ dec.control = stream[i].control
      /\ stream[i].control \in {128, 160, 192, 224}
      /\ dec.unpackSize \in Nat /\ dec.unpackSize <= stream[i].unpack
      /\ stream[i].unpack \in Nat
      /\ dec.packSize \in Nat /\ dec.packSize <= stream[i].pack /\ stream[i].pack \in Nat
      /\ 1 <= stream[i].pack
      /\ Len(Header(stream[i])) \in Nat
      /\ src = Places(stream)[i] + Len(Header(stream[i])) + (stream[i].pack - dec.packSize)
      /\ Made(stream, dec, i) = stream[i].unpack - dec.unpackSize
      /\ dec.state = "DATA" =>
           dec.packSize = stream[i].pack /\ dec.unpackSize = stream[i].unpack
  BY <1>1, <1>2, <1>6, LzmaPlace
<1>9. Parsed(stream, dec, i) /\ Passed(stream, dec, i, FALSE) BY <1>2, <1>5
<1>10. InSize \in Nat BY <1>1, <1>5 DEF InSize
<1>11. Made(stream, dec, i) \in Nat BY <1>8
<1>12. PICK d : d = ExtraMode OBVIOUS
<1>13. /\ DecTypeOK(d) /\ d.isExtraMode /\ d.state = dec.state /\ d.control = dec.control
       /\ d.needInitLevel = dec.needInitLevel /\ d.unpackSize = dec.unpackSize
       /\ d.packSize = dec.packSize /\ d.dicPos = dec.dicPos /\ d.start = dec.start
  BY <1>1, <1>12, ExtraForm
<1>14. /\ At(stream, src, i) /\ Stage(stream, d, src, i) /\ Levels(stream, d, i)
       /\ Passed(stream, d, i, FALSE) /\ Made(stream, d, i) = Made(stream, dec, i)
  <2>1. Stage(stream, d, src, i) BY <1>2, <1>13 DEF Stage
  <2>2. Levels(stream, d, i) BY <1>2, <1>13 DEF Levels
  <2>3. Passed(stream, d, i, FALSE) BY <1>9, <1>13 DEF Passed
  <2>4. Made(stream, d, i) = Made(stream, dec, i) BY <1>13 DEF Made
  <2> QED BY <1>2, <2>1, <2>2, <2>3, <2>4
<1>15. Parsed(stream, d, i)
  <2>1. d.state # "ERROR" /\ d.state \notin {"UNPACK0", "UNPACK1", "PACK0", "PACK1", "PROP", "FINISHED"}
    BY <1>6, <1>13 DEF DataStates
  <2>2. d.start = 2 BY <1>9, <1>13 DEF Parsed
  <2>3. (\A j \in 1 .. i : ChunkOK(stream, j)) =>
          d.dicPos = Reach(stream, Places(stream)[i]) + Made(stream, d, i)
    BY <1>8, <1>9, <1>13, <1>14 DEF Parsed
  <2>4. d.state = "DATA_CONT" =>
          (d.packSize > 0 => d.unpackSize = stream[i].unpack) /\ stream[i].head
    BY <1>8, <1>9, <1>13 DEF Parsed
  <2> QED BY <1>8, <1>13, <2>1, <2>2, <2>3, <2>4 DEF Parsed
<1>16. PICK n : n = Lesser(InSize, dec.packSize) OBVIOUS
<1>17. n \in Nat /\ n <= InSize /\ n <= dec.packSize BY <1>8, <1>10, <1>16, LesserOf
<1>18. PICK rem : rem = Lesser(call.size, dec.unpackSize) OBVIOUS
<1>19. rem \in Nat /\ rem <= call.size /\ rem <= dec.unpackSize
  BY <1>5, <1>8, <1>18, LesserOf
<1>20. CASE InSize = 0 /\ dec.packSize # 0
  <2>1. PICK b : b = Back(call, "ok", "needs_more_input") OBVIOUS
  <2>2. src' = src /\ dec' = d /\ call' = b
    BY <1>12, <1>20, <2>1 DEF ParseLzma, Return, Back
  <2>3. src = call.end BY <1>1, <1>5, <1>20 DEF InSize
  <2>4. call.kind # "parse" =>
          call.from <= d.dicPos /\ d.dicPos <= call.limit /\ call.limit <= DicBufSize
    BY <1>5
  <2>5. Here(stream, d, src, text, i, call.kind # "parse")
    <3>1. Here(stream, d, src, text, i, FALSE) BY <1>14, <1>15 DEF Here
    <3> QED BY <1>5, <3>1
  <2>6. d.state # "ERROR" BY <1>6, <1>13
  <2> QED BY <1>1, <1>5, <1>7, <1>13, <2>1, <2>2, <2>3, <2>4, <2>5, <2>6, NeedsMore
<1>21. CASE /\ ~(InSize = 0 /\ dec.packSize # 0)
            /\ InSize > 0 /\ dec.state = "DATA" /\ ByteAt(stream, src) # 0
  <2>1. PICK e : e = [d EXCEPT !.packSize = @ - 1, !.state = "ERROR"] OBVIOUS
  <2>2. PICK p : p = src + 1 OBVIOUS
  <2>3. PICK b : b = Back(call, "data", "none") OBVIOUS
  <2>4. src' = p /\ dec' = e /\ call' = b
    BY <1>12, <1>21, <2>1, <2>2, <2>3 DEF ParseLzma, Return, Back
  <2>5. DecTypeOK(e) /\ e.state = "ERROR" /\ e.start = d.start
    <3>form. DecForm(d) BY <1>13 DEF DecTypeOK
    <3>1. /\ DecForm(e) /\ e.isExtraMode = d.isExtraMode /\ e.state = "ERROR"
          /\ e.needInitLevel = d.needInitLevel
          /\ e.unpackSize = d.unpackSize /\ e.packSize = d.packSize - 1
          /\ e.dicPos = d.dicPos /\ e.start = d.start /\ e.probs = d.probs
      BY <3>form, <2>1 DEF DecForm
    <3>2. PICK v : v = d.packSize OBVIOUS
    <3>3. /\ d.needInitLevel \in {0, 192, 224} /\ v \in 0 .. 256 /\ d.unpackSize \in 0 .. 256
          /\ d.start \in 0 .. 2 /\ d.probs \in BOOLEAN /\ d.isExtraMode \in BOOLEAN
          /\ d.dicPos \in Nat
      BY <1>13, <3>2 DEF DecTypeOK
    <3>4. 1 <= v BY <1>8, <1>13, <1>21, <3>2
    <3>5. v - 1 \in 0 .. 256 BY <3>3, <3>4
    <3>6. e.packSize \in 0 .. 256 BY <3>1, <3>2, <3>5
    <3>7. e.state \in HeaderStates \cup DataStates \cup {"FINISHED", "ERROR"} BY <3>1
    <3> QED BY <3>1, <3>3, <3>6, <3>7, MakeDecType
  <2>6. ~stream[i].head
    <3>1. src = Places(stream)[i] + Len(Header(stream[i]))
      <4>1. PICK y : y = stream[i].pack OBVIOUS
      <4>2. PICK h : h = Len(Header(stream[i])) OBVIOUS
      <4>3. PICK a : a = Places(stream)[i] OBVIOUS
      <4>4. a \in Nat BY <1>1, <1>8, <4>3, PlacesType
      <4>5. y \in Nat /\ h \in Nat /\ src = a + h + (y - y)
        BY <1>8, <1>21, <4>1, <4>2, <4>3
      <4>6. src = a + h BY <4>4, <4>5
      <4> QED BY <4>2, <4>3, <4>6
    <3>2. ByteAt(stream, src) = 0 <=> stream[i].head BY <1>1, <1>8, <3>1, FirstByte
    <3> QED BY <1>21, <3>2
  <2>7. ~HeadOK(stream[i]) /\ ~ChunkOK(stream, i)
    BY <1>8, <2>6 DEF HeadOK, ChunkOK, DataOK
  <2>8. At(stream, p, i)
    <3>1. /\ Places(stream)[i + 1] = Places(stream)[i] + Len(Header(stream[i])) + stream[i].pack
      BY <1>1, <1>2, <1>6, LzmaPlace
    <3>2. PICK y : y = stream[i].pack OBVIOUS
    <3>3. PICK h : h = Len(Header(stream[i])) OBVIOUS
    <3>4. PICK a : a = Places(stream)[i] OBVIOUS
    <3>5. PICK b1 : b1 = Places(stream)[i + 1] OBVIOUS
    <3>6. a \in Nat BY <1>1, <1>8, <3>4, PlacesType
    <3>7. y \in Nat /\ 1 <= y /\ h \in Nat /\ src = a + h + (y - y) /\ b1 = a + h + y
      BY <1>8, <1>21, <3>1, <3>2, <3>3, <3>4, <3>5
    <3>8. p \in Nat /\ src <= p /\ p <= b1 BY <1>1, <2>2, <3>6, <3>7
    <3> QED BY <1>1, <1>2, <1>8, <3>5, <3>8, AtAdvance
  <2>9. Stage(stream, e, p, i) /\ Levels(stream, e, i) /\ Passed(stream, e, i, FALSE)
    <3>1. Stage(stream, e, p, i) BY <1>8, <2>5 DEF Stage
    <3>2. Levels(stream, e, i) BY <2>5 DEF Levels, DataStates
    <3>3. Passed(stream, e, i, FALSE) BY <1>9, <2>5 DEF Passed
    <3> QED BY <3>1, <3>2, <3>3
  <2>10. Parsed(stream, e, i)
    <3>1. ~(\A j \in 1 .. i : ChunkOK(stream, j))
      <4>1. i \in 1 .. i BY <1>1, <1>8, ChunkTypes
      <4> QED BY <2>7, <4>1
    <3>2. e.start = 2 BY <1>15, <2>5 DEF Parsed
    <3> QED BY <1>8, <2>5, <2>7, <3>1, <3>2 DEF Parsed
  <2>11. Here(stream, e, p, text, i, FALSE) BY <2>8, <2>9, <2>10 DEF Here
  <2>12. p \in Nat /\ p <= call.end BY <1>1, <1>5, <1>10, <1>21, <2>2 DEF InSize
  <2>13. "none" \in Statuses BY DEF Statuses
  <2>14. InCall(stream, e, p, i, b)
    <3>1. /\ call.kind # "parse" =>
                call.from <= e.dicPos /\ e.dicPos <= call.limit /\ call.limit <= DicBufSize
          /\ call.kind # "parse" /\ e.state = "ERROR" => "data" = "data"
      BY <1>5
    <3> QED BY <1>1, <1>5, <2>3, <2>12, <2>13, <3>1, Returns
  <2>15. /\ CallTypeOK(b) /\ b.kind = "parse" /\ b.pc = "return" /\ b.status = "none"
    BY <1>1, <1>5, <2>3, <2>13, BackForm
  <2>16. Result(stream, e, p, i, b) BY <1>8, <2>7, <2>15 DEF Result
  <2>17. Here(stream, e, p, text, i, b.kind # "parse") BY <2>11, <2>15
  <2> QED BY <1>1, <1>7, <2>4, <2>5, <2>12, <2>14, <2>15, <2>16, <2>17, InvNext
<1>22. CASE /\ ~(InSize = 0 /\ dec.packSize # 0)
            /\ ~(InSize > 0 /\ dec.state = "DATA" /\ ByteAt(stream, src) # 0)
  <2>1. stream[i].head
    <3>1. CASE dec.state = "DATA"
      <4>1. InSize > 0 BY <1>8, <1>10, <1>22, <3>1
      <4>2. ByteAt(stream, src) = 0 BY <1>22, <3>1, <4>1
      <4>3. src = Places(stream)[i] + Len(Header(stream[i]))
        <5>1. PICK y : y = stream[i].pack OBVIOUS
        <5>2. PICK h : h = Len(Header(stream[i])) OBVIOUS
        <5>3. PICK a : a = Places(stream)[i] OBVIOUS
        <5>4. a \in Nat BY <1>1, <1>8, <5>3, PlacesType
        <5>5. y \in Nat /\ h \in Nat /\ src = a + h + (y - y)
          BY <1>8, <3>1, <5>1, <5>2, <5>3
        <5>6. src = a + h BY <5>4, <5>5
        <5> QED BY <5>2, <5>3, <5>6
      <4>4. ByteAt(stream, src) = 0 <=> stream[i].head BY <1>1, <1>8, <4>3, FirstByte
      <4> QED BY <4>2, <4>4
    <3>2. CASE dec.state = "DATA_CONT" BY <1>8, <1>9, <3>2 DEF Parsed
    <3> QED BY <1>6, <3>1, <3>2 DEF DataStates
  <2>2. HeadOK(stream[i]) BY <2>1 DEF HeadOK
  <2>3. PICK p : p = src + n OBVIOUS
  <2>4. p \in Nat /\ p <= call.end BY <1>1, <1>5, <1>17, <2>3 DEF InSize
  <2>5. d.state \in DataStates /\ ~(d.control < 128) BY <1>6, <1>13
  <2>6. stream[i].control >= 128 /\ Made(stream, d, i) \in Nat BY <1>8, <1>11, <1>14
  <2>7. CASE n < dec.packSize
    <3>1. PICK e : e = Counted(d, n, 0, "DATA_CONT") OBVIOUS
    <3>2. /\ DecTypeOK(e) /\ e.isExtraMode = d.isExtraMode /\ e.state = "DATA_CONT"
          /\ e.control = d.control /\ e.needInitLevel = d.needInitLevel
          /\ e.unpackSize = d.unpackSize - 0 /\ e.packSize = d.packSize - n
          /\ e.dicPos = d.dicPos + 0 /\ e.start = d.start
      <4>1. n <= d.packSize /\ 0 \in Nat /\ 0 <= d.unpackSize BY <1>8, <1>13, <1>17
      <4>2. "DATA_CONT" \in {"DATA_CONT", "CONTROL", "ERROR"} OBVIOUS
      <4>3. CountedTo(d, n, 0, "DATA_CONT", e) BY <1>13, <1>17, <3>1, <4>1, <4>2, CountedForm
      <4> QED BY <4>3 DEF CountedTo
    <3>3. src' = p /\ dec' = e /\ call' = call
      <4>1. src' = p /\ dec' = [d EXCEPT !.state = "DATA_CONT", !.packSize = @ - n]
            /\ call' = call
        BY <1>12, <1>16, <1>22, <2>3, <2>7 DEF ParseLzma
      <4>form. DecForm(d) BY <1>13 DEF DecTypeOK
      <4>2. PICK u : u = d.unpackSize OBVIOUS
      <4>3. PICK q : q = d.dicPos OBVIOUS
      <4>4. u \in Nat /\ q \in Nat BY <1>8, <1>13, <4>2, <4>3 DEF DecTypeOK
      <4>5. d.unpackSize - 0 = d.unpackSize /\ d.dicPos + 0 = d.dicPos
        BY <4>2, <4>3, <4>4
      <4>6. e = [d EXCEPT !.state = "DATA_CONT", !.packSize = @ - n]
        BY <3>1, <4>form, <4>5 DEF DecForm, Counted
      <4> QED BY <4>1, <4>6
    <3>4. Taken(stream, d, src, i, n, 0, e, FALSE)
      <4>1. FALSE \in BOOLEAN /\ 0 \in Nat /\ n <= d.packSize /\ 0 <= d.unpackSize
            /\ e.state # "CONTROL" /\ e.state \in {"DATA_CONT", "CONTROL"}
        BY <1>8, <1>13, <1>17, <3>2
      <4> QED BY <1>1, <1>13, <1>14, <1>17, <2>5, <3>2, <4>1, LzmaTaken
    <3>5. /\ At(stream, p, i) /\ Stage(stream, e, p, i) /\ Levels(stream, e, i)
          /\ Passed(stream, e, i, FALSE) /\ Made(stream, e, i) = Made(stream, d, i) + 0
      BY <2>3, <3>4 DEF Taken
    <3>6. Parsed(stream, e, i)
      <4>1. e.packSize > 0 => e.unpackSize = stream[i].unpack
        <5>1. dec.unpackSize = stream[i].unpack
          <6>1. CASE dec.state = "DATA" BY <1>8, <6>1
          <6>2. CASE dec.state = "DATA_CONT"
            <7>1. dec.packSize > 0 BY <1>8, <1>17, <2>7
            <7> QED BY <1>8, <1>9, <6>2, <7>1 DEF Parsed
          <6> QED BY <1>6, <6>1, <6>2 DEF DataStates
        <5>2. e.unpackSize = dec.unpackSize BY <1>8, <1>13, <3>2
        <5> QED BY <5>1, <5>2
      <4>2. e.start = 2 BY <1>15, <3>2 DEF Parsed
      <4>3. /\ e.isExtraMode /\ e.state \in {"DATA_CONT", "CONTROL"} /\ 0 \in Nat
        BY <1>13, <3>2
      <4> QED BY <1>1, <1>8, <1>13, <1>15, <2>1, <2>5, <2>6, <3>2, <3>5, <4>1, <4>2, <4>3,
                 ParsedTaken
    <3>7. Here(stream, e, p, text, i, FALSE) BY <3>5, <3>6 DEF Here
    <3> QED BY <1>1, <1>3, <1>5, <1>7, <2>4, <3>2, <3>3, <3>7, ParsesOn
  <2>8. CASE ~(n < dec.packSize)
    <3>0. n = dec.packSize BY <1>8, <1>17, <2>8
    <3>s. PICK state : state = IF dec.unpackSize = rem THEN "CONTROL" ELSE "DATA_CONT" OBVIOUS
    <3>1. PICK e : e = Counted(d, n, rem, state) OBVIOUS
    <3>2. /\ DecTypeOK(e) /\ e.isExtraMode = d.isExtraMode /\ e.state = state
          /\ e.control = d.control /\ e.needInitLevel = d.needInitLevel
          /\ e.unpackSize = d.unpackSize - rem /\ e.packSize = d.packSize - n
          /\ e.dicPos = d.dicPos + rem /\ e.start = d.start
      <4>1. n <= d.packSize /\ rem <= d.unpackSize BY <1>13, <1>17, <1>19
      <4>2. state \in {"DATA_CONT", "CONTROL", "ERROR"} BY <3>s
      <4>3. CountedTo(d, n, rem, state, e) BY <1>13, <1>17, <1>19, <3>1, <4>1, <4>2, CountedForm
      <4> QED BY <4>3 DEF CountedTo
    <3>z. e.packSize = 0
      <4>1. PICK v : v = d.packSize OBVIOUS
      <4>2. v \in Nat /\ n = v BY <1>8, <1>13, <3>0, <4>1
      <4>3. e.packSize = v - n BY <3>2, <4>1
      <4> QED BY <4>2, <4>3
    <3>3. PICK b : b = Sized(call, rem) OBVIOUS
    <3>4. src' = p /\ dec' = e /\ call' = b
      <4>1. /\ src' = p /\ call' = b
            /\ dec' = [d EXCEPT !.packSize = 0, !.dicPos = @ + rem, !.unpackSize = @ - rem,
                                !.state = state]
        BY <1>12, <1>16, <1>18, <1>22, <2>3, <2>8, <3>s, <3>3 DEF ParseLzma, Sized
      <4>form. DecForm(d) BY <1>13 DEF DecTypeOK
      <4>2. d.packSize - n = 0 BY <3>2, <3>z
      <4>3. e = [d EXCEPT !.packSize = 0, !.dicPos = @ + rem, !.unpackSize = @ - rem,
                          !.state = state]
        BY <3>1, <4>form, <4>2 DEF DecForm, Counted
      <4> QED BY <4>1, <4>3
    <3>5. e.state = "CONTROL" => /\ e.packSize = 0 /\ e.unpackSize = 0 /\ HeadOK(stream[i])
      <4> HAVE e.state = "CONTROL"
      <4>1. dec.unpackSize = rem BY <3>s, <3>2
      <4>2. e.unpackSize = rem - rem BY <1>13, <3>2, <4>1
      <4>3. e.unpackSize = 0 BY <1>19, <4>2
      <4> QED BY <2>2, <3>z, <4>3
    <3>6. Taken(stream, d, src, i, n, rem, e, FALSE)
      <4>1. FALSE \in BOOLEAN /\ n <= d.packSize /\ rem <= d.unpackSize
            /\ e.state \in {"DATA_CONT", "CONTROL"}
        BY <1>13, <1>17, <1>19, <3>s, <3>2
      <4> QED BY <1>1, <1>13, <1>14, <1>17, <1>19, <2>5, <3>2, <3>5, <4>1, LzmaTaken
    <3>7. /\ At(stream, p, i) /\ Stage(stream, e, p, i) /\ Levels(stream, e, i)
          /\ Passed(stream, e, i, FALSE) /\ Made(stream, e, i) = Made(stream, d, i) + rem
      BY <2>3, <3>6 DEF Taken
    <3>8. Parsed(stream, e, i)
      <4>1. ~(e.packSize > 0) BY <3>z
      <4>2. e.start = 2 BY <1>15, <3>2 DEF Parsed
      <4>3. /\ e.isExtraMode /\ e.state \in {"DATA_CONT", "CONTROL"}
        BY <1>13, <3>s, <3>2
      <4> QED BY <1>1, <1>8, <1>13, <1>15, <1>19, <2>1, <2>5, <2>6, <3>2, <3>7, <4>1, <4>2,
                 <4>3, ParsedTaken
    <3>9. Here(stream, e, p, text, i, FALSE) BY <3>7, <3>8 DEF Here
    <3>10. CallTypeOK(b) /\ b.pc = "parse" /\ b.kind = "parse" /\ b.end = call.end
      BY <1>1, <1>3, <1>5, <1>19, <3>3, SizedForm
    <3>11. p <= b.end /\ b.end <= Size(stream) BY <1>5, <2>4, <3>10
    <3> QED BY <1>1, <1>7, <2>4, <3>2, <3>4, <3>9, <3>10, <3>11, ParsesOn
  <2> QED BY <2>7, <2>8
<1> QED BY <1>20, <1>21, <1>22

-----------------------------------------------------------------------------
(* Calls and what they give back.                                            *)

CallOf(kind, limit, from, size, end, mode, pc) ==
  [pc |-> pc, kind |-> kind, limit |-> limit, from |-> from, size |-> size,
   end |-> end, mode |-> mode, curMode |-> mode, res |-> "ok", status |-> "none"]
Called(c, kind, limit, from, size, end, mode, pc) ==
  /\ CallTypeOK(c) /\ c.kind = kind /\ c.limit = limit /\ c.from = from
  /\ c.size = size /\ c.end = end /\ c.mode = mode /\ c.curMode = mode /\ c.pc = pc
LEMMA IdleForm ==
  ASSUME NEW kind \in {"dic", "buf", "parse"}, NEW limit \in Nat, NEW from \in Nat,
         NEW size \in Nat, NEW end \in Nat, NEW mode \in {"any", "end"},
         NEW pc \in {"idle", "decode", "parse"}, NEW c,
         c = CallOf(kind, limit, from, size, end, mode, pc)
  PROVE Called(c, kind, limit, from, size, end, mode, pc)
<1>1. c = [pc |-> pc, kind |-> kind, limit |-> limit, from |-> from, size |-> size,
           end |-> end, mode |-> mode, curMode |-> mode, res |-> "ok", status |-> "none"]
  BY DEF CallOf
<1>2. /\ c.kind = kind /\ c.limit = limit /\ c.from = from /\ c.status = "none"
      /\ c.size = size /\ c.end = end /\ c.mode = mode /\ c.curMode = mode /\ c.pc = pc
      /\ c.res = "ok"
  BY <1>1
<1>3. CallForm(c) BY <1>1, <1>2 DEF CallForm
<1>4. c.status \in Statuses BY <1>2 DEF Statuses
<1> QED BY <1>2, <1>3, <1>4 DEF CallTypeOK, Called

LEMMA IdleCall ==
  ASSUME NEW kind \in {"dic", "buf", "parse"}, NEW c, c = [Idle EXCEPT !.kind = kind]
  PROVE CallTypeOK(c) /\ c.kind = kind /\ c.pc = "idle"
<1>1. c = CallOf(kind, 0, 0, 0, 0, "any", "idle")
  <2>1. c = [pc |-> "idle", kind |-> kind, limit |-> 0, from |-> 0, size |-> 0, end |-> 0,
             mode |-> "any", curMode |-> "any", res |-> "ok", status |-> "none"]
    BY DEF Idle
  <2> QED BY <2>1 DEF CallOf
<1>2. /\ 0 \in Nat /\ "any" \in {"any", "end"} /\ "idle" \in {"idle", "decode", "parse"}
  OBVIOUS
<1>3. Called(c, kind, 0, 0, 0, 0, "any", "idle") BY <1>1, <1>2, IdleForm
<1> QED BY <1>3 DEF Called

LEMMA RoundForm ==
  ASSUME NEW c, CallTypeOK(c), NEW pos \in Nat, pos <= DicBufSize, NEW size \in Nat,
         NEW b, b = RoundOf(c, pos, size)
  PROVE /\ CallTypeOK(b) /\ b.pc = "decode" /\ b.kind = c.kind /\ b.end = c.end
        /\ b.from = pos /\ pos <= b.limit /\ b.limit <= DicBufSize
<1>1. CallForm(c) BY DEF CallTypeOK
<1>2. PICK limit : limit = IF DicBufSize - pos >= size THEN pos + size ELSE DicBufSize OBVIOUS
<1>3. PICK mode : mode = IF DicBufSize - pos >= size THEN c.mode ELSE "any" OBVIOUS
<1>4. /\ CallForm(b) /\ b.pc = "decode" /\ b.kind = c.kind /\ b.end = c.end /\ b.from = pos
      /\ b.size = size /\ b.limit = limit /\ b.mode = c.mode /\ b.curMode = mode
      /\ b.status = c.status
  BY <1>1, <1>2, <1>3 DEF CallForm, RoundOf
<1>5. limit \in Nat /\ pos <= limit /\ limit <= DicBufSize BY <1>2, Limits
<1>6. /\ c.status \in Statuses /\ c.kind \in {"dic", "buf", "parse"}
      /\ c.mode \in {"any", "end"} /\ c.end \in Nat
  BY DEF CallTypeOK
<1>7. mode \in {"any", "end"} BY <1>3, <1>6
<1>8. CallTypeOK(b) BY <1>4, <1>5, <1>6, <1>7 DEF CallTypeOK
<1> QED BY <1>4, <1>5, <1>8

Put(d, pos) == [d EXCEPT !.dicPos = pos]
LEMMA PutForm ==
  ASSUME NEW d, DecTypeOK(d), NEW pos \in Nat, NEW e, e = Put(d, pos)
  PROVE /\ DecTypeOK(e) /\ e.dicPos = pos /\ e.state = d.state /\ e.control = d.control
        /\ e.needInitLevel = d.needInitLevel /\ e.unpackSize = d.unpackSize
        /\ e.packSize = d.packSize /\ e.start = d.start /\ e.probs = d.probs
<1>form. DecForm(d) BY DEF DecTypeOK
<1>1. /\ DecForm(e) /\ e.dicPos = pos /\ e.state = d.state /\ e.control = d.control
      /\ e.needInitLevel = d.needInitLevel /\ e.unpackSize = d.unpackSize
      /\ e.packSize = d.packSize /\ e.start = d.start /\ e.probs = d.probs
      /\ e.isExtraMode = d.isExtraMode
  BY <1>form DEF DecForm, Put
<1>2. /\ d.state \in HeaderStates \cup DataStates \cup {"FINISHED", "ERROR"}
      /\ d.needInitLevel \in {0, 192, 224} /\ d.unpackSize \in 0 .. 256
      /\ d.packSize \in 0 .. 256 /\ d.start \in 0 .. 2
      /\ d.probs \in BOOLEAN /\ d.isExtraMode \in BOOLEAN
  BY DEF DecTypeOK
<1> QED BY <1>1, <1>2, MakeDecType

LEMMA HerePut ==
  ASSUME NEW s, NEW p, NEW t, NEW i, NEW d, DecTypeOK(d), NEW pos \in Nat, pos <= DicBufSize,
         NEW e, e = Put(d, pos), Here(s, d, p, t, i, TRUE)
  PROVE Here(s, e, p, t, i, TRUE)
<1>1. /\ e.dicPos = pos /\ e.state = d.state /\ e.control = d.control
      /\ e.needInitLevel = d.needInitLevel /\ e.unpackSize = d.unpackSize
      /\ e.packSize = d.packSize /\ e.start = d.start /\ e.probs = d.probs
  BY PutForm
<1>2. /\ At(s, p, i) /\ Stage(s, d, p, i) /\ Levels(s, d, i) /\ Passed(s, d, i, TRUE)
      /\ Decoded(s, d, t, i)
  BY DEF Here
<1>3. Stage(s, e, p, i) BY <1>1, <1>2 DEF Stage
<1>4. Levels(s, e, i) BY <1>1, <1>2 DEF Levels
<1>5. Passed(s, e, i, TRUE) BY <1>1, <1>2 DEF Passed
<1>6. Decoded(s, e, t, i)
  <2>1. TextSoFar(s, e, t, i) BY <1>1, <1>2 DEF Decoded, TextSoFar, Made
  <2>2. ProbsSoFar(s, d, i) => ProbsSoFar(s, e, i) BY <1>1 DEF ProbsSoFar
  <2>3. DataSoFar(d, s[i]) => DataSoFar(e, s[i]) BY <1>1 DEF DataSoFar
  <2> QED BY <1>1, <1>2, <2>1, <2>2, <2>3 DEF Decoded
<1> QED BY <1>2, <1>3, <1>4, <1>5, <1>6 DEF Here

(* A round of decoding begins.                                               *)
LEMMA RoundBegins ==
  ASSUME NEW s \in ChunkStreams, stream' = s, NEW p \in Nat, src' = p,
         NEW d, DecTypeOK(d), d.state # "ERROR", NEW pos \in Nat, pos <= DicBufSize,
         NEW e, e = Put(d, pos), dec' = e,
         NEW c, CallTypeOK(c), c.kind # "parse", p <= c.end, c.end <= Size(s),
         NEW size \in Nat, NEW b, b = RoundOf(c, pos, size), call' = b,
         NEW t, text' = t, NEW i, Here(s, d, p, t, i, TRUE)
  PROVE Lzma2Inv'
<1>1. DecTypeOK(e) /\ e.dicPos = pos /\ e.state = d.state BY PutForm
<1>2. /\ CallTypeOK(b) /\ b.pc = "decode" /\ b.kind = c.kind /\ b.end = c.end
      /\ b.from = pos /\ pos <= b.limit /\ b.limit <= DicBufSize
  BY RoundForm
<1>3. Here(s, e, p, t, i, TRUE) BY HerePut
<1>4. Here(s, e, p, t, i, b.kind # "parse") BY <1>2, <1>3
<1>5. InCall(s, e, p, i, b) BY <1>1, <1>2 DEF InCall
<1>6. Result(s, e, p, i, b) BY <1>2 DEF Result
<1> QED BY <1>1, <1>2, <1>4, <1>5, <1>6, InvNext

LEMMA WrapIn ==
  ASSUME NEW q \in Nat, q <= DicBufSize
  PROVE WrapRing(q) \in Nat /\ WrapRing(q) <= DicBufSize
BY Limits DEF WrapRing

LEMMA Delivers ==
  ASSUME Lzma2Inv, Deliver
  PROVE Lzma2Inv'
<1>1. /\ stream \in ChunkStreams /\ src \in Nat /\ DecTypeOK(dec) /\ CallTypeOK(call)
  BY InvParts
<1>2. PICK i \in 0 .. Len(stream) :
        /\ Here(stream, dec, src, text, i, call.kind # "parse")
        /\ InCall(stream, dec, src, i, call)
  BY InvParts
<1>3. stream' = stream /\ src' = src /\ text' = text /\ call.pc = "return" BY DEF Deliver
<1>4. PICK pos : pos = WrapRing(dec.dicPos) OBVIOUS
<1>5. PICK size : size = call.size - (dec.dicPos - call.from) OBVIOUS
<1>6. \/ /\ call.kind = "buf" /\ call.res = "ok" /\ call.size > dec.dicPos - call.from
         /\ call' = RoundOf(call, pos, size) /\ dec' = Put(dec, pos)
      \/ call' = [Idle EXCEPT !.kind = call.kind] /\ dec' = dec
  BY <1>4, <1>5 DEF Deliver, Put
<1>7. CASE /\ call.kind = "buf" /\ call.res = "ok" /\ call.size > dec.dicPos - call.from
           /\ call' = RoundOf(call, pos, size) /\ dec' = Put(dec, pos)
  <2>1. /\ call.kind # "parse" /\ call.pc # "idle" /\ src <= call.end /\ call.end <= Size(stream)
        /\ call.from <= dec.dicPos /\ dec.dicPos <= call.limit /\ call.limit <= DicBufSize
        /\ dec.state # "ERROR"
    BY <1>2, <1>3, <1>7 DEF InCall
  <2>2. call.size \in Nat /\ call.from \in Nat /\ call.limit \in Nat /\ dec.dicPos \in Nat
    BY <1>1 DEF CallTypeOK, DecTypeOK
  <2>3. size \in Nat BY <1>5, <1>7, <2>1, <2>2
  <2>4. dec.dicPos <= DicBufSize BY <2>1, <2>2, Limits
  <2>5. pos \in Nat /\ pos <= DicBufSize BY <1>4, <2>2, <2>4, WrapIn
  <2>6. Here(stream, dec, src, text, i, TRUE) BY <1>2, <2>1
  <2>7. PICK e : e = Put(dec, pos) OBVIOUS
  <2>8. PICK b : b = RoundOf(call, pos, size) OBVIOUS
  <2>9. dec' = e /\ call' = b BY <1>7, <2>7, <2>8
  <2> QED BY <1>1, <1>3, <2>1, <2>3, <2>5, <2>6, <2>7, <2>8, <2>9, RoundBegins
<1>8. CASE call' = [Idle EXCEPT !.kind = call.kind] /\ dec' = dec
  <2>1. PICK b : b = [Idle EXCEPT !.kind = call.kind] OBVIOUS
  <2>2. call.kind \in {"dic", "buf", "parse"} BY <1>1 DEF CallTypeOK
  <2>3. CallTypeOK(b) /\ b.kind = call.kind /\ b.pc = "idle" BY <2>1, <2>2, IdleCall
  <2>4. InCall(stream, dec, src, i, b) BY <2>3 DEF InCall
  <2>5. Result(stream, dec, src, i, b) BY <2>3 DEF Result
  <2>6. Here(stream, dec, src, text, i, b.kind # "parse") BY <1>2, <2>3
  <2>7. call' = b BY <1>8, <2>1
  <2> QED BY <1>1, <1>3, <1>8, <2>3, <2>4, <2>5, <2>6, <2>7, InvNext
<1> QED BY <1>6, <1>7, <1>8

(* What a new call may be given                                              *)
LEMMA SourceIn ==
  ASSUME NEW s \in ChunkStreams, NEW p \in Nat, NEW i, At(s, p, i)
  PROVE p <= Size(s)
<1>1. PICK z : z = Size(s) OBVIOUS
<1>2. z \in Nat BY <1>1, PlacesType
<1>3. CASE i = 0 BY <1>1, <1>2, <1>3 DEF At
<1>4. CASE i # 0
  <2>1. i \in 1 .. Len(s) BY <1>4, ChunkTypes DEF At
  <2>2. i > 0 BY <2>1, ChunkTypes
  <2>3. PICK y : y = Places(s)[i + 1] OBVIOUS
  <2>4. y \in Nat /\ y <= z BY <1>1, <2>1, <2>3, PlacesType
  <2>5. p <= y BY <2>2, <2>3 DEF At
  <2> QED BY <1>1, <1>2, <2>4, <2>5
<1> QED BY <1>3, <1>4

LEMMA OfferIs ==
  ASSUME NEW n \in Offers \cup {Size(stream) - src}, stream \in ChunkStreams, src \in Nat,
         NEW i, At(stream, src, i)
  PROVE n \in Nat
<1>1. PICK z : z = Size(stream) OBVIOUS
<1>2. z \in Nat BY <1>1, PlacesType
<1>3. src <= z BY <1>1, SourceIn
<1>4. z - src \in Nat BY <1>2, <1>3
<1> QED BY <1>1, <1>4, ChunkAssumption

LEMMA CallsDic ==
  ASSUME Lzma2Inv, NEW n \in Nat, NEW mode \in {"any", "end"},
         NEW limit \in 0 .. DicBufSize, DecodeToDic(limit, n, mode)
  PROVE Lzma2Inv'
<1>1. /\ stream \in ChunkStreams /\ src \in Nat /\ DecTypeOK(dec) /\ CallTypeOK(call)
  BY InvParts
<1>2. PICK i \in 0 .. Len(stream) : Here(stream, dec, src, text, i, call.kind # "parse")
  BY InvParts
<1>3. /\ call.kind = "dic" /\ dec.state # "ERROR" /\ src + n <= Size(stream)
      /\ dec.dicPos <= limit
      /\ stream' = stream /\ src' = src /\ dec' = dec /\ text' = text
  BY DEF DecodeToDic, Ready
<1>4. PICK end : end = src + n OBVIOUS
<1>5. PICK b : b = [Idle EXCEPT !.pc = "decode", !.limit = limit, !.from = dec.dicPos,
                                !.end = end, !.mode = mode, !.curMode = mode] OBVIOUS
<1>6. call' = b BY <1>4, <1>5 DEF DecodeToDic
<1>7. /\ limit \in Nat /\ limit <= DicBufSize /\ dec.dicPos \in Nat /\ end \in Nat /\ src <= end
  <2>1. dec.dicPos \in Nat BY <1>1 DEF DecTypeOK
  <2> QED BY <1>1, <1>4, <2>1, Limits
<1>8. /\ CallTypeOK(b) /\ b.kind = "dic" /\ b.limit = limit /\ b.from = dec.dicPos
      /\ b.end = end /\ b.pc = "decode"
  <2>1. PICK from : from = dec.dicPos OBVIOUS
  <2>2. b = CallOf("dic", limit, from, 0, end, mode, "decode")
    <3>1. b = [pc |-> "decode", kind |-> "dic", limit |-> limit, from |-> from, size |-> 0,
               end |-> end, mode |-> mode, curMode |-> mode, res |-> "ok", status |-> "none"]
      BY <1>5, <2>1 DEF Idle
    <3> QED BY <3>1 DEF CallOf
  <2>3. "dic" \in {"dic", "buf", "parse"} /\ "decode" \in {"idle", "decode", "parse"}
        /\ 0 \in Nat /\ from \in Nat
    BY <1>7, <2>1
  <2>4. Called(b, "dic", limit, from, 0, end, mode, "decode")
    BY <1>7, <2>2, <2>3, IdleForm
  <2> QED BY <2>1, <2>4 DEF Called
<1>9. InCall(stream, dec, src, i, b) BY <1>3, <1>4, <1>7, <1>8 DEF InCall
<1>10. Result(stream, dec, src, i, b) BY <1>8 DEF Result
<1>11. Here(stream, dec, src, text, i, b.kind # "parse") BY <1>2, <1>3, <1>8
<1> QED BY <1>1, <1>3, <1>6, <1>8, <1>9, <1>10, <1>11, InvNext

LEMMA CallsBuf ==
  ASSUME Lzma2Inv, NEW n \in Nat, NEW mode \in {"any", "end"},
         NEW size \in Nat, DecodeToBuf(size, n, mode)
  PROVE Lzma2Inv'
<1>1. /\ stream \in ChunkStreams /\ src \in Nat /\ DecTypeOK(dec) /\ CallTypeOK(call)
  BY InvParts
<1>2. PICK i \in 0 .. Len(stream) :
        /\ Here(stream, dec, src, text, i, call.kind # "parse")
        /\ call.kind # "parse" => Decoded(stream, dec, text, i)
  BY InvParts
<1>3. PICK pos : pos = WrapRing(dec.dicPos) OBVIOUS
<1>4. PICK end : end = src + n OBVIOUS
<1>5. PICK c : c = [Idle EXCEPT !.kind = "buf", !.end = end, !.mode = mode] OBVIOUS
<1>6. PICK b : b = RoundOf(c, pos, size) OBVIOUS
<1>7. PICK e : e = Put(dec, pos) OBVIOUS
<1>8. /\ call.kind = "buf" /\ dec.state # "ERROR" /\ end <= Size(stream)
      /\ stream' = stream /\ src' = src /\ dec' = e /\ text' = text /\ call' = b
  BY <1>3, <1>4, <1>5, <1>6, <1>7 DEF DecodeToBuf, Ready, Put
<1>9. pos \in Nat /\ pos <= DicBufSize
  <2>1. dec.dicPos \in Nat BY <1>1 DEF DecTypeOK
  <2>2. dec.dicPos <= DicBufSize BY <1>2, <1>8 DEF Decoded
  <2> QED BY <1>3, <2>1, <2>2, WrapIn
<1>10. end \in Nat /\ src <= end BY <1>1, <1>4
<1>11. CallTypeOK(c) /\ c.kind = "buf" /\ c.end = end
  <2>1. c = [pc |-> "idle", kind |-> "buf", limit |-> 0, from |-> 0, size |-> 0,
             end |-> end, mode |-> mode, curMode |-> "any", res |-> "ok", status |-> "none"]
    BY <1>5 DEF Idle
  <2>2. /\ CallForm(c) /\ c.pc = "idle" /\ c.kind = "buf" /\ c.limit = 0 /\ c.from = 0
        /\ c.size = 0 /\ c.end = end /\ c.mode = mode /\ c.curMode = "any" /\ c.status = "none"
    BY <2>1 DEF CallForm
  <2>3. c.status \in Statuses BY <2>2 DEF Statuses
  <2> QED BY <1>10, <2>2, <2>3 DEF CallTypeOK
<1>12. Here(stream, dec, src, text, i, TRUE) BY <1>2, <1>8
<1> QED BY <1>1, <1>6, <1>7, <1>8, <1>9, <1>10, <1>11, <1>12, RoundBegins

LEMMA CallsParse ==
  ASSUME Lzma2Inv, NEW n \in Nat, NEW mode \in {"any", "end"},
         NEW size \in Nat, Parse(size, n, mode)
  PROVE Lzma2Inv'
<1>1. /\ stream \in ChunkStreams /\ src \in Nat /\ DecTypeOK(dec) /\ CallTypeOK(call)
  BY InvParts
<1>2. PICK i \in 0 .. Len(stream) : Here(stream, dec, src, text, i, call.kind # "parse")
  BY InvParts
<1>3. PICK end : end = src + n OBVIOUS
<1>4. PICK b : b = [Idle EXCEPT !.pc = "parse", !.kind = "parse", !.size = size,
                                !.end = end, !.mode = mode, !.curMode = mode] OBVIOUS
<1>5. /\ call.kind = "parse" /\ end <= Size(stream)
      /\ stream' = stream /\ src' = src /\ dec' = dec /\ text' = text /\ call' = b
  BY <1>3, <1>4 DEF Parse, Ready
<1>6. end \in Nat /\ src <= end BY <1>1, <1>3
<1>7. CallTypeOK(b) /\ b.kind = "parse" /\ b.end = end /\ b.pc = "parse"
  <2>1. b = CallOf("parse", 0, 0, size, end, mode, "parse")
    <3>1. b = [pc |-> "parse", kind |-> "parse", limit |-> 0, from |-> 0, size |-> size,
               end |-> end, mode |-> mode, curMode |-> mode, res |-> "ok", status |-> "none"]
      BY <1>4 DEF Idle
    <3> QED BY <3>1 DEF CallOf
  <2>2. "parse" \in {"dic", "buf", "parse"} /\ "parse" \in {"idle", "decode", "parse"}
        /\ 0 \in Nat
    OBVIOUS
  <2>3. Called(b, "parse", 0, 0, size, end, mode, "parse") BY <1>6, <2>1, <2>2, IdleForm
  <2> QED BY <2>3 DEF Called
<1>8. Here(stream, dec, src, text, i, FALSE) BY <1>2, <1>5
<1>9. src <= b.end /\ b.end <= Size(stream) BY <1>5, <1>6, <1>7
<1> QED BY <1>1, <1>5, <1>7, <1>8, <1>9, ParsesOn

-----------------------------------------------------------------------------
(* The invariant holds of every state.                                       *)

LEMMA InvInit ==
  ASSUME Init
  PROVE Lzma2Inv
<1>1. stream \in ChunkStreams /\ src = 0 /\ text = <<>> BY DEF Init
<1>2. PICK s : s = stream OBVIOUS
<1>3. s \in ChunkStreams /\ Len(s) \in Nat BY <1>1, <1>2, ChunkTypes
<1>4. PICK kind \in {"dic", "buf", "parse"} : call = [Idle EXCEPT !.kind = kind] BY DEF Init
<1>5. CallTypeOK(call) /\ call.kind = kind /\ call.pc = "idle" BY <1>4, IdleCall
<1>6. dec = [state |-> "CONTROL", control |-> 0, needInitLevel |-> 224,
             isExtraMode |-> FALSE, unpackSize |-> 0, packSize |-> 0,
             dicPos |-> 0, start |-> 2, probs |-> FALSE]
  BY DEF Init
<1>7. PICK d : d = dec OBVIOUS
<1>8. /\ d.state = "CONTROL" /\ d.needInitLevel = 224 /\ d.unpackSize = 0 /\ d.packSize = 0
      /\ d.dicPos = 0 /\ d.start = 2 /\ d.probs = FALSE /\ d.isExtraMode = FALSE
      /\ d.control = 0
  BY <1>6, <1>7
<1>9. DecTypeOK(d)
  <2>1. DecForm(d) BY <1>6, <1>7, <1>8 DEF DecForm
  <2>2. d.state \in HeaderStates \cup DataStates \cup {"FINISHED", "ERROR"}
    BY <1>8 DEF HeaderStates
  <2>3. /\ d.needInitLevel \in {0, 192, 224}
        /\ d.unpackSize \in 0 .. 256 /\ d.packSize \in 0 .. 256
        /\ d.dicPos \in Nat /\ d.start \in 0 .. 2
    BY <1>8
  <2>4. d.probs \in BOOLEAN /\ d.isExtraMode \in BOOLEAN BY <1>8
  <2> QED BY <2>1, <2>2, <2>3, <2>4 DEF DecTypeOK
<1>10. At(s, 0, 0) BY <1>3 DEF At
<1>11. Stage(s, d, 0, 0) BY <1>8 DEF Stage
<1>12. Levels(s, d, 0) BY <1>8 DEF Levels
<1>13. Passed(s, d, 0, kind # "parse") BY DEF Passed
<1>14. Decoded(s, d, <<>>, 0)
  <2>1. TextSoFar(s, d, <<>>, 0) BY DEF TextSoFar
  <2>2. ProbsSoFar(s, d, 0) BY DEF ProbsSoFar
  <2>3. d.dicPos <= DicBufSize BY <1>8, Limits
  <2> QED BY <2>1, <2>2, <2>3 DEF Decoded
<1>15. Parsed(s, d, 0) BY <1>8 DEF Parsed
<1>16. Here(s, d, 0, <<>>, 0, kind # "parse")
  BY <1>10, <1>11, <1>12, <1>13, <1>14, <1>15 DEF Here
<1>17. InCall(s, d, 0, 0, call) /\ Result(s, d, 0, 0, call)
  BY <1>5, <1>8 DEF InCall, Result
<1>18. Standing(s, d, 0, <<>>, 0, call) BY <1>5, <1>16, <1>17 DEF Standing
<1>19. 0 \in 0 .. Len(s) BY <1>3
<1>20. Standing(stream, dec, src, text, 0, call) BY <1>1, <1>2, <1>7, <1>18
<1>21. DecTypeOK(dec) /\ src \in Nat /\ 0 \in 0 .. Len(stream)
  BY <1>1, <1>2, <1>7, <1>9, <1>19
<1> QED BY <1>1, <1>5, <1>20, <1>21 DEF Lzma2Inv

LEMMA CallKeeps ==
  ASSUME Lzma2Inv, Call
  PROVE Lzma2Inv'
<1>1. PICK n \in Offers \cup {Size(stream) - src}, mode \in {"any", "end"} :
        \/ \E limit \in 0 .. DicBufSize : DecodeToDic(limit, n, mode)
        \/ \E size \in 0 .. DicBufSize + 1 : DecodeToBuf(size, n, mode)
        \/ \E size \in 0 .. DicBufSize + 1 : Parse(size, n, mode)
  BY DEF Call
<1>2. n \in Nat
  <2>1. /\ stream \in ChunkStreams /\ src \in Nat
        /\ \E i \in 0 .. Len(stream) : At(stream, src, i)
    BY InvParts
  <2> QED BY <2>1, OfferIs
<1>3. \A size \in 0 .. DicBufSize + 1 : size \in Nat BY Limits
<1>4. CASE \E limit \in 0 .. DicBufSize : DecodeToDic(limit, n, mode)
  BY <1>2, <1>4, CallsDic
<1>5. CASE \E size \in 0 .. DicBufSize + 1 : DecodeToBuf(size, n, mode)
  <2>1. PICK size \in 0 .. DicBufSize + 1 : DecodeToBuf(size, n, mode) BY <1>5
  <2>2. size \in Nat BY <1>3
  <2> QED BY <1>2, <2>1, <2>2, CallsBuf
<1>6. CASE \E size \in 0 .. DicBufSize + 1 : Parse(size, n, mode)
  <2>1. PICK size \in 0 .. DicBufSize + 1 : Parse(size, n, mode) BY <1>6
  <2>2. size \in Nat BY <1>3
  <2> QED BY <1>2, <2>1, <2>2, CallsParse
<1> QED BY <1>1, <1>4, <1>5, <1>6

LEMMA NextKeeps ==
  ASSUME Lzma2Inv, [Next]_vars
  PROVE Lzma2Inv'
<1>1. CASE DecodeEnds BY <1>1, EndsDecode
<1>2. CASE DecodeHeader BY <1>2, HeaderDecode
<1>3. CASE CopyPiece BY <1>3, PieceCopy
<1>4. CASE LzmaPiece BY <1>4, PieceLzma
<1>5. CASE ParseEnds BY <1>5, EndsParse
<1>6. CASE ParseHeader BY <1>6, HeaderParse
<1>7. CASE ParseCopy BY <1>7, CopyParse
<1>8. CASE ParseLzma BY <1>8, LzmaParse
<1>9. CASE Deliver BY <1>9, Delivers
<1>10. CASE Call BY <1>10, CallKeeps
<1>11. CASE UNCHANGED vars
  <2>1. stream' = stream /\ src' = src /\ dec' = dec /\ call' = call /\ text' = text
    BY <1>11 DEF vars
  <2> QED BY <2>1 DEF Lzma2Inv
<1> QED BY <1>1, <1>2, <1>3, <1>4, <1>5, <1>6, <1>7, <1>8, <1>9, <1>10, <1>11 DEF Next, Run

LEMMA Invariant == Spec => []Lzma2Inv
<1>1. Init => Lzma2Inv BY InvInit
<1>2. Lzma2Inv /\ [Next]_vars => Lzma2Inv' BY NextKeeps
<1> QED BY <1>1, <1>2, PTL DEF Spec

-----------------------------------------------------------------------------
(* What the invariant says of the properties.                                *)

LEMMA CurrentIs ==
  ASSUME stream \in ChunkStreams, src \in Nat, NEW i, At(stream, src, i)
  PROVE /\ i = 0 => src = 0 /\ Current = 1
        /\ i > 0 => i \in 1 .. Len(stream) /\ src # 0 /\ Chunk = i /\ Current = i
<1>1. i = 0 => src = 0 /\ Current = 1 BY DEF At, Current
<1>2. ASSUME i > 0 PROVE i \in 1 .. Len(stream) /\ src # 0 /\ Chunk = i /\ Current = i
  <2>1. i \in 1 .. Len(stream) BY <1>2, ChunkTypes DEF At
  <2>2. Chunk = i BY <1>2, ChunkIs
  <2>3. PICK x : x = Places(stream)[i] OBVIOUS
  <2>4. x \in Nat /\ x < src BY <1>2, <2>1, <2>3, PlacesType DEF At
  <2>5. src # 0 BY <2>4
  <2> QED BY <2>1, <2>2, <2>5 DEF Current
<1> QED BY <1>1, <1>2

LEMMA TextRight ==
  ASSUME Lzma2Inv
  PROVE TextExact
<1> SUFFICES ASSUME call.kind # "parse"
             PROVE /\ Len(text) <= Len(Whole) /\ text = SubSeq(Whole, 1, Len(text))
                   /\ \A j \in 1 .. Current - 1 : ChunkOK(stream, j)
  BY DEF TextExact, Decodes
<1>1. stream \in ChunkStreams /\ src \in Nat BY InvParts
<1>2. PICK i \in 0 .. Len(stream) :
        /\ At(stream, src, i) /\ Passed(stream, dec, i, TRUE)
        /\ TextSoFar(stream, dec, text, i)
  BY InvParts DEF Decoded
<1>3. PICK w : w = TextOf(stream)[Len(stream)] OBVIOUS
<1>4. Whole = w BY <1>3 DEF Whole
<1>5. CASE i = 0
  <2>1. text = <<>> /\ Current = 1 BY <1>1, <1>2, <1>5, CurrentIs DEF TextSoFar
  <2>2. w \in Seq(Bytes)
    <3>1. Len(stream) \in 0 .. Len(stream) BY <1>1, ChunkTypes
    <3> QED BY <1>1, <1>3, <3>1, TextIs
  <2>3. Len(w) \in Nat BY <2>2
  <2>4. SubSeq(w, 1, 0) = <<>> BY <2>2
  <2>5. Len(text) = 0 BY <2>1
  <2> QED BY <1>4, <2>1, <2>3, <2>4, <2>5
<1>6. CASE i # 0
  <2>1. i > 0 /\ i \in 1 .. Len(stream) /\ Current = i
    <3>1. i > 0 BY <1>1, <1>6, ChunkTypes
    <3> QED BY <1>1, <1>2, <3>1, CurrentIs
  <2>2. PICK m \in 0 .. stream[i].unpack :
          /\ text = TextOf(stream)[i - 1] \o Tokens(i, 0, m)
          /\ stream[i].control = 0 => m = 0
    BY <1>2, <2>1 DEF TextSoFar
  <2>3. Len(text) <= Len(w) /\ text = SubSeq(w, 1, Len(text))
    BY <1>1, <1>3, <2>1, <2>2, PartPrefix
  <2>4. ASSUME NEW j \in 1 .. Current - 1 PROVE ChunkOK(stream, j)
    <3>1. j \in 1 .. i /\ j < i BY <2>1
    <3>2. HeaderOK(stream, j) /\ DataOK(stream[j]) BY <1>2, <3>1 DEF Passed
    <3> QED BY <3>2 DEF ChunkOK
  <2> QED BY <1>4, <2>3, <2>4
<1> QED BY <1>5, <1>6

LEMMA StepRight ==
  ASSUME Lzma2Inv
  PROVE InStep
<1>1. stream \in ChunkStreams /\ src \in Nat /\ DecTypeOK(dec) BY InvParts
<1>2. PICK i \in 0 .. Len(stream) : At(stream, src, i) /\ Stage(stream, dec, src, i)
  BY InvParts
<1>3. CASE i = 0
  <2>1. src = 0 /\ dec.state = "CONTROL"
    <3>1. ~(i > 0) BY <1>3
    <3> QED BY <1>1, <1>2, <1>3, <3>1, CurrentIs DEF Stage
  <2> QED BY <2>1 DEF InStep, InData
<1>4. CASE i # 0
  <2>1. i > 0 /\ i \in 1 .. Len(stream) /\ Current = i
    <3>1. i > 0 BY <1>1, <1>4, ChunkTypes
    <3> QED BY <1>1, <1>2, <3>1, CurrentIs
  <2>2. PICK a : a = Places(stream)[i] OBVIOUS
  <2>3. PICK z : z = Places(stream)[i + 1] OBVIOUS
  <2>4. PICK h : h = Len(Header(stream[i])) OBVIOUS
  <2>5. PICK n : n = DataSize(stream[i]) OBVIOUS
  <2>6. a \in Nat /\ h \in 1 .. 6 /\ n \in Nat /\ z = a + (h + n)
    BY <1>1, <2>1, <2>2, <2>3, <2>4, <2>5, Span
  <2>7. PICK x : x = stream[i].control OBVIOUS
  <2>8. PICK u : u = stream[i].unpack OBVIOUS
  <2>9. PICK v : v = stream[i].pack OBVIOUS
  <2>10. /\ x \in {0, 1, 2, 3, 128, 160, 192, 224} /\ u \in Nat /\ v \in Nat
         /\ n = IF x = 0 THEN 0 ELSE IF x < 128 THEN u ELSE v
    BY <1>1, <2>1, <2>5, <2>7, <2>8, <2>9, ChunkOf
  <2>11. dec.state = "CONTROL" => src = z BY <1>2, <2>1, <2>3 DEF Stage
  <2>12. dec.state = "UNPACK0" => dec.unpackSize = 0 BY <1>2 DEF Stage
  <2>13. PICK y : y = dec.unpackSize OBVIOUS
  <2>14. PICK w : w = dec.packSize OBVIOUS
  <2>15. y \in Nat /\ w \in Nat
    <3>1. dec.unpackSize \in 0 .. 256 /\ dec.packSize \in 0 .. 256 BY <1>1 DEF DecTypeOK
    <3>2. y \in 0 .. 256 /\ w \in 0 .. 256 BY <2>13, <2>14, <3>1
    <3> QED BY <3>2
  <2>16. ASSUME dec.state = "DATA"
         PROVE src + (IF IsUncompressed(dec) THEN y ELSE w) = z
    <3>1. dec.control = x BY <1>2, <2>1, <2>7, <2>16 DEF Stage
    <3>2. x # 0 /\ y = u /\ src - a = h /\ (x >= 128 => w = v)
      BY <1>2, <2>1, <2>2, <2>4, <2>7, <2>8, <2>9, <2>13, <2>14, <2>16 DEF Stage
    <3> QED BY <1>1, <2>6, <2>10, <3>1, <3>2 DEF IsUncompressed
  <2>17. ASSUME dec.state = "DATA_CONT"
         PROVE src + (IF IsUncompressed(dec) THEN y ELSE w) = z
    <3>1. dec.control = x BY <1>2, <2>1, <2>7, <2>17 DEF Stage
    <3>2. /\ x # 0
          /\ x < 128 => src - a = h + u - y
          /\ x >= 128 => src - a = h + v - w
      BY <1>2, <2>1, <2>2, <2>4, <2>7, <2>8, <2>9, <2>13, <2>14, <2>17 DEF Stage
    <3> QED BY <1>1, <2>6, <2>10, <2>15, <3>1, <3>2 DEF IsUncompressed
  <2> QED BY <2>1, <2>3, <2>11, <2>12, <2>13, <2>14, <2>16, <2>17 DEF InStep, InData
<1> QED BY <1>3, <1>4

LEMMA ProbsRight ==
  ASSUME Lzma2Inv
  PROVE ProbsInitialised
<1> SUFFICES ASSUME dec.state = "DATA_CONT", ~IsUncompressed(dec), dec.start = 0
             PROVE dec.probs
  BY DEF ProbsInitialised
<1>1. stream \in ChunkStreams BY InvParts
<1>2. PICK i \in 0 .. Len(stream) :
        /\ Stage(stream, dec, src, i) /\ At(stream, src, i)
        /\ call.kind # "parse" => Decoded(stream, dec, text, i)
        /\ call.kind = "parse" => Parsed(stream, dec, i)
  BY InvParts
<1>3. call.kind # "parse" BY <1>2 DEF Parsed
<1>4. i > 0 /\ dec.control = stream[i].control BY <1>2 DEF Stage
<1>5. i \in 1 .. Len(stream) BY <1>1, <1>4, ChunkTypes
<1>6. PICK x : x = stream[i].control OBVIOUS
<1>7. x \in {0, 1, 2, 3, 128, 160, 192, 224} BY <1>1, <1>5, <1>6, ChunkOf
<1>8. ~(x < 128) BY <1>4, <1>6 DEF IsUncompressed
<1>9. x \in {128, 160} \/ x >= 192 BY <1>7, <1>8
<1>10. ProbsSoFar(stream, dec, i) BY <1>2, <1>3 DEF Decoded
<1> QED BY <1>4, <1>6, <1>9, <1>10 DEF ProbsSoFar

LEMMA DecodeRight ==
  ASSUME Lzma2Inv
  PROVE DecodeVerdict
<1> SUFFICES ASSUME call.kind # "parse", call.pc = "return"
             PROVE CASE call.status = "finished_with_mark" ->
                          /\ stream[Current].control = 0
                          /\ src = Places(stream)[Current + 1]
                     [] call.status = "needs_more_input" -> src = call.end
                     [] call.status = "not_finished" -> Full /\ call.curMode = "any"
                     [] OTHER -> /\ call.res = "data"
                                 /\ \/ ~ChunkOK(stream, Current)
                                    \/ /\ Full /\ call.curMode = "end"
                                       /\ stream[Current].control /= 0
  BY DEF DecodeVerdict, Decodes
<1>1. stream \in ChunkStreams /\ src \in Nat /\ CallTypeOK(call) /\ DecTypeOK(dec) BY InvParts
<1>2. PICK i \in 0 .. Len(stream) :
        At(stream, src, i) /\ Result(stream, dec, src, i, call)
  BY InvParts
<1>3. i > 0 => Current = i BY <1>1, <1>2, CurrentIs
<1>4. call.limit = dec.dicPos => Full
  <2>1. dec.dicPos \in Nat BY <1>1 DEF DecTypeOK
  <2> QED BY <2>1 DEF Full, Room
<1>5. /\ call.status = "finished_with_mark" =>
            i > 0 /\ stream[i].control = 0 /\ src = Places(stream)[i + 1]
      /\ call.status = "needs_more_input" => src = call.end
      /\ call.status = "not_finished" => call.limit = dec.dicPos /\ call.curMode = "any"
      /\ call.status \in {"none", "new_block", "new_chunk"} =>
           /\ i > 0 /\ call.res = "data"
           /\ \/ ~ChunkOK(stream, i)
              \/ call.limit = dec.dicPos /\ call.curMode = "end" /\ stream[i].control /= 0
  BY <1>2 DEF Result
<1>6. \/ call.status \in {"finished_with_mark", "needs_more_input", "not_finished"}
      \/ call.status \in {"none", "new_block", "new_chunk"}
  BY <1>1 DEF CallTypeOK, Statuses
<1> QED BY <1>3, <1>4, <1>5, <1>6

LEMMA ParseRight ==
  ASSUME Lzma2Inv
  PROVE ParseVerdict
<1>1. stream \in ChunkStreams /\ src \in Nat /\ CallTypeOK(call) BY InvParts
<1>2. PICK i \in 0 .. Len(stream) :
        /\ At(stream, src, i) /\ Result(stream, dec, src, i, call)
        /\ Passed(stream, dec, i, call.kind # "parse")
  BY InvParts
<1>3. i > 0 => Current = i BY <1>1, <1>2, CurrentIs
<1>4. ASSUME call.kind = "parse", NEW j \in 1 .. Current - 1
      PROVE HeaderOK(stream, j) /\ HeadOK(stream[j])
  <2>1. CASE i = 0 BY <1>1, <1>2, <2>1, CurrentIs
  <2>2. CASE i # 0
    <3>1. i > 0 BY <1>1, <2>2, ChunkTypes
    <3>2. j \in 1 .. i /\ j < i BY <1>1, <1>3, <3>1, ChunkTypes
    <3>3. Passed(stream, dec, i, FALSE) BY <1>2, <1>4
    <3> QED BY <3>2, <3>3 DEF Passed
  <2> QED BY <2>1, <2>2
<1>5. ASSUME call.kind = "parse", call.pc = "return"
      PROVE LET c == stream[Current]
                begin == Places(stream)[Current]
            IN CASE call.status = "new_block" ->
                      src = begin + 1 /\ (c.control = 1 \/ c.control >= 224)
                 [] call.status = "new_chunk" ->
                      src = begin + Len(Header(c)) /\ dec.unpackSize = c.unpack
                 [] call.status = "finished_with_mark" ->
                      c.control = 0 /\ src = begin + 1
                 [] call.status = "needs_more_input" -> src = call.end
                 [] call.status = "not_finished" -> call.size = 0
                 [] OTHER -> ~HeaderOK(stream, Current) \/ ~HeadOK(c)
  <2>1. /\ call.status = "needs_more_input" => src = call.end
        /\ call.status = "new_block" =>
             /\ i > 0 /\ src = Places(stream)[i] + 1
             /\ stream[i].control = 1 \/ stream[i].control >= 224
        /\ call.status = "new_chunk" =>
             /\ i > 0 /\ src = Places(stream)[i] + Len(Header(stream[i]))
             /\ dec.unpackSize = stream[i].unpack
        /\ call.status = "finished_with_mark" =>
             i > 0 /\ stream[i].control = 0 /\ src = Places(stream)[i] + 1
        /\ call.status = "not_finished" => call.size = 0
        /\ call.status = "none" =>
             i > 0 /\ (~HeaderOK(stream, i) \/ ~HeadOK(stream[i]))
    BY <1>2, <1>5 DEF Result
  <2>2. call.status \in {"none", "needs_more_input", "finished_with_mark", "not_finished",
                         "new_block", "new_chunk"}
    BY <1>1 DEF CallTypeOK, Statuses
  <2> QED BY <1>3, <2>1, <2>2
<1> QED BY <1>4, <1>5 DEF ParseVerdict, Decodes

(* How far what a parser has counted of a chunk may be from its text.        *)
LEMMA MadeBound ==
  ASSUME NEW s \in ChunkStreams, NEW p \in Nat, NEW i \in 1 .. Len(s), NEW d, DecTypeOK(d),
         Stage(s, d, p, i), Parsed(s, d, i), ChunkOK(s, i),
         NEW x, x = (IF d.isExtraMode THEN d.unpackSize ELSE 0)
  PROVE /\ Made(s, d, i) \in Nat /\ Adding(s, i, p) \in Nat
        /\ Made(s, d, i) <= Adding(s, i, p)
        /\ Adding(s, i, p) <= Made(s, d, i) + x
<1>0. i > 0 /\ d.state # "ERROR"
  <2>1. HeaderOK(s, i) /\ HeadOK(s[i]) BY DEF ChunkOK, DataOK, HeadOK
  <2>2. d.state # "ERROR" BY <2>1 DEF Parsed
  <2>3. i > 0 BY ChunkTypes
  <2> QED BY <2>2, <2>3
<1>1. PICK c : c = s[i] OBVIOUS
<1>2. PICK a : a = Places(s)[i] OBVIOUS
<1>3. PICK z : z = Places(s)[i + 1] OBVIOUS
<1>4. PICK h : h = Len(Header(c)) OBVIOUS
<1>5. PICK n : n = DataSize(c) OBVIOUS
<1>6. a \in Nat /\ h \in 1 .. 6 /\ n \in Nat /\ z = a + (h + n)
  BY <1>1, <1>2, <1>3, <1>4, <1>5, Span
<1>7. PICK o : o = c.control OBVIOUS
<1>8. PICK u : u = c.unpack OBVIOUS
<1>9. PICK v : v = c.pack OBVIOUS
<1>10. /\ o \in {0, 1, 2, 3, 128, 160, 192, 224} /\ u \in Nat /\ v \in Nat /\ 1 <= u /\ 1 <= v
       /\ n = IF o = 0 THEN 0 ELSE IF o < 128 THEN u ELSE v
       /\ h = IF o = 0 THEN 1 ELSE IF o < 128 THEN 3 ELSE IF o < 192 THEN 5 ELSE 6
  BY <1>1, <1>4, <1>5, <1>7, <1>8, <1>9, ChunkOf
<1>11. PICK k : k = p - a - h OBVIOUS
<1>12. k \in Int BY <1>6, <1>11
<1>13. Adding(s, i, p) = Brings(c, k) BY <1>1, <1>2, <1>4, <1>11 DEF Adding
<1>14. Brings(c, k) = IF k <= 0 \/ o = 0 THEN 0 ELSE IF k >= n THEN u
                      ELSE IF o < 128 THEN k ELSE c.yield[k]
  BY <1>5, <1>7, <1>8 DEF Brings
<1>15. PICK y : y = d.unpackSize OBVIOUS
<1>16. PICK w : w = d.packSize OBVIOUS
<1>17. y \in Nat /\ w \in Nat
  <2>1. d.unpackSize \in 0 .. 256 /\ d.packSize \in 0 .. 256 BY DEF DecTypeOK
  <2>2. y \in 0 .. 256 /\ w \in 0 .. 256 BY <1>15, <1>16, <2>1
  <2> QED BY <2>2
<1>18. x \in Nat BY <1>15, <1>17
<1>19. PICK m : m = Made(s, d, i) OBVIOUS
<1>20. m = IF d.state \in {"DATA", "DATA_CONT", "CONTROL"} THEN u - y ELSE 0
  BY <1>0, <1>1, <1>8, <1>15, <1>19 DEF Made, DataStates
<1>21. CASE d.state = "CONTROL"
  <2>1. y = 0 /\ p = z /\ o # 0 BY <1>0, <1>1, <1>3, <1>7, <1>15, <1>21 DEF Stage
  <2>2. k = n /\ n >= 1 BY <1>6, <1>10, <1>11, <2>1
  <2>3. Brings(c, k) = u
    <3>1. ~(k <= 0 \/ o = 0) /\ k >= n BY <1>6, <2>1, <2>2
    <3> QED BY <1>14, <3>1
  <2>4. m = u BY <1>10, <1>20, <1>21, <2>1
  <2> QED BY <1>10, <1>13, <1>18, <1>19, <2>3, <2>4
<1>22. CASE d.state \in {"FINISHED", "UNPACK0", "UNPACK1", "PACK0", "PACK1", "PROP"}
  <2>1. m = 0 BY <1>20, <1>22
  <2>2. /\ d.state = "FINISHED" => o = 0
        /\ d.state = "UNPACK0" => p - a = 1
        /\ d.state = "UNPACK1" => p - a = 2
        /\ d.state \in {"UNPACK0", "UNPACK1"} => o # 0
        /\ d.state = "PACK0" => p - a = 3
        /\ d.state = "PACK1" => p - a = 4
        /\ d.state = "PROP" => p - a = 5 /\ o >= 192
        /\ d.state \in {"PACK0", "PACK1"} => o >= 128
    BY <1>1, <1>2, <1>7 DEF Stage
  <2>3. o = 0 \/ k <= 0 BY <1>6, <1>10, <1>11, <1>22, <2>2
  <2>4. Brings(c, k) = 0 BY <1>14, <2>3
  <2> QED BY <1>13, <1>18, <1>19, <2>1, <2>4
<1>23. CASE d.state = "DATA"
  <2>1. y = u /\ p - a = h BY <1>1, <1>2, <1>4, <1>8, <1>15, <1>23 DEF Stage
  <2>2. k = 0 /\ m = 0 BY <1>6, <1>10, <1>11, <1>20, <1>23, <2>1
  <2>3. Brings(c, k) = 0 BY <1>14, <2>2
  <2> QED BY <1>13, <1>18, <1>19, <2>2, <2>3
<1>24. CASE d.state = "DATA_CONT" /\ o < 128
  <2>1. o # 0 /\ y \in 1 .. u /\ p - a = h + u - y
    BY <1>1, <1>2, <1>4, <1>7, <1>8, <1>15, <1>24 DEF Stage
  <2>2. k = u - y /\ m = k /\ k \in Nat /\ k < u
    BY <1>6, <1>10, <1>11, <1>17, <1>20, <1>24, <2>1
  <2>3. Brings(c, k) = k BY <1>10, <1>14, <1>24, <2>1, <2>2
  <2> QED BY <1>13, <1>18, <1>19, <2>2, <2>3
<1>25. CASE d.state = "DATA_CONT" /\ ~(o < 128)
  <2>1. o >= 128 /\ o # 0 BY <1>10, <1>25
  <2>2. y \in 0 .. u /\ w \in 0 .. v /\ p - a = h + v - w
    BY <1>1, <1>2, <1>4, <1>7, <1>8, <1>9, <1>15, <1>16, <1>25, <2>1 DEF Stage
  <2>3. x = y /\ (w > 0 => y = u)
    BY <1>0, <1>1, <1>7, <1>8, <1>15, <1>16, <1>25, <2>1 DEF Parsed
  <2>4. k = v - w /\ n = v /\ m = u - y
    BY <1>6, <1>10, <1>11, <1>17, <1>20, <1>25, <2>1, <2>2
  <2>5. CASE w = 0
    <3>1. k >= n /\ ~(k <= 0) BY <1>10, <2>4, <2>5
    <3>2. Brings(c, k) = u BY <1>14, <2>1, <3>1
    <3> QED BY <1>10, <1>13, <1>19, <2>2, <2>3, <2>4, <3>2
  <2>6. CASE w # 0
    <3>1. y = u /\ m = 0 /\ k \in 0 .. v /\ k < n BY <1>10, <1>17, <2>2, <2>3, <2>4, <2>6
    <3>2. c.yield[v] = u
      BY <1>1, <1>7, <1>8, <1>9, <2>1 DEF ChunkOK, DataOK
    <3>3. c.yield[k] \in Nat /\ c.yield[k] <= c.yield[v]
      <4>1. v \in 0 .. v BY <1>10
      <4> QED BY <1>1, <1>7, <1>9, <2>1, <3>1, <4>1, ChunkTypes
    <3>4. Brings(c, k) \in Nat /\ Brings(c, k) <= u BY <1>10, <1>14, <2>1, <3>1, <3>2, <3>3
    <3> QED BY <1>10, <1>13, <1>19, <2>3, <3>1, <3>4
  <2> QED BY <2>5, <2>6
<1>26. d.state \in {"CONTROL", "FINISHED", "UNPACK0", "UNPACK1", "PACK0", "PACK1", "PROP",
                    "DATA", "DATA_CONT"}
  BY <1>0 DEF DecTypeOK, HeaderStates, DataStates
<1> QED BY <1>21, <1>22, <1>23, <1>24, <1>25, <1>26

LEMMA BoundRight ==
  ASSUME Lzma2Inv
  PROVE ParseBound
<1> SUFFICES ASSUME call.kind = "parse", \A j \in 1 .. Current : ChunkOK(stream, j)
             PROVE /\ dec.dicPos <= Reach(stream, src)
                   /\ Reach(stream, src) <= dec.dicPos + UnpackExtra
  BY DEF ParseBound, Decodes
<1>1. stream \in ChunkStreams /\ src \in Nat /\ DecTypeOK(dec) BY InvParts
<1>2. PICK i \in 0 .. Len(stream) :
        At(stream, src, i) /\ Stage(stream, dec, src, i) /\ Parsed(stream, dec, i)
  BY InvParts
<1>3. PICK x : x = (IF dec.isExtraMode THEN dec.unpackSize ELSE 0) OBVIOUS
<1>4. UnpackExtra = x BY <1>3 DEF UnpackExtra
<1>5. x \in Nat
  <2>1. dec.unpackSize \in 0 .. 256 BY <1>1 DEF DecTypeOK
  <2>2. x \in 0 .. 256 BY <1>3, <2>1
  <2> QED BY <2>2
<1>6. CASE i = 0
  <2>1. src = 0 /\ dec.dicPos = 0 BY <1>1, <1>2, <1>6, CurrentIs DEF Parsed
  <2>2. Reach(stream, 0) = 0 BY <1>1, ReachStart
  <2> QED BY <1>4, <1>5, <2>1, <2>2
<1>7. CASE i # 0
  <2>1. i > 0 /\ i \in 1 .. Len(stream) /\ Current = i
    <3>1. i > 0 BY <1>1, <1>7, ChunkTypes
    <3> QED BY <1>1, <1>2, <3>1, CurrentIs
  <2>2. ChunkOK(stream, i) /\ \A j \in 1 .. i : ChunkOK(stream, j) BY <1>1, <2>1, ChunkTypes
  <2>3. PICK m : m = Made(stream, dec, i) OBVIOUS
  <2>4. PICK g : g = Adding(stream, i, src) OBVIOUS
  <2>5. PICK r : r = Reach(stream, Places(stream)[i]) OBVIOUS
  <2>6. dec.dicPos = r + m BY <1>2, <2>1, <2>2, <2>3, <2>5 DEF Parsed
  <2>7. m \in Nat /\ g \in Nat /\ m <= g /\ g <= m + x
    BY <1>1, <1>2, <1>3, <2>1, <2>2, <2>3, <2>4, MadeBound
  <2>8. Reach(stream, src) = r + g /\ r \in Nat
    <3>1. PICK q : q = Places(stream)[i] OBVIOUS
    <3>2. q \in Nat /\ q < src /\ src <= Places(stream)[i + 1]
      BY <1>1, <1>2, <2>1, <3>1, PlacesType DEF At
    <3>3. q <= src BY <1>1, <3>2
    <3> QED BY <1>1, <2>1, <2>4, <2>5, <3>1, <3>2, <3>3, ReachIn
  <2> QED BY <1>4, <1>5, <2>6, <2>7, <2>8
<1> QED BY <1>6, <1>7

(* However input and room are cut: every reader of an LZMA2 stream decodes or *)
(* passes its chunks one behind the other, each with what it needs, writes    *)
(* their text without a gap, and ends with the verdict the stream deserves    *)
(* (Lzma2Dec_DecodeToDic, Lzma2Dec_DecodeToBuf, Lzma2Dec_Parse).              *)
THEOREM ChunkSafety == Spec => [](ChunksExact /\ VerdictsExact)
<1>1. Lzma2Inv => ChunksExact
  BY TextRight, StepRight, ProbsRight DEF ChunksExact
<1>2. Lzma2Inv => VerdictsExact
  BY DecodeRight, ParseRight, BoundRight DEF VerdictsExact
<1> QED BY <1>1, <1>2, Invariant, PTL
=============================================================================
