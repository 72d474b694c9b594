------------------------------ MODULE LzmaStreams ------------------------------
(***************************************************************************)
(* LZMA and LZMA2 streams, and what both decoders have in common.  An LZMA *)
(* stream is what the range coder makes of its bytes: InitSize bytes and   *)
(* then symbols, of which each takes some bytes and says which text it     *)
(* adds.  An LZMA2 stream is a sequence of chunks.  What the LZMA decoder  *)
(* makes of a chunk is described by yield: how many bytes the symbols in   *)
(* its first k packed bytes bring.                                         *)
(***************************************************************************)
EXTENDS Integers, Sequences

CONSTANTS Streams,      \* LZMA streams
          ChunkStreams, \* LZMA2 streams
          Offers,       \* how many bytes a call may offer, besides all
          DicBufSize,   \* size of the buffer the dictionary lies in
          RequiredMax,  \* LZMA_REQUIRED_INPUT_MAX
          InitSize      \* RC_INIT_SIZE

ASSUME LimitAssumption == {DicBufSize, RequiredMax, InitSize} \subseteq Nat \ {0}

Lesser(a, b) == IF a < b THEN a ELSE b

(* DecodeToBuf uses the buffer as a ring. *)
WrapRing(pos) == IF pos = DicBufSize THEN 0 ELSE pos

-----------------------------------------------------------------------------
kMatchSpecLenStart == 2 + 8 * 2 + 256
kMatchSpecLen_Error_Data == 512

(***************************************************************************)
(* A symbol: "lit" adds a byte, "match" copies len bytes from dist back,   *)
(* "rep" the same from the rep-th of the last four distances, "end" is the *)
(* end mark.  bytes is what it takes from the input, the normalization     *)
(* behind it included.  exact holds the numbers of symbols after which the *)
(* range coder's code is 0.  dicSize is the size of the dictionary that the *)
(* properties name (prop.dicSize).                                         *)
(***************************************************************************)
ASSUME StreamAssumption ==
  \A s \in Streams :
    /\ s.size \in Nat /\ s.head \in BOOLEAN /\ s.dicSize \in Nat \ {0}
    /\ s.exact \subseteq 0 .. Len(s.syms)
    /\ \A i \in 1 .. Len(s.syms) :
         /\ s.syms[i].kind \in {"lit", "match", "rep", "end"}
         /\ s.syms[i].bytes \in 0 .. RequiredMax
         /\ s.syms[i].len \in 1 .. kMatchSpecLenStart - 1
         /\ s.syms[i].dist \in Nat \ {0}
         /\ s.syms[i].rep \in 1 .. 4

-----------------------------------------------------------------------------
(* What a stream says, without buffers, limits and rings. *)

MoveToFront(q, k) == [i \in 1 .. 4 |-> IF i = 1 THEN q[k]
                                       ELSE IF i <= k THEN q[i - 1] ELSE q[i]]
Reps(q, s) == CASE s.kind = "match" -> <<s.dist, q[1], q[2], q[3]>>
                [] s.kind = "rep"   -> MoveToFront(q, s.rep)
                [] OTHER            -> q

(* The text after i symbols, and the last distances *)
Repeated(text, dist, n) ==
  [k \in 1 .. Len(text) + n |->
     IF k <= Len(text) THEN text[k]
                       ELSE text[Len(text) - dist + 1 + ((k - Len(text) - 1) % dist)]]

Told(s) ==
  LET T[i \in 0 .. Len(s.syms)] ==
        IF i = 0 THEN [text |-> <<>>, reps |-> <<1, 1, 1, 1>>, good |-> TRUE]
        ELSE LET y == s.syms[i]  last == T[i - 1]  reps == Reps(last.reps, y)
                 near == /\ last.good
                         /\ y.kind \in {"match", "rep"} =>
                              reps[1] <= Lesser(Len(last.text), s.dicSize)
             IN [reps |-> reps, good |-> near,
                 text |-> CASE ~near \/ y.kind = "end" -> last.text
                            [] y.kind = "lit" -> Append(last.text, y.byte)
                            [] OTHER -> Repeated(last.text, reps[1], y.len)]
  IN T

(* Where symbol i + 1 begins *)
Place(s) == LET P[i \in 0 .. Len(s.syms)] ==
                  IF i = 0 THEN InitSize ELSE P[i - 1] + s.syms[i].bytes
            IN P

-----------------------------------------------------------------------------
(***************************************************************************)
(* A chunk: control is the control byte without size bits, unpack and pack *)
(* are its sizes, prop says whether its property byte is acceptable and    *)
(* head whether its first packed byte is 0.  exact holds the places where  *)
(* the range coder's code is 0; stop, if it is not 0, is the place of an   *)
(* end mark (clean) or of an error.                                        *)
(***************************************************************************)
IsCopy(c) == c.control \in {1, 2}
ASSUME ChunkAssumption ==
  /\ Offers \subseteq Nat
  /\ \A s \in ChunkStreams : Len(s) \in Nat /\ \A i \in 1 .. Len(s) :
       LET c == s[i] IN
       /\ c.control \in {0, 1, 2, 3, 128, 160, 192, 224}
       /\ c.unpack \in 1 .. 256 /\ c.pack \in 1 .. 256
       /\ {c.prop, c.head, c.clean} \subseteq BOOLEAN
       /\ c.control >= 128 =>
            /\ DOMAIN c.yield = 0 .. c.pack /\ c.exact \subseteq 0 .. c.pack
            /\ \A k \in 0 .. c.pack : /\ c.yield[k] \in Nat
                                      /\ k < InitSize => c.yield[k] = 0
            /\ \A k \in 0 .. c.pack : \A j \in 0 .. k : c.yield[j] <= c.yield[k]
            /\ c.stop \in {0} \cup InitSize .. c.pack

Header(c) == IF c.control = 0 THEN <<0>>
             ELSE <<c.control, 0, c.unpack - 1>>
               \o (IF c.control >= 128 THEN <<0, c.pack - 1>> ELSE <<>>)
               \o (IF c.control >= 192 THEN <<IF c.prop THEN 93 ELSE 225>> ELSE <<>>)
DataSize(c) == IF c.control = 0 THEN 0 ELSE IF c.control < 128 THEN c.unpack ELSE c.pack
ChunkSize(c) == Len(Header(c)) + DataSize(c)

(* Where chunk i begins *)
Places(s) == LET P[i \in 1 .. Len(s) + 1] ==
                   IF i = 1 THEN 0 ELSE P[i - 1] + ChunkSize(s[i - 1])
             IN [i \in 1 .. Len(s) + 1 |-> P[i]]
Size(s) == Places(s)[Len(s) + 1]
ByteAt(s, p) ==     \* the byte at position p
  LET i == CHOOSE i \in 1 .. Len(s) : Places(s)[i] <= p /\ p < Places(s)[i + 1]
      h == Header(s[i])
      k == p - Places(s)[i]
  IN IF k < Len(h) THEN h[k + 1]
     ELSE IF k = Len(h) /\ ~IsCopy(s[i]) /\ s[i].head THEN 0 ELSE 1
===============================================================================
