-------------------------------- MODULE MCLzma --------------------------------
(* Short streams for Lzma2Decoder and, as a part of their own, for         *)
(* LzmaDecoder.                                                            *)
EXTENDS Lzma2Decoder

VARIABLES part, \* the part that runs; the other one stands still
          stream1, src1, sym, dec1, call1, out

Lzma == INSTANCE LzmaDecoder
          WITH stream <- stream1, src <- src1, dec <- dec1, call <- call1

-----------------------------------------------------------------------------
(* Streams of up to four symbols: good and bad first symbols; matches that *)
(* are near, overlap, are too far, or only near once the dictionary is     *)
(* full; end marks with and without a code of 0; symbols without bytes.    *)

Sym(kind, bytes, len, dist, rep, byte) ==
  [kind |-> kind, bytes |-> bytes, len |-> len, dist |-> dist, rep |-> rep,
   byte |-> byte]
Lit(n, byte) == Sym("lit", n, 1, 1, 1, byte)
Match(n, len, dist) == Sym("match", n, len, dist, 1, 0)
Rep(len, rep) == Sym("rep", 1, len, 1, rep, 0)
End(n) == Sym("end", n, 1, 1, 1, 0)
Sum(q) == LET S[i \in 0 .. Len(q)] == IF i = 0 THEN InitSize ELSE S[i - 1] + q[i].bytes
          IN S[Len(q)]
Stream(head, q, exact, tail) ==
  [head |-> head, dicSize |-> 2, syms |-> q, exact |-> exact, size |-> Sum(q) + tail]

BaseStreams ==
     {Stream(TRUE, <<x>>, {}, 1) : x \in {Rep(1, 1), Match(1, 2, 1), Lit(3, 1)}}
  \cup {Stream(FALSE, <<Lit(1, 1)>>, {}, 0), Stream(TRUE, <<End(2)>>, {1}, 0)}
  \cup {Stream(TRUE, <<Lit(1, 1), Lit(2, 2), Match(n, 3, d), x>>, z, 0) :
         n \in {1, 3}, d \in {1, 2, 3}, z \in {{4}, {2, 3}},
         x \in {Rep(2, 2), End(0), Lit(0, 3)}}
  \cup {Stream(TRUE, <<Lit(0, 1), x, End(2)>>, z, 1) :
         x \in {Match(1, 2, 1), Match(1, 2, 2), Rep(1, 1)}, z \in {{}, {1, 3}}}
(* The dictionary may also be larger than the buffer and the text. *)
MCStreams == BaseStreams \cup {[s EXCEPT !.dicSize = 5] : s \in BaseStreams}
-----------------------------------------------------------------------------

Last == [control |-> 0, unpack |-> 1, pack |-> 1, prop |-> TRUE, head |-> TRUE,
        clean |-> TRUE]
Plain(control, n) == [Last EXCEPT !.control = control, !.unpack = n]
Lz(control, n, yield, exact, stop, clean) ==
  [control |-> control, unpack |-> n, pack |-> Len(yield), prop |-> TRUE,
   head |-> TRUE, yield |-> [k \in 0 .. Len(yield) |-> IF k = 0 THEN 0 ELSE yield[k]],
   exact |-> exact, stop |-> stop, clean |-> clean]
Good(control) == Lz(control, 3, <<0, 0, 2, 3>>, {4}, 0, TRUE)

(* too short, too long, ends early, not at the end, with a mark, with an error, *)
(* a bad property byte, a bad first byte                                        *)
Bad(control) == {Lz(control, 2, <<0>>, {}, 0, TRUE),
                 Lz(control, 2, <<0, 1, 3>>, {3}, 0, TRUE),
                 Lz(control, 2, <<0, 1, 2, 2>>, {3}, 0, TRUE),
                 Lz(control, 2, <<0, 1, 2>>, {}, 0, TRUE),
                 Lz(control, 2, <<0, 1, 1>>, {3}, 3, TRUE),
                 Lz(control, 2, <<0, 1, 2, 2>>, {4}, 4, TRUE),
                 Lz(control, 2, <<0, 1, 1>>, {3}, 3, FALSE),
                 [Good(control) EXCEPT !.prop = FALSE],
                 [Good(control) EXCEPT !.head = FALSE]}
Chunks == {Plain(1, 2), Plain(2, 1), Plain(3, 1)}
     \cup {Good(k) : k \in {128, 160, 192, 224}}
     \cup {Lz(224, 2, <<0, 1, 2>>, {3}, 3, TRUE)}   \* the mark takes no byte
MCChunkStreams == {<<c, d, e, Last>> : c \in {Plain(1, 2), Good(224)},
                 d \in {Plain(2, 1), Good(192), Good(128)},
                 e \in {Plain(1, 2), Good(160), Good(224)}}
        \cup {<<c, Last>> : c \in Chunks \cup Bad(224)}
        \cup {<<Plain(1, 1), c, Good(128), Last>> : c \in Bad(192)}
-----------------------------------------------------------------------------
lzmaVars == <<stream1, src1, sym, dec1, call1, out>>
Some(S) == CHOOSE x \in S : TRUE

CodersInit == /\ part \in {"lzma", "lzma2"}
              /\ Init /\ Lzma!Init
              /\ part = "lzma2" => stream1 = Some(Streams) /\ call1.kind = "dic"
              /\ part = "lzma" => stream = Some(ChunkStreams) /\ call.kind = "dic"
LzmaRun  == part = "lzma" /\ Lzma!Run /\ UNCHANGED <<part, vars>>
Lzma2Run == part = "lzma2" /\ Run /\ UNCHANGED <<part, lzmaVars>>
CodersNext == \/ part = "lzma" /\ Lzma!Next /\ UNCHANGED <<part, vars>>
              \/ part = "lzma2" /\ Next /\ UNCHANGED <<part, lzmaVars>>
codersVars == <<part, vars, lzmaVars>>
CodersSpec == CodersInit /\ [][CodersNext]_codersVars
              /\ WF_codersVars(LzmaRun) /\ WF_codersVars(Lzma2Run)

(* The properties of LzmaDecoder, see there. *)
OutputExact == Lzma!OutputExact
StateExact == Lzma!StateExact
VerdictExact == Lzma!VerdictExact

(* Every call of either decoder returns. *)
CallsReturn == CallReturns /\ Lzma!CallReturns
=============================================================================
