------------------------------- MODULE LzHash -------------------------------
(* What the match finders share: hash functions (LzHash.h), references that  *)
(* are reduced before positions wrap, and what a match is.  The functions    *)
(* are abstract: they keep what the comments of LzFind.c promise of them     *)
(* (the first byte and h2 determine the second, ...) and otherwise collide.  *)
EXTENDS Integers, Sequences, TLC

CONSTANTS
  Width,       \* positions are numbers modulo Width (2^32)
  FinderFiles  \* the inputs: sequences over {0, 1}

Junk == 99   \* memory nobody wrote
Lower(a, b) == IF a < b THEN a ELSE b
(* Op of a value, which is computed once.                                    *)
Let(value, Op(_)) == CHOOSE r \in {Op(v) : v \in {value}} : TRUE

SaturSub(sub, v) == IF v = Junk THEN Junk ELSE IF v <= sub THEN 0 ELSE v - sub
Reduced(sub, table) == [i \in DOMAIN table |-> SaturSub(sub, table[i])]

(* Hashes of the bytes at the current position.                              *)
At(m, i) == m.window[m.buffer + i]
Hash2(m) == (At(m, 0) + At(m, 1)) % 2
Hash3(m) == Hash2(m) + 2 * ((At(m, 0) + At(m, 2)) % 2)
HashAll(m) ==
  CASE m.bytes = 2 -> 2 * At(m, 0) + At(m, 1)
    [] m.zip -> (At(m, 0) + At(m, 1) + At(m, 2)) % 2
    [] m.bytes = 3 -> Hash3(m)
    [] m.bytes = 4 -> (Hash3(m) + At(m, 3)) % 4
    [] m.bytes = 5 -> (Hash3(m) + At(m, 3) + 2 * At(m, 4)) % 4
HasHash2(m) == m.bytes > 2 /\ ~m.zip
HasHash3(m) == m.bytes > 3 /\ ~m.zip

(* A match of the bytes from place at on (counted from 1) with those d back. *)
IsMatch(data, at, len, d) == \A i \in 0 .. len - 1 : data[at + i] = data[at + i - d]
(* Every pair is a match inside the history, and pairs get longer and        *)
(* farther.                                                                  *)
PairsRight(data, at, pairs, maxLen, history) ==
  \A n \in DOMAIN pairs :
    LET len == pairs[n][1]
        d == pairs[n][2]
    IN  /\ len \in 2 .. maxLen /\ d \in 1 .. Lower(at - 1, history)
        /\ IsMatch(data, at, len, d)
        /\ n > 1 => pairs[n - 1][1] < len /\ pairs[n - 1][2] < d
(* The last pair is the longest match there is, if one has minLen bytes.     *)
Longest(data, at, pairs, minLen, maxLen, history) ==
  \A len \in minLen .. maxLen, d \in 1 .. Lower(at - 1, history) :
    IsMatch(data, at, len, d) => pairs # << >> /\ pairs[Len(pairs)][1] >= len
=============================================================================
