----------------------------- MODULE ByteStream -----------------------------
(* What an ILookInStream (7zTypes.h) promises its clients: the bytes of a   *)
(* file, in order, from a position that only Skip, Read and Seek move.  No  *)
(* buffer, and no second position behind it.                                *)
EXTENDS Integers, Sequences

CONSTANT File   \* the bytes of the file

VARIABLES at,      \* the position
          asked,   \* what the last call asked for: a size or a position
          shown,   \* bytes the last Look has shown and Skip may pass
          given,   \* the bytes the last Look or Read has handed out
          res      \* the SRes of the last call

streamVars == <<at, asked, shown, given, res>>

(* The n bytes at position p; how many bytes there are from p on.           *)
Bytes(p, n) == SubSeq(File, p + 1, p + n)
Rest(p) == IF p < Len(File) THEN Len(File) - p ELSE 0

StreamInit == at = 0 /\ asked = 0 /\ shown = 0 /\ given = << >> /\ res = "SZ_OK"

(* Hand out n of the next bytes, at most as many as were asked for.  None   *)
(* at all and no error: that is the end of the file.                        *)
Hand(n) ==
  /\ asked' \in Nat
  /\ n <= asked' /\ n <= Rest(at)
  /\ given' = Bytes(at, n)
  /\ res' \in {"SZ_OK", "SZ_ERROR_READ"}
  /\ n = 0 /\ res' = "SZ_OK" => asked' = 0 \/ Rest(at) = 0

Look ==
  \E n \in 0 .. Rest(at) : Hand(n) /\ shown' = n /\ at' = at

Skip ==
  \E n \in 0 .. shown :
    /\ at' = at + n /\ shown' = shown - n
    /\ given' = << >> /\ res' = "SZ_OK" /\ asked' = n

Read ==
  \E n \in 0 .. Rest(at) : Hand(n) /\ shown' = 0 /\ at' = at + n

(* A Seek that fails leaves the position undefined.                         *)
Seek ==
  /\ asked' \in Nat
  /\ at' \in Nat
  /\ res' \in {"SZ_OK", "SZ_ERROR_READ"}
  /\ res' = "SZ_OK" => at' = asked'
  /\ shown' = 0 /\ given' = << >>

StreamNext == Look \/ Skip \/ Read \/ Seek

StreamSpec == StreamInit /\ [][StreamNext]_streamVars
=============================================================================
