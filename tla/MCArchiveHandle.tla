-------------------------- MODULE MCArchiveHandle --------------------------
(* A small archive for ArchiveHandle.  Entries 0 and 1 share the solid      *)
(* block fA and 1 has no CRC; entry 2 is empty; entry 3 fills fB, and its   *)
(* CRC does not fit; entry 4 fills fC, which exceeds a size_t.  Index 5 is  *)
(* outside the archive.                                                     *)
EXTENDS ArchiveHandle, TLC

CONSTANTS fA, fB, fC, x, y, bad, t1, t2, a1, a2, a3, a4

MCFolders == {fA, fB, fC}
MCByte == {x, y}
MCFileToFolder == 0 :> fA @@ 1 :> fA @@ 2 :> NoFolder @@ 3 :> fB @@ 4 :> fC
MCFolderToFile == fA :> 0 @@ fB :> 3 @@ fC :> 4
MCUnpackPositions == 0 :> 0 @@ 1 :> 1 @@ 2 :> 3 @@ 3 :> 3 @@ 4 :> 4 @@ 5 :> 8
MCBlock == fA :> <<x, y, x>> @@ fB :> <<y>> @@ fC :> <<x, x, y, y>>
MCContent == 0 :> <<x>> @@ 1 :> <<y, x>> @@ 2 :> << >> @@ 3 :> <<y>>
             @@ 4 :> <<x, x, y, y>>
MCIndices == 0 .. 5

Symmetry == Permutations({t1, t2}) \cup Permutations({a1, a2, a3, a4})
=============================================================================
