----------------------------- MODULE LruPolicy -----------------------------
(* What the decode cache of an ArchiveHandle promises: it remembers at most *)
(* Capacity archive indices and, when it must forget one, forgets the one   *)
(* whose last use lies furthest in the past.  No slots, no time stamps.     *)
EXTENDS FiniteSets, Naturals

CONSTANTS Indices,   \* archive indices a decode may ask for
          Capacity   \* number of indices the cache remembers

VARIABLES cached,    \* the remembered indices
          older      \* <<i, j>> : both remembered, i last used before j

lruVars == <<cached, older>>

(* The index v of the set S is the one used longest ago. *)
Oldest(v, S) == \A j \in S \ {v} : <<v, j>> \in older

(* i becomes the most recently used member of S. *)
UseLast(i, S) ==
  older' = {p \in older : p[1] \in S \ {i} /\ p[2] \in S \ {i}}
             \cup {<<j, i>> : j \in S \ {i}}

LruInit == cached = {} /\ older = {}

(* A decode of a remembered index. *)
Reuse(i) ==
  /\ i \in cached
  /\ cached' = cached
  /\ UseLast(i, cached)

(* A decode of an unknown index while there is room. *)
Remember(i) ==
  /\ i \notin cached
  /\ Cardinality(cached) < Capacity
  /\ cached' = cached \cup {i}
  /\ UseLast(i, cached \cup {i})

(* A decode of an unknown index when the cache is full. *)
Replace(i) ==
  /\ i \notin cached
  /\ Cardinality(cached) = Capacity
  /\ \E v \in cached :
       /\ Oldest(v, cached)
       /\ cached' = (cached \ {v}) \cup {i}
       /\ UseLast(i, (cached \ {v}) \cup {i})

(* Index i is decoded. *)
Decode(i) == Reuse(i) \/ Remember(i) \/ Replace(i)

(* The archive is closed and opened again. *)
Forget == cached' = {} /\ older' = {}

LruNext == Forget \/ \E i \in Indices : Decode(i)

LruSpec == LruInit /\ [][LruNext]_lruVars
=============================================================================
