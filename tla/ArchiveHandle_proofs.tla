------------------------ MODULE ArchiveHandle_proofs ------------------------
(* Proofs about DecodeCache and ArchiveHandle, for any archive, any number  *)
(* of threads, slots and addresses.                                         *)
EXTENDS ArchiveHandle, FiniteSetTheorems, SequenceTheorems, TLAPS

-----------------------------------------------------------------------------
(* The cache alone: the slot loops terminate on a slot, no index is cached  *)
(* twice, and - as long as lruSeqGen does not wrap around - the stamps      *)
(* implement the LRU policy.                                                *)

(* A non-empty set of naturals has a least element.                         *)
LEMMA LeastNat ==
  ASSUME NEW S \in SUBSET Nat, S # {}
  PROVE  \E x \in S : \A y \in S : x <= y
<1> DEFINE Less == OpToRel(<, Nat)
<1>1. \A x, y \in Nat : <<y, x>> \in Less <=> y < x
  BY DEF OpToRel
<1>2. IsWellFoundedOn(Less, Nat)
  BY NatLessThanWellFounded, Zenon
<1> HIDE DEF Less
<1>3. \E x \in S : \A y \in S : ~(<<y, x>> \in Less)
  BY <1>2, WFMin, Zenon
<1>4. PICK x \in S : \A y \in S : ~(<<y, x>> \in Less)
  BY <1>3
<1>5. x \in Nat  OBVIOUS
<1>6. ASSUME NEW y \in S  PROVE x <= y
  <2>1. y \in Nat  OBVIOUS
  <2>2. ~(y < x)  BY <1>1, <1>4, <1>5, <2>1, Zenon
  <2> QED  BY <1>5, <2>1, <2>2
<1> QED  BY <1>6

(* A loop over the array that looks for a slot in S finds the first one.    *)
LEMMA FirstIsLeast ==
  ASSUME NEW S \in SUBSET Slots, S # {}
  PROVE  First(S) \in S /\ \A r \in S : First(S) <= r
<1>1. S \in SUBSET Nat  BY CacheAssumption DEF Slots
<1>2. \E x \in S : \A y \in S : x <= y  BY <1>1, LeastNat
<1> QED  BY <1>2 DEF First

(* The scan for the victim of an eviction ends on a slot with the smallest  *)
(* stamp of all.                                                            *)
LEMMA VictimIsOldest ==
  ASSUME CacheTypeOK
  PROVE  Victim \in Slots /\ \A r \in Slots : cache[Victim].lruSeq <= cache[r].lruSeq
<1> DEFINE Stamps == {cache[s].lruSeq : s \in Slots}
           Oldest == {s \in Slots : \A r \in Slots : cache[s].lruSeq <= cache[r].lruSeq}
<1>1. Stamps \in SUBSET Nat
  BY CacheAssumption DEF CacheTypeOK, CacheEntry
<1>2. 0 \in Slots  BY CacheAssumption DEF Slots
<1>3. Stamps # {}  BY <1>2
<1>4. \E x \in Stamps : \A y \in Stamps : x <= y
  <2> HIDE DEF Stamps
  <2> QED  BY <1>1, <1>3, LeastNat
<1>5. Oldest # {}  BY <1>4
<1>6. First(Oldest) \in Oldest
  <2>1. Oldest \in SUBSET Slots  OBVIOUS
  <2> HIDE DEF Oldest
  <2> QED  BY <1>5, <2>1, FirstIsLeast
<1> QED  BY <1>6 DEF Victim

(* cacheInsert writes to a slot of the array, and to an empty one if there  *)
(* is one.                                                                  *)
LEMMA InsertSlotType ==
  ASSUME CacheTypeOK
  PROVE  /\ InsertSlot \in Slots
         /\ EmptySlots # {} => InsertSlot \in EmptySlots
         /\ EmptySlots = {} => InsertSlot = Victim
<1>1. EmptySlots \in SUBSET Slots  BY DEF EmptySlots, SlotsOf
<1>2. EmptySlots # {} => First(EmptySlots) \in EmptySlots
  BY <1>1, FirstIsLeast
<1>3. Victim \in Slots  BY VictimIsOldest
<1> QED  BY <1>1, <1>2, <1>3 DEF InsertSlot

(* The stamp counter stays a uint32_t.                                      *)
LEMMA NextSeqType ==
  ASSUME lruSeqGen \in 0 .. SeqMod - 1
  PROVE  /\ NextSeq \in 0 .. SeqMod - 1
         /\ lruSeqGen < SeqMod - 1 => NextSeq = lruSeqGen + 1
BY CacheAssumption DEF NextSeq

(* What cacheFind does to the array when it finds an entry.                 *)
LEMMA HitEffect ==
  ASSUME CacheTypeOK, NEW i \in Indices, CacheHit(i)
  PROVE  \E s \in Slots :
           /\ s = First(SlotsOf(i))
           /\ cache[s].index = i
           /\ cache' = [cache EXCEPT ![s].lruSeq = lruSeqGen]
           /\ cache'[s] = [index |-> i, data |-> cache[s].data, lruSeq |-> lruSeqGen]
           /\ \A r \in Slots \ {s} : cache'[r] = cache[r]
<1>1. SlotsOf(i) \in SUBSET Slots /\ SlotsOf(i) # {}  BY DEF SlotsOf, CacheHit
<1>2. First(SlotsOf(i)) \in SlotsOf(i)  BY <1>1, FirstIsLeast
<1> DEFINE s == First(SlotsOf(i))
<1>3. s \in Slots /\ cache[s].index = i  BY <1>2 DEF SlotsOf
<1>4. cache' = [cache EXCEPT ![s].lruSeq = lruSeqGen]  BY DEF CacheHit
<1>5. /\ cache'[s] = [index |-> i, data |-> cache[s].data, lruSeq |-> lruSeqGen]
      /\ \A r \in Slots \ {s} : cache'[r] = cache[r]
  <2> HIDE DEF s
  <2> QED  BY <1>3, <1>4 DEF CacheTypeOK, CacheEntry
<1> QED  BY <1>3, <1>4, <1>5

(* What cacheInsert does to the array.                                      *)
LEMMA InsertEffect ==
  ASSUME CacheTypeOK, NEW i \in Indices, NEW d \in Addr, CacheInsert(i, d)
  PROVE  /\ InsertSlot \in Slots
         /\ cache'[InsertSlot] = [index |-> i, data |-> d, lruSeq |-> lruSeqGen]
         /\ \A r \in Slots \ {InsertSlot} : cache'[r] = cache[r]
BY InsertSlotType DEF CacheInsert, CacheTypeOK

(* One use of the cache keeps it an array of entries without duplicates.    *)
LEMMA HitKeeps ==
  ASSUME CacheTypeOK, NoDuplicates, NEW i \in Indices, CacheHit(i)
  PROVE  CacheTypeOK' /\ NoDuplicates'
<1>1. PICK s \in Slots :
        /\ cache[s].index = i
        /\ cache' = [cache EXCEPT ![s].lruSeq = lruSeqGen]
        /\ cache'[s] = [index |-> i, data |-> cache[s].data, lruSeq |-> lruSeqGen]
        /\ \A r \in Slots \ {s} : cache'[r] = cache[r]
  BY HitEffect
<1>2. \A r \in Slots : cache'[r].index = cache[r].index  BY <1>1
<1>3. NoDuplicates'  BY <1>2 DEF NoDuplicates
<1>4. lruSeqGen' \in 0 .. SeqMod - 1
  BY NextSeqType DEF CacheHit, CacheTypeOK
<1>5. cache' \in [Slots -> CacheEntry]
  BY <1>1 DEF CacheTypeOK, CacheEntry
<1> QED  BY <1>3, <1>4, <1>5 DEF CacheTypeOK

LEMMA InsertKeeps ==
  ASSUME CacheTypeOK, NoDuplicates, NEW i \in Indices, NEW d \in Addr,
         CacheMiss(i), CacheInsert(i, d)
  PROVE  CacheTypeOK' /\ NoDuplicates'
<1>1. /\ InsertSlot \in Slots
      /\ cache'[InsertSlot] = [index |-> i, data |-> d, lruSeq |-> lruSeqGen]
      /\ \A r \in Slots \ {InsertSlot} : cache'[r] = cache[r]
  BY InsertEffect
<1>2. \A r \in Slots : cache[r].index # i  BY DEF CacheMiss, SlotsOf
<1>3. NoDuplicates'
  <2> SUFFICES ASSUME NEW r \in Slots, NEW s \in Slots, r # s,
                      cache'[r].index = cache'[s].index
               PROVE  cache'[r].index = FreeIndex
    BY DEF NoDuplicates
  <2>1. CASE r = InsertSlot  BY <2>1, <1>1, <1>2
  <2>2. CASE s = InsertSlot  BY <2>2, <1>1, <1>2
  <2>3. CASE r # InsertSlot /\ s # InsertSlot
    BY <2>3, <1>1 DEF NoDuplicates
  <2> QED  BY <2>1, <2>2, <2>3
<1>4. lruSeqGen' \in 0 .. SeqMod - 1
  BY NextSeqType DEF CacheInsert, CacheTypeOK
<1>5. cache' \in [Slots -> CacheEntry]
  BY <1>1 DEF CacheTypeOK, CacheEntry, CacheInsert
<1> QED  BY <1>3, <1>4, <1>5 DEF CacheTypeOK

LEMMA FreshKeeps ==
  /\ FreshCache => CacheTypeOK /\ NoDuplicates
  /\ Reopen => CacheTypeOK' /\ NoDuplicates'
BY CacheAssumption
   DEF FreshCache, Reopen, CacheTypeOK, NoDuplicates, EmptyEntry, CacheEntry

(* Whatever the host decodes, in whatever order, the cache holds an index   *)
(* at most once (7zPlugin.cpp:60-98), even after lruSeqGen has wrapped.     *)
THEOREM CacheSafety == CacheSpec => [](CacheTypeOK /\ NoDuplicates)
<1>1. CacheInit => CacheTypeOK /\ NoDuplicates
  BY FreshKeeps DEF CacheInit
<1>2. CacheTypeOK /\ NoDuplicates /\ [CacheNext]_cacheVars
        => CacheTypeOK' /\ NoDuplicates'
  <2> SUFFICES ASSUME CacheTypeOK, NoDuplicates, [CacheNext]_cacheVars
               PROVE  CacheTypeOK' /\ NoDuplicates'
    OBVIOUS
  <2>1. CASE Reopen  BY <2>1, FreshKeeps
  <2>2. ASSUME NEW i \in Indices, Use(i)
        PROVE  CacheTypeOK' /\ NoDuplicates'
    BY <2>2, HitKeeps, InsertKeeps DEF Use
  <2>3. CASE UNCHANGED cacheVars
    BY <2>3 DEF cacheVars, CacheTypeOK, NoDuplicates
  <2> QED  BY <2>1, <2>2, <2>3 DEF CacheNext
<1> QED  BY <1>1, <1>2, PTL DEF CacheSpec

-----------------------------------------------------------------------------
(* While lruSeqGen has not wrapped, stamps are the past values of the       *)
(* counter, each given to one entry.                                        *)
StampInv ==
  /\ lruSeqGen <= MaxSeq
  /\ \A s \in Slots : cache[s].index # FreeIndex => cache[s].lruSeq < lruSeqGen
  /\ \A r, s \in Slots :
       r # s /\ cache[r].index # FreeIndex /\ cache[s].index # FreeIndex
         => cache[r].lruSeq # cache[s].lruSeq

CacheInv == CacheTypeOK /\ NoDuplicates /\ StampInv

LEMMA StampHit ==
  ASSUME MaxSeq < SeqMod, CacheInv, NEW i \in Indices, lruSeqGen < MaxSeq, CacheHit(i)
  PROVE  StampInv'
<1>1. PICK s \in Slots :
        /\ cache[s].index = i
        /\ cache'[s] = [index |-> i, data |-> cache[s].data, lruSeq |-> lruSeqGen]
        /\ \A r \in Slots \ {s} : cache'[r] = cache[r]
  BY HitEffect DEF CacheInv
<1>2. lruSeqGen' = lruSeqGen + 1 /\ lruSeqGen \in Nat
  BY NextSeqType, CacheAssumption DEF CacheHit, CacheInv, CacheTypeOK
<1>3. \A r \in Slots : cache[r].lruSeq \in Nat
  BY DEF CacheInv, CacheTypeOK, CacheEntry
<1> QED  BY <1>1, <1>2, <1>3, CacheAssumption DEF CacheInv, StampInv

LEMMA StampInsert ==
  ASSUME MaxSeq < SeqMod, CacheInv, NEW i \in Indices, NEW d \in Addr,
         lruSeqGen < MaxSeq, CacheInsert(i, d)
  PROVE  StampInv'
<1>1. /\ InsertSlot \in Slots
      /\ cache'[InsertSlot] = [index |-> i, data |-> d, lruSeq |-> lruSeqGen]
      /\ \A r \in Slots \ {InsertSlot} : cache'[r] = cache[r]
  BY InsertEffect DEF CacheInv
<1>2. lruSeqGen' = lruSeqGen + 1 /\ lruSeqGen \in Nat
  BY NextSeqType, CacheAssumption DEF CacheInsert, CacheInv, CacheTypeOK
<1>3. \A r \in Slots : cache[r].lruSeq \in Nat
  BY DEF CacheInv, CacheTypeOK, CacheEntry
<1> QED  BY <1>1, <1>2, <1>3, CacheAssumption DEF CacheInv, StampInv

LEMMA CacheInvStep ==
  ASSUME MaxSeq < SeqMod, CacheInv, [CacheNext]_cacheVars
  PROVE  CacheInv'
<1>1. CASE Reopen
  BY <1>1, FreshKeeps, CacheAssumption DEF CacheInv, StampInv, Reopen, EmptyEntry
<1>2. ASSUME NEW i \in Indices, Use(i)  PROVE CacheInv'
  BY <1>2, HitKeeps, InsertKeeps, StampHit, StampInsert DEF Use, CacheInv
<1>3. CASE UNCHANGED cacheVars
  BY <1>3 DEF cacheVars, CacheInv, CacheTypeOK, NoDuplicates, StampInv
<1> QED  BY <1>1, <1>2, <1>3 DEF CacheNext

-----------------------------------------------------------------------------
(* The number of remembered indices, and whether there is room.             *)
LEMMA FullCache ==
  ASSUME CacheTypeOK, NoDuplicates, EmptySlots = {}
  PROVE  Cardinality(CachedIndices) = kDecodeCacheSize
<1> DEFINE f == [s \in Slots |-> cache[s].index]
<1>1. \A s \in Slots : cache[s].index # FreeIndex  BY DEF EmptySlots, SlotsOf
<1>2. f \in [Slots -> CachedIndices]  BY <1>1 DEF CachedIndices
<1>3. \A r, s \in Slots : f[r] = f[s] => r = s  BY <1>1 DEF NoDuplicates
<1>4. \A x \in CachedIndices : \E s \in Slots : f[s] = x  BY DEF CachedIndices
<1>5. ExistsBijection(Slots, CachedIndices)
  <2> HIDE DEF f
  <2> QED  BY <1>2, <1>3, <1>4
           DEF ExistsBijection, Bijection, Injection, Surjection, IsInjective
<1>6. IsFiniteSet(Slots) /\ Cardinality(Slots) = kDecodeCacheSize
  BY FS_Interval, CacheAssumption DEF Slots
<1> QED  BY <1>5, <1>6, FS_Bijection

LEMMA RoomInCache ==
  ASSUME CacheTypeOK, EmptySlots # {}
  PROVE  Cardinality(CachedIndices) < kDecodeCacheSize
<1> DEFINE Used == Slots \ EmptySlots
           f == [s \in Used |-> cache[s].index]
<1>1. PICK e \in EmptySlots : TRUE  OBVIOUS
<1>2. e \in Slots  BY DEF EmptySlots, SlotsOf
<1>3. IsFiniteSet(Slots) /\ Cardinality(Slots) = kDecodeCacheSize
  BY FS_Interval, CacheAssumption DEF Slots
<1>4. /\ IsFiniteSet(Slots \ {e})
      /\ Cardinality(Slots \ {e}) = kDecodeCacheSize - 1
  BY <1>2, <1>3, FS_RemoveElement
<1>5. IsFiniteSet(Used) /\ Cardinality(Used) <= kDecodeCacheSize - 1
  BY <1>1, <1>4, FS_Subset
<1>6. f \in Surjection(Used, CachedIndices)
  BY DEF Surjection, CachedIndices, EmptySlots, SlotsOf
<1>7. IsFiniteSet(CachedIndices) /\ Cardinality(CachedIndices) <= Cardinality(Used)
  <2> HIDE DEF f, Used
  <2> QED  BY <1>5, <1>6, FS_Surjection
<1> QED
  <2> HIDE DEF Used
  <2> QED  BY <1>5, <1>7, FS_CardinalityType, CacheAssumption

-----------------------------------------------------------------------------
(* LruPolicy counts with the same Cardinality.                              *)
LEMMA SameCardinality == \A S : Lru!Cardinality(S) = Cardinality(S)
BY DEF Cardinality, Lru!Cardinality

(* The relation StampOrder compares the stamps of the slots.                *)
LEMMA StampOrderPairs ==
  ASSUME NoDuplicates, NEW r \in Slots, NEW s \in Slots,
         cache[r].index # FreeIndex, cache[s].index # FreeIndex
  PROVE  <<cache[r].index, cache[s].index>> \in StampOrder
           <=> cache[r].lruSeq < cache[s].lruSeq
BY DEF StampOrder, CachedIndices, NoDuplicates

(* Writing the counter into slot s makes its index the last used one.       *)
LEMMA LastUse ==
  ASSUME CacheTypeOK, CacheTypeOK', NoDuplicates', StampInv,
         NEW i \in Indices, NEW s \in Slots,
         cache'[s].index = i, cache'[s].lruSeq = lruSeqGen,
         \A r \in Slots \ {s} : cache'[r] = cache[r],
         cache[s].index # i => \A r \in Slots : cache[r].index # i,
         NoDuplicates
  PROVE  Lru!UseLast(i, CachedIndices')
<1> DEFINE S == CachedIndices'
           New == {p \in StampOrder : p[1] \in S \ {i} /\ p[2] \in S \ {i}}
                    \cup {<<j, i>> : j \in S \ {i}}
<1>1. i # FreeIndex  BY CacheAssumption
<1>2. \A r \in Slots : cache[r].lruSeq \in Nat /\ cache'[r].lruSeq \in Nat
  BY DEF CacheTypeOK, CacheEntry
<1>3. \A r \in Slots \ {s} : cache'[r].index # i
  BY <1>1 DEF NoDuplicates
<1>4. ASSUME NEW p \in StampOrder'  PROVE p \in New
  <2>1. PICK q, r \in Slots : /\ p = <<cache'[q].index, cache'[r].index>>
                              /\ cache'[q].lruSeq < cache'[r].lruSeq
    BY DEF StampOrder
  <2>2. cache'[q].index \in S /\ cache'[r].index \in S
    BY <2>1 DEF StampOrder
  <2>3. q # s
    <3> SUFFICES ASSUME q = s PROVE FALSE  OBVIOUS
    <3>1. r # s  BY <2>1, <1>2
    <3>2. cache[r].lruSeq < lruSeqGen
      BY <3>1, <2>2 DEF StampInv, CachedIndices
    <3> QED  BY <3>1, <3>2, <2>1, <1>2 DEF CacheTypeOK
  <2>4. cache'[q].index # i  BY <2>3, <1>3
  <2>5. CASE r = s  BY <2>5, <2>1, <2>2, <2>4
  <2>6. CASE r # s
    <3>1. cache'[r].index # i  BY <2>6, <1>3
    <3>2. cache[q].index # FreeIndex /\ cache[r].index # FreeIndex
      BY <2>3, <2>6, <2>2 DEF CachedIndices
    <3>3. p \in StampOrder
      BY <3>2, <2>1, <2>3, <2>6, StampOrderPairs
    <3> QED  BY <3>3, <3>1, <2>4, <2>2, <2>1
  <2> QED  BY <2>5, <2>6
<1>5. ASSUME NEW p \in New  PROVE p \in StampOrder'
  <2>1. CASE p \in StampOrder /\ p[1] \in S \ {i} /\ p[2] \in S \ {i}
    <3>1. PICK q, r \in Slots : /\ p = <<cache[q].index, cache[r].index>>
                                /\ cache[q].lruSeq < cache[r].lruSeq
      BY <2>1 DEF StampOrder
    <3>2. cache[q].index # FreeIndex /\ cache[r].index # FreeIndex
      BY <2>1, <3>1 DEF CachedIndices
    <3>3. PICK q1, r1 \in Slots : /\ cache'[q1].index = cache[q].index
                                  /\ cache'[r1].index = cache[r].index
      BY <2>1, <3>1 DEF CachedIndices
    <3>4. q1 # s /\ r1 # s  BY <3>3, <3>1, <2>1
    <3>5. q1 = q /\ r1 = r  BY <3>2, <3>3, <3>4 DEF NoDuplicates
    <3> QED  BY <3>1, <3>4, <3>5, <2>1 DEF StampOrder
  <2>2. ASSUME NEW j \in S \ {i}, p = <<j, i>>  PROVE p \in StampOrder'
    <3>1. PICK q \in Slots : cache'[q].index = j
      BY DEF CachedIndices
    <3>2. q # s  BY <3>1
    <3>3. cache'[q].lruSeq < cache'[s].lruSeq
      BY <3>1, <3>2 DEF StampInv, CachedIndices
    <3>4. i \in S  BY <1>1 DEF CachedIndices
    <3> QED  BY <3>1, <3>3, <3>4, <2>2 DEF StampOrder
  <2> QED  BY <2>1, <2>2
<1>6. StampOrder' = New
  <2> HIDE DEF New
  <2> QED  BY <1>4, <1>5
<1> QED  BY <1>6 DEF Lru!UseLast

LEMMA HitIsReuse ==
  ASSUME CacheInv, CacheInv', NEW i \in Indices, CacheHit(i)
  PROVE  Lru!Reuse(i)
<1>1. PICK s \in Slots :
        /\ cache[s].index = i
        /\ cache'[s] = [index |-> i, data |-> cache[s].data, lruSeq |-> lruSeqGen]
        /\ \A r \in Slots \ {s} : cache'[r] = cache[r]
  BY HitEffect DEF CacheInv
<1>2. \A r \in Slots : cache'[r].index = cache[r].index  BY <1>1
<1>3. CachedIndices' = CachedIndices  BY <1>2 DEF CachedIndices
<1>4. i \in CachedIndices  BY <1>1, CacheAssumption DEF CachedIndices
<1>5. Lru!UseLast(i, CachedIndices')
  BY <1>1, LastUse DEF CacheInv
<1> QED  BY <1>3, <1>4, <1>5 DEF Lru!Reuse

LEMMA InsertIsRememberOrReplace ==
  ASSUME CacheInv, CacheInv', NEW i \in Indices, NEW d \in Addr,
         CacheMiss(i), CacheInsert(i, d)
  PROVE  Lru!Remember(i) \/ Lru!Replace(i)
<1> DEFINE s == InsertSlot
<1>1. /\ s \in Slots
      /\ cache'[s] = [index |-> i, data |-> d, lruSeq |-> lruSeqGen]
      /\ \A r \in Slots \ {s} : cache'[r] = cache[r]
  BY InsertEffect DEF CacheInv
<1>2. \A r \in Slots : cache[r].index # i  BY DEF CacheMiss, SlotsOf
<1>3. /\ EmptySlots # {} => s \in EmptySlots
      /\ EmptySlots = {} => s = Victim
  BY InsertSlotType DEF CacheInv
<1>4. i \notin CachedIndices  BY <1>2 DEF CachedIndices
<1> HIDE DEF s
<1>5. Lru!UseLast(i, CachedIndices')
  BY <1>1, <1>2, LastUse DEF CacheInv
<1>6. CASE EmptySlots # {}
  <2>1. cache[s].index = FreeIndex  BY <1>3, <1>6 DEF EmptySlots, SlotsOf
  <2>2. CachedIndices' = CachedIndices \cup {i}
    BY <1>1, <2>1, CacheAssumption DEF CachedIndices
  <2>3. Cardinality(CachedIndices) < kDecodeCacheSize
    BY <1>6, RoomInCache DEF CacheInv
  <2> QED  BY <1>4, <1>5, <2>2, <2>3, SameCardinality DEF Lru!Remember
<1>7. CASE EmptySlots = {}
  <2> DEFINE v == cache[s].index
  <2>1. \A r \in Slots : cache[r].index # FreeIndex
    BY <1>7 DEF EmptySlots, SlotsOf
  <2>2. v \in CachedIndices  BY <1>1, <2>1 DEF CachedIndices
  <2>3. CachedIndices' = (CachedIndices \ {v}) \cup {i}
    BY <1>1, <2>1, <1>2, CacheAssumption DEF CachedIndices, CacheInv, NoDuplicates
  <2>4. Lru!Oldest(v, CachedIndices)
    <3> SUFFICES ASSUME NEW j \in CachedIndices \ {v}
                 PROVE  <<v, j>> \in StampOrder
      BY DEF Lru!Oldest
    <3>1. PICK r \in Slots : cache[r].index = j  BY DEF CachedIndices
    <3>2. cache[s].lruSeq <= cache[r].lruSeq
      BY <1>3, <1>7, VictimIsOldest DEF CacheInv
    <3>3. cache[s].lruSeq # cache[r].lruSeq
      BY <1>1, <2>1, <3>1 DEF CacheInv, StampInv
    <3>4. cache[s].lruSeq \in Nat /\ cache[r].lruSeq \in Nat
      BY <1>1 DEF CacheInv, CacheTypeOK, CacheEntry
    <3>5. cache[s].lruSeq < cache[r].lruSeq  BY <3>2, <3>3, <3>4
    <3> QED  BY <1>1, <2>1, <3>1, <3>5, StampOrderPairs DEF CacheInv
  <2>5. Cardinality(CachedIndices) = kDecodeCacheSize
    BY <1>7, FullCache DEF CacheInv
  <2> HIDE DEF v
  <2> QED  BY <1>4, <1>5, <2>2, <2>3, <2>4, <2>5, SameCardinality DEF Lru!Replace
<1> QED  BY <1>6, <1>7

(* As long as lruSeqGen does not reach its modulus, cacheFind and           *)
(* cacheInsert (7zPlugin.cpp:58-98) are an LRU cache of kDecodeCacheSize    *)
(* indices: the entry they evict is the one used longest ago.               *)
THEOREM CacheIsLru ==
  ASSUME MaxSeq < SeqMod
  PROVE  CacheSpec => LeastRecentlyUsed
<1>1. CacheInit => CacheInv
  BY FreshKeeps, CacheAssumption
  DEF CacheInit, CacheInv, StampInv, FreshCache, EmptyEntry
<1>2. CacheInv /\ [CacheNext]_cacheVars => CacheInv'
  BY CacheInvStep
<1>3. CacheInit => Lru!LruInit
  BY DEF CacheInit, FreshCache, EmptyEntry, Lru!LruInit, CachedIndices, StampOrder
<1>4. CacheInv /\ CacheInv' /\ [CacheNext]_cacheVars
        => /\ [Lru!LruNext]_<<CachedIndices, StampOrder>>
           /\ [\A i \in Indices : Use(i) => Lru!Decode(i)]_cacheVars
  <2> SUFFICES ASSUME CacheInv, CacheInv', [CacheNext]_cacheVars
               PROVE  /\ [Lru!LruNext]_<<CachedIndices, StampOrder>>
                      /\ \A i \in Indices : Use(i) => Lru!Decode(i)
    OBVIOUS
  <2>1. Reopen => Lru!LruNext
    <3>1. Reopen => CachedIndices' = {} /\ StampOrder' = {}
      BY DEF Reopen, EmptyEntry, CachedIndices, StampOrder
    <3> QED  BY <3>1 DEF Lru!LruNext, Lru!Forget
  <2>2. ASSUME NEW i \in Indices, Use(i)
        PROVE  Lru!Decode(i)
    BY <2>2, HitIsReuse, InsertIsRememberOrReplace DEF Use, Lru!Decode
  <2>3. UNCHANGED cacheVars => UNCHANGED <<CachedIndices, StampOrder>>
    BY DEF cacheVars, CachedIndices, StampOrder
  <2>4. [Lru!LruNext]_<<CachedIndices, StampOrder>>
    BY <2>1, <2>2, <2>3 DEF CacheNext, Lru!LruNext
  <2> QED  BY <2>2, <2>4
<1> QED
  BY <1>1, <1>2, <1>3, <1>4, PTL
  DEF CacheSpec, LeastRecentlyUsed, Lru!LruSpec, Lru!lruVars

-----------------------------------------------------------------------------
(* The handle, with lruSeqGen wrapping around as it may.                    *)
(* The inductive invariant.  MutualExclusion, CacheValid and OwnedOnce are  *)
(* not inductive alone: what a thread may rely on depends on how far it is  *)
(* inside the critical section.                                             *)

Good(t) == Index(t) \in Files \ Damaged

(* The solid block, seen by the thread that works on it.                    *)
DecodeInv(t) ==
  LET f == FolderOf(Index(t)) IN
  /\ pc[t] = "decode" => /\ f \in Folders
                         /\ blockIndex = f
                         /\ outBufferSize = UnpackSize(f)
                         /\ outBuffer = Null => UnpackSize(f) = 0
  /\ pc[t] = "slice" => IF f = NoFolder
                        THEN outBuffer = Null
                        ELSE /\ blockIndex = f
                             /\ BlockData = Block[f]
                             /\ outBufferSize = UnpackSize(f)

(* What a call has found out and holds, at each place of FileDecode.        *)
LookupInv(t) ==
  /\ pc[t] \notin {"idle", "done"} => req[t] \in Request
  /\ pc[t] \in {"extract", "decode", "slice", "insert"} => CacheMiss(Index(t))
  /\ pc[t] \in {"decode", "slice", "fail"} => Index(t) \in Files
  /\ pc[t] \in {"extract", "decode", "slice", "fail", "insert"} /\ ~Mem(t)
       => buf[t] # Null
  /\ buf[t] # Null
       => /\ ~Mem(t)
          /\ pc[t] \in {"extract", "decode", "slice", "fail", "giveup", "insert"}
  /\ pc[t] \in {"create", "write"} => /\ ~Mem(t)
                                      /\ entry[t] \in Slots
                                      /\ cache[entry[t]].index = Index(t)

(* What the host's buffer or the output file holds by then.                 *)
OutInv(t) ==
  /\ pc[t] \in {"idle", "enter", "find", "extract", "decode", "slice", "fail",
                "giveup", "create"} => out[t] = Untouched
  /\ pc[t] = "insert" =>
       /\ Good(t)
       /\ IF Mem(t) THEN out[t] = Content[Index(t)]
                    ELSE out[t] = Untouched /\ heap[buf[t]] = Content[Index(t)]
  /\ pc[t] = "write" =>
       /\ remaining[t] <= Len(Content[Index(t)])
       /\ out[t] = SubSeq(Content[Index(t)], 1, Len(Content[Index(t)]) - remaining[t])
  /\ pc[t] = "leave" =>
       \/ reply[t] = "AMPE_OK" /\ Good(t) /\ out[t] = Content[Index(t)]
       \/ reply[t] = "AMPE_Error" /\ out[t] = Untouched
       \/ /\ reply[t] = "AMPE_WriteError" /\ ~Mem(t) /\ Good(t)
          /\ \/ out[t] = Untouched
             \/ \E n \in 0 .. Len(Content[Index(t)]) :
                  out[t] = SubSeq(Content[Index(t)], 1, n)

ClosedInv ==
  ~open => /\ \A t \in Threads : pc[t] \in {"idle", "done"}
           /\ \A s \in Slots : cache[s].data = Null
           /\ outBuffer = Null

StoreInv == NoDuplicates /\ CacheValid /\ OwnedOnce /\ ClosedInv

ThreadInv(t) == DecodeInv(t) /\ LookupInv(t) /\ OutInv(t)

IInv ==
  /\ TypeOK
  /\ MutualExclusion
  /\ BlockCacheValid
  /\ StoreInv
  /\ \A t \in Threads : ThreadInv(t)

-----------------------------------------------------------------------------
(* What the archive's tables say about an entry.                            *)
LEMMA EntryFacts ==
  ASSUME NEW i \in Files
  PROVE  /\ Content[i] \in Seq(Byte) /\ Content[i] \in Buffer /\ Content[i] # Free
         /\ FolderOf(i) = NoFolder => Content[i] = << >>
         /\ FolderOf(i) # NoFolder =>
              /\ FolderOf(i) \in Folders
              /\ FileOffset(i) \in Nat
              /\ FileSize(i) = Len(Content[i])
              /\ FileOffset(i) + FileSize(i) <= UnpackSize(FolderOf(i))
              /\ SubSeq(Block[FolderOf(i)], FileOffset(i) + 1, FileOffset(i) + FileSize(i))
                   = Content[i]
<1>1. Content[i] \in Seq(Byte)  BY DbAssumption
<1>2. Content[i] \in Buffer  BY <1>1 DEF Buffer
<1>3. Content[i] # Free  BY <1>2, BlockAssumption
<1>4. i \in 0 .. NumFiles /\ i + 1 \in 0 .. NumFiles  BY DbAssumption DEF Files
<1>5. Described(i)  BY DbAssumption
<1>6. ASSUME FolderOf(i) # NoFolder
      PROVE  /\ FolderOf(i) \in Folders
             /\ FileOffset(i) \in Nat
             /\ FileSize(i) = Len(Content[i])
             /\ FileOffset(i) + FileSize(i) <= UnpackSize(FolderOf(i))
             /\ SubSeq(Block[FolderOf(i)], FileOffset(i) + 1, FileOffset(i) + FileSize(i))
                  = Content[i]
  <2>1. /\ FolderToFile[FolderOf(i)] \in 0 .. NumFiles
        /\ UnpackPositions[FolderToFile[FolderOf(i)]] \in Nat
        /\ UnpackPositions[i] \in Nat
    BY <1>4, <1>5, <1>6, DbAssumption DEF Described, FolderOf
  <2> QED
    BY <1>5, <1>6, <2>1
    DEF Described, FolderOf, FileOffset, FileSize, UnpackSize
<1>7. FolderOf(i) = NoFolder => Content[i] = << >>
  BY <1>5 DEF Described, FolderOf
<1> QED  BY <1>1, <1>2, <1>3, <1>6, <1>7

LEMMA BlockFacts ==
  ASSUME NEW f \in Folders
  PROVE  /\ Block[f] \in Buffer /\ Block[f] # Free
         /\ UnpackSize(f) \in Nat
         /\ Garbage(UnpackSize(f)) \in Buffer /\ Garbage(UnpackSize(f)) # Free
<1>1. Block[f] \in Seq(Byte)  BY DbAssumption
<1>2. Block[f] \in Buffer  BY <1>1 DEF Buffer
<1>3. UnpackSize(f) \in Nat  BY <1>1, LenProperties DEF UnpackSize
<1>4. Garbage(UnpackSize(f)) \in Buffer
  BY <1>3, IsASeq DEF Garbage, Buffer
<1> QED  BY <1>2, <1>3, <1>4, BlockAssumption

-----------------------------------------------------------------------------
(* A thread outside the critical section depends on nothing that the owner  *)
(* may change.                                                              *)
LEMMA OutsiderKeeps ==
  ASSUME MutualExclusion, NEW t \in Threads, pc[t] \in Inside,
         NEW u \in Threads \ {t}, ThreadInv(u),
         pc'[u] = pc[u], req'[u] = req[u], out'[u] = out[u], buf'[u] = buf[u]
  PROVE  ThreadInv(u)'
<1>1. pc[u] \notin Inside  BY DEF MutualExclusion
<1> QED
  BY <1>1
  DEF Inside, ThreadInv, DecodeInv, LookupInv, OutInv, Mem, Index, Good

(* A step that leaves both caches and the heap alone disturbs no thread but *)
(* the one that takes it.                                                   *)
LEMMA BystanderKeeps ==
  ASSUME NEW u \in Threads, ThreadInv(u), UNCHANGED <<blockVars, cacheVars>>,
         pc'[u] = pc[u], req'[u] = req[u], out'[u] = out[u], buf'[u] = buf[u],
         entry'[u] = entry[u], remaining'[u] = remaining[u], reply'[u] = reply[u]
  PROVE  ThreadInv(u)'
BY DEF ThreadInv, DecodeInv, LookupInv, OutInv, Mem, Index, Good, blockVars, cacheVars,
       BlockData, CacheMiss, SlotsOf

(* The owner stays the owner while it moves inside.                         *)
LEMMA StayInside ==
  ASSUME TypeOK, MutualExclusion, NEW t \in Threads, NEW q \in Inside,
         pc[t] \in Inside, pc' = [pc EXCEPT ![t] = q], cs' = cs
  PROVE  MutualExclusion'
BY DEF TypeOK, MutualExclusion

LEMMA BlockUntouched ==
  ASSUME TypeOK, BlockCacheValid, NEW t \in Threads, NEW q,
         ~Extracting(t), pc' = [pc EXCEPT ![t] = q],
         UNCHANGED blockVars
  PROVE  BlockCacheValid'
<1> SUFFICES ASSUME \A u \in Threads : ~Extracting(u)'
             PROVE  BlockValid'
  BY DEF BlockCacheValid
<1>1. \A u \in Threads : ~Extracting(u)
  BY DEF Extracting, TypeOK
<1> QED  BY <1>1 DEF BlockCacheValid, BlockValid, blockVars

LEMMA StoreUntouched ==
  ASSUME StoreInv, UNCHANGED <<blockVars, cacheVars, buf, open>>,
         open \/ \A t \in Threads : pc'[t] \in {"idle", "done"}
  PROVE  StoreInv'
BY DEF StoreInv, blockVars, cacheVars, NoDuplicates, CacheValid, OwnedOnce, NoDangling,
       NoAlias, NoLeak, Live, ClosedInv

(* Inside the critical section the handle is open.                          *)
LEMMA OpenInside ==
  ASSUME IInv, NEW t \in Threads, pc[t] \notin {"idle", "done"}
  PROVE  open
BY DEF IInv, StoreInv, ClosedInv

-----------------------------------------------------------------------------
LEMMA InitStep == Init => IInv
<1> SUFFICES ASSUME Init PROVE IInv  OBVIOUS
<1>1. TypeOK
  <2>1. BlockTypeOK  BY DEF Init, BlockInit, BlockTypeOK
  <2>2. CacheTypeOK  BY FreshKeeps DEF Init
  <2> QED  BY <2>1, <2>2 DEF Init, TypeOK, Outside, Inside, Codes
<1>2. MutualExclusion  BY HandleAssumption DEF Init, MutualExclusion, Inside
<1>3. BlockCacheValid  BY DEF Init, BlockInit, BlockCacheValid, BlockValid
<1>4. StoreInv
  BY MemoryAssumption DEF Init, FreshCache, BlockInit, EmptyEntry, StoreInv, NoDuplicates,
     CacheValid, OwnedOnce, NoDangling, NoAlias, NoLeak, Live, ClosedInv
<1>5. \A t \in Threads : ThreadInv(t)
  BY DEF Init, ThreadInv, DecodeInv, LookupInv, OutInv
<1> QED  BY <1>1, <1>2, <1>3, <1>4, <1>5 DEF IInv

LEMMA CallStep ==
  ASSUME IInv, NEW t \in Threads, Call(t)
  PROVE  IInv'
<1> USE DEF Call, Goto
<1>1. TypeOK'
  BY DEF IInv, TypeOK, BlockTypeOK, CacheTypeOK, Outside, blockVars, cacheVars
<1>2. MutualExclusion'
  BY DEF IInv, TypeOK, MutualExclusion, Inside
<1>3. BlockCacheValid'
  BY BlockUntouched DEF IInv, Extracting
<1>4. StoreInv'  BY StoreUntouched DEF IInv
<1>5. ASSUME NEW u \in Threads \ {t}  PROVE ThreadInv(u)'
  BY BystanderKeeps DEF IInv, TypeOK
<1>6. ThreadInv(t)'
  BY DEF IInv, TypeOK, ThreadInv, DecodeInv, LookupInv, OutInv, Mem
<1> QED  BY <1>1, <1>2, <1>3, <1>4, <1>5, <1>6 DEF IInv

LEMMA RefuseCallStep ==
  ASSUME IInv, NEW t \in Threads, RefuseCall(t)
  PROVE  IInv'
<1> USE DEF RefuseCall, Goto, Return
<1>1. TypeOK'
  BY DEF IInv, TypeOK, BlockTypeOK, CacheTypeOK, Outside, Codes, blockVars, cacheVars
<1>2. MutualExclusion'
  BY DEF IInv, TypeOK, MutualExclusion, Inside
<1>3. BlockCacheValid'
  BY BlockUntouched DEF IInv, Extracting
<1>4. StoreInv'  BY StoreUntouched DEF IInv
<1>5. ASSUME NEW u \in Threads \ {t}  PROVE ThreadInv(u)'
  BY BystanderKeeps DEF IInv, TypeOK
<1>6. ThreadInv(t)'
  BY DEF IInv, TypeOK, ThreadInv, DecodeInv, LookupInv, OutInv, Mem
<1> QED  BY <1>1, <1>2, <1>3, <1>4, <1>5, <1>6 DEF IInv

LEMMA EnterStep ==
  ASSUME IInv, NEW t \in Threads, Enter(t)
  PROVE  IInv'
<1> USE DEF Enter, Goto
<1>1. TypeOK'
  BY DEF IInv, TypeOK, BlockTypeOK, CacheTypeOK, Inside, blockVars, cacheVars
<1>2. MutualExclusion'
  BY HandleAssumption DEF IInv, TypeOK, MutualExclusion, Inside
<1>3. BlockCacheValid'
  BY BlockUntouched DEF IInv, Extracting
<1>4. StoreInv'  BY StoreUntouched, OpenInside DEF IInv
<1>5. ASSUME NEW u \in Threads \ {t}  PROVE ThreadInv(u)'
  BY BystanderKeeps DEF IInv, TypeOK
<1>6. ThreadInv(t)'
  BY DEF IInv, TypeOK, ThreadInv, DecodeInv, LookupInv, OutInv, Mem
<1> QED  BY <1>1, <1>2, <1>3, <1>4, <1>5, <1>6 DEF IInv
LEMMA TakeStep ==
  ASSUME IInv, NEW t \in Threads, Take(t)
  PROVE  IInv'
<1> USE DEF Take, Goto
<1>1. TypeOK'
  BY DEF IInv, TypeOK, BlockTypeOK, CacheTypeOK, Outside, Codes, blockVars, cacheVars
<1>2. MutualExclusion'
  BY DEF IInv, TypeOK, MutualExclusion, Inside
<1>3. BlockCacheValid'
  BY BlockUntouched DEF IInv, Extracting
<1>4. StoreInv'
  BY StoreUntouched DEF IInv, TypeOK, StoreInv, ClosedInv
<1>5. ASSUME NEW u \in Threads \ {t}  PROVE ThreadInv(u)'
  BY BystanderKeeps DEF IInv, TypeOK
<1>6. ThreadInv(t)'
  BY DEF IInv, TypeOK, ThreadInv, DecodeInv, LookupInv, OutInv, Mem, Index, Good
<1> QED  BY <1>1, <1>2, <1>3, <1>4, <1>5, <1>6 DEF IInv

LEMMA FindMissMemStep ==
  ASSUME IInv, NEW t \in Threads, FindMissMem(t)
  PROVE  IInv'
<1> USE DEF FindMissMem, Goto
<1>1. TypeOK'
  BY DEF IInv, TypeOK, BlockTypeOK, CacheTypeOK, Inside, Codes, blockVars, cacheVars
<1>2. MutualExclusion'
  BY StayInside DEF IInv, Inside
<1>3. BlockCacheValid'
  BY BlockUntouched DEF IInv, Extracting
<1>4. StoreInv'
  BY StoreUntouched, OpenInside DEF IInv
<1>5. ASSUME NEW u \in Threads \ {t}  PROVE ThreadInv(u)'
  BY BystanderKeeps DEF IInv, TypeOK
<1>6. ThreadInv(t)'
  BY DEF IInv, TypeOK, ThreadInv, DecodeInv, LookupInv, OutInv, Mem, Index, Good,
     blockVars, cacheVars, CacheMiss, SlotsOf
<1> QED  BY <1>1, <1>2, <1>3, <1>4, <1>5, <1>6 DEF IInv

LEMMA BadIndexStep ==
  ASSUME IInv, NEW t \in Threads, BadIndex(t)
  PROVE  IInv'
<1> USE DEF BadIndex, Goto
<1>1. TypeOK'
  BY DEF IInv, TypeOK, BlockTypeOK, CacheTypeOK, Inside, Codes, blockVars, cacheVars
<1>2. MutualExclusion'
  BY StayInside DEF IInv, Inside
<1>3. BlockCacheValid'
  BY BlockUntouched DEF IInv, Extracting
<1>4. StoreInv'
  BY StoreUntouched, OpenInside DEF IInv
<1>5. ASSUME NEW u \in Threads \ {t}  PROVE ThreadInv(u)'
  BY BystanderKeeps DEF IInv, TypeOK
<1>6. ThreadInv(t)'
  BY DEF IInv, TypeOK, ThreadInv, DecodeInv, LookupInv, OutInv, Mem, Index, Good
<1> QED  BY <1>1, <1>2, <1>3, <1>4, <1>5, <1>6 DEF IInv

LEMMA SliceFailsStep ==
  ASSUME IInv, NEW t \in Threads, SliceFails(t)
  PROVE  IInv'
<1> USE DEF SliceFails, Goto
<1>1. TypeOK'
  BY DEF IInv, TypeOK, BlockTypeOK, CacheTypeOK, Inside, Codes, blockVars, cacheVars
<1>2. MutualExclusion'
  BY StayInside DEF IInv, Inside
<1>3. BlockCacheValid'
  BY DEF IInv, TypeOK, BlockCacheValid, Extracting
<1>4. StoreInv'
  BY StoreUntouched, OpenInside DEF IInv
<1>5. ASSUME NEW u \in Threads \ {t}  PROVE ThreadInv(u)'
  BY BystanderKeeps DEF IInv, TypeOK
<1>6. ThreadInv(t)'
  BY DEF IInv, TypeOK, ThreadInv, DecodeInv, LookupInv, OutInv, Mem, Index, Good
<1> QED  BY <1>1, <1>2, <1>3, <1>4, <1>5, <1>6 DEF IInv

LEMMA WriteFailsStep ==
  ASSUME IInv, NEW t \in Threads, WriteFails(t)
  PROVE  IInv'
<1> USE DEF WriteFails, Goto, Return
<1>1. TypeOK'
  BY DEF IInv, TypeOK, BlockTypeOK, CacheTypeOK, Inside, Codes, blockVars, cacheVars
<1>2. MutualExclusion'
  BY StayInside DEF IInv, Inside
<1>3. BlockCacheValid'
  BY BlockUntouched DEF IInv, Extracting
<1>4. StoreInv'
  BY StoreUntouched, OpenInside DEF IInv
<1>5. ASSUME NEW u \in Threads \ {t}  PROVE ThreadInv(u)'
  BY BystanderKeeps DEF IInv, TypeOK
<1>6. ThreadInv(t)'
  <2>1. DecodeInv(t)' /\ LookupInv(t)'
    BY DEF IInv, TypeOK, ThreadInv, DecodeInv, LookupInv, Mem, Index
  <2>2. CASE pc[t] = "create"
    <3>1. Good(t) /\ ~Mem(t) /\ out[t] = Untouched
      BY <2>2, CacheAssumption
      DEF IInv, TypeOK, StoreInv, CacheValid, ThreadInv, LookupInv, OutInv, Good,
          Index, Request
    <3> QED  BY <3>1, <2>1, <2>2 DEF IInv, TypeOK, ThreadInv, OutInv, Good, Mem, Index
  <2>3. CASE pc[t] = "write"
    <3>1. Good(t) /\ ~Mem(t)
      BY <2>3, CacheAssumption
      DEF IInv, TypeOK, StoreInv, CacheValid, ThreadInv, LookupInv, Good, Index, Request
    <3>2. \E n \in 0 .. Len(Content[Index(t)]) : out[t] = SubSeq(Content[Index(t)], 1, n)
      <4>1. Len(Content[Index(t)]) \in Nat  BY <3>1, EntryFacts, LenProperties DEF Good
      <4>2. remaining[t] \in Nat  BY DEF IInv, TypeOK
      <4>3. /\ remaining[t] <= Len(Content[Index(t)])
            /\ out[t] = SubSeq(Content[Index(t)], 1,
                               Len(Content[Index(t)]) - remaining[t])
        BY <2>3 DEF IInv, ThreadInv, OutInv
      <4>4. Len(Content[Index(t)]) - remaining[t] \in 0 .. Len(Content[Index(t)])
        BY <4>1, <4>2, <4>3
      <4> QED  BY <4>3, <4>4
    <3> QED  BY <3>1, <3>2, <2>1, <2>3 DEF IInv, TypeOK, ThreadInv, OutInv, Good, Mem, Index
  <2> QED  BY <2>2, <2>3
<1> QED  BY <1>1, <1>2, <1>3, <1>4, <1>5, <1>6 DEF IInv

LEMMA WrittenStep ==
  ASSUME IInv, NEW t \in Threads, Written(t)
  PROVE  IInv'
<1> USE DEF Written, Goto, Return
<1>1. TypeOK'
  BY DEF IInv, TypeOK, BlockTypeOK, CacheTypeOK, Inside, Codes, blockVars, cacheVars
<1>2. MutualExclusion'
  BY StayInside DEF IInv, Inside
<1>3. BlockCacheValid'
  BY BlockUntouched DEF IInv, Extracting
<1>4. StoreInv'
  BY StoreUntouched, OpenInside DEF IInv
<1>5. ASSUME NEW u \in Threads \ {t}  PROVE ThreadInv(u)'
  BY BystanderKeeps DEF IInv, TypeOK
<1>6. ThreadInv(t)'
  <2>1. DecodeInv(t)' /\ LookupInv(t)'
    BY DEF IInv, TypeOK, ThreadInv, DecodeInv, LookupInv, Mem, Index
  <2>2. Good(t)
    BY CacheAssumption
    DEF IInv, TypeOK, StoreInv, CacheValid, ThreadInv, LookupInv, Good, Index, Request
  <2>3. out[t] = Content[Index(t)]
    <3>1. Content[Index(t)] \in Seq(Byte)  BY <2>2, EntryFacts DEF Good
    <3>2. Len(Content[Index(t)]) \in Nat  BY <3>1, LenProperties
    <3>3. out[t] = SubSeq(Content[Index(t)], 1, Len(Content[Index(t)]))
      BY <3>2 DEF IInv, ThreadInv, OutInv
    <3> QED  BY <3>1, <3>3, SubSeqFull
  <2> QED  BY <2>1, <2>2, <2>3 DEF IInv, TypeOK, ThreadInv, OutInv, Good, Mem, Index
<1> QED  BY <1>1, <1>2, <1>3, <1>4, <1>5, <1>6 DEF IInv

LEMMA LeaveStep ==
  ASSUME IInv, NEW t \in Threads, Leave(t)
  PROVE  IInv'
<1> USE DEF Leave, Goto
<1>1. TypeOK'
  BY DEF IInv, TypeOK, BlockTypeOK, CacheTypeOK, Outside, Codes, blockVars, cacheVars
<1>2. MutualExclusion'
  BY HandleAssumption DEF IInv, TypeOK, MutualExclusion, Inside
<1>3. BlockCacheValid'
  BY BlockUntouched DEF IInv, Extracting
<1>4. StoreInv'
  BY StoreUntouched, OpenInside DEF IInv
<1>5. ASSUME NEW u \in Threads \ {t}  PROVE ThreadInv(u)'
  BY BystanderKeeps DEF IInv, TypeOK
<1>6. ThreadInv(t)'
  BY DEF IInv, TypeOK, ThreadInv, DecodeInv, LookupInv, OutInv, Mem, Index, Good
<1> QED  BY <1>1, <1>2, <1>3, <1>4, <1>5, <1>6 DEF IInv
(* While a file is written, its cache entry holds the bytes asked for.      *)
LEMMA EntryIsContent ==
  ASSUME IInv, NEW t \in Threads, pc[t] \in {"create", "write"}
  PROVE  Good(t) /\ ~Mem(t) /\ EntryData(t) = Content[Index(t)]
<1>1. /\ ~Mem(t) /\ entry[t] \in Slots /\ cache[entry[t]].index = Index(t)
      /\ req[t] \in Request
  BY DEF IInv, ThreadInv, LookupInv
<1>2. Index(t) # FreeIndex  BY <1>1, CacheAssumption DEF Request, Index
<1> QED  BY <1>1, <1>2 DEF IInv, StoreInv, CacheValid, Good, EntryData

LEMMA CreateFileStep ==
  ASSUME IInv, NEW t \in Threads, CreateFile(t)
  PROVE  IInv'
<1> USE DEF CreateFile, Goto
<1>1. Good(t) /\ ~Mem(t) /\ EntryData(t) = Content[Index(t)]  BY EntryIsContent
<1>2. Content[Index(t)] \in Seq(Byte)  BY <1>1, EntryFacts DEF Good
<1>3. Len(EntryData(t)) \in Nat  BY <1>1, <1>2, LenProperties
<1>4. TypeOK'
  <2>1. << >> \in Buffer  BY DEF Buffer
  <2>2. BlockTypeOK' /\ CacheTypeOK'
    BY DEF IInv, TypeOK, BlockTypeOK, CacheTypeOK, blockVars, cacheVars
  <2> QED  BY <2>1, <2>2, <1>3 DEF IInv, TypeOK, Inside
<1>5. MutualExclusion'  BY StayInside DEF IInv, Inside
<1>6. BlockCacheValid'  BY BlockUntouched DEF IInv, Extracting
<1>7. StoreInv'  BY StoreUntouched, OpenInside DEF IInv
<1>8. ASSUME NEW u \in Threads \ {t}  PROVE ThreadInv(u)'
  BY BystanderKeeps DEF IInv, TypeOK
<1>9. ThreadInv(t)'
  <2>1. DecodeInv(t)' /\ LookupInv(t)'
    BY DEF IInv, TypeOK, ThreadInv, DecodeInv, LookupInv, Mem, Index, cacheVars
  <2>2. remaining'[t] = Len(Content[Index(t)]) /\ out'[t] = << >>
    BY <1>1 DEF IInv, TypeOK
  <2>3. SubSeq(Content[Index(t)], 1, 0) = << >>  BY <1>2, SubSeqEmpty
  <2>4. OutInv(t)'
    BY <2>2, <2>3, <1>1, <1>3 DEF IInv, TypeOK, OutInv, Index
  <2> QED  BY <2>1, <2>4 DEF ThreadInv
<1> QED  BY <1>4, <1>5, <1>6, <1>7, <1>8, <1>9 DEF IInv

(* Writing another piece extends the prefix already written.                *)
LEMMA WriteFileStep ==
  ASSUME IInv, NEW t \in Threads, WriteFile(t)
  PROVE  IInv'
<1> USE DEF WriteFile, Goto
<1>1. Good(t) /\ EntryData(t) = Content[Index(t)]  BY EntryIsContent
<1> DEFINE c == Content[Index(t)]
<1>2. c \in Seq(Byte) /\ c \in Buffer  BY <1>1, EntryFacts DEF Good
<1>3. Len(c) \in Nat /\ remaining[t] \in Nat /\ remaining[t] <= Len(c)
  BY <1>2, LenProperties DEF IInv, TypeOK, ThreadInv, OutInv
<1> DEFINE done == Len(c) - remaining[t]
<1>4. PICK k \in 0 .. remaining[t] :
        /\ out' = [out EXCEPT ![t] = out[t] \o SubSeq(c, done + 1, done + k)]
        /\ remaining' = [remaining EXCEPT ![t] = remaining[t] - k]
  BY <1>1
<1>5. done \in 0 .. Len(c) /\ done + k \in done .. Len(c)
  BY <1>3
<1>6. out[t] = SubSeq(c, 1, done)  BY DEF IInv, ThreadInv, OutInv
<1> HIDE DEF c, done
<1>7. out[t] \o SubSeq(c, done + 1, done + k) = SubSeq(c, 1, done + k)
  <2>1. 1 \in 1 .. Len(c) + 1 /\ done \in 1 - 1 .. Len(c) /\ done + k \in done .. Len(c)
    BY <1>3, <1>5
  <2>2. SubSeq(c, 1, done) \o SubSeq(c, done + 1, done + k) = SubSeq(c, 1, done + k)
    BY <2>1, <1>2, ConcatAdjacentSubSeq
  <2> QED  BY <2>2, <1>6
<1>8. out' = [out EXCEPT ![t] = SubSeq(c, 1, done + k)]  BY <1>4, <1>7
<1>9. SubSeq(c, 1, done + k) \in Buffer
  <2>1. done + k \in Int /\ \A j \in 1 .. done + k : j \in 1 .. Len(c)
    BY <1>3, <1>5
  <2>2. \A j \in 1 .. done + k : c[j] \in Byte \cup {BadByte}
    BY <1>2, <2>1, ElementOfSeq DEF Buffer
  <2> QED  BY <2>1, <2>2, SubSeqProperties DEF Buffer
<1>10. remaining[t] - k \in Nat /\ remaining[t] - k <= Len(c)
       /\ Len(c) - (remaining[t] - k) = done + k
  BY <1>3 DEF done
<1>11. TypeOK'
  <2>1. BlockTypeOK' /\ CacheTypeOK'
    BY DEF IInv, TypeOK, BlockTypeOK, CacheTypeOK, blockVars, cacheVars
  <2>2. out' \in [Threads -> Buffer \cup {Untouched}]
    BY <1>8, <1>9 DEF IInv, TypeOK
  <2>3. remaining' \in [Threads -> Nat]
    BY <1>4, <1>10 DEF IInv, TypeOK
  <2> QED  BY <2>1, <2>2, <2>3 DEF IInv, TypeOK, Inside
<1>12. MutualExclusion'  BY StayInside DEF IInv, Inside
<1>13. BlockCacheValid'  BY BlockUntouched DEF IInv, Extracting
<1>14. StoreInv'  BY StoreUntouched, OpenInside DEF IInv
<1>15. ASSUME NEW u \in Threads \ {t}  PROVE ThreadInv(u)'
  BY BystanderKeeps, <1>4, <1>8 DEF IInv, TypeOK
<1>16. ThreadInv(t)'
  <2>1. DecodeInv(t)' /\ LookupInv(t)'
    BY DEF IInv, TypeOK, ThreadInv, DecodeInv, LookupInv, Mem, Index, cacheVars
  <2>2. remaining'[t] = remaining[t] - k /\ out'[t] = SubSeq(c, 1, done + k)
    BY <1>4, <1>8 DEF IInv, TypeOK
  <2>3. OutInv(t)'
    BY <2>2, <1>10 DEF IInv, TypeOK, OutInv, Index, c
  <2> QED  BY <2>1, <2>3 DEF ThreadInv
<1> QED  BY <1>11, <1>12, <1>13, <1>14, <1>15, <1>16 DEF IInv

-----------------------------------------------------------------------------
(* A cache hit renews a stamp and nothing else.                             *)
LEMMA HitStore ==
  ASSUME TypeOK, StoreInv, NEW i \in Indices, CacheHit(i),
         UNCHANGED <<blockVars, buf, open>>, open
  PROVE  /\ StoreInv'
         /\ CacheTypeOK'
         /\ First(SlotsOf(i)) \in Slots
         /\ cache[First(SlotsOf(i))].index = i
         /\ cache'[First(SlotsOf(i))].index = i
<1>1. PICK s \in Slots :
        /\ s = First(SlotsOf(i))
        /\ cache[s].index = i
        /\ cache'[s] = [index |-> i, data |-> cache[s].data, lruSeq |-> lruSeqGen]
        /\ \A r \in Slots \ {s} : cache'[r] = cache[r]
  BY HitEffect DEF TypeOK
<1>2. \A r \in Slots : cache'[r].index = cache[r].index /\ cache'[r].data = cache[r].data
  BY <1>1
<1>3. NoDuplicates' /\ CacheTypeOK'
  BY HitKeeps DEF TypeOK, StoreInv
<1>4. CacheValid'  BY <1>2 DEF StoreInv, CacheValid, blockVars
<1>5. OwnedOnce'
  BY <1>2 DEF StoreInv, OwnedOnce, NoDangling, NoAlias, NoLeak, Live, blockVars
<1>6. ClosedInv'  BY DEF ClosedInv
<1> QED  BY <1>1, <1>3, <1>4, <1>5, <1>6 DEF StoreInv

LEMMA FindHitMemStep ==
  ASSUME IInv, NEW t \in Threads, FindHitMem(t)
  PROVE  IInv'
<1> USE DEF FindHitMem, Goto, Return
<1> DEFINE s == First(SlotsOf(Index(t)))
<1>1. Index(t) \in Indices /\ Index(t) # FreeIndex
  BY CacheAssumption DEF IInv, ThreadInv, LookupInv, Index, Request
<1>2. open  BY OpenInside
<1>3. StoreInv' /\ CacheTypeOK' /\ s \in Slots /\ cache[s].index = Index(t)
  BY <1>1, <1>2, HitStore DEF IInv
<1>4. Good(t) /\ heap[cache[s].data] = Content[Index(t)]
  BY <1>1, <1>3 DEF IInv, StoreInv, CacheValid, Good
<1>5. out' = [out EXCEPT ![t] = Content[Index(t)]]  BY <1>4
<1>6. Content[Index(t)] \in Buffer  BY <1>4, EntryFacts DEF Good
<1> HIDE DEF s
<1>7. TypeOK'
  BY <1>3, <1>5, <1>6 DEF IInv, TypeOK, BlockTypeOK, Inside, Codes, blockVars
<1>8. MutualExclusion'  BY StayInside DEF IInv, Inside
<1>9. BlockCacheValid'  BY BlockUntouched DEF IInv, Extracting
<1>10. ASSUME NEW u \in Threads \ {t}  PROVE ThreadInv(u)'
  BY OutsiderKeeps, <1>5 DEF IInv, TypeOK, Inside
<1>11. ThreadInv(t)'
  BY <1>4, <1>5
  DEF IInv, TypeOK, ThreadInv, DecodeInv, LookupInv, OutInv, Mem, Index, Good
<1> QED  BY <1>3, <1>7, <1>8, <1>9, <1>10, <1>11 DEF IInv

LEMMA FindHitFileStep ==
  ASSUME IInv, NEW t \in Threads, FindHitFile(t)
  PROVE  IInv'
<1> USE DEF FindHitFile, Goto
<1> DEFINE s == First(SlotsOf(Index(t)))
<1>1. Index(t) \in Indices
  BY DEF IInv, ThreadInv, LookupInv, Index, Request
<1>2. open  BY OpenInside
<1>3. StoreInv' /\ CacheTypeOK' /\ s \in Slots /\ cache'[s].index = Index(t)
  BY <1>1, <1>2, HitStore DEF IInv
<1>4. entry' = [entry EXCEPT ![t] = s]  OBVIOUS
<1> HIDE DEF s
<1>5. TypeOK'
  BY <1>3, <1>4 DEF IInv, TypeOK, BlockTypeOK, Inside, Codes, blockVars
<1>6. MutualExclusion'  BY StayInside DEF IInv, Inside
<1>7. BlockCacheValid'  BY BlockUntouched DEF IInv, Extracting
<1>8. ASSUME NEW u \in Threads \ {t}  PROVE ThreadInv(u)'
  BY OutsiderKeeps DEF IInv, TypeOK, Inside
<1>9. ThreadInv(t)'
  BY <1>3, <1>4
  DEF IInv, TypeOK, ThreadInv, DecodeInv, LookupInv, OutInv, Mem, Index, Good
<1> QED  BY <1>3, <1>5, <1>6, <1>7, <1>8, <1>9 DEF IInv
-----------------------------------------------------------------------------
(* The heap.  Only the owner of the critical section holds a buffer.        *)
LEMMA OthersHoldNothing ==
  ASSUME IInv, NEW t \in Threads, pc[t] \in Inside
  PROVE  \A u \in Threads \ {t} : buf[u] = Null
BY DEF IInv, MutualExclusion, ThreadInv, LookupInv, Inside

LEMMA FreedType ==
  ASSUME BlockTypeOK, NEW p
  PROVE  /\ Freed(p) \in [Addr -> Buffer \cup {Free}]
         /\ \A a \in Addr : Freed(p)[a] = IF a = p THEN Free ELSE heap[a]
BY DEF BlockTypeOK, Freed

(* Dropping the solid block: free(outBuffer_) and the cleared fields.       *)
LEMMA DropBlock ==
  ASSUME TypeOK, StoreInv, open, heap' = Freed(outBuffer), outBuffer' = Null,
         blockIndex' = NoFolder, outBufferSize' = 0, UNCHANGED <<cacheVars, buf, open>>
  PROVE  /\ StoreInv' /\ BlockTypeOK' /\ BlockValid'
<1>1. \A a \in Addr : heap'[a] = IF a = outBuffer THEN Free ELSE heap[a]
  BY FreedType DEF TypeOK
<1>2. BlockTypeOK'  BY FreedType DEF TypeOK, BlockTypeOK
<1>3. CacheValid'
  BY <1>1, MemoryAssumption DEF StoreInv, CacheValid, OwnedOnce, NoAlias, cacheVars
<1>4. NoDangling'
  <2>1. \A p \in Addr \cup {Null} : Live(p) /\ (p = outBuffer => p = Null) => Live(p)'
    BY <1>1, MemoryAssumption DEF Live
  <2>2. \A s \in Slots : Live(cache[s].data)'
    BY <2>1 DEF StoreInv, OwnedOnce, NoDangling, NoAlias, cacheVars, TypeOK, CacheTypeOK,
       CacheEntry
  <2>3. \A t \in Threads : Live(buf[t])'
    BY <2>1 DEF StoreInv, OwnedOnce, NoDangling, NoAlias, TypeOK
  <2> QED  BY <2>2, <2>3 DEF NoDangling, Live
<1>5. NoAlias'
  BY DEF StoreInv, OwnedOnce, NoAlias, cacheVars
<1>6. NoLeak'
  BY <1>1 DEF StoreInv, OwnedOnce, NoLeak, cacheVars
<1>7. NoDuplicates' /\ ClosedInv'
  BY DEF StoreInv, NoDuplicates, ClosedInv, cacheVars
<1> QED  BY <1>2, <1>3, <1>4, <1>5, <1>6, <1>7 DEF StoreInv, OwnedOnce, BlockValid

(* Replacing the solid block by a new, still undecoded buffer.              *)
LEMMA NewBlock ==
  ASSUME TypeOK, StoreInv, open, NEW i \in Files, NEW ok \in BOOLEAN, StartBlock(i, ok),
         UNCHANGED <<cacheVars, buf, open>>
  PROVE  /\ StoreInv' /\ BlockTypeOK'
         /\ FolderOf(i) \in Folders
         /\ blockIndex' = FolderOf(i) /\ outBufferSize' = UnpackSize(FolderOf(i))
         /\ ok /\ outBuffer' = Null => UnpackSize(FolderOf(i)) = 0
         /\ ~ok => outBuffer' = Null
<1> DEFINE f == FolderOf(i)
<1>1. f \in Folders  BY EntryFacts DEF StartBlock
<1>2. /\ UnpackSize(f) \in Nat
      /\ Garbage(UnpackSize(f)) \in Buffer /\ Garbage(UnpackSize(f)) # Free
  BY <1>1, BlockFacts
<1>3. NoDuplicates' /\ ClosedInv'
  BY DEF StoreInv, NoDuplicates, ClosedInv, cacheVars
<1>4. CASE heap' = Freed(outBuffer) /\ outBuffer' = Null
  <2>1. \A a \in Addr : heap'[a] = IF a = outBuffer THEN Free ELSE heap[a]
    BY <1>4, FreedType DEF TypeOK
  <2>2. BlockTypeOK'
    BY <1>1, <1>2, <1>4, FreedType DEF TypeOK, BlockTypeOK, StartBlock
  <2>3. CacheValid'
    BY <2>1, MemoryAssumption DEF StoreInv, CacheValid, OwnedOnce, NoAlias, cacheVars
  <2>4. NoDangling'
    <3>1. \A p \in Addr \cup {Null} : Live(p) /\ (p = outBuffer => p = Null) => Live(p)'
      BY <2>1, MemoryAssumption DEF Live
    <3>2. \A s \in Slots : Live(cache[s].data)'
      BY <3>1 DEF StoreInv, OwnedOnce, NoDangling, NoAlias, cacheVars, TypeOK, CacheTypeOK,
         CacheEntry
    <3>3. \A t \in Threads : Live(buf[t])'
      BY <3>1 DEF StoreInv, OwnedOnce, NoDangling, NoAlias, TypeOK
    <3> QED  BY <1>4, <3>2, <3>3 DEF NoDangling, Live
  <2>5. NoAlias'
    BY <1>4 DEF StoreInv, OwnedOnce, NoAlias, cacheVars
  <2>6. NoLeak'
    BY <1>4, <2>1 DEF StoreInv, OwnedOnce, NoLeak, cacheVars
  <2> QED
    BY <1>1, <1>3, <1>4, <2>2, <2>3, <2>4, <2>5, <2>6, MemoryAssumption
    DEF StoreInv, OwnedOnce, StartBlock
<1>5. ASSUME NEW a \in Addr, ok,
             Freed(outBuffer)[a] = Free,
             outBuffer' = a,
             heap' = [Freed(outBuffer) EXCEPT ![a] = Garbage(UnpackSize(f))]
      PROVE  /\ StoreInv' /\ BlockTypeOK' /\ outBuffer' # Null
  <2>1. \A b \in Addr : heap'[b] = IF b = a THEN Garbage(UnpackSize(f))
                                   ELSE IF b = outBuffer THEN Free ELSE heap[b]
    BY <1>5, FreedType DEF TypeOK
  <2>2. BlockTypeOK'
    BY <1>1, <1>2, <1>5, FreedType DEF TypeOK, BlockTypeOK, StartBlock
  <2>3. a = outBuffer \/ heap[a] = Free
    BY <1>5, FreedType DEF TypeOK
  <2>4. \A s \in Slots : cache[s].data # Null => cache[s].data # a
    BY <2>3 DEF StoreInv, OwnedOnce, NoDangling, NoAlias, Live
  <2>5. \A t \in Threads : buf[t] # Null => buf[t] # a
    BY <2>3 DEF StoreInv, OwnedOnce, NoDangling, NoAlias, Live
  <2>6. CacheValid'
    BY <2>1, <2>4, MemoryAssumption
    DEF StoreInv, CacheValid, OwnedOnce, NoAlias, cacheVars, TypeOK, BlockTypeOK
  <2>7. NoDangling'
    BY <1>2, <1>5, <2>1, <2>4, <2>5, MemoryAssumption
    DEF StoreInv, OwnedOnce, NoDangling, NoAlias, Live, cacheVars, TypeOK, BlockTypeOK,
        CacheTypeOK, CacheEntry
  <2>8. NoAlias'
    BY <1>5, <2>4, <2>5 DEF StoreInv, OwnedOnce, NoAlias, cacheVars
  <2>9. NoLeak'
    BY <1>5, <2>1 DEF StoreInv, OwnedOnce, NoLeak, cacheVars
  <2> QED
    BY <1>3, <1>5, <2>2, <2>6, <2>7, <2>8, <2>9, MemoryAssumption DEF StoreInv, OwnedOnce
<1>6. (heap' = Freed(outBuffer) /\ outBuffer' = Null /\ (UnpackSize(f) = 0 \/ ~ok))
      \/ (ok /\ \E a \in Addr :
            /\ Freed(outBuffer)[a] = Free
            /\ outBuffer' = a
            /\ heap' = [Freed(outBuffer) EXCEPT ![a] = Garbage(UnpackSize(f))])
  BY DEF StartBlock
<1>7. blockIndex' = f /\ outBufferSize' = UnpackSize(f)  BY DEF StartBlock
<1> HIDE DEF f
<1>8. CASE heap' = Freed(outBuffer) /\ outBuffer' = Null /\ (UnpackSize(f) = 0 \/ ~ok)
  <2>1. StoreInv' /\ BlockTypeOK'  BY <1>4, <1>8
  <2> QED  BY <1>1, <1>7, <1>8, <2>1 DEF f
<1>9. CASE ok /\ \E a \in Addr :
                  /\ Freed(outBuffer)[a] = Free
                  /\ outBuffer' = a
                  /\ heap' = [Freed(outBuffer) EXCEPT ![a] = Garbage(UnpackSize(f))]
  BY <1>1, <1>5, <1>7, <1>9 DEF f
<1> QED  BY <1>6, <1>8, <1>9
-----------------------------------------------------------------------------
(* The extraction.  ExtractNothing, BlockHit, BlockTooLarge and the two     *)
(* outcomes of StartBlock, one after the other.                             *)
LEMMA ExtractStep ==
  ASSUME IInv, NEW t \in Threads, Extract(t)
  PROVE  IInv'
<1> USE DEF Goto
<1> DEFINE i == Index(t)
           f == FolderOf(i)
<1>1. i \in Files /\ pc[t] = "extract" /\ UNCHANGED <<cacheVars, open, cs, req, buf,
                                                   entry, remaining, out, reply>>
  BY DEF Extract
<1>2. open  BY <1>1, OpenInside
<1>3. PICK q \in {"slice", "decode", "fail"} : pc' = [pc EXCEPT ![t] = q]
  BY DEF Extract
<1>4. MutualExclusion'  BY <1>1, <1>3, StayInside DEF IInv, Inside
<1>5. ASSUME NEW u \in Threads \ {t}  PROVE ThreadInv(u)'
  BY <1>1, <1>3, OutsiderKeeps DEF IInv, TypeOK, Inside
<1>6. Extracting(t)'  BY <1>3 DEF Extracting, IInv, TypeOK
<1>7. BlockCacheValid'  BY <1>6 DEF BlockCacheValid
<1>8. ASSUME BlockTypeOK'  PROVE TypeOK'
  BY <1>1, <1>3, <1>8 DEF IInv, TypeOK, CacheTypeOK, Inside, cacheVars
<1>9. LookupInv(t)' /\ OutInv(t)'
  BY <1>1, <1>3
  DEF IInv, TypeOK, ThreadInv, LookupInv, OutInv, Mem, Index, CacheMiss, SlotsOf, cacheVars
<1>10. BlockValid
  BY <1>1 DEF IInv, BlockCacheValid, Extracting, MutualExclusion, Inside
<1>11. ASSUME StoreInv', BlockTypeOK', DecodeInv(t)'  PROVE IInv'
  BY <1>4, <1>5, <1>7, <1>8, <1>9, <1>11 DEF IInv, ThreadInv
<1>12. pc'[t] = q /\ Index(t)' = i  BY <1>1, <1>3 DEF IInv, TypeOK, Index
<1>13. CASE pc'[t] = "slice" /\ ExtractNothing(i)
  <2>1. StoreInv' /\ BlockTypeOK'
    BY <1>1, <1>2, <1>13, DropBlock DEF ExtractNothing, IInv
  <2>2. DecodeInv(t)'
    BY <1>12, <1>13 DEF ExtractNothing, DecodeInv, FolderOf
  <2> QED  BY <1>11, <2>1, <2>2
<1>14. ASSUME UNCHANGED blockVars  PROVE StoreInv' /\ BlockTypeOK'
  BY <1>1, <1>2, <1>14, StoreUntouched DEF IInv, TypeOK, BlockTypeOK, blockVars
<1>15. CASE pc'[t] = "slice" /\ BlockHit(i)
  <2>1. f # NoFolder /\ blockIndex = f /\ outBuffer # Null /\ UNCHANGED blockVars
    BY <1>15 DEF BlockHit, BlockCached
  <2>2. DecodeInv(t)'
    BY <1>10, <1>12, <1>15, <2>1 DEF DecodeInv, BlockValid, BlockData, blockVars
  <2> QED  BY <1>11, <1>14, <2>1, <2>2
<1>16. CASE pc'[t] = "fail" /\ BlockTooLarge(i)
  <2>1. DecodeInv(t)'  BY <1>16 DEF DecodeInv
  <2> QED  BY <1>11, <1>14, <1>16, <2>1 DEF BlockTooLarge
<1>17. CASE pc'[t] = "decode" /\ StartBlock(i, TRUE)
  <2>1. /\ StoreInv' /\ BlockTypeOK' /\ f \in Folders
        /\ blockIndex' = f /\ outBufferSize' = UnpackSize(f)
        /\ outBuffer' = Null => UnpackSize(f) = 0
    BY <1>1, <1>2, <1>17, NewBlock DEF IInv
  <2>2. DecodeInv(t)'
    BY <1>12, <1>17, <2>1 DEF DecodeInv
  <2> QED  BY <1>11, <2>1, <2>2
<1>18. CASE pc'[t] = "fail" /\ StartBlock(i, FALSE)
  <2>1. StoreInv' /\ BlockTypeOK'
    BY <1>1, <1>2, <1>18, NewBlock DEF IInv
  <2>2. DecodeInv(t)'  BY <1>18 DEF DecodeInv
  <2> QED  BY <1>11, <2>1, <2>2
<1> QED
  BY <1>13, <1>15, <1>16, <1>17, <1>18 DEF Extract, IInv, TypeOK

(* A step that overwrites one allocated buffer which is not an entry of the *)
(* cache disturbs no one else.                                              *)
LEMMA Overwrite ==
  ASSUME TypeOK, StoreInv, NEW a \in Addr, NEW b \in Buffer,
         heap[a] # Free, \A s \in Slots : cache[s].data # a,
         heap' = [heap EXCEPT ![a] = b],
         UNCHANGED <<blockIndex, outBuffer, outBufferSize, cacheVars, buf, open>>,
         open
  PROVE  StoreInv' /\ BlockTypeOK'
<1>1. b # Free  BY BlockAssumption
<1>2. \A p \in Addr : heap'[p] = IF p = a THEN b ELSE heap[p]
  BY DEF TypeOK, BlockTypeOK
<1>3. BlockTypeOK'  BY DEF TypeOK, BlockTypeOK
<1>4. CacheValid'  BY <1>2 DEF StoreInv, CacheValid, cacheVars
<1>5. NoDangling'
  <2>1. \A p \in Addr \cup {Null} : Live(p) => Live(p)'
    BY <1>1, <1>2, MemoryAssumption DEF Live
  <2> QED
    BY <2>1 DEF StoreInv, OwnedOnce, NoDangling, cacheVars, TypeOK, CacheTypeOK, CacheEntry,
       BlockTypeOK
<1>6. NoAlias'  BY DEF StoreInv, OwnedOnce, NoAlias, cacheVars
<1>7. NoLeak'  BY <1>1, <1>2 DEF StoreInv, OwnedOnce, NoLeak, cacheVars
<1>8. NoDuplicates' /\ ClosedInv'  BY DEF StoreInv, NoDuplicates, ClosedInv, cacheVars
<1> QED  BY <1>3, <1>4, <1>5, <1>6, <1>7, <1>8 DEF StoreInv, OwnedOnce

LEMMA DecodeStep ==
  ASSUME IInv, NEW t \in Threads, Decode(t)
  PROVE  IInv'
<1> USE DEF Goto
<1> DEFINE i == Index(t)
           f == FolderOf(i)
<1>1. pc[t] = "decode" /\ UNCHANGED <<cacheVars, open, cs, req, buf,
                                   entry, remaining, out, reply>>
  BY DEF Decode
<1>2. open  BY <1>1, OpenInside
<1>3. PICK q \in {"slice", "fail"} :
        pc' = [pc EXCEPT ![t] = q] /\ DecodeFolder(f, q = "slice")
  <2>1. CASE pc' = [pc EXCEPT ![t] = "slice"] /\ DecodeFolder(f, TRUE)
    <3>1. TRUE = ("slice" = "slice")  OBVIOUS
    <3> QED  BY <2>1, <3>1
  <2>2. CASE pc' = [pc EXCEPT ![t] = "fail"] /\ DecodeFolder(f, FALSE)
    <3>1. FALSE = ("fail" = "slice")  OBVIOUS
    <3> QED  BY <2>2, <3>1
  <2> QED  BY <2>1, <2>2 DEF Decode
<1>4. MutualExclusion'  BY <1>1, <1>3, StayInside DEF IInv, Inside
<1>5. ASSUME NEW u \in Threads \ {t}  PROVE ThreadInv(u)'
  BY <1>1, <1>3, OutsiderKeeps DEF IInv, TypeOK, Inside
<1>6. pc'[t] = q /\ Index(t)' = i  BY <1>1, <1>3 DEF IInv, TypeOK, Index
<1>7. BlockCacheValid'  BY <1>6 DEF BlockCacheValid, Extracting
<1>8. LookupInv(t)' /\ OutInv(t)'
  BY <1>1, <1>3
  DEF IInv, TypeOK, ThreadInv, LookupInv, OutInv, Mem, Index, CacheMiss, SlotsOf, cacheVars
<1>9. /\ f \in Folders /\ blockIndex = f /\ outBufferSize = UnpackSize(f)
      /\ outBuffer = Null => UnpackSize(f) = 0
      /\ f # NoFolder
  BY <1>1, DbAssumption DEF IInv, ThreadInv, DecodeInv
<1>10. Block[f] \in Buffer /\ Garbage(UnpackSize(f)) \in Buffer  BY <1>9, BlockFacts
<1>11. UNCHANGED <<blockIndex, outBuffer, outBufferSize>>  BY <1>3 DEF DecodeFolder
<1>12. StoreInv' /\ BlockTypeOK'
  <2>1. CASE outBuffer = Null
    BY <1>1, <1>2, <1>3, <2>1, StoreUntouched
    DEF DecodeFolder, IInv, TypeOK, BlockTypeOK, blockVars
  <2>2. CASE outBuffer # Null
    <3>1. PICK b \in Buffer : heap' = [heap EXCEPT ![outBuffer] = b]
      BY <1>3, <1>10, <2>2 DEF DecodeFolder
    <3>2. outBuffer \in Addr /\ heap[outBuffer] # Free
          /\ \A s \in Slots : cache[s].data # outBuffer
      BY <2>2 DEF IInv, TypeOK, BlockTypeOK, StoreInv, OwnedOnce, NoDangling, NoAlias, Live
    <3> QED  BY <1>1, <1>2, <1>11, <3>1, <3>2, Overwrite DEF IInv
  <2> QED  BY <2>1, <2>2
<1>13. DecodeInv(t)'
  <2>1. CASE q = "fail"  BY <1>6, <2>1 DEF DecodeInv
  <2>2. CASE q = "slice"
    <3>1. CASE outBuffer = Null
      <4>1. Block[f] = << >>
        BY <1>9, <3>1, DbAssumption, EmptySeq DEF UnpackSize
      <4> QED  BY <1>6, <1>9, <1>11, <2>2, <3>1, <4>1 DEF DecodeInv, BlockData
    <3>2. CASE outBuffer # Null
      <4>1. heap'[outBuffer] = Block[f]
        BY <1>3, <2>2, <3>2 DEF DecodeFolder, IInv, TypeOK, BlockTypeOK
      <4> QED  BY <1>6, <1>9, <1>11, <2>2, <3>2, <4>1 DEF DecodeInv, BlockData
    <3> QED  BY <3>1, <3>2
  <2> QED  BY <2>1, <2>2
<1>14. TypeOK'
  BY <1>1, <1>3, <1>12 DEF IInv, TypeOK, CacheTypeOK, Inside, cacheVars
<1> QED  BY <1>4, <1>5, <1>7, <1>8, <1>12, <1>13, <1>14 DEF IInv, ThreadInv
(* The bytes cut out of the block are the entry, CRC or not.                *)
LEMMA SliceIsContent ==
  ASSUME IInv, NEW t \in Threads, pc[t] = "slice", SliceOK(Index(t))
  PROVE  Good(t) /\ FileBytes(Index(t)) = Content[Index(t)]
<1> DEFINE i == Index(t)
           f == FolderOf(i)
<1>1. i \in Files  BY DEF IInv, ThreadInv, LookupInv
<1>2. CASE f = NoFolder
  <2>1. FileBytes(i) = Content[i]  BY <1>1, <1>2, EntryFacts DEF FileBytes
  <2>2. i \notin Damaged  BY <1>2, DbAssumption DEF FolderOf
  <2> QED  BY <1>1, <2>1, <2>2 DEF Good
<1>3. CASE f # NoFolder
  <2>1. BlockData = Block[f]  BY <1>3 DEF IInv, ThreadInv, DecodeInv
  <2>2. FileBytes(i) = Content[i]
    BY <1>1, <1>3, <2>1, EntryFacts DEF FileBytes
  <2>3. i \notin Damaged  BY <1>3, DbAssumption DEF SliceOK, CrcPasses
  <2> QED  BY <1>1, <2>2, <2>3 DEF Good
<1> QED  BY <1>2, <1>3

LEMMA SliceStep ==
  ASSUME IInv, NEW t \in Threads, Slice(t)
  PROVE  IInv'
<1> USE DEF Slice, Goto
<1> DEFINE i == Index(t)
<1>1. Good(t) /\ FileBytes(i) = Content[i]  BY SliceIsContent
<1>2. Content[i] \in Buffer  BY <1>1, EntryFacts DEF Good
<1>3. open  BY OpenInside
<1>4. MutualExclusion'  BY StayInside DEF IInv, Inside
<1>5. UNCHANGED <<blockIndex, outBuffer, outBufferSize, cacheVars, open, buf>>
  OBVIOUS
<1>6. \A u \in Threads \ {t} : out'[u] = out[u]  BY DEF IInv, TypeOK
<1>7. ASSUME NEW u \in Threads \ {t}  PROVE ThreadInv(u)'
  BY <1>6, OutsiderKeeps DEF IInv, TypeOK, Inside
<1>8. ASSUME ~Mem(t)  PROVE StoreInv' /\ BlockTypeOK'
  <2>1. buf[t] # Null /\ buf[t] \in Addr  BY <1>8 DEF IInv, ThreadInv, LookupInv, TypeOK
  <2>2. heap' = [heap EXCEPT ![buf[t]] = Content[i]] /\ out' = out  BY <1>1, <1>8
  <2>3. heap[buf[t]] # Free /\ (\A s \in Slots : cache[s].data # buf[t]) /\ outBuffer # buf[t]
    BY <2>1 DEF IInv, StoreInv, OwnedOnce, NoDangling, NoAlias, Live
  <2>4. StoreInv' /\ BlockTypeOK'
    BY <1>2, <1>3, <2>1, <2>2, <2>3, Overwrite DEF IInv
  <2> QED  BY <2>4
<1>9. ASSUME Mem(t)  PROVE StoreInv' /\ BlockTypeOK'
  <2>1. heap' = heap  BY <1>9
  <2> QED
    BY <1>3, <1>5, <2>1, StoreUntouched DEF IInv, TypeOK, BlockTypeOK, blockVars
<1>10. StoreInv' /\ BlockTypeOK'  BY <1>8, <1>9
<1>11. out' \in [Threads -> Buffer \cup {Untouched}]
  BY <1>1, <1>2 DEF IInv, TypeOK
<1>12. TypeOK'
  BY <1>10, <1>11 DEF IInv, TypeOK, CacheTypeOK, Inside, cacheVars
<1>13. BlockCacheValid'
  <2> SUFFICES ASSUME outBuffer # Null PROVE BlockValid'
    BY DEF BlockCacheValid, BlockValid
  <2>1. heap'[outBuffer] = heap[outBuffer]
    <3>1. buf[t] # outBuffer  BY DEF IInv, StoreInv, OwnedOnce, NoAlias
    <3> QED  BY <3>1 DEF IInv, TypeOK, BlockTypeOK
  <2>2. CASE FolderOf(i) = NoFolder
    BY <2>2 DEF IInv, ThreadInv, DecodeInv
  <2>3. CASE FolderOf(i) # NoFolder
    BY <2>1, <2>3 DEF IInv, ThreadInv, DecodeInv, BlockValid, BlockData
  <2> QED  BY <2>2, <2>3
<1>14. ThreadInv(t)'
  <2>1. pc'[t] = "insert" /\ Index(t)' = i /\ (Mem(t)' <=> Mem(t))
    BY DEF IInv, TypeOK, Index, Mem
  <2>2. DecodeInv(t)'  BY <2>1 DEF DecodeInv
  <2>3. LookupInv(t)'
    BY <2>1 DEF IInv, ThreadInv, LookupInv, CacheMiss, SlotsOf, cacheVars
  <2>4. OutInv(t)'
    <3>1. CASE Mem(t)
      BY <1>1, <2>1, <3>1 DEF IInv, TypeOK, OutInv, Good
    <3>2. CASE ~Mem(t)
      <4>1. out'[t] = Untouched
        BY <3>2 DEF IInv, ThreadInv, OutInv
      <4>2. heap'[buf[t]] = Content[i]
        BY <1>1, <3>2 DEF IInv, TypeOK, BlockTypeOK, ThreadInv, LookupInv
      <4> QED  BY <1>1, <2>1, <3>2, <4>1, <4>2 DEF OutInv, Good
    <3> QED  BY <3>1, <3>2
  <2> QED  BY <2>2, <2>3, <2>4 DEF ThreadInv
<1> QED  BY <1>4, <1>7, <1>10, <1>12, <1>13, <1>14 DEF IInv

LEMMA FailStep ==
  ASSUME IInv, NEW t \in Threads, Fail(t)
  PROVE  IInv'
<1> USE DEF Fail, Goto, FailAndReset
<1>1. StoreInv' /\ BlockTypeOK' /\ BlockValid'
  BY OpenInside, DropBlock DEF IInv
<1>2. TypeOK'
  BY <1>1 DEF IInv, TypeOK, CacheTypeOK, Inside, cacheVars
<1>3. MutualExclusion'  BY StayInside DEF IInv, Inside
<1>4. BlockCacheValid'  BY <1>1 DEF BlockCacheValid
<1>5. ASSUME NEW u \in Threads \ {t}  PROVE ThreadInv(u)'
  BY OutsiderKeeps DEF IInv, TypeOK, Inside
<1>6. ThreadInv(t)'
  BY DEF IInv, TypeOK, ThreadInv, DecodeInv, LookupInv, OutInv, Mem, Index
<1> QED  BY <1>1, <1>2, <1>3, <1>4, <1>5, <1>6 DEF IInv
LEMMA GiveUpStep ==
  ASSUME IInv, NEW t \in Threads, GiveUp(t)
  PROVE  IInv'
<1> USE DEF GiveUp, Goto, Return
<1> DEFINE a == buf[t]
<1>1. \A p \in Addr : heap'[p] = IF p = a THEN Free ELSE heap[p]
  BY FreedType DEF IInv, TypeOK
<1>2. BlockTypeOK'  BY FreedType DEF IInv, TypeOK, BlockTypeOK
<1>3. open /\ buf'[t] = Null /\ \A u \in Threads \ {t} : buf'[u] = buf[u]
  BY OpenInside DEF IInv, TypeOK
<1>4. \A p \in Addr \cup {Null} : Live(p) /\ (p = a => p = Null) => Live(p)'
  BY <1>1, MemoryAssumption DEF Live
<1>5. StoreInv'
  <2>1. CacheValid'
    BY <1>1, MemoryAssumption DEF IInv, StoreInv, CacheValid, OwnedOnce, NoAlias, cacheVars
  <2>2. NoDangling'
    <3>1. \A s \in Slots : Live(cache[s].data)'
      BY <1>4 DEF IInv, StoreInv, OwnedOnce, NoDangling, NoAlias, cacheVars, TypeOK,
         CacheTypeOK, CacheEntry
    <3>2. Live(outBuffer)'
      BY <1>4 DEF IInv, StoreInv, OwnedOnce, NoDangling, NoAlias, TypeOK, BlockTypeOK
    <3>3. ASSUME NEW u \in Threads \ {t}  PROVE Live(buf[u])'
      BY <1>3, <1>4 DEF IInv, StoreInv, OwnedOnce, NoDangling, NoAlias, TypeOK
    <3>4. Live(buf[t])'  BY <1>3 DEF Live
    <3> QED  BY <3>1, <3>2, <3>3, <3>4 DEF NoDangling
  <2>3. NoAlias'  BY <1>3 DEF IInv, StoreInv, OwnedOnce, NoAlias, cacheVars
  <2>4. NoLeak'  BY <1>1, <1>3 DEF IInv, StoreInv, OwnedOnce, NoLeak, cacheVars
  <2>5. NoDuplicates' /\ ClosedInv'
    BY <1>3 DEF IInv, StoreInv, NoDuplicates, ClosedInv, cacheVars
  <2> QED  BY <2>1, <2>2, <2>3, <2>4, <2>5 DEF StoreInv, OwnedOnce
<1>6. TypeOK'
  BY <1>2 DEF IInv, TypeOK, CacheTypeOK, Inside, Codes, cacheVars
<1>7. MutualExclusion'  BY StayInside DEF IInv, Inside
<1>8. BlockCacheValid'
  <2> SUFFICES ASSUME \A u \in Threads : ~Extracting(u)', outBuffer # Null
               PROVE  BlockValid'
    BY DEF BlockCacheValid, BlockValid
  <2>1. \A u \in Threads : ~Extracting(u)  BY DEF IInv, TypeOK, Extracting
  <2>2. heap'[outBuffer] = heap[outBuffer]
    BY <1>1 DEF IInv, StoreInv, OwnedOnce, NoAlias, TypeOK, BlockTypeOK
  <2> QED  BY <2>1, <2>2 DEF IInv, BlockCacheValid, BlockValid
<1>9. ASSUME NEW u \in Threads \ {t}  PROVE ThreadInv(u)'
  BY <1>3, OutsiderKeeps DEF IInv, TypeOK, Inside
<1>10. ThreadInv(t)'
  BY <1>3 DEF IInv, TypeOK, ThreadInv, DecodeInv, LookupInv, OutInv, Mem, Index
<1> QED  BY <1>5, <1>6, <1>7, <1>8, <1>9, <1>10 DEF IInv

LEMMA FindMissFileStep ==
  ASSUME IInv, NEW t \in Threads, FindMissFile(t)
  PROVE  IInv'
<1> USE DEF Goto
<1>1. pc[t] = "find" /\ CacheMiss(Index(t)) /\ ~Mem(t)
      /\ UNCHANGED <<blockIndex, outBuffer, outBufferSize, cacheVars, open, cs, req,
                     entry, remaining, out, reply>>
  BY DEF FindMissFile
<1>2. open /\ buf[t] = Null /\ \A u \in Threads \ {t} : buf[u] = Null
  BY <1>1, OpenInside, OthersHoldNothing DEF IInv, ThreadInv, LookupInv, Inside
<1>3. PICK q \in {"extract", "giveup"} : pc' = [pc EXCEPT ![t] = q]
  BY DEF FindMissFile
<1>4. MutualExclusion'  BY <1>1, <1>3, StayInside DEF IInv, Inside
<1>5. ASSUME heap' = heap, buf' = buf, pc' = [pc EXCEPT ![t] = "giveup"]
      PROVE  IInv'
  <2>1. TypeOK'
    BY <1>1, <1>5
    DEF IInv, TypeOK, BlockTypeOK, CacheTypeOK, Inside, cacheVars
  <2>2. BlockCacheValid'
    BY <1>1, <1>5, BlockUntouched DEF IInv, Extracting, blockVars
  <2>3. StoreInv'
    BY <1>1, <1>2, <1>5, StoreUntouched DEF IInv, blockVars
  <2>4. ASSUME NEW u \in Threads \ {t}  PROVE ThreadInv(u)'
    BY <1>1, <1>5, BystanderKeeps DEF IInv, TypeOK, blockVars
  <2>5. ThreadInv(t)'
    BY <1>1, <1>2, <1>5
    DEF IInv, TypeOK, ThreadInv, DecodeInv, LookupInv, OutInv, Mem, Index
  <2> QED  BY <1>4, <2>1, <2>2, <2>3, <2>4, <2>5 DEF IInv
<1>6. ASSUME NEW a \in Addr, heap[a] = Free, heap' = [heap EXCEPT ![a] = << >>],
             buf' = [buf EXCEPT ![t] = a], pc' = [pc EXCEPT ![t] = "extract"]
      PROVE  IInv'
  <2>1. << >> \in Buffer /\ << >> # Free  BY BlockAssumption, EmptySeq DEF Buffer
  <2>2. /\ \A p \in Addr : heap'[p] = IF p = a THEN << >> ELSE heap[p]
        /\ buf'[t] = a
        /\ \A u \in Threads \ {t} : buf'[u] = Null
    BY <1>2, <1>6 DEF IInv, TypeOK, BlockTypeOK
  <2>3. a # Null /\ a # outBuffer /\ \A s \in Slots : cache[s].data # a
    BY <1>6, MemoryAssumption DEF IInv, StoreInv, OwnedOnce, NoDangling, Live
  <2>4. TypeOK'
    BY <1>1, <1>6, <2>1
    DEF IInv, TypeOK, BlockTypeOK, CacheTypeOK, Inside, cacheVars
  <2>5. CacheValid'
    BY <1>1, <2>2, <2>3 DEF IInv, StoreInv, CacheValid, cacheVars
  <2>6. NoDangling'
    <3>1. \A p \in Addr \cup {Null} : Live(p) => Live(p)'
      BY <2>1, <2>2, MemoryAssumption DEF Live
    <3>2. \A s \in Slots : Live(cache[s].data)'
      BY <1>1, <3>1 DEF IInv, StoreInv, OwnedOnce, NoDangling, cacheVars, TypeOK,
         CacheTypeOK, CacheEntry
    <3>3. Live(outBuffer)'
      BY <1>1, <3>1 DEF IInv, StoreInv, OwnedOnce, NoDangling, TypeOK, BlockTypeOK
    <3>4. \A u \in Threads : Live(buf[u])'
      BY <2>1, <2>2 DEF Live
    <3> QED  BY <3>2, <3>3, <3>4 DEF NoDangling
  <2>7. NoAlias'
    BY <1>1, <2>2, <2>3 DEF IInv, StoreInv, OwnedOnce, NoAlias, cacheVars
  <2>8. NoLeak'
    <3>1. \A u \in Threads : buf[u] = Null  BY <1>2
    <3>2. \A p \in Addr : p # Null  BY MemoryAssumption
    <3> QED
      BY <1>1, <2>2, <3>1, <3>2 DEF IInv, StoreInv, OwnedOnce, NoLeak, cacheVars
  <2>9. NoDuplicates' /\ ClosedInv'
    BY <1>1, <1>2 DEF IInv, StoreInv, NoDuplicates, ClosedInv, cacheVars
  <2>10. BlockCacheValid'
    <3>1. \A u \in Threads : ~Extracting(u)
      BY <1>1 DEF IInv, MutualExclusion, Extracting, Inside
    <3>2. BlockValid  BY <3>1 DEF IInv, BlockCacheValid
    <3>3. outBuffer # Null => heap'[outBuffer] = heap[outBuffer]
      BY <2>2, <2>3 DEF IInv, TypeOK, BlockTypeOK
    <3> QED  BY <1>1, <3>2, <3>3 DEF BlockCacheValid, BlockValid
  <2>11. ASSUME NEW u \in Threads \ {t}  PROVE ThreadInv(u)'
    <3>1. buf'[u] = buf[u]  BY <1>2, <2>2
    <3> QED  BY <1>1, <1>6, <3>1, OutsiderKeeps DEF IInv, TypeOK, Inside
  <2>12. ThreadInv(t)'
    BY <1>1, <1>6, <2>2, <2>3
    DEF IInv, TypeOK, ThreadInv, DecodeInv, LookupInv, OutInv, Mem, Index, CacheMiss,
        SlotsOf, cacheVars
  <2> QED
    BY <1>4, <2>4, <2>5, <2>6, <2>7, <2>8, <2>9, <2>10, <2>11, <2>12
    DEF IInv, StoreInv, OwnedOnce
<1> QED  BY <1>5, <1>6 DEF FindMissFile
-----------------------------------------------------------------------------
(* cacheInsert takes over a buffer d that holds the entry, and frees what   *)
(* the slot held before.                                                    *)
LEMMA InsertStore ==
  ASSUME IInv, open, open', NEW i \in Files \ Damaged, NEW d \in Addr,
         CacheMiss(i), CacheInsert(i, d),
         \A p \in Addr : heap'[p] = IF p = cache[InsertSlot].data THEN Free
                                    ELSE IF p = d THEN Content[i] ELSE heap[p],
         d # outBuffer, \A s \in Slots : cache[s].data # d,
         \A u \in Threads : buf'[u] = IF buf[u] = d THEN Null ELSE buf[u],
         UNCHANGED outBuffer
  PROVE  /\ StoreInv' /\ CacheTypeOK'
         /\ InsertSlot \in Slots /\ cache'[InsertSlot].index = i
         /\ outBuffer # Null => heap'[outBuffer] = heap[outBuffer]
<1> DEFINE v == InsertSlot
           old == cache[v].data
<1>1. i \in Indices  BY HandleAssumption
<1>2. /\ v \in Slots
      /\ cache'[v] = [index |-> i, data |-> d, lruSeq |-> lruSeqGen]
      /\ \A r \in Slots \ {v} : cache'[r] = cache[r]
  BY <1>1, InsertEffect DEF IInv, TypeOK
<1>3. NoDuplicates' /\ CacheTypeOK'
  BY <1>1, InsertKeeps DEF IInv, TypeOK, StoreInv
<1>4. Content[i] # Free /\ d # Null  BY EntryFacts, MemoryAssumption
<1>5. \A r \in Slots : cache[r].data \in Addr \cup {Null}
  BY DEF IInv, TypeOK, CacheTypeOK, CacheEntry
<1>6. old # d /\ old \in Addr \cup {Null}  BY <1>2, <1>5
<1>7. \A p \in Addr : heap'[p] = IF p = old THEN Free
                                 ELSE IF p = d THEN Content[i] ELSE heap[p]
  OBVIOUS
<1> HIDE DEF v, old
<1>8. cache'[v].index = i /\ cache'[v].data = d  BY <1>2
<1>9. \A r \in Slots \ {v} : cache[r].data = old => old = Null
  BY <1>2 DEF IInv, StoreInv, OwnedOnce, NoAlias, old
<1>10. (outBuffer = old => outBuffer = Null)
       /\ \A u \in Threads : old = buf[u] => buf[u] = Null
  BY <1>2 DEF IInv, StoreInv, OwnedOnce, NoAlias, old
<1>11. CacheValid'
  <2> SUFFICES ASSUME NEW r \in Slots, cache'[r].index # FreeIndex
               PROVE  /\ cache'[r].index \in Files \ Damaged
                      /\ cache'[r].data \in Addr
                      /\ heap'[cache'[r].data] = Content[cache'[r].index]
    BY DEF CacheValid
  <2>1. CASE r = v  BY <1>6, <1>7, <1>8, <2>1
  <2>2. CASE r # v
    <3>1. /\ cache'[r] = cache[r] /\ cache[r].index \in Files \ Damaged
          /\ cache[r].data \in Addr /\ heap[cache[r].data] = Content[cache[r].index]
      BY <1>2, <2>2 DEF IInv, StoreInv, CacheValid
    <3>2. cache[r].data # old  BY <1>9, <2>2, <3>1, MemoryAssumption
    <3> QED  BY <1>7, <3>1, <3>2
  <2> QED  BY <2>1, <2>2
<1>12. \A p \in Addr \cup {Null} : Live(p) /\ (p = old => p = Null) => Live(p)'
  BY <1>4, <1>7, MemoryAssumption DEF Live
<1>13. NoDangling'
  <2>1. ASSUME NEW r \in Slots  PROVE Live(cache[r].data)'
    <3>1. CASE r = v  BY <1>4, <1>6, <1>7, <1>8, <3>1 DEF Live
    <3>2. CASE r # v
      <4>1. Live(cache[r].data) /\ (cache[r].data = old => cache[r].data = Null)
        BY <1>9, <3>2 DEF IInv, StoreInv, OwnedOnce, NoDangling
      <4>2. cache'[r] = cache[r]  BY <1>2, <3>2
      <4> QED  BY <1>5, <1>12, <4>1, <4>2 DEF Live
    <3> QED  BY <3>1, <3>2
  <2>2. Live(outBuffer)'
    <3>1. Live(outBuffer) /\ outBuffer \in Addr \cup {Null}
      BY DEF IInv, StoreInv, OwnedOnce, NoDangling, TypeOK, BlockTypeOK
    <3> QED  BY <1>10, <1>12, <3>1 DEF Live
  <2>3. ASSUME NEW u \in Threads  PROVE Live(buf[u])'
    <3>1. Live(buf[u]) /\ buf[u] \in Addr \cup {Null}
      BY DEF IInv, StoreInv, OwnedOnce, NoDangling, TypeOK
    <3>2. Live(buf[u]) => (buf[u] # Null => heap'[buf[u]] # Free)
      BY <1>10, <1>12, <3>1 DEF Live
    <3> QED  BY <3>1, <3>2 DEF Live
  <2> QED  BY <2>1, <2>2, <2>3 DEF NoDangling
<1>14. NoAlias'
  <2>1. \A r, s \in Slots : r # s /\ cache'[r].data = cache'[s].data => cache'[r].data = Null
    BY <1>2, <1>8 DEF IInv, StoreInv, OwnedOnce, NoAlias
  <2>2. \A s \in Slots : cache'[s].data = outBuffer => outBuffer = Null
    BY <1>2, <1>8 DEF IInv, StoreInv, OwnedOnce, NoAlias
  <2>3. \A s \in Slots, u \in Threads : cache'[s].data = buf'[u] => buf'[u] = Null
    BY <1>2, <1>8 DEF IInv, StoreInv, OwnedOnce, NoAlias
  <2>4. \A u \in Threads : outBuffer = buf'[u] => buf'[u] = Null
    BY DEF IInv, StoreInv, OwnedOnce, NoAlias
  <2>5. \A u, w \in Threads : u # w /\ buf'[u] = buf'[w] => buf'[u] = Null
    BY DEF IInv, StoreInv, OwnedOnce, NoAlias
  <2> QED  BY <2>1, <2>2, <2>3, <2>4, <2>5 DEF NoAlias
<1>15. NoLeak'
  <2> SUFFICES ASSUME NEW p \in Addr, heap'[p] # Free
               PROVE  \/ p = outBuffer
                      \/ \E s \in Slots : p = cache'[s].data
                      \/ \E u \in Threads : p = buf'[u]
    BY DEF NoLeak
  <2>1. CASE p = d  BY <1>2, <1>8, <2>1
  <2>2. CASE p # d
    <3>1. p # old /\ heap[p] # Free  BY <1>7, <2>2
    <3>2. CASE \E s \in Slots : p = cache[s].data
      BY <1>2, <3>1, <3>2 DEF old
    <3>3. CASE \E u \in Threads : p = buf[u]  BY <2>2, <3>3
    <3> QED  BY <3>1, <3>2, <3>3 DEF IInv, StoreInv, OwnedOnce, NoLeak
  <2> QED  BY <2>1, <2>2
<1>16. ClosedInv'  BY DEF ClosedInv
<1>17. outBuffer # Null => heap'[outBuffer] = heap[outBuffer]
  <2>1. outBuffer \in Addr \cup {Null}  BY DEF IInv, TypeOK, BlockTypeOK
  <2> QED  BY <1>7, <1>10, <2>1
<1> QED  BY <1>2, <1>3, <1>8, <1>11, <1>13, <1>14, <1>15, <1>16, <1>17 DEF StoreInv, OwnedOnce, v

(* A cached block stays valid when its buffer and fields do not change.     *)
LEMMA BlockKept ==
  ASSUME TypeOK, BlockCacheValid, NEW t \in Threads, NEW q, ~Extracting(t),
         pc' = [pc EXCEPT ![t] = q], UNCHANGED <<blockIndex, outBuffer, outBufferSize>>,
         outBuffer # Null => heap'[outBuffer] = heap[outBuffer]
  PROVE  BlockCacheValid'
<1> SUFFICES ASSUME \A u \in Threads : ~Extracting(u)'
             PROVE  BlockValid'
  BY DEF BlockCacheValid
<1>1. \A u \in Threads : ~Extracting(u)
  BY DEF Extracting, TypeOK
<1> QED  BY <1>1 DEF BlockCacheValid, BlockValid
LEMMA InsertMemStep ==
  ASSUME IInv, NEW t \in Threads, InsertMem(t)
  PROVE  IInv'
<1> USE DEF Goto, Return
<1> DEFINE i == Index(t)
<1>1. /\ pc[t] = "insert" /\ Mem(t) /\ pc' = [pc EXCEPT ![t] = "leave"]
      /\ reply' = [reply EXCEPT ![t] = "AMPE_OK"]
      /\ UNCHANGED <<blockIndex, outBuffer, outBufferSize, open, cs, req, buf, entry,
                     remaining, out>>
  BY DEF InsertMem
<1>2. open  BY <1>1, OpenInside
<1>3. i \in Files \ Damaged /\ CacheMiss(i) /\ out[t] = Content[i]
  BY <1>1 DEF IInv, ThreadInv, LookupInv, OutInv, Good
<1>4. MutualExclusion'  BY <1>1, StayInside DEF IInv, Inside
<1>5. ASSUME NEW u \in Threads \ {t}  PROVE ThreadInv(u)'
  BY <1>1, OutsiderKeeps DEF IInv, TypeOK, Inside
<1>6. ThreadInv(t)'
  BY <1>1, <1>3
  DEF IInv, TypeOK, ThreadInv, DecodeInv, LookupInv, OutInv, Mem, Index, Good
<1>7. ASSUME StoreInv', CacheTypeOK', heap' \in [Addr -> Buffer \cup {Free}],
             outBuffer # Null => heap'[outBuffer] = heap[outBuffer]
      PROVE  IInv'
  <2>1. TypeOK'
    BY <1>1, <1>7 DEF IInv, TypeOK, BlockTypeOK, Inside, Codes
  <2>2. BlockCacheValid'
    BY <1>1, <1>7, BlockKept DEF IInv, Extracting
  <2> QED  BY <1>4, <1>5, <1>6, <1>7, <2>1, <2>2 DEF IInv
<1>8. CASE UNCHANGED <<heap, cacheVars>>
  <2>1. StoreInv'  BY <1>1, <1>2, <1>8, StoreUntouched DEF IInv, blockVars
  <2>2. CacheTypeOK' /\ heap' \in [Addr -> Buffer \cup {Free}]
    BY <1>8 DEF IInv, TypeOK, BlockTypeOK, CacheTypeOK, cacheVars
  <2> QED  BY <1>7, <1>8, <2>1, <2>2
<1>9. ASSUME NEW a \in Addr, heap[a] = Free,
             heap' = [Freed(cache[InsertSlot].data) EXCEPT ![a] = out[t]],
             CacheInsert(i, a)
      PROVE  IInv'
  <2> DEFINE old == cache[InsertSlot].data
  <2>1. Freed(old) \in [Addr -> Buffer \cup {Free}]
        /\ \A p \in Addr : Freed(old)[p] = IF p = old THEN Free ELSE heap[p]
    BY FreedType DEF IInv, TypeOK
  <2>2. Content[i] \in Buffer  BY <1>3, EntryFacts
  <2>3. a # Null /\ a # outBuffer /\ (\A s \in Slots : cache[s].data # a)
        /\ \A u \in Threads : buf[u] # a
    BY <1>9, MemoryAssumption DEF IInv, StoreInv, OwnedOnce, NoDangling, Live
  <2>4. a # old
    BY <2>3, InsertSlotType DEF IInv, TypeOK
  <2>5. heap' = [Freed(old) EXCEPT ![a] = Content[i]]  BY <1>3, <1>9
  <2>6. heap' \in [Addr -> Buffer \cup {Free}]
        /\ \A p \in Addr : heap'[p] = IF p = old THEN Free
                                      ELSE IF p = a THEN Content[i] ELSE heap[p]
    BY <2>1, <2>2, <2>4, <2>5
  <2>7. StoreInv' /\ CacheTypeOK' /\ (outBuffer # Null => heap'[outBuffer] = heap[outBuffer])
    BY <1>1, <1>2, <1>3, <1>9, <2>3, <2>6, InsertStore
  <2> QED  BY <1>7, <2>6, <2>7
<1> QED  BY <1>8, <1>9 DEF InsertMem

LEMMA InsertFileStep ==
  ASSUME IInv, NEW t \in Threads, InsertFile(t)
  PROVE  IInv'
<1> USE DEF Goto
<1> DEFINE i == Index(t)
           d == buf[t]
           old == cache[InsertSlot].data
<1>1. /\ pc[t] = "insert" /\ ~Mem(t) /\ pc' = [pc EXCEPT ![t] = "create"]
      /\ heap' = Freed(old) /\ CacheInsert(i, d)
      /\ entry' = [entry EXCEPT ![t] = InsertSlot] /\ buf' = [buf EXCEPT ![t] = Null]
      /\ UNCHANGED <<blockIndex, outBuffer, outBufferSize, open, cs, req, remaining,
                     out, reply>>
  BY DEF InsertFile
<1>2. open  BY <1>1, OpenInside
<1>3. i \in Files \ Damaged /\ CacheMiss(i) /\ out[t] = Untouched /\ d # Null
      /\ heap[d] = Content[i]
  BY <1>1 DEF IInv, ThreadInv, LookupInv, OutInv, Good
<1>4. d \in Addr  BY <1>3 DEF IInv, TypeOK
<1>5. MutualExclusion'  BY <1>1, StayInside DEF IInv, Inside
<1>6. /\ Freed(old) \in [Addr -> Buffer \cup {Free}]
      /\ \A p \in Addr : Freed(old)[p] = IF p = old THEN Free ELSE heap[p]
  BY FreedType DEF IInv, TypeOK
<1>7. d # outBuffer /\ (\A s \in Slots : cache[s].data # d)
      /\ \A u \in Threads \ {t} : buf[u] # d
  BY <1>3 DEF IInv, StoreInv, OwnedOnce, NoAlias
<1>8. \A u \in Threads : buf'[u] = IF buf[u] = d THEN Null ELSE buf[u]
  BY <1>1, <1>7 DEF IInv, TypeOK
<1>9. old # d  BY <1>7, InsertSlotType DEF IInv, TypeOK
<1>10. heap' \in [Addr -> Buffer \cup {Free}]
       /\ \A p \in Addr : heap'[p] = IF p = old THEN Free
                                     ELSE IF p = d THEN Content[i] ELSE heap[p]
  BY <1>1, <1>3, <1>6, <1>9
<1>11. /\ StoreInv' /\ CacheTypeOK' /\ InsertSlot \in Slots
       /\ cache'[InsertSlot].index = i
       /\ outBuffer # Null => heap'[outBuffer] = heap[outBuffer]
  <2> HIDE DEF d, i
  <2> QED
    BY <1>1, <1>2, <1>3, <1>4, <1>7, <1>8, <1>10, InsertStore
<1>12. TypeOK'
  BY <1>1, <1>10, <1>11 DEF IInv, TypeOK, BlockTypeOK, Inside
<1>13. BlockCacheValid'  BY <1>1, <1>11, BlockKept DEF IInv, Extracting
<1>14. ASSUME NEW u \in Threads \ {t}  PROVE ThreadInv(u)'
  <2>1. buf'[u] = buf[u]  BY <1>1
  <2> QED  BY <1>1, <2>1, OutsiderKeeps DEF IInv, TypeOK, Inside
<1>15. ThreadInv(t)'
  BY <1>1, <1>3, <1>11
  DEF IInv, TypeOK, ThreadInv, DecodeInv, LookupInv, OutInv, Mem, Index
<1> QED  BY <1>5, <1>11, <1>12, <1>13, <1>14, <1>15 DEF IInv

-----------------------------------------------------------------------------
(* Opening and closing the handle; both clear it.                           *)
LEMMA ClearedHandle ==
  ASSUME IInv, \A t \in Threads : pc[t] \in {"idle", "done"},
         UNCHANGED threadVars,
         heap' \in [Addr -> {Free}], blockIndex' = NoFolder, outBuffer' = Null,
         outBufferSize' = 0, cache' = [s \in Slots |-> EmptyEntry], lruSeqGen' = 0,
         open' \in BOOLEAN
  PROVE  IInv'
<1>1. CacheTypeOK' /\ NoDuplicates'  BY FreshKeeps DEF Reopen
<1>2. TypeOK'
  BY <1>1 DEF IInv, TypeOK, BlockTypeOK, threadVars
<1>3. MutualExclusion'  BY DEF IInv, MutualExclusion, threadVars
<1>4. BlockCacheValid'  BY DEF BlockCacheValid, BlockValid
<1>5. \A t \in Threads : buf[t] = Null
  BY DEF IInv, ThreadInv, LookupInv
<1>6. StoreInv'
  BY <1>1, <1>5, MemoryAssumption
  DEF StoreInv, CacheValid, OwnedOnce, NoDangling, NoAlias, NoLeak, Live, ClosedInv,
      EmptyEntry, threadVars
<1>7. ASSUME NEW t \in Threads  PROVE ThreadInv(t)'
  <2>1. pc'[t] = pc[t] /\ pc[t] \in {"idle", "done"} /\ buf'[t] = Null /\ out'[t] = out[t]
    BY <1>5 DEF threadVars
  <2>2. pc[t] = "idle" => out[t] = Untouched  BY DEF IInv, ThreadInv, OutInv
  <2> QED  BY <2>1, <2>2 DEF ThreadInv, DecodeInv, LookupInv, OutInv
<1> QED  BY <1>2, <1>3, <1>4, <1>6, <1>7 DEF IInv

LEMMA OpenArchiveStep ==
  ASSUME IInv, OpenArchive
  PROVE  IInv'
<1>1. /\ \A t \in Threads : pc[t] \in {"idle", "done"}
      /\ \A s \in Slots : cache[s].data = Null
      /\ outBuffer = Null
  BY DEF OpenArchive, IInv, StoreInv, ClosedInv
<1>2. \A t \in Threads : buf[t] = Null  BY <1>1 DEF IInv, ThreadInv, LookupInv
<1>3. \A a \in Addr : heap[a] = Free
  BY <1>1, <1>2, MemoryAssumption DEF IInv, StoreInv, OwnedOnce, NoLeak
<1>4. heap' \in [Addr -> {Free}]
  BY <1>3 DEF OpenArchive, IInv, TypeOK, BlockTypeOK
<1> QED  BY <1>1, <1>4, ClearedHandle DEF OpenArchive

LEMMA CloseArchiveStep ==
  ASSUME IInv, CloseArchive
  PROVE  IInv'
<1>1. \A t \in Threads : pc[t] \in {"idle", "done"}  BY DEF CloseArchive
<1>2. \A t \in Threads : buf[t] = Null  BY <1>1 DEF IInv, ThreadInv, LookupInv
<1>3. ASSUME NEW a \in Addr
      PROVE  a = outBuffer \/ (\E s \in Slots : cache[s].data = a) \/ heap[a] = Free
  BY <1>2, MemoryAssumption DEF IInv, StoreInv, OwnedOnce, NoLeak
<1>4. heap' \in [Addr -> {Free}]  BY <1>3 DEF CloseArchive
<1> QED  BY <1>1, <1>4, ClearedHandle DEF CloseArchive

LEMMA StutterStep ==
  ASSUME IInv, UNCHANGED vars
  PROVE  IInv'
<1>1. UNCHANGED <<heap, blockIndex, outBuffer, outBufferSize, cache, lruSeqGen, open, cs, pc,
                  req, buf, entry, remaining, out, reply>>
  BY DEF vars, blockVars, cacheVars, threadVars
<1>2. TypeOK'  BY <1>1 DEF IInv, TypeOK, BlockTypeOK, CacheTypeOK
<1>3. MutualExclusion' /\ BlockCacheValid'
  BY <1>1 DEF IInv, MutualExclusion, BlockCacheValid, BlockValid, Extracting
<1>4. StoreInv'
  BY <1>1 DEF IInv, StoreInv, NoDuplicates, CacheValid, OwnedOnce, NoDangling, NoAlias,
     NoLeak, Live, ClosedInv
<1>5. ASSUME NEW t \in Threads  PROVE ThreadInv(t)'
  BY <1>1, BystanderKeeps DEF IInv, blockVars, cacheVars
<1> QED  BY <1>2, <1>3, <1>4, <1>5 DEF IInv

-----------------------------------------------------------------------------
LEMMA InvariantStep ==
  ASSUME IInv, [Next]_vars
  PROVE  IInv'
<1>1. CASE OpenArchive  BY <1>1, OpenArchiveStep
<1>2. CASE CloseArchive  BY <1>2, CloseArchiveStep
<1>3. ASSUME NEW t \in Threads, Work(t)
      PROVE  IInv'
  <2>1. CASE FindHitMem(t) \/ FindHitFile(t) \/ FindMissMem(t) \/ FindMissFile(t)
    BY <2>1, FindHitMemStep, FindHitFileStep, FindMissMemStep, FindMissFileStep
  <2>2. CASE BadIndex(t) \/ Extract(t) \/ Decode(t) \/ Slice(t) \/ SliceFails(t)
    BY <2>2, BadIndexStep, ExtractStep, DecodeStep, SliceStep, SliceFailsStep
  <2>3. CASE Fail(t) \/ GiveUp(t) \/ InsertMem(t) \/ InsertFile(t)
    BY <2>3, FailStep, GiveUpStep, InsertMemStep, InsertFileStep
  <2>4. CASE CreateFile(t) \/ WriteFile(t) \/ WriteFails(t) \/ Written(t) \/ Leave(t)
    BY <2>4, CreateFileStep, WriteFileStep, WriteFailsStep, WrittenStep, LeaveStep
  <2> QED  BY <1>3, <2>1, <2>2, <2>3, <2>4 DEF Work
<1>4. CASE \E t \in Threads : Call(t) \/ RefuseCall(t) \/ Enter(t) \/ Take(t)
  BY <1>4, CallStep, RefuseCallStep, EnterStep, TakeStep
<1> QED  BY <1>1, <1>2, <1>3, <1>4, StutterStep DEF Next

(* Whatever the host's threads do with one handle, whatever fails: the      *)
(* critical section excludes, both caches hold only what they should, and   *)
(* the heap has no leak, no double owner and no dangling pointer.           *)
THEOREM HandleSafety ==
  Spec => [](TypeOK /\ MutualExclusion /\ BlockCacheValid /\ CacheValid /\ NoDuplicates
             /\ OwnedOnce)
<1>1. Init => IInv  BY InitStep
<1>2. IInv /\ [Next]_vars => IInv'  BY InvariantStep
<1>3. IInv => TypeOK /\ MutualExclusion /\ BlockCacheValid /\ CacheValid /\ NoDuplicates
              /\ OwnedOnce
  BY DEF IInv, StoreInv
<1> QED  BY <1>1, <1>2, <1>3, PTL DEF Spec

(* In particular what either cache answers with is what was asked for: the  *)
(* block that SzArEx_Extract keeps is the folder its index names, complete, *)
(* and a slot of the decode cache holds the entry of its index.             *)
THEOREM CachesStayValid == Spec => []CachesValid
<1>1. BlockCacheValid /\ CacheValid => CachesValid  BY DEF CachesValid
<1> QED  BY <1>1, HandleSafety, PTL
-----------------------------------------------------------------------------
(* The refinement.  Every step but the first and the last of a call, and    *)
(* both steps of the handle, are invisible to the host.                     *)
LEMMA Invisible ==
  ASSUME TypeOK, NEW t \in Threads, NEW q \in Inside \cup {"enter"},
         pc[t] \in Inside \cup {"enter"}, pc' = [pc EXCEPT ![t] = q], req' = req,
         \A u \in Threads \ {t} : out'[u] = out[u] /\ reply'[u] = reply[u]
  PROVE  UNCHANGED Service!serviceVars
<1>1. pc[t] \notin {"idle", "done"} /\ q \notin {"idle", "done"}  BY DEF Inside
<1>2. \A u \in Threads : pc'[u] = IF u = t THEN q ELSE pc[u]  BY DEF TypeOK
<1>3. \A u \in Threads : Status(u)' = Status(u)
  BY <1>1, <1>2 DEF Status
<1>4. \A u \in Threads : (IF pc'[u] = "done" THEN reply'[u] ELSE "none")
                         = (IF pc[u] = "done" THEN reply[u] ELSE "none")
  BY <1>1, <1>2
<1>5. \A u \in Threads : (IF pc'[u] = "done" THEN out'[u] ELSE Untouched)
                         = (IF pc[u] = "done" THEN out[u] ELSE Untouched)
  BY <1>1, <1>2
<1> QED  BY <1>3, <1>4, <1>5 DEF Service!serviceVars

LEMMA WorkIsInvisible ==
  ASSUME TypeOK, NEW t \in Threads, Work(t), ~Leave(t)
  PROVE  UNCHANGED Service!serviceVars
<1>1. PICK p \in Inside, q \in Inside :
        /\ Goto(t, p, q) /\ req' = req
        /\ \A u \in Threads \ {t} : out'[u] = out[u] /\ reply'[u] = reply[u]
  <2> USE DEF Inside, Goto, Return, TypeOK
  <2>1. CASE FindHitMem(t) \/ FindHitFile(t) \/ FindMissMem(t) \/ FindMissFile(t)
    BY <2>1 DEF FindHitMem, FindHitFile, FindMissMem, FindMissFile
  <2>2. CASE BadIndex(t) \/ Extract(t) \/ Decode(t)
    BY <2>2 DEF BadIndex, Extract, Decode
  <2>3. CASE Slice(t) \/ SliceFails(t) \/ Fail(t) \/ GiveUp(t)
    BY <2>3 DEF Slice, SliceFails, Fail, GiveUp
  <2>4. CASE InsertMem(t) \/ InsertFile(t)
    BY <2>4 DEF InsertMem, InsertFile
  <2>5. CASE CreateFile(t) \/ WriteFile(t) \/ WriteFails(t) \/ Written(t)
    BY <2>5 DEF CreateFile, WriteFile, WriteFails, Written
  <2> QED  BY <2>1, <2>2, <2>3, <2>4, <2>5 DEF Work
<1> QED  BY <1>1, Invisible DEF Goto

LEMMA CallIsAsk ==
  ASSUME IInv, NEW t \in Threads, Call(t)
  PROVE  Service!ServiceNext
<1> USE DEF Call, Goto, IInv, TypeOK
<1>1. PICK r \in Request : req' = [req EXCEPT ![t] = r]  OBVIOUS
<1>2. r \in Service!Request  BY DEF Request, Modes, Service!Request, Service!Modes
<1>3. Service!Ask(t, r)
  BY <1>1 DEF Service!Ask, Status
<1> QED  BY <1>2, <1>3 DEF Service!ServiceNext

LEMMA RefuseCallIsRefuse ==
  ASSUME IInv, NEW t \in Threads, RefuseCall(t)
  PROVE  Service!ServiceNext
<1> USE DEF RefuseCall, Goto, Return, IInv, TypeOK
<1>1. out[t] = Untouched  BY DEF ThreadInv, OutInv
<1>2. Service!Refuse(t)
  BY <1>1 DEF Service!Refuse, Status
<1> QED  BY <1>2 DEF Service!ServiceNext

LEMMA LeaveIsAnswer ==
  ASSUME IInv, NEW t \in Threads, Leave(t)
  PROVE  Service!ServiceNext
<1> USE DEF Leave, Goto
<1>1. CASE reply[t] = "AMPE_OK" /\ Good(t) /\ out[t] = Content[Index(t)]
  <2>1. Service!AnswerOK(t)
    BY <1>1 DEF IInv, TypeOK, Service!AnswerOK, Service!Deliver, Status, Good, Index
  <2> QED  BY <2>1 DEF Service!ServiceNext
<1>2. CASE reply[t] = "AMPE_Error" /\ out[t] = Untouched
  <2>1. Service!AnswerError(t)
    BY <1>2 DEF IInv, TypeOK, Service!AnswerError, Service!Deliver, Status
  <2> QED  BY <2>1 DEF Service!ServiceNext
<1>3. CASE /\ reply[t] = "AMPE_WriteError" /\ ~Mem(t) /\ Good(t)
           /\ \/ out[t] = Untouched
              \/ \E n \in 0 .. Len(Content[Index(t)]) :
                   out[t] = SubSeq(Content[Index(t)], 1, n)
  <2>1. req[t].mode = "FILE"
    BY <1>3 DEF IInv, ThreadInv, LookupInv, Mem, Request, Modes
  <2>2. PICK b \in Service!Prefixes(Content[Index(t)]) \cup {Untouched} : out[t] = b
    BY <1>3 DEF Service!Prefixes
  <2>3. Service!Deliver(t, "AMPE_WriteError", b)
    BY <1>3, <2>2 DEF IInv, TypeOK, Service!Deliver, Status
  <2>4. Service!AnswerWriteError(t)
    BY <1>3, <2>1, <2>2, <2>3 DEF Service!AnswerWriteError, Good, Index
  <2> QED  BY <2>4 DEF Service!ServiceNext
<1> QED  BY <1>1, <1>2, <1>3 DEF IInv, ThreadInv, OutInv

LEMMA TakeIsTake ==
  ASSUME IInv, NEW t \in Threads, Take(t)
  PROVE  Service!ServiceNext
<1> USE DEF Take, Goto, IInv, TypeOK
<1>1. NoRequest = Service!NoRequest  BY DEF NoRequest, Service!NoRequest
<1>2. Service!Take(t)
  BY <1>1 DEF Service!Take, Status
<1> QED  BY <1>2 DEF Service!ServiceNext

(* FileDecode answers as DecodeService says.                                *)
THEOREM HandleImplementsService == Spec => ImplementsService
<1>1. Init => Service!ServiceInit
  BY DEF Init, Service!ServiceInit, Status, NoRequest, Service!NoRequest
<1>2. ASSUME IInv, [Next]_vars
      PROVE  [Service!ServiceNext]_Service!serviceVars
  <2>1. CASE OpenArchive \/ CloseArchive \/ UNCHANGED vars
    <3>1. pc' = pc /\ req' = req /\ out' = out /\ reply' = reply
      BY <2>1 DEF OpenArchive, CloseArchive, vars, threadVars
    <3> QED  BY <3>1 DEF Service!serviceVars, Status
  <2>2. ASSUME NEW t \in Threads, Work(t)
        PROVE  [Service!ServiceNext]_Service!serviceVars
    BY <1>2, <2>2, WorkIsInvisible, LeaveIsAnswer DEF IInv
  <2>3. ASSUME NEW t \in Threads, Enter(t)
        PROVE  UNCHANGED Service!serviceVars
    BY <1>2, <2>3, Invisible DEF Enter, Goto, IInv, Inside
  <2>4. ASSUME NEW t \in Threads, Call(t) \/ RefuseCall(t) \/ Take(t)
        PROVE  Service!ServiceNext
    BY <1>2, <2>4, CallIsAsk, RefuseCallIsRefuse, TakeIsTake
  <2> QED  BY <1>2, <2>1, <2>2, <2>3, <2>4 DEF Next
<1>3. Spec => []IInv
  <2>1. Init => IInv  BY InitStep
  <2>2. IInv /\ [Next]_vars => IInv'  BY InvariantStep
  <2> QED  BY <2>1, <2>2, PTL DEF Spec
<1> QED  BY <1>1, <1>2, <1>3, PTL DEF Spec, ImplementsService, Service!ServiceSpec
=============================================================================
