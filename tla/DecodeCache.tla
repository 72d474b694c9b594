---------------------------- MODULE DecodeCache ----------------------------
(* The decode cache of struct ArchiveHandle (plugin/7zPlugin.cpp): an array *)
(* of kDecodeCacheSize entries stamped from the 32-bit counter lruSeqGen.   *)
(* ArchiveHandle calls cacheFind and cacheInsert under its lock; here they  *)
(* run alone, one decode after the other.                                   *)
EXTENDS Naturals, FiniteSets

CONSTANTS Indices,           \* archive indices a decode may ask for
          FreeIndex,         \* the (UInt32)-1 that marks an empty slot
          kDecodeCacheSize,  \* number of slots
          SeqMod,            \* 2^32: lruSeqGen is a uint32_t
          MaxSeq,            \* bound: no decode once lruSeqGen has reached it
          Addr,              \* addresses malloc may return
          Null               \* nullptr

(* malloc returns nullptr or an address, never nullptr for a block.         *)
ASSUME MemoryAssumption == Null \notin Addr

ASSUME CacheAssumption ==
  /\ kDecodeCacheSize \in Nat \ {0}
  /\ SeqMod \in Nat \ {0}
  /\ MaxSeq \in Nat
  /\ FreeIndex \notin Indices

VARIABLES cache,      \* CacheEntry cache[kDecodeCacheSize]
          lruSeqGen   \* the next time stamp

cacheVars == <<cache, lruSeqGen>>

Slots == 0 .. kDecodeCacheSize - 1

CacheEntry == [index  : Indices \cup {FreeIndex},
               data   : Addr \cup {Null},
               lruSeq : 0 .. SeqMod - 1]

EmptyEntry == [index |-> FreeIndex, data |-> Null, lruSeq |-> 0]

CacheTypeOK ==
  /\ cache \in [Slots -> CacheEntry]
  /\ lruSeqGen \in 0 .. SeqMod - 1

-----------------------------------------------------------------------------
(* Loops over the array visit the slots in order: the first match wins.     *)
First(S) == CHOOSE s \in S : \A r \in S : s <= r

SlotsOf(i)  == {s \in Slots : cache[s].index = i}
EmptySlots  == SlotsOf(FreeIndex)

(* lruSeqGen++ on a uint32_t. *)
NextSeq == (lruSeqGen + 1) % SeqMod

(* The scan for the victim starts at cache[0] and moves on a strict "<".    *)
Victim ==
  First({s \in Slots : \A r \in Slots : cache[s].lruSeq <= cache[r].lruSeq})

InsertSlot == IF EmptySlots # {} THEN First(EmptySlots) ELSE Victim

(* Slip: a hit that leaves the stamp of the entry alone.                    *)
CacheHitNoTouch(i) ==
  /\ SlotsOf(i) # {}
  /\ lruSeqGen' = NextSeq
  /\ UNCHANGED cache

(* cacheFind(i) that finds an entry: its time stamp is renewed.             *)
CacheHit(i) ==
  /\ SlotsOf(i) # {}
  /\ cache' = [cache EXCEPT ![First(SlotsOf(i))].lruSeq = lruSeqGen]
  /\ lruSeqGen' = NextSeq

(* cacheFind(i) that returns nullptr: nothing changes.                      *)
CacheMiss(i) == SlotsOf(i) = {}

(* cacheInsert(i, d): takes ownership of d.  The data the victim held is    *)
(* freed by ArchiveHandle, which models the heap.                           *)
CacheInsert(i, d) ==
  /\ cache' = [cache EXCEPT ![InsertSlot] =
                  [index |-> i, data |-> d, lruSeq |-> lruSeqGen]]
  /\ lruSeqGen' = NextSeq

(* A handle fresh from OpenArchive.                                         *)
FreshCache == cache = [s \in Slots |-> EmptyEntry] /\ lruSeqGen = 0

-----------------------------------------------------------------------------
CacheInit == FreshCache

(* FileDecode's use of the cache: find, and insert after a miss.            *)
Use(i) ==
  /\ lruSeqGen < MaxSeq
  /\ \/ CacheHit(i)
     \/ CacheMiss(i) /\ \E d \in Addr : CacheInsert(i, d)

Reopen == cache' = [s \in Slots |-> EmptyEntry] /\ lruSeqGen' = 0

CacheNext == Reopen \/ \E i \in Indices : Use(i)

CacheSpec == CacheInit /\ [][CacheNext]_cacheVars

-----------------------------------------------------------------------------
(* No index is cached twice: cacheFind stops at the first entry, so a       *)
(* second one would be dead weight that also distorts the eviction order.   *)
NoDuplicates ==
  \A r, s \in Slots : cache[r].index = cache[s].index /\ r # s
                        => cache[r].index = FreeIndex

CachedIndices == {cache[s].index : s \in Slots} \ {FreeIndex}

(* The stamp order of the entries, as a relation on their indices.          *)
StampOrder ==
  {p \in CachedIndices \X CachedIndices :
     \E r, s \in Slots : /\ cache[r].index = p[1]
                         /\ cache[s].index = p[2]
                         /\ cache[r].lruSeq < cache[s].lruSeq}

Lru == INSTANCE LruPolicy WITH Capacity <- kDecodeCacheSize,
                               cached <- CachedIndices,
                               older <- StampOrder

(* "evicting the least-recently-used entry if the cache is full"            *)
(* (7zPlugin.cpp:69): the slots and stamps implement the LRU policy, and    *)
(* every decode of i, hit or miss, is the policy's decode of i.             *)
LeastRecentlyUsed ==
  /\ Lru!LruSpec
  /\ [][\A i \in Indices : Use(i) => Lru!Decode(i)]_cacheVars

(* The slot the last decode used: no other stamp precedes lruSeqGen.        *)
LastUsed ==
  {s \in Slots : /\ cache[s].index # FreeIndex
                 /\ (cache[s].lruSeq + 1) % SeqMod = lruSeqGen}

(* "evicting the least-recently-used entry if the cache is full": while     *)
(* there are others, the entry of the last decode is not the victim of the  *)
(* next (cacheInsert, 7zPlugin.cpp:74-98).                                  *)
LastUsedStays ==
  [][\A i \in Indices, s \in Slots :
       Use(i) /\ LastUsed = {s} => cache'[s].index = cache[s].index]_cacheVars
=============================================================================
