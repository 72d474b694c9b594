---------------------------- MODULE Plugin_proofs ----------------------------
(* The listing of an archive is exact and stays where it is, for every      *)
(* archive, as long as the host has one GetArchiveInfo at a time in flight; *)
(* the plug-in object is one, and a call's pointer to it a good one; what   *)
(* opening an archive takes is owned and given back; and all of this where  *)
(* the parts are put together.                                              *)
EXTENDS MCPlugin, FiniteSetTheorems, TLAPS

-----------------------------------------------------------------------------
(* The listing                                                              *)

(* The listed entries the loop has passed when its variable is n.           *)
Below(n) == {e \in Listed : e < n}

Elements(s)  == {s[k] : k \in 1 .. Len(s)}
Ascending(s) == \A j, k \in 1 .. Len(s) : j < k => s[j] < s[k]

(* The vector while thread t fills it.                                      *)
Filling(t) ==
  /\ Ascending(files)
  /\ Elements(files) = Below(srcIdx[t])
  /\ Len(files) = Cardinality(Below(srcIdx[t]))

Filled ==
  /\ Ascending(files)
  /\ Elements(files) = Listed
  /\ Len(files) = Cardinality(Listed)

(* Storage is only ever obtained for all files of the archive.              *)
RoomInv == store # NoStore => capacity >= fileCount

OneCall == \A t, u \in Threads : pc[t] \in Busy /\ pc[u] \in Busy => t = u

FillInv ==
  \A t \in Threads :
    /\ pc[t] = "reserve" => files = << >>
    /\ pc[t] = "visit" => Filling(t) /\ capacity >= fileCount

InfoInv ==
  \A t \in Threads : info[t].pFiles # NoStore =>
    /\ info[t].pFiles = store
    /\ info[t].nFiles = Cardinality(Listed)
    /\ Quiet => Filled

ListingInv == TypeOK /\ OneCall /\ RoomInv /\ FillInv /\ InfoInv

-----------------------------------------------------------------------------
(* Cardinalities of sets of entries are numbers.                            *)
LEMMA EntrySets ==
  ASSUME NEW S \in SUBSET Entries
  PROVE  IsFiniteSet(S) /\ Cardinality(S) \in Nat
<1>1. IsFiniteSet(Entries)
  BY FS_Interval, ListingAssumption DEF Entries
<1> QED  BY <1>1, FS_Subset, FS_CardinalityType

LEMMA FileCountType == TypeOK => fileCount \in Nat
BY EntrySets DEF TypeOK, fileCount

(* The next element goes to the end of the vector.                          *)
LEMMA AppendListed ==
  ASSUME TypeOK, NEW t \in Threads, Filling(t), srcIdx[t] \in Listed,
         NEW s, s = Append(files, srcIdx[t])
  PROVE  /\ s \in Seq(Entries)
         /\ Ascending(s)
         /\ Elements(s) = Below(srcIdx[t] + 1)
         /\ Len(s) = Cardinality(Below(srcIdx[t] + 1))
<1> DEFINE i == srcIdx[t]
<1>1. i \in Entries /\ i \in Nat  BY DEF Listed, Entries
<1>2. /\ s \in Seq(Entries)
      /\ Len(s) = Len(files) + 1
      /\ \A k \in 1 .. Len(files) : s[k] = files[k]
      /\ s[Len(files) + 1] = i
      /\ Len(files) \in Nat
  BY <1>1 DEF TypeOK
<1>3. \A k \in 1 .. Len(files) : files[k] \in Below(i)
  BY DEF Filling, Elements
<1>4. \A e \in Below(i) : e < i  BY DEF Below
<1>5. \A k \in 1 .. Len(files) : files[k] \in Nat
  BY <1>3 DEF Below, Listed, Entries
<1>6. Ascending(s)
  <2> SUFFICES ASSUME NEW j \in 1 .. Len(s), NEW k \in 1 .. Len(s), j < k
               PROVE  s[j] < s[k]
    BY DEF Ascending
  <2>1. j \in 1 .. Len(files)  BY <1>2
  <2>2. CASE k \in 1 .. Len(files)  BY <1>2, <2>1, <2>2 DEF Filling, Ascending
  <2>3. CASE k = Len(files) + 1  BY <1>2, <1>3, <1>4, <2>1, <2>3
  <2> QED  BY <1>2, <2>2, <2>3
<1>7. Below(i + 1) = Below(i) \cup {i}
  BY <1>1 DEF Below, Listed, Entries
<1>8. Elements(s) = Elements(files) \cup {i}
  <2>1. \A k \in 1 .. Len(s) : k \in 1 .. Len(files) \/ k = Len(files) + 1
    BY <1>2
  <2>2. Len(files) + 1 \in 1 .. Len(s) /\ 1 .. Len(files) \subseteq 1 .. Len(s)
    BY <1>2
  <2> QED  BY <1>2, <2>1, <2>2 DEF Elements
<1>9. Cardinality(Below(i) \cup {i}) = Cardinality(Below(i)) + 1
  <2>1. Below(i) \in SUBSET Entries /\ i \notin Below(i)
    BY <1>1 DEF Below, Listed
  <2> QED  BY <2>1, EntrySets, FS_AddElement
<1> QED  BY <1>2, <1>6, <1>7, <1>8, <1>9 DEF Filling

LEMMA SkipUnlisted ==
  ASSUME TypeOK, NEW t \in Threads, srcIdx[t] \notin Listed
  PROVE  Below(srcIdx[t] + 1) = Below(srcIdx[t])
BY DEF TypeOK, Below, Listed, Entries

(* A vector that is not filled has room for the next entry.                 *)
LEMMA RoomLeft ==
  ASSUME TypeOK, NEW t \in Threads, Filling(t), capacity >= fileCount,
         srcIdx[t] \in Listed
  PROVE  Len(files) < capacity
<1> DEFINE i == srcIdx[t]
           B == Below(i) \cup {i}
<1>1. i \in Nat  BY DEF Listed, Entries
<1>2. Below(i) \in SUBSET Entries /\ i \notin Below(i)  BY <1>1 DEF Below, Listed
<1>3. B \subseteq Entries \ dirs  BY DEF Below, Listed
<1>4. Cardinality(B) = Cardinality(Below(i)) + 1
  BY <1>2, EntrySets, FS_AddElement
<1>5. Cardinality(B) <= fileCount
  <2>1. Entries \ dirs \in SUBSET Entries  OBVIOUS
  <2> QED  BY <2>1, <1>3, EntrySets, FS_Subset DEF fileCount
<1>6. Cardinality(Below(i)) \in Nat /\ Cardinality(B) \in Nat
  <2>1. B \in SUBSET Entries  BY <1>3
  <2> QED  BY <1>2, <2>1, EntrySets
<1> QED  BY <1>4, <1>5, <1>6, FileCountType DEF Filling, TypeOK

-----------------------------------------------------------------------------
LEMMA ListingInit == Init => ListingInv
<1> SUFFICES ASSUME Init PROVE ListingInv  OBVIOUS
<1>1. << >> \in Seq(Entries) /\ 0 \in 0 .. totalCount
  BY ListingAssumption
<1> QED
  BY <1>1, FileCountType
  DEF Init, ListingInv, TypeOK, OneCall, RoomInv, FillInv, InfoInv, NoInfo, Busy

LEMMA ClearInv ==
  ASSUME Serial, ListingInv, NEW t \in Threads, Clear(t)
  PROVE  ListingInv'
<1> USE DEF ListingInv
<1>1. TypeOK'
  BY DEF Clear, TypeOK, Goto, NoInfo, archiveVars, Busy, Entries
<1>2. /\ \A u \in Threads : pc[u] \notin Busy
      /\ pc'[t] \in {"idle", "reserve"}
      /\ \A u \in Threads \ {t} : pc'[u] = pc[u]
      /\ files' = << >>
      /\ UNCHANGED <<archiveVars, store, capacity, srcIdx>>
  BY DEF Clear, Quiet, Goto, TypeOK
<1>3. fileCount' = fileCount /\ Listed' = Listed
  BY <1>2 DEF fileCount, Listed, archiveVars
<1>4. OneCall'  BY <1>2 DEF OneCall, Busy
<1>5. RoomInv'  BY <1>2, <1>3 DEF RoomInv
<1>6. FillInv'  BY <1>2 DEF FillInv, Busy
<1>7. InfoInv'
  <2>1. CASE fileCount = 0
    <3>1. Listed = {} /\ Cardinality(Listed) = 0
      <4>1. IsFiniteSet(Entries \ dirs)  BY EntrySets
      <4>2. Entries \ dirs = {}  BY <4>1, <2>1, FS_EmptySet DEF fileCount
      <4> QED  BY <4>2, FS_EmptySet DEF Listed
    <3>2. Filled'
      <4>1. Elements(<< >>) = {} /\ Ascending(<< >>) /\ Len(<< >>) = 0
        BY DEF Elements, Ascending
      <4> QED  BY <4>1, <3>1, <1>2, <1>3 DEF Filled, Elements, Ascending
    <3>3. \A u \in Threads : info'[u].pFiles # NoStore => info'[u] = info[u]
      BY <2>1 DEF Clear, NoInfo, TypeOK
    <3> QED  BY <3>2, <3>3, <1>2, <1>3 DEF InfoInv
  <2>2. CASE fileCount # 0
    <3>1. info' = info /\ ~Quiet'
      BY <2>2 DEF Clear, Goto, Quiet, Busy, TypeOK
    <3> QED  BY <3>1, <1>2, <1>3 DEF InfoInv
  <2> QED  BY <2>1, <2>2
<1> QED  BY <1>1, <1>4, <1>5, <1>6, <1>7

LEMMA ReserveInv ==
  ASSUME Serial, ListingInv, NEW t \in Threads, Reserve(t)
  PROVE  ListingInv'
<1> USE DEF ListingInv
<1>1. fileCount \in Nat /\ fileCount' = fileCount /\ Listed' = Listed
  BY FileCountType DEF Reserve, fileCount, Listed, archiveVars
<1>2. TypeOK'
  BY <1>1, ListingAssumption DEF Reserve, TypeOK, Goto, Grow, archiveVars, Busy
<1>3. /\ pc[t] = "reserve" /\ pc'[t] = "visit" /\ srcIdx'[t] = 0
      /\ \A u \in Threads \ {t} : pc'[u] = pc[u] /\ pc[u] \notin Busy
      /\ files' = << >> /\ files = << >>
      /\ UNCHANGED <<archiveVars, info>>
  BY DEF Reserve, Goto, TypeOK, OneCall, FillInv, Busy
<1>4. OneCall'  BY <1>3 DEF OneCall
<1>5. capacity' >= fileCount' /\ capacity' \in Nat
  BY <1>1 DEF Reserve, Grow, TypeOK
<1>6. RoomInv'  BY <1>5 DEF RoomInv
<1>7. Filling(t)'
  <2>1. Below(0) = {}  BY DEF Below, Listed, Entries
  <2>2. Below(srcIdx[t])' = {}  BY <2>1, <1>1, <1>3 DEF Below
  <2>3. Elements(<< >>) = {} /\ Ascending(<< >>) /\ Len(<< >>) = 0
    BY DEF Elements, Ascending
  <2> QED  BY <2>2, <2>3, <1>3, FS_EmptySet DEF Filling, Elements, Ascending
<1>8. FillInv'
  BY <1>3, <1>5, <1>7 DEF FillInv, Busy
<1>9. InfoInv'
  <2>1. \A u \in Threads : info[u].pFiles # NoStore => store' = store
    BY <1>1 DEF InfoInv, RoomInv, Reserve, TypeOK
  <2>2. ~Quiet'  BY <1>3 DEF Quiet, Busy
  <2> QED  BY <2>1, <2>2, <1>1, <1>3 DEF InfoInv
<1> QED  BY <1>2, <1>4, <1>6, <1>8, <1>9

LEMMA ReserveFailsInv ==
  ASSUME Serial, ListingInv, NEW t \in Threads, ReserveFails(t)
  PROVE  ListingInv'
<1> USE DEF ListingInv
<1>1. fileCount \in Nat /\ fileCount' = fileCount /\ Listed' = Listed
  BY FileCountType DEF ReserveFails, fileCount, Listed, archiveVars
<1>2. TypeOK'
  BY DEF ReserveFails, TypeOK, Goto, archiveVars, vectorVars, Busy
<1>3. OneCall'  BY DEF ReserveFails, Goto, TypeOK, OneCall, Busy
<1>4. RoomInv'  BY <1>1 DEF RoomInv, ReserveFails, vectorVars
<1>5. FillInv'
  <2> SUFFICES ASSUME NEW u \in Threads, pc'[u] \in Busy  PROVE FALSE
    BY DEF FillInv, Busy
  <2> QED  BY DEF ReserveFails, Goto, TypeOK, OneCall, Busy
<1>6. store = NoStore
  BY <1>1 DEF ReserveFails, RoomInv, TypeOK
<1>7. InfoInv'  BY <1>6 DEF InfoInv, ReserveFails, vectorVars
<1> QED  BY <1>2, <1>3, <1>4, <1>5, <1>7

LEMMA VisitInv ==
  ASSUME Serial, ListingInv, NEW t \in Threads, Visit(t)
  PROVE  ListingInv'
<1> USE DEF ListingInv
<1> DEFINE i == srcIdx[t]
<1>1. fileCount \in Nat /\ fileCount' = fileCount /\ Listed' = Listed
  BY FileCountType DEF Visit, fileCount, Listed, archiveVars
<1>2. /\ pc[t] = "visit" /\ pc' = pc
      /\ i \in Nat /\ i < totalCount /\ srcIdx'[t] = i + 1
      /\ Filling(t) /\ capacity >= fileCount
      /\ UNCHANGED <<archiveVars, info>>
  BY DEF Visit, Goto, TypeOK, FillInv
<1>3. \A n : Below(n)' = Below(n)  BY <1>1 DEF Below
<1>4. /\ UNCHANGED <<store, capacity>>
      /\ files' \in Seq(Entries)
      /\ Filling(t)'
  <2>1. CASE i \in Listed
    <3>1. Len(files) < capacity  BY <2>1, <1>2, RoomLeft
    <3>2. files' = Append(files, i) /\ UNCHANGED <<store, capacity>>
      BY <2>1, <3>1 DEF Visit, TypeOK
    <3>3. /\ files' \in Seq(Entries)
          /\ Ascending(files')
          /\ Elements(files') = Below(i + 1)
          /\ Len(files') = Cardinality(Below(i + 1))
      BY <2>1, <3>2, <1>2, AppendListed
    <3>4. /\ Ascending(files)' = Ascending(files')
          /\ Elements(files)' = Elements(files')
          /\ Below(srcIdx[t])' = Below(i + 1)
      BY <1>2, <1>1 DEF Ascending, Elements, Below
    <3> QED  BY <3>2, <3>3, <3>4 DEF Filling
  <2>2. CASE i \notin Listed
    <3>1. UNCHANGED vectorVars  BY <2>2 DEF Visit
    <3>2. Below(srcIdx[t])' = Below(i)
      BY <2>2, <1>2, <1>1, SkipUnlisted DEF Below
    <3> QED
      BY <3>1, <3>2, <1>2 DEF vectorVars, Filling, Ascending, Elements, TypeOK
  <2> QED  BY <2>1, <2>2
<1>5. TypeOK'
  <2>1. srcIdx' \in [Threads -> 0 .. totalCount]
    BY <1>2, ListingAssumption DEF Visit, TypeOK
  <2> QED  BY <2>1, <1>2, <1>4 DEF TypeOK, archiveVars, Entries
<1>6. OneCall'  BY <1>2 DEF OneCall
<1>7. RoomInv'  BY <1>1, <1>4 DEF RoomInv
<1>8. FillInv'
  <2>1. \A u \in Threads : pc'[u] \in Busy => u = t
    BY <1>2 DEF OneCall, Busy
  <2> QED  BY <2>1, <1>1, <1>2, <1>4 DEF FillInv, Busy
<1>9. InfoInv'
  <2>1. ~Quiet'  BY <1>2 DEF Quiet, Busy
  <2> QED  BY <2>1, <1>1, <1>2, <1>4 DEF InfoInv
<1> QED  BY <1>5, <1>6, <1>7, <1>8, <1>9

LEMMA PublishInv ==
  ASSUME Serial, ListingInv, NEW t \in Threads, Publish(t)
  PROVE  ListingInv'
<1> USE DEF ListingInv
<1>1. fileCount' = fileCount /\ Listed' = Listed
  BY DEF Publish, fileCount, Listed, archiveVars
<1>2. /\ pc[t] = "visit" /\ Filling(t) /\ srcIdx[t] = totalCount
      /\ UNCHANGED <<archiveVars, vectorVars, srcIdx>>
  BY DEF Publish, Goto, FillInv
<1>3. Below(totalCount) = Listed
  BY ListingAssumption DEF Below, Listed, Entries
<1>4. Filled  BY <1>2, <1>3 DEF Filling, Filled
<1>5. Filled'
  BY <1>4, <1>2, <1>1 DEF Filled, Ascending, Elements, vectorVars
<1>6. Len(files) \in Nat  BY DEF TypeOK
<1>7. TypeOK'
  BY <1>2, <1>6 DEF Publish, Goto, TypeOK, archiveVars, vectorVars, Busy
<1>8. OneCall'  BY DEF Publish, Goto, TypeOK, OneCall, Busy
<1>9. RoomInv'  BY <1>1, <1>2 DEF RoomInv, vectorVars
<1>10. FillInv'
  <2> SUFFICES ASSUME NEW u \in Threads, pc'[u] \in Busy  PROVE FALSE
    BY DEF FillInv, Busy
  <2> QED  BY DEF Publish, Goto, TypeOK, OneCall, Busy
<1>11. InfoInv'
  <2>1. info'[t] = [nFiles |-> Cardinality(Listed), pFiles |-> store]
    BY <1>4 DEF Publish, Filled, TypeOK
  <2>2. \A u \in Threads \ {t} : info'[u] = info[u]
    BY DEF Publish, TypeOK
  <2> QED  BY <2>1, <2>2, <1>1, <1>2, <1>5 DEF InfoInv, vectorVars
<1> QED  BY <1>7, <1>8, <1>9, <1>10, <1>11

LEMMA ReopenInv ==
  ASSUME ListingInv, OpenArchive
  PROVE  ListingInv'
<1> USE DEF ListingInv
<1>1. TypeOK'
  BY DEF OpenArchive, TypeOK, NoInfo
<1> QED
  BY <1>1 DEF OpenArchive, Quiet, TypeOK, OneCall, RoomInv, FillInv, InfoInv, NoInfo,
      Busy

LEMMA ListingStep ==
  ASSUME Serial, ListingInv, [Next]_vars
  PROVE  ListingInv'
<1>1. CASE OpenArchive  BY <1>1, ReopenInv
<1>2. ASSUME NEW t \in Threads, Clear(t)  PROVE ListingInv'
  BY <1>2, ClearInv
<1>3. ASSUME NEW t \in Threads, Reserve(t)  PROVE ListingInv'
  BY <1>3, ReserveInv
<1>4. ASSUME NEW t \in Threads, ReserveFails(t)  PROVE ListingInv'
  BY <1>4, ReserveFailsInv
<1>5. ASSUME NEW t \in Threads, Visit(t)  PROVE ListingInv'
  BY <1>5, VisitInv
<1>6. ASSUME NEW t \in Threads, Publish(t)  PROVE ListingInv'
  BY <1>6, PublishInv
<1>7. CASE UNCHANGED vars
  <2>1. UNCHANGED <<dirs, nameless, files, store, capacity, pc, srcIdx, info>>
    BY <1>7 DEF vars, archiveVars, vectorVars
  <2>2. UNCHANGED <<fileCount, Listed, Quiet>>
    BY <2>1 DEF fileCount, Listed, Quiet
  <2>3. Filled' = Filled /\ \A t \in Threads : Filling(t)' = Filling(t)
    BY <2>1, <2>2 DEF Filled, Filling, Ascending, Elements, Below
  <2>4. TypeOK' /\ OneCall' /\ RoomInv'
    BY <2>1, <2>2 DEF ListingInv, TypeOK, OneCall, RoomInv
  <2>5. FillInv'  BY <2>1, <2>2, <2>3 DEF ListingInv, FillInv
  <2>6. InfoInv'  BY <2>1, <2>2, <2>3 DEF ListingInv, InfoInv
  <2> QED  BY <2>4, <2>5, <2>6 DEF ListingInv
<1> QED  BY <1>1, <1>2, <1>3, <1>4, <1>5, <1>6, <1>7 DEF Next

LEMMA InvImplies == ListingInv => ListingExact /\ PointersStay
<1> SUFFICES ASSUME ListingInv PROVE ListingExact /\ PointersStay  OBVIOUS
<1>1. PointersStay  BY DEF ListingInv, InfoInv, PointersStay
<1>2. ASSUME Quiet, NEW t \in Threads, info[t].pFiles # NoStore
      PROVE  info[t].nFiles <= Len(files) /\ Complete(Sees(t))
  <2>1. Filled /\ info[t].nFiles = Len(files)
    BY <1>2 DEF ListingInv, InfoInv, Filled
  <2>2. files \in Seq(Entries) /\ Len(files) \in Nat  BY DEF ListingInv, TypeOK
  <2>3. Sees(t) = files  BY <2>1, <2>2 DEF Sees
  <2> QED  BY <2>1, <2>2, <2>3 DEF Filled, Complete, Ascending, Elements
<1> QED  BY <1>1, <1>2 DEF ListingExact

(* GetArchiveInfo without concurrent calls (7zPlugin.cpp:210-275): however  *)
(* often the host asks, whatever the archive holds and whether or not       *)
(* memory runs out, every listing it holds is complete, in archive order    *)
(* and at the address it was given.                                         *)
THEOREM ListingSafety ==
  ASSUME Serial
  PROVE  Spec => [](TypeOK /\ ListingExact /\ PointersStay)
<1>1. Init => ListingInv  BY ListingInit
<1>2. ListingInv /\ [Next]_vars => ListingInv'  BY ListingStep
<1>3. ListingInv => TypeOK /\ ListingExact /\ PointersStay
  BY InvImplies DEF ListingInv
<1> QED  BY <1>1, <1>2, <1>3, PTL DEF Spec

-----------------------------------------------------------------------------
(* The plug-in object                                                       *)

(* What a step relies on: threads that make or use an object are inside a   *)
(* loaded DLL, and the one that makes an object is alone and has seen none. *)
(* What rests on the host, one call of AMP_Init at a time and no call       *)
(* inside when the DLL is unloaded, is used where it is needed only.        *)
EntryBusy  == \A t \in Threads : entryPc[t] # "host" => loaded
OneMaker   == \A t, u \in Threads : entryPc[t] = "new" /\ entryPc[u] = "new" => t = u
MakerAlone == \A t \in Threads : entryPc[t] = "new" => g_p7zPlugin = Null
EntryHeld  == /\ plugInfo # Null => plugInfo = g_p7zPlugin
              /\ \A t \in Threads :
                   entryPc[t] = "inside" => self[t] = g_p7zPlugin /\ self[t] # Null
OnlyObject == /\ live = {g_p7zPlugin} \ {Null}
              /\ ~loaded => g_p7zPlugin = Null
EntryShape == /\ g_p7zPlugin \in Objects \cup {Null}
              /\ entryPc \in [Threads -> {"host", "new", "inside"}]
              /\ self \in [Threads -> Objects \cup {Null}]

EntryInv == EntryShape /\ EntryBusy /\ OneMaker /\ MakerAlone /\ EntryHeld /\ OnlyObject

LEMMA EntrySound == ASSUME EntryInv PROVE Entry!PluginSound
<1>1. Entry!OnePlugin  BY DEF EntryInv, OnlyObject, Entry!OnePlugin
<1>2. Entry!PluginAlive  BY DEF EntryInv, EntryHeld, OnlyObject, Entry!PluginAlive
<1> QED  BY <1>1, <1>2 DEF Entry!PluginSound

LEMMA EntryInit == Entry!Init => EntryInv
BY DEF Entry!Init, EntryInv, EntryShape, EntryBusy, OneMaker, MakerAlone, EntryHeld,
    OnlyObject

LEMMA EntryStep ==
  ASSUME Serial, Null \notin Objects, EntryInv, [Entry!Next]_Entry!vars
  PROVE  EntryInv'
<1> USE DEF EntryInv, EntryShape, EntryBusy, OneMaker, MakerAlone, EntryHeld,
    OnlyObject
<1>1. CASE Entry!Attach  BY <1>1 DEF Entry!Attach
<1>2. CASE Entry!Detach
  <2>1. \A t \in Threads : entryPc[t] = "host"  BY <1>2 DEF Entry!Detach, Entry!Quiet
  <2> QED  BY <1>2, <2>1 DEF Entry!Detach
<1>3. ASSUME NEW t \in Threads, Entry!InitTest(t) PROVE EntryInv'
  BY <1>3 DEF Entry!InitTest, Entry!Goto
<1>4. ASSUME NEW t \in Threads, Entry!InitNew(t) PROVE EntryInv'
  <2>1. g_p7zPlugin = Null /\ live = {} /\ loaded
    BY <1>4 DEF Entry!InitNew, Entry!Goto
  <2>2. PICK p \in Objects \ live : live' = live \cup {p} /\ g_p7zPlugin' = p
    BY <1>4 DEF Entry!InitNew
  <2>3. entryPc[t] = "new" /\ entryPc' = [entryPc EXCEPT ![t] = "host"] /\ UNCHANGED <<loaded, plugInfo, self>>
    BY <1>4 DEF Entry!InitNew, Entry!Goto
  <2>4. \A u \in Threads : entryPc'[u] # "new"  BY <2>3
  <2>5. plugInfo = Null /\ \A u \in Threads : entryPc[u] # "inside"  BY <2>1
  <2> QED  BY <2>1, <2>2, <2>3, <2>4, <2>5
<1>5. ASSUME NEW t \in Threads, Entry!GetPlugInInfo(t) PROVE EntryInv'
  BY <1>5 DEF Entry!GetPlugInInfo
<1>6. ASSUME NEW t \in Threads, Entry!Enter(t) PROVE EntryInv'
  <2>1. g_p7zPlugin \in Objects  BY <1>6 DEF Entry!Enter
  <2> QED  BY <1>6, <2>1 DEF Entry!Enter, Entry!Goto
<1>7. ASSUME NEW t \in Threads, Entry!Leave(t) PROVE EntryInv'
  BY <1>7 DEF Entry!Leave, Entry!Goto
<1>8. CASE UNCHANGED Entry!vars  BY <1>8 DEF Entry!vars
<1> QED  BY <1>1, <1>2, <1>3, <1>4, <1>5, <1>6, <1>7, <1>8 DEF Entry!Next

-----------------------------------------------------------------------------
(* The allocations of an archive.  Every owner of whom something may depend  *)
(* has an address of its own, and the heap holds these addresses, those whose *)
(* only pointer was overwritten, and nothing else.  All owners count but for  *)
(* one place: behind a failed open lookStream_.buf dangles.                   *)
Counted == IF lifePc = "delete" THEN {"handle"} ELSE Life!Owners

Owned(S) ==
  /\ ptr \in [Life!Owners -> LifeAddr \cup {Null}] /\ ~fault
  /\ lost \subseteq LifeAddr
  /\ heap = ({ptr[o] : o \in S} \ {Null}) \cup lost
  /\ \A o \in S : ptr[o] \notin lost
  /\ \A o, p \in S : ptr[o] = ptr[p] /\ ptr[o] # Null => o = p

(* Where each owner may, and where it must, hold something.                  *)
Encoding == {"encodedBuf", "encodedData", "encodedFails", "encodedDone"}
InHeader == {"main", "files", "headerDone", "headerFails"}
Parsed == {"headerDone", "headerFails", "opened", "fail", "open"}
May(o, P) == lifePc \notin P => ptr[o] = Null
Must(o, P) == lifePc \in P => ptr[o] # Null

MayHold ==
  /\ lifePc \in {"closed", "file", "look"} => ptr["look"] = Null
  /\ lifePc = "closed" => ptr["handle"] = Null
  /\ May("outBuffer", {"open"})
  /\ May("index", Parsed) /\ May("db", Parsed \cup {"files"})
  /\ \A o \in Life!FileTables : May(o, Parsed \cup {"files"})
  /\ May("buf", {"read", "encoded", "drop", "streams"} \cup Encoding \cup InHeader)
  /\ May("tempAr", Encoding)
  /\ May("tempBuf", Encoding \ {"encodedBuf"})
  /\ May("tempBufs", InHeader)
MustHold ==
  /\ lifePc # "closed" => ptr["handle"] # Null
  /\ lifePc \notin {"closed", "file", "look", "delete"} => ptr["look"] # Null
  /\ Must("buf", {"read", "encoded"} \cup Encoding)
  /\ Must("tempAr", Encoding \ {"encodedFails"})
  /\ Must("tempBuf", {"encodedData", "encodedDone"})
Flags ==
  /\ fileOpen \in BOOLEAN /\ isOpen \in BOOLEAN
  /\ fileOpen <=> lifePc \notin {"closed", "file", "delete"}
  /\ isOpen <=> lifePc = "open"

LifeInv == Owned(Counted) /\ MayHold /\ MustHold /\ Flags

LEMMA LifeInit == Life!Init => LifeInv
BY DEF Life!Init, LifeInv, Owned, Counted, MayHold, MustHold, Flags, May, Must,
  Life!Owners, Life!Tables, Life!FileTables, Life!Locals, Encoding, InHeader, Parsed

LEMMA AllocKeeps ==
  ASSUME Null \notin LifeAddr, Owned(Life!Owners), NEW o \in Life!Owners,
         ptr[o] = Null, Life!Alloc(o), UNCHANGED lost
  PROVE  /\ Owned(Life!Owners)' /\ ptr'[o] # Null
         /\ \A p \in Life!Owners \ {o} : ptr'[p] = ptr[p]
<1>1. PICK a \in LifeAddr \ heap : /\ heap' = heap \cup {a}
                               /\ ptr' = [ptr EXCEPT ![o] = a] /\ UNCHANGED fault
  BY DEF Life!Alloc
<1>2. a # Null /\ a \notin lost /\ \A p \in Life!Owners : ptr[p] # a
  BY <1>1 DEF Owned
<1>3. /\ ptr' \in [Life!Owners -> LifeAddr \cup {Null}] /\ ptr'[o] = a
      /\ \A p \in Life!Owners \ {o} : ptr'[p] = ptr[p]
  BY <1>1 DEF Owned
<1>4. heap' = ({ptr'[p] : p \in Life!Owners} \ {Null}) \cup lost
  <2>1. \A x : x \in heap' =>
          x \in lost \/ \E p \in Life!Owners : x = ptr'[p] /\ x # Null
    BY <1>1, <1>2, <1>3 DEF Owned
  <2>2. \A p \in Life!Owners : ptr'[p] # Null => ptr'[p] \in heap'
    BY <1>1, <1>2, <1>3 DEF Owned
  <2>3. lost \subseteq heap'  BY <1>1 DEF Owned
  <2> QED  BY <2>1, <2>2, <2>3
<1>5. \A p \in Life!Owners : ptr'[p] \notin lost  BY <1>2, <1>3 DEF Owned
<1>6. \A p, q \in Life!Owners : ptr'[p] = ptr'[q] /\ ptr'[p] # Null => p = q
  BY <1>2, <1>3 DEF Owned
<1> QED  BY <1>1, <1>2, <1>3, <1>4, <1>5, <1>6 DEF Owned

LEMMA FreeKeeps ==
  ASSUME Null \notin LifeAddr, Owned(Life!Owners), NEW S, S \subseteq Life!Owners,
         Life!Release(S), UNCHANGED lost
  PROVE  /\ Owned(Life!Owners)'
         /\ \A o \in Life!Owners : ptr'[o] = IF o \in S THEN Null ELSE ptr[o]
<1>1. /\ heap' = heap \ {ptr[o] : o \in S}
      /\ ptr' = [o \in Life!Owners |-> IF o \in S THEN Null ELSE ptr[o]]
      /\ fault' = (fault \/ \E o \in S : ptr[o] # Null /\ ptr[o] \notin heap)
  BY DEF Life!Release, Life!FreeAll
<1>2. ~fault'  BY <1>1 DEF Owned
<1>3. heap' = ({ptr'[o] : o \in Life!Owners} \ {Null}) \cup lost
  <2>1. \A x : x \in heap' =>
          x \in lost \/ \E o \in Life!Owners : x = ptr'[o] /\ x # Null
    BY <1>1 DEF Owned
  <2>2. \A o \in Life!Owners : ptr'[o] # Null => ptr'[o] \in heap'
    BY <1>1 DEF Owned
  <2>3. lost \subseteq heap'  BY <1>1 DEF Owned
  <2> QED  BY <2>1, <2>2, <2>3
<1>4. \A o \in Life!Owners : ptr'[o] \notin lost  BY <1>1 DEF Owned
<1> QED  BY <1>1, <1>2, <1>3, <1>4 DEF Owned

(* A step that takes memory or gives it back, seen by its effect on what the *)
(* owners hold: the memory keeps its shape, and MayHold, MustHold and Flags  *)
(* speak of the owners alone.                                                *)
LEMMA Counting == LifeInv /\ lifePc # "delete" => Owned(Life!Owners)
BY DEF LifeInv, Counted

LEMMA NothingMoves ==
  ASSUME Owned(Life!Owners), Life!NoMemory, UNCHANGED lost
  PROVE  Owned(Life!Owners)' /\ ptr' = ptr
BY DEF Life!NoMemory, Owned

(* The steps before the header is read.                                     *)
LEMMA OpeningKeeps ==
  ASSUME Null \notin LifeAddr, LifeInv, UNCHANGED lost,
         Life!NewHandle \/ Life!OpenFile \/ Life!AllocLook \/ Life!StartHeader \/ Life!AllocBuf \/ Life!ReadHeader
  PROVE  LifeInv'
<1> USE DEF MayHold, MustHold, Flags, May, Must, Life!Owners, Life!Tables, Life!FileTables,
    Life!Locals, Encoding, InHeader, Parsed
<1>1. CASE Life!NewHandle
  <2>1. lifePc = "closed" /\ lifePc' = "file" /\ Life!NoArchive /\ Life!Alloc("handle")
    BY <1>1 DEF Life!NewHandle, Life!Only, Life!Step
  <2>2. ptr["handle"] = Null  BY <2>1 DEF LifeInv
  <2>3. /\ Owned(Life!Owners)' /\ ptr'["handle"] # Null
        /\ \A p \in Life!Owners \ {"handle"} : ptr'[p] = ptr[p]
    BY <2>1, <2>2, Counting, AllocKeeps
  <2> QED  BY <2>1, <2>2, <2>3 DEF LifeInv, Counted, Life!NoArchive
<1>2. CASE Life!OpenFile
  <2>1. lifePc = "file" /\ lifePc' = "look" /\ fileOpen' = TRUE /\ isOpen' = isOpen /\ Life!NoMemory
    BY <1>2 DEF Life!OpenFile, Life!Step
  <2>2. Owned(Life!Owners)' /\ ptr' = ptr  BY <2>1, Counting, NothingMoves
  <2> QED  BY <2>1, <2>2 DEF LifeInv, Counted
<1>3. CASE Life!AllocLook
  <2>1. lifePc = "look" /\ lifePc' = "start" /\ Life!NoArchive /\ Life!Alloc("look")
    BY <1>3 DEF Life!AllocLook, Life!Only, Life!Step
  <2>2. ptr["look"] = Null  BY <2>1 DEF LifeInv
  <2>3. /\ Owned(Life!Owners)' /\ ptr'["look"] # Null
        /\ \A p \in Life!Owners \ {"look"} : ptr'[p] = ptr[p]
    BY <2>1, <2>2, Counting, AllocKeeps
  <2> QED  BY <2>1, <2>2, <2>3 DEF LifeInv, Counted, Life!NoArchive
<1>4. CASE Life!StartHeader
  <2>1. lifePc = "start" /\ lifePc' \in {"buf", "opened", "fail"} /\ Life!NoArchive
        /\ Life!NoMemory
    BY <1>4 DEF Life!StartHeader, Life!Only, Life!Step
  <2>2. Owned(Life!Owners)' /\ ptr' = ptr  BY <2>1, Counting, NothingMoves
  <2> QED  BY <2>1, <2>2 DEF LifeInv, Counted, Life!NoArchive
<1>5. CASE Life!AllocBuf
  <2>1. CASE Life!Only("buf", "read") /\ Life!Alloc("buf")
    <3>1. lifePc = "buf" /\ lifePc' = "read" /\ Life!NoArchive /\ Life!Alloc("buf")
      BY <2>1 DEF Life!Only, Life!Step
    <3>2. ptr["buf"] = Null  BY <3>1 DEF LifeInv
    <3>3. /\ Owned(Life!Owners)' /\ ptr'["buf"] # Null
          /\ \A p \in Life!Owners \ {"buf"} : ptr'[p] = ptr[p]
      BY <3>1, <3>2, Counting, AllocKeeps
    <3> QED  BY <3>1, <3>2, <3>3 DEF LifeInv, Counted, Life!NoArchive
  <2>2. CASE Life!Only("buf", "fail") /\ Life!NoMemory
    <3>1. lifePc = "buf" /\ lifePc' = "fail" /\ Life!NoArchive /\ Life!NoMemory
      BY <2>2 DEF Life!Only, Life!Step
    <3>2. Owned(Life!Owners)' /\ ptr' = ptr  BY <3>1, Counting, NothingMoves
    <3> QED  BY <3>1, <3>2 DEF LifeInv, Counted, Life!NoArchive
  <2> QED  BY <1>5, <2>1, <2>2 DEF Life!AllocBuf
<1>6. CASE Life!ReadHeader
  <2>1. lifePc = "read" /\ lifePc' \in {"encoded", "streams", "drop"} /\ Life!NoArchive
        /\ Life!NoMemory
    BY <1>6 DEF Life!ReadHeader, Life!Only, Life!Step
  <2>2. Owned(Life!Owners)' /\ ptr' = ptr  BY <2>1, Counting, NothingMoves
  <2> QED  BY <2>1, <2>2 DEF LifeInv, Counted, Life!NoArchive
<1> QED  BY <1>1, <1>2, <1>3, <1>4, <1>5, <1>6

LEMMA MayAllocKeeps ==
  ASSUME Null \notin LifeAddr, Owned(Life!Owners), NEW o \in Life!Owners,
         ptr[o] = Null, Life!NoMemory \/ Life!Alloc(o), UNCHANGED lost
  PROVE  Owned(Life!Owners)' /\ \A p \in Life!Owners \ {o} : ptr'[p] = ptr[p]
BY AllocKeeps, NothingMoves

(* The encoded header.                                                      *)
LEMMA EncodedKeeps ==
  ASSUME Null \notin LifeAddr, LifeInv, UNCHANGED lost,
         Life!EncodedTables \/ Life!EncodedBuf \/ Life!EncodedData \/ Life!EncodedFails \/ Life!EncodedDone \/ Life!Drop
  PROVE  LifeInv'
<1> USE DEF MayHold, MustHold, Flags, May, Must, Life!Owners, Life!Tables, Life!FileTables,
    Life!Locals, Encoding, InHeader, Parsed
<1>1. CASE Life!EncodedTables
  <2>1. lifePc = "encoded" /\ lifePc' \in {"encodedBuf", "encodedFails"} /\ Life!NoArchive
    BY <1>1 DEF Life!EncodedTables, Life!Only, Life!Step
  <2>2. ptr["tempAr"] = Null  BY <2>1 DEF LifeInv
  <2>3. Life!NoMemory \/ Life!Alloc("tempAr")  BY <1>1 DEF Life!EncodedTables
  <2>4. lifePc' = "encodedBuf" => Life!Alloc("tempAr")
    BY <1>1 DEF Life!EncodedTables, Life!Only, Life!Step
  <2>5. /\ Owned(Life!Owners)'
        /\ \A p \in Life!Owners \ {"tempAr"} : ptr'[p] = ptr[p]
    BY <2>1, <2>2, <2>3, Counting, MayAllocKeeps
  <2>6. lifePc' = "encodedBuf" => ptr'["tempAr"] # Null
    BY <2>1, <2>2, <2>4, Counting, AllocKeeps
  <2> QED  BY <2>1, <2>5, <2>6 DEF LifeInv, Counted, Life!NoArchive
<1>2. CASE Life!EncodedBuf
  <2>1. lifePc = "encodedBuf" /\ lifePc' \in {"encodedData", "encodedFails"}
        /\ Life!NoArchive
    BY <1>2 DEF Life!EncodedBuf, Life!Only, Life!Step
  <2>2. ptr["tempBuf"] = Null  BY <2>1 DEF LifeInv
  <2>3. Life!NoMemory \/ Life!Alloc("tempBuf")  BY <1>2 DEF Life!EncodedBuf
  <2>4. lifePc' = "encodedData" => Life!Alloc("tempBuf")
    BY <1>2 DEF Life!EncodedBuf, Life!Only, Life!Step
  <2>5. /\ Owned(Life!Owners)'
        /\ \A p \in Life!Owners \ {"tempBuf"} : ptr'[p] = ptr[p]
    BY <2>1, <2>2, <2>3, Counting, MayAllocKeeps
  <2>6. lifePc' = "encodedData" => ptr'["tempBuf"] # Null
    BY <2>1, <2>2, <2>4, Counting, AllocKeeps
  <2> QED  BY <2>1, <2>5, <2>6 DEF LifeInv, Counted, Life!NoArchive
<1>3. CASE Life!EncodedData
  <2>1. lifePc = "encodedData" /\ lifePc' \in {"encodedDone", "encodedFails"} /\ Life!NoArchive
        /\ Life!NoMemory
    BY <1>3 DEF Life!EncodedData, Life!Only, Life!Step
  <2>2. Owned(Life!Owners)' /\ ptr' = ptr  BY <2>1, Counting, NothingMoves
  <2> QED  BY <2>1, <2>2 DEF LifeInv, Counted, Life!NoArchive
<1>4. CASE Life!EncodedFails
  <2>1. lifePc = "encodedFails" /\ lifePc' = "drop" /\ Life!NoArchive /\ Life!Release({"tempAr", "tempBuf"})
    BY <1>4 DEF Life!EncodedFails, Life!Only, Life!Step
  <2>2. /\ Owned(Life!Owners)'
        /\ \A o \in Life!Owners :
             ptr'[o] = IF o \in {"tempAr", "tempBuf"} THEN Null ELSE ptr[o]
    <3>1. {"tempAr", "tempBuf"} \subseteq Life!Owners  OBVIOUS
    <3> QED  BY <2>1, <3>1, Counting, FreeKeeps
  <2> QED  BY <2>1, <2>2 DEF LifeInv, Counted, Life!NoArchive
<1>5. CASE Life!EncodedDone
  <2>1. /\ lifePc = "encodedDone" /\ lifePc' \in {"streams", "drop"} /\ Life!NoArchive
        /\ heap' = heap \ {ptr["tempAr"], ptr["buf"]}
        /\ ptr' = [ptr EXCEPT !["buf"] = ptr["tempBuf"], !["tempBuf"] = Null,
                              !["tempAr"] = Null]
        /\ fault' = (fault \/ \E o \in {"tempAr", "buf"} : ptr[o] \notin heap)
    BY <1>5 DEF Life!EncodedDone, Life!Only, Life!Step
  <2>2. /\ ptr["tempAr"] # Null /\ ptr["buf"] # Null /\ ptr["tempBuf"] # Null
        /\ Owned(Life!Owners)
    BY <2>1, Counting DEF LifeInv
  <2>3. /\ ptr' \in [Life!Owners -> LifeAddr \cup {Null}]
        /\ ptr'["buf"] = ptr["tempBuf"] /\ ptr'["tempBuf"] = Null /\ ptr'["tempAr"] = Null
        /\ \A o \in Life!Owners \ {"buf", "tempBuf", "tempAr"} : ptr'[o] = ptr[o]
    BY <2>1, <2>2 DEF Owned
  <2>4. ~fault'  BY <2>1, <2>2 DEF Owned
  <2>5. heap' = ({ptr'[o] : o \in Life!Owners} \ {Null}) \cup lost
    <3>1. \A x : x \in heap' \ lost => \E o \in Life!Owners : x = ptr'[o] /\ x # Null
      <4> SUFFICES ASSUME NEW x \in heap' \ lost PROVE \E o \in Life!Owners : x = ptr'[o] /\ x # Null
        OBVIOUS
      <4>1. PICK p \in Life!Owners : x = ptr[p] /\ x # Null /\ p \notin {"tempAr", "buf"}
        BY <2>1, <2>2 DEF Owned
      <4>2. CASE p = "tempBuf"  BY <4>1, <4>2, <2>3
      <4>3. CASE p # "tempBuf"  BY <4>1, <4>3, <2>3
      <4> QED  BY <4>2, <4>3
    <3>2. \A o \in Life!Owners : ptr'[o] # Null => ptr'[o] \in heap'
      <4> SUFFICES ASSUME NEW o \in Life!Owners,
          ptr'[o] # Null PROVE ptr'[o] \in heap'
        OBVIOUS
      <4>1. CASE o = "buf"  BY <4>1, <2>1, <2>2, <2>3 DEF Owned
      <4>2. CASE o # "buf"  BY <4>2, <2>1, <2>2, <2>3 DEF Owned
      <4> QED  BY <4>1, <4>2
    <3>3. lost \subseteq heap'  BY <2>1, <2>2 DEF Owned
    <3> QED  BY <3>1, <3>2, <3>3
  <2>6. \A o \in Life!Owners : ptr'[o] \notin lost  BY <2>2, <2>3 DEF Owned
  <2>7. \A o, p \in Life!Owners : ptr'[o] = ptr'[p] /\ ptr'[o] # Null => o = p
    BY <2>2, <2>3 DEF Owned
  <2>8. Owned(Life!Owners)'  BY <2>2, <2>3, <2>4, <2>5, <2>6, <2>7 DEF Owned
  <2> QED  BY <2>1, <2>2, <2>3, <2>8 DEF LifeInv, Counted, Life!NoArchive
<1>6. CASE Life!Drop
  <2>1. lifePc = "drop" /\ lifePc' = "fail" /\ Life!NoArchive /\ Life!Release({"buf"})
    BY <1>6 DEF Life!Drop, Life!Only, Life!Step
  <2>2. /\ Owned(Life!Owners)'
        /\ \A o \in Life!Owners : ptr'[o] = IF o \in {"buf"} THEN Null ELSE ptr[o]
    <3>1. {"buf"} \subseteq Life!Owners  OBVIOUS
    <3> QED  BY <2>1, <3>1, Counting, FreeKeeps
  <2> QED  BY <2>1, <2>2 DEF LifeInv, Counted, Life!NoArchive
<1> QED  BY <1>1, <1>2, <1>3, <1>4, <1>5, <1>6

(* The header.  Here an owner takes memory only where it holds none.        *)
LEMMA HeaderKeeps ==
  ASSUME Null \notin LifeAddr, LifeInv, UNCHANGED lost,
         Life!AdditionalStreams \/ Life!MainStreams \/ Life!FilesInfo \/ Life!HeaderDone
  PROVE  LifeInv'
<1> USE DEF MayHold, MustHold, Flags, May, Must, Life!Owners, Life!Tables, Life!FileTables,
    Life!Locals, Encoding, InHeader, Parsed
<1>1. CASE Life!AdditionalStreams
  <2>1. /\ lifePc = "streams" /\ lifePc' \in {"main", "headerFails"} /\ Life!NoArchive
        /\ Life!NoMemory \/ Life!Alloc("tempBufs")
    BY <1>1 DEF Life!AdditionalStreams, Life!Only, Life!Step
  <2>2. ptr["tempBufs"] = Null  BY <2>1 DEF LifeInv
  <2>3. Owned(Life!Owners)' /\ \A p \in Life!Owners \ {"tempBufs"} : ptr'[p] = ptr[p]
    BY <2>1, <2>2, Counting, MayAllocKeeps
  <2> QED  BY <2>1, <2>3 DEF LifeInv, Counted, Life!NoArchive
<1>2. CASE Life!MainStreams
  <2>1. /\ lifePc = "main" /\ lifePc' \in {"files", "headerDone", "headerFails"}
        /\ Life!NoArchive
        /\ Life!NoMemory \/ Life!Alloc("db")
    BY <1>2 DEF Life!MainStreams, Life!Only, Life!Step
  <2>2. ptr["db"] = Null  BY <2>1 DEF LifeInv
  <2>3. Owned(Life!Owners)' /\ \A p \in Life!Owners \ {"db"} : ptr'[p] = ptr[p]
    BY <2>1, <2>2, Counting, MayAllocKeeps
  <2> QED  BY <2>1, <2>3 DEF LifeInv, Counted, Life!NoArchive
<1>3. CASE Life!FilesInfo
  <2>1. /\ lifePc = "files" /\ lifePc' \in {"headerDone", "headerFails"} /\ Life!NoArchive
        /\ Life!NoMemory \/ Life!Alloc("index")
    BY <1>3 DEF Life!FilesInfo, Life!Only, Life!Step
  <2>2. ptr["index"] = Null  BY <2>1 DEF LifeInv
  <2>3. Owned(Life!Owners)' /\ \A p \in Life!Owners \ {"index"} : ptr'[p] = ptr[p]
    BY <2>1, <2>2, Counting, MayAllocKeeps
  <2> QED  BY <2>1, <2>3 DEF LifeInv, Counted, Life!NoArchive
<1>4. CASE Life!HeaderDone
  <2>1. /\ lifePc \in {"headerDone", "headerFails"} /\ lifePc' \in {"opened", "fail"}
        /\ Life!NoArchive
        /\ Life!Release({"tempBufs", "buf"})
    BY <1>4 DEF Life!HeaderDone, Life!Only, Life!Step
  <2>2. /\ Owned(Life!Owners)'
        /\ \A o \in Life!Owners : ptr'[o] = IF o \in {"tempBufs", "buf"} THEN Null ELSE ptr[o]
    <3>1. {"tempBufs", "buf"} \subseteq Life!Owners  OBVIOUS
    <3> QED  BY <2>1, <3>1, Counting, FreeKeeps
  <2> QED  BY <2>1, <2>2 DEF LifeInv, Counted, Life!NoArchive
<1> QED  BY <1>1, <1>2, <1>3, <1>4

(* A property of the files may find the table of an earlier one: it is lost, *)
(* and the new table, or none, is in its place.                              *)
LEMMA TableOwned ==
  ASSUME Null \notin LifeAddr, Owned(Life!Owners), NEW o \in Life!Owners,
         lost' = lost \cup ({ptr[o]} \ {Null}),
         \/ Life!Alloc(o)
         \/ ptr' = [ptr EXCEPT ![o] = Null] /\ UNCHANGED <<heap, fault>>
  PROVE  Owned(Life!Owners)' /\ \A p \in Life!Owners \ {o} : ptr'[p] = ptr[p]
<1>1. PICK a \in LifeAddr \cup {Null} :
        /\ a \notin heap
        /\ heap' = heap \cup ({a} \ {Null})
        /\ ptr' = [ptr EXCEPT ![o] = a] /\ UNCHANGED fault
  <2>1. Null \notin heap  BY DEF Owned
  <2> QED  BY <2>1 DEF Life!Alloc
<1>2. /\ ptr' \in [Life!Owners -> LifeAddr \cup {Null}] /\ ptr'[o] = a
      /\ \A p \in Life!Owners \ {o} : ptr'[p] = ptr[p]
  BY <1>1 DEF Owned
<1>3. a \notin lost /\ \A p \in Life!Owners : a # Null => ptr[p] # a
  BY <1>1 DEF Owned
<1>4. heap' = ({ptr'[p] : p \in Life!Owners} \ {Null}) \cup lost'
  <2>1. \A x : x \in heap' =>
          x \in lost' \/ \E p \in Life!Owners : x = ptr'[p] /\ x # Null
    BY <1>1, <1>2 DEF Owned
  <2>2. \A p \in Life!Owners : ptr'[p] # Null => ptr'[p] \in heap'
    BY <1>1, <1>2 DEF Owned
  <2>3. lost' \subseteq heap'  BY <1>1 DEF Owned
  <2> QED  BY <2>1, <2>2, <2>3
<1>5. \A p \in Life!Owners : ptr'[p] \notin lost'
  <2>1. \A p \in Life!Owners \ {o} : ptr[p] # Null => ptr[p] # ptr[o]  BY DEF Owned
  <2>2. a \notin lost'  BY <1>1, <1>3
  <2> QED  BY <1>2, <2>1, <2>2 DEF Owned
<1>6. \A p, q \in Life!Owners : ptr'[p] = ptr'[q] /\ ptr'[p] # Null => p = q
  BY <1>2, <1>3 DEF Owned
<1>7. lost' \subseteq LifeAddr  BY DEF Owned
<1> QED  BY <1>1, <1>2, <1>4, <1>5, <1>6, <1>7 DEF Owned

LEMMA TableKeeps ==
  ASSUME Null \notin LifeAddr, LifeInv, NEW o \in Life!FileTables, Life!FileTable(o)
  PROVE  LifeInv'
<1>1. /\ lifePc = "files" /\ lifePc' \in {"files", "headerFails"} /\ Life!NoArchive
      /\ lost' = lost \cup ({ptr[o]} \ {Null})
      /\ \/ Life!Alloc(o)
         \/ ptr' = [ptr EXCEPT ![o] = Null] /\ UNCHANGED <<heap, fault>>
  BY DEF Life!FileTable, Life!Only, Life!Step
<1>2. o \in Life!Owners  BY DEF Life!Owners, Life!Tables
<1>3. Owned(Life!Owners)' /\ \A p \in Life!Owners \ {o} : ptr'[p] = ptr[p]
  BY <1>1, <1>2, Counting, TableOwned
<1> QED
  BY <1>1, <1>2, <1>3
  DEF LifeInv, Counted, Life!NoArchive, MayHold, MustHold, Flags, May, Must,
      Life!Owners, Life!Tables, Life!FileTables, Life!Locals, Encoding, InHeader, Parsed

(* delete frees what every owner still holds, and nothing twice.            *)
LEMMA DeleteFrees ==
  ASSUME Null \notin LifeAddr, LifeInv, lifePc \in {"delete", "open"}, Life!Delete
  PROVE  /\ heap' = lost /\ ~fault' /\ ~fileOpen' /\ ~isOpen'
         /\ ptr' \in [Life!Owners -> LifeAddr \cup {Null}]
         /\ \A o \in Life!Owners : ptr'[o] = Null
<1> DEFINE S == Life!Destroyed \cup {"handle"}
<1>1. /\ heap' = heap \ {ptr[o] : o \in S}
      /\ ptr' = [o \in Life!Owners |-> Null]
      /\ fault' = (fault \/ \E o \in S : ptr[o] # Null /\ ptr[o] \notin heap)
      /\ fileOpen' = (fileOpen /\ ~isOpen) /\ ~isOpen'
  BY DEF Life!Delete, Life!FreeAll
<1>2. S \subseteq Counted /\ \A o \in Counted \ S : ptr[o] = Null
  BY DEF LifeInv, Flags, MayHold, May, Counted, Life!Destroyed, Life!Owners,
      Life!Tables, Life!FileTables, Life!Locals, Encoding,
         InHeader, Parsed
<1>3. /\ heap = ({ptr[o] : o \in Counted} \ {Null}) \cup lost /\ ~fault
      /\ \A o \in Counted : ptr[o] \notin lost
  BY DEF LifeInv, Owned
<1>4. heap' = lost  BY <1>1, <1>2, <1>3
<1>5. ~fault'  BY <1>1, <1>2, <1>3
<1>6. ~fileOpen'  BY <1>1 DEF LifeInv, Flags
<1> QED  BY <1>1, <1>4, <1>5, <1>6

(* The ends: a failed opening, an open archive and its closing.             *)
LEMMA ClosingKeeps ==
  ASSUME Null \notin LifeAddr, LifeInv, UNCHANGED lost,
         \/ Life!OpenFileFails \/ Life!AllocLookFails \/ Life!OpenFails \/ Life!Opened \/ Life!DeleteFailed
         \/ Life!Extract \/ Life!CloseArchive
  PROVE  LifeInv'
<1> USE DEF MayHold, MustHold, Flags, May, Must, Life!Owners, Life!Tables, Life!FileTables,
    Life!Locals, Encoding, InHeader, Parsed
<1>1. CASE Life!OpenFileFails \/ Life!AllocLookFails
  <2>1. /\ lifePc \in {"file", "look"} /\ lifePc' = "delete" /\ fileOpen' = FALSE
        /\ isOpen' = isOpen
        /\ Life!NoMemory
    <3>1. CASE Life!OpenFileFails
      <4>1. ~fileOpen /\ fileOpen \in BOOLEAN
        BY <3>1 DEF Life!OpenFileFails, Life!Only, Life!Step, LifeInv
      <4> QED
        BY <3>1, <4>1 DEF Life!OpenFileFails, Life!Only, Life!Step, Life!NoArchive
    <3>2. CASE Life!AllocLookFails  BY <3>2 DEF Life!AllocLookFails, Life!Step
    <3> QED  BY <1>1, <3>1, <3>2
  <2>2. Owned(Life!Owners)' /\ ptr' = ptr  BY <2>1, Counting, NothingMoves
  <2>3. \A o \in Life!Owners \ {"handle"} : ptr[o] = Null  BY <2>1 DEF LifeInv
  <2>4. Owned({"handle"})'
    BY <2>2, <2>3 DEF Owned
  <2> QED  BY <2>1, <2>2, <2>3, <2>4 DEF LifeInv, Counted
<1>2. CASE Life!OpenFails
  <2>1. /\ lifePc = "fail" /\ lifePc' = "delete" /\ fileOpen' = FALSE /\ isOpen' = isOpen
        /\ heap' = heap \ {ptr[o] : o \in Life!Tables \cup {"look"}}
        /\ ptr' = [o \in Life!Owners |-> IF o \in Life!Tables THEN Null ELSE ptr[o]]
        /\ fault' = (fault \/ \E o \in Life!Tables \cup {"look"} : ptr[o] # Null /\ ptr[o] \notin heap)
    BY <1>2 DEF Life!OpenFails, Life!Step, Life!FreeAll
  <2>2. Owned(Life!Owners)  BY <2>1, Counting
  <2>3. \A o \in Life!Owners \ (Life!Tables \cup {"look", "handle"}) : ptr[o] = Null
    BY <2>1 DEF LifeInv
  <2>4. ptr["handle"] # Null  BY <2>1 DEF LifeInv
  <2>5. ~fault'  BY <2>1, <2>2 DEF Owned
  <2>6. heap' = ({ptr'[o] : o \in {"handle"}} \ {Null}) \cup lost
    <3>1. \A x : x \in heap' => x \in lost \/ x = ptr["handle"]
      BY <2>1, <2>2, <2>3 DEF Owned
    <3>2. ptr["handle"] \in heap'
      BY <2>1, <2>2, <2>4 DEF Owned
    <3>3. lost \subseteq heap'  BY <2>1, <2>2 DEF Owned
    <3> QED  BY <2>1, <2>4, <3>1, <3>2, <3>3
  <2>7. ptr'["handle"] \notin lost /\ lost \subseteq LifeAddr
    BY <2>1, <2>2 DEF Owned
  <2>8. ptr' \in [Life!Owners -> LifeAddr \cup {Null}]
    BY <2>1, <2>2 DEF Owned
  <2>9. Owned({"handle"})'  BY <2>5, <2>6, <2>7, <2>8 DEF Owned
  <2> QED  BY <2>1, <2>3, <2>4, <2>9 DEF LifeInv, Counted
<1>3. CASE Life!Opened
  <2>1. lifePc = "opened" /\ lifePc' = "open" /\ isOpen' /\ fileOpen' = fileOpen /\ Life!NoMemory
    BY <1>3 DEF Life!Opened, Life!Step
  <2>2. Owned(Life!Owners)' /\ ptr' = ptr  BY <2>1, Counting, NothingMoves
  <2>3. isOpen' = TRUE  BY <1>3 DEF Life!Opened
  <2> QED  BY <2>1, <2>2, <2>3 DEF LifeInv, Counted
<1>4. CASE Life!DeleteFailed \/ Life!CloseArchive
  <2>1. lifePc \in {"delete", "open"} /\ lifePc' = "closed" /\ Life!Delete
    BY <1>4 DEF Life!DeleteFailed, Life!CloseArchive, Life!Step
  <2>2. /\ heap' = lost /\ ~fault' /\ ~fileOpen' /\ ~isOpen'
        /\ ptr' \in [Life!Owners -> LifeAddr \cup {Null}]
        /\ \A o \in Life!Owners : ptr'[o] = Null
    BY <2>1, DeleteFrees
  <2>3. isOpen' = FALSE /\ fileOpen' \in BOOLEAN  BY <2>1 DEF Life!Delete, LifeInv
  <2>4. Owned(Life!Owners)'
    <3>1. lost \subseteq LifeAddr  BY DEF LifeInv, Owned
    <3> QED  BY <2>2, <3>1 DEF Owned
  <2> QED  BY <2>1, <2>2, <2>3, <2>4 DEF LifeInv, Counted
<1>5. CASE Life!Extract
  <2>1. /\ lifePc = "open" /\ lifePc' = "open" /\ Life!NoArchive
        /\ Life!Release({"outBuffer"}) \/ (ptr["outBuffer"] = Null /\ Life!Alloc("outBuffer"))
    BY <1>5 DEF Life!Extract, Life!Only, Life!Step
  <2>2. Owned(Life!Owners)' /\ \A p \in Life!Owners \ {"outBuffer"} : ptr'[p] = ptr[p]
    <3>1. CASE Life!Release({"outBuffer"})
      <4>1. {"outBuffer"} \subseteq Life!Owners  OBVIOUS
      <4> QED  BY <2>1, <3>1, <4>1, Counting, FreeKeeps
    <3>2. CASE ptr["outBuffer"] = Null /\ Life!Alloc("outBuffer")
      BY <2>1, <3>2, Counting, AllocKeeps
    <3> QED  BY <2>1, <3>1, <3>2
  <2> QED  BY <2>1, <2>2 DEF LifeInv, Counted, Life!NoArchive
<1> QED  BY <1>1, <1>2, <1>3, <1>4, <1>5

LEMMA LifeStep == ASSUME Null \notin LifeAddr PROVE LifeInv /\ [Life!Next]_Life!vars => LifeInv'
<1> SUFFICES ASSUME LifeInv, [Life!Next]_Life!vars PROVE LifeInv'  OBVIOUS
<1>1. CASE Life!Next
  BY <1>1, OpeningKeeps, EncodedKeeps, HeaderKeeps, TableKeeps, ClosingKeeps
  DEF Life!Next
<1>2. CASE UNCHANGED Life!vars
  BY <1>2 DEF Life!vars, LifeInv, Owned, Counted, MayHold, MustHold, Flags, May, Must
<1> QED  BY <1>1, <1>2

LEMMA LifeGood == LifeInv => Life!NothingLeft /\ Life!HandleUsable
<1> SUFFICES ASSUME LifeInv PROVE Life!NothingLeft /\ Life!HandleUsable  OBVIOUS
<1>1. Life!NoDoubleFree  BY DEF LifeInv, Owned, Life!NoDoubleFree
<1>2. ASSUME lifePc = "closed" PROVE heap = lost /\ ~fileOpen
  <2>1. \A o \in Life!Owners : ptr[o] = Null
    BY <1>2 DEF LifeInv, MayHold, May, Life!Owners, Life!Tables, Life!FileTables, Life!Locals,
        Encoding, InHeader, Parsed
  <2> QED  BY <1>2, <2>1, Counting DEF LifeInv, Owned, Flags
<1>3. ASSUME lifePc = "open" PROVE Life!HandleUsable
  <2>1. isOpen /\ fileOpen  BY <1>3 DEF LifeInv, Flags
  <2>2. ptr["handle"] # Null /\ ptr["look"] # Null  BY <1>3 DEF LifeInv, MustHold
  <2>3. /\ heap = ({ptr[o] : o \in Life!Owners} \ {Null}) \cup lost
        /\ \A o \in Life!Owners : ptr[o] \notin lost
    BY <1>3, Counting DEF Owned
  <2>4. \A o \in Life!Locals : ptr[o] = Null
    BY <1>3 DEF LifeInv, MayHold, May, Life!Locals, Encoding, InHeader, Parsed
  <2>5. heap \ lost = {ptr[o] : o \in Life!Owners \ Life!Locals} \ {Null}
    BY <2>3, <2>4
  <2>6. {ptr["handle"], ptr["look"]} \subseteq heap  BY <2>2, <2>3 DEF Life!Owners
  <2> QED  BY <2>1, <2>5, <2>6 DEF Life!HandleUsable
<1> QED  BY <1>1, <1>2, <1>3 DEF Life!NothingLeft, Life!HandleUsable

(* Wherever an opening breaks off, nothing is freed twice and nothing is    *)
(* left but the tables whose only pointer a repeated property of the header *)
(* has overwritten, and an archive that is open owns what it needs; for any *)
(* header and any number of addresses.                                      *)
THEOREM LifeSafety == Life!Spec => [](Life!NothingLeft /\ Life!HandleUsable)
<1>1. LifeInv /\ [Life!Next]_Life!vars => LifeInv'  BY ObjectAssumption, LifeStep
<1> QED  BY LifeInit, <1>1, LifeGood, PTL DEF Life!Spec

-----------------------------------------------------------------------------
(* Side by side                                                             *)

LEMMA PluginKeeps ==
  ASSUME Serial, ListingInv, LifeInv, EntryInv, [PluginNext]_pluginVars
  PROVE  ListingInv' /\ LifeInv' /\ EntryInv'
<1>1. ListingInv'
  <2>1. [Next]_vars  BY DEF PluginNext, pluginVars
  <2> QED  BY <2>1, ListingStep
<1>2. LifeInv'
  <2>1. Life!Next \/ UNCHANGED lifeVars  BY DEF PluginNext, pluginVars
  <2>2. UNCHANGED lifeVars => UNCHANGED Life!vars  BY DEF lifeVars, Life!vars
  <2> QED  BY <2>1, <2>2, ObjectAssumption, LifeStep
<1>3. EntryInv'
  <2>1. Entry!Next \/ UNCHANGED entryVars  BY DEF PluginNext, pluginVars
  <2>2. UNCHANGED entryVars => UNCHANGED Entry!vars  BY DEF entryVars, Entry!vars
  <2> QED  BY <2>1, <2>2, ObjectAssumption, EntryStep
<1> QED  BY <1>1, <1>2, <1>3

(* For a host that has one GetArchiveInfo and one AMP_Init at a time in     *)
(* flight: listings are exact and stay, no allocation of an archive handle  *)
(* survives it or goes missing but the tables of repeated properties, and   *)
(* the plug-in object is one and alive.                                     *)
THEOREM PluginSafety ==
  ASSUME Serial
  PROVE  PluginSpec => [](/\ ListingExact /\ PointersStay
                          /\ NothingLeft /\ HandleUsable /\ PluginSound)
<1> DEFINE All == ListingInv /\ LifeInv /\ EntryInv
<1>1. PluginInit => All
  BY ListingInit, EntryInit, LifeInit DEF PluginInit
<1>2. All /\ [PluginNext]_pluginVars => All'
  BY PluginKeeps
<1>3. All => /\ ListingExact /\ PointersStay
             /\ NothingLeft /\ HandleUsable /\ PluginSound
  BY InvImplies, EntrySound, LifeGood DEF NothingLeft, HandleUsable, PluginSound
<1> QED  BY <1>1, <1>2, <1>3, PTL DEF PluginSpec
=============================================================================
