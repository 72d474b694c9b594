--------------------------- MODULE ArchiveListing ---------------------------
(* GetArchiveInfo (plugin/7zPlugin.cpp:210-275): the listing of an archive  *)
(* in the vector ArchiveHandle::files.  The host keeps the pointer to its   *)
(* elements and reads it whenever it likes.  GetArchiveInfo takes no lock;  *)
(* its loops are cut at every entry.                                        *)
EXTENDS Naturals, Sequences, FiniteSets

CONSTANTS Threads,      \* threads of the host
          totalCount,   \* entries of the archive
          Stores,       \* addresses of the storage of a vector
          NoStore,      \* nullptr
          Serial        \* the host has one GetArchiveInfo at a time in flight

ASSUME ListingAssumption ==
  /\ totalCount \in Nat
  /\ NoStore \notin Stores
  /\ Serial \in BOOLEAN

Entries == 0 .. totalCount - 1

VARIABLES dirs,       \* entries SzArEx_IsDir holds for
          nameless,   \* entries getEntryInfo fails for: their name is too long
          files,      \* the elements of the vector
          store,      \* its storage
          capacity,   \* its capacity
          pc,         \* where each thread is in GetArchiveInfo
          srcIdx,     \* its loop variable
          info        \* the AMP_ArchiveInfo of its last call

archiveVars == <<dirs, nameless>>
vectorVars  == <<files, store, capacity>>
vars == <<archiveVars, vectorVars, pc, srcIdx, info>>

(* Counted by SevenZArchive::open; the entries GetArchiveInfo lists.        *)
fileCount == Cardinality(Entries \ dirs)
Listed    == Entries \ (dirs \cup nameless)

NoInfo == [nFiles |-> 0, pFiles |-> NoStore]
Busy == {"reserve", "visit"}

TypeOK ==
  /\ dirs \subseteq Entries /\ nameless \subseteq Entries
  /\ files \in Seq(Entries)
  /\ store \in Stores \cup {NoStore}
  /\ capacity \in Nat
  /\ pc \in [Threads -> {"idle"} \cup Busy]
  /\ srcIdx \in [Threads -> 0 .. totalCount]
  /\ info \in [Threads -> [nFiles : Nat, pFiles : Stores \cup {NoStore}]]

-----------------------------------------------------------------------------
Init ==
  /\ dirs \in SUBSET Entries
  /\ nameless \in SUBSET Entries
  /\ files = << >> /\ store = NoStore /\ capacity = 0
  /\ pc = [t \in Threads |-> "idle"]
  /\ srcIdx = [t \in Threads |-> 0]
  /\ info = [t \in Threads |-> NoInfo]

Quiet == \A t \in Threads : pc[t] \notin Busy

(* The vector moves to new storage.                                         *)
Grow(n) == store' \in Stores \ {store} /\ capacity' = n

Goto(t, from, to) == pc[t] = from /\ pc' = [pc EXCEPT ![t] = to]

(* Slip: the vector gives its storage back.                                 *)
ClearReleases(t) ==
  /\ Serial => Quiet
  /\ Goto(t, "idle", IF fileCount = 0 THEN "idle" ELSE "reserve")
  /\ files' = << >>
  /\ store' = NoStore /\ capacity' = 0
  /\ info' = IF fileCount = 0 THEN [info EXCEPT ![t] = NoInfo] ELSE info
  /\ UNCHANGED <<archiveVars, srcIdx>>

(* files.clear() keeps the storage.  An archive without files is answered   *)
(* at once.                                                                 *)
Clear(t) ==
  /\ Serial => Quiet
  /\ Goto(t, "idle", IF fileCount = 0 THEN "idle" ELSE "reserve")
  /\ files' = << >>
  /\ info' = IF fileCount = 0 THEN [info EXCEPT ![t] = NoInfo] ELSE info
  /\ UNCHANGED <<archiveVars, store, capacity, srcIdx>>

(* files.reserve(fileCount), which may throw.                               *)
Reserve(t) ==
  /\ Goto(t, "reserve", "visit")
  /\ IF capacity < fileCount THEN Grow(fileCount) ELSE UNCHANGED <<store, capacity>>
  /\ srcIdx' = [srcIdx EXCEPT ![t] = 0]
  /\ UNCHANGED <<archiveVars, files, info>>

ReserveFails(t) ==
  /\ Goto(t, "reserve", "idle")
  /\ capacity < fileCount
  /\ UNCHANGED <<archiveVars, vectorVars, srcIdx, info>>

(* Slip: directories are listed as well.                                    *)
VisitAll(t) ==
  /\ Goto(t, "visit", "visit")
  /\ srcIdx[t] < totalCount
  /\ files' = Append(files, srcIdx[t])
  /\ IF Len(files) = capacity THEN Grow(capacity + (capacity \div 2) + 1)
     ELSE UNCHANGED <<store, capacity>>
  /\ srcIdx' = [srcIdx EXCEPT ![t] = @ + 1]
  /\ UNCHANGED <<archiveVars, info>>

(* The loop body for one entry; push_back moves a full vector.              *)
Visit(t) ==
  /\ Goto(t, "visit", "visit")
  /\ srcIdx[t] < totalCount
  /\ IF srcIdx[t] \in Listed
     THEN /\ files' = Append(files, srcIdx[t])
          /\ IF Len(files) = capacity THEN Grow(capacity + (capacity \div 2) + 1)
             ELSE UNCHANGED <<store, capacity>>
     ELSE UNCHANGED vectorVars
  /\ srcIdx' = [srcIdx EXCEPT ![t] = @ + 1]
  /\ UNCHANGED <<archiveVars, info>>

Publish(t) ==
  /\ Goto(t, "visit", "idle")
  /\ srcIdx[t] = totalCount
  /\ info' = [info EXCEPT ![t] = [nFiles |-> Len(files), pFiles |-> store]]
  /\ UNCHANGED <<archiveVars, vectorVars, srcIdx>>

(* CloseArchive and OpenArchive: a new handle, and the host forgets what it *)
(* knew of the old one.                                                     *)
OpenArchive ==
  /\ Quiet
  /\ dirs' \in SUBSET Entries
  /\ nameless' \in SUBSET Entries
  /\ files' = << >> /\ store' = NoStore /\ capacity' = 0
  /\ info' = [t \in Threads |-> NoInfo]
  /\ UNCHANGED <<pc, srcIdx>>

Next ==
  \/ OpenArchive
  \/ \E t \in Threads :
       Clear(t) \/ Reserve(t) \/ ReserveFails(t) \/ Visit(t) \/ Publish(t)

Spec == Init /\ [][Next]_vars

-----------------------------------------------------------------------------
(* What a thread finds behind the pointer it was given.                     *)
Sees(t) == SubSeq(files, 1, info[t].nFiles)

(* The listing holds the files of the archive once each, in archive order:  *)
(* the host looks entries up by position and decodes them by their index.   *)
Complete(s) ==
  /\ \A j, k \in 1 .. Len(s) : j < k => s[j] < s[k]
  /\ {s[k] : k \in 1 .. Len(s)} = Listed

ListingExact ==
  Quiet => \A t \in Threads : info[t].pFiles # NoStore =>
    /\ info[t].nFiles <= Len(files)
    /\ Complete(Sees(t))

(* A pointer the host was given stays good until the archive is closed,     *)
(* also when another GetArchiveInfo builds the listing anew.                *)
PointersStay ==
  \A t \in Threads : info[t].pFiles # NoStore => info[t].pFiles = store
=============================================================================
