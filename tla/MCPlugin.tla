------------------------------- MODULE MCPlugin -------------------------------
(* The parts of the plug-in that run by themselves: the listing, and beside *)
(* it the decode cache, the allocations of an archive and the entry points. *)
EXTENDS ArchiveListing, DecodeCache

CONSTANTS LifeAddr, Objects

(* new and malloc do not return nullptr, apart from failing.                *)
ASSUME ObjectAssumption == Null \notin LifeAddr \cup Objects

VARIABLES part,              \* the part that runs; the others stand still
          heap, ptr, fault, fileOpen, isOpen, lifePc, lost,
          loaded, g_p7zPlugin, live, plugInfo, entryPc, self

Life == INSTANCE ArchiveLife WITH Addr <- LifeAddr, pc <- lifePc
Entry == INSTANCE PluginEntry
           WITH info <- plugInfo, pc <- entryPc, SerialInit <- Serial

-----------------------------------------------------------------------------
lifeVars == <<heap, ptr, fault, fileOpen, isOpen, lifePc, lost>>
entryVars == <<loaded, g_p7zPlugin, live, plugInfo, entryPc, self>>

PluginInit ==
  /\ part \in {"listing", "cache", "life", "entry"}
  /\ Init /\ CacheInit /\ Life!Init /\ Entry!Init
  /\ part # "listing" => dirs = {} /\ nameless = {}
PluginNext ==
  /\ UNCHANGED part
  /\ \/ part = "listing" /\ Next
        /\ UNCHANGED <<cacheVars, lifeVars, entryVars>>
     \/ part = "cache" /\ CacheNext
        /\ UNCHANGED <<vars, lifeVars, entryVars>>
     \/ part = "life" /\ Life!Next
        /\ UNCHANGED <<vars, cacheVars, entryVars>>
     \/ part = "entry" /\ Entry!Next
        /\ UNCHANGED <<vars, cacheVars, lifeVars>>
pluginVars == <<part, vars, cacheVars, lifeVars, entryVars>>
PluginSpec == PluginInit /\ [][PluginNext]_pluginVars

(* The properties of ArchiveLife and PluginEntry, see there.                *)
NothingLeft == Life!NothingLeft
HandleUsable == Life!HandleUsable
AllFreed == Life!AllFreed
PluginSound == Entry!PluginSound
=============================================================================
