----------------------------- MODULE PluginEntry -----------------------------
(* The exported functions (plugin/AX_7z.cpp) and DllMain                    *)
(* (plugin/dllmain.cpp): one global plug-in object, made by AMP_Init on     *)
(* demand and without a lock, used by every other call, deleted when the    *)
(* DLL is unloaded.                                                         *)
EXTENDS FiniteSets

CONSTANTS Threads,   \* threads of the host
          Objects,   \* addresses new may return
          Null,      \* nullptr
          SerialInit \* the host calls AMP_Init from one thread at a time

VARIABLES loaded,       \* the DLL is loaded
          g_p7zPlugin,
          live,         \* plug-in objects that are allocated
          info,         \* the AMP_PlugInInfo the host has: part of that object
          pc, self      \* of each thread: where it is, and "this"

vars == <<loaded, g_p7zPlugin, live, info, pc, self>>

Quiet == \A t \in Threads : pc[t] = "host"

Init == /\ loaded = FALSE /\ g_p7zPlugin = Null /\ live = {} /\ info = Null
        /\ pc = [t \in Threads |-> "host"]
        /\ self = [t \in Threads |-> Null]

Goto(t, from, to) == pc[t] = from /\ pc' = [pc EXCEPT ![t] = to]

(* DLL_PROCESS_ATTACH: the module handle and the CRC table are static data. *)
Attach == /\ ~loaded /\ loaded' = TRUE
          /\ UNCHANGED <<g_p7zPlugin, live, info, pc, self>>

(* Slip: AMP_Init makes an object every time.                               *)
InitTestAlways(t) ==
  /\ loaded /\ Goto(t, "host", "new")
  /\ SerialInit => \A u \in Threads : pc[u] # "new"
  /\ UNCHANGED <<loaded, g_p7zPlugin, live, info, self>>

(* AMP_Init                                                                 *)
InitTest(t) ==
  /\ loaded /\ Goto(t, "host", IF g_p7zPlugin = Null THEN "new" ELSE "host")
  /\ SerialInit => \A u \in Threads : pc[u] # "new"
  /\ UNCHANGED <<loaded, g_p7zPlugin, live, info, self>>

InitNew(t) ==
  /\ Goto(t, "new", "host")
  /\ \E p \in Objects \ live : live' = live \cup {p} /\ g_p7zPlugin' = p
  /\ UNCHANGED <<loaded, info, self>>

(* AMP_GetPlugInInfo                                                        *)
GetPlugInInfo(t) ==
  /\ loaded /\ pc[t] = "host"
  /\ info' = IF g_p7zPlugin = Null THEN info ELSE g_p7zPlugin
  /\ UNCHANGED <<loaded, g_p7zPlugin, live, pc, self>>

(* The other calls forward to the object, or fail without one.              *)
Enter(t) ==
  /\ loaded /\ g_p7zPlugin # Null
  /\ Goto(t, "host", "inside")
  /\ self' = [self EXCEPT ![t] = g_p7zPlugin]
  /\ UNCHANGED <<loaded, g_p7zPlugin, live, info>>

Leave(t) ==
  /\ Goto(t, "inside", "host")
  /\ self' = [self EXCEPT ![t] = Null]
  /\ UNCHANGED <<loaded, g_p7zPlugin, live, info>>

(* DLL_PROCESS_DETACH: the host unloads the DLL with no call in it, and     *)
(* forgets what it got from it.                                             *)
Detach ==
  /\ loaded /\ Quiet /\ loaded' = FALSE
  /\ live' = live \ {g_p7zPlugin} /\ g_p7zPlugin' = Null
  /\ info' = Null
  /\ UNCHANGED <<pc, self>>

Next == \/ Attach \/ Detach
        \/ \E t \in Threads : \/ InitTest(t) \/ InitNew(t) \/ GetPlugInInfo(t)
                              \/ Enter(t) \/ Leave(t)

Spec == Init /\ [][Next]_vars

-----------------------------------------------------------------------------
(* There is one plug-in object at most, the global pointer is the only way  *)
(* to it, and none is left when the DLL is gone: this rests on the host     *)
(* calling AMP_Init from one thread at a time.                              *)
OnePlugin == /\ live = {g_p7zPlugin} \ {Null}
             /\ ~loaded => live = {}

(* ... and what the host holds is alive as long as the DLL: the information block   *)
(* that lies in the object, and the object a call runs in.                  *)
PluginAlive == /\ info # Null => info \in live
               /\ \A t \in Threads : pc[t] = "inside" => self[t] \in live

(* Both: the object is one, and nobody holds a pointer to a dead one.       *)
PluginSound == OnePlugin /\ PluginAlive

=============================================================================
