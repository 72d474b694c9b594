--------------------------- MODULE DecodeService ---------------------------
(* What FileDecode promises its host (plugin/7zPlugin.h, README.md), with   *)
(* no cache, no lock and no memory: a call is answered once, with the bytes *)
(* of the entry asked for or with an error, and an error never leaves       *)
(* wrong bytes behind.                                                      *)
EXTENDS Naturals, Sequences

CONSTANTS Threads, Indices, Files, Content, Damaged,
          Untouched   \* the host's buffer or path before FileDecode uses it

VARIABLES status,   \* per thread: "idle", "pending" or "done"
          asked,    \* the request: index and mode
          answer,   \* the AMPE_ code returned
          result    \* what the host's buffer, or the file, holds

serviceVars == <<status, asked, answer, result>>

Modes == {"MEM", "FILE"}
Request == [index : Indices, mode : Modes]
NoRequest == [index |-> Untouched, mode |-> "none"]

Prefixes(s) == {SubSeq(s, 1, n) : n \in 0 .. Len(s)}

ServiceInit ==
  /\ status = [t \in Threads |-> "idle"]
  /\ asked = [t \in Threads |-> NoRequest]
  /\ answer = [t \in Threads |-> "none"]
  /\ result = [t \in Threads |-> Untouched]

Ask(t, r) ==
  /\ status[t] = "idle"
  /\ status' = [status EXCEPT ![t] = "pending"]
  /\ asked' = [asked EXCEPT ![t] = r]
  /\ UNCHANGED <<answer, result>>

(* A call whose parameters do not select one of the two modes.              *)
Refuse(t) ==
  /\ status[t] = "idle"
  /\ status' = [status EXCEPT ![t] = "done"]
  /\ \E c \in {"AMPE_InvalidParam", "AMPE_Abort"} :
       answer' = [answer EXCEPT ![t] = c]
  /\ UNCHANGED <<asked, result>>

Deliver(t, code, bytes) ==
  /\ status[t] = "pending"
  /\ status' = [status EXCEPT ![t] = "done"]
  /\ answer' = [answer EXCEPT ![t] = code]
  /\ result' = [result EXCEPT ![t] = bytes]
  /\ UNCHANGED asked

(* Every byte of the entry, exactly.                                        *)
AnswerOK(t) ==
  /\ asked[t].index \in Files \ Damaged
  /\ Deliver(t, "AMPE_OK", Content[asked[t].index])

(* The entry could not be extracted: the host's buffer is as it was.        *)
AnswerError(t) == Deliver(t, "AMPE_Error", Untouched)

(* The entry was extracted but not written: at most a prefix of it is.      *)
AnswerWriteError(t) ==
  /\ asked[t].mode = "FILE"
  /\ asked[t].index \in Files \ Damaged
  /\ \E b \in Prefixes(Content[asked[t].index]) \cup {Untouched} :
       Deliver(t, "AMPE_WriteError", b)

(* The host has looked at the answer and may call again.                    *)
Take(t) ==
  /\ status[t] = "done"
  /\ status' = [status EXCEPT ![t] = "idle"]
  /\ asked' = [asked EXCEPT ![t] = NoRequest]
  /\ answer' = [answer EXCEPT ![t] = "none"]
  /\ result' = [result EXCEPT ![t] = Untouched]

ServiceNext ==
  \E t \in Threads :
    \/ \E r \in Request : Ask(t, r)
    \/ Refuse(t)
    \/ AnswerOK(t) \/ AnswerError(t) \/ AnswerWriteError(t)
    \/ Take(t)

ServiceSpec == ServiceInit /\ [][ServiceNext]_serviceVars
=============================================================================
