------------------------------ MODULE MCThreads ------------------------------
(* What runs in several threads, each as a part of its own: the three parts   *)
(* of the SDK, and the handle of MCArchiveHandle, here for its liveness.      *)
EXTENDS MtCoder, MtDecoder, MatchFinderMt, MCArchiveHandle

CONSTANTS
  LiveStreams, LiveLengths, LiveSizes,  \* inputs for the liveness properties
  LaterLengths  \* ... for calls of MtCoder_Code behind the first

VARIABLES
  part,  \* the part that runs; the others stand still
  live   \* whether the inputs are those for the liveness properties

(* A failure with one block behind it; data behind the end mark; a block the  *)
(* parser cannot take; a stream that is cut off; bad data and a bad control   *)
(* byte in a later block; chunks that are larger than a block may be.         *)
MCStreams ==
  {<<"n", "d", "n", "d", "e">>, <<"n", "d", "d", "n", "d", "n", "d", "e">>,
   <<"n", "d", "n", "D", "n", "d", "e">>, <<"n", "d", "n", "d">>,
   <<"n", "d", "n", "b", "n", "d", "e">>, <<"n", "d", "d", "x">>, <<"e">>}
MCLiveStreams == {<<"n", "d", "n", "D", "n", "d", "e">>, <<"n", "d", "n", "d">>}
MCOutSizes == {Undefined, 2, 3}

sdkVars == <<coderVars, decoderVars, finderVars>>
partVars == <<part, live, sdkVars, vars>>

ThreadsInit ==
  /\ part \in {"coder", "decoder", "finder", "handle"} /\ live \in BOOLEAN
  /\ part = "handle" => live
  /\ CoderInit /\ DecoderInit /\ FinderInit /\ Init

CoderRuns == part = "coder" /\ UNCHANGED <<part, live, decoderVars, finderVars, vars>>
DecoderRuns == part = "decoder" /\ UNCHANGED <<part, live, coderVars, finderVars, vars>>
FinderRuns == part = "finder" /\ UNCHANGED <<part, live, coderVars, decoderVars, vars>>
HandleRuns == part = "handle" /\ UNCHANGED <<part, live, sdkVars>>

ThreadsNext ==
  \/ /\ CoderRuns /\ CoderNext
     /\ input'.size \in IF caller'.calls > 1 THEN IF live THEN LaterLengths ELSE {0}
                       ELSE IF live THEN LiveLengths ELSE Lengths
  \/ DecoderRuns /\ DecoderNext /\ (live => call'.stream \in LiveStreams /\ call'.calls = 1)
  \/ FinderRuns /\ FinderNext /\ (live => lz'.size \in LiveSizes \cup {0})
  \/ HandleRuns /\ Next

(* Some thread that can go on does; nothing is assumed of which.              *)
ThreadsGo ==
  \/ CoderRuns /\ live /\ CoderGoes
  \/ DecoderRuns /\ live /\ DecoderStep
  \/ FinderRuns /\ live /\ FinderStep
  \/ HandleRuns /\ CallGoes
ThreadsFair == WF_partVars(ThreadsGo)

ThreadsSpec == ThreadsInit /\ [][ThreadsNext]_partVars /\ ThreadsFair

(* Every call returns: the threads never all wait for each other, and the     *)
(* loops of a call end.  A call of FileDecode may starve behind others, but   *)
(* while calls wait, calls return.  (For the larger inputs this is not        *)
(* checked.)                                                                  *)
Waiting ==
  \/ part = "coder" /\ CodeWaits
  \/ part = "decoder" /\ DecodeWaits
  \/ part = "finder" /\ FinderWaits
  \/ part = "handle" /\ CallWaits
Answered == IF part = "handle" THEN CallReturned ELSE ~Waiting
ThreadsReturn == (live /\ Waiting) ~> Answered
=============================================================================
