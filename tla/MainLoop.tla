------------------------------ MODULE MainLoop ------------------------------
(***************************************************************************)
(* NesfrVR::_mainLoop and the try block, the handlers and the releases of  *)
(* NesfrVR::run around it: connect to the headset, build the pipelines,    *)
(* announce the robot, carry out PLAY and STOP until the connection ends,  *)
(* and start over while system_on.                                         *)
(*                                                                         *)
(* Four actors: the main thread (one action per call, `pc` is the call it  *)
(* is about to make), the headset, the signals, and the rover's control    *)
(* thread, which clears system_on when it fails.  A signal handler throws, *)
(* so a signal takes the main thread from wherever it is to the catch      *)
(* clauses; the handler never returns, so that signal stays masked in the  *)
(* main thread from then on, and goes to another thread when it comes      *)
(* again.                                                                  *)
(***************************************************************************)
EXTENDS VideoStreamer, CtrlClient

CONSTANTS
    Signals,        \* the signals that may arrive: SIGINT, SIGHUP, SIGTERM
    RoverPresent,   \* rover_controller_ptr is not null
    AudioMayFail    \* playing an audio guide can fail

ASSUME MainLoopAssumption ==
    /\ RoverPresent \in BOOLEAN
    /\ AudioMayFail \in BOOLEAN

VARIABLES
    pc,             \* the call the main thread is about to make
    system_on,      \* NesfrVR::system_on, shared with the rover's thread
    stream_state,   \* NesfrVR::stream_state, kept from session to session
    masked          \* signals whose handler has thrown in the main thread

vars == <<streamer_vars, client_vars, pc, system_on, stream_state, masked>>

\* The calls of _mainLoop, in the order of the code.
Connecting == {"init", "conn", "guide"}
Announcing == {"register", "property", "property_data", "destination",
               "destination_data", "announce"}
Serving    == {"inner", "read", "play", "stop", "answer", "eof", "close"}
InLoop     == Connecting \cup {"gst"} \cup Announcing \cup Serving
                         \cup {"teardown"}
\* run() after the try block, and the ways to be through with it.
Releasing  == {"final_gst", "final_conn"}
Ended      == {"done", "escaped", "killed"}

\* The calls that walk the pipelines; anywhere else the cursor is at its start.
Walking == {"gst", "play", "stop", "eof", "teardown", "final_gst"}

TypeOK ==
    /\ StreamerTypeOK
    /\ ClientTypeOK
    /\ pc \in InLoop \cup Releasing \cup Ended
    /\ system_on \in BOOLEAN
    /\ stream_state \in {0, 1}
    /\ masked \subseteq Signals

Init ==
    /\ StreamerInit
    /\ ClientInit
    /\ pc = "init"
    /\ system_on = TRUE
    /\ stream_state = 0
    /\ masked = {}

Goto(label) == pc' = label

\* Mutant of LeaveLoop: the stop() is forgotten.
LeaveLoopWithoutStop == pc' = "final_gst" /\ UNCHANGED system_on

\* _mainLoop returns, whatever the value, and run() calls stop().
LeaveLoop == pc' = "final_gst" /\ system_on' = FALSE

-----------------------------------------------------------------------------
(* Connecting. *)

OuterLoopEnds ==
    /\ pc = "init"
    /\ ~system_on
    /\ LeaveLoop
    /\ UNCHANGED <<streamer_vars, client_vars, stream_state, masked>>

OpenSocket ==
    /\ pc = "init"
    /\ system_on
    /\ \/ InitSocket /\ Goto("conn") /\ UNCHANGED system_on
       \/ InitSocketFails /\ LeaveLoop
    /\ UNCHANGED <<streamer_vars, stream_state, masked>>

Connect ==
    /\ pc = "conn"
    /\ \/ Connected /\ Goto("gst")
       \/ ConnectFails /\ Goto("guide")
    /\ UNCHANGED <<streamer_vars, system_on, stream_state, masked>>

\* The headset is not there: say so, sleep and `continue`.
CouldntConnectGuide ==
    /\ pc = "guide"
    /\ \/ Goto("init") /\ UNCHANGED system_on
       \/ AudioMayFail /\ LeaveLoop
    /\ UNCHANGED <<streamer_vars, client_vars, stream_state, masked>>

InitGStreamer ==
    /\ pc = "gst"
    /\ \/ /\ SkipPipeline \/ ConstructPipeline
          /\ Goto(IF AtLast THEN "register" ELSE "gst")
          /\ UNCHANGED system_on
       \/ ConstructFails /\ LeaveLoop
    /\ UNCHANGED <<client_vars, stream_state, masked>>

-----------------------------------------------------------------------------
(* Writing to the headset. *)

\* One _write(): on success the main thread goes on, a failure ends the loop,
\* a SIGPIPE the process.
Write(state, next) ==
    /\ \/ Sent(state) /\ Goto(next) /\ UNCHANGED system_on
       \/ SendFails /\ LeaveLoop
       \/ SendKills /\ Goto("killed") /\ UNCHANGED system_on
    /\ UNCHANGED <<streamer_vars, stream_state, masked>>

WriteRegister     == pc = "register" /\ Write(told, "property")
WriteProperty     == pc = "property" /\ Write(told, "property_data")
WritePropertyData ==
    /\ pc = "property_data"
    /\ Write(told, IF RoverPresent THEN "destination" ELSE "announce")
WriteDestination     == pc = "destination" /\ Write(told, "destination_data")
WriteDestinationData == pc = "destination_data" /\ Write(told, "announce")
WriteStreamState     == pc = "announce" /\ Write(stream_state, "inner")

Announce ==
    \/ WriteRegister
    \/ WriteProperty
    \/ WritePropertyData
    \/ WriteDestination
    \/ WriteDestinationData
    \/ WriteStreamState

-----------------------------------------------------------------------------
(* Serving commands. *)

\* Mutant of InnerLoop: system_on is not tested.
InnerLoopForever ==
    /\ pc = "inner"
    /\ Goto("read")
    /\ UNCHANGED <<streamer_vars, client_vars, system_on, stream_state, masked>>

\* The test of the inner while; once in _read() nobody looks at system_on.
InnerLoop ==
    /\ pc = "inner"
    /\ Goto(IF system_on THEN "read" ELSE "teardown")
    /\ UNCHANGED <<streamer_vars, client_vars, system_on, stream_state, masked>>

\* A recv() of readcmd() gave a command.
TakeCommand ==
    \/ /\ ReadCommand("PLAY")
       /\ stream_state' = 1
       /\ Goto("play")
    \/ /\ ReadCommand("STOP")
       /\ stream_state' = 0
       /\ Goto("stop")
    \/ /\ ReadCommand("NONE")
       /\ Goto("inner")
       /\ UNCHANGED stream_state

\* Mutant of ReadCmd: the end of the connection is taken for an error.
ReadCmdIgnoringEnd ==
    /\ pc = "read"
    /\ \/ TakeCommand
       \/ /\ ReadFails \/ ReadEnd
          /\ Goto("inner")
          /\ UNCHANGED stream_state
    /\ UNCHANGED <<streamer_vars, system_on, masked>>

ReadCmd ==
    /\ pc = "read"
    /\ \/ TakeCommand
       \/ /\ ReadFails
          /\ Goto("inner")
          /\ UNCHANGED stream_state
       \/ /\ ReadEnd
          /\ stream_state' = 0
          /\ Goto("eof")
    /\ UNCHANGED <<streamer_vars, system_on, masked>>

\* Mutant of PlayStream: its result is ignored, as VideoStreamer::run does.
PlayStreamUnchecked ==
    /\ pc = "play"
    /\ \/ SetState("PLAYING") /\ Goto(IF AtLast THEN "answer" ELSE "play")
       \/ SetStateFails /\ Goto("answer")
    /\ UNCHANGED <<client_vars, system_on, stream_state, masked>>

PlayStream ==
    /\ pc = "play"
    /\ \/ /\ SetState("PLAYING")
          /\ Goto(IF AtLast THEN "answer" ELSE "play")
          /\ UNCHANGED system_on
       \/ SetStateFails /\ LeaveLoop
    /\ UNCHANGED <<client_vars, stream_state, masked>>

\* Mutant of StopStream: only the first pipeline is paused.
StopStreamFirstOnly ==
    /\ pc = "stop"
    /\ \/ SetState("PAUSED") /\ Goto("answer") /\ UNCHANGED system_on
       \/ SetStateFails /\ LeaveLoop
    /\ UNCHANGED <<client_vars, stream_state, masked>>

StopStream ==
    /\ pc = "stop"
    /\ \/ /\ SetState("PAUSED")
          /\ Goto(IF AtLast THEN "answer" ELSE "stop")
          /\ UNCHANGED system_on
       \/ SetStateFails /\ LeaveLoop
    /\ UNCHANGED <<client_vars, stream_state, masked>>

Answer == pc = "answer" /\ Write(stream_state, "inner")

\* The connection is closed: stopStream() with its result ignored.
StopAtEnd ==
    /\ pc = "eof"
    /\ \/ SetState("PAUSED") /\ Goto(IF AtLast THEN "close" ELSE "eof")
       \/ SetStateFails /\ Goto("close")
    /\ UNCHANGED <<client_vars, system_on, stream_state, masked>>

\* Mutant of CloseSession: `continue` of the outer loop in place of `break`.
CloseSessionContinuing ==
    /\ pc = "close"
    /\ DeinitSocket
    /\ Goto("init")
    /\ UNCHANGED <<streamer_vars, system_on, stream_state, masked>>

CloseSession ==
    /\ pc = "close"
    /\ DeinitSocket
    /\ Goto("teardown")
    /\ UNCHANGED <<streamer_vars, system_on, stream_state, masked>>

\* deinitGStreamer() always returns 0, so its error branch is not modelled.
DeinitGStreamer ==
    /\ pc = "teardown"
    /\ DropPipeline
    /\ Goto(IF AtLast THEN "init" ELSE "teardown")
    /\ UNCHANGED <<client_vars, system_on, stream_state, masked>>

-----------------------------------------------------------------------------
(* run() after the loop. *)

FinalDeinitGStreamer ==
    /\ pc = "final_gst"
    /\ DropPipeline
    /\ Goto(IF AtLast THEN "final_conn" ELSE "final_gst")
    /\ UNCHANGED <<client_vars, system_on, stream_state, masked>>

FinalDeinitConn ==
    /\ pc = "final_conn"
    /\ DeinitSocket
    /\ Goto("done")
    /\ UNCHANGED <<streamer_vars, system_on, stream_state, masked>>

-----------------------------------------------------------------------------
(* Signals and the rover's thread. *)

\* Mutant of SignalInLoop: the handler returns without throwing.
SignalReturning(s) ==
    /\ pc \in InLoop
    /\ s \in Signals \ masked
    /\ masked' = masked \cup {s}
    /\ UNCHANGED <<streamer_vars, client_vars, pc, system_on, stream_state>>

\* The handler throws; a catch clause of run() calls stop().
SignalInLoop(s) ==
    /\ pc \in InLoop
    /\ s \in Signals \ masked
    /\ masked' = masked \cup {s}
    /\ Abandon
    /\ LeaveLoop
    /\ UNCHANGED <<pipeline, client_vars, stream_state>>

\* A second signal of another number leaves run() itself; main() catches it.
SignalInRelease(s) ==
    /\ pc \in Releasing
    /\ s \in Signals \ masked
    /\ masked' = masked \cup {s}
    /\ Abandon
    /\ Goto("escaped")
    /\ UNCHANGED <<pipeline, client_vars, system_on, stream_state>>

\* A signal comes again: the main thread has it masked, so another thread gets
\* it, one of GStreamer's or the rover's, whose frames nothing may be thrown
\* through.  (Where the rover's thread catches it, it ends, as it does anyway.)
SignalElsewhere(s) ==
    /\ pc \in Releasing
    /\ s \in masked
    /\ RoverPresent \/ \E p \in Pipelines : pipeline[p] \in {"PAUSED", "PLAYING"}
    /\ Abandon
    /\ Goto("killed")
    /\ UNCHANGED <<pipeline, client_vars, system_on, stream_state, masked>>

\* The catch clause of the rover's control thread.
RoverThreadFails ==
    /\ RoverPresent
    /\ pc \notin Ended
    /\ system_on
    /\ system_on' = FALSE
    /\ UNCHANGED <<streamer_vars, client_vars, pc, stream_state, masked>>

HeadsetActs ==
    /\ pc \notin Ended
    /\ Headset
    /\ UNCHANGED <<streamer_vars, pc, system_on, stream_state, masked>>

Terminated == pc \in Ended /\ UNCHANGED vars

-----------------------------------------------------------------------------

MainThread ==
    \/ OuterLoopEnds
    \/ OpenSocket
    \/ Connect
    \/ CouldntConnectGuide
    \/ InitGStreamer
    \/ Announce
    \/ InnerLoop
    \/ ReadCmd
    \/ PlayStream
    \/ StopStream
    \/ Answer
    \/ StopAtEnd
    \/ CloseSession
    \/ DeinitGStreamer
    \/ FinalDeinitGStreamer
    \/ FinalDeinitConn

Next ==
    \/ MainThread
    \/ \E s \in Signals :
           SignalInLoop(s) \/ SignalInRelease(s) \/ SignalElsewhere(s)
    \/ RoverThreadFails
    \/ HeadsetActs
    \/ Terminated

Spec == Init /\ [][Next]_vars

\* The main thread runs; nothing is promised of the headset and the signals.
FairSpec == Spec /\ WF_vars(MainThread)
-----------------------------------------------------------------------------
(* Properties. *)

\* What the headset was told last is what is happening: between commands the
\* announced state is stream_state, after "1" every configured pipeline plays
\* and after "0" none does (NesfrVR.cpp announces after playStream/stopStream,
\* and only when they succeeded).
AnnouncedStateHolds ==
    pc \in {"inner", "read"} =>
        /\ told = stream_state
        /\ told = 1 => AllPlaying
        /\ told = 0 => NonePlaying

\* initGStreamer never meets a pipeline of an earlier session: its
\* "already constructed" returns (VideoStreamer.cpp) cannot be taken, and
\* nothing is streamed or held while there is no headset.
FreshPipelines ==
    /\ pc \in Connecting => NoPipelines
    /\ pc = "gst" => \A p \in cursor .. audio_out : pipeline[p] = "nullptr"

\* stream_state outlives the session, yet every session is announced as
\* stopped, to a headset that was told nothing yet, with the configured
\* pipelines built and none of them started.
SessionStartsStopped ==
    pc \in Announcing =>
        /\ stream_state = 0
        /\ told = NotTold
        /\ \A p \in Pipelines :
               pipeline[p] = IF p \in Wanted THEN "NULL" ELSE "nullptr"

\* No call is made on a descriptor that is closed, or of an earlier session.
SocketIsLive ==
    /\ pc = "conn" => sockfd \in open /\ link = "none"
    /\ pc \in {"gst"} \cup Announcing \cup Serving =>
           sockfd \in open /\ link # "none"

\* However run() was left early, when it gets to _deinit() nothing streams
\* any more, the connection is closed and the rover's thread was told to end.
\* (A process that was killed does not get there.)
ReleasedAtExit ==
    pc = "done" => NoPipelines /\ sockfd = NoFd /\ link = "none" /\ ~system_on

\* A connection that was made is never forgotten: the step that gives it up
\* closes its descriptor (the descriptors of refused connects are another
\* matter, see RefusedConnectIsRetried).
SessionSocketReleased ==
    [][link # "none" /\ link' = "none" => sockfd \notin open']_vars

\* A signal, at whatever call it finds the main thread, ends the run.
SignalEndsRun == masked # {} ~> pc \in Ended

\* When the headset is gone, by close or reset, whatever it sent before, the
\* streamer gives up every pipeline that plays to it, at the latest because the
\* process ends.  (What GStreamer does with a pipeline that is dropped while it
\* plays is not modelled.)
GoneHeadsetStopsStreaming == HeadsetGone ~> (NonePlaying \/ pc \in Ended)

\* When the rover's thread clears system_on the loop ends, except that _read()
\* goes on waiting for as long as the headset stays and says nothing.
Waiting == pc = "read" /\ inbox = <<>> /\ link = "up"
ShutdownNoticed == ~system_on ~> (pc \in Ended \/ []Waiting)

\* "connectto() failed retry after 1 sec" (NesfrVR.cpp:313): after a refused
\* connect the program comes to connect again.
RefusedConnectIsRetried == pc = "guide" ~> pc = "conn"

\* How many calls may be left once system_on is cleared, with the last pipeline
\* of a walk for the whole walk: nothing new is started, but a command that is
\* being read is obeyed.
CallsBehind ==
    [done |-> 0, escaped |-> 0, killed |-> 0,
     final_conn |-> 1, final_gst |-> 2,
     init |-> 7, guide |-> 8, teardown |-> 8,
     close |-> 13, eof |-> 14,
     inner |-> 20, answer |-> 21, stop |-> 22, play |-> 22, read |-> 27,
     announce |-> 28, destination_data |-> 29, destination |-> 30,
     property_data |-> 31, property |-> 32, register |-> 33,
     gst |-> 34, conn |-> 39]

\* The pipelines of the running walk that come after the one at the cursor.
WalkLeft == IF pc \in Walking THEN audio_out - cursor ELSE 0

StepsToEnd == CallsBehind[pc] + WalkLeft

\* When the headset is gone every read counts: it takes a command that was sent
\* before, for which there are eight calls, or the reset, or the end.
StepsToNotice ==
    (IF pc = "read" THEN 19 ELSE CallsBehind[pc])
        + WalkLeft + 8 * Len(inbox) + (IF link = "reset" THEN 2 ELSE 0)

\* Once system_on is cleared it stays so and the main thread is at most 39 calls
\* from the end: each brings it nearer, and neither the headset nor a signal
\* takes it back (NesfrVR.cpp:308, 367).  What is left of ShutdownNoticed and
\* SignalEndsRun is that it does go on.
StopCountsDown ==
    [][~system_on =>
           /\ ~system_on'
           /\ StepsToEnd' <= StepsToEnd
           /\ MainThread => StepsToEnd' < StepsToEnd]_vars

\* However many commands a headset has left behind when it goes, every call
\* brings the main thread nearer to the end of the session (NesfrVR.cpp:372):
\* no failed read, no answer that cannot be sent takes it round in circles.
GoneHeadsetCountsDown ==
    [][HeadsetGone /\ HeadsetGone' =>
           /\ StepsToNotice' <= StepsToNotice
           /\ MainThread => StepsToNotice' < StepsToNotice]_vars

-----------------------------------------------------------------------------
(* The service the headset is given, see StreamSession. *)

\* The inner loop was left because of system_on: nobody tells the headset, but
\* there will be no other session.
ShuttingDown == pc \in {"teardown", "init"} /\ link # "none"

InSession == pc \in InLoop /\ ~ShuttingDown

SessionState ==
    IF InSession THEN IF link = "none" THEN "closed" ELSE "open" ELSE "over"

Doing ==
    IF pc \in Serving \ {"inner", "read"}
      THEN IF stream_state = 1 THEN "play" ELSE "stop"
      ELSE "nothing"

Told == IF InSession THEN told ELSE NotTold

Flow == IF NonePlaying THEN 0 ELSE IF AllPlaying THEN 2 ELSE 1

Session == INSTANCE StreamSession WITH
    session <- SessionState, doing <- Doing, told <- Told, flow <- Flow

\* The loop keeps the promises of StreamSession.
ImplementsSession == Session!Spec
=============================================================================
