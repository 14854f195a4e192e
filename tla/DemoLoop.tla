------------------------------ MODULE DemoLoop ------------------------------
(***************************************************************************)
(* The two programs of the repository that stream without the rest of the  *)
(* robot: VideoStreamTest, which is main() around VideoStreamer::run, and  *)
(* video_stream, the single-file demo VideoStreamer was made from.  Both   *)
(* are the loop of MainLoop in an earlier form: one signal, no rover,      *)
(* nobody to clear system_on, and the result of a state change is not      *)
(* looked at.  They differ in how long a pipeline lives:                   *)
(*   VideoStreamTest  builds the pipelines when a headset has connected,   *)
(*                    drops them when it has gone, and drops the pointer   *)
(*                    of one whose state change failed;                    *)
(*   video_stream     builds them once, before the loop, those whose       *)
(*                    camera is there, and keeps them to the end.          *)
(***************************************************************************)
EXTENDS VideoStreamer, CtrlClient

VARIABLES
    program,        \* which of the two runs
    pc,             \* the call the main thread is about to make
    stream_state,   \* the local of run() and of main_loop()
    interrupted,    \* SIGINT's handler has thrown in the main thread
    failed          \* history: the state change of a pipeline has failed

vars == <<streamer_vars, client_vars,
          program, pc, stream_state, interrupted, failed>>

Programs == {"VideoStreamTest", "video_stream"}

\* The calls before the try block, in it, and behind it.
Before     == {"devices", "build"}
Announcing == {"register", "property", "property_data", "announce"}
Serving    == {"read", "play", "stop", "answer", "eof", "close"}
InLoop     == {"init", "conn", "gst"} \cup Announcing \cup Serving
                                      \cup {"teardown"}
Releasing  == {"final_conn", "final_gst"}
Ended      == {"done", "gave_up", "killed"}

\* The calls that walk the pipelines; anywhere else the cursor is at its start.
Walking == {"build", "gst", "play", "stop", "eof", "teardown", "final_gst"}

TypeOK ==
    /\ StreamerTypeOK
    /\ ClientTypeOK
    /\ program \in Programs
    /\ pc \in Before \cup InLoop \cup Releasing \cup Ended
    /\ stream_state \in {0, 1}
    /\ interrupted \in BOOLEAN
    /\ failed \in BOOLEAN

\* VideoStreamTest is the one with a VideoStreamer.
HasStreamer == program = "VideoStreamTest"

Init ==
    /\ StreamerInit
    /\ ClientInit
    /\ program \in Programs
    /\ pc = IF HasStreamer THEN "devices" ELSE "build"
    /\ stream_state = 0
    /\ interrupted = FALSE
    /\ failed = FALSE

Goto(label) == pc' = label

\* run() or main_loop() returns, whatever the value.
LeaveLoop == Goto("final_conn")

-----------------------------------------------------------------------------
(* Before the loop. *)

\* VideoStreamTest: initDevices() finds the eyes, or main() returns -1.
InitDevices ==
    /\ pc = "devices"
    /\ Goto("init") \/ Goto("gave_up")
    /\ UNCHANGED <<streamer_vars, client_vars,
                   program, stream_state, interrupted, failed>>

\* video_stream has no pipeline for sound from the headset.
Launchable ==
    {p \in Pipelines \ {audio_out} : p = stereo_right => stereo_flag}

\* video_stream: init_gstreamer() launches a pipeline, or does without it when
\* there is no such camera (in mono mode, no look for the right one), or gives
\* up when the eye cannot be configured.
LaunchPipeline ==
    /\ pc = "build"
    /\ \/ /\ cursor \in Launchable
          /\ pipeline' = [pipeline EXCEPT ![cursor] = "NULL"]
          /\ Advance
          /\ Goto("build")
       \/ /\ cursor \in {stereo_left, stereo_right, main_camera}
          /\ Advance
          /\ Goto("build")
          /\ UNCHANGED pipeline
       \/ /\ cursor \in Launchable \cap {stereo_left, stereo_right}
          /\ Abandon
          /\ Goto("gave_up")
          /\ UNCHANGED pipeline
    /\ UNCHANGED <<client_vars, program, stream_state, interrupted, failed>>

\* The parse errors are looked at when all are launched, and g_error() aborts.
CheckLaunched ==
    /\ pc = "build"
    /\ AtLast
    /\ Advance
    /\ Goto("init") \/ Goto("killed")
    /\ UNCHANGED <<pipeline, client_vars,
                   program, stream_state, interrupted, failed>>

-----------------------------------------------------------------------------
(* Connecting and announcing. *)

OpenSocket ==
    /\ pc = "init"
    /\ \/ InitSocket /\ Goto("conn")
       \/ InitSocketFails /\ LeaveLoop
    /\ UNCHANGED <<streamer_vars, program, stream_state, interrupted, failed>>

\* A refused connect is retried after a second, and leaves its descriptor open.
Connect ==
    /\ pc = "conn"
    /\ \/ Connected /\ Goto(IF HasStreamer THEN "gst" ELSE "register")
       \/ ConnectFails /\ Goto("init")
    /\ UNCHANGED <<streamer_vars, program, stream_state, interrupted, failed>>

\* VideoStreamTest: the pipelines of a session.
InitGStreamer ==
    /\ pc = "gst"
    /\ \/ /\ SkipPipeline \/ ConstructPipeline
          /\ Goto(IF AtLast THEN "register" ELSE "gst")
       \/ ConstructFails /\ LeaveLoop
    /\ UNCHANGED <<client_vars, program, stream_state, interrupted, failed>>

\* One _write(): a failure ends the loop, a SIGPIPE the process.
Write(state, next) ==
    /\ \/ Sent(state) /\ Goto(next)
       \/ SendFails /\ LeaveLoop
       \/ SendKills /\ Goto("killed")
    /\ UNCHANGED <<streamer_vars, program, stream_state, interrupted, failed>>

\* video_stream sends no camera property.
WriteRegister ==
    /\ pc = "register"
    /\ Write(told, IF HasStreamer THEN "property" ELSE "announce")
WriteProperty     == pc = "property" /\ Write(told, "property_data")
WritePropertyData == pc = "property_data" /\ Write(told, "announce")
WriteStreamState  == pc = "announce" /\ Write(stream_state, "read")

Announce ==
    WriteRegister \/ WriteProperty \/ WritePropertyData \/ WriteStreamState

-----------------------------------------------------------------------------
(* Serving commands. *)

\* A recv() of readcmd() gave a command.
TakeCommand ==
    \/ ReadCommand("PLAY") /\ stream_state' = 1 /\ Goto("play")
    \/ ReadCommand("STOP") /\ stream_state' = 0 /\ Goto("stop")
    \/ ReadCommand("NONE") /\ UNCHANGED <<stream_state, pc>>

\* Mutant of ReadCmd: the end of the connection is taken for an error.
ReadCmdIgnoringEnd ==
    /\ pc = "read"
    /\ TakeCommand \/ ((ReadFails \/ ReadEnd) /\ UNCHANGED <<stream_state, pc>>)
    /\ UNCHANGED <<streamer_vars, program, interrupted, failed>>

\* Mutant of ReadCmd: stream_state is not reset when the connection ends.
ReadCmdKeepingState ==
    /\ pc = "read"
    /\ \/ TakeCommand
       \/ ReadFails /\ UNCHANGED <<stream_state, pc>>
       \/ ReadEnd /\ Goto("eof") /\ UNCHANGED stream_state
    /\ UNCHANGED <<streamer_vars, program, interrupted, failed>>

ReadCmd ==
    /\ pc = "read"
    /\ \/ TakeCommand
       \/ ReadFails /\ UNCHANGED <<stream_state, pc>>
       \/ ReadEnd /\ stream_state' = 0 /\ Goto("eof")
    /\ UNCHANGED <<streamer_vars, program, interrupted, failed>>

\* Mutant of ChangeFails: the pipeline that failed is tried again.
ChangeFailsRetrying(next) ==
    /\ failed' = TRUE
    /\ pipeline[cursor] # "nullptr"
    /\ UNCHANGED <<streamer_vars, pc>>

\* A state change fails and the program goes on: playStream() and stopStream()
\* drop the pointer and leave out the pipelines behind it, video_stream keeps
\* the pipeline and goes on with the next.
ChangeFails(next) ==
    /\ failed' = TRUE
    /\ \/ HasStreamer /\ SetStateFails /\ Goto(next)
       \/ /\ ~HasStreamer
          /\ pipeline[cursor] # "nullptr"
          /\ Advance
          /\ Goto(IF AtLast THEN next ELSE pc)
          /\ UNCHANGED pipeline

\* One pipeline is set to the target state.
ChangeState(target, next) ==
    /\ \/ /\ SetState(target)
          /\ Goto(IF AtLast THEN next ELSE pc)
          /\ UNCHANGED failed
       \/ ChangeFails(next)
    /\ UNCHANGED <<client_vars, program, stream_state, interrupted>>

PlayStream == pc = "play" /\ ChangeState("PLAYING", "answer")
StopStream == pc = "stop" /\ ChangeState("PAUSED", "answer")
Answer     == pc = "answer" /\ Write(stream_state, "read")
StopAtEnd  == pc = "eof" /\ ChangeState("PAUSED", "close")

\* Mutant of CloseSession: `continue` of the outer loop in place of `break`.
CloseSessionContinuing ==
    /\ pc = "close"
    /\ DeinitSocket
    /\ Goto("init")
    /\ UNCHANGED <<streamer_vars, program, stream_state, interrupted, failed>>

CloseSession ==
    /\ pc = "close"
    /\ DeinitSocket
    /\ Goto(IF HasStreamer THEN "teardown" ELSE "init")
    /\ UNCHANGED <<streamer_vars, program, stream_state, interrupted, failed>>

\* VideoStreamTest: the session's pipelines are dropped.
DeinitGStreamer ==
    /\ pc = "teardown"
    /\ DropPipeline
    /\ Goto(IF AtLast THEN "init" ELSE "teardown")
    /\ UNCHANGED <<client_vars, program, stream_state, interrupted, failed>>

-----------------------------------------------------------------------------
(* After the loop. *)

\* VideoStreamTest has no deinitGStreamer() here: the pipelines of a session
\* that was broken off are left to the end of the process.
FinalDeinitConn ==
    /\ pc = "final_conn"
    /\ DeinitSocket
    /\ Goto(IF HasStreamer THEN "done" ELSE "final_gst")
    /\ UNCHANGED <<streamer_vars, program, stream_state, interrupted, failed>>

FinalDeinitGStreamer ==
    /\ pc = "final_gst"
    /\ DropPipeline
    /\ Goto(IF AtLast THEN "done" ELSE "final_gst")
    /\ UNCHANGED <<client_vars, program, stream_state, interrupted, failed>>

-----------------------------------------------------------------------------
(* SIGINT. *)

\* The handler throws where nothing catches.
InterruptBefore ==
    /\ pc \in Before
    /\ Abandon
    /\ Goto("killed")
    /\ UNCHANGED <<pipeline, client_vars,
                   program, stream_state, interrupted, failed>>

\* Mutant of InterruptInLoop: the handler returns without throwing.
InterruptReturning ==
    /\ pc \in InLoop
    /\ interrupted' = TRUE
    /\ UNCHANGED <<streamer_vars, client_vars,
                   program, pc, stream_state, failed>>

\* The handler throws and main() catches.  The loop is over then, so this
\* happens once; the signal stays masked in the main thread.
InterruptInLoop ==
    /\ pc \in InLoop
    /\ interrupted' = TRUE
    /\ Abandon
    /\ LeaveLoop
    /\ UNCHANGED <<pipeline, client_vars, program, stream_state, failed>>

\* After a loop that returned, SIGINT is not masked and not caught; after one
\* that was interrupted it goes to a thread of a pipeline, if there is one.
InterruptInRelease ==
    /\ pc \in Releasing
    /\ interrupted =>
           \E p \in Pipelines : pipeline[p] \in {"PAUSED", "PLAYING"}
    /\ Abandon
    /\ Goto("killed")
    /\ UNCHANGED <<pipeline, client_vars,
                   program, stream_state, interrupted, failed>>

Interrupt == InterruptBefore \/ InterruptInLoop \/ InterruptInRelease

-----------------------------------------------------------------------------

HeadsetActs ==
    /\ pc \notin Ended
    /\ Headset
    /\ UNCHANGED <<streamer_vars, program, pc, stream_state, interrupted,
                   failed>>

Terminated == pc \in Ended /\ UNCHANGED vars

MainThread ==
    \/ InitDevices
    \/ LaunchPipeline
    \/ CheckLaunched
    \/ OpenSocket
    \/ Connect
    \/ InitGStreamer
    \/ Announce
    \/ ReadCmd
    \/ PlayStream
    \/ StopStream
    \/ Answer
    \/ StopAtEnd
    \/ CloseSession
    \/ DeinitGStreamer
    \/ FinalDeinitConn
    \/ FinalDeinitGStreamer

Next == MainThread \/ Interrupt \/ HeadsetActs \/ Terminated

Spec == Init /\ [][Next]_vars

\* The main thread runs; nothing is promised of the headset and of SIGINT.
FairSpec == Spec /\ WF_vars(MainThread)
-----------------------------------------------------------------------------
(* Properties. *)

\* VideoStreamTest never meets a pipeline of an earlier session, on which
\* initGStreamer() would end the program (VideoStreamer.cpp:87): not even one
\* that stopStream(), its result ignored, left playing.
FreshPipelines ==
    HasStreamer =>
        /\ pc \in {"init", "conn"} => NoPipelines
        /\ pc = "gst" => \A p \in cursor .. audio_out : pipeline[p] = "nullptr"

\* No call is made on a descriptor that is closed, or of an earlier session.
SocketIsLive ==
    /\ pc = "conn" => sockfd \in open /\ link = "none"
    /\ pc \in {"gst"} \cup Announcing \cup Serving =>
           sockfd \in open /\ link # "none"

\* SIGINT, at whatever call it finds the main thread, ends the program, though
\* its handler leaves run() half way through a walk or between two writes.
SignalEndsRun == interrupted ~> pc \in Ended

\* When the headset is gone the stream to it ends.  Only video_stream, whose
\* pipelines outlive the session, may go on with one that failed to pause.
GoneHeadsetStopsStreaming ==
    HeadsetGone ~> \/ NonePlaying
                   \/ pc \in Ended
                   \/ ~HasStreamer /\ failed

\* How many calls may be left while there is a connection, with the last
\* pipeline of a walk for the whole walk, and nothing more to read.
CallsBehind ==
    [done |-> 0, gave_up |-> 0, killed |-> 0,
     final_gst |-> 1, final_conn |-> 6,
     close |-> 7, eof |-> 8,
     read |-> 13, answer |-> 14, stop |-> 15, play |-> 15,
     announce |-> 20, property_data |-> 21, property |-> 22, register |-> 23,
     gst |-> 24]

\* A command that the headset has left behind takes up to seven calls.
StepsToNotice ==
    CallsBehind[pc]
        + (IF pc \in Walking THEN audio_out - cursor ELSE 0)
        + 7 * Len(inbox) + (IF link = "reset" THEN 1 ELSE 0)

\* However many commands a headset has left behind when it goes, and whatever
\* pipelines fail, every call brings either program nearer to the end of the
\* session (VideoStreamer.cpp:458): it does not go round in circles on a
\* connection that is dead.
GoneHeadsetCountsDown ==
    [][HeadsetGone /\ HeadsetGone' =>
           /\ StepsToNotice' <= StepsToNotice
           /\ MainThread => StepsToNotice' < StepsToNotice]_vars

-----------------------------------------------------------------------------
(* The service the headset is given, see StreamSession: as long as no state *)
(* change fails.  From the first failure on, which the programs ignore,     *)
(* nothing is promised, so the service counts as over.                      *)

Over == failed \/ pc \in Releasing \cup Ended

SessionState ==
    IF Over THEN "over" ELSE IF link = "none" THEN "closed" ELSE "open"

Doing ==
    IF Over \/ pc \notin Serving \ {"read"} THEN "nothing"
    ELSE IF stream_state = 1 THEN "play" ELSE "stop"

Told == IF Over THEN NotTold ELSE told

\* Everything there is plays, and nothing of it is dropped yet.
AllThereIsPlays ==
    /\ ~Over
    /\ \A p \in Pipelines : pipeline[p] \in {"nullptr", "PLAYING"}

Flow ==
    IF failed \/ NonePlaying THEN 0 ELSE IF AllThereIsPlays THEN 2 ELSE 1

Session == INSTANCE StreamSession WITH
    session <- SessionState, doing <- Doing, told <- Told, flow <- Flow

\* Both programs keep the promises of StreamSession until a state change fails
\* (VideoStreamer.cpp:473 ignores the result of playStream() and announces
\* playing all the same).
KeepsSessionUntilFailure == Session!Spec

\* Until then what the headset was told last is what happens, in both programs
\* (VideoStreamer.cpp:474 and video_stream.cpp announce a state only after the
\* pipelines were set to it).
ToldIsTrue == Session!Honest
=============================================================================
