--------------------------- MODULE DemoLoopProofs ---------------------------
(***************************************************************************)
(* Proofs about DemoLoop, for both programs, every configuration and any   *)
(* number of descriptors.  IInv ties the socket, the pipelines and what    *)
(* was told to the call the main thread is at; what it says of pipelines   *)
(* that play holds until a state change fails, what it says of pipelines   *)
(* that exist does not depend on that.                                     *)
(***************************************************************************)
EXTENDS DemoLoop, PartsProofs

CursorAtRest == pc \notin Walking => cursor = stereo_left

\* Which calls are whose.
ProgramInv ==
    /\ pc \in {"devices", "gst", "property", "property_data", "teardown"} =>
           HasStreamer
    /\ pc \in {"build", "final_gst"} => ~HasStreamer
    /\ pc \in Before => ~failed

\* The connection and the descriptor.
SocketInv ==
    /\ pc \in Before \cup {"init", "conn", "teardown"} => link = "none"
    /\ link = "none" => told = NotTold
    /\ pc = "conn" => sockfd \in open
    /\ pc \in {"gst"} \cup Announcing \cup Serving =>
           sockfd \in open /\ link # "none"
    /\ pc \in {"gst"} \cup Announcing => told = NotTold

\* stream_state is 0 from the end of one session to the start of the next.
StateInv ==
    /\ pc \in Before \cup {"init", "conn", "gst", "teardown"} \cup Announcing =>
           stream_state = 0
    /\ pc = "play" => stream_state = 1
    /\ pc \in {"stop", "eof", "close"} => stream_state = 0
    /\ pc = "read" => told = stream_state

\* Which pipelines there are.
ExistInv ==
    \A p \in Pipelines :
        /\ HasStreamer /\ pc \in {"devices", "init", "conn"} =>
               pipeline[p] = "nullptr"
        /\ pc = "teardown" /\ p < cursor => pipeline[p] = "nullptr"
        /\ pc = "gst" =>
               pipeline[p] = IF p < cursor /\ p \in Wanted
                               THEN "NULL" ELSE "nullptr"
        /\ p = audio_in /\ ~failed =>
               /\ pc = "build" /\ p < cursor => pipeline[p] # "nullptr"
               /\ ~HasStreamer /\ pc \in InLoop => pipeline[p] # "nullptr"
               /\ pc \in Announcing \cup Serving => pipeline[p] # "nullptr"

\* Which of them play, until a state change fails.
PlayInv ==
    ~failed =>
        \A p \in Pipelines :
            /\ pc \in Before \cup {"init", "conn", "gst", "close", "teardown"}
                             \cup Announcing =>
                   pipeline[p] # "PLAYING"
            /\ pc = "play" /\ p < cursor => pipeline[p] \in {"nullptr", "PLAYING"}
            /\ pc \in {"stop", "eof"} /\ p < cursor => pipeline[p] # "PLAYING"
            /\ pc \in {"read", "answer"} /\ stream_state = 1 =>
                   pipeline[p] \in {"nullptr", "PLAYING"}
            /\ pc \in {"read", "answer"} /\ stream_state = 0 =>
                   pipeline[p] # "PLAYING"

IInv ==
    /\ TypeOK
    /\ CursorAtRest
    /\ ProgramInv
    /\ SocketInv
    /\ StateInv
    /\ ExistInv
    /\ PlayInv
-----------------------------------------------------------------------------
\* A state change that fails moves the cursor and may drop the pipeline.
LEMMA ChangeFailsType ==
    ASSUME StreamerTypeOK, NEW next, ChangeFails(next)
    PROVE  StreamerTypeOK'
<1>1. CASE SetStateFails
  BY <1>1, StreamerTypeStep
<1>2. CASE Advance /\ UNCHANGED pipeline
  BY <1>2 DEF StreamerTypeOK, Advance, AtLast, Pipelines, stereo_left, audio_out
<1> QED
  BY <1>1, <1>2 DEF ChangeFails
-----------------------------------------------------------------------------
(* Type correctness. *)

\* The initial state is well typed.
LEMMA TypeInit == Init => TypeOK
<1> SUFFICES ASSUME Init PROVE TypeOK
  OBVIOUS
<1>1. StreamerTypeOK
  BY DEF Init, StreamerInit, StreamerTypeOK, PipelineStates, Pipelines,
     stereo_left, audio_out
<1>2. ClientTypeOK
  <2>1. <<>> \in Seq(Commands)
    OBVIOUS
  <2> QED
    BY <2>1 DEF Init, ClientInit, ClientTypeOK, LinkStates, NotTold
<1>3. pc \in Before
  BY DEF Init, Before
<1> QED
  BY <1>1, <1>2, <1>3 DEF Init, TypeOK

\* Every action is one call of the streamer or of the client, or a launch,
\* and leaves the other part alone.
LEMMA TypeStep == TypeOK /\ [Next]_vars => TypeOK'
<1> SUFFICES ASSUME TypeOK, [Next]_vars PROVE TypeOK'
  OBVIOUS
<1> DEFINE ControlTypeOK == /\ program \in Programs
                            /\ pc \in Before \cup InLoop \cup Releasing \cup Ended
                            /\ stream_state \in {0, 1}
                            /\ interrupted \in BOOLEAN
                            /\ failed \in BOOLEAN
<1> USE DEF TypeOK
<1>t. told \in {NotTold, 0, 1} /\ stream_state \in {NotTold, 0, 1}
  BY DEF ClientTypeOK
<1> HIDE DEF ControlTypeOK
<1>c. SUFFICES StreamerTypeOK' /\ ClientTypeOK' /\ ControlTypeOK'
  BY DEF ControlTypeOK
<1> USE DEF Before, InLoop, Releasing, Ended, Announcing, Serving, Goto,
            LeaveLoop, ControlTypeOK
<1>1. CASE InitDevices
  BY <1>1, <1>t, StreamerTypeStep, ClientTypeStep
     DEF InitDevices
<1>2. CASE LaunchPipeline
  <2>1. StreamerTypeOK'
    BY <1>2 DEF LaunchPipeline, StreamerTypeOK, Abandon, Advance, AtLast,
       Launchable, Pipelines, PipelineStates, stereo_left, stereo_right,
       main_camera, audio_out
  <2> QED
    BY <1>2, <2>1, <1>t, ClientTypeStep DEF LaunchPipeline
<1>3. CASE CheckLaunched
  <2>1. StreamerTypeOK'
    BY <1>3 DEF CheckLaunched, StreamerTypeOK, Advance, AtLast, Pipelines,
       stereo_left, audio_out
  <2> QED
    BY <1>3, <2>1, <1>t, ClientTypeStep DEF CheckLaunched
<1>4. CASE OpenSocket
  BY <1>4, <1>t, StreamerTypeStep, ClientTypeStep
     DEF OpenSocket
<1>5. CASE Connect
  BY <1>5, <1>t, StreamerTypeStep, ClientTypeStep
     DEF Connect
<1>6. CASE InitGStreamer
  BY <1>6, <1>t, StreamerTypeStep, ClientTypeStep
     DEF InitGStreamer
<1>7. CASE Announce
  BY <1>7, <1>t, StreamerTypeStep, ClientTypeStep
     DEF Announce, WriteRegister, WriteProperty, WritePropertyData,
         WriteStreamState, Write
<1>8. CASE ReadCmd
  BY <1>8, <1>t, StreamerTypeStep, ClientTypeStep
     DEF ReadCmd, TakeCommand, Commands
<1>9. CASE PlayStream
  <2>1. StreamerTypeOK'
    BY <1>9, StreamerTypeStep, ChangeFailsType
       DEF PlayStream, ChangeState
  <2> QED
    BY <1>9, <2>1, <1>t, ClientTypeStep
       DEF PlayStream, ChangeState, ChangeFails
<1>10. CASE StopStream
  <2>1. StreamerTypeOK'
    BY <1>10, StreamerTypeStep, ChangeFailsType
       DEF StopStream, ChangeState
  <2> QED
    BY <1>10, <2>1, <1>t, ClientTypeStep
       DEF StopStream, ChangeState, ChangeFails
<1>11. CASE Answer
  BY <1>11, <1>t, StreamerTypeStep, ClientTypeStep
     DEF Answer, Write
<1>12. CASE StopAtEnd
  <2>1. StreamerTypeOK'
    BY <1>12, StreamerTypeStep, ChangeFailsType
       DEF StopAtEnd, ChangeState
  <2> QED
    BY <1>12, <2>1, <1>t, ClientTypeStep
       DEF StopAtEnd, ChangeState, ChangeFails
<1>13. CASE CloseSession
  BY <1>13, <1>t, StreamerTypeStep, ClientTypeStep
     DEF CloseSession
<1>14. CASE DeinitGStreamer
  BY <1>14, <1>t, StreamerTypeStep, ClientTypeStep
     DEF DeinitGStreamer
<1>15. CASE FinalDeinitConn
  BY <1>15, <1>t, StreamerTypeStep, ClientTypeStep
     DEF FinalDeinitConn
<1>16. CASE FinalDeinitGStreamer
  BY <1>16, <1>t, StreamerTypeStep, ClientTypeStep
     DEF FinalDeinitGStreamer
<1>17. CASE Interrupt
  BY <1>17, <1>t, StreamerTypeStep, ClientTypeStep
     DEF Interrupt, InterruptBefore, InterruptInLoop, InterruptInRelease
<1>18. CASE HeadsetActs
  BY <1>18, <1>t, StreamerTypeStep, ClientTypeStep
     DEF HeadsetActs
<1>19. CASE Terminated \/ UNCHANGED vars
  BY <1>19, <1>t, StreamerTypeStep, ClientTypeStep DEF Terminated, vars
<1> QED
  BY <1>1, <1>2, <1>3, <1>4, <1>5, <1>6, <1>7, <1>8, <1>9, <1>10, <1>11,
     <1>12, <1>13, <1>14, <1>15, <1>16, <1>17, <1>18, <1>19 DEF Next,
     MainThread

\* In every reachable state of both programs each variable has its type.
THEOREM TypeCorrect == Spec => []TypeOK
BY TypeInit, TypeStep, PTL DEF Spec
-----------------------------------------------------------------------------
(* The inductive invariant. *)

\* The initial state satisfies IInv.
LEMMA IInvInit == Init => IInv
BY TypeInit
   DEF Init, StreamerInit, ClientInit, IInv, CursorAtRest, ProgramInv,
       SocketInv, StateInv, ExistInv, PlayInv, Walking, Before, InLoop,
       Announcing, Serving, HasStreamer, stereo_left

\* Every step of every actor keeps IInv.
LEMMA IInvStep == IInv /\ [Next]_vars => IInv'
<1> SUFFICES ASSUME IInv, [Next]_vars PROVE IInv'
  OBVIOUS
<1>0. TypeOK'
  BY TypeStep DEF IInv
<1> SUFFICES (/\ CursorAtRest /\ ProgramInv /\ SocketInv
              /\ StateInv /\ ExistInv /\ PlayInv)'
  BY <1>0 DEF IInv
<1> USE DEF IInv, CursorAtRest, ProgramInv, SocketInv, StateInv, ExistInv,
            PlayInv, TypeOK, HasStreamer, Programs,
            StreamerTypeOK, ClientTypeOK, PipelineStates, Pipelines, Wanted,
            stereo_left, stereo_right, main_camera, audio_in, audio_out,
            Advance, AtLast, Abandon, Before, InLoop, Releasing, Ended,
            Announcing, Serving, Walking, Goto, LeaveLoop, NotTold, NoFd,
            streamer_vars, client_vars
<1>1. CASE InitDevices
  BY <1>1
     DEF InitDevices
<1>2. CASE LaunchPipeline
  BY <1>2
     DEF LaunchPipeline, Launchable
<1>3. CASE CheckLaunched
  BY <1>3
     DEF CheckLaunched
<1>4. CASE OpenSocket
  BY <1>4
     DEF OpenSocket, InitSocket, InitSocketFails, NoLink
<1>5. CASE Connect
  BY <1>5
     DEF Connect, Connected, ConnectFails
<1>6. CASE InitGStreamer
  BY <1>6
     DEF InitGStreamer, SkipPipeline, ConstructPipeline, ConstructFails
<1>7. CASE Announce
  BY <1>7
     DEF Announce, WriteRegister, WriteProperty, WritePropertyData,
         WriteStreamState, Write, Sent, SendFails, SendKills
<1>8. CASE ReadCmd
  BY <1>8
     DEF ReadCmd, TakeCommand, ReadCommand, ReadFails, ReadEnd
<1>9. CASE PlayStream
  BY <1>9
     DEF PlayStream, ChangeState, ChangeFails, SetState, SetStateFails
<1>10. CASE StopStream
  BY <1>10
     DEF StopStream, ChangeState, ChangeFails, SetState, SetStateFails
<1>11. CASE Answer
  BY <1>11
     DEF Answer, Write, Sent, SendFails, SendKills
<1>12. CASE StopAtEnd
  BY <1>12
     DEF StopAtEnd, ChangeState, ChangeFails, SetState, SetStateFails
<1>13. CASE CloseSession
  BY <1>13
     DEF CloseSession, DeinitSocket, NoLink
<1>14. CASE DeinitGStreamer
  BY <1>14
     DEF DeinitGStreamer, DropPipeline
<1>15. CASE FinalDeinitConn
  BY <1>15
     DEF FinalDeinitConn, DeinitSocket, NoLink
<1>16. CASE FinalDeinitGStreamer
  BY <1>16
     DEF FinalDeinitGStreamer, DropPipeline
<1>17. CASE Interrupt
  BY <1>17
     DEF Interrupt, InterruptBefore, InterruptInLoop, InterruptInRelease
<1>18. CASE HeadsetActs
  BY <1>18
     DEF HeadsetActs, Headset, HeadsetSends, HeadsetCloses, HeadsetResets
<1>19. CASE Terminated \/ UNCHANGED vars
  BY <1>19 DEF Terminated, vars
<1> QED
  BY <1>1, <1>2, <1>3, <1>4, <1>5, <1>6, <1>7, <1>8, <1>9, <1>10, <1>11,
     <1>12, <1>13, <1>14, <1>15, <1>16, <1>17, <1>18, <1>19 DEF Next,
     MainThread
-----------------------------------------------------------------------------
(* What follows from it. *)

\* IInv, which ties what there is, plays, was told and is open to the call the
\* main thread is at, holds in every reachable state of both programs.
THEOREM IInvCorrect == Spec => []IInv
BY IInvInit, IInvStep, PTL DEF Spec

\* VideoStreamTest never finds a pipeline of an earlier session.
THEOREM FreshPipelinesAlways == Spec => []FreshPipelines
<1>1. IInv => FreshPipelines
  BY DEF IInv, TypeOK, StreamerTypeOK, ExistInv, FreshPipelines, NoPipelines,
         Pipelines, stereo_left, audio_out
<1> QED BY IInvCorrect, <1>1, PTL

\* The client's calls are made on an open descriptor of the current session.
THEOREM SocketIsLiveAlways == Spec => []SocketIsLive
<1>1. IInv => SocketIsLive
  BY DEF IInv, SocketInv, SocketIsLive
<1> QED BY IInvCorrect, <1>1, PTL
-----------------------------------------------------------------------------
(* Both programs keep StreamSession until a state change fails. *)

\* The flow is one of the three levels of StreamSession.
LEMMA FlowRange == Flow \in 0 .. 2
BY DEF Flow

\* The flow does not change where the pipelines do not, nor the service ends.
LEMMA FlowSame ==
    ASSUME UNCHANGED <<pipeline, failed>>, ~Over, ~Over'
    PROVE  Flow' = Flow
BY DEF Flow, NonePlaying, AllThereIsPlays

\* Where nothing plays nothing flows.
LEMMA FlowNone == NonePlaying => Flow = 0
BY DEF Flow

\* When the service ends, without a failure, the flow does not rise.
LEMMA FlowEnds ==
    ASSUME UNCHANGED pipeline, Over', ~failed
    PROVE  Flow' \in 0 .. Flow
BY DEF Flow, NonePlaying, AllThereIsPlays

\* A pipeline that is set to playing never lowers the flow.
LEMMA FlowRises ==
    ASSUME TypeOK, SetState("PLAYING"), UNCHANGED failed, ~Over, ~Over'
    PROVE  Flow' \in Flow .. 2
<1> USE DEF TypeOK, StreamerTypeOK
<1>1. CASE pipeline[cursor] = "nullptr"
  <2>1. UNCHANGED <<pipeline, failed>>
    BY <1>1 DEF SetState
  <2> QED
    BY <2>1, FlowSame, FlowRange
<1>2. CASE pipeline[cursor] # "nullptr"
  <2>1. pipeline' = [pipeline EXCEPT ![cursor] = "PLAYING"]
    BY <1>2 DEF SetState
  <2>2. ~NonePlaying'
    BY <2>1 DEF NonePlaying
  <2>3. AllThereIsPlays => AllThereIsPlays'
    BY <2>1 DEF AllThereIsPlays
  <2> QED
    BY <2>2, <2>3 DEF Flow, Over
<1> QED
  BY <1>1, <1>2

\* A pipeline that is paused never raises it.
LEMMA FlowFalls ==
    ASSUME TypeOK, SetState("PAUSED"), UNCHANGED failed, ~Over, ~Over'
    PROVE  Flow' \in 0 .. Flow
<1> USE DEF TypeOK, StreamerTypeOK
<1>1. CASE pipeline[cursor] = "nullptr"
  <2>1. UNCHANGED <<pipeline, failed>>
    BY <1>1 DEF SetState
  <2> QED
    BY <2>1, FlowSame, FlowRange
<1>2. CASE pipeline[cursor] # "nullptr"
  <2>1. pipeline' = [pipeline EXCEPT ![cursor] = "PAUSED"]
    BY <1>2 DEF SetState
  <2>2. ~AllThereIsPlays'
    BY <2>1 DEF AllThereIsPlays
  <2>3. NonePlaying => NonePlaying'
    BY <2>1 DEF NonePlaying
  <2> QED
    BY <2>2, <2>3 DEF Flow, Over
<1> QED
  BY <1>1, <1>2

\* A pipeline that is dropped where the service is over never raises it.
LEMMA FlowDropped ==
    ASSUME TypeOK, DropPipeline, UNCHANGED failed, Over, Over'
    PROVE  Flow' \in 0 .. Flow
<1>1. NonePlaying => NonePlaying'
  BY DEF TypeOK, StreamerTypeOK, DropPipeline, NonePlaying
<1> QED
  BY <1>1 DEF Flow, AllThereIsPlays

\* A step after which the service is over is its last step, or invisible.
LEMMA ToOver ==
    ASSUME Over', Flow' \in 0 .. Flow
    PROVE  [Session!Next]_(Session!vars)
BY DEF SessionState, Doing, Told, NotTold, Session!Next, Session!Finish

\* A failure, once it has happened, stays.
LEMMA FailedStays == [Next]_vars /\ failed => failed'
BY DEF Next, MainThread, InitDevices, LaunchPipeline, CheckLaunched, OpenSocket,
       Connect, InitGStreamer, Announce, WriteRegister, WriteProperty,
       WritePropertyData, WriteStreamState, Write, ReadCmd, PlayStream,
       StopStream, ChangeState, ChangeFails, Answer, StopAtEnd, CloseSession,
       DeinitGStreamer, FinalDeinitConn, FinalDeinitGStreamer, Interrupt,
       InterruptBefore, InterruptInLoop, InterruptInRelease, HeadsetActs,
       Terminated, vars

\* The initial state is the service's: no session, nothing flows.
LEMMA SessionInit == Init => Session!Init
BY DEF Init, StreamerInit, ClientInit, Session!Init, SessionState, Doing, Told,
       Flow, Over, NonePlaying, Releasing, Ended, Serving, NotTold, HasStreamer

\* Every step of either program is a step of the service, or invisible in it.
LEMMA SessionStep ==
    IInv /\ IInv' /\ [Next]_vars => [Session!Next]_(Session!vars)
<1> SUFFICES ASSUME IInv, IInv', [Next]_vars
             PROVE  [Session!Next]_(Session!vars)
  OBVIOUS
<1> USE FlowRange
<1>0. CASE failed'
  <2>1. Over' /\ Flow' = 0
    BY <1>0 DEF Over, Flow
  <2> QED
    BY <2>1, ToOver
<1>f. CASE ~failed'
  <2>f. ~failed /\ failed' = failed
    BY <1>f, FailedStays DEF IInv, TypeOK
  <2> USE <2>f DEF IInv, TypeOK, StateInv, SocketInv
  <2>n. pc \in Before \cup {"init", "conn", "gst", "close", "teardown"}
                      \cup Announcing => NonePlaying
    BY DEF PlayInv, NonePlaying
  <2>m. pc' \in Before \cup {"init", "conn", "gst", "close", "teardown"}
                       \cup Announcing => NonePlaying'
    BY DEF PlayInv, NonePlaying
  <2> USE DEF SessionState, Doing, Told, Over, Before, InLoop, Releasing,
              Ended, Announcing, Serving, Goto, LeaveLoop, NotTold, NoFd,
              client_vars, streamer_vars, Session!Next, Session!vars
  <2>1. CASE InitDevices \/ LaunchPipeline \/ CheckLaunched
    <3>1. NonePlaying /\ NonePlaying'
      BY <2>1, <2>n
         DEF InitDevices, LaunchPipeline, CheckLaunched, NonePlaying,
             StreamerTypeOK
    <3>2. Flow = 0 /\ Flow' = 0
      BY <3>1, FlowNone DEF Flow
    <3> QED
      BY <2>1, <3>2, ToOver DEF InitDevices, LaunchPipeline, CheckLaunched
  <2>2. CASE OpenSocket
    <3>1. NonePlaying /\ NonePlaying'
      BY <2>2, <2>n DEF OpenSocket, NonePlaying
    <3>2. Flow = 0 /\ Flow' = 0
      BY <3>1, FlowNone DEF Flow
    <3> QED
      BY <2>2, <3>2, ToOver DEF OpenSocket, InitSocket, NoLink
  <2>3. CASE Connect
    <3>1. Flow = 0 /\ Flow' = 0
      BY <2>3, <2>n DEF Connect, NonePlaying, Flow
    <3> QED
      BY <2>3, <3>1 DEF Connect, Connected, ConnectFails, Session!Open
  <2>4. CASE InitGStreamer
    <3>1. Flow = 0 /\ Flow' = 0
      BY <2>4, <2>n, <2>m
         DEF InitGStreamer, ConstructFails, NonePlaying, Flow
    <3> QED
      BY <2>4, <3>1, ToOver DEF InitGStreamer
  <2>5. CASE Announce
    <3>1. Flow = 0 /\ Flow' = 0
      BY <2>5, <2>n
         DEF Announce, WriteRegister, WriteProperty, WritePropertyData,
             WriteStreamState, Write, NonePlaying, Flow
    <3> QED
      BY <2>5, <3>1, ToOver
         DEF Announce, WriteRegister, WriteProperty, WritePropertyData,
             WriteStreamState, Write, Sent, Session!Greet
  <2>6. CASE ReadCmd
    <3>1. pc' \in {"read", "play", "stop", "eof"}
      BY <2>6 DEF ReadCmd, TakeCommand
    <3>2. Flow' = Flow
      BY <2>6, <3>1, FlowSame DEF ReadCmd
    <3>3. link # "none" /\ link' # "none" /\ told' = told /\ told # NotTold
      BY <2>6 DEF ReadCmd, TakeCommand, ReadCommand, ReadFails, ReadEnd
    <3>4. /\ SessionState = "open" /\ SessionState' = "open"
          /\ Told' = Told /\ Told # -1 /\ Doing = "nothing"
      BY <2>6, <3>1, <3>3 DEF ReadCmd
    <3>5. CASE pc' = "read"
      BY <3>2, <3>4, <3>5
    <3>6. CASE pc' # "read"
      <4>1. Doing' \in {"play", "stop"}
        BY <3>1, <3>6
      <4> QED
        BY <3>2, <3>4, <4>1 DEF Session!Obey
    <3> QED
      BY <3>5, <3>6
  <2>7. CASE PlayStream
    <3>1. SetState("PLAYING") /\ pc' \in {"play", "answer"}
      BY <2>7 DEF PlayStream, ChangeState, ChangeFails
    <3>2. Flow' \in Flow .. 2
      BY <2>7, <3>1, FlowRises DEF PlayStream
    <3>3. /\ SessionState = "open" /\ SessionState' = "open"
          /\ Told' = Told /\ Doing = "play" /\ Doing' = "play"
      BY <2>7, <3>1 DEF PlayStream, ChangeState
    <3> QED
      BY <3>2, <3>3 DEF Session!Rise
  <2>8. CASE StopStream \/ StopAtEnd
    <3>1. SetState("PAUSED") /\ pc' \in {"stop", "answer", "eof", "close"}
      BY <2>8 DEF StopStream, StopAtEnd, ChangeState, ChangeFails
    <3>2. Flow' \in 0 .. Flow
      BY <2>8, <3>1, FlowFalls DEF StopStream, StopAtEnd
    <3>3. /\ SessionState = "open" /\ SessionState' = "open"
          /\ Told' = Told /\ Doing = "stop" /\ Doing' = "stop"
      BY <2>8, <3>1 DEF StopStream, StopAtEnd, ChangeState
    <3> QED
      BY <3>2, <3>3 DEF Session!Fall
  <2>9. CASE Answer
    <3>1. Flow = IF stream_state = 1 THEN 2 ELSE 0
      <4>1. audio_in \in Pipelines
        BY DEF Pipelines, audio_in, stereo_left, audio_out
      <4>2. CASE stream_state = 1
        <5>1. pipeline[audio_in] = "PLAYING"
          BY <2>9, <4>1, <4>2 DEF Answer, ExistInv, PlayInv
        <5>2. ~NonePlaying /\ AllThereIsPlays
          BY <2>9, <4>1, <4>2, <5>1
             DEF Answer, PlayInv, NonePlaying, AllThereIsPlays
        <5> QED
          BY <4>2, <5>2 DEF Flow
      <4>3. CASE stream_state = 0
        BY <2>9, <4>3 DEF Answer, PlayInv, NonePlaying, Flow
      <4> QED
        BY <4>2, <4>3
    <3>2. CASE Sent(stream_state) /\ Goto("read")
      <4>1. Flow' = Flow
        BY <2>9, <3>2, FlowSame DEF Answer, Write
      <4> QED
        BY <2>9, <3>1, <3>2, <4>1 DEF Answer, Write, Sent, Session!Tell
    <3>3. CASE pc' \in Releasing \cup Ended
      <4>1. Flow' \in 0 .. Flow
        BY <2>9, <3>3, FlowEnds DEF Answer, Write
      <4> QED
        BY <3>3, <4>1, ToOver
    <3> QED
      BY <2>9, <3>2, <3>3 DEF Answer, Write
  <2>10. CASE CloseSession
    <3>1. Flow = 0 /\ Flow' = 0
      BY <2>10, <2>n DEF CloseSession, NonePlaying, Flow
    <3> QED
      BY <2>10, <3>1 DEF CloseSession, DeinitSocket, NoLink, Session!Close
  <2>11. CASE DeinitGStreamer
    <3>1. Flow = 0 /\ Flow' = 0
      BY <2>11, <2>n, <2>m DEF DeinitGStreamer, NonePlaying, Flow
    <3> QED
      BY <2>11, <3>1 DEF DeinitGStreamer
  <2>12. CASE FinalDeinitConn \/ Interrupt
    <3>1. Over' /\ UNCHANGED pipeline
      BY <2>12 DEF FinalDeinitConn, Interrupt, InterruptBefore,
         InterruptInLoop, InterruptInRelease
    <3> QED
      BY <3>1, FlowEnds, ToOver
  <2>13. CASE FinalDeinitGStreamer
    <3>1. Over /\ Over'
      BY <2>13 DEF FinalDeinitGStreamer
    <3>2. Flow' \in 0 .. Flow
      BY <2>13, <3>1, FlowDropped DEF FinalDeinitGStreamer
    <3> QED
      BY <3>1, <3>2, ToOver
  <2>14. CASE HeadsetActs
    <3>1. UNCHANGED <<pipeline, failed, pc>> /\ told' = told
      BY <2>14 DEF HeadsetActs, Headset, HeadsetSends, HeadsetCloses,
         HeadsetResets
    <3>2. link # "none" /\ link' # "none"
      BY <2>14 DEF HeadsetActs, Headset, HeadsetSends, HeadsetCloses,
         HeadsetResets
    <3>3. Over' = Over /\ Flow' = Flow
      BY <3>1 DEF Flow, NonePlaying, AllThereIsPlays
    <3> QED
      BY <2>14, <3>1, <3>2, <3>3 DEF HeadsetActs
  <2>15. CASE Terminated \/ UNCHANGED vars
    BY <2>15
       DEF Terminated, vars, Flow, NonePlaying, AllThereIsPlays
  <2> QED
    BY <2>1, <2>2, <2>3, <2>4, <2>5, <2>6, <2>7, <2>8, <2>9, <2>10, <2>11,
       <2>12, <2>13, <2>14, <2>15 DEF Next, MainThread
<1> QED
  BY <1>0, <1>f

\* Both programs keep what StreamSession promises the headset, in every
\* configuration, until the state change of a pipeline fails.
THEOREM KeepsSessionUntilFailureAlways == Spec => KeepsSessionUntilFailure
<1>1. Spec => Session!Init
  BY SessionInit DEF Spec
<1> QED
  BY <1>1, SessionStep, IInvCorrect, PTL
     DEF Spec, KeepsSessionUntilFailure, Session!Spec

-----------------------------------------------------------------------------
(* What follows from the refinement. *)

\* Outside of a session nothing is being done and nothing has been told.
HonestInv ==
    /\ Session!Honest
    /\ SessionState # "open" => Doing = "nothing" /\ Told = NotTold
    /\ Told = NotTold => Doing = "nothing"
    /\ Told \in {NotTold, 0, 1}

\* StreamSession itself tells the truth: this is what the refinement is worth.
LEMMA HonestInit == Session!Init => HonestInv
BY DEF HonestInv, Session!Honest, Session!Init, NotTold

\* Each of its steps keeps that.
LEMMA HonestStep == HonestInv /\ [Session!Next]_(Session!vars) => HonestInv'
<1> SUFFICES ASSUME HonestInv, [Session!Next]_(Session!vars)
             PROVE  HonestInv'
  OBVIOUS
<1> USE FlowRange DEF HonestInv, Session!Honest, NotTold
<1>1. CASE Session!Open \/ Session!Greet \/ Session!Obey
  BY <1>1 DEF Session!Open, Session!Greet, Session!Obey
<1>2. CASE Session!Rise \/ Session!Fall
  BY <1>2 DEF Session!Rise, Session!Fall
<1>3. CASE Session!Tell \/ Session!Close \/ Session!Finish
  BY <1>3 DEF Session!Tell, Session!Close, Session!Finish
<1>4. CASE UNCHANGED Session!vars
  BY <1>4 DEF Session!vars
<1> QED
  BY <1>1, <1>2, <1>3, <1>4 DEF Session!Next

\* In every configuration and both programs, as long as no state change has
\* failed, the headset was told what happens.
THEOREM ToldIsTrueAlways == Spec => []ToldIsTrue
<1>1. Session!Spec => []HonestInv
  BY HonestInit, HonestStep, PTL DEF Session!Spec
<1>2. HonestInv => ToldIsTrue
  BY DEF HonestInv, ToldIsTrue
<1> QED
  BY <1>1, <1>2, KeepsSessionUntilFailureAlways, PTL
     DEF KeepsSessionUntilFailure
-----------------------------------------------------------------------------
(* What a headset that has gone leaves to do. *)

\* CallsBehind, looked up.
LEMMA CallsBehindIs ==
    ASSUME NEW label \in Before \cup InLoop \cup Releasing \cup Ended,
           label \notin {"devices", "build", "init", "conn", "teardown"}
    PROVE  /\ CallsBehind[label] \in 0 .. 24
           /\ label \in Ended => CallsBehind[label] = 0
           /\ label = "final_gst" => CallsBehind[label] = 1
           /\ label = "final_conn" => CallsBehind[label] = 6
           /\ label = "close" => CallsBehind[label] = 7
           /\ label = "eof" => CallsBehind[label] = 8
           /\ label = "read" => CallsBehind[label] = 13
           /\ label = "answer" => CallsBehind[label] = 14
           /\ label \in {"play", "stop"} => CallsBehind[label] = 15
           /\ label = "announce" => CallsBehind[label] = 20
           /\ label = "property_data" => CallsBehind[label] = 21
           /\ label = "property" => CallsBehind[label] = 22
           /\ label = "register" => CallsBehind[label] = 23
           /\ label = "gst" => CallsBehind[label] = 24
BY DEF CallsBehind, Before, InLoop, Releasing, Ended, Announcing, Serving

\* StepsToNotice is the sum of four numbers: calls, pipelines, commands, reset.
NoticeParts ==
    \E walk \in 0 .. 4, length \in Nat, reset \in {0, 1} :
        /\ cursor \in 1 .. 5
        /\ walk = IF pc \in Walking THEN 5 - cursor ELSE 0
        /\ length = Len(inbox)
        /\ reset = IF link = "reset" THEN 1 ELSE 0
        /\ StepsToNotice = CallsBehind[pc] + walk + 7 * length + reset

\* It is so in every well typed state.
LEMMA StepsToNoticeIs == TypeOK => NoticeParts
<1> SUFFICES ASSUME TypeOK PROVE NoticeParts
  OBVIOUS
<1> DEFINE walk == IF pc \in Walking THEN 5 - cursor ELSE 0
           reset == IF link = "reset" THEN 1 ELSE 0
<1>1. cursor \in 1 .. 5
  BY DEF TypeOK, StreamerTypeOK, Pipelines, stereo_left, audio_out
<1>2. Len(inbox) \in Nat
  BY DEF TypeOK, ClientTypeOK
<1>3. walk \in 0 .. 4 /\ reset \in {0, 1}
  BY <1>1
<1>4. StepsToNotice = CallsBehind[pc] + walk + 7 * Len(inbox) + reset
  BY DEF StepsToNotice, audio_out
<1> QED
  BY <1>1, <1>2, <1>3, <1>4 DEF NoticeParts

\* When the headset is gone a call takes what it has left behind, or goes on
\* with a walk, or goes to a later call.
LEMMA GoneStep ==
    ASSUME IInv, IInv', MainThread, HeadsetGone, HeadsetGone'
    PROVE  \/ /\ pc = "read" /\ pc' \in {"play", "stop", "read"}
              /\ inbox # <<>> /\ inbox' = Tail(inbox) /\ UNCHANGED link
           \/ /\ pc = "read" /\ pc' = "read"
              /\ link = "reset" /\ link' = "broken" /\ UNCHANGED inbox
           \/ /\ UNCHANGED inbox /\ (link' = "reset" => link = "reset")
              /\ \/ /\ pc' = pc /\ pc \in Walking \ {"build", "teardown"}
                    /\ cursor # 5 /\ cursor' = cursor + 1
                 \/ pc \in {"gst"} \cup Announcing \cup Serving
                       /\ pc' \in {"final_conn", "killed"}
                 \/ pc = "gst" /\ pc' = "register"
                 \/ pc = "register" /\ pc' \in {"property", "announce"}
                 \/ pc = "property" /\ pc' = "property_data"
                 \/ pc = "property_data" /\ pc' = "announce"
                 \/ pc \in {"announce", "answer"} /\ pc' = "read"
                 \/ pc = "read" /\ pc' = "eof"
                 \/ pc \in {"play", "stop"} /\ pc' = "answer"
                 \/ pc = "eof" /\ pc' = "close"
                 \/ pc = "final_gst" /\ pc' = "done"
<1> USE DEF HeadsetGone, Goto, LeaveLoop, NoLink, client_vars, Announcing,
            Serving, Walking
<1>s. SocketInv
  BY DEF IInv
<1>1. CASE InitDevices \/ LaunchPipeline \/ CheckLaunched \/ OpenSocket \/ Connect
  BY <1>1, <1>s DEF InitDevices, LaunchPipeline, CheckLaunched, OpenSocket,
              Connect, SocketInv, Before
<1>2. CASE InitGStreamer
  BY <1>2 DEF InitGStreamer, SkipPipeline, ConstructPipeline, Advance, AtLast,
              audio_out
<1>3. CASE Announce \/ Answer
  BY <1>3
     DEF Announce, WriteRegister, WriteProperty, WritePropertyData,
         WriteStreamState, Answer, Write, Sent, SendFails, SendKills
<1>4. CASE ReadCmd
  BY <1>4 DEF ReadCmd, TakeCommand, ReadCommand, ReadFails, ReadEnd
<1>5. CASE PlayStream \/ StopStream \/ StopAtEnd
  BY <1>5 DEF PlayStream, StopStream, StopAtEnd, ChangeState, ChangeFails,
              SetState, SetStateFails, Advance, AtLast, audio_out
<1>6. CASE CloseSession \/ DeinitGStreamer \/ FinalDeinitConn
  BY <1>6, <1>s DEF CloseSession, DeinitSocket, DeinitGStreamer, SocketInv,
                    FinalDeinitConn
<1>7. CASE FinalDeinitGStreamer
  BY <1>7 DEF FinalDeinitGStreamer, DropPipeline, Advance, AtLast, audio_out
<1> QED
  BY <1>1, <1>2, <1>3, <1>4, <1>5, <1>6, <1>7 DEF MainThread

\* Nothing but the main thread's calls adds to what is left.
LEMMA GoneOthers ==
    ASSUME IInv, IInv', Next, ~MainThread, HeadsetGone, HeadsetGone'
    PROVE  /\ UNCHANGED inbox /\ (link' = "reset" => link = "reset")
           /\ \/ UNCHANGED <<pc, cursor>>
              \/ pc \in InLoop /\ pc' = "final_conn"
              \/ pc \in Releasing /\ pc' = "killed"
<1> USE DEF HeadsetGone, Goto, LeaveLoop, client_vars, streamer_vars
<1>1. CASE Interrupt
  <2>1. ~InterruptBefore
    BY DEF InterruptBefore, IInv, SocketInv
  <2> QED
    BY <1>1, <2>1 DEF Interrupt, InterruptInLoop, InterruptInRelease
<1>2. CASE HeadsetActs
  BY <1>2 DEF HeadsetActs, Headset, HeadsetSends, HeadsetCloses, HeadsetResets
<1>3. CASE Terminated
  BY <1>3 DEF Terminated, vars
<1> QED
  BY <1>1, <1>2, <1>3 DEF Next

\* When the headset is gone every call of either program brings it nearer to
\* the end of the session, whatever commands are left and whatever fails.
THEOREM GoneHeadsetCountsDownAlways == Spec => GoneHeadsetCountsDown
<1> DEFINE Nearer == HeadsetGone /\ HeadsetGone' =>
               /\ StepsToNotice' <= StepsToNotice
               /\ MainThread => StepsToNotice' < StepsToNotice
<1>1. IInv /\ IInv' /\ [Next]_vars => [Nearer]_vars
  <2> SUFFICES ASSUME IInv, IInv', Next, HeadsetGone, HeadsetGone'
               PROVE  /\ StepsToNotice' <= StepsToNotice
                      /\ MainThread => StepsToNotice' < StepsToNotice
    OBVIOUS
  <2>1. PICK walk \in 0 .. 4, length \in Nat, reset \in {0, 1} :
            /\ cursor \in 1 .. 5
            /\ walk = IF pc \in Walking THEN 5 - cursor ELSE 0
            /\ length = Len(inbox)
            /\ reset = IF link = "reset" THEN 1 ELSE 0
            /\ StepsToNotice = CallsBehind[pc] + walk + 7 * length + reset
    BY StepsToNoticeIs DEF IInv, NoticeParts
  <2>2. PICK walk2 \in 0 .. 4, length2 \in Nat, reset2 \in {0, 1} :
            /\ cursor' \in 1 .. 5
            /\ walk2 = IF pc' \in Walking THEN 5 - cursor' ELSE 0
            /\ length2 = Len(inbox')
            /\ reset2 = IF link' = "reset" THEN 1 ELSE 0
            /\ StepsToNotice' = CallsBehind[pc'] + walk2 + 7 * length2 + reset2
    <3>1. (TypeOK => NoticeParts)'
      BY StepsToNoticeIs, PTL
    <3> QED
      BY <3>1 DEF IInv, NoticeParts
  <2>3. /\ pc \in Before \cup InLoop \cup Releasing \cup Ended
        /\ pc' \in Before \cup InLoop \cup Releasing \cup Ended
        /\ pc \notin {"devices", "build", "init", "conn", "teardown"}
        /\ pc' \notin {"devices", "build", "init", "conn", "teardown"}
    BY DEF IInv, TypeOK, SocketInv, HeadsetGone, Before
  <2>4. PICK calls \in 0 .. 24, calls2 \in 0 .. 24 :
            calls = CallsBehind[pc] /\ calls2 = CallsBehind[pc']
    BY <2>3, CallsBehindIs
  <2>5. /\ StepsToNotice = calls + walk + 7 * length + reset
        /\ StepsToNotice' = calls2 + walk2 + 7 * length2 + reset2
    BY <2>1, <2>2, <2>4
  <2>6. CASE MainThread
    <3>1. CASE /\ pc = "read" /\ pc' \in {"play", "stop", "read"}
               /\ inbox # <<>> /\ inbox' = Tail(inbox) /\ UNCHANGED link
      <4>1. length2 = length - 1 /\ reset2 = reset
        BY <2>1, <2>2, <3>1 DEF IInv, TypeOK, ClientTypeOK
      <4>2. calls = 13 /\ walk = 0
        BY <2>1, <2>3, <2>4, <3>1, CallsBehindIs DEF Walking
      <4>3. calls2 + walk2 <= 19
        <5>1. CASE pc' = "read"
          BY <2>2, <2>3, <2>4, <5>1, CallsBehindIs DEF Walking
        <5>2. CASE pc' \in {"play", "stop"}
          BY <2>2, <2>3, <2>4, <5>2, CallsBehindIs
        <5> QED
          BY <3>1, <5>1, <5>2
      <4> QED
        BY <2>5, <4>1, <4>2, <4>3
    <3>2. CASE /\ pc = "read" /\ pc' = "read"
               /\ link = "reset" /\ link' = "broken" /\ UNCHANGED inbox
      <4>1. length2 = length /\ reset = 1 /\ reset2 = 0
        BY <2>1, <2>2, <3>2
      <4>2. calls = calls2 /\ walk = 0 /\ walk2 = 0
        BY <2>1, <2>2, <2>4, <3>2 DEF Walking
      <4> QED
        BY <2>5, <4>1, <4>2
    <3>3. CASE /\ UNCHANGED inbox /\ (link' = "reset" => link = "reset")
               /\ ~(pc = "read" /\ pc' = "read")
      <4>1. length2 = length /\ reset2 <= reset
        BY <2>1, <2>2, <3>3
      <4>2. calls2 + walk2 < calls + walk
        <5>1. CASE /\ pc' = pc /\ pc \in Walking
                   /\ cursor # 5 /\ cursor' = cursor + 1
          BY <2>1, <2>2, <2>4, <5>1
        <5>2. CASE pc \in {"gst"} \cup Announcing \cup Serving
                      /\ pc' \in {"final_conn", "killed"}
          <6>1. calls >= 7
            BY <2>3, <2>4, <5>2, CallsBehindIs DEF Announcing, Serving
          <6>2. walk2 = 0
            BY <2>2, <5>2 DEF Walking
          <6>3. calls2 <= 6
            <7>1. CASE pc' = "final_conn"
              BY <2>3, <2>4, <7>1, CallsBehindIs
            <7>2. CASE pc' = "killed"
              BY <2>3, <2>4, <7>2, CallsBehindIs DEF Ended
            <7> QED
              BY <5>2, <7>1, <7>2
          <6> QED
            BY <6>1, <6>2, <6>3
        <5>3. CASE pc' # pc /\ pc' \notin {"final_conn", "killed"}
          <6>1. CASE \/ pc = "gst" /\ pc' = "register"
                     \/ pc = "register" /\ pc' \in {"property", "announce"}
                     \/ pc = "property" /\ pc' = "property_data"
                     \/ pc = "property_data" /\ pc' = "announce"
                     \/ pc \in {"announce", "answer"} /\ pc' = "read"
            <7>1. walk2 = 0
              BY <2>2, <6>1 DEF Walking
            <7>2. calls2 < calls
              BY <2>3, <2>4, <6>1, CallsBehindIs
            <7> QED
              BY <7>1, <7>2
          <6>2. CASE pc = "read" /\ pc' = "eof"
            <7>1. calls = 13 /\ calls2 = 8
              BY <2>3, <2>4, <6>2, CallsBehindIs
            <7> QED
              BY <7>1
          <6>3. CASE \/ pc \in {"play", "stop"} /\ pc' = "answer"
                     \/ pc = "eof" /\ pc' = "close"
                     \/ pc = "final_gst" /\ pc' = "done"
            <7>1. walk2 = 0
              BY <2>2, <6>3 DEF Walking
            <7>2. calls2 < calls
              BY <2>3, <2>4, <6>3, CallsBehindIs DEF Ended
            <7> QED
              BY <7>1, <7>2
          <6> QED
            BY <2>6, <3>3, <5>3, <6>1, <6>2, <6>3, GoneStep
        <5> QED
          BY <2>6, <3>3, <5>1, <5>2, <5>3, GoneStep
      <4> QED
        BY <2>5, <4>1, <4>2
    <3> QED
      BY <2>6, <3>1, <3>2, <3>3, GoneStep DEF Walking
  <2>7. CASE ~MainThread
    <3>1. length2 = length /\ reset2 <= reset
      BY <2>1, <2>2, <2>7, GoneOthers
    <3>2. calls2 + walk2 <= calls + walk
      <4>1. CASE UNCHANGED <<pc, cursor>>
        BY <2>1, <2>2, <2>4, <4>1
      <4>2. CASE pc \in InLoop /\ pc' = "final_conn"
        <5>1. calls >= 7
          BY <2>3, <2>4, <4>2, CallsBehindIs DEF InLoop, Announcing, Serving
        <5>2. calls2 = 6 /\ walk2 = 0
          BY <2>2, <2>3, <2>4, <4>2, CallsBehindIs DEF Walking
        <5> QED
          BY <5>1, <5>2
      <4>3. CASE pc' = "killed"
        <5>1. calls2 = 0 /\ walk2 = 0
          BY <2>2, <2>3, <2>4, <4>3, CallsBehindIs DEF Walking, Ended
        <5> QED
          BY <5>1
      <4> QED
        BY <2>7, <4>1, <4>2, <4>3, GoneOthers
    <3> QED
      BY <2>5, <2>7, <3>1, <3>2
  <2> QED
    BY <2>6, <2>7
<1> QED
  BY <1>1, IInvCorrect, PTL DEF Spec, GoneHeadsetCountsDown
=============================================================================
