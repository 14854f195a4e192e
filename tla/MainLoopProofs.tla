--------------------------- MODULE MainLoopProofs ---------------------------
(***************************************************************************)
(* For every configuration, number of descriptors and set of signals: the  *)
(* state of MainLoop is well typed, and the inductive invariant IInv, which *)
(* ties pc, the pipelines, the socket and what the headset was told, holds *)
(* and yields the safety invariants.                                       *)
(***************************************************************************)
EXTENDS MainLoop, PartsProofs

CursorAtRest == pc \notin Walking => cursor = stereo_left

\* The connection and the descriptor at each point of the loop.
SocketInv ==
    /\ pc = "init" => link = "none" \/ ~system_on
    /\ link = "none" => told = NotTold
    /\ pc \in {"conn", "guide"} => link = "none"
    /\ pc = "conn" => sockfd \in open
    /\ pc \in {"gst"} \cup Announcing \cup Serving =>
           sockfd \in open /\ link # "none"
    /\ pc \in {"gst"} \cup Announcing => told = NotTold
    /\ pc = "teardown" => link = "none" \/ ~system_on
    /\ pc = "done" => sockfd = NoFd /\ link = "none"

\* stream_state is 0 from the end of one session to the start of the next.
StateInv ==
    /\ pc \in {"init", "teardown"} => stream_state = 0 \/ ~system_on
    /\ pc \in {"conn", "guide", "gst"} \cup Announcing => stream_state = 0
    /\ pc = "play" => stream_state = 1
    /\ pc \in {"stop", "eof", "close"} => stream_state = 0
    /\ pc \in {"inner", "read"} => told = stream_state
    /\ pc \in Releasing \cup {"done"} => ~system_on

\* What has become of each pipeline at each point of the loop.
PipelineInv ==
    \A p \in Pipelines :
        /\ p \notin Wanted => pipeline[p] = "nullptr"
        /\ pc \in Connecting \cup {"final_conn", "done"} =>
               pipeline[p] = "nullptr"
        /\ pc \in {"teardown", "final_gst"} /\ p < cursor =>
               pipeline[p] = "nullptr"
        /\ pc = "gst" =>
               pipeline[p] = IF p < cursor /\ p \in Wanted
                               THEN "NULL" ELSE "nullptr"
        /\ pc \in Announcing =>
               pipeline[p] = IF p \in Wanted THEN "NULL" ELSE "nullptr"
        /\ pc \in Serving \ {"close"} =>
               (pipeline[p] = "nullptr" <=> p \notin Wanted)
        /\ pc = "play" /\ p < cursor /\ p \in Wanted =>
               pipeline[p] = "PLAYING"
        /\ pc \in {"stop", "eof"} /\ p < cursor => pipeline[p] # "PLAYING"
        /\ pc \in {"inner", "read", "answer"} /\ stream_state = 1 =>
               pipeline[p] = IF p \in Wanted THEN "PLAYING" ELSE "nullptr"
        /\ pc \in {"inner", "read", "answer"} /\ stream_state = 0 =>
               pipeline[p] # "PLAYING"

IInv == TypeOK /\ CursorAtRest /\ SocketInv /\ StateInv /\ PipelineInv
-----------------------------------------------------------------------------
(* Type correctness. *)

\* The initial state is well typed.
LEMMA TypeInit == Init => TypeOK
<1>1. <<>> \in Seq(Commands)
  OBVIOUS
<1> QED
  BY <1>1 DEF Init, TypeOK, StreamerInit, StreamerTypeOK, ClientInit,
     ClientTypeOK, PipelineStates, Pipelines, stereo_left, audio_out,
     LinkStates, NotTold, InLoop, Connecting

\* The steps of the loop as the lemmas need them: every action is one call of
\* the streamer or of the client, and leaves the other alone.
LEMMA TypeStep == TypeOK /\ [Next]_vars => TypeOK'
<1> SUFFICES ASSUME TypeOK, [Next]_vars PROVE TypeOK'
  OBVIOUS
<1> DEFINE ControlTypeOK == /\ pc \in InLoop \cup Releasing \cup Ended
                            /\ system_on \in BOOLEAN
                            /\ stream_state \in {0, 1}
                            /\ masked \subseteq Signals
<1> USE DEF TypeOK
<1>t. told \in {NotTold, 0, 1} /\ stream_state \in {NotTold, 0, 1}
  BY DEF ClientTypeOK
<1> HIDE DEF ControlTypeOK
<1>c. SUFFICES StreamerTypeOK' /\ ClientTypeOK' /\ ControlTypeOK'
  BY DEF ControlTypeOK
<1> USE DEF InLoop, Releasing, Ended, Connecting, Announcing, Serving, Goto,
            LeaveLoop, ControlTypeOK
<1>1. CASE OuterLoopEnds
  BY <1>1, <1>t, StreamerTypeStep, ClientTypeStep
     DEF OuterLoopEnds
<1>2. CASE OpenSocket
  BY <1>2, <1>t, StreamerTypeStep, ClientTypeStep
     DEF OpenSocket
<1>3. CASE Connect
  BY <1>3, <1>t, StreamerTypeStep, ClientTypeStep
     DEF Connect
<1>4. CASE CouldntConnectGuide
  BY <1>4, <1>t, StreamerTypeStep, ClientTypeStep
     DEF CouldntConnectGuide
<1>5. CASE InitGStreamer
  BY <1>5, <1>t, StreamerTypeStep, ClientTypeStep
     DEF InitGStreamer
<1>6. CASE Announce
  BY <1>6, <1>t, StreamerTypeStep, ClientTypeStep
     DEF Announce, Announce, WriteRegister, WriteProperty,
                WritePropertyData, WriteDestination, WriteDestinationData,
                WriteStreamState, Write
<1>7. CASE InnerLoop
  BY <1>7, <1>t, StreamerTypeStep, ClientTypeStep
     DEF InnerLoop
<1>8. CASE ReadCmd
  BY <1>8, <1>t, StreamerTypeStep, ClientTypeStep
     DEF ReadCmd, TakeCommand, Commands
<1>9. CASE PlayStream
  BY <1>9, <1>t, StreamerTypeStep, ClientTypeStep
     DEF PlayStream
<1>10. CASE StopStream
  BY <1>10, <1>t, StreamerTypeStep, ClientTypeStep
     DEF StopStream
<1>11. CASE Answer
  BY <1>11, <1>t, StreamerTypeStep, ClientTypeStep
     DEF Answer, Write
<1>12. CASE StopAtEnd
  BY <1>12, <1>t, StreamerTypeStep, ClientTypeStep
     DEF StopAtEnd
<1>13. CASE CloseSession
  BY <1>13, <1>t, StreamerTypeStep, ClientTypeStep
     DEF CloseSession
<1>14. CASE DeinitGStreamer
  BY <1>14, <1>t, StreamerTypeStep, ClientTypeStep
     DEF DeinitGStreamer
<1>15. CASE FinalDeinitGStreamer
  BY <1>15, <1>t, StreamerTypeStep, ClientTypeStep
     DEF FinalDeinitGStreamer
<1>16. CASE FinalDeinitConn
  BY <1>16, <1>t, StreamerTypeStep, ClientTypeStep
     DEF FinalDeinitConn
<1>17. CASE \E s \in Signals :
              SignalInLoop(s) \/ SignalInRelease(s) \/ SignalElsewhere(s)
  BY <1>17, <1>t, StreamerTypeStep, ClientTypeStep
     DEF SignalInLoop, SignalInRelease, SignalElsewhere
<1>18. CASE RoverThreadFails
  BY <1>18, <1>t, StreamerTypeStep, ClientTypeStep
     DEF RoverThreadFails
<1>19. CASE HeadsetActs
  BY <1>19, <1>t, StreamerTypeStep, ClientTypeStep
     DEF HeadsetActs
<1>20. CASE Terminated \/ UNCHANGED vars
  BY <1>20, <1>t, StreamerTypeStep, ClientTypeStep DEF Terminated, vars
<1> QED
  BY <1>1, <1>2, <1>3, <1>4, <1>5, <1>6, <1>7, <1>8, <1>9, <1>10, <1>11,
     <1>12, <1>13, <1>14, <1>15, <1>16, <1>17, <1>18, <1>19, <1>20 DEF Next,
     MainThread

\* In every reachable state of every configuration each variable has its type.
THEOREM TypeCorrect == Spec => []TypeOK
BY TypeInit, TypeStep, PTL DEF Spec
-----------------------------------------------------------------------------
(* The inductive invariant. *)

\* The initial state satisfies IInv.
LEMMA IInvInit == Init => IInv
BY TypeInit
   DEF Init, StreamerInit, ClientInit, IInv, CursorAtRest, SocketInv, StateInv,
       PipelineInv, Walking, Connecting, Announcing, Serving, Releasing

\* Every step of every actor keeps IInv.
LEMMA IInvStep == IInv /\ [Next]_vars => IInv'
<1> SUFFICES ASSUME IInv, [Next]_vars PROVE IInv'
  OBVIOUS
<1>0. TypeOK'
  BY TypeStep DEF IInv
<1> SUFFICES (CursorAtRest /\ SocketInv /\ StateInv /\ PipelineInv)'
  BY <1>0 DEF IInv
<1> USE DEF IInv, CursorAtRest, SocketInv, StateInv, PipelineInv, TypeOK,
            StreamerTypeOK, ClientTypeOK, PipelineStates, Pipelines, Wanted,
            stereo_left, audio_out, Advance, AtLast, Abandon,
            InLoop, Releasing, Ended, Connecting, Announcing, Serving, Walking,
            Goto, LeaveLoop, NotTold, NoFd, streamer_vars, client_vars
<1>1. CASE OuterLoopEnds
  BY <1>1 DEF OuterLoopEnds
<1>2. CASE OpenSocket
  BY <1>2 DEF OpenSocket, InitSocket, InitSocketFails, NoLink
<1>3. CASE Connect
  BY <1>3 DEF Connect, Connected, ConnectFails
<1>4. CASE CouldntConnectGuide
  BY <1>4 DEF CouldntConnectGuide
<1>5. CASE InitGStreamer
  BY <1>5 DEF InitGStreamer, SkipPipeline, ConstructPipeline,
                  ConstructFails
<1>6. CASE Announce
  BY <1>6 DEF Announce, Announce, WriteRegister, WriteProperty,
                WritePropertyData, WriteDestination, WriteDestinationData,
                WriteStreamState, Write, Sent, SendFails, SendKills
<1>7. CASE InnerLoop
  BY <1>7 DEF InnerLoop
<1>8. CASE ReadCmd
  BY <1>8 DEF ReadCmd, TakeCommand, ReadCommand, ReadFails, ReadEnd
<1>9. CASE PlayStream
  BY <1>9 DEF PlayStream, SetState, SetStateFails
<1>10. CASE StopStream
  BY <1>10 DEF StopStream, SetState, SetStateFails
<1>11. CASE Answer
  BY <1>11 DEF Answer, Write, Sent, SendFails, SendKills
<1>12. CASE StopAtEnd
  BY <1>12 DEF StopAtEnd, SetState, SetStateFails
<1>13. CASE CloseSession
  BY <1>13 DEF CloseSession, DeinitSocket, NoLink
<1>14. CASE DeinitGStreamer
  BY <1>14 DEF DeinitGStreamer, DropPipeline
<1>15. CASE FinalDeinitGStreamer
  BY <1>15 DEF FinalDeinitGStreamer, DropPipeline
<1>16. CASE FinalDeinitConn
  BY <1>16 DEF FinalDeinitConn, DeinitSocket, NoLink
<1>17. CASE \E s \in Signals :
              SignalInLoop(s) \/ SignalInRelease(s) \/ SignalElsewhere(s)
  BY <1>17 DEF SignalInLoop, SignalInRelease, SignalElsewhere
<1>18. CASE RoverThreadFails
  BY <1>18 DEF RoverThreadFails
<1>19. CASE HeadsetActs
  BY <1>19 DEF HeadsetActs, Headset, HeadsetSends, HeadsetCloses, HeadsetResets
<1>20. CASE Terminated \/ UNCHANGED vars
  BY <1>20 DEF Terminated, vars
<1> QED
  BY <1>1, <1>2, <1>3, <1>4, <1>5, <1>6, <1>7, <1>8, <1>9, <1>10, <1>11,
     <1>12, <1>13, <1>14, <1>15, <1>16, <1>17, <1>18, <1>19, <1>20 DEF Next,
     MainThread
-----------------------------------------------------------------------------
(* What follows from it. *)

\* IInv, which ties what was announced, built and opened to the call the main
\* thread is at, holds in every reachable state of _mainLoop and run().
THEOREM IInvCorrect == Spec => []IInv
BY IInvInit, IInvStep, PTL DEF Spec

\* After PLAY was answered every configured pipeline plays, after STOP, and
\* before the first command, none does.
THEOREM AnnouncedStateHoldsAlways == Spec => []AnnouncedStateHolds
<1>1. IInv => AnnouncedStateHolds
  BY DEF IInv, StateInv, PipelineInv, AnnouncedStateHolds, AllPlaying,
         NonePlaying
<1> QED BY IInvCorrect, <1>1, PTL

\* initGStreamer never finds a pipeline of an earlier session.
THEOREM FreshPipelinesAlways == Spec => []FreshPipelines
<1>1. IInv => FreshPipelines
  BY DEF IInv, TypeOK, StreamerTypeOK, PipelineInv, FreshPipelines,
         NoPipelines, Pipelines, stereo_left, audio_out, Connecting
<1> QED BY IInvCorrect, <1>1, PTL

\* Every session starts stopped, with unstarted pipelines.
THEOREM SessionStartsStoppedAlways == Spec => []SessionStartsStopped
<1>1. IInv => SessionStartsStopped
  BY DEF IInv, SocketInv, StateInv, PipelineInv, SessionStartsStopped
<1> QED BY IInvCorrect, <1>1, PTL

\* The client's calls are made on an open descriptor of the current session.
THEOREM SocketIsLiveAlways == Spec => []SocketIsLive
<1>1. IInv => SocketIsLive
  BY DEF IInv, SocketInv, SocketIsLive
<1> QED BY IInvCorrect, <1>1, PTL

\* However the loop was left, run() reaches _deinit() with everything released.
THEOREM ReleasedAtExitAlways == Spec => []ReleasedAtExit
<1>1. IInv => ReleasedAtExit
  BY DEF IInv, SocketInv, StateInv, PipelineInv, ReleasedAtExit, NoPipelines
<1> QED BY IInvCorrect, <1>1, PTL

\* A connection is never forgotten without closing its descriptor.
THEOREM SessionSocketReleasedAlways == Spec => SessionSocketReleased
<1> DEFINE Released == link # "none" /\ link' = "none" => sockfd \notin open'
<1>1. IInv /\ [Next]_vars => [Released]_vars
  <2> SUFFICES ASSUME IInv, Next, link # "none", link' = "none"
               PROVE  sockfd \notin open'
    BY DEF vars
  <2> USE DEF IInv, TypeOK, ClientTypeOK, client_vars
  <2>1. CASE OpenSocket
    BY <2>1 DEF SocketInv, OpenSocket
  <2>2. CASE CloseSession \/ FinalDeinitConn
    BY <2>2, ClientAssumption DEF CloseSession, FinalDeinitConn, DeinitSocket
  <2>3. CASE Announce \/ Answer
    BY <2>3 DEF Announce, WriteRegister, WriteProperty, WritePropertyData,
           WriteDestination, WriteDestinationData, WriteStreamState, Answer,
           Write, Sent, SendFails, SendKills
  <2>4. CASE Connect \/ ReadCmd
    BY <2>4 DEF Connect, Connected, ConnectFails, ReadCmd, TakeCommand,
           ReadCommand, ReadFails, ReadEnd
  <2>5. CASE HeadsetActs
    BY <2>5 DEF HeadsetActs, Headset, HeadsetSends, HeadsetCloses,
           HeadsetResets
  <2>6. CASE \E s \in Signals :
              SignalInLoop(s) \/ SignalInRelease(s) \/ SignalElsewhere(s)
    BY <2>6 DEF SignalInLoop, SignalInRelease, SignalElsewhere
  <2>7. CASE \/ OuterLoopEnds \/ CouldntConnectGuide \/ InitGStreamer
             \/ InnerLoop \/ PlayStream \/ StopStream \/ StopAtEnd
             \/ DeinitGStreamer \/ FinalDeinitGStreamer \/ RoverThreadFails
             \/ Terminated
    BY <2>7 DEF OuterLoopEnds, CouldntConnectGuide, InitGStreamer, InnerLoop,
           PlayStream, StopStream, StopAtEnd, DeinitGStreamer,
           FinalDeinitGStreamer, RoverThreadFails, Terminated, vars
  <2> QED BY <2>1, <2>2, <2>3, <2>4, <2>5, <2>6, <2>7 DEF Next, MainThread
<1> QED BY IInvCorrect, <1>1, PTL DEF Spec, SessionSocketReleased
-----------------------------------------------------------------------------
(* The loop implements StreamSession. *)

\* The stream calls move the flow one way only.
LEMMA FlowUnchanged == UNCHANGED pipeline => Flow' = Flow
BY DEF Flow, NonePlaying, AllPlaying

\* The flow is one of the three levels of StreamSession.
LEMMA FlowRange == Flow \in 0 .. 2
BY DEF Flow

\* A pipeline that is set to playing never lowers the flow.
LEMMA FlowRises ==
    ASSUME TypeOK, PipelineInv, SetState("PLAYING")
    PROVE  Flow' \in Flow .. 2
<1> USE DEF TypeOK, StreamerTypeOK, SetState, Flow, NonePlaying, AllPlaying,
            PipelineInv
<1>1. CASE pipeline[cursor] = "nullptr"
  BY <1>1
<1>2. CASE pipeline[cursor] # "nullptr"
  <2>1. pipeline' = [pipeline EXCEPT ![cursor] = "PLAYING"] /\ cursor \in Wanted
    BY <1>2
  <2>2. ~NonePlaying'
    BY <2>1
  <2>3. AllPlaying => AllPlaying'
    BY <2>1
  <2> QED BY <2>2, <2>3
<1> QED BY <1>1, <1>2

\* A pipeline that is paused or dropped never raises it.
LEMMA FlowFalls ==
    ASSUME TypeOK, PipelineInv,
           SetState("PAUSED") \/ SetStateFails \/ DropPipeline
    PROVE  Flow' \in 0 .. Flow
<1> USE DEF TypeOK, StreamerTypeOK, Flow, NonePlaying, AllPlaying, PipelineInv
<1>1. CASE UNCHANGED pipeline
  BY <1>1
<1>2. CASE pipeline[cursor] # "nullptr"
  <2>1. PICK s \in {"PAUSED", "nullptr"} :
            pipeline' = [pipeline EXCEPT ![cursor] = s]
    BY <1>2 DEF SetState, SetStateFails, DropPipeline
  <2>2. cursor \in Wanted
    BY <1>2
  <2>3. ~AllPlaying'
    BY <2>1, <2>2
  <2>4. NonePlaying => NonePlaying'
    BY <2>1
  <2> QED BY <2>3, <2>4
<1>3. CASE pipeline[cursor] = "nullptr" /\ ~UNCHANGED pipeline
  BY <1>3 DEF SetState, SetStateFails, DropPipeline
<1> QED BY <1>1, <1>2, <1>3

\* The initial state is the service's: no session, nothing flows.
LEMMA SessionInit == Init => Session!Init
BY DEF Init, StreamerInit, ClientInit, Session!Init, SessionState, Doing, Told,
       Flow, InSession, ShuttingDown, NonePlaying, InLoop, Connecting, Serving,
       NotTold

\* Every step of the loop is a step of the service, or invisible in it.
LEMMA SessionStep == IInv /\ IInv' /\ [Next]_vars => [Session!Next]_(Session!vars)
<1> SUFFICES ASSUME IInv, IInv', [Next]_vars
             PROVE  [Session!Next]_(Session!vars)
  OBVIOUS
<1> USE FlowRange
    DEF IInv, SocketInv, StateInv, TypeOK, ClientTypeOK,
        SessionState, Doing, Told, InSession, ShuttingDown,
        InLoop, Releasing, Ended, Connecting, Announcing, Serving,
        Goto, LeaveLoop, NotTold, NoFd, client_vars, streamer_vars,
        Session!Next, Session!vars
<1>1. CASE OuterLoopEnds \/ CouldntConnectGuide
  BY <1>1, FlowUnchanged DEF OuterLoopEnds, CouldntConnectGuide, Session!Finish
<1>2. CASE OpenSocket
  <2>1. Flow' = Flow
    BY <1>2, FlowUnchanged DEF OpenSocket
  <2>2. SessionState = "closed" /\ Doing = "nothing" /\ Told = NotTold
    BY <1>2 DEF OpenSocket
  <2>3. CASE InitSocket /\ Goto("conn")
    <3>1. SessionState' = "closed" /\ Doing' = "nothing" /\ Told' = NotTold
      BY <2>3 DEF InitSocket, NoLink
    <3> QED BY <2>1, <2>2, <3>1
  <2>4. CASE InitSocketFails /\ LeaveLoop
    BY <2>1, <2>4 DEF Session!Finish
  <2> QED BY <1>2, <2>3, <2>4 DEF OpenSocket
<1>3. CASE Connect
  <2>1. Flow = 0 /\ Flow' = Flow
    BY <1>3, FlowUnchanged DEF Connect, PipelineInv, Flow, NonePlaying
  <2> QED
    BY <1>3, <2>1 DEF Connect, Connected, ConnectFails, Session!Open
<1>4. CASE InitGStreamer
  <2>1. Flow = 0 /\ Flow' = 0
    BY <1>4 DEF InitGStreamer, PipelineInv, Flow, NonePlaying, ConstructFails
  <2> QED
    BY <1>4, <2>1 DEF InitGStreamer, Session!Finish
<1>5. CASE Announce
  <2>1. Flow' = Flow
    BY <1>5, FlowUnchanged
       DEF Announce, WriteRegister, WriteProperty, WritePropertyData,
           WriteDestination, WriteDestinationData, WriteStreamState, Write
  <2> QED
    BY <1>5, <2>1
       DEF Announce, WriteRegister, WriteProperty, WritePropertyData,
           WriteDestination, WriteDestinationData, WriteStreamState, Write,
           Sent, SendFails, SendKills, Session!Greet, Session!Finish
<1>6. CASE InnerLoop
  BY <1>6, FlowUnchanged DEF InnerLoop, Session!Finish
<1>7. CASE ReadCmd
  <2>1. Flow' = Flow
    BY <1>7, FlowUnchanged DEF ReadCmd
  <2>2. SessionState = "open" /\ Doing = "nothing" /\ Told = told /\ told # NotTold
    BY <1>7 DEF ReadCmd
  <2>3. link' # "none" /\ told' = told
    BY <1>7, <2>2
       DEF ReadCmd, TakeCommand, ReadCommand, ReadFails, ReadEnd
  <2>4. pc' \in {"play", "stop", "inner", "eof"}
    BY <1>7 DEF ReadCmd, TakeCommand
  <2>5. SessionState' = "open" /\ Told' = told
    BY <2>3, <2>4
  <2>6. CASE pc' = "inner"
    BY <2>1, <2>2, <2>5, <2>6
  <2>7. CASE pc' # "inner"
    <3>1. Doing' \in {"play", "stop"}
      BY <2>4, <2>7
    <3>2. Session!Obey
      BY <2>1, <2>2, <2>5, <3>1 DEF Session!Obey
    <3> QED BY <3>2
  <2> QED BY <2>6, <2>7
<1>8. CASE PlayStream
  <2>1. CASE SetState("PLAYING") /\ Goto(IF AtLast THEN "answer" ELSE "play")
    <3>1. Flow' \in Flow .. 2
      BY <2>1, FlowRises
    <3>2. SessionState = "open" /\ Doing = "play" /\ Told = told
      BY <1>8 DEF PlayStream
    <3>3. pc' \in {"play", "answer"} /\ UNCHANGED <<client_vars, stream_state>>
      BY <1>8, <2>1 DEF PlayStream
    <3>4. SessionState' = "open" /\ Doing' = "play" /\ Told' = told
      BY <1>8, <3>3 DEF PlayStream
    <3>5. Session!Rise
      BY <3>1, <3>2, <3>4 DEF Session!Rise
    <3> QED BY <3>5
  <2>2. CASE SetStateFails /\ LeaveLoop
    BY <1>8, <2>2, FlowFalls DEF PlayStream, Session!Finish
  <2> QED BY <1>8, <2>1, <2>2 DEF PlayStream
<1>9. CASE StopStream
  <2>1. Flow' \in 0 .. Flow
    BY <1>9, FlowFalls DEF StopStream
  <2> QED BY <1>9, <2>1 DEF StopStream, Session!Fall, Session!Finish
<1>10. CASE Answer
  <2>1. Flow' = Flow
    BY <1>10, FlowUnchanged DEF Answer, Write
  <2>2. Flow = IF stream_state = 1 THEN 2 ELSE 0
    <3>1. stereo_left \in Pipelines /\ stereo_left \in Wanted
      BY DEF Pipelines, Wanted, stereo_left, stereo_right, main_camera,
             audio_out
    <3> QED
      BY <1>10, <3>1 DEF Answer, PipelineInv, Flow, NonePlaying, AllPlaying
  <2> QED
    BY <1>10, <2>1, <2>2
       DEF Answer, Write, Sent, SendFails, SendKills, Session!Tell,
           Session!Finish
<1>11. CASE StopAtEnd
  <2>1. Flow' \in 0 .. Flow
    BY <1>11, FlowFalls DEF StopAtEnd
  <2> QED BY <1>11, <2>1 DEF StopAtEnd, Session!Fall
<1>12. CASE CloseSession
  BY <1>12, FlowUnchanged DEF CloseSession, DeinitSocket, NoLink, Session!Close
<1>13. CASE DeinitGStreamer \/ FinalDeinitGStreamer
  <2>1. Flow' \in 0 .. Flow
    BY <1>13, FlowFalls DEF DeinitGStreamer, FinalDeinitGStreamer
  <2> QED
    BY <1>13, <2>1 DEF DeinitGStreamer, FinalDeinitGStreamer, Session!Fall
<1>14. CASE FinalDeinitConn
  BY <1>14, FlowUnchanged DEF FinalDeinitConn, DeinitSocket, NoLink
<1>15. CASE \E s \in Signals :
              SignalInLoop(s) \/ SignalInRelease(s) \/ SignalElsewhere(s)
  BY <1>15, FlowUnchanged
     DEF SignalInLoop, SignalInRelease, SignalElsewhere, Session!Finish
<1>16. CASE RoverThreadFails
  BY <1>16, FlowUnchanged DEF RoverThreadFails
<1>17. CASE HeadsetActs
  BY <1>17, FlowUnchanged
     DEF HeadsetActs, Headset, HeadsetSends, HeadsetCloses, HeadsetResets
<1>18. CASE Terminated \/ UNCHANGED vars
  BY <1>18, FlowUnchanged DEF Terminated, vars
<1> QED
  BY <1>1, <1>2, <1>3, <1>4, <1>5, <1>6, <1>7, <1>8, <1>9, <1>10, <1>11,
     <1>12, <1>13, <1>14, <1>15, <1>16, <1>17, <1>18 DEF Next, MainThread

\* In every configuration the main loop keeps what StreamSession promises the
\* headset.
THEOREM ImplementsSessionAlways == Spec => ImplementsSession
<1>1. Spec => Session!Init
  BY SessionInit DEF Spec
<1> QED
  BY <1>1, SessionInit, SessionStep, IInvCorrect, PTL
     DEF Spec, ImplementsSession, Session!Spec
-----------------------------------------------------------------------------
(* How far the main thread is from the end. *)

\* The number of calls behind each call of the main thread.
LEMMA CallsBehindIs ==
    ASSUME NEW label \in InLoop \cup Releasing \cup Ended
    PROVE  /\ CallsBehind[label] \in Nat
           /\ label \in Ended => CallsBehind[label] = 0
           /\ label = "final_conn" => CallsBehind[label] = 1
           /\ label = "final_gst" => CallsBehind[label] = 2
           /\ label = "init" => CallsBehind[label] = 7
           /\ label \in {"guide", "teardown"} => CallsBehind[label] = 8
           /\ label = "close" => CallsBehind[label] = 13
           /\ label = "eof" => CallsBehind[label] = 14
           /\ label = "inner" => CallsBehind[label] = 20
           /\ label = "answer" => CallsBehind[label] = 21
           /\ label \in {"stop", "play"} => CallsBehind[label] = 22
           /\ label = "read" => CallsBehind[label] = 27
           /\ label = "announce" => CallsBehind[label] = 28
           /\ label = "destination_data" => CallsBehind[label] = 29
           /\ label = "destination" => CallsBehind[label] = 30
           /\ label = "property_data" => CallsBehind[label] = 31
           /\ label = "property" => CallsBehind[label] = 32
           /\ label = "register" => CallsBehind[label] = 33
           /\ label = "gst" => CallsBehind[label] = 34
           /\ label = "conn" => CallsBehind[label] = 39
           /\ label \in InLoop => CallsBehind[label] >= 7
BY DEF CallsBehind, InLoop, Connecting, Announcing, Serving, Releasing, Ended

\* What the walk adds, which is nothing outside of one.
LEMMA WalkLeftIs ==
    ASSUME TypeOK
    PROVE  /\ cursor \in 1 .. 5
           /\ pc \in Walking => WalkLeft = 5 - cursor
           /\ pc \notin Walking => WalkLeft = 0
           /\ WalkLeft \in 0 .. 4
BY DEF TypeOK, StreamerTypeOK, Pipelines, stereo_left, audio_out, WalkLeft

\* A step of the main thread stays in the loop, leaves it with stop(), dies of
\* a broken pipe, or goes on with the releases.
LEMMA MainThreadMoves ==
    ASSUME IInv, MainThread
    PROVE  /\ UNCHANGED masked
           /\ \/ pc \in InLoop /\ pc' \in InLoop /\ UNCHANGED system_on
              \/ pc \in InLoop /\ pc' = "final_gst" /\ system_on' = FALSE
              \/ /\ pc \in InLoop /\ pc' = "killed"
                 /\ ~SigPipeIgnored /\ UNCHANGED system_on
              \/ /\ pc \in Releasing /\ pc' \in Releasing \cup {"done"}
                 /\ UNCHANGED system_on
<1> USE DEF InLoop, Connecting, Announcing, Serving, Releasing, Goto, LeaveLoop
<1>1. CASE OuterLoopEnds \/ OpenSocket \/ Connect \/ CouldntConnectGuide
  BY <1>1 DEF OuterLoopEnds, OpenSocket, Connect, CouldntConnectGuide
<1>2. CASE InitGStreamer
  BY <1>2 DEF InitGStreamer
<1>3. CASE Announce \/ Answer
  BY <1>3
     DEF Announce, WriteRegister, WriteProperty, WritePropertyData,
         WriteDestination, WriteDestinationData, WriteStreamState, Answer,
         Write, SendKills
<1>4. CASE InnerLoop \/ ReadCmd
  BY <1>4 DEF InnerLoop, ReadCmd, TakeCommand
<1>5. CASE PlayStream \/ StopStream \/ StopAtEnd
  BY <1>5 DEF PlayStream, StopStream, StopAtEnd
<1>6. CASE CloseSession \/ DeinitGStreamer
  BY <1>6 DEF CloseSession, DeinitGStreamer
<1>7. CASE FinalDeinitGStreamer \/ FinalDeinitConn
  BY <1>7 DEF FinalDeinitGStreamer, FinalDeinitConn
<1> QED
  BY <1>1, <1>2, <1>3, <1>4, <1>5, <1>6, <1>7 DEF MainThread

\* Every step of the main thread brings it nearer to the end, when system_on is
\* cleared or the headset gone: but for the test of the inner loop that finds
\* system_on set.
LEMMA MainThreadProgress ==
    ASSUME IInv, IInv', MainThread,
           ~system_on \/ (HeadsetGone /\ HeadsetGone')
    PROVE  \/ StepsToEnd' < StepsToEnd
           \/ pc = "inner" /\ pc' = "read" /\ system_on
<1>1. TypeOK /\ TypeOK' /\ CursorAtRest /\ CursorAtRest' /\ SocketInv
  BY DEF IInv
<1>2. /\ pc \in InLoop \cup Releasing \cup Ended
      /\ pc' \in InLoop \cup Releasing \cup Ended
  BY <1>1 DEF TypeOK
<1>3. /\ cursor \in 1 .. 5 /\ WalkLeft \in 0 .. 4
      /\ pc \in Walking => WalkLeft = 5 - cursor
      /\ pc \notin Walking => WalkLeft = 0
  BY <1>1, WalkLeftIs
<1>4. PICK next \in 1 .. 5, left \in 0 .. 4 :
          /\ cursor' = next /\ WalkLeft' = left
          /\ pc' \in Walking => left = 5 - next
          /\ pc' \notin Walking => left = 0
  <2>1. (TypeOK => /\ cursor \in 1 .. 5
                   /\ pc \in Walking => WalkLeft = 5 - cursor
                   /\ pc \notin Walking => WalkLeft = 0
                   /\ WalkLeft \in 0 .. 4)'
    BY WalkLeftIs, PTL
  <2> QED
    BY <1>1, <2>1
<1>5. /\ pc \notin Walking => cursor = 1
      /\ pc' \notin Walking => next = 1
  BY <1>1, <1>4 DEF CursorAtRest, stereo_left
<1>6. /\ StepsToEnd = CallsBehind[pc] + WalkLeft
      /\ StepsToEnd' = CallsBehind[pc'] + left
      /\ CallsBehind[pc] \in Nat /\ CallsBehind[pc'] \in Nat
  BY <1>2, <1>4, CallsBehindIs DEF StepsToEnd
<1>7. ASSUME pc' = "final_gst", pc \in InLoop
      PROVE  StepsToEnd' < StepsToEnd
  BY <1>7, <1>2, <1>3, <1>4, <1>6, CallsBehindIs
<1> USE <1>2, <1>3, <1>4, <1>5, <1>6, <1>7, CallsBehindIs
    DEF Walking, InLoop, Connecting, Announcing, Serving, Goto, LeaveLoop
<1>11. CASE OuterLoopEnds \/ OpenSocket
  BY <1>11, <1>1 DEF OuterLoopEnds, OpenSocket, SocketInv, HeadsetGone
<1>12. CASE Connect \/ CouldntConnectGuide
  BY <1>12, <1>1
     DEF Connect, CouldntConnectGuide, SocketInv, HeadsetGone
<1>13. CASE InitGStreamer
  BY <1>13
     DEF InitGStreamer, SkipPipeline, ConstructPipeline, Advance, AtLast,
         audio_out, stereo_left
<1>14. CASE Announce
  <2>1. \/ pc' \in {"final_gst", "killed"}
        \/ pc = "register" /\ pc' = "property"
        \/ pc = "property" /\ pc' = "property_data"
        \/ pc = "property_data" /\ pc' \in {"destination", "announce"}
        \/ pc = "destination" /\ pc' = "destination_data"
        \/ pc = "destination_data" /\ pc' = "announce"
        \/ pc = "announce" /\ pc' = "inner"
    BY <1>14
       DEF Announce, WriteRegister, WriteProperty, WritePropertyData,
           WriteDestination, WriteDestinationData, WriteStreamState, Write
  <2>2. pc \in Announcing
    BY <1>14
       DEF Announce, WriteRegister, WriteProperty, WritePropertyData,
           WriteDestination, WriteDestinationData, WriteStreamState
  <2> QED
    BY <2>1, <2>2 DEF Ended
<1>15. CASE InnerLoop
  BY <1>15 DEF InnerLoop
<1>16. CASE ReadCmd
  BY <1>16 DEF ReadCmd, TakeCommand
<1>17. CASE PlayStream \/ StopStream
  <2>1. CASE pc' = "final_gst"
    BY <1>17, <2>1 DEF PlayStream, StopStream
  <2>2. CASE pc' # "final_gst"
    <3>1. /\ pc \in {"play", "stop"}
          /\ pc' = IF cursor = 5 THEN "answer" ELSE pc
          /\ cursor' = IF cursor = 5 THEN 1 ELSE cursor + 1
      BY <1>17, <2>2
         DEF PlayStream, StopStream, SetState, Advance, AtLast, audio_out,
             stereo_left
    <3> QED
      BY <3>1
  <2> QED
    BY <2>1, <2>2
<1>18. CASE Answer
  BY <1>18 DEF Answer, Write, Ended
<1>19. CASE StopAtEnd
  <2>1. /\ pc = "eof"
        /\ \/ pc' = "close"
           \/ pc' = "eof" /\ cursor # 5 /\ cursor' = cursor + 1
    BY <1>19
       DEF StopAtEnd, SetState, SetStateFails, Advance, AtLast, audio_out
  <2> QED
    BY <2>1
<1>20. CASE CloseSession
  BY <1>20 DEF CloseSession
<1>21. CASE DeinitGStreamer
  BY <1>21 DEF DeinitGStreamer, DropPipeline, Advance, AtLast, audio_out,
               stereo_left
<1>22. CASE FinalDeinitGStreamer
  BY <1>22
     DEF FinalDeinitGStreamer, DropPipeline, Advance, AtLast, audio_out,
         stereo_left
<1>23. CASE FinalDeinitConn
  BY <1>23 DEF FinalDeinitConn, Ended
<1> QED
  BY <1>11, <1>12, <1>13, <1>14, <1>15, <1>16, <1>17, <1>18, <1>19, <1>20,
     <1>21, <1>22, <1>23 DEF MainThread

\* Nothing but the main thread's own calls takes it further from the end.
LEMMA OthersProgress ==
    ASSUME IInv, IInv', Next, ~MainThread
    PROVE  \/ /\ UNCHANGED <<pc, cursor>>
              /\ system_on' \in {system_on, FALSE}
              /\ HeadsetGone => UNCHANGED inbox
              /\ HeadsetGone /\ link' = "reset" => link = "reset"
           \/ /\ StepsToEnd' < StepsToEnd
              /\ pc' # "read"
              /\ pc = "read" => StepsToEnd' < 19
              /\ system_on' \in {system_on, FALSE}
              /\ UNCHANGED <<inbox, link>>
<1>1. TypeOK /\ TypeOK'
  BY DEF IInv
<1>2. CASE \E s \in Signals :
              SignalInLoop(s) \/ SignalInRelease(s) \/ SignalElsewhere(s)
  <2>1. /\ \/ pc \in InLoop /\ pc' = "final_gst"
           \/ pc \in Releasing /\ pc' \in Ended
        /\ system_on' \in {system_on, FALSE}
        /\ UNCHANGED <<inbox, link>>
    BY <1>2
       DEF SignalInLoop, SignalInRelease, SignalElsewhere, LeaveLoop, Goto,
           Ended, client_vars
  <2>2. WalkLeft \in 0 .. 4 /\ (pc \notin Walking => WalkLeft = 0)
    BY <1>1, WalkLeftIs
  <2>3. PICK left \in 0 .. 4 :
            WalkLeft' = left /\ (pc' \notin Walking => left = 0)
    <3>1. (TypeOK => /\ cursor \in 1 .. 5
                     /\ pc \in Walking => WalkLeft = 5 - cursor
                     /\ pc \notin Walking => WalkLeft = 0
                     /\ WalkLeft \in 0 .. 4)'
      BY WalkLeftIs, PTL
    <3> QED
      BY <1>1, <3>1
  <2>4. /\ pc \in InLoop \cup Releasing \cup Ended
        /\ pc' \in InLoop \cup Releasing \cup Ended
    BY <1>1 DEF TypeOK
  <2>5. StepsToEnd = CallsBehind[pc] + WalkLeft
    BY DEF StepsToEnd
  <2>6. StepsToEnd' = CallsBehind[pc'] + left
    BY <2>3 DEF StepsToEnd
  <2>7. CASE pc \in InLoop /\ pc' = "final_gst"
    <3>1. CallsBehind[pc'] = 2 /\ CallsBehind[pc] \in Nat /\ CallsBehind[pc] >= 7
      BY <2>4, <2>7, CallsBehindIs
    <3>2. StepsToEnd' < StepsToEnd /\ StepsToEnd' < 19
      BY <2>2, <2>3, <2>5, <2>6, <3>1
    <3> QED
      BY <2>1, <2>7, <3>2
  <2>8. CASE pc \in Releasing /\ pc' \in Ended
    <3>1. CallsBehind[pc'] = 0 /\ CallsBehind[pc] \in {1, 2}
      BY <2>4, <2>8, CallsBehindIs DEF Releasing
    <3>2. StepsToEnd' < StepsToEnd /\ pc # "read" /\ pc' # "read"
      BY <2>2, <2>3, <2>5, <2>6, <2>8, <3>1 DEF Releasing, Ended, Walking
    <3> QED
      BY <2>1, <3>2
  <2> QED
    BY <2>1, <2>7, <2>8
<1>3. CASE RoverThreadFails \/ Terminated
  BY <1>3
     DEF RoverThreadFails, Terminated, vars, streamer_vars, client_vars
<1>4. CASE HeadsetActs
  BY <1>4
     DEF HeadsetActs, streamer_vars, Headset, HeadsetSends, HeadsetCloses,
         HeadsetResets, HeadsetGone
<1> QED
  BY <1>2, <1>3, <1>4 DEF Next

\* The bounds are numbers.
LEMMA StepsToEndNat == TypeOK => StepsToEnd \in Nat
<1> SUFFICES ASSUME TypeOK PROVE StepsToEnd \in Nat
  OBVIOUS
<1>1. CallsBehind[pc] \in Nat /\ WalkLeft \in 0 .. 4
  BY CallsBehindIs, WalkLeftIs DEF TypeOK
<1> QED
  BY <1>1 DEF StepsToEnd

\* Once system_on is cleared every call of the main thread is one less to its
\* end, whatever the others do.
THEOREM StopCountsDownAlways == Spec => StopCountsDown
<1> DEFINE Nearer == ~system_on =>
               /\ ~system_on'
               /\ StepsToEnd' <= StepsToEnd
               /\ MainThread => StepsToEnd' < StepsToEnd
<1>1. IInv /\ IInv' /\ [Next]_vars => [Nearer]_vars
  <2> SUFFICES ASSUME IInv, IInv', Next, ~system_on PROVE Nearer
    OBVIOUS
  <2>1. StepsToEnd \in Nat /\ StepsToEnd' \in Nat
    <3>1. (TypeOK => StepsToEnd \in Nat)'
      BY StepsToEndNat, PTL
    <3> QED
      BY <3>1, StepsToEndNat DEF IInv
  <2>2. CASE MainThread
    <3>1. ~system_on'
      BY <2>2, MainThreadMoves
    <3>2. StepsToEnd' < StepsToEnd
      BY <2>2, MainThreadProgress
    <3> QED
      BY <2>1, <3>1, <3>2
  <2>3. CASE ~MainThread
    <3>1. UNCHANGED <<pc, cursor>> => StepsToEnd' = StepsToEnd
      BY DEF StepsToEnd, WalkLeft
    <3>2. StepsToEnd' <= StepsToEnd
      <4>1. PICK end \in Nat : StepsToEnd' = end
        BY <2>1
      <4>2. end = StepsToEnd \/ end < StepsToEnd
        BY <2>3, <3>1, <4>1, OthersProgress
      <4> QED
        BY <2>1, <4>1, <4>2
    <3>3. system_on' \in {system_on, FALSE}
      BY <2>3, OthersProgress
    <3>4. ~system_on'
      BY <3>3, Zenon
    <3> QED
      BY <2>3, <3>2, <3>4
  <2> QED
    BY <2>2, <2>3
<1> QED
  BY <1>1, IInvCorrect, PTL DEF Spec, StopCountsDown

\* When the headset is gone a call either takes what it has left behind or is a
\* step to the end.
LEMMA GoneStep ==
    ASSUME IInv, IInv', MainThread, HeadsetGone, HeadsetGone'
    PROVE  \/ /\ pc = "read" /\ pc' \in {"play", "stop", "inner"}
              /\ inbox # <<>> /\ inbox' = Tail(inbox) /\ UNCHANGED link
           \/ /\ pc = "read" /\ pc' = "inner"
              /\ link = "reset" /\ link' = "broken" /\ UNCHANGED inbox
           \/ pc = "read" /\ pc' = "eof" /\ UNCHANGED <<inbox, link>>
           \/ /\ pc # "read" /\ (pc' = "read" => pc = "inner")
              /\ UNCHANGED inbox /\ (link' = "reset" => link = "reset")
<1> USE DEF HeadsetGone, Goto, LeaveLoop, NoLink, client_vars
<1>1. CASE OuterLoopEnds \/ OpenSocket \/ Connect \/ CouldntConnectGuide
  BY <1>1 DEF OuterLoopEnds, OpenSocket, InitSocket, InitSocketFails, Connect,
              Connected, ConnectFails, CouldntConnectGuide
<1>2. CASE InitGStreamer
  BY <1>2 DEF InitGStreamer
<1>3. CASE Announce \/ Answer
  BY <1>3
     DEF Announce, WriteRegister, WriteProperty, WritePropertyData,
         WriteDestination, WriteDestinationData, WriteStreamState, Answer,
         Write, Sent, SendFails, SendKills
<1>4. CASE InnerLoop
  BY <1>4 DEF InnerLoop
<1>5. CASE ReadCmd
  BY <1>5 DEF ReadCmd, TakeCommand, ReadCommand, ReadFails, ReadEnd
<1>6. CASE PlayStream \/ StopStream \/ StopAtEnd
  BY <1>6 DEF PlayStream, StopStream, StopAtEnd
<1>7. CASE CloseSession \/ DeinitGStreamer
  BY <1>7 DEF CloseSession, DeinitSocket, DeinitGStreamer
<1>8. CASE FinalDeinitGStreamer \/ FinalDeinitConn
  BY <1>8 DEF FinalDeinitGStreamer, FinalDeinitConn, DeinitSocket
<1> QED
  BY <1>1, <1>2, <1>3, <1>4, <1>5, <1>6, <1>7, <1>8 DEF MainThread

\* StepsToNotice in terms of StepsToEnd.
LEMMA StepsToNoticeIs ==
    ASSUME TypeOK
    PROVE  /\ Len(inbox) \in Nat
           /\ pc # "read" => StepsToNotice =
                  StepsToEnd + 8 * Len(inbox) + (IF link = "reset" THEN 2 ELSE 0)
           /\ pc = "read" => StepsToEnd = 27 /\ StepsToNotice =
                  19 + 8 * Len(inbox) + (IF link = "reset" THEN 2 ELSE 0)
<1>1. Len(inbox) \in Nat
  BY DEF TypeOK, ClientTypeOK
<1>2. CASE pc = "read"
  <2>1. WalkLeft = 0 /\ CallsBehind[pc] = 27
    BY <1>2, WalkLeftIs, CallsBehindIs DEF Walking, TypeOK
  <2> QED
    BY <1>1, <1>2, <2>1 DEF StepsToNotice, StepsToEnd
<1>3. CASE pc # "read"
  BY <1>1, <1>3 DEF StepsToNotice, StepsToEnd
<1> QED
  BY <1>1, <1>2, <1>3

\* What is left where a read can lead to.
LEMMA StepsAfterRead ==
    TypeOK => /\ pc \in {"play", "stop"} => StepsToEnd <= 26
              /\ pc = "inner" => StepsToEnd = 20
              /\ pc = "eof" => StepsToEnd <= 18
<1> SUFFICES ASSUME TypeOK
             PROVE  /\ pc \in {"play", "stop"} => StepsToEnd <= 26
                    /\ pc = "inner" => StepsToEnd = 20
                    /\ pc = "eof" => StepsToEnd <= 18
  OBVIOUS
<1>1. WalkLeft \in 0 .. 4 /\ (pc = "inner" => WalkLeft = 0)
  BY WalkLeftIs DEF Walking
<1>2. /\ pc \in {"play", "stop"} => CallsBehind[pc] = 22
      /\ pc = "inner" => CallsBehind[pc] = 20
      /\ pc = "eof" => CallsBehind[pc] = 14
  BY CallsBehindIs DEF TypeOK
<1> QED
  BY <1>1, <1>2 DEF StepsToEnd

\* When the headset is gone every call of the main thread brings it nearer to
\* the end of the session, whatever commands are left and whatever fails.
THEOREM GoneHeadsetCountsDownAlways == Spec => GoneHeadsetCountsDown
<1> DEFINE Nearer == HeadsetGone /\ HeadsetGone' =>
               /\ StepsToNotice' <= StepsToNotice
               /\ MainThread => StepsToNotice' < StepsToNotice
           Reset == IF link = "reset" THEN 2 ELSE 0
<1>1. IInv /\ IInv' /\ [Next]_vars => [Nearer]_vars
  <2> SUFFICES ASSUME IInv, IInv', Next, HeadsetGone, HeadsetGone'
               PROVE  /\ StepsToNotice' <= StepsToNotice
                      /\ MainThread => StepsToNotice' < StepsToNotice
    OBVIOUS
  <2>1. /\ Len(inbox) \in Nat /\ StepsToEnd \in Nat /\ Reset \in {0, 2}
        /\ pc # "read" =>
               StepsToNotice = StepsToEnd + 8 * Len(inbox) + Reset
        /\ pc = "read" =>
               StepsToEnd = 27 /\ StepsToNotice = 19 + 8 * Len(inbox) + Reset
    BY StepsToNoticeIs, StepsToEndNat DEF IInv
  <2>2. PICK end \in Nat, length \in Nat, reset \in {0, 2} :
            /\ StepsToEnd' = end
            /\ Len(inbox') = length
            /\ Reset' = reset
            /\ pc' # "read" => StepsToNotice' = end + 8 * length + reset
            /\ pc' = "read" =>
                   end = 27 /\ StepsToNotice' = 19 + 8 * length + reset
    <3>1. (TypeOK =>
             /\ Len(inbox) \in Nat
             /\ pc # "read" => StepsToNotice =
                    StepsToEnd + 8 * Len(inbox) + (IF link = "reset" THEN 2 ELSE 0)
             /\ pc = "read" => StepsToEnd = 27 /\ StepsToNotice =
                    19 + 8 * Len(inbox) + (IF link = "reset" THEN 2 ELSE 0))'
      BY StepsToNoticeIs, PTL
    <3>2. (TypeOK => StepsToEnd \in Nat)'
      BY StepsToEndNat, PTL
    <3> QED
      BY <3>1, <3>2 DEF IInv
  <2> HIDE DEF Reset
  <2>3. CASE MainThread
    <3>1. /\ pc' \in {"play", "stop"} => end <= 26
          /\ pc' = "inner" => end = 20
          /\ pc' = "eof" => end <= 18
      <4>1. (TypeOK => /\ pc \in {"play", "stop"} => StepsToEnd <= 26
                       /\ pc = "inner" => StepsToEnd = 20
                       /\ pc = "eof" => StepsToEnd <= 18)'
        BY StepsAfterRead, PTL
      <4> QED
        BY <2>2, <4>1 DEF IInv
    <3>2. CASE /\ pc = "read" /\ pc' \in {"play", "stop", "inner"}
               /\ inbox # <<>> /\ inbox' = Tail(inbox) /\ UNCHANGED link
      <4>1. length = Len(inbox) - 1
        BY <2>2, <3>2 DEF IInv, TypeOK, ClientTypeOK
      <4>2. reset = Reset
        BY <2>2, <3>2 DEF Reset
      <4> QED
        BY <2>1, <2>2, <3>1, <3>2, <4>1, <4>2
    <3>3. CASE /\ pc = "read" /\ pc' = "inner"
               /\ link = "reset" /\ link' = "broken" /\ UNCHANGED inbox
      <4>1. Reset = 2 /\ reset = 0 /\ length = Len(inbox)
        BY <2>2, <3>3 DEF Reset
      <4> QED
        BY <2>1, <2>2, <3>1, <3>3, <4>1
    <3>4. CASE pc = "read" /\ pc' = "eof" /\ UNCHANGED <<inbox, link>>
      <4>1. reset = Reset /\ length = Len(inbox)
        BY <2>2, <3>4 DEF Reset
      <4> QED
        BY <2>1, <2>2, <3>1, <3>4, <4>1
    <3>5. CASE /\ pc # "read" /\ (pc' = "read" => pc = "inner")
               /\ UNCHANGED inbox /\ (link' = "reset" => link = "reset")
      <4>1. reset <= Reset /\ length = Len(inbox)
        BY <2>1, <2>2, <3>5 DEF Reset
      <4>2. CASE pc' = "read"
        <5>1. StepsToEnd = 20
          BY <3>5, <4>2, StepsAfterRead DEF IInv
        <5> QED
          BY <2>1, <2>2, <3>5, <4>1, <4>2, <5>1
      <4>3. CASE pc' # "read"
        <5>1. end < StepsToEnd
          BY <2>2, <2>3, <4>3, MainThreadProgress
        <5> QED
          BY <2>1, <2>2, <3>5, <4>1, <4>3, <5>1
      <4> QED
        BY <4>2, <4>3
    <3> QED
      BY <2>3, <3>2, <3>3, <3>4, <3>5, GoneStep
  <2>4. CASE ~MainThread
    <3>1. CASE /\ UNCHANGED <<pc, cursor, inbox>>
               /\ link' = "reset" => link = "reset"
      <4>1. end = StepsToEnd
        BY <2>2, <3>1 DEF StepsToEnd, WalkLeft
      <4>2. reset <= Reset /\ length = Len(inbox)
        BY <2>1, <2>2, <3>1 DEF Reset
      <4> QED
        BY <2>1, <2>2, <2>4, <3>1, <4>1, <4>2
    <3>2. CASE /\ StepsToEnd' < StepsToEnd
               /\ pc' # "read"
               /\ pc = "read" => StepsToEnd' < 19
               /\ UNCHANGED <<inbox, link>>
      <4>1. reset = Reset /\ length = Len(inbox)
        BY <2>2, <3>2 DEF Reset
      <4> QED
        BY <2>1, <2>2, <2>4, <3>2, <4>1
    <3> QED
      BY <2>4, <3>1, <3>2, OthersProgress
  <2> QED
    BY <2>3, <2>4
<1> QED
  BY <1>1, IInvCorrect, PTL DEF Spec, GoneHeadsetCountsDown
=============================================================================
