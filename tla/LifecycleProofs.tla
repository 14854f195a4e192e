-------------------------- MODULE LifecycleProofs --------------------------
(***************************************************************************)
(* For every set of signals and every hardware configuration: how far      *)
(* _init() and _deinit() have come determines, by the configuration alone, *)
(* which devices exist and whether the rover's thread does.  IInv says so, *)
(* is inductive, and yields the safety invariants of Lifecycle.            *)
(***************************************************************************)
EXTENDS Lifecycle, TLAPS

\* The labels before a device is made, and from there to its deinit.
BeforeVideo  == Before \cup {"video"}
BeforeGimbal == BeforeVideo \cup {"video_guide", "gimbal"}
BeforeRover  == BeforeGimbal \cup {"gimbal_guide", "rover"}
WithRover    == {"rover_guide", "ready_guide", "loop", "release",
                 "deinit_video", "deinit_gimbal", "join_rover"}
WithGimbal   == {"gimbal_guide", "rover"} \cup (WithRover \ {"join_rover"})
WithVideo    == {"video_guide", "gimbal"} \cup (WithGimbal \ {"deinit_gimbal"})

VideoInv ==
    /\ pc \in BeforeVideo => streamer = "null"
    /\ pc \in WithVideo => streamer = "ready"
    /\ pc \in {"deinit_gimbal", "join_rover", "deinit_rover", "bye"} =>
           streamer = "null"

GimbalInv ==
    /\ pc \in BeforeGimbal => gimbal = "null" /\ "GIMBAL" \notin device_options
    /\ pc = "gimbal_guide" => root.gimbal = "RS2"
    /\ pc \in WithGimbal =>
           \/ /\ root.gimbal = "RS2"
              /\ gimbal = "ready"
              /\ "GIMBAL" \in device_options
           \/ /\ root.gimbal = "none"
              /\ gimbal = "null"
              /\ "GIMBAL" \notin device_options
    /\ pc \in {"join_rover", "deinit_rover", "bye"} => gimbal = "null"

RoverInv ==
    /\ pc \in BeforeRover =>
           /\ rover = "null"
           /\ thread = "none"
           /\ "ROVER" \notin device_options
    /\ pc \in WithRover =>
           \/ /\ root.rover \in {"Nesfr4", "Nesfr7ROS2"}
              /\ rover = "ready"
              /\ Joinable
              /\ "ROVER" \in device_options
           \/ /\ root.rover = "none"
              /\ rover = "null"
              /\ thread = "none"
              /\ "ROVER" \notin device_options
    /\ pc = "deinit_rover" =>
           rover = "ready" /\ thread = "joined"
    /\ pc = "bye" => rover = "null" /\ ~Joinable
    /\ pc \in {"returned", "exited"} /\ thread = "running" => rover = "ready"

StopInv == pc \in Taking => ~system_on

\* The main loop was entered, and has returned or was left by a signal.
LoopIsOver == loop_result # "none" \/ masked # {}

\* Where the return value 0 can come from without an exception.
SuccessInv ==
    /\ pc \in Taking => LoopIsOver
    /\ pc \in {"returned", "exited"} /\ ret = 0 /\ ~thrown =>
           /\ streamer = "null" /\ gimbal = "null" /\ rover = "null"
           /\ LoopIsOver

IInv ==
    TypeOK /\ VideoInv /\ GimbalInv /\ RoverInv /\ StopInv /\ SuccessInv

-----------------------------------------------------------------------------
(* Type correctness. *)

\* The initial state is well typed.
LEMMA TypeInit == Init => TypeOK
BY DEF Init, TypeOK, Pointer, Running, Before

\* Every step keeps every variable in its type.
LEMMA TypeStep == TypeOK /\ [Next]_vars => TypeOK'
<1> SUFFICES ASSUME TypeOK, [Next]_vars PROVE TypeOK'
  OBVIOUS
<1> USE DEF TypeOK, Pointer, Running, Before, Making, Taking, Over, Goto,
            Return, Escape, Terminate, devices, outcome, rest
<1>1. CASE SavePid \/ LoadConfig \/ FindInterface \/ DiscoverHeadset
  BY <1>1 DEF SavePid, LoadConfig, FindInterface, DiscoverHeadset
<1>2. CASE InitVideo
  BY <1>2 DEF InitVideo
<1>3. CASE InitGimbal
  BY <1>3 DEF InitGimbal
<1>4. CASE InitRover
  BY <1>4 DEF InitRover, RoverDeviceFails, RoverDeviceReady
<1>5. CASE InitGuides
  BY <1>5 DEF InitGuides, PlayGuide
<1>6. CASE LoopReturns \/ BrokenPipe \/ Release
  BY <1>6 DEF LoopReturns, BrokenPipe, Release
<1>7. CASE DeinitVideo \/ DeinitGimbal
  BY <1>7 DEF DeinitVideo, DeinitGimbal
<1>8. CASE JoinRover \/ DeinitRover
  BY <1>8 DEF JoinRover, DeinitRover
<1>9. CASE Bye \/ Exit
  BY <1>9 DEF Bye, Exit
<1>10. CASE \E s \in Signals : Signal(s) \/ SignalElsewhere(s)
  BY <1>10 DEF Signal, SignalElsewhere
<1>11. CASE RoverThreadEnds \/ RoverThreadGivesUp
  BY <1>11 DEF RoverThreadEnds, RoverThreadGivesUp
<1>12. CASE Terminated \/ UNCHANGED vars
  BY <1>12 DEF Terminated, vars
<1> QED
  BY <1>1, <1>2, <1>3, <1>4, <1>5, <1>6, <1>7, <1>8, <1>9, <1>10, <1>11,
     <1>12 DEF Next, MainThread

\* In every reachable state each variable of Lifecycle has its type.
THEOREM TypeCorrect == Spec => []TypeOK
BY TypeInit, TypeStep, PTL DEF Spec

-----------------------------------------------------------------------------
(* The inductive invariant. *)

\* The initial state satisfies IInv.
LEMMA IInvInit == Init => IInv
BY TypeInit
   DEF Init, IInv, VideoInv, GimbalInv, RoverInv, StopInv, SuccessInv,
       BeforeVideo, BeforeGimbal, BeforeRover, WithRover, WithGimbal, WithVideo, Taking

\* run() returns 0 only from its last line.
LEMMA SuccessStep == IInv /\ [Next]_vars => SuccessInv'
<1> SUFFICES ASSUME IInv, [Next]_vars PROVE SuccessInv'
  OBVIOUS
<1> USE DEF SuccessInv, LoopIsOver, Taking, devices, outcome, rest, Goto, Return,
            Escape, Terminate
<1>0. /\ SuccessInv
      /\ pc = "bye" => streamer = "null" /\ gimbal = "null" /\ rover = "null"
      /\ root \in Configurations
  BY DEF IInv, VideoInv, GimbalInv, RoverInv, TypeOK
<1>1. CASE SavePid \/ LoadConfig \/ FindInterface \/ DiscoverHeadset
  BY <1>0, <1>1 DEF SavePid, LoadConfig, FindInterface, DiscoverHeadset
<1>2. CASE InitVideo \/ InitGuides
  BY <1>0, <1>2 DEF InitVideo, InitGuides, PlayGuide
<1>3. CASE InitGimbal
  BY <1>0, <1>3 DEF InitGimbal
<1>4. CASE InitRover
  BY <1>0, <1>4 DEF InitRover, RoverDeviceFails, RoverDeviceReady
<1>5. CASE LoopReturns \/ BrokenPipe \/ Release
  BY <1>0, <1>5 DEF LoopReturns, BrokenPipe, Release
<1>6. CASE DeinitVideo \/ DeinitGimbal
  BY <1>0, <1>6 DEF DeinitVideo, DeinitGimbal
<1>7. CASE JoinRover \/ DeinitRover
  BY <1>0, <1>7 DEF JoinRover, DeinitRover
<1>8. CASE Bye \/ Exit
  BY <1>0, <1>8 DEF Bye, Exit
<1>9. CASE \E s \in Signals : Signal(s)
  BY <1>0, <1>9 DEF Signal
<1>10. CASE \E s \in Signals : SignalElsewhere(s)
  BY <1>0, <1>10 DEF SignalElsewhere
<1>11. CASE RoverThreadEnds \/ RoverThreadGivesUp
  BY <1>0, <1>11 DEF RoverThreadEnds, RoverThreadGivesUp
<1>12. CASE Terminated \/ UNCHANGED vars
  BY <1>0, <1>12 DEF Terminated, vars
<1> QED
  BY <1>1, <1>2, <1>3, <1>4, <1>5, <1>6, <1>7, <1>8, <1>9, <1>10, <1>11,
     <1>12 DEF Next, MainThread

\* Every step of both threads and every signal keeps IInv.
LEMMA IInvStep == IInv /\ [Next]_vars => IInv'
<1> SUFFICES ASSUME IInv, [Next]_vars PROVE IInv'
  OBVIOUS
<1>0. TypeOK'
  BY TypeStep DEF IInv
<1>s. SuccessInv'
  BY SuccessStep
<1> SUFFICES (VideoInv /\ GimbalInv /\ RoverInv /\ StopInv)'
  BY <1>0, <1>s DEF IInv
<1> USE DEF IInv, TypeOK, Configurations, VideoInv, GimbalInv, RoverInv,
            StopInv, BeforeVideo, BeforeGimbal, BeforeRover, WithRover,
            WithGimbal, WithVideo, Joinable, Running, Before, Making, Taking,
            Over, Goto, Return, Escape, Terminate, devices, outcome,
            rest
<1>1. CASE SavePid \/ LoadConfig \/ FindInterface \/ DiscoverHeadset
  BY <1>1 DEF SavePid, LoadConfig, FindInterface, DiscoverHeadset
<1>2. CASE InitVideo
  BY <1>2 DEF InitVideo
<1>3. CASE InitGimbal
  BY <1>3 DEF InitGimbal
<1>4. CASE InitRover
  <2>1. VideoInv'
    BY <1>4 DEF InitRover, RoverDeviceFails, RoverDeviceReady
  <2>2. GimbalInv'
    BY <1>4 DEF InitRover, RoverDeviceFails, RoverDeviceReady
  <2>3. RoverInv'
    BY <1>4 DEF InitRover, RoverDeviceFails, RoverDeviceReady
  <2>4. StopInv'
    BY <1>4 DEF InitRover, RoverDeviceFails, RoverDeviceReady
  <2> QED BY <2>1, <2>2, <2>3, <2>4
<1>5. CASE InitGuides
  <2>1. VideoInv'
    BY <1>5 DEF InitGuides, PlayGuide
  <2>2. GimbalInv'
    BY <1>5 DEF InitGuides, PlayGuide
  <2>3. RoverInv'
    BY <1>5 DEF InitGuides, PlayGuide
  <2>4. StopInv'
    BY <1>5 DEF InitGuides, PlayGuide
  <2> QED BY <2>1, <2>2, <2>3, <2>4
<1>6. CASE LoopReturns \/ BrokenPipe \/ Release
  <2>1. VideoInv'
    BY <1>6 DEF LoopReturns, BrokenPipe, Release
  <2>2. GimbalInv'
    BY <1>6 DEF LoopReturns, BrokenPipe, Release
  <2>3. RoverInv'
    BY <1>6 DEF LoopReturns, BrokenPipe, Release
  <2>4. StopInv'
    BY <1>6 DEF LoopReturns, BrokenPipe, Release
  <2> QED BY <2>1, <2>2, <2>3, <2>4
<1>7. CASE DeinitVideo \/ DeinitGimbal
  <2>1. VideoInv'
    BY <1>7 DEF DeinitVideo, DeinitGimbal
  <2>2. GimbalInv'
    BY <1>7 DEF DeinitVideo, DeinitGimbal
  <2>3. RoverInv'
    BY <1>7 DEF DeinitVideo, DeinitGimbal
  <2>4. StopInv'
    BY <1>7 DEF DeinitVideo, DeinitGimbal
  <2> QED BY <2>1, <2>2, <2>3, <2>4
<1>8. CASE JoinRover \/ DeinitRover
  <2>1. VideoInv'
    BY <1>8 DEF JoinRover, DeinitRover
  <2>2. GimbalInv'
    BY <1>8 DEF JoinRover, DeinitRover
  <2>3. RoverInv'
    BY <1>8 DEF JoinRover, DeinitRover
  <2>4. StopInv'
    BY <1>8 DEF JoinRover, DeinitRover
  <2> QED BY <2>1, <2>2, <2>3, <2>4
<1>9. CASE Bye \/ Exit
  <2>1. VideoInv'
    BY <1>9 DEF Bye, Exit
  <2>2. GimbalInv'
    BY <1>9 DEF Bye, Exit
  <2>3. RoverInv'
    BY <1>9 DEF Bye, Exit
  <2>4. StopInv'
    BY <1>9 DEF Bye, Exit
  <2> QED BY <2>1, <2>2, <2>3, <2>4
<1>10. CASE \E s \in Signals : Signal(s) \/ SignalElsewhere(s)
  <2>1. VideoInv'
    BY <1>10 DEF Signal, SignalElsewhere
  <2>2. GimbalInv'
    BY <1>10 DEF Signal, SignalElsewhere
  <2>3. RoverInv'
    BY <1>10 DEF Signal, SignalElsewhere
  <2>4. StopInv'
    BY <1>10 DEF Signal, SignalElsewhere
  <2> QED BY <2>1, <2>2, <2>3, <2>4
<1>11. CASE RoverThreadEnds \/ RoverThreadGivesUp
  <2>1. VideoInv'
    BY <1>11 DEF RoverThreadEnds, RoverThreadGivesUp
  <2>2. GimbalInv'
    BY <1>11 DEF RoverThreadEnds, RoverThreadGivesUp
  <2>3. RoverInv'
    BY <1>11 DEF RoverThreadEnds, RoverThreadGivesUp
  <2>4. StopInv'
    BY <1>11 DEF RoverThreadEnds, RoverThreadGivesUp
  <2> QED BY <2>1, <2>2, <2>3, <2>4
<1>12. CASE Terminated \/ UNCHANGED vars
  <2>1. VideoInv'
    BY <1>12 DEF Terminated, vars
  <2>2. GimbalInv'
    BY <1>12 DEF Terminated, vars
  <2>3. RoverInv'
    BY <1>12 DEF Terminated, vars
  <2>4. StopInv'
    BY <1>12 DEF Terminated, vars
  <2> QED BY <2>1, <2>2, <2>3, <2>4
<1> QED
  BY <1>1, <1>2, <1>3, <1>4, <1>5, <1>6, <1>7, <1>8, <1>9, <1>10, <1>11,
     <1>12 DEF Next, MainThread

\* How far main() has come determines which devices exist.
THEOREM IInvCorrect == Spec => []IInv
BY IInvInit, IInvStep, PTL DEF Spec

-----------------------------------------------------------------------------
(* What follows from it. *)

\* The rover's thread never runs on a controller that is gone.
THEOREM ThreadHasItsRoverAlways == Spec => []ThreadHasItsRover
<1>1. IInv => ThreadHasItsRover
  BY DEF IInv, TypeOK, RoverInv, ThreadHasItsRover, BeforeRover, BeforeGimbal,
         BeforeVideo, WithRover, Joinable, Running, Before, Making, Taking, Over
<1> QED BY IInvCorrect, <1>1, PTL

\* The rover's thread is joined only after stop(), and only once.
THEOREM JoinsOnlyAfterStopAlways == Spec => []JoinsOnlyAfterStop
<1>1. IInv => JoinsOnlyAfterStop
  BY DEF IInv, StopInv, RoverInv, JoinsOnlyAfterStop, WithRover, Taking
<1> QED BY IInvCorrect, <1>1, PTL

\* run() and _deinit() never call a device that was not made.
THEOREM CallsWhatWasMadeAlways == Spec => []CallsWhatWasMade
<1>1. IInv => CallsWhatWasMade
  BY DEF IInv, VideoInv, GimbalInv, RoverInv, CallsWhatWasMade, WithVideo,
         WithGimbal, WithRover, Taking
<1> QED BY IInvCorrect, <1>1, PTL

\* What REGISTER offers is there.
THEOREM OptionsAreRealAlways == Spec => []OptionsAreReal
<1>1. IInv => OptionsAreReal
  BY DEF IInv, GimbalInv, RoverInv, OptionsAreReal, WithGimbal, WithRover
<1> QED BY IInvCorrect, <1>1, PTL

\* The last guide is played only when nothing is left to shut down.
THEOREM ByeMeansShutDownAlways == Spec => []ByeMeansShutDown
<1>1. IInv => ByeMeansShutDown
  BY DEF IInv, VideoInv, GimbalInv, RoverInv, ByeMeansShutDown
<1> QED BY IInvCorrect, <1>1, PTL

\* An exit status of 0 that run() has returned means that the main loop was entered
\* and left, and that gimbal, rover and streamer were taken down.
THEOREM SuccessMeansAllDownAlways == Spec => []SuccessMeansAllDown
<1>1. IInv => SuccessMeansAllDown
  BY DEF IInv, SuccessInv, LoopIsOver, SuccessMeansAllDown
<1> QED BY IInvCorrect, <1>1, PTL

-----------------------------------------------------------------------------
(* The way to the end. *)

\* The calls at each label of the way to the end.
LEMMA CallsToExitIs ==
    ASSUME NEW label \in Taking \cup {"returned"} \cup Over
    PROVE  /\ CallsToExit[label] \in 0 .. 7
           /\ label = "release" => CallsToExit[label] = 7
           /\ label = "deinit_video" => CallsToExit[label] = 6
           /\ label = "deinit_gimbal" => CallsToExit[label] = 5
           /\ label = "join_rover" => CallsToExit[label] = 4
           /\ label = "deinit_rover" => CallsToExit[label] = 3
           /\ label = "bye" => CallsToExit[label] = 2
           /\ label = "returned" => CallsToExit[label] = 1
           /\ label \in Over => CallsToExit[label] = 0
BY DEF CallsToExit, Taking, Over

\* Every step that is taken on the way to the end leads on.
LEMMA ExitStep ==
    ASSUME IInv, Next, pc \in Taking \cup {"returned"}
    PROVE  StepsToExit' < StepsToExit
<1> DEFINE Way == Taking \cup {"returned"} \cup Over
<1>1. \/ /\ pc' \in Way /\ CallsToExit[pc'] < CallsToExit[pc]
         /\ thread' = "running" => thread = "running"
      \/ pc' = pc /\ thread = "running" /\ thread' = "ended"
  <2> USE DEF Taking, Over, Goto, Return, Terminate, Escape, devices, outcome,
              rest
  <2>1. CASE SavePid \/ LoadConfig \/ FindInterface \/ DiscoverHeadset
    BY <2>1 DEF SavePid, LoadConfig, FindInterface, DiscoverHeadset
  <2>2. CASE InitVideo \/ InitGimbal \/ InitRover \/ InitGuides
    BY <2>2 DEF InitVideo, InitGimbal, InitRover, InitGuides, PlayGuide
  <2>3. CASE LoopReturns \/ BrokenPipe
    BY <2>3 DEF LoopReturns, BrokenPipe
  <2>4. CASE Release \/ DeinitVideo \/ DeinitGimbal
    BY <2>4, CallsToExitIs DEF Release, DeinitVideo, DeinitGimbal
  <2>5. CASE JoinRover \/ DeinitRover
    BY <2>5, CallsToExitIs DEF JoinRover, DeinitRover
  <2>6. CASE Bye \/ Exit
    BY <2>6, CallsToExitIs DEF Bye, Exit
  <2>7. CASE \E s \in Signals : Signal(s)
    <3>1. /\ \/ pc \in Taking /\ pc' = "returned"
             \/ pc = "returned" /\ pc' = "aborted"
          /\ UNCHANGED thread
      BY <2>7 DEF Signal, Running, Before, Making
    <3> QED
      BY <3>1, CallsToExitIs
  <2>8. CASE \E s \in Signals : SignalElsewhere(s)
    BY <2>8, CallsToExitIs DEF SignalElsewhere
  <2>9. CASE RoverThreadEnds \/ RoverThreadGivesUp
    BY <2>9 DEF RoverThreadEnds, RoverThreadGivesUp
  <2>10. CASE Terminated
    BY <2>10 DEF Terminated
  <2> QED
    BY <2>1, <2>2, <2>3, <2>4, <2>5, <2>6, <2>7, <2>8, <2>9, <2>10
       DEF Next, MainThread
<1>2. CallsToExit[pc] \in 0 .. 7 /\ (pc' \in Way => CallsToExit[pc'] \in 0 .. 7)
  BY CallsToExitIs
<1>3. CASE /\ pc' \in Way /\ CallsToExit[pc'] < CallsToExit[pc]
           /\ thread' = "running" => thread = "running"
  <2>1. PICK calls \in 0 .. 7 : CallsToExit[pc'] = calls
    BY <1>2, <1>3
  <2>2. StepsToExit' = calls + (IF thread' = "running" THEN 1 ELSE 0)
    BY <2>1 DEF StepsToExit
  <2> QED
    BY <1>2, <1>3, <2>1, <2>2 DEF StepsToExit
<1>4. CASE pc' = pc /\ thread = "running" /\ thread' = "ended"
  <2>1. StepsToExit = CallsToExit[pc] + 1 /\ StepsToExit' = CallsToExit[pc] + 0
    BY <1>4 DEF StepsToExit
  <2> QED
    BY <1>2, <2>1
<1> QED
  BY <1>1, <1>3, <1>4

\* Whatever happens after the loop, or after run() was left before it, leads on
\* to the end of the process.
THEOREM ShutdownOnlyGoesOnAlways == Spec => ShutdownOnlyGoesOn
<1>1. IInv /\ [Next]_vars
          => [(pc \in Taking \cup {"returned"}) =>
                  StepsToExit' < StepsToExit]_vars
  BY ExitStep
<1> QED
  BY <1>1, IInvCorrect, PTL DEF Spec, ShutdownOnlyGoesOn
=============================================================================
