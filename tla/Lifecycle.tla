----------------------------- MODULE Lifecycle -----------------------------
(***************************************************************************)
(* main(), NesfrVR::run, _init and _deinit: the devices are made one after *)
(* the other, the main loop runs, the devices are taken down.  The rover   *)
(* brings a control thread of its own, which shares system_on with the     *)
(* main thread and must be joined before its std::thread object goes.      *)
(*                                                                         *)
(* The main loop is one label here ("loop"); MainLoop says what it does    *)
(* and that it gives up socket and pipelines before "deinit_video".        *)
(* A signal handler throws from wherever the main thread is.  In the loop  *)
(* run() catches it; anywhere else in run() main() does, with `ret` still  *)
(* 0; outside of main()'s try block nobody does.  The same goes for the    *)
(* exceptions of the libraries that _init() uses.                          *)
(***************************************************************************)
EXTENDS Integers

CONSTANTS
    Signals,        \* the signals that may arrive: SIGINT, SIGHUP, SIGTERM
    SigPipeIgnored, \* SIGPIPE is ignored (systemd does so, a shell does not)
    AudioMayFail    \* playing an audio guide can fail

ASSUME LifecycleAssumption ==
    /\ SigPipeIgnored \in BOOLEAN
    /\ AudioMayFail \in BOOLEAN

VARIABLES
    root,           \* the hardware configuration: which devices there are
    pc,             \* the call the main thread is about to make
    system_on,      \* NesfrVR::system_on
    streamer,       \* streamer_ptr: "null", "made", or "ready" (initialized)
    gimbal,         \* gimbal_controller_ptr
    rover,          \* rover_controller_ptr
    thread,         \* the rover's control thread
    device_options, \* what REGISTER will tell the headset
    loop_result,    \* what _mainLoop returned, which run() throws away
    ret,            \* main()'s ret
    thrown,         \* history: run() was left by an exception
    masked,         \* signals whose handler has thrown in the main thread
    repeated        \* history: one of them has come again

\* A device that is not configured is "none", of a type the code does not know
\* "unknown".
Configurations ==
    [video : BOOLEAN,
     gimbal : {"none", "RS2", "unknown"},
     rover : {"none", "Nesfr4", "Nesfr7ROS2", "unknown"}]

devices == <<streamer, gimbal, rover, thread, device_options>>

outcome == <<ret, thrown>>

rest == <<loop_result, masked, repeated, root>>

vars == <<pc, system_on, outcome, devices, rest>>

Before  == {"save_pid", "load_config", "network", "discover"}
Making  == {"video", "video_guide", "gimbal", "gimbal_guide", "rover",
            "rover_guide", "ready_guide"}
Taking  == {"release", "deinit_video", "deinit_gimbal", "join_rover",
            "deinit_rover", "bye"}
Running == Before \cup Making \cup {"loop"} \cup Taking
\* main() past its try block is "returned"; then the process is over.
Over    == {"exited", "aborted"}

Pointer == {"null", "made", "ready"}
Joinable == thread \in {"running", "ended"}

TypeOK ==
    /\ root \in Configurations
    /\ pc \in Running \cup {"returned"} \cup Over
    /\ system_on \in BOOLEAN
    /\ {streamer, gimbal, rover} \subseteq Pointer
    /\ thread \in {"none", "running", "ended", "joined"}
    /\ device_options \subseteq {"GIMBAL", "ROVER"}
    /\ loop_result \in {"none", "returned 0", "returned -1"}
    /\ ret \in {0, -1}
    /\ thrown \in BOOLEAN
    /\ masked \subseteq Signals
    /\ repeated \in BOOLEAN

Init ==
    /\ root \in Configurations
    /\ pc = "save_pid"
    /\ system_on = TRUE
    /\ streamer = "null"
    /\ gimbal = "null"
    /\ rover = "null"
    /\ thread = "none"
    /\ device_options = {}
    /\ loop_result = "none"
    /\ ret = 0
    /\ thrown = FALSE
    /\ masked = {}
    /\ repeated = FALSE

Goto(label) == pc' = label /\ UNCHANGED <<system_on, outcome>>

\* Mutant of Return: the error codes are returned positive.
ReturnNegated(value) ==
    pc' = "returned" /\ ret' = -value /\ UNCHANGED <<system_on, thrown>>

\* Mutant of Return: main() does not keep what run() returned.
ReturnDropped(value) == pc' = "returned" /\ UNCHANGED <<system_on, outcome>>

\* run() returns.
Return(value) ==
    pc' = "returned" /\ ret' = value /\ UNCHANGED <<system_on, thrown>>

\* An exception leaves run(): main() catches it and calls stop(), and has no
\* other `ret` than the 0 it began with.
Escape ==
    pc' = "returned" /\ system_on' = FALSE /\ thrown' = TRUE /\ UNCHANGED ret

\* An exception nobody catches, a joinable std::thread destroyed, or SIGPIPE.
Terminate == pc' = "aborted" /\ UNCHANGED <<system_on, outcome>>

-----------------------------------------------------------------------------
(* run() up to the devices. *)

\* std::filesystem throws, or the process crashes, on the null pointer of a HOME
\* that is not set, and throws on a path it may not look at.
SavePid ==
    /\ pc = "save_pid"
    /\ Goto("load_config") \/ Return(-1) \/ Escape \/ Terminate
    /\ UNCHANGED <<devices, rest>>

\* std::filesystem again, a length that cannot be told (a directory), JSON that
\* is nested too deep.  HOME is set, or SavePid had failed.
LoadConfig ==
    /\ pc = "load_config"
    /\ Goto("network") \/ Return(-1) \/ Escape
    /\ UNCHANGED <<devices, rest>>

\* The intro, the version of the configuration, the interface's address.  Here
\* and in the devices' init a value of another type than asString() or asUInt()
\* can convert, in a configuration that was parsed without an error, throws.
FindInterface ==
    /\ pc = "network"
    /\ Goto("discover") \/ Return(-1) \/ Escape
    /\ UNCHANGED <<devices, rest>>

\* One round of looking for the headset; without it nmap, a guide, a pause and
\* another round.
DiscoverHeadset ==
    /\ pc = "discover"
    /\ Goto("video") \/ Goto("discover") \/ Return(-1)
    /\ UNCHANGED <<devices, rest>>

-----------------------------------------------------------------------------
(* _init(): the devices. *)

\* An audio guide between two steps: if it cannot be played, _init() fails.
PlayGuide(from, to) ==
    /\ pc = from
    /\ Goto(to) \/ (AudioMayFail /\ Return(-1))
    /\ UNCHANGED <<devices, rest>>

InitVideo ==
    /\ pc = "video"
    /\ \/ ~root.video /\ Return(-1) /\ UNCHANGED streamer
       \/ root.video /\ Escape /\ UNCHANGED streamer
       \/ root.video /\ streamer' = "made" /\ Return(-1)
       \/ root.video /\ streamer' = "ready" /\ Goto("video_guide")
    /\ UNCHANGED <<gimbal, rover, thread, device_options, rest>>

\* Mutant of InitGimbal: a gimbal that fails is only warned about.
InitGimbalLenient ==
    /\ pc = "gimbal"
    /\ \/ /\ \/ root.gimbal = "none" /\ Goto("rover")
             \/ root.gimbal # "none" /\ Escape
          /\ UNCHANGED <<gimbal, device_options>>
       \/ /\ root.gimbal = "RS2"
          /\ \/ /\ gimbal' = "made"
                /\ Goto("rover")
                /\ UNCHANGED device_options
             \/ /\ gimbal' = "ready"
                /\ device_options' = device_options \cup {"GIMBAL"}
                /\ Goto("gimbal_guide")
    /\ UNCHANGED <<streamer, rover, thread, rest>>

\* The pointer is set when the constructor is through: an unknown type and an
\* ill-typed value throw before.
InitGimbal ==
    /\ pc = "gimbal"
    /\ \/ /\ \/ root.gimbal = "none" /\ Goto("rover")
             \/ root.gimbal # "none" /\ Escape
          /\ UNCHANGED <<gimbal, device_options>>
       \/ /\ root.gimbal = "RS2"
          /\ \/ gimbal' = "made" /\ Return(-1) /\ UNCHANGED device_options
             \/ /\ gimbal' = "ready"
                /\ device_options' = device_options \cup {"GIMBAL"}
                /\ Goto("gimbal_guide")
    /\ UNCHANGED <<streamer, rover, thread, rest>>

\* RoverController::initDevice failed: the Nesfr4 returns -1, the Nesfr7ROS2
\* throws a string, which no catch clause up to main() is for, and with either
\* the std::thread may not be started.
RoverDeviceFails ==
    /\ root.rover \in {"Nesfr4", "Nesfr7ROS2"}
    /\ rover' = "made"
    /\ \/ root.rover = "Nesfr4" /\ Return(-1)
       \/ root.rover = "Nesfr7ROS2" /\ Terminate
       \/ Escape
    /\ UNCHANGED <<thread, device_options>>

\* Mutant of RoverDeviceReady: the option is forgotten.
RoverDeviceReadySilent ==
    /\ root.rover \in {"Nesfr4", "Nesfr7ROS2"}
    /\ rover' = "ready"
    /\ thread' = "running"
    /\ UNCHANGED device_options
    /\ Goto("rover_guide")

\* RoverController::initDevice: the device, then the thread.
RoverDeviceReady ==
    /\ root.rover \in {"Nesfr4", "Nesfr7ROS2"}
    /\ rover' = "ready"
    /\ thread' = "running"
    /\ device_options' = device_options \cup {"ROVER"}
    /\ Goto("rover_guide")

InitRover ==
    /\ pc = "rover"
    /\ \/ /\ \/ root.rover = "none" /\ Goto("ready_guide")
             \/ root.rover # "none" /\ Escape
          /\ UNCHANGED <<rover, thread, device_options>>
       \/ RoverDeviceFails
       \/ RoverDeviceReady
    /\ UNCHANGED <<streamer, gimbal, rest>>

InitGuides ==
    \/ PlayGuide("video_guide", "gimbal")
    \/ PlayGuide("gimbal_guide", "rover")
    \/ PlayGuide("rover_guide", "ready_guide")
    \/ PlayGuide("ready_guide", "loop")

-----------------------------------------------------------------------------
(* The loop, and run() after it. *)

\* Mutant of LoopReturns: no stop() after the loop.
LoopReturnsWithoutStop ==
    /\ pc = "loop"
    /\ \/ ~system_on /\ loop_result' = "returned 0"
       \/ loop_result' = "returned -1"
    /\ Goto("release")
    /\ UNCHANGED <<devices, masked, repeated, root>>

\* _mainLoop returns 0 when system_on is cleared and -1 on its failures; run()
\* does not look at it and calls stop().
LoopReturns ==
    /\ pc = "loop"
    /\ \/ ~system_on /\ loop_result' = "returned 0"
       \/ loop_result' = "returned -1"
    /\ pc' = "release"
    /\ system_on' = FALSE
    /\ UNCHANGED <<devices, outcome, masked, repeated, root>>

\* The loop writes to a headset that is gone: send() without MSG_NOSIGNAL.
BrokenPipe ==
    /\ pc = "loop"
    /\ ~SigPipeIgnored
    /\ Terminate
    /\ UNCHANGED <<devices, rest>>

\* streamer_ptr->deinitGStreamer() and conn.deinit().
Release ==
    /\ pc = "release"
    /\ Goto("deinit_video")
    /\ UNCHANGED <<devices, rest>>

DeinitVideo ==
    /\ pc = "deinit_video"
    /\ streamer' = "null"
    /\ Goto("deinit_gimbal")
    /\ UNCHANGED <<gimbal, rover, thread, device_options, rest>>

\* If the gimbal's deinit fails, _deinit() returns and the rover is left as is.
DeinitGimbal ==
    /\ pc = "deinit_gimbal"
    /\ \/ root.gimbal = "none" /\ UNCHANGED gimbal /\ Goto("join_rover")
       \/ /\ root.gimbal # "none"
          /\ gimbal' = "null"
          /\ Goto("join_rover") \/ Return(-1)
    /\ UNCHANGED <<streamer, rover, thread, device_options, rest>>

\* Mutant of JoinRover: the thread is not waited for.
JoinRoverNot ==
    /\ pc = "join_rover"
    /\ Goto(IF root.rover = "none" THEN "bye" ELSE "deinit_rover")
    /\ UNCHANGED <<devices, rest>>

\* RoverController::deinitDevice waits for the thread.
JoinRover ==
    /\ pc = "join_rover"
    /\ \/ root.rover = "none" /\ UNCHANGED thread /\ Goto("bye")
       \/ root.rover # "none" /\ thread = "ended" /\ thread' = "joined"
          /\ Goto("deinit_rover")
    /\ UNCHANGED <<streamer, gimbal, rover, device_options, rest>>

\* rover_ptr->deinit(), and the controller is dropped whatever it returned.
\* Only the Nesfr4's can fail.
DeinitRover ==
    /\ pc = "deinit_rover"
    /\ rover' = "null"
    /\ Goto("bye") \/ (root.rover = "Nesfr4" /\ Return(-1))
    /\ UNCHANGED <<streamer, gimbal, thread, device_options, rest>>

Bye ==
    /\ pc = "bye"
    /\ Return(0) \/ (AudioMayFail /\ Return(-1))
    /\ UNCHANGED <<devices, rest>>

\* main() returns and destroys its NesfrVR: a thread that was not joined takes
\* the process down.
Exit ==
    /\ pc = "returned"
    /\ IF Joinable THEN Terminate ELSE Goto("exited")
    /\ UNCHANGED <<devices, rest>>

-----------------------------------------------------------------------------
(* Signals and the rover's thread. *)

\* Mutant of Signal: the catch clauses of run() do not call stop().
SignalWithoutStop(s) ==
    /\ s \in Signals \ masked
    /\ masked' = masked \cup {s}
    /\ \/ pc = "loop" /\ Goto("release")
       \/ pc \in Running \ {"loop"} /\ Escape
       \/ pc = "returned" /\ Terminate
    /\ UNCHANGED <<devices, loop_result, repeated, root>>

\* Mutant of Signal: the handler returns without throwing.
SignalReturning(s) ==
    /\ s \in Signals \ masked
    /\ masked' = masked \cup {s}
    /\ UNCHANGED <<pc, system_on, outcome, devices,
                   loop_result, repeated, root>>

Signal(s) ==
    /\ s \in Signals \ masked
    /\ masked' = masked \cup {s}
    /\ \/ /\ pc = "loop"
          /\ pc' = "release"
          /\ system_on' = FALSE
          /\ UNCHANGED outcome
       \/ pc \in Running \ {"loop"} /\ Escape
       \/ pc = "returned" /\ Terminate
    /\ UNCHANGED <<devices, loop_result, repeated, root>>

\* A signal comes again, which the main thread has masked since its handler
\* threw: another thread gets it.  ctrl_thread_func catches it, unless it is
\* thrown through frames that nothing may be thrown through, as GStreamer's are
\* (of the pipelines before "release", of the guide at "bye").
SignalElsewhere(s) ==
    /\ s \in masked
    /\ pc \notin Over
    /\ repeated' = TRUE
    /\ \/ /\ thread = "running"
          /\ thread' = "ended"
          /\ system_on' = FALSE
          /\ UNCHANGED <<pc, outcome>>
       \/ /\ thread = "running" \/ pc \in {"release", "bye"}
          /\ Terminate
          /\ UNCHANGED thread
    /\ UNCHANGED <<streamer, gimbal, rover, device_options,
                   loop_result, masked, root>>

\* ctrl_thread_func: the loop sees system_on cleared.
RoverThreadEnds ==
    /\ thread = "running"
    /\ pc \notin Over
    /\ ~system_on
    /\ thread' = "ended"
    /\ UNCHANGED <<pc, system_on, streamer, gimbal, rover, device_options,
                   outcome, rest>>

\* ctrl_thread_func: rclcpp::ok() is false, or the catch clause.
RoverThreadGivesUp ==
    /\ thread = "running"
    /\ pc \notin Over
    /\ system_on
    /\ thread' = "ended"
    /\ system_on' \in BOOLEAN
    /\ UNCHANGED <<pc, streamer, gimbal, rover, device_options, outcome, rest>>

Terminated == pc \in Over /\ UNCHANGED vars

-----------------------------------------------------------------------------

MainThread ==
    \/ SavePid
    \/ LoadConfig
    \/ FindInterface
    \/ DiscoverHeadset
    \/ InitVideo
    \/ InitGimbal
    \/ InitRover
    \/ InitGuides
    \/ LoopReturns
    \/ BrokenPipe
    \/ Release
    \/ DeinitVideo
    \/ DeinitGimbal
    \/ JoinRover
    \/ DeinitRover
    \/ Bye
    \/ Exit

Next ==
    \/ MainThread
    \/ \E s \in Signals : Signal(s) \/ SignalElsewhere(s)
    \/ RoverThreadEnds
    \/ RoverThreadGivesUp
    \/ Terminated

Spec == Init /\ [][Next]_vars

\* Both threads run.
FairSpec == Spec /\ WF_vars(MainThread) /\ WF_vars(RoverThreadEnds)

-----------------------------------------------------------------------------
(* Properties. *)

\* The control thread works on its controller and on the rover's socket: both
\* stay for as long as it runs, whichever way main() takes to its end.
ThreadHasItsRover == thread = "running" /\ pc \notin Over => rover = "ready"

\* deinitDevice() joins a thread that only ends when system_on is cleared:
\* every way into the join has called stop() before, and there is a thread that
\* was not joined yet.
JoinsOnlyAfterStop ==
    pc = "join_rover" => ~system_on /\ (root.rover # "none" => Joinable)

\* run() and _deinit() call the devices because the configuration has them,
\* without a look at the pointers: _init() must have made every one of them,
\* and none may be gone yet.
CallsWhatWasMade ==
    /\ pc \in {"loop", "release", "deinit_video"} => streamer = "ready"
    /\ pc \in {"loop", "release", "deinit_video", "deinit_gimbal"} =>
           (root.gimbal # "none" => gimbal = "ready")
    /\ pc \in {"loop"} \cup (Taking \ {"bye"}) =>
           (root.rover # "none" => rover = "ready")

\* REGISTER offers the headset exactly the devices that are there and working.
OptionsAreReal ==
    pc = "loop" =>
        /\ "GIMBAL" \in device_options <=> gimbal = "ready"
        /\ "ROVER" \in device_options <=> rover = "ready"

\* "VrSystemIsShutDown" is announced only when nothing is left to shut down.
ByeMeansShutDown ==
    pc = "bye" => {streamer, gimbal, rover} = {"null"} /\ ~Joinable

\* The exit status 0, with which the service manager leaves the robot alone, is
\* true wherever run() has returned it: the main loop was entered, and left by
\* itself or by a signal, and all that was made was taken down.  An exception that
\* leaves run() gives 0 as well (NesfrVR.cpp:649) and means nothing of the kind.
SuccessMeansAllDown ==
    pc = "exited" /\ ret = 0 /\ ~thrown =>
        /\ {streamer, gimbal, rover} = {"null"}
        /\ loop_result # "none" \/ masked # {}

\* The calls that main() may still make on its way to the end.
CallsToExit ==
    [release |-> 7, deinit_video |-> 6, deinit_gimbal |-> 5, join_rover |-> 4,
     deinit_rover |-> 3, bye |-> 2, returned |-> 1, exited |-> 0, aborted |-> 0]

\* The thread adds one step, its end.
StepsToExit == CallsToExit[pc] + (IF thread = "running" THEN 1 ELSE 0)

\* Once the loop is over, or run() was left before it, whatever happens leads on
\* to the end (NesfrVR.cpp:611): a failing deinit, a signal, the same one again,
\* the thread.  After eight steps of any of them there is nothing left to do.
ShutdownOnlyGoesOn ==
    [][(pc \in Taking \cup {"returned"}) => StepsToExit' < StepsToExit]_vars

\* A signal ends the process, whatever it interrupts.
SignalEndsProcess == masked # {} ~> pc \in Over

\* _deinit() returned because the gimbal's deinit failed, and a configured rover
\* is left behind with its thread.
GimbalLeavesRover ==
    /\ pc = "returned"
    /\ ret = -1
    /\ root.gimbal # "none"
    /\ rover = "ready"

\* When the loop is over, by itself or by a signal, the process exits and is not
\* aborted, with and without a gimbal, unless another signal interferes, or the
\* same one again, or the gimbal's deinit fails where there is a rover.  It exits
\* also when the rover's deinit fails, or the gimbal's without a rover.
GracefulShutdown ==
    \A handled \in SUBSET Signals :
        (pc = "release" /\ masked = handled /\ ~repeated)
            ~> (\/ pc = "exited"
                \/ masked # handled
                \/ repeated
                \/ GimbalLeavesRover)

\* "System is shut down" (NesfrVR.cpp:663), logged when main() is past its try
\* block: no thread of the system runs any more.
ShutDownIsTrue == pc = "returned" => thread # "running"

\* "Restart=on-failure" (nesfr_vr.service:33): a main loop that failed, with no
\* signal to end it, is seen as a failure by the service manager.
LoopFailureIsSeen ==
    pc = "exited" /\ loop_result = "returned -1" /\ masked = {} => ret # 0

\* "_initRoverController() failed" (NesfrVR.cpp:516) and a guide announce a
\* rover that cannot be initialized: it does not abort the process.
RoverFailureIsReported == pc = "aborted" => rover # "made"
=============================================================================
