------------------------------ MODULE RunLoop ------------------------------
(***************************************************************************)
(* MainLoop in its place in Lifecycle.  Lifecycle has the whole main loop  *)
(* in the one label "loop" and the releases behind it in "release";        *)
(* MainLoop takes them apart and knows nothing of the devices.  Here the   *)
(* main loop runs next to the rover's control thread, with the hardware    *)
(* that _init() has made, and is shown to do only what Lifecycle says of   *)
(* it.                                                                     *)
(*                                                                         *)
(* The module adds to MainLoop the thread, of which MainLoop has only the  *)
(* failure, and two history variables of Lifecycle.                        *)
(***************************************************************************)
EXTENDS MainLoop

CONSTANT hw     \* the hardware configuration, with which _init() succeeded

ASSUME RunLoopAssumption ==
    /\ hw \in [video : {TRUE},
               gimbal : {"none", "RS2"},
               rover : {"none", "Nesfr4", "Nesfr7ROS2"}]
    /\ RoverPresent <=> hw.rover # "none"

VARIABLES
    thread,         \* the rover's control thread
    loop_result,    \* what _mainLoop returned, which run() throws away
    repeated        \* history: a signal has come again

run_vars == <<vars, thread, loop_result, repeated>>

RunTypeOK ==
    /\ TypeOK
    /\ thread \in IF RoverPresent THEN {"running", "ended"} ELSE {"none"}
    /\ loop_result \in {"none", "returned 0", "returned -1"}
    /\ repeated \in BOOLEAN

\* The thread was started by _init() and may have ended already.
RunInit ==
    /\ Init
    /\ thread \in IF RoverPresent THEN {"running", "ended"} ELSE {"none"}
    /\ loop_result = "none"
    /\ repeated = FALSE

-----------------------------------------------------------------------------

\* Mutant of MainThreadRuns: a conn.init() that fails leaves the loop by `break`.
MainThreadRunsBreaking ==
    /\ MainThread
    /\ loop_result' = IF pc \in InLoop /\ pc' = "final_gst"
                        THEN IF pc = "init"
                               THEN "returned 0" ELSE "returned -1"
                        ELSE loop_result
    /\ UNCHANGED <<thread, repeated>>

\* _mainLoop returns 0 from its last line, -1 from everywhere else.
MainThreadRuns ==
    /\ MainThread
    /\ loop_result' = IF pc \in InLoop /\ pc' = "final_gst"
                        THEN IF pc = "init" /\ ~system_on
                               THEN "returned 0" ELSE "returned -1"
                        ELSE loop_result
    /\ UNCHANGED <<thread, repeated>>

SignalComes ==
    /\ \E s \in Signals : SignalInLoop(s) \/ SignalInRelease(s)
    /\ UNCHANGED <<thread, loop_result, repeated>>

\* The signal goes to another thread: GStreamer's, which ends the process, or
\* the rover's, which may be where it catches it.
SignalComesAgain ==
    /\ repeated' = TRUE
    /\ UNCHANGED loop_result
    /\ \E s \in Signals :
           \/ /\ SignalElsewhere(s)
              /\ UNCHANGED thread
           \/ /\ s \in masked
              /\ pc \notin Ended
              /\ thread = "running"
              /\ thread' = "ended"
              /\ system_on' = FALSE
              /\ UNCHANGED <<streamer_vars, client_vars,
                             pc, stream_state, masked>>

\* ctrl_thread_func: the catch clause.
RoverThreadThrows ==
    /\ thread = "running"
    /\ RoverThreadFails
    /\ thread' = "ended"
    /\ UNCHANGED <<loop_result, repeated>>

\* ctrl_thread_func: its loop ends, as system_on is cleared or ROS shuts down.
RoverThreadReturns ==
    /\ thread = "running"
    /\ pc \notin Ended
    /\ thread' = "ended"
    /\ UNCHANGED <<vars, loop_result, repeated>>

OthersAct ==
    /\ HeadsetActs \/ Terminated
    /\ UNCHANGED <<thread, loop_result, repeated>>

RunNext ==
    \/ MainThreadRuns
    \/ SignalComes
    \/ SignalComesAgain
    \/ RoverThreadThrows
    \/ RoverThreadReturns
    \/ OthersAct

RunSpec == RunInit /\ [][RunNext]_run_vars

-----------------------------------------------------------------------------
(* What Lifecycle sees. *)

RunPc ==
    CASE pc \in InLoop    -> "loop"
      [] pc \in Releasing -> "release"
      [] pc = "done"      -> "deinit_video"
      [] pc = "escaped"   -> "returned"
      [] pc = "killed"    -> "aborted"

Thrown == pc = "escaped"

Life == INSTANCE Lifecycle WITH
    root <- hw,
    pc <- RunPc,
    streamer <- "ready",
    gimbal <- IF hw.gimbal = "RS2" THEN "ready" ELSE "null",
    rover <- IF RoverPresent THEN "ready" ELSE "null",
    device_options <-
        (IF hw.gimbal = "RS2" THEN {"GIMBAL"} ELSE {})
            \cup (IF RoverPresent THEN {"ROVER"} ELSE {}),
    ret <- 0,
    thrown <- Thrown

\* What Lifecycle says in one label about the main loop is what _mainLoop and
\* run() do, whatever the headset, the signals and the rover's thread do in
\* between: only stop() or the rover clears system_on and nothing sets it
\* again, the loop is left with system_on cleared, returns 0 only when it was
\* cleared before, and ends the process only by a signal or a broken pipe.
FitsLifecycle == [][Life!Next]_(Life!vars)

\* The thread takes nothing away from MainLoop: with it, the steps are still
\* those of MainLoop, so what holds there holds here.
RunsMainLoop == Spec

\* _mainLoop's regular end, the only one it returns 0 from, is the failure of
\* the rover: nobody else clears system_on while it runs (NesfrVR.cpp:424).  Of
\* the RS2, which has a reference to it too (GimbalController.cpp:20) and is in no
\* source of the repository, it is assumed that it leaves system_on alone.
RegularEndIsRoverFailure ==
    loop_result = "returned 0" => thread = "ended"
=============================================================================
