--------------------------- MODULE RunLoopProofs ---------------------------
(***************************************************************************)
(* For every configuration: MainLoop, next to the rover's thread, does     *)
(* what Lifecycle says of its label "loop" and of the releases, and the    *)
(* thread does nothing that MainLoop does not know.                        *)
(***************************************************************************)
EXTENDS RunLoop, MainLoopProofs

\* What the thread and the signals have to do with the main loop.
ThreadInv ==
    /\ thread \in IF RoverPresent THEN {"running", "ended"} ELSE {"none"}
    /\ loop_result \in {"none", "returned 0", "returned -1"}
    /\ repeated \in BOOLEAN
    /\ pc \in InLoop => masked = {}
    /\ pc \in InLoop /\ ~system_on => thread = "ended"
    /\ RegularEndIsRoverFailure

RunInv == IInv /\ ThreadInv

-----------------------------------------------------------------------------
\* Where a signal is masked, the loop is over and system_on is cleared.
LEMMA MaskedMeansStopped ==
    ASSUME RunInv, NEW s \in masked, pc \notin Ended
    PROVE  pc \in Releasing /\ system_on = FALSE
BY DEF RunInv, ThreadInv, IInv, TypeOK, StateInv

-----------------------------------------------------------------------------
(* The thread takes nothing away from MainLoop. *)

\* A step next to the thread is a step of MainLoop or none.
LEMMA StepOfMainLoop == RunInv /\ [RunNext]_run_vars => [Next]_vars
<1> SUFFICES ASSUME RunInv, [RunNext]_run_vars PROVE Next \/ UNCHANGED vars
  OBVIOUS
<1>1. CASE MainThreadRuns
  BY <1>1 DEF MainThreadRuns, Next
<1>2. CASE SignalComes
  BY <1>2 DEF SignalComes, Next
<1>3. CASE SignalComesAgain
  <2>1. PICK s \in Signals :
            \/ SignalElsewhere(s)
            \/ /\ s \in masked
               /\ pc \notin Ended
               /\ system_on' = FALSE
               /\ UNCHANGED <<streamer_vars, client_vars,
                              pc, stream_state, masked>>
    BY <1>3 DEF SignalComesAgain
  <2>2. CASE SignalElsewhere(s)
    BY <2>2 DEF Next
  <2>3. CASE /\ s \in masked
             /\ pc \notin Ended
             /\ system_on' = FALSE
             /\ UNCHANGED <<streamer_vars, client_vars,
                            pc, stream_state, masked>>
    BY <2>3, MaskedMeansStopped DEF vars
  <2> QED
    BY <2>1, <2>2, <2>3
<1>4. CASE RoverThreadThrows
  BY <1>4 DEF RoverThreadThrows, Next
<1>5. CASE RoverThreadReturns
  BY <1>5 DEF RoverThreadReturns, vars
<1>6. CASE OthersAct
  BY <1>6 DEF OthersAct, Next
<1>7. CASE UNCHANGED run_vars
  BY <1>7 DEF run_vars
<1> QED
  BY <1>1, <1>2, <1>3, <1>4, <1>5, <1>6, <1>7 DEF RunNext

\* The initial state satisfies RunInv.
LEMMA RunInvInit == RunInit => RunInv
BY IInvInit
   DEF RunInit, RunInv, ThreadInv, RegularEndIsRoverFailure, Init

\* Every step of the main thread, the rover's thread, the headset and the
\* signals keeps RunInv.
LEMMA RunInvStep == RunInv /\ [RunNext]_run_vars => RunInv'
<1> SUFFICES ASSUME RunInv, [RunNext]_run_vars PROVE RunInv'
  OBVIOUS
<1>0. IInv'
  BY StepOfMainLoop, IInvStep DEF RunInv
<1> SUFFICES ThreadInv'
  BY <1>0 DEF RunInv
<1>d. /\ InLoop \cap Releasing = {} /\ InLoop \cap Ended = {}
      /\ "final_gst" \notin InLoop /\ "escaped" \notin InLoop
      /\ "killed" \notin InLoop /\ "done" \notin InLoop
  BY DEF InLoop, Connecting, Announcing, Serving, Releasing, Ended
<1> USE DEF RunInv, ThreadInv, RegularEndIsRoverFailure
<1>1. CASE MainThreadRuns
  <2>1. MainThread /\ UNCHANGED <<thread, repeated>>
    BY <1>1 DEF MainThreadRuns
  <2>2. loop_result' =
            IF pc \in InLoop /\ pc' = "final_gst"
              THEN IF pc = "init" /\ ~system_on
                     THEN "returned 0" ELSE "returned -1"
              ELSE loop_result
    BY <1>1 DEF MainThreadRuns
  <2>3. pc' \in InLoop => pc \in InLoop /\ UNCHANGED <<system_on, masked>>
    BY <1>d, <2>1, MainThreadMoves DEF Releasing
  <2>4. loop_result' = "returned 0" => thread' = "ended"
    BY <2>1, <2>2
  <2> QED
    BY <2>1, <2>2, <2>3, <2>4
<1>2. CASE SignalComes
  BY <1>2, <1>d DEF SignalComes, SignalInLoop, SignalInRelease, LeaveLoop, Goto
<1>3. CASE SignalComesAgain
  <2>1. pc' \notin InLoop
    BY <1>3, <1>d, MaskedMeansStopped
       DEF SignalComesAgain, SignalElsewhere, Goto
  <2>2. /\ repeated' = TRUE
        /\ loop_result' = loop_result
        /\ thread' = thread \/ (thread = "running" /\ thread' = "ended")
    BY <1>3 DEF SignalComesAgain
  <2> QED
    BY <2>1, <2>2
<1>4. CASE RoverThreadThrows
  BY <1>4 DEF RoverThreadThrows, RoverThreadFails
<1>5. CASE RoverThreadReturns
  BY <1>5 DEF RoverThreadReturns, vars
<1>6. CASE OthersAct
  BY <1>6 DEF OthersAct, HeadsetActs, Terminated, vars
<1>7. CASE UNCHANGED run_vars
  BY <1>7 DEF run_vars, vars
<1> QED
  BY <1>1, <1>2, <1>3, <1>4, <1>5, <1>6, <1>7 DEF RunNext

\* What ties the main loop, the rover's thread and the signals together holds
\* in every reachable state.
THEOREM RunInvCorrect == RunSpec => []RunInv
BY RunInvInit, RunInvStep, PTL DEF RunSpec

\* In every reachable state each variable has its type.
THEOREM RunTypeCorrect == RunSpec => []RunTypeOK
<1>1. RunInv => RunTypeOK
  BY DEF RunInv, IInv, ThreadInv, RunTypeOK
<1> QED
  BY <1>1, RunInvCorrect, PTL

\* MainLoop next to the thread is MainLoop: its theorems hold here.
THEOREM RunsMainLoopAlways == RunSpec => RunsMainLoop
<1>1. RunInit => Init
  BY DEF RunInit
<1> QED
  BY <1>1, StepOfMainLoop, RunInvCorrect, PTL DEF RunSpec, Spec, RunsMainLoop

\* The main loop returns 0 only when the rover's thread has ended.
THEOREM RegularEndIsRoverFailureAlways ==
    RunSpec => []RegularEndIsRoverFailure
<1>1. RunInv => RegularEndIsRoverFailure
  BY DEF RunInv, ThreadInv
<1> QED
  BY <1>1, RunInvCorrect, PTL
-----------------------------------------------------------------------------
(* What Lifecycle says of "loop" and "release" is what MainLoop does. *)

\* The labels of Lifecycle that stand for the labels of MainLoop.
LEMMA RunPcIs ==
    /\ pc \in InLoop => RunPc = "loop"
    /\ pc \in Releasing => RunPc = "release"
    /\ pc = "done" => RunPc = "deinit_video"
    /\ pc = "escaped" => RunPc = "returned"
    /\ pc = "killed" => RunPc = "aborted"
<1>1. /\ pc \in Releasing => pc \notin InLoop
      /\ pc \in Ended => pc \notin InLoop /\ pc \notin Releasing
  BY DEF InLoop, Connecting, Announcing, Serving, Releasing, Ended
<1> QED
  BY <1>1 DEF RunPc, Ended

\* Every step of the main loop, the thread, the headset and the signals is a
\* step of Lifecycle, or invisible in it.
LEMMA LifecycleStep ==
    RunInv /\ [RunNext]_run_vars => [Life!Next]_(Life!vars)
<1> SUFFICES ASSUME RunInv, [RunNext]_run_vars
             PROVE  Life!Next \/ UNCHANGED Life!vars
  OBVIOUS
<1>p. /\ pc' \in InLoop => RunPc' = "loop"
      /\ pc' \in Releasing => RunPc' = "release"
      /\ pc' = "done" => RunPc' = "deinit_video"
      /\ pc' = "escaped" => RunPc' = "returned"
      /\ pc' = "killed" => RunPc' = "aborted"
  <2>1. (/\ pc \in InLoop => RunPc = "loop"
         /\ pc \in Releasing => RunPc = "release"
         /\ pc = "done" => RunPc = "deinit_video"
         /\ pc = "escaped" => RunPc = "returned"
         /\ pc = "killed" => RunPc = "aborted")'
    BY RunPcIs, PTL
  <2> QED BY <2>1
<1>s. pc' = pc => RunPc' = RunPc
  BY DEF RunPc
<1>t. /\ pc # "escaped" /\ pc' # "escaped" => Thrown' = Thrown
      /\ pc' = pc => Thrown' = Thrown
      /\ pc' = "escaped" => Thrown' = TRUE
  BY DEF Thrown
<1>d. /\ InLoop \cap Releasing = {}
      /\ "escaped" \notin InLoop \cup Releasing
      /\ "final_gst" \notin InLoop /\ "final_gst" \in Releasing
      /\ "killed" \notin InLoop \cup Releasing
      /\ "done" \notin InLoop \cup Releasing
  BY DEF InLoop, Connecting, Announcing, Serving, Releasing
<1>1. CASE MainThreadRuns
  <2>1. /\ MainThread
        /\ UNCHANGED <<thread, repeated>>
        /\ loop_result' =
               IF pc \in InLoop /\ pc' = "final_gst"
                 THEN IF pc = "init" /\ ~system_on
                        THEN "returned 0" ELSE "returned -1"
                 ELSE loop_result
    BY <1>1 DEF MainThreadRuns
  <2>2. UNCHANGED <<masked, Thrown>>
    BY <2>1, <1>d, <1>t, MainThreadMoves DEF RunInv
  <2>3. CASE pc \in InLoop /\ pc' \in InLoop /\ UNCHANGED system_on
    <3>1. RunPc' = RunPc /\ loop_result' = loop_result
      BY <2>1, <2>3, <1>p, <1>d, RunPcIs
    <3> QED
      BY <2>1, <2>2, <2>3, <3>1
         DEF Life!vars, Life!devices, Life!outcome, Life!rest
  <2>4. CASE pc \in InLoop /\ pc' = "final_gst" /\ system_on' = FALSE
    <3>1. RunPc = "loop" /\ RunPc' = "release"
      BY <2>4, <1>p, <1>d, RunPcIs
    <3>2. \/ ~system_on /\ loop_result' = "returned 0"
          \/ loop_result' = "returned -1"
      BY <2>1, <2>4
    <3>3. Life!LoopReturns
      BY <2>1, <2>2, <2>4, <3>1, <3>2 DEF Life!LoopReturns, Life!devices, Life!outcome
    <3> QED
      BY <3>3 DEF Life!Next, Life!MainThread
  <2>5. CASE /\ pc \in InLoop /\ pc' = "killed"
             /\ ~SigPipeIgnored /\ UNCHANGED system_on
    <3>1. RunPc = "loop" /\ RunPc' = "aborted" /\ loop_result' = loop_result
      BY <2>1, <2>5, <1>p, RunPcIs
    <3>2. Life!BrokenPipe
      BY <2>1, <2>2, <2>5, <3>1
         DEF Life!BrokenPipe, Life!Terminate, Life!devices, Life!outcome,
             Life!rest
    <3> QED
      BY <3>2 DEF Life!Next, Life!MainThread
  <2>6. CASE /\ pc \in Releasing /\ pc' \in Releasing \cup {"done"}
             /\ UNCHANGED system_on
    <3>1. RunPc = "release" /\ loop_result' = loop_result
      BY <2>1, <2>6, <1>d, RunPcIs
    <3>2. CASE pc' \in Releasing
      BY <2>1, <2>2, <2>6, <3>1, <3>2, <1>p
         DEF Life!vars, Life!devices, Life!outcome, Life!rest
    <3>3. CASE pc' = "done"
      <4>1. Life!Release
        BY <2>1, <2>2, <2>6, <3>1, <3>3, <1>p
           DEF Life!Release, Life!Goto, Life!devices, Life!outcome,
              Life!rest
      <4> QED
        BY <4>1 DEF Life!Next, Life!MainThread
    <3> QED
      BY <2>6, <3>2, <3>3
  <2> QED
    BY <2>1, <2>3, <2>4, <2>5, <2>6, MainThreadMoves DEF RunInv
<1>2. CASE SignalComes
  <2>1. PICK s \in Signals : SignalInLoop(s) \/ SignalInRelease(s)
    BY <1>2 DEF SignalComes
  <2>2. UNCHANGED <<thread, loop_result, repeated>>
    BY <1>2 DEF SignalComes
  <2>3. s \in Signals \ masked /\ masked' = masked \cup {s}
    BY <2>1 DEF SignalInLoop, SignalInRelease
  <2>4. Life!Signal(s)
    <3>1. CASE SignalInLoop(s)
      <4>1. /\ RunPc = "loop" /\ RunPc' = "release" /\ system_on' = FALSE
            /\ UNCHANGED Thrown
        BY <3>1, <1>p, <1>d, <1>t, RunPcIs DEF SignalInLoop, LeaveLoop
      <4> QED
        BY <2>2, <2>3, <4>1 DEF Life!Signal, Life!devices, Life!outcome
    <3>2. CASE SignalInRelease(s)
      <4>1. /\ RunPc = "release" /\ RunPc' = "returned"
            /\ UNCHANGED system_on /\ pc \in Releasing
            /\ Thrown' = TRUE
        BY <3>2, <1>p, <1>t, RunPcIs DEF SignalInRelease, Goto
      <4>2. system_on' = FALSE
        BY <4>1 DEF RunInv, IInv, StateInv, TypeOK
      <4> QED
        BY <2>2, <2>3, <4>1, <4>2
           DEF Life!Signal, Life!Escape, Life!devices, Life!Running,
               Life!Taking
    <3> QED
      BY <2>1, <3>1, <3>2
  <2> QED
    BY <2>4 DEF Life!Next
<1>3. CASE SignalComesAgain
  <2>1. repeated' = TRUE /\ UNCHANGED loop_result
    BY <1>3 DEF SignalComesAgain
  <2>2. PICK s \in Signals :
            \/ SignalElsewhere(s) /\ UNCHANGED thread
            \/ /\ s \in masked
               /\ pc \notin Ended
               /\ thread = "running"
               /\ thread' = "ended"
               /\ system_on' = FALSE
               /\ UNCHANGED <<streamer_vars, client_vars,
                              pc, stream_state, masked>>
    BY <1>3 DEF SignalComesAgain
  <2>3. s \in masked /\ UNCHANGED masked /\ pc \in Releasing
    BY <2>2, MaskedMeansStopped DEF SignalElsewhere
  <2>4. RunPc = "release"
    BY <2>3, RunPcIs
  <2>5. Life!SignalElsewhere(s)
    <3>1. CASE SignalElsewhere(s) /\ UNCHANGED thread
      <4>1. RunPc' = "aborted" /\ UNCHANGED <<system_on, Thrown>>
        BY <3>1, <1>p, <1>d, <1>t DEF SignalElsewhere, Goto
      <4> QED
        BY <2>1, <2>3, <2>4, <3>1, <4>1
           DEF Life!SignalElsewhere, Life!Terminate, Life!outcome,
               Life!Over
    <3>2. CASE /\ thread = "running"
               /\ thread' = "ended"
               /\ system_on' = FALSE
               /\ UNCHANGED pc
      <4>1. UNCHANGED <<RunPc, Thrown>>
        BY <3>2, <1>s, <1>t
      <4> QED
        BY <2>1, <2>3, <2>4, <3>2, <4>1
           DEF Life!SignalElsewhere, Life!outcome, Life!Over
    <3> QED
      BY <2>2, <3>1, <3>2
  <2> QED
    BY <2>5 DEF Life!Next
<1>4. CASE RoverThreadThrows \/ RoverThreadReturns
  <2>1. /\ thread = "running" /\ thread' = "ended"
        /\ UNCHANGED <<pc, masked, loop_result, repeated>>
        /\ pc \notin Ended
        /\ system_on' \in BOOLEAN
        /\ ~system_on => UNCHANGED system_on
    BY <1>4 DEF RoverThreadThrows, RoverThreadFails, RoverThreadReturns, vars,
                RunInv, IInv, TypeOK
  <2>2. UNCHANGED <<RunPc, Thrown>>
    BY <2>1, <1>s, <1>t
  <2>3. RunPc \notin Life!Over
    BY <2>1, RunPcIs DEF RunInv, IInv, TypeOK, Life!Over
  <2>4. CASE system_on
    <3>1. Life!RoverThreadGivesUp
      BY <2>1, <2>2, <2>3, <2>4 DEF Life!RoverThreadGivesUp, Life!outcome,
                                    Life!rest
    <3> QED
      BY <3>1 DEF Life!Next
  <2>5. CASE ~system_on
    <3>1. Life!RoverThreadEnds
      BY <2>1, <2>2, <2>3, <2>5 DEF Life!RoverThreadEnds, Life!outcome,
                                    Life!rest
    <3> QED
      BY <3>1 DEF Life!Next
  <2> QED
    BY <2>4, <2>5
<1>5. CASE OthersAct \/ UNCHANGED run_vars
  <2>1. UNCHANGED <<pc, system_on, masked, thread, loop_result, repeated>>
    BY <1>5 DEF OthersAct, HeadsetActs, Terminated, run_vars, vars
  <2> QED
    BY <2>1, <1>s, <1>t DEF Life!vars, Life!devices, Life!outcome, Life!rest
<1> QED
  BY <1>1, <1>2, <1>3, <1>4, <1>5 DEF RunNext

\* Whatever the headset, the signals and the rover's thread do, the main loop
\* and the releases behind it do what Lifecycle says of them in two labels.
THEOREM FitsLifecycleAlways == RunSpec => FitsLifecycle
BY LifecycleStep, RunInvCorrect, PTL DEF RunSpec, FitsLifecycle
=============================================================================
