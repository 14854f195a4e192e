--------------------------- MODULE StreamSession ---------------------------
(***************************************************************************)
(* What the robot promises a headset, without sockets, pipelines, threads  *)
(* or signals.                                                             *)
(*   - A session opens with nothing flowing, and the first state told in   *)
(*     it is "stopped".                                                    *)
(*   - Flow changes only while a PLAY or a STOP is carried out, or runs    *)
(*     out once the session is closed or over.                             *)
(*   - "playing" is told only when everything flows, "stopped" only when   *)
(*     nothing does.                                                       *)
(*   - The next session opens only when the flow of the last has run out.  *)
(***************************************************************************)
EXTENDS Integers

VARIABLES
    session,    \* "closed", "open", or "over" for good
    doing,      \* the command being carried out: "nothing", "play", "stop"
    told,       \* last told in this session: -1 nothing, 0 stopped, 1 playing
    flow        \* 0 nothing flows, 1 some streams do, 2 all do

vars == <<session, doing, told, flow>>

Init == session = "closed" /\ doing = "nothing" /\ told = -1 /\ flow = 0

Open ==
    /\ session = "closed"
    /\ flow = 0
    /\ session' = "open"
    /\ UNCHANGED <<doing, told, flow>>

Greet ==
    /\ session = "open"
    /\ told = -1
    /\ told' = 0
    /\ UNCHANGED <<session, doing, flow>>

Obey ==
    /\ session = "open"
    /\ doing = "nothing"
    /\ told # -1
    /\ doing' \in {"play", "stop"}
    /\ UNCHANGED <<session, told, flow>>

Rise ==
    /\ doing = "play"
    /\ flow' \in flow .. 2
    /\ UNCHANGED <<session, doing, told>>

Fall ==
    /\ doing = "stop" \/ session # "open"
    /\ flow' \in 0 .. flow
    /\ UNCHANGED <<session, doing, told>>

Tell ==
    /\ session = "open"
    /\ \/ doing = "play" /\ flow = 2 /\ told' = 1
       \/ doing = "stop" /\ flow = 0 /\ told' = 0
    /\ doing' = "nothing"
    /\ UNCHANGED <<session, flow>>

Close ==
    /\ session = "open"
    /\ doing = "stop"
    /\ session' = "closed"
    /\ doing' = "nothing"
    /\ told' = -1
    /\ UNCHANGED flow

Finish ==
    /\ session' = "over"
    /\ doing' = "nothing"
    /\ told' = -1
    /\ flow' \in 0 .. flow

Next == Open \/ Greet \/ Obey \/ Rise \/ Fall \/ Tell \/ Close \/ Finish

Spec == Init /\ [][Next]_vars

\* What follows for the headset: between commands, the state it was told last is
\* what flows, and nothing flows before it was told anything.
Honest ==
    session = "open" /\ doing = "nothing" =>
        flow = IF told = 1 THEN 2 ELSE 0
=============================================================================
