----------------------------- MODULE MCRunLoop -----------------------------
(* RunLoop with the constants of the .cfg files. *)
EXTENDS RunLoop

CONSTANTS SIGINT, SIGTERM

MCSignals == {SIGINT, SIGTERM}
MCFds == 3 .. 4
MCHardware == [video |-> TRUE, gimbal |-> "RS2", rover |-> "Nesfr7ROS2"]
============================================================================
