---------------------------- MODULE MCMainLoop ----------------------------
(* MainLoop with the constants of the .cfg files. *)
EXTENDS MainLoop

CONSTANTS SIGINT, SIGTERM

MCOneSignal == {SIGTERM}
MCFds == 3 .. 4
MCFewFds == 3 .. 6
============================================================================
