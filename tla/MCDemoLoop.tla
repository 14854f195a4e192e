---------------------------- MODULE MCDemoLoop ----------------------------
(* DemoLoop with the constants of the .cfg files. *)
EXTENDS DemoLoop

MCFds == 3 .. 4
===========================================================================
