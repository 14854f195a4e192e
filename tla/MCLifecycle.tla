---------------------------- MODULE MCLifecycle ----------------------------
(* Lifecycle with the constants of the .cfg files. *)
EXTENDS Lifecycle

CONSTANTS SIGINT, SIGTERM

MCSignals == {SIGINT, SIGTERM}
============================================================================
