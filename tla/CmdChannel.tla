----------------------------- MODULE CmdChannel -----------------------------
(***************************************************************************)
(* What the robot makes of the commands of one headset, without bytes.     *)
(*   - Commands are carried out in the order they were sent, each once.    *)
(*   - Only a command that has not arrived as a whole can garble the       *)
(*     channel: in its place, and for as long as that lasts, anything may  *)
(*     be carried out.                                                     *)
(*   - A garbled channel still uses up what was sent, and is sound again   *)
(*     at the latest when nothing is pending.                              *)
(*   - The next session starts with a sound and empty channel.             *)
(***************************************************************************)
EXTENDS Sequences

CONSTANT Commands

VARIABLES
    pending,    \* commands sent, of which not all was used up
    whole,      \* the first of them has arrived as a whole
    msg_cmd,    \* the command carried out last
    garbled     \* the robot has lost its place

vars == <<pending, whole, msg_cmd, garbled>>

Init ==
    /\ pending = <<>>
    /\ whole = FALSE
    /\ msg_cmd \in Commands
    /\ garbled = FALSE

Send ==
    /\ \E cmd \in Commands : pending' = Append(pending, cmd)
    /\ UNCHANGED <<whole, msg_cmd, garbled>>

Arrive ==
    /\ pending # <<>>
    /\ whole' = TRUE
    /\ UNCHANGED <<pending, msg_cmd, garbled>>

Obey ==
    /\ ~garbled
    /\ whole
    /\ msg_cmd' = Head(pending)
    /\ pending' = Tail(pending)
    /\ whole' \in {FALSE, pending' # <<>>}
    /\ UNCHANGED garbled

Split ==
    /\ ~garbled
    /\ ~whole
    /\ pending # <<>>
    /\ msg_cmd' \in Commands
    /\ garbled' = TRUE
    /\ UNCHANGED <<pending, whole>>

\* More of the first command is used up, or all of it and some of the next.
Stray ==
    /\ garbled
    /\ msg_cmd' \in Commands
    /\ \/ ~whole /\ UNCHANGED <<pending, whole, garbled>>
       \/ /\ whole
          /\ pending' = Tail(pending)
          /\ whole' \in {FALSE, pending' # <<>>}
          /\ garbled' \in {FALSE, pending' # <<>>}

NewSession ==
    /\ pending' = <<>>
    /\ whole' = FALSE
    /\ garbled' = FALSE
    /\ UNCHANGED msg_cmd

Next == Send \/ Arrive \/ Obey \/ Split \/ Stray \/ NewSession

Spec == Init /\ [][Next]_vars
=============================================================================
