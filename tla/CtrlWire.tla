------------------------------ MODULE CtrlWire ------------------------------
(***************************************************************************)
(* readcmd() on a byte stream.  The headset sends messages of one length,  *)
(* sizeof(RemoteCtrlCmdMsg); TCP hands them over in pieces of any size;    *)
(* and every readcmd() is one recv() of at most one message into a local   *)
(* that is not initialized, whose field `cmd` is then acted upon, however  *)
(* much was received.  So messages that have run together do no harm, and  *)
(* one that comes in pieces is taken for several.                          *)
(*                                                                         *)
(* Lengths are in units of MsgLen to a message.  The stream holds the      *)
(* messages `msgs`; `ahead` units of the first one are taken already, and  *)
(* the next `avail` units have arrived.                                    *)
(*                                                                         *)
(* CtrlClient and MainLoop, where one readcmd() yields any command, rest   *)
(* on this module for what that does to the order of the commands.         *)
(***************************************************************************)
EXTENDS Integers, Sequences

CONSTANTS
    MsgLen,         \* sizeof(RemoteCtrlCmdMsg)
    CmdEnd,         \* where its field `cmd` ends
    MaxPending      \* bound: messages under way

ASSUME WireAssumption ==
    /\ MsgLen \in Nat
    /\ CmdEnd \in 1 .. MsgLen
    /\ MaxPending \in Nat

VARIABLES
    link,       \* the connection: "none", "up", "fin", "reset", "broken"
    msgs,       \* messages sent, of which not all is taken
    ahead,      \* units taken of the first message
    avail,      \* units arrived and not taken
    msg_cmd     \* the command carried out last

vars == <<link, msgs, ahead, avail, msg_cmd>>

Commands == {"NONE", "PLAY", "STOP"}

\* What is in the stream and not taken.
Untaken == MsgLen * Len(msgs) - ahead

TypeOK ==
    /\ link \in {"none", "up", "fin", "reset", "broken"}
    /\ msgs \in Seq(Commands)
    /\ ahead \in 0 .. MsgLen - 1
    /\ avail \in 0 .. Untaken
    /\ msg_cmd \in Commands

Init ==
    /\ link = "none"
    /\ msgs = <<>>
    /\ ahead = 0
    /\ avail = 0
    /\ msg_cmd = "NONE"

-----------------------------------------------------------------------------
(* The robot. *)

Connect ==
    /\ link = "none"
    /\ link' = "up"
    /\ UNCHANGED <<msgs, ahead, avail, msg_cmd>>

\* Mutant of Received: the length is not the message's.
ReceivedTooShort == IF avail < MsgLen - 1 THEN avail ELSE MsgLen - 1

\* recv() gives what has arrived, one message's length at most.
Received == IF avail < MsgLen THEN avail ELSE MsgLen

\* The message the first units of which are received, if there are enough;
\* otherwise whatever bytes are in the place of `cmd`: of another message, of
\* another field, or of an earlier call.
CommandsIn(units) ==
    IF ahead = 0 /\ units >= CmdEnd THEN {Head(msgs)} ELSE Commands

Take(units) ==
    /\ avail' = avail - units
    /\ IF ahead + units < MsgLen
         THEN ahead' = ahead + units /\ UNCHANGED msgs
         ELSE ahead' = ahead + units - MsgLen /\ msgs' = Tail(msgs)

\* Mutant of ReadCmd: MSG_WAITALL, with a length of more than one message.
ReadCmdWaitAll ==
    /\ link # "none"
    /\ avail > IF link = "up" THEN MsgLen ELSE 0
    /\ msg_cmd' \in CommandsIn(Received)
    /\ Take(Received)
    /\ UNCHANGED link

ReadCmd ==
    /\ link # "none"
    /\ avail > 0
    /\ msg_cmd' \in CommandsIn(Received)
    /\ Take(Received)
    /\ UNCHANGED link

\* recv() returns -1 once, after what had arrived before the reset.
ReadFails ==
    /\ link = "reset"
    /\ avail = 0
    /\ link' = "broken"
    /\ UNCHANGED <<msgs, ahead, avail, msg_cmd>>

\* Mutant of ReadEnd: the place in the stream is kept for the next session.
ReadEndKeepingPlace ==
    /\ link = "broken" \/ (link = "fin" /\ msgs = <<>>)
    /\ link' = "none"
    /\ msgs' = <<>>
    /\ avail' = 0
    /\ UNCHANGED <<ahead, msg_cmd>>

\* recv() returns 0: the socket is closed, with what is still in the stream.
ReadEnd ==
    /\ link = "broken" \/ (link = "fin" /\ msgs = <<>>)
    /\ link' = "none"
    /\ msgs' = <<>>
    /\ ahead' = 0
    /\ avail' = 0
    /\ UNCHANGED msg_cmd

-----------------------------------------------------------------------------
(* The headset and the network. *)

HeadsetSends ==
    /\ link = "up"
    /\ Len(msgs) < MaxPending
    /\ \E cmd \in Commands : msgs' = Append(msgs, cmd)
    /\ UNCHANGED <<link, ahead, avail, msg_cmd>>

\* Some more of the stream arrives, in pieces of any size.
Arrive ==
    /\ link \in {"up", "fin"}
    /\ avail' \in avail + 1 .. Untaken
    /\ UNCHANGED <<link, msgs, ahead, msg_cmd>>

HeadsetCloses ==
    /\ link = "up"
    /\ link' = "fin"
    /\ UNCHANGED <<msgs, ahead, avail, msg_cmd>>

\* What has not arrived never will.
HeadsetResets ==
    /\ link \in {"up", "fin"}
    /\ link' = "reset"
    /\ UNCHANGED <<msgs, ahead, avail, msg_cmd>>

-----------------------------------------------------------------------------

Robot == Connect \/ ReadCmd \/ ReadFails \/ ReadEnd

Next ==
    \/ Robot
    \/ HeadsetSends
    \/ Arrive
    \/ HeadsetCloses
    \/ HeadsetResets

Spec == Init /\ [][Next]_vars

\* The main loop comes back to readcmd(), and TCP delivers.
FairSpec == Spec /\ WF_vars(Robot) /\ WF_vars(Arrive)

-----------------------------------------------------------------------------
(* Properties. *)

\* readcmd() has lost its place in the stream only as long as a message is
\* under way: a headset that waits for the answer to one command before it
\* sends the next is understood again, whatever was split before.
LostPlaceEnds == ahead # 0 => msgs # <<>>

\* Commands are carried out in order and once each, up to a message that comes
\* in pieces and from the next time on that one ends with a recv()
\* (CtrlClient.cpp:140); a new session starts in its place.
Channel == INSTANCE CmdChannel WITH
    pending <- msgs, whole <- (ahead + avail >= MsgLen), garbled <- (ahead # 0)

ImplementsChannel == Channel!Spec

\* A headset that stays and has something under way again and again is listened
\* to again and again: messages in pieces do not leave readcmd() waiting for
\* the rest.
HeadsetIsHeard ==
    <>[](link = "up") /\ []<>(msgs # <<>>) => []<><<ReadCmd>>_vars
=============================================================================
