----------------------------- MODULE CtrlClient -----------------------------
(***************************************************************************)
(* Class CtrlClient: the TCP connection on which the headset is told what  *)
(* the robot has and sends PLAY and STOP.  The client's own state is one   *)
(* integer, sockfd; the rest is the kernel's (which descriptors are open,  *)
(* what has become of the connection) and the headset's.                   *)
(*                                                                         *)
(* The connection (`link`) as the client's calls see it:                   *)
(*   "none"    no connection                                               *)
(*   "up"      both ends alive                                             *)
(*   "fin"     the headset closed its end; recv() gives 0, send() works    *)
(*             until the headset answers it with a reset                   *)
(*   "reset"   reset by the headset, ECONNRESET not yet reported           *)
(*   "broken"  reset and reported: recv() gives 0, send() gives EPIPE      *)
(*                                                                         *)
(* A command in `inbox` stands for what readcmd() makes of one recv(): the *)
(* code never puts the pieces of a short read together, so one recv() may  *)
(* yield any command whatever the headset meant, and the headset of this   *)
(* module accordingly sends any command at any time.                       *)
(***************************************************************************)
EXTENDS Integers, Sequences

CONSTANTS
    Fds,            \* descriptors the process may still open
    MaxInbox,       \* bound: commands under way from the headset
    SigPipeIgnored, \* SIGPIPE is ignored (systemd does so, a shell does not)
    BindMayFail     \* SO_BINDTODEVICE can fail (no capability, no interface)

ASSUME ClientAssumption ==
    /\ Fds \subseteq Nat \ {0}
    /\ MaxInbox \in Nat
    /\ SigPipeIgnored \in BOOLEAN
    /\ BindMayFail \in BOOLEAN

VARIABLES
    sockfd,         \* CtrlClient::sockfd
    open,           \* the descriptors socket() gave and nobody closed
    link,           \* the connection on sockfd
    inbox,          \* commands sent by the headset and not received
    told            \* the stream state the headset was last told on this link

client_vars == <<sockfd, open, link, inbox, told>>

NoFd == -1
NotTold == -1
Commands == {"NONE", "PLAY", "STOP"}
LinkStates == {"none", "up", "fin", "reset", "broken"}

ClientTypeOK ==
    /\ sockfd \in Fds \cup {0, NoFd}
    /\ open \subseteq Fds
    /\ link \in LinkStates
    /\ inbox \in Seq(Commands)
    /\ told \in {NotTold, 0, 1}

ClientInit ==
    /\ sockfd = 0
    /\ open = {}
    /\ link = "none"
    /\ inbox = <<>>
    /\ told = NotTold

NoLink == link' = "none" /\ inbox' = <<>> /\ told' = NotTold

-----------------------------------------------------------------------------
(* init() and conn(). *)

\* init() returns 0.  socket() takes the lowest free descriptor, whatever
\* sockfd was before.
InitSocket ==
    \E fd \in Fds \ open :
        /\ \A other \in Fds \ open : fd <= other
        /\ sockfd' = fd
        /\ open' = open \cup {fd}
        /\ NoLink

\* init() returns -1: socket() had no descriptor left, or the socket could not
\* be bound to the network interface and was closed again.
InitSocketFails ==
    /\ BindMayFail \/ Fds \subseteq open
    /\ sockfd' = NoFd
    /\ UNCHANGED open
    /\ NoLink

\* conn() returns 0: the headset accepted the connection.
Connected ==
    /\ link' = "up"
    /\ UNCHANGED <<sockfd, open, inbox, told>>

\* conn() returns -1.  The descriptor stays open.
ConnectFails == UNCHANGED client_vars

\* Mutant of DeinitSocket: sockfd is overwritten before it is closed.
DeinitSocketSwapped ==
    /\ sockfd' = NoFd
    /\ UNCHANGED open
    /\ NoLink

\* deinit(): every descriptor but 0 is closed, -1 without effect.
DeinitSocket ==
    /\ open' = IF sockfd # 0 THEN open \ {sockfd} ELSE open
    /\ sockfd' = NoFd
    /\ NoLink

-----------------------------------------------------------------------------
(* _write(): the send() of write_cmd, write_data and write_streamstate.    *)

\* send() took the bytes; `state` is what the headset now has been told.  The
\* headset that has closed its end may answer them with a reset.
Sent(state) ==
    /\ \/ link = "up" /\ link' = "up"
       \/ link = "fin" /\ link' \in {"fin", "broken"}
    /\ told' = state
    /\ UNCHANGED <<sockfd, open, inbox>>

\* send() returns -1 and the process lives: ECONNRESET, or EPIPE with SIGPIPE
\* ignored.
SendFails ==
    /\ link = "reset" \/ (link = "broken" /\ SigPipeIgnored)
    /\ link' = "broken"
    /\ UNCHANGED <<sockfd, open, inbox, told>>

\* send() without MSG_NOSIGNAL on a broken connection raises SIGPIPE.
SendKills ==
    /\ link = "broken"
    /\ ~SigPipeIgnored
    /\ UNCHANGED client_vars

-----------------------------------------------------------------------------
(* readcmd(): the select() loop of _read() goes round until one of these.  *)

ReadCommand(cmd) ==
    /\ inbox # <<>>
    /\ cmd = Head(inbox)
    /\ inbox' = Tail(inbox)
    /\ UNCHANGED <<sockfd, open, link, told>>

\* recv() returns -1.
ReadFails ==
    /\ inbox = <<>>
    /\ link = "reset"
    /\ link' = "broken"
    /\ UNCHANGED <<sockfd, open, inbox, told>>

\* recv() returns 0.
ReadEnd ==
    /\ inbox = <<>>
    /\ link \in {"fin", "broken"}
    /\ UNCHANGED client_vars

-----------------------------------------------------------------------------
(* The headset, which is not part of the repository. *)

HeadsetSends(cmd) ==
    /\ link = "up"
    /\ Len(inbox) < MaxInbox
    /\ inbox' = Append(inbox, cmd)
    /\ UNCHANGED <<sockfd, open, link, told>>

HeadsetCloses ==
    /\ link = "up"
    /\ link' = "fin"
    /\ UNCHANGED <<sockfd, open, inbox, told>>

HeadsetResets ==
    /\ \/ link = "up" /\ link' = "reset"
       \/ link = "fin" /\ link' = "broken"
    /\ UNCHANGED <<sockfd, open, inbox, told>>

Headset ==
    \/ \E cmd \in Commands : HeadsetSends(cmd)
    \/ HeadsetCloses
    \/ HeadsetResets

HeadsetGone == link \in {"fin", "reset", "broken"}
=============================================================================
