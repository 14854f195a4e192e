----------------------------- MODULE PartsProofs -----------------------------
(***************************************************************************)
(* What the calls of VideoStreamer and CtrlClient keep, whoever makes      *)
(* them: the facts that the proofs about MainLoop and DemoLoop share.      *)
(***************************************************************************)
EXTENDS VideoStreamer, CtrlClient, TLAPS

\* A streamer call moves the cursor inside the pipelines and each pipeline
\* inside its states.
LEMMA StreamerTypeStep ==
    ASSUME StreamerTypeOK,
           \/ SkipPipeline
           \/ ConstructPipeline
           \/ ConstructFails
           \/ SetState("PLAYING")
           \/ SetState("PAUSED")
           \/ SetStateFails
           \/ DropPipeline
           \/ Abandon /\ UNCHANGED pipeline
           \/ UNCHANGED streamer_vars
    PROVE  StreamerTypeOK'
BY DEF StreamerTypeOK, SkipPipeline, ConstructPipeline, ConstructFails,
       SetState, SetStateFails, DropPipeline, Abandon, Advance, AtLast,
       streamer_vars, Pipelines, PipelineStates, stereo_left, audio_out

\* The client's calls keep sockfd and the open descriptors among those the
\* process can have, and the inbox a queue of commands.
LEMMA ClientTypeStep ==
    ASSUME ClientTypeOK, NEW state \in {NotTold, 0, 1},
           \/ InitSocket
           \/ InitSocketFails
           \/ Connected
           \/ ConnectFails
           \/ DeinitSocket
           \/ Sent(state)
           \/ SendFails
           \/ SendKills
           \/ \E cmd \in Commands : ReadCommand(cmd)
           \/ ReadFails
           \/ ReadEnd
           \/ Headset
           \/ UNCHANGED client_vars
    PROVE  ClientTypeOK'
<1> USE DEF ClientTypeOK, LinkStates, NoLink, NotTold, NoFd, client_vars
<1>1. CASE InitSocket \/ InitSocketFails \/ DeinitSocket
  <2>1. <<>> \in Seq(Commands)
    OBVIOUS
  <2>2. CASE InitSocket
    BY <2>1, <2>2 DEF InitSocket
  <2>3. CASE InitSocketFails
    BY <2>1, <2>3 DEF InitSocketFails
  <2>4. CASE DeinitSocket
    BY <2>1, <2>4 DEF DeinitSocket
  <2> QED BY <1>1, <2>2, <2>3, <2>4
<1>2. CASE Connected \/ ConnectFails \/ Sent(state) \/ SendFails \/ SendKills
  BY <1>2 DEF Connected, ConnectFails, Sent, SendFails, SendKills
<1>3. CASE \E cmd \in Commands : ReadCommand(cmd)
  <2>1. inbox \in Seq(Commands) /\ inbox # <<>> => Tail(inbox) \in Seq(Commands)
    OBVIOUS
  <2> QED BY <1>3, <2>1 DEF ReadCommand
<1>4. CASE ReadFails \/ ReadEnd \/ UNCHANGED client_vars
  BY <1>4 DEF ReadFails, ReadEnd
<1>5. CASE Headset
  BY <1>5 DEF Headset, HeadsetSends, HeadsetCloses, HeadsetResets
<1> QED BY <1>1, <1>2, <1>3, <1>4, <1>5
=============================================================================
