--------------------------- MODULE CtrlWireProofs ---------------------------
(***************************************************************************)
(* Proofs about CtrlWire, for messages of any length and any number of     *)
(* them under way.  The type invariant is inductive, and strong enough     *)
(* for the rest: what has arrived is no more than what was sent, so        *)
(* nothing is taken of a message that is not there.                        *)
(***************************************************************************)
EXTENDS CtrlWire, TLAPS

\* Of two truth values, one of which implies the other.
LEMMA Implied ==
    ASSUME NEW p \in BOOLEAN, NEW q \in BOOLEAN, p => q
    PROVE  p \in {FALSE, q}
BY Zenon

\* What is too short with more was too short with less.
LEMMA StillShort ==
    ASSUME NEW a \in Nat, NEW b \in Nat, NEW c \in Nat, NEW n \in Nat,
           c > b, ~(a + c >= n)
    PROVE  ~(a + b >= n)
OBVIOUS

\* The length of a stream with one message more.
LEMMA OneMore ==
    ASSUME NEW n \in Nat
    PROVE  /\ MsgLen * n \in Nat
           /\ MsgLen * (n + 1) = MsgLen * n + MsgLen
BY WireAssumption

\* There is a message where something has arrived, or where a place was lost.
LEMMA SomeMessage ==
    ASSUME TypeOK, avail > 0 \/ ahead # 0
    PROVE  /\ msgs # <<>>
           /\ Head(msgs) \in Commands
           /\ Tail(msgs) \in Seq(Commands)
           /\ Len(msgs) = Len(Tail(msgs)) + 1
<1>1. CASE msgs = <<>>
  <2>1. Len(msgs) = 0 /\ MsgLen * 0 = 0
    BY <1>1, WireAssumption
  <2>2. Untaken = 0 - ahead
    BY <2>1, WireAssumption DEF TypeOK, Untaken
  <2> QED
    BY <2>2, WireAssumption DEF TypeOK
<1>2. CASE msgs # <<>>
  BY <1>2 DEF TypeOK
<1> QED
  BY <1>1, <1>2

\* What recv() gives.
LEMMA ReceivedLemma ==
    ASSUME TypeOK, avail > 0
    PROVE  /\ Received \in 1 .. MsgLen
           /\ Received <= avail
           /\ Received < MsgLen => Received = avail
BY WireAssumption DEF TypeOK, Received, Untaken

-----------------------------------------------------------------------------
(* Type correctness. *)

\* Taking what recv() gave keeps within what was sent.
LEMMA TakeLemma ==
    ASSUME TypeOK, avail > 0, Take(Received)
    PROVE  /\ msgs' \in Seq(Commands)
           /\ ahead' \in 0 .. MsgLen - 1
           /\ avail' \in 0 .. Untaken'
<1>1. /\ Received \in 1 .. MsgLen
      /\ Received <= avail
  BY ReceivedLemma
<1>2. Tail(msgs) \in Seq(Commands) /\ Len(msgs) = Len(Tail(msgs)) + 1
  BY SomeMessage
<1>3. ahead \in Nat /\ avail \in Nat /\ Untaken \in Int /\ avail <= Untaken
  BY WireAssumption DEF TypeOK, Untaken
<1>4. CASE ahead + Received < MsgLen
  <2>1. ahead' = ahead + Received /\ msgs' = msgs /\ avail' = avail - Received
    BY <1>4 DEF Take
  <2>2. Untaken' = Untaken - Received
    BY <1>1, <1>3, <2>1, WireAssumption DEF Untaken, TypeOK
  <2> QED
    BY <1>1, <1>3, <1>4, <2>1, <2>2, WireAssumption DEF TypeOK
<1>5. CASE ~(ahead + Received < MsgLen)
  <2>1. /\ ahead' = ahead + Received - MsgLen
        /\ msgs' = Tail(msgs)
        /\ avail' = avail - Received
    BY <1>5 DEF Take
  <2>2. Len(Tail(msgs)) \in Nat
    BY <1>2
  <2>3. MsgLen * Len(msgs) = MsgLen * Len(Tail(msgs)) + MsgLen
    BY <1>2, <2>2, OneMore
  <2>4. Untaken' = Untaken - Received
    <3>1. MsgLen * Len(Tail(msgs)) \in Nat
      BY <2>2, OneMore
    <3> QED
      BY <1>1, <1>3, <2>1, <2>3, <3>1, WireAssumption DEF Untaken
  <2> QED
    BY <1>1, <1>2, <1>3, <1>5, <2>1, <2>4, WireAssumption DEF TypeOK
<1> QED
  BY <1>4, <1>5

\* The initial state is well typed.
LEMMA TypeInit == Init => TypeOK
BY WireAssumption DEF Init, TypeOK, Commands, Untaken

\* Every step keeps the types.
LEMMA TypeStep == TypeOK /\ [Next]_vars => TypeOK'
<1> SUFFICES ASSUME TypeOK, [Next]_vars PROVE TypeOK'
  OBVIOUS
<1>1. CASE Connect \/ ReadFails \/ HeadsetCloses \/ HeadsetResets
  BY <1>1
  DEF TypeOK, Untaken, Connect, ReadFails, HeadsetCloses, HeadsetResets
<1>2. CASE ReadCmd
  <2>1. Take(Received) /\ avail > 0 /\ link' = link
    BY <1>2 DEF ReadCmd
  <2>2. msg_cmd' \in Commands
    BY <1>2, <2>1, SomeMessage DEF ReadCmd, CommandsIn
  <2> QED
    BY <2>1, <2>2, TakeLemma DEF TypeOK
<1>3. CASE ReadEnd
  <2>1. Untaken' = 0
    BY <1>3, WireAssumption DEF ReadEnd, Untaken
  <2> QED
    BY <1>3, <2>1, WireAssumption DEF ReadEnd, TypeOK
<1>4. CASE HeadsetSends
  <2>1. PICK cmd \in Commands : msgs' = Append(msgs, cmd)
    BY <1>4 DEF HeadsetSends
  <2>2. msgs' \in Seq(Commands) /\ Len(msgs') = Len(msgs) + 1
    BY <2>1 DEF TypeOK
  <2>3. /\ MsgLen * Len(msgs') = MsgLen * Len(msgs) + MsgLen
        /\ MsgLen * Len(msgs) \in Nat
    BY <2>2, OneMore DEF TypeOK
  <2> QED
    BY <1>4, <2>2, <2>3, WireAssumption DEF HeadsetSends, TypeOK, Untaken
<1>5. CASE Arrive
  <2>1. Untaken' = Untaken /\ Untaken \in Int /\ avail \in Nat
    BY <1>5, WireAssumption DEF Arrive, Untaken, TypeOK
  <2> QED
    BY <1>5, <2>1 DEF Arrive, TypeOK
<1>6. CASE UNCHANGED vars
  BY <1>6 DEF vars, TypeOK, Untaken
<1> QED
  BY <1>1, <1>2, <1>3, <1>4, <1>5, <1>6 DEF Next, Robot

\* The stream's variables stay within their types: in particular nothing is
\* taken that was not sent.
THEOREM TypeCorrect == Spec => []TypeOK
<1>1. Init => TypeOK
  BY TypeInit
<1>2. TypeOK /\ [Next]_vars => TypeOK'
  BY TypeStep
<1> QED
  BY <1>1, <1>2, PTL DEF Spec

\* Where nothing is under way the robot has its place in the stream.
LEMMA PlaceLemma == TypeOK => LostPlaceEnds
BY SomeMessage DEF LostPlaceEnds

\* A lost place does not outlast the messages under way.
THEOREM PlaceIsFoundAgain == Spec => []LostPlaceEnds
<1>1. TypeOK => LostPlaceEnds
  BY PlaceLemma
<1> QED
  BY <1>1, TypeCorrect, PTL

\* A message that has arrived as a whole is one that was sent.
LEMMA WholeLemma ==
    TypeOK => (ahead + avail >= MsgLen) \in {FALSE, msgs # <<>>}
<1> SUFFICES ASSUME TypeOK
             PROVE  (ahead + avail >= MsgLen) \in {FALSE, msgs # <<>>}
  OBVIOUS
<1>1. (ahead + avail >= MsgLen) => avail > 0 \/ ahead # 0
  BY WireAssumption DEF TypeOK, Untaken
<1>2. (ahead + avail >= MsgLen) => (msgs # <<>>)
  BY <1>1, SomeMessage, Zenon
<1>3. (ahead + avail >= MsgLen) \in BOOLEAN
  BY SMT
<1>4. (msgs # <<>>) \in BOOLEAN
  BY Zenon
<1> QED
  BY <1>2, <1>3, <1>4, Implied, Zenon

-----------------------------------------------------------------------------
(* CtrlWire implements CmdChannel. *)

\* The same after a step.
LEMMA WholeNext ==
    TypeOK' => (ahead + avail >= MsgLen)' \in {FALSE, msgs' # <<>>}
<1>1. (TypeOK => (ahead + avail >= MsgLen) \in {FALSE, msgs # <<>>})'
  BY WholeLemma, PTL
<1> QED
  BY <1>1

\* The initial state maps to an initial state.
LEMMA ChannelInit == Init => Channel!Init
BY WireAssumption DEF Init, Channel!Init, Commands

\* A recv() that is acted upon is one of the steps Obey, Split and Stray.
LEMMA ChannelRead ==
    ASSUME TypeOK, TypeOK', ReadCmd
    PROVE  Channel!Obey \/ Channel!Split \/ Channel!Stray
<1>1. /\ avail > 0
      /\ msg_cmd' \in CommandsIn(Received)
      /\ avail' = avail - Received
      /\ IF ahead + Received < MsgLen
           THEN ahead' = ahead + Received /\ msgs' = msgs
           ELSE ahead' = ahead + Received - MsgLen /\ msgs' = Tail(msgs)
  BY DEF ReadCmd, Take
<1>2. /\ Received \in 1 .. MsgLen
      /\ Received <= avail
      /\ Received < MsgLen => Received = avail
  BY <1>1, ReceivedLemma
<1>3. msgs # <<>> /\ Head(msgs) \in Commands
  BY <1>1, SomeMessage
<1>4. /\ ahead \in 0 .. MsgLen - 1
      /\ avail \in Nat
      /\ MsgLen \in Nat
      /\ CmdEnd \in 1 .. MsgLen
  BY WireAssumption DEF TypeOK, Untaken
<1>5. msg_cmd' \in Commands
  BY <1>1, <1>3 DEF CommandsIn
<1>6. CASE ahead = 0 /\ avail >= MsgLen
  <2>1. Received = MsgLen
    BY <1>2, <1>4, <1>6
  <2>2. ahead' = 0 /\ msgs' = Tail(msgs)
    BY <1>1, <1>4, <1>6, <2>1
  <2>3. msg_cmd' = Head(msgs)
    BY <1>1, <1>4, <1>6, <2>1 DEF CommandsIn
  <2>4. /\ ~(ahead # 0)
        /\ ahead + avail >= MsgLen
        /\ (ahead # 0)' = (ahead # 0)
    BY <1>4, <1>6, <2>2
  <2>5. (ahead + avail >= MsgLen)' \in {FALSE, msgs' # <<>>}
    BY WholeNext
  <2>6. Channel!Obey
    BY <2>2, <2>3, <2>4, <2>5, Zenon DEF Channel!Obey
  <2> QED
    BY <2>6
<1>7. CASE ahead = 0 /\ avail < MsgLen
  <2>1. Received = avail
    BY <1>2, <1>4, <1>7
  <2>2. ahead' = avail /\ avail' = 0 /\ msgs' = msgs
    BY <1>1, <1>4, <1>7, <2>1
  <2>3. Channel!Split
    BY <1>1, <1>3, <1>4, <1>5, <1>7, <2>2 DEF Channel!Split
  <2> QED
    BY <2>3
<1>8. CASE ahead # 0 /\ ahead + avail < MsgLen
  <2>1. Received = avail
    BY <1>2, <1>4, <1>8
  <2>2. ahead' = ahead + avail /\ avail' = 0 /\ msgs' = msgs
    BY <1>1, <1>4, <1>8, <2>1
  <2>3. ahead' # 0 /\ ~(ahead + avail >= MsgLen) /\ ~(ahead' + avail' >= MsgLen)
    BY <1>4, <1>8, <2>2
  <2>4. /\ (ahead + avail >= MsgLen)' = (ahead + avail >= MsgLen)
        /\ (ahead # 0)' = (ahead # 0)
    BY <1>8, <2>3, SMT
  <2>5. Channel!Stray
    BY <1>5, <1>8, <2>2, <2>3, <2>4, Zenon DEF Channel!Stray
  <2> QED
    BY <2>5
<1>9. CASE ahead # 0 /\ ahead + avail >= MsgLen
  <2>1. ~(ahead + Received < MsgLen)
    BY <1>2, <1>4, <1>9
  <2>2. msgs' = Tail(msgs)
    BY <1>1, <2>1
  <2>3. LostPlaceEnds'
    BY PlaceLemma, PTL
  <2>4. (ahead' # 0) \in {FALSE, msgs' # <<>>}
    <3>1. (ahead' # 0) \in BOOLEAN /\ (msgs' # <<>>) \in BOOLEAN
      BY Zenon
    <3>2. (ahead' # 0) => (msgs' # <<>>)
      BY <2>3 DEF LostPlaceEnds
    <3> QED
      BY <3>1, <3>2, Implied, Zenon
  <2>5. (ahead + avail >= MsgLen)' \in {FALSE, msgs' # <<>>}
    BY WholeNext
  <2>6. Channel!Stray
    BY <1>5, <1>9, <2>2, <2>4, <2>5, Zenon DEF Channel!Stray
  <2> QED
    BY <2>6
<1> QED
  BY <1>4, <1>6, <1>7, <1>8, <1>9

\* Every step maps to a step of the channel or to none.
LEMMA ChannelStep ==
    TypeOK /\ TypeOK' /\ [Next]_vars => [Channel!Next]_(Channel!vars)
<1> SUFFICES ASSUME TypeOK, TypeOK', [Next]_vars
             PROVE  Channel!Next \/ UNCHANGED Channel!vars
  OBVIOUS
<1>1. CASE Connect \/ ReadFails \/ HeadsetCloses \/ HeadsetResets
  BY <1>1 DEF Connect, ReadFails, HeadsetCloses, HeadsetResets, Channel!vars
<1>2. CASE ReadCmd
  BY <1>2, ChannelRead DEF Channel!Next
<1>3. CASE ReadEnd
  <2>1. Channel!NewSession
    BY <1>3, WireAssumption DEF ReadEnd, Channel!NewSession
  <2> QED
    BY <2>1 DEF Channel!Next
<1>4. CASE HeadsetSends
  <2>1. Channel!Send
    BY <1>4 DEF HeadsetSends, Channel!Send
  <2> QED
    BY <2>1 DEF Channel!Next
<1>5. CASE Arrive
  <2>1. /\ avail' > avail
        /\ UNCHANGED <<msgs, ahead, msg_cmd>>
        /\ avail \in Nat /\ avail' \in Nat /\ ahead \in Nat /\ MsgLen \in Nat
    BY <1>5, WireAssumption DEF Arrive, TypeOK, Untaken
  <2>2. CASE ahead' + avail' >= MsgLen
    <3>1. msgs # <<>>
      BY <1>5, <2>1, SomeMessage DEF Arrive, TypeOK, Untaken
    <3>2. Channel!Arrive
      BY <2>1, <2>2, <3>1 DEF Channel!Arrive
    <3> QED
      BY <3>2 DEF Channel!Next
  <2>3. CASE ~(ahead' + avail' >= MsgLen)
    <3>1. ahead' = ahead /\ msgs' = msgs /\ msg_cmd' = msg_cmd
      BY <2>1
    <3>2. ~(ahead + avail >= MsgLen)
      <4>1. ~(ahead + avail' >= MsgLen)
        BY <2>3, <3>1
      <4>2. /\ avail \in Nat /\ avail' \in Nat /\ ahead \in Nat
            /\ MsgLen \in Nat /\ avail' > avail
        BY <2>1
      <4> QED
        BY <4>1, <4>2, StillShort, Zenon
    <3>3. /\ (ahead + avail >= MsgLen)' = (ahead + avail >= MsgLen)
          /\ (ahead # 0)' = (ahead # 0)
      BY <2>3, <3>1, <3>2, SMT
    <3> QED
      BY <3>1, <3>3, Zenon DEF Channel!vars
  <2> QED
    BY <2>2, <2>3
<1>6. CASE UNCHANGED vars
  BY <1>6 DEF vars, Channel!vars
<1> QED
  BY <1>1, <1>2, <1>3, <1>4, <1>5, <1>6 DEF Next, Robot

\* Whatever sizes the pieces have, the commands of a headset are carried out
\* as CmdChannel says: in order, once each, but for messages in pieces.
THEOREM Refinement == Spec => ImplementsChannel
<1>1. Init => Channel!Init
  BY ChannelInit
<1>2. TypeOK /\ TypeOK' /\ [Next]_vars => [Channel!Next]_(Channel!vars)
  BY ChannelStep
<1> QED
  BY <1>1, <1>2, TypeCorrect, PTL DEF Spec, ImplementsChannel, Channel!Spec
=============================================================================
