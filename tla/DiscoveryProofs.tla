--------------------------- MODULE DiscoveryProofs ---------------------------
(***************************************************************************)
(* Proofs about Discovery, for any interfaces, cards, addresses and hosts. *)
(*                                                                         *)
(* Two facts carry them.  The history variables bound what the kernel can  *)
(* say: a name answers with the own card only if it has had it, and an     *)
(* ARP entry names the headset only at an address the headset has had      *)
(* (Bounded).  And the answer left over in `ifr` is never the own card's,  *)
(* because the walk ends with the first one that is (Leftover): that is    *)
(* why the unchecked ioctl() does no harm.                                 *)
(***************************************************************************)
EXTENDS Discovery, TLAPS

Bounded ==
    /\ \A n \in Names : nic[n] = OwnCard => n \in bore
    /\ \A a \in Addresses : Headset \in {place[a], arp[a]} => a \in had

Leftover == pc \in {"list", "probe"} => probed # OwnCard

IInv == TypeOK /\ Bounded /\ Leftover /\ InterfaceIsOwn /\ FoundWasHeadset

\* A card or none answers the ioctl(); if it is the own card, the own card is
\* behind the name now, unless it already answered for an earlier row.
LEMMA AnswerLemma ==
    ASSUME TypeOK, NEW row \in rows
    PROVE  /\ Answer(row) \in Cards \cup {NoCard}
           /\ row.name \in Names
           /\ row.address \in Addresses
           /\ Answer(row) = OwnCard => nic[row.name] = OwnCard \/ probed = OwnCard
<1>1. row \in Row
  BY DEF TypeOK
<1>2. row.name \in Names /\ row.address \in Addresses
  BY <1>1 DEF Row
<1> QED
  BY <1>2 DEF TypeOK, Answer

-----------------------------------------------------------------------------
(* Type correctness. *)

\* The initial states are well typed.
LEMMA TypeInit == Init => TypeOK
BY DiscoveryAssumption
DEF Init, TypeOK, Programs, Searching, Ended, Hosts

\* The calls of the program keep the types.
LEMMA TypeProgram == TypeOK /\ Program => TypeOK'
<1> SUFFICES ASSUME TypeOK, Program PROVE TypeOK'
  OBVIOUS
<1> USE DEF TypeOK, Searching, Ended, own, cards, network
<1>1. CASE ListInterfaces
  <2>1. Listing \subseteq Row
    BY DiscoveryAssumption DEF Listing, Row
  <2> QED
    BY <1>1, <2>1 DEF ListInterfaces
<1>2. CASE ProbeInterface
  <2>1. PICK row \in rows :
            /\ probed' = Answer(row)
            /\ rows' = rows \ {row}
            /\ IF probed' = OwnCard
                 THEN TakeInterface(row)
                 ELSE UNCHANGED <<interface_name, ip_addr, pc>>
    BY <1>2 DEF ProbeInterface
  <2>2. /\ Answer(row) \in Cards \cup {NoCard}
        /\ row.name \in Names
        /\ row.address \in Addresses
    BY AnswerLemma
  <2> QED
    BY <1>2, <2>1, <2>2 DEF ProbeInterface, TakeInterface
<1>3. CASE NoInterface
  BY <1>3 DEF NoInterface
<1>4. CASE FindHit
  BY <1>4 DEF FindHit
<1>5. CASE FindMiss
  BY <1>5 DEF FindMiss, AfterMiss
<1>6. CASE FindFails
  BY <1>6 DEF FindFails, AfterMiss
<1>7. ASSUME NEW heard \in SUBSET Scanned, Scan(heard) PROVE TypeOK'
  BY <1>7 DEF Scan
<1>8. CASE ScanFails
  BY <1>8 DEF ScanFails
<1>9. CASE CouldntFindGuide
  BY <1>9 DEF CouldntFindGuide
<1> QED
  BY <1>1, <1>2, <1>3, <1>4, <1>5, <1>6, <1>7, <1>8, <1>9 DEF Program

\* What the network does keeps the types.
LEMMA TypeNetwork == TypeOK /\ NetworkMoves => TypeOK'
<1> SUFFICES ASSUME TypeOK, NetworkMoves PROVE TypeOK'
  OBVIOUS
<1> USE DEF TypeOK, own, cards, network
<1>1. ASSUME NEW n \in Names, Unplug(n) PROVE TypeOK'
  BY <1>1 DEF Unplug
<1>2. ASSUME NEW n \in Names, NEW card \in Cards, Plug(card, n) PROVE TypeOK'
  BY <1>2 DEF Plug
<1>3. ASSUME NEW a \in Addresses, Leave(a) PROVE TypeOK'
  BY <1>3 DEF Leave
<1>4. ASSUME NEW a \in Addresses, CacheChanges(a) PROVE TypeOK'
  BY <1>4 DEF CacheChanges
<1>5. ASSUME NEW a \in Addresses, NEW host \in Hosts, Arrive(host, a)
      PROVE  TypeOK'
  BY <1>5 DEF Arrive
<1> QED
  BY <1>1, <1>2, <1>3, <1>4, <1>5 DEF NetworkMoves

\* Every step keeps the types.
LEMMA TypeStep == TypeOK /\ [Next]_vars => TypeOK'
<1> SUFFICES ASSUME TypeOK, [Next]_vars PROVE TypeOK'
  OBVIOUS
<1>1. CASE Signal
  BY <1>1 DEF Signal, TypeOK, Ended, own, cards, network
<1>2. CASE UNCHANGED vars
  BY <1>2 DEF vars, TypeOK, own, cards, network
<1> QED
  BY <1>1, <1>2, TypeProgram, TypeNetwork DEF Next, Terminated

-----------------------------------------------------------------------------
(* The invariant. *)

\* It holds at the start.
LEMMA InvInit == Init => IInv
<1> SUFFICES ASSUME Init PROVE IInv
  OBVIOUS
<1>1. TypeOK
  BY TypeInit
<1>2. Bounded
  BY DiscoveryAssumption DEF Init, Bounded, Hosts
<1>3. Leftover
  BY DiscoveryAssumption DEF Init, Leftover
<1>4. InterfaceIsOwn /\ FoundWasHeadset
  BY DEF Init, InterfaceIsOwn, FoundWasHeadset
<1> QED
  BY <1>1, <1>2, <1>3, <1>4 DEF IInv

\* The walk over the interfaces keeps it.
LEMMA InvProbe == IInv /\ ProbeInterface => IInv'
<1> SUFFICES ASSUME IInv, ProbeInterface PROVE IInv'
  OBVIOUS
<1>1. PICK row \in rows :
          /\ probed' = Answer(row)
          /\ rows' = rows \ {row}
          /\ IF probed' = OwnCard
               THEN TakeInterface(row)
               ELSE UNCHANGED <<interface_name, ip_addr, pc>>
  BY DEF ProbeInterface
<1>2. TypeOK'
  BY TypeProgram DEF IInv, Program
<1>3. /\ row.name \in Names
      /\ Answer(row) = OwnCard => nic[row.name] = OwnCard
  BY AnswerLemma DEF IInv, Leftover, ProbeInterface
<1>4. Bounded'
  BY DEF IInv, Bounded, ProbeInterface, cards, network
<1>5. Leftover'
  BY <1>1 DEF Leftover, TakeInterface
<1>6. InterfaceIsOwn'
  <2>1. CASE probed' = OwnCard
    BY <1>1, <1>3, <2>1
    DEF IInv, Bounded, InterfaceIsOwn, TakeInterface, ProbeInterface, cards
  <2>2. CASE probed' # OwnCard
    BY <1>1, <2>2 DEF IInv, InterfaceIsOwn, ProbeInterface, cards
  <2> QED
    BY <2>1, <2>2
<1>7. FoundWasHeadset'
  BY <1>1 DEF FoundWasHeadset, TakeInterface, ProbeInterface
<1> QED
  BY <1>2, <1>4, <1>5, <1>6, <1>7 DEF IInv

\* The search keeps it.
LEMMA InvSearch ==
    ASSUME IInv,
           \/ ListInterfaces
           \/ NoInterface
           \/ FindHit
           \/ FindMiss
           \/ FindFails
           \/ \E heard \in SUBSET Scanned : Scan(heard)
           \/ ScanFails
           \/ CouldntFindGuide
           \/ Signal
    PROVE  IInv'
<1> USE DEF own, cards, network
<1>1. TypeOK'
  BY TypeStep DEF IInv, Next, Program
<1>2. Bounded'
  <2>1. ASSUME NEW heard \in SUBSET Scanned, Scan(heard) PROVE Bounded'
    BY <2>1 DEF IInv, TypeOK, Bounded, Scan
  <2> QED
    BY <2>1 DEF IInv, Bounded, ListInterfaces, NoInterface, FindHit, FindMiss,
                FindFails, ScanFails, CouldntFindGuide, Signal
<1>3. Leftover'
  BY DEF IInv, Leftover, ListInterfaces, NoInterface, FindHit, FindMiss,
         FindFails, AfterMiss, Scan, ScanFails, CouldntFindGuide, Signal
<1>4. InterfaceIsOwn'
  BY DEF IInv, InterfaceIsOwn, ListInterfaces, NoInterface, FindHit, FindMiss,
         FindFails, Scan, ScanFails, CouldntFindGuide, Signal
<1>5. FoundWasHeadset'
  <2>1. CASE FindHit
    BY <2>1 DEF IInv, Bounded, FoundWasHeadset, FindHit, Matches
  <2>2. CASE FindFails
    BY <2>2 DEF FoundWasHeadset, FindFails, AfterMiss
  <2> QED
    BY <2>1, <2>2
    DEF FoundWasHeadset, ListInterfaces, NoInterface, FindMiss, AfterMiss,
        Scan, ScanFails, CouldntFindGuide, Signal
<1> QED
  BY <1>1, <1>2, <1>3, <1>4, <1>5 DEF IInv

\* The network keeps it.
LEMMA InvNetwork == IInv /\ NetworkMoves => IInv'
<1> SUFFICES ASSUME IInv, NetworkMoves PROVE IInv'
  OBVIOUS
<1> USE DEF own, cards, network
<1>1. TypeOK'
  BY TypeNetwork DEF IInv
<1>2. Bounded'
  <2> USE DEF IInv, TypeOK, Bounded
  <2>1. ASSUME NEW n \in Names, Unplug(n) PROVE Bounded'
    BY <2>1, DiscoveryAssumption DEF Unplug
  <2>2. ASSUME NEW n \in Names, NEW card \in Cards, Plug(card, n)
        PROVE  Bounded'
    BY <2>2 DEF Plug
  <2>3. ASSUME NEW a \in Addresses, Leave(a) PROVE Bounded'
    BY <2>3, DiscoveryAssumption DEF Leave, Hosts
  <2>4. ASSUME NEW a \in Addresses, CacheChanges(a) PROVE Bounded'
    BY <2>4, DiscoveryAssumption DEF CacheChanges, Hosts
  <2>5. ASSUME NEW a \in Addresses, NEW host \in Hosts, Arrive(host, a)
        PROVE  Bounded'
    BY <2>5 DEF Arrive
  <2> QED
    BY <2>1, <2>2, <2>3, <2>4, <2>5 DEF NetworkMoves
<1>3. /\ pc' = pc
      /\ UNCHANGED own
      /\ UNCHANGED <<program, headset_ip, trouble>>
      /\ bore \subseteq bore'
      /\ had \subseteq had'
  BY DEF NetworkMoves, Unplug, Plug, Leave, CacheChanges, Arrive
<1>4. Leftover' /\ InterfaceIsOwn' /\ FoundWasHeadset'
  BY <1>3 DEF IInv, Leftover, InterfaceIsOwn, FoundWasHeadset
<1> QED
  BY <1>1, <1>2, <1>4 DEF IInv

\* Every step keeps it.
LEMMA InvStep == IInv /\ [Next]_vars => IInv'
<1> SUFFICES ASSUME IInv, [Next]_vars PROVE IInv'
  OBVIOUS
<1>1. CASE UNCHANGED vars
  BY <1>1 DEF vars, own, cards, network, IInv, TypeOK, Bounded, Leftover,
              InterfaceIsOwn, FoundWasHeadset
<1> QED
  BY <1>1, InvProbe, InvSearch, InvNetwork DEF Next, Program, Terminated

-----------------------------------------------------------------------------
(* Theorems. *)

\* The variables of the search and of the network stay within their types.
THEOREM TypeCorrect == Spec => []TypeOK
<1>1. Init => TypeOK
  BY TypeInit
<1>2. TypeOK /\ [Next]_vars => TypeOK'
  BY TypeStep
<1> QED
  BY <1>1, <1>2, PTL DEF Spec

\* The invariant of the proofs.
THEOREM Invariance == Spec => []IInv
<1>1. Init => IInv
  BY InvInit
<1>2. IInv /\ [Next]_vars => IInv'
  BY InvStep
<1> QED
  BY <1>1, <1>2, PTL DEF Spec

\* getIPAddrbyHWAddr() gives an interface that has had the configured card,
\* whatever is plugged in and out during its walk.
THEOREM RightInterface == Spec => []InterfaceIsOwn
<1>1. IInv => InterfaceIsOwn
  BY DEF IInv
<1> QED
  BY <1>1, Invariance, PTL

\* The address found has been the headset's, or NesfrVR's popen() failed.
THEOREM RightHeadset == Spec => []FoundWasHeadset
<1>1. IInv => FoundWasHeadset
  BY DEF IInv
<1> QED
  BY <1>1, Invariance, PTL
=============================================================================
