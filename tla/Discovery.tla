------------------------------ MODULE Discovery ------------------------------
(***************************************************************************)
(* How the programs of this repository come to the headset's address       *)
(* before they connect to it.  NesfrVR::_init first finds the network      *)
(* interface with the configured MAC address (getIPAddrbyHWAddr), then     *)
(* reads the ARP cache for the headset's (findHeadsetIPAddrbyHWAddr) and,  *)
(* while it is not there, has nmap scan the interface's network, reads     *)
(* again, plays a guide and sleeps.  The two demonstration programs read,  *)
(* scan one fixed network once, read again, and give up.                   *)
(*                                                                         *)
(* Around the program the network moves: cards are plugged and unplugged,  *)
(* hosts come, go and change addresses, and the kernel's ARP cache follows *)
(* late, loses entries, and keeps stale ones.                              *)
(*                                                                         *)
(* NesfrVR searches `while (system_on)`, but nobody clears system_on yet:  *)
(* the rover's thread is not started and a signal handler throws.          *)
(***************************************************************************)
EXTENDS Integers

CONSTANTS
    Names,          \* names of network interfaces
    Cards,          \* network cards; a card that is replugged may be renamed
    OwnCard,        \* the card with the MAC address of the configuration
    Addresses,      \* IPv4 addresses
    CardAddress,    \* the address of every card
    Net,            \* the /24 network of every address
    DemoNet,        \* 192.168.0.0/24, which the demonstration programs scan
    DashedNets,     \* networks behind an interface with a "-" in its name
    Headset,        \* the host with headset_A_mac_addr
    Others,         \* the other hosts
    ShellMayFail,   \* popen() fails, or its shell cannot run the command
    GuideMayFail    \* playing an audio guide can fail

NoCard == "no card"
NoName == "no name"
Nobody == "nobody"
Placeholder == "192.168.0.XXX"

Hosts == {Headset} \cup Others

ASSUME DiscoveryAssumption ==
    /\ OwnCard \in Cards
    /\ NoCard \notin Cards
    /\ NoName \notin Names
    /\ Nobody \notin Hosts
    /\ Placeholder \notin Addresses
    /\ CardAddress \in [Cards -> Addresses]
    /\ ShellMayFail \in BOOLEAN
    /\ GuideMayFail \in BOOLEAN

VARIABLES
    program,        \* the program that runs
    pc,             \* the call it is about to make
    rows,           \* what SIOCGIFCONF listed and is not looked at yet
    probed,         \* the card whose MAC address is in `ifr`
    interface_name, \* NesfrVR::interface_name
    ip_addr,        \* the address of that interface
    headset_ip,     \* NesfrVR::headset_ip
    trouble,        \* history: which kind of call has failed
    nic,            \* the card behind every name
    bore,           \* history: the names the own card has had
    place,          \* the host at every address
    arp,            \* the complete entries of the ARP cache
    had             \* history: the addresses the headset has had

own      == <<rows, probed, interface_name, ip_addr>>
cards    == <<nic, bore>>
network  == <<place, arp, had>>

vars == <<program, pc, own, headset_ip, trouble, cards, network>>

Programs == {"NesfrVR", "VideoStreamTest", "video_stream"}

Searching == {"find", "nmap", "refind", "guide"}
Ended     == {"found", "failed", "escaped"}

Row == [name : Names, address : Addresses]

TypeOK ==
    /\ program \in Programs
    /\ pc \in {"list", "probe"} \cup Searching \cup Ended
    /\ rows \subseteq Row
    /\ probed \in Cards \cup {NoCard}
    /\ interface_name \in Names \cup {NoName}
    /\ ip_addr \in Addresses \cup {Placeholder}
    /\ headset_ip \in Addresses \cup {Placeholder}
    /\ trouble \subseteq {"shell", "guide"}
    /\ nic \in [Names -> Cards \cup {NoCard}]
    /\ bore \subseteq Names
    /\ place \in [Addresses -> Hosts \cup {Nobody}]
    /\ arp \in [Addresses -> Hosts \cup {Nobody}]
    /\ had \subseteq Addresses

\* No host has two addresses and no card two names.
OneEach(f, none) ==
    \A x, y \in DOMAIN f : f[x] = f[y] /\ f[x] # none => x = y

Init ==
    /\ program \in Programs
    /\ pc = IF program = "NesfrVR" THEN "list" ELSE "find"
    /\ rows = {}
    /\ probed = NoCard
    /\ interface_name = NoName
    /\ ip_addr = Placeholder
    /\ headset_ip = Placeholder
    /\ trouble = {}
    /\ nic \in {f \in [Names -> Cards \cup {NoCard}] : OneEach(f, NoCard)}
    /\ bore = {n \in Names : nic[n] = OwnCard}
    /\ place \in {f \in [Addresses -> Hosts \cup {Nobody}] : OneEach(f, Nobody)}
    /\ arp = [a \in Addresses |-> Nobody]
    /\ had = {a \in Addresses : place[a] = Headset}

-----------------------------------------------------------------------------
(* getIPAddrbyHWAddr(). *)

\* The rows for the interfaces that are there.  (The loopback interface's row
\* is passed over, and left out here.)
Listing ==
    {[name |-> n, address |-> CardAddress[nic[n]]] :
        n \in {m \in Names : nic[m] # NoCard}}

\* SIOCGIFCONF.
ListInterfaces ==
    /\ pc = "list"
    /\ \/ rows' = Listing /\ pc' = "probe"
       \/ rows' = {} /\ pc' = "failed"
    /\ UNCHANGED <<program, probed, interface_name, ip_addr, headset_ip,
                   trouble, cards, network>>

\* SIOCGIFHWADDR for a name that has gone fails, which nobody looks at: `ifr`
\* still holds the MAC address of the row before.
Answer(row) == IF nic[row.name] = NoCard THEN probed ELSE nic[row.name]

\* Mutant of TakeInterface: the two strings are returned in each other's place.
TakeInterfaceSwapped(row) ==
    /\ interface_name' = row.address
    /\ ip_addr' = row.name
    /\ pc' = "find"

\* The row is the configured interface's.
TakeInterface(row) ==
    /\ interface_name' = row.name
    /\ ip_addr' = row.address
    /\ pc' = "find"

\* Mutant of ProbeInterface: the addresses are compared before the ioctl().
ProbeInterfaceLate ==
    /\ pc = "probe"
    /\ \E row \in rows :
           /\ probed' = Answer(row)
           /\ rows' = rows \ {row}
           /\ IF probed = OwnCard
                THEN TakeInterface(row)
                ELSE UNCHANGED <<interface_name, ip_addr, pc>>
    /\ UNCHANGED <<program, headset_ip, trouble, cards, network>>

\* The next row; their order is the kernel's.
ProbeInterface ==
    /\ pc = "probe"
    /\ \E row \in rows :
           /\ probed' = Answer(row)
           /\ rows' = rows \ {row}
           /\ IF probed' = OwnCard
                THEN TakeInterface(row)
                ELSE UNCHANGED <<interface_name, ip_addr, pc>>
    /\ UNCHANGED <<program, headset_ip, trouble, cards, network>>

\* No interface has the configured address: _init() returns -1.
NoInterface ==
    /\ pc = "probe"
    /\ rows = {}
    /\ pc' = "failed"
    /\ UNCHANGED <<program, own, headset_ip, trouble, cards, network>>

-----------------------------------------------------------------------------
(* findHeadsetIPAddrbyHWAddr(), find_headset_ip_by_MACAddr(). *)

\* strtok() takes "-" for a delimiter: the name of some interfaces is two.
Tokens(a) == IF Net[a] \in DashedNets THEN 6 ELSE 5

\* Mutant of Matches: the MAC address is not compared.
MatchesAny(a) == arp[a] # Nobody /\ Tokens(a) = 5

\* The row of `arp -n` with this address is taken for the headset's.  (An
\* incomplete entry's row has three tokens and is no entry here.)
Matches(a) == arp[a] = Headset /\ Tokens(a) = 5

\* The first row that matches wins; the order of the rows is the kernel's.
FindHit ==
    /\ pc \in {"find", "refind"}
    /\ \E a \in Addresses : Matches(a) /\ headset_ip' = a
    /\ pc' = "found"
    /\ UNCHANGED <<program, own, trouble, cards, network>>

\* Not found: the first time nmap is called, the second time NesfrVR goes on
\* trying and the demonstration programs give up.
AfterMiss ==
    IF pc = "find" THEN "nmap"
    ELSE IF program = "NesfrVR" THEN "guide" ELSE "failed"

\* No row matches, or there are none because the shell could not run arp.
FindMiss ==
    /\ pc \in {"find", "refind"}
    /\ ShellMayFail \/ \A a \in Addresses : ~Matches(a)
    /\ pc' = AfterMiss
    /\ UNCHANGED <<program, own, headset_ip, trouble, cards, network>>

\* popen() fails: `return false`, which is "not found" from the demonstration
\* programs' bool, but 0, and so "found", from NesfrVR's int.
FindFails ==
    /\ pc \in {"find", "refind"}
    /\ ShellMayFail
    /\ trouble' = trouble \cup {"shell"}
    /\ pc' = IF program = "NesfrVR" THEN "found" ELSE AfterMiss
    /\ UNCHANGED <<program, own, headset_ip, cards, network>>

-----------------------------------------------------------------------------
(* call_nmap(), and the guide of NesfrVR. *)

Scanned ==
    {a \in Addresses :
        IF program = "NesfrVR"
          THEN ip_addr \in Addresses /\ Net[a] = Net[ip_addr]
          ELSE Net[a] = DemoNet}

\* nmap runs.  The hosts it hears of come into the ARP cache, and entries of
\* hosts that do not answer go; the headset may or may not be among them.
Scan(heard) ==
    /\ pc = "nmap"
    /\ arp' = [a \in Addresses |-> IF a \in heard THEN place[a] ELSE arp[a]]
    /\ pc' = "refind"
    /\ UNCHANGED <<program, own, headset_ip, trouble, cards, place, had>>

ScanFails ==
    /\ pc = "nmap"
    /\ ShellMayFail
    /\ trouble' = trouble \cup {"shell"}
    /\ pc' = "failed"
    /\ UNCHANGED <<program, own, headset_ip, cards, network>>

\* Mutant of CouldntFindGuide: the next round does not call nmap.
CouldntFindGuideNoScan ==
    /\ pc = "guide"
    /\ pc' = "refind"
    /\ UNCHANGED <<program, own, headset_ip, trouble, cards, network>>

\* Say that there is no headset, sleep and `continue`.
CouldntFindGuide ==
    /\ pc = "guide"
    /\ \/ pc' = "nmap" /\ UNCHANGED trouble
       \/ /\ GuideMayFail
          /\ trouble' = trouble \cup {"guide"}
          /\ pc' = "failed"
    /\ UNCHANGED <<program, own, headset_ip, cards, network>>

\* A signal handler throws; main() of NesfrVR catches it, the demonstration
\* programs search outside of their try blocks.
Signal ==
    /\ pc \notin Ended
    /\ pc' = "escaped"
    /\ UNCHANGED <<program, own, headset_ip, trouble, cards, network>>

-----------------------------------------------------------------------------
(* The network. *)

Unplug(n) ==
    /\ pc \in {"list", "probe"}
    /\ nic[n] # NoCard
    /\ nic' = [nic EXCEPT ![n] = NoCard]
    /\ UNCHANGED <<program, pc, own, headset_ip, trouble, bore, network>>

Plug(card, n) ==
    /\ pc \in {"list", "probe"}
    /\ nic[n] = NoCard
    /\ \A m \in Names : nic[m] # card
    /\ nic' = [nic EXCEPT ![n] = card]
    /\ bore' = IF card = OwnCard THEN bore \cup {n} ELSE bore
    /\ UNCHANGED <<program, pc, own, headset_ip, trouble, network>>

\* A host leaves its address.
Leave(a) ==
    /\ pc \in Searching
    /\ place[a] # Nobody
    /\ place' = [place EXCEPT ![a] = Nobody]
    /\ UNCHANGED <<program, pc, own, headset_ip, trouble, cards, arp, had>>

\* A host that has no address gets one.
Arrive(host, a) ==
    /\ pc \in Searching
    /\ place[a] = Nobody
    /\ \A b \in Addresses : place[b] # host
    /\ place' = [place EXCEPT ![a] = host]
    /\ had' = IF host = Headset THEN had \cup {a} ELSE had
    /\ UNCHANGED <<program, pc, own, headset_ip, trouble, cards, arp>>

\* The kernel resolves an address for whatever reason, or drops an entry.
CacheChanges(a) ==
    /\ pc \in Searching
    /\ \E host \in {place[a], Nobody} : arp' = [arp EXCEPT ![a] = host]
    /\ UNCHANGED <<program, pc, own, headset_ip, trouble, cards, place, had>>

Terminated == pc \in Ended /\ UNCHANGED vars

-----------------------------------------------------------------------------

NetworkMoves ==
    \/ \E n \in Names : Unplug(n) \/ \E card \in Cards : Plug(card, n)
    \/ \E a \in Addresses :
           \/ Leave(a)
           \/ CacheChanges(a)
           \/ \E host \in Hosts : Arrive(host, a)

Program ==
    \/ ListInterfaces
    \/ ProbeInterface
    \/ NoInterface
    \/ FindHit
    \/ FindMiss
    \/ FindFails
    \/ \E heard \in SUBSET Scanned : Scan(heard)
    \/ ScanFails
    \/ CouldntFindGuide

Next == Program \/ Signal \/ NetworkMoves \/ Terminated

Spec == Init /\ [][Next]_vars

\* The headset is where the scan looks, and its row can be recognized.
ReachableAt(a) == place[a] = Headset /\ a \in Scanned /\ Tokens(a) = 5
Reachable == \E a \in Addresses : ReachableAt(a)

ScanHears ==
    \E a \in Addresses :
        ReachableAt(a) /\ \E heard \in SUBSET Scanned : a \in heard /\ Scan(heard)

\* The program runs; a headset that answers is heard by some scan in the end,
\* and some listing is read before its entry is dropped again.
FairSpec ==
    /\ Spec
    /\ WF_vars(Program)
    /\ SF_vars(ScanHears)
    /\ SF_vars(FindHit)

-----------------------------------------------------------------------------
(* Properties. *)

\* The interface that conn() will be bound to has had the configured card, even
\* where a name vanished under the walk and the unchecked ioctl() left the
\* answer of another one (Utils.hpp:131-134).
InterfaceIsOwn == interface_name # NoName => interface_name \in bore

\* The address that is found has been the headset's, however stale the cache
\* and whoever has the address now; the one exception is a popen() that fails
\* in NesfrVR (Utils.hpp:49).
FoundWasHeadset ==
    pc = "found" =>
        \/ headset_ip \in had
        \/ program = "NesfrVR" /\ "shell" \in trouble

\* NesfrVR finds a headset that stays where nmap looks, however late it came
\* and whatever addresses it had before, unless a call fails (NesfrVR.cpp:463).
HeadsetIsFound ==
    program = "NesfrVR" /\ pc \in Searching
        ~> (pc \in {"found", "escaped"} \/ trouble # {} \/ ~Reachable)

\* "- found VR Headset:%s" (Utils.hpp:79), ">> VR Headset ip: %s"
\* (NesfrVR.cpp:482): when the search is over without an error there is an
\* address.
FoundIsAnAddress == pc = "found" => headset_ip # Placeholder
=============================================================================
