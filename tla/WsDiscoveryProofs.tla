-------------------------- MODULE WsDiscoveryProofs --------------------------
(***************************************************************************)
(* What holds of wsdd for any clients, Probes, endpoints and interfaces:   *)
(* the types, that no announcement goes out without a name, and that an    *)
(* answer is never older than its question.                                *)
(***************************************************************************)
EXTENDS WsDiscovery, WellFoundedInduction, TLAPS

-----------------------------------------------------------------------------
(* The address *)

LEMMA AddressesReal == NoAddress \notin Addresses
BY WsddAssumption

LEMMA ListTyped ==
    ASSUME NEW list \in Lists
    PROVE  /\ DOMAIN list = 1..Len(list) /\ Len(list) \in Nat
           /\ \A i \in DOMAIN list : list[i] \in IfAddr
<1>1. list \in Seq(IfAddr)
  BY WsddAssumption
<1>2. QED BY <1>1

\* get_addr_of_if() finds an address of its own interface.
LEMMA FirstUsable ==
    ASSUME NEW list \in Lists, HasAddress(list)
    PROVE  \E i \in DOMAIN list :
              /\ list[i] = [name |-> IfName, af |-> "AF_INET",
                            addr |-> get_addr_of_if(list)]
              /\ get_addr_of_if(list) \in Addresses
<1> DEFINE U == Usable(list)
<1>1. /\ DOMAIN list = 1..Len(list) /\ Len(list) \in Nat
      /\ \A i \in DOMAIN list : list[i] \in IfAddr
  BY ListTyped
<1>2. U \in SUBSET Nat /\ U # {}
  BY <1>1 DEF HasAddress, Usable
<1>3. \E k \in U : \A j \in U : <<j, k>> \notin OpToRel(<, Nat)
  BY <1>2, NatLessThanWellFounded, WFMin
<1>4. \E k \in U : \A j \in U : k <= j
  <2>1. \A j, k \in Nat : j < k => <<j, k>> \in OpToRel(<, Nat)
    BY DEF OpToRel
  <2>2. \A j, k \in Nat : ~(j < k) => k <= j
    OBVIOUS
  <2> HIDE DEF U
  <2>3. QED BY <1>2, <1>3, <2>1, <2>2
<1>5. Min(U) \in U
  BY <1>4 DEF Min
<1>6. get_addr_of_if(list) = list[Min(U)].addr
  BY DEF get_addr_of_if
<1>7. /\ Min(U) \in DOMAIN list /\ list[Min(U)].addr # NoAddress
      /\ list[Min(U)].af = "AF_INET" /\ list[Min(U)].name = IfName
  BY <1>5 DEF Usable
<1>8. list[Min(U)] = [name |-> IfName, af |-> "AF_INET", addr |-> list[Min(U)].addr]
  BY <1>1, <1>7 DEF IfAddr
<1>9. list[Min(U)].addr \in Addresses
  BY <1>1, <1>7 DEF IfAddr
<1> HIDE DEF U
<1>10. QED BY <1>6, <1>7, <1>8, <1>9

\* An interface without a usable entry has no address to be reached at.
LEMMA NoneUsable ==
    ASSUME NEW list \in Lists, ~HasAddress(list), NEW a \in Addresses,
           NEW i \in DOMAIN list
    PROVE  list[i] # [name |-> IfName, af |-> "AF_INET", addr |-> a]
BY AddressesReal DEF HasAddress, Usable

\* get_xaddr() names a host that is right, and one of the hosts there are.
LEMMA XaddrRight ==
    ASSUME NEW list \in Lists
    PROVE  get_xaddr(list) \in RightHosts(list) \cap Hosts
<1>1. CASE ~Template
  BY <1>1 DEF get_xaddr, RightHosts, Hosts
<1>2. CASE Template /\ HasAddress(list)
  <2>1. PICK i \in DOMAIN list :
            /\ list[i] = [name |-> IfName, af |-> "AF_INET",
                          addr |-> get_addr_of_if(list)]
            /\ get_addr_of_if(list) \in Addresses
    BY <1>2, FirstUsable
  <2>2. get_xaddr(list) = get_addr_of_if(list)
    BY <1>2, <2>1, AddressesReal DEF get_xaddr, get_ip_of_if
  <2>3. get_xaddr(list) \in RightHosts(list)
    BY <1>2, <2>1, <2>2 DEF RightHosts
  <2>4. QED BY <2>1, <2>2, <2>3 DEF Hosts
<1>3. CASE Template /\ ~HasAddress(list)
  <2>1. get_xaddr(list) = Loopback
    BY <1>3 DEF get_xaddr, get_ip_of_if, get_addr_of_if
  <2>2. {a \in Addresses : \E i \in DOMAIN list :
            list[i] = [name |-> IfName, af |-> "AF_INET", addr |-> a]} = {}
    BY <1>3, NoneUsable
  <2>3. RightHosts(list) = {Loopback}
    BY <1>3, <2>2 DEF RightHosts
  <2>4. QED BY <2>1, <2>3 DEF Hosts
<1>4. QED BY <1>1, <1>2, <1>3

LEMMA RightAreHosts ==
    ASSUME NEW list \in Lists
    PROVE  RightHosts(list) \subseteq Hosts
BY DEF RightHosts, Hosts

-----------------------------------------------------------------------------
(* Types *)

LEMMA DatagramKinds ==
    ASSUME NEW m \in Datagram
    PROVE  /\ m.type \in {"Probe", "ProbeMatches", "Hello", "Bye"}
           /\ m.type \in {"Probe", "ProbeMatches"} => m.id \in Probes
           /\ m.type # "Probe" => /\ m.endpoint \in Endpoints \cup {NoEndpoint}
                                  /\ m.xaddr \in Hosts
           /\ m.type \in {"Hello", "Bye"} => m.to \in Clients
BY DEF Datagram

\* A multicast datagram is a copy of the same message for every client.
LEMMA MulticastCopies ==
    ASSUME NEW type \in {"Hello", "Bye"}, NEW e \in Endpoints \cup {NoEndpoint},
           ifaddrs \in Lists, Multicast(type, e), NEW m \in net', m \notin net
    PROVE  m \in Datagram /\ m.type = type /\ m.endpoint = e
<1>1. m \in [type : {type}, to : Clients, endpoint : {e},
             xaddr : {get_xaddr(ifaddrs)}]
  BY DEF Multicast
<1>2. get_xaddr(ifaddrs) \in Hosts
  BY XaddrRight
<1>3. QED BY <1>1, <1>2 DEF Datagram

LEMMA HeardTyped ==
    ASSUME TypeOK, NEW m \in net, m.type # "Probe", Heard(m)
    PROVE  view' \in [Clients -> [Endpoints -> Hosts \cup {Unknown}]]
<1> DEFINE c == IF m.type = "ProbeMatches" THEN m.id[1] ELSE m.to
           h == IF m.type = "Bye" THEN Unknown ELSE m.xaddr
<1>1. m \in Datagram /\ view \in [Clients -> [Endpoints -> Hosts \cup {Unknown}]]
  BY DEF TypeOK
<1>2. c \in Clients
  BY <1>1, DatagramKinds DEF Probes
<1>3. h \in Hosts \cup {Unknown}
  BY <1>1, DatagramKinds
<1>4. CASE m.endpoint = NoEndpoint
  BY <1>1, <1>4 DEF Heard
<1>5. CASE m.endpoint # NoEndpoint
  <2>1. m.endpoint \in Endpoints
    BY <1>1, <1>5, DatagramKinds
  <2>2. view' = [view EXCEPT ![c][m.endpoint] = h]
    BY <1>5 DEF Heard
  <2> HIDE DEF c, h
  <2>3. QED BY <1>1, <1>2, <1>3, <2>1, <2>2
<1>6. QED BY <1>4, <1>5

LEMMA EndpointTyped == Endpoint \in Endpoints \cup {NoEndpoint}
BY WsddAssumption

LEMMA ChangesBounded == 0 \in 0..MaxChanges
BY WsddAssumption

LEMMA TypeInit == Init => TypeOK
BY EndpointTyped, ChangesBounded DEF Init, TypeOK, HandlerPCs, InitPCs

LEMMA TypeDies ==
    ASSUME TypeOK, Dies, UNCHANGED <<ifaddrs, changes, used, net, view, since>>
    PROVE  TypeOK'
BY EndpointTyped DEF TypeOK, Dies

LEMMA TypeDaemon ==
    ASSUME TypeOK, Launch \/ DaemonStep \/ SigTerm \/ Killed
    PROVE  TypeOK'
<1>1. CASE Launch
  BY <1>1 DEF TypeOK, Launch, InitPCs
<1>2. CASE BindPort
  BY <1>2 DEF TypeOK, BindPort, InitPCs
<1>3. CASE JoinGroup
  BY <1>3 DEF TypeOK, JoinGroup, InitPCs
<1>4. CASE InitFails
  BY <1>4, TypeDies DEF InitFails
<1>5. CASE get_endpoint
  BY <1>5 DEF TypeOK, get_endpoint, InitPCs
<1>6. CASE send_hello
  <2>1. CASE Multicast("Hello", endpoint)
    <3>1. net' \subseteq Datagram
      BY <2>1, MulticastCopies DEF TypeOK
    <3>2. QED BY <1>6, <3>1 DEF TypeOK, send_hello, InitPCs
  <2>2. CASE net' = net
    BY <1>6, <2>2 DEF TypeOK, send_hello, InitPCs
  <2>3. QED BY <1>6, <2>1, <2>2 DEF send_hello
<1>7. CASE soap_wsdd_ProbeMatches
  <2>1. /\ answer \in [id : Probes, xaddr : Hosts]
        /\ endpoint \in Endpoints \cup {NoEndpoint}
    BY <1>7 DEF TypeOK, soap_wsdd_ProbeMatches
  <2>2. [type |-> "ProbeMatches", id |-> answer.id, endpoint |-> endpoint,
         xaddr |-> answer.xaddr] \in Datagram
    BY <2>1 DEF Datagram
  <2>3. QED BY <1>7, <2>2 DEF TypeOK, soap_wsdd_ProbeMatches
<1>8. CASE ListenEnds
  BY <1>8 DEF TypeOK, ListenEnds, HandlerPCs
<1>9. CASE send_bye
  <2>1. CASE Multicast("Bye", endpoint)
    <3>1. net' \subseteq Datagram
      BY <2>1, MulticastCopies DEF TypeOK
    <3>2. QED BY <1>9, <3>1 DEF TypeOK, send_bye, HandlerPCs
  <2>2. CASE net' = net
    BY <1>9, <2>2 DEF TypeOK, send_bye, HandlerPCs
  <2>3. QED BY <1>9, <2>1, <2>2 DEF send_bye
<1>10. CASE free_resources
  BY <1>10, TypeDies DEF free_resources
<1>11. CASE SigTerm
  <2>1. CASE soap
    BY <1>11, <2>1 DEF TypeOK, SigTerm, HandlerPCs
  <2>2. CASE ~soap
    BY <1>11, <2>2, TypeDies DEF SigTerm
  <2>3. QED BY <2>1, <2>2
<1>12. CASE Killed
  BY <1>12, TypeDies DEF Killed
<1>13. QED
  BY <1>1, <1>2, <1>3, <1>4, <1>5, <1>6, <1>7, <1>8, <1>9, <1>10, <1>11,
     <1>12 DEF DaemonStep

LEMMA TypeProbe ==
    ASSUME TypeOK, NEW m \in net, wsdd_event_Probe(m), net' \subseteq net
    PROVE  TypeOK'
<1>1. m.id \in Probes
  BY DatagramKinds DEF TypeOK, wsdd_event_Probe
<1>2. get_xaddr(ifaddrs) \in Hosts
  BY XaddrRight DEF TypeOK
<1>3. answer' \in [id : Probes, xaddr : Hosts]
  BY <1>1, <1>2 DEF wsdd_event_Probe
<1>4. QED BY <1>3 DEF TypeOK, wsdd_event_Probe

LEMMA TypeHears ==
    ASSUME TypeOK, NEW m \in net, ClientHears(m), net' \subseteq net
    PROVE  TypeOK'
BY HeardTyped DEF TypeOK, ClientHears, daemonVars

LEMMA TypeNetwork ==
    ASSUME TypeOK,
           \/ ProbeArrives \/ Duplicate \/ Lose \/ AddressChanges
           \/ \E p \in Probes : SendProbe(p)
           \/ \E c \in Clients : MessageArrives(c)
    PROVE  TypeOK'
<1>1. CASE ProbeArrives
  BY <1>1, TypeProbe DEF ProbeArrives
<1>2. CASE Duplicate
  BY <1>2, TypeProbe, TypeHears DEF Duplicate
<1>3. CASE Lose
  BY <1>3 DEF TypeOK, Lose, daemonVars
<1>4. CASE AddressChanges
  <2>1. PICK l \in Lists :
            /\ ifaddrs' = l
            /\ since' = [p \in Probes |-> since[p] \cup RightHosts(l)]
    BY <1>4 DEF AddressChanges
  <2>2. RightHosts(l) \subseteq Hosts
    BY RightAreHosts
  <2>3. since' \in [Probes -> SUBSET Hosts]
    BY <2>1, <2>2 DEF TypeOK
  <2>4. changes' \in 0..MaxChanges
    BY <1>4, WsddAssumption DEF TypeOK, AddressChanges
  <2>5. QED BY <1>4, <2>1, <2>3, <2>4 DEF TypeOK, AddressChanges, daemonVars
<1>5. ASSUME NEW p \in Probes, SendProbe(p)
      PROVE  TypeOK'
  <2>1. [type |-> "Probe", id |-> p] \in Datagram
    BY DEF Datagram
  <2>2. RightHosts(ifaddrs) \subseteq Hosts
    BY RightAreHosts DEF TypeOK
  <2>3. since' \in [Probes -> SUBSET Hosts]
    BY <1>5, <2>2 DEF TypeOK, SendProbe
  <2>4. QED BY <1>5, <2>1, <2>3 DEF TypeOK, SendProbe, daemonVars
<1>6. ASSUME NEW c \in Clients, MessageArrives(c)
      PROVE  TypeOK'
  BY <1>6, TypeHears DEF MessageArrives
<1>7. QED BY <1>1, <1>2, <1>3, <1>4, <1>5, <1>6

\* Everything wsdd, its clients and the network hold stays of its type.
THEOREM TypeCorrect == Spec => []TypeOK
<1>1. Init => TypeOK
  BY TypeInit
<1>2. TypeOK /\ [Next]_vars => TypeOK'
  <2>1. ASSUME TypeOK, UNCHANGED vars PROVE TypeOK'
    BY <2>1 DEF TypeOK, vars, daemonVars
  <2>2. QED BY <2>1, TypeDaemon, TypeNetwork DEF Next
<1>3. QED BY <1>1, <1>2, PTL DEF Spec

-----------------------------------------------------------------------------
(* Announcements have a name *)

\* What listens has sent its Hello, or is a handler; what got that far drew its
\* endpoint before.
NamedInv ==
    /\ pc \in {"hello", "hello_listen", "loop"} => endpoint \in Endpoints
    /\ answer # NoAnswer => pc \in ListenPCs
    /\ \A m \in net : m.type = "Hello" => m.endpoint \in Endpoints

LEMMA NamedImplies == NamedInv => NamedAnnouncements
BY DEF NamedInv, NamedAnnouncements, ListenPCs, InHandler, HandlerPCs

LEMMA NamedDaemon ==
    ASSUME TypeOK, NamedInv, Launch \/ DaemonStep \/ SigTerm \/ Killed
    PROVE  NamedInv'
<1>1. CASE Launch
  BY <1>1 DEF NamedInv, Launch, ListenPCs
<1>2. CASE BindPort
  BY <1>2 DEF NamedInv, BindPort, ListenPCs
<1>3. CASE JoinGroup
  BY <1>3 DEF NamedInv, JoinGroup, ListenPCs
<1>4. CASE InitFails
  BY <1>4 DEF NamedInv, InitFails, Dies
<1>5. CASE get_endpoint
  BY <1>5 DEF TypeOK, NamedInv, get_endpoint, ListenPCs
<1>6. CASE send_hello
  <2>1. endpoint \in Endpoints /\ endpoint' = endpoint /\ pc' \in {"hello_listen", "loop"}
    BY <1>6 DEF NamedInv, send_hello
  <2>2. \A m \in net' : m \in net \/ m.endpoint = endpoint
    BY <1>6, MulticastCopies DEF TypeOK, send_hello
  <2>3. QED BY <1>6, <2>1, <2>2 DEF NamedInv, send_hello, ListenPCs
<1>7. CASE soap_wsdd_ProbeMatches
  BY <1>7 DEF NamedInv, soap_wsdd_ProbeMatches
<1>8. CASE ListenEnds
  BY <1>8 DEF NamedInv, ListenEnds
<1>9. CASE send_bye
  <2>1. \A m \in net' : m \in net \/ m.type = "Bye"
    BY <1>9, MulticastCopies DEF TypeOK, send_bye
  <2>2. QED BY <1>9, <2>1 DEF NamedInv, send_bye, ListenPCs
<1>10. CASE free_resources
  BY <1>10 DEF NamedInv, free_resources, Dies
<1>11. CASE SigTerm
  BY <1>11 DEF NamedInv, SigTerm, Dies
<1>12. CASE Killed
  BY <1>12 DEF NamedInv, Killed, Dies
<1>13. QED
  BY <1>1, <1>2, <1>3, <1>4, <1>5, <1>6, <1>7, <1>8, <1>9, <1>10, <1>11,
     <1>12 DEF DaemonStep

LEMMA NamedNetwork ==
    ASSUME TypeOK, NamedInv,
           \/ ProbeArrives \/ Duplicate \/ Lose \/ AddressChanges
           \/ \E p \in Probes : SendProbe(p)
           \/ \E c \in Clients : MessageArrives(c)
    PROVE  NamedInv'
<1>1. CASE ProbeArrives
  BY <1>1 DEF NamedInv, ProbeArrives, wsdd_event_Probe
<1>2. CASE Duplicate
  BY <1>2 DEF NamedInv, Duplicate, wsdd_event_Probe, ClientHears, daemonVars
<1>3. CASE Lose
  BY <1>3 DEF NamedInv, Lose, daemonVars
<1>4. CASE AddressChanges
  BY <1>4 DEF NamedInv, AddressChanges, daemonVars
<1>5. ASSUME NEW p \in Probes, SendProbe(p)
      PROVE  NamedInv'
  BY <1>5 DEF NamedInv, SendProbe, daemonVars
<1>6. ASSUME NEW c \in Clients, MessageArrives(c)
      PROVE  NamedInv'
  BY <1>6 DEF NamedInv, MessageArrives, ClientHears, daemonVars
<1>7. QED BY <1>1, <1>2, <1>3, <1>4, <1>5, <1>6

\* No Hello and, outside the handler, no answer goes out before get_endpoint().
THEOREM AnnouncementsNamed == Spec => []NamedAnnouncements
<1>1. Init => NamedInv
  BY DEF Init, NamedInv
<1>2. TypeOK /\ NamedInv /\ [Next]_vars => NamedInv'
  <2>1. ASSUME NamedInv, UNCHANGED vars PROVE NamedInv'
    BY <2>1 DEF NamedInv, vars, daemonVars
  <2>2. QED BY <2>1, NamedDaemon, NamedNetwork DEF Next
<1>3. QED BY <1>1, <1>2, TypeCorrect, NamedImplies, PTL DEF Spec

-----------------------------------------------------------------------------
(* An answer is never older than its question *)

\* A Probe under way counts where the daemon can be reached now as right.
FreshInv ==
    /\ FreshAnswer
    /\ \A m \in net : m.type = "Probe" => RightHosts(ifaddrs) \subseteq since[m.id]

\* What leaves the Probes and the addresses alone and sends no ProbeMatches.
LEMMA FreshKept ==
    ASSUME FreshInv, UNCHANGED <<ifaddrs, since>>, answer' \in {answer, NoAnswer},
           \A m \in net' : m \in net \/ m.type \in {"Hello", "Bye"}
    PROVE  FreshInv'
BY DEF FreshInv, FreshAnswer

LEMMA FreshProbe ==
    ASSUME TypeOK, FreshInv, NEW m \in net, wsdd_event_Probe(m), net' \subseteq net
    PROVE  FreshInv'
<1>1. get_xaddr(ifaddrs) \in since[m.id]
  BY XaddrRight DEF TypeOK, FreshInv, wsdd_event_Probe
<1>2. answer'.id = m.id /\ answer'.xaddr = get_xaddr(ifaddrs)
  BY DEF wsdd_event_Probe
<1>3. QED BY <1>1, <1>2 DEF FreshInv, FreshAnswer, wsdd_event_Probe

LEMMA FreshDaemon ==
    ASSUME TypeOK, FreshInv, Launch \/ DaemonStep \/ SigTerm \/ Killed
    PROVE  FreshInv'
<1>1. CASE Launch
  BY <1>1, FreshKept DEF Launch
<1>2. CASE BindPort
  BY <1>2, FreshKept DEF BindPort
<1>3. CASE JoinGroup
  BY <1>3, FreshKept DEF JoinGroup
<1>4. CASE InitFails
  BY <1>4, FreshKept DEF InitFails, Dies
<1>5. CASE get_endpoint
  BY <1>5, FreshKept DEF get_endpoint
<1>6. CASE send_hello
  <2>1. \A m \in net' : m \in net \/ m.type = "Hello"
    BY <1>6, MulticastCopies DEF TypeOK, send_hello
  <2>2. QED BY <1>6, <2>1, FreshKept DEF send_hello
<1>7. CASE soap_wsdd_ProbeMatches
  BY <1>7 DEF FreshInv, FreshAnswer, soap_wsdd_ProbeMatches
<1>8. CASE ListenEnds
  BY <1>8, FreshKept DEF ListenEnds
<1>9. CASE send_bye
  <2>1. \A m \in net' : m \in net \/ m.type = "Bye"
    BY <1>9, MulticastCopies DEF TypeOK, send_bye
  <2>2. QED BY <1>9, <2>1, FreshKept DEF send_bye
<1>10. CASE free_resources
  BY <1>10, FreshKept DEF free_resources, Dies
<1>11. CASE SigTerm
  BY <1>11, FreshKept DEF SigTerm, Dies
<1>12. CASE Killed
  BY <1>12, FreshKept DEF Killed, Dies
<1>13. QED
  BY <1>1, <1>2, <1>3, <1>4, <1>5, <1>6, <1>7, <1>8, <1>9, <1>10, <1>11,
     <1>12 DEF DaemonStep

LEMMA FreshNetwork ==
    ASSUME TypeOK, FreshInv,
           \/ ProbeArrives \/ Duplicate \/ Lose \/ AddressChanges
           \/ \E p \in Probes : SendProbe(p)
           \/ \E c \in Clients : MessageArrives(c)
    PROVE  FreshInv'
<1>1. CASE ProbeArrives
  BY <1>1, FreshProbe DEF ProbeArrives
<1>2. CASE Duplicate
  <2>1. ASSUME NEW m \in net, ClientHears(m), net' = net
        PROVE  FreshInv'
    BY <2>1, FreshKept DEF ClientHears, daemonVars
  <2>2. QED BY <1>2, <2>1, FreshProbe DEF Duplicate
<1>3. CASE Lose
  BY <1>3, FreshKept DEF Lose, daemonVars
<1>4. CASE AddressChanges
  <2>1. PICK l \in Lists :
            /\ ifaddrs' = l
            /\ since' = [p \in Probes |-> since[p] \cup RightHosts(l)]
    BY <1>4 DEF AddressChanges
  <2>2. \A p \in Probes : since[p] \cup RightHosts(ifaddrs') \subseteq since'[p]
    BY <2>1
  <2>3. \A m \in net : m.type \in {"Probe", "ProbeMatches"} => m.id \in Probes
    BY DatagramKinds DEF TypeOK
  <2>4. answer # NoAnswer => answer.id \in Probes
    BY DEF TypeOK
  <2>5. net' = net /\ answer' = answer
    BY <1>4 DEF AddressChanges, daemonVars
  <2>6. QED BY <2>2, <2>3, <2>4, <2>5 DEF FreshInv, FreshAnswer
<1>5. ASSUME NEW p \in Probes, SendProbe(p)
      PROVE  FreshInv'
  <2>1. /\ net' = net \cup {[type |-> "Probe", id |-> p]}
        /\ since' = [since EXCEPT ![p] = RightHosts(ifaddrs)]
        /\ UNCHANGED <<ifaddrs, answer>>
        /\ \A m \in net : m.type \in {"Probe", "ProbeMatches"} => m.id # p
        /\ answer # NoAnswer => answer.id # p
    BY <1>5 DEF SendProbe, daemonVars
  <2>2. /\ since'[p] = RightHosts(ifaddrs)
        /\ \A r \in Probes \ {p} : since'[r] = since[r]
    BY <2>1 DEF TypeOK
  <2>3. \A m \in net : m.type \in {"Probe", "ProbeMatches"} => m.id \in Probes
    BY DatagramKinds DEF TypeOK
  <2>4. answer # NoAnswer => answer.id \in Probes
    BY DEF TypeOK
  <2>5. QED BY <2>1, <2>2, <2>3, <2>4 DEF FreshInv, FreshAnswer
<1>6. ASSUME NEW c \in Clients, MessageArrives(c)
      PROVE  FreshInv'
  BY <1>6, FreshKept DEF MessageArrives, ClientHears, daemonVars
<1>7. QED BY <1>1, <1>2, <1>3, <1>4, <1>5, <1>6

\* Every ProbeMatches names a host that was right since its Probe was sent.
THEOREM AnswersFresh == Spec => []FreshAnswer
<1>1. Init => FreshInv
  BY DEF Init, FreshInv, FreshAnswer
<1>2. TypeOK /\ FreshInv /\ [Next]_vars => FreshInv'
  <2>1. ASSUME FreshInv, UNCHANGED vars PROVE FreshInv'
    BY <2>1 DEF FreshInv, FreshAnswer, vars, daemonVars
  <2>2. QED BY <2>1, FreshDaemon, FreshNetwork DEF Next
<1>3. FreshInv => FreshAnswer
  BY DEF FreshInv
<1>4. QED BY <1>1, <1>2, <1>3, TypeCorrect, PTL DEF Spec
=============================================================================
