----------------------------- MODULE WsDiscovery -----------------------------
(***************************************************************************)
(* wsdd as its clients on the network see it: init(), the main loop and    *)
(* the SIGTERM handler of wsdd.c, the messages of wsdd_utils.c and         *)
(* client_events.c, and the look-up of the interface's address in          *)
(* net_utils.c.                                                            *)
(*                                                                         *)
(* External: gSOAP's WS-Discovery plugin (soap_wsdd_listen() serves any    *)
(* number of datagrams before it returns), UDP (datagrams are lost,        *)
(* duplicated and reordered), the interfaces of the machine, whose         *)
(* addresses come and go, and the clients, which list what they hear.      *)
(* The pid file and the start scripts are in DaemonLifecycle.              *)
(***************************************************************************)
EXTENDS Naturals, Sequences, FiniteSetsExt

CONSTANTS
    Clients,    \* programs that look for cameras
    Slots,      \* bound: the Probes one client has under way at a time
    Endpoints,  \* the UUIDs soap_wsa_rand_uuid() returns, one per launch
    Endpoint,   \* the option --endpoint, or NoEndpoint
    Template,   \* TRUE: --xaddr contains %s (S90wsdd); FALSE: main.py's URL
    IfName,     \* the option --if_name
    Addresses,  \* addresses the machine's interfaces may have
    Lists,      \* what getifaddrs() may return; <<>> also when it fails
    MaxChanges, \* bound: how often the list changes
    NoEndpoint, NoAddress, Loopback, Written, Unknown, NoAnswer

\* An entry of the list; ifa_addr may be missing.
IfAddr == [name : STRING, af : {"AF_INET", "AF_INET6"},
           addr : Addresses \cup {NoAddress}]

\* What the URL of a message may point to.
Hosts == Addresses \cup {Loopback, Written}

ASSUME WsddAssumption ==
    /\ Endpoint \in Endpoints \cup {NoEndpoint}
    /\ NoEndpoint \notin Endpoints
    /\ Template \in BOOLEAN
    /\ Lists \subseteq Seq(IfAddr)
    /\ NoAddress \notin Addresses
    /\ MaxChanges \in Nat
    /\ Unknown \notin Hosts

VARIABLES
    ifaddrs,    \* the machine's list of interface addresses
    changes,    \* how often it has changed
    pc,         \* where the daemon is, its handler included
    soap,       \* soap_srv has been allocated
    endpoint,   \* wsdd_param.endpoint
    joined,     \* the interface whose multicast datagrams arrive
    answer,     \* the ProbeMatches that is being put together
    used,       \* UUIDs drawn so far
    net,        \* datagrams under way
    view,       \* view[c][e]: where client c thinks that endpoint e is
    since       \* since[p]: the hosts that were right at some time since Probe p

daemonVars == <<pc, soap, endpoint, joined, answer, used>>
vars == <<ifaddrs, changes, daemonVars, net, view, since>>

ListenPCs == {"hello_listen", "loop", "bye_listen", "last_listen"}
InitPCs == {"armed", "soap", "group", "hello", "hello_listen"}
HandlerPCs == {"bye", "bye_listen", "last_listen", "free"}
Probes == Clients \X Slots

Datagram ==
    [type : {"Probe"}, id : Probes]
        \cup [type : {"ProbeMatches"}, id : Probes,
              endpoint : Endpoints \cup {NoEndpoint}, xaddr : Hosts]
        \cup [type : {"Hello", "Bye"}, to : Clients,
              endpoint : Endpoints \cup {NoEndpoint}, xaddr : Hosts]

TypeOK ==
    /\ ifaddrs \in Lists
    /\ changes \in 0..MaxChanges
    /\ pc \in {"off", "loop"} \cup InitPCs \cup HandlerPCs
    /\ soap \in BOOLEAN
    /\ endpoint \in Endpoints \cup {NoEndpoint}
    /\ joined \in {"nowhere", "interface", "other"}
    /\ answer \in {NoAnswer} \cup [id : Probes, xaddr : Hosts]
    /\ used \subseteq Endpoints
    /\ net \subseteq Datagram
    /\ view \in [Clients -> [Endpoints -> Hosts \cup {Unknown}]]
    /\ since \in [Probes -> SUBSET Hosts]

-----------------------------------------------------------------------------
(* The address of the interface *)

\* The comparison of the names is forgotten.
UsableAnyName(list) ==
    {i \in DOMAIN list : list[i].addr # NoAddress /\ list[i].af = "AF_INET"}

\* Entries of the list the loops of net_utils.c do not skip.
Usable(list) ==
    {i \in DOMAIN list : /\ list[i].addr # NoAddress
                         /\ list[i].af = "AF_INET"
                         /\ list[i].name = IfName}

HasAddress(list) == Usable(list) # {}

\* get_addr_of_if() for AF_INET: the first usable entry, else failure.
get_addr_of_if(list) ==
    IF HasAddress(list) THEN list[Min(Usable(list))].addr ELSE NoAddress

\* get_ip_of_if() goes through the list in the same way; inet_ntop() of an
\* address the system returned does not fail.
get_ip_of_if(list) == get_addr_of_if(list)

\* The host of the URL get_xaddr() returns.
get_xaddr(list) ==
    IF ~Template THEN Written
    ELSE IF get_ip_of_if(list) = NoAddress THEN Loopback
    ELSE get_ip_of_if(list)

-----------------------------------------------------------------------------
(* The daemon *)

Alive == pc # "off"
InHandler == pc \in HandlerPCs

\* What is in the process is lost with it.
Dies ==
    /\ pc' = "off"
    /\ soap' = FALSE
    /\ joined' = "nowhere"
    /\ answer' = NoAnswer
    /\ endpoint' = Endpoint

\* init_signals(), with whatever options: the handler is set before anything
\* else.
Launch ==
    /\ pc = "off"
    /\ used # Endpoints
    /\ pc' = "armed"
    /\ UNCHANGED <<ifaddrs, changes, soap, endpoint, joined, answer, used, net,
                   view, since>>

\* init_gsoap() up to soap_bind().
BindPort ==
    /\ pc = "armed"
    /\ pc' = "soap"
    /\ soap' = TRUE
    /\ UNCHANGED <<ifaddrs, changes, endpoint, joined, answer, used, net, view,
                   since>>

\* send_hello() before get_endpoint().
JoinThenHello ==
    /\ pc = "soap"
    /\ get_addr_of_if(ifaddrs) # NoAddress
    /\ joined' \in {"interface", "other"}
    /\ pc' = "hello"
    /\ UNCHANGED <<ifaddrs, changes, soap, endpoint, answer, used, net, view,
                   since>>

\* imr_ifindex of the request is never set and wins over its imr_address: the
\* group is joined on the interface, on another one, or not at all.
JoinGroup ==
    /\ pc = "soap"
    /\ get_addr_of_if(ifaddrs) # NoAddress
    /\ joined' \in {"interface", "other"}
    /\ pc' = "group"
    /\ UNCHANGED <<ifaddrs, changes, soap, endpoint, answer, used, net, view,
                   since>>

\* No memory, port taken, interface without address, bad index: exit().
InitFails ==
    /\ pc \in {"armed", "soap"}
    /\ Dies
    /\ UNCHANGED <<ifaddrs, changes, used, net, view, since>>

get_endpoint ==
    /\ pc = "group"
    /\ pc' = "hello"
    /\ IF endpoint # NoEndpoint
       THEN UNCHANGED <<endpoint, used>>
       ELSE \E e \in Endpoints \ used :
                endpoint' = e /\ used' = used \cup {e}
    /\ UNCHANGED <<ifaddrs, changes, soap, joined, answer, net, view, since>>

\* soap_wsdd_Hello() and soap_wsdd_Bye(): one datagram to the group, a copy of
\* which is on its way to every client.
Multicast(type, e) ==
    net' = net \cup [type : {type}, to : Clients, endpoint : {e},
                     xaddr : {get_xaddr(ifaddrs)}]

\* send_hello() listens for a second if the Hello could be sent.
send_hello ==
    /\ pc = "hello"
    /\ \/ Multicast("Hello", endpoint) /\ pc' = "hello_listen"
       \/ net' = net /\ pc' = "loop"
    /\ UNCHANGED <<ifaddrs, changes, soap, endpoint, joined, answer, used, view,
                   since>>

\* The event does nothing, as wsdd_event_Resolve() does.
ProbeIgnored(m) ==
    /\ pc \in ListenPCs
    /\ answer = NoAnswer
    /\ m.type = "Probe"
    /\ joined = "interface"
    /\ UNCHANGED <<ifaddrs, changes, pc, soap, endpoint, joined, answer, used,
                   view, since>>

\* Any Probe is taken, whatever it asks for, and the address looked up. The
\* handlers of all other messages do nothing.
wsdd_event_Probe(m) ==
    /\ pc \in ListenPCs
    /\ answer = NoAnswer
    /\ m.type = "Probe"
    /\ joined = "interface"
    /\ answer' = [id |-> m.id, xaddr |-> get_xaddr(ifaddrs)]
    /\ UNCHANGED <<ifaddrs, changes, pc, soap, endpoint, joined, used, view,
                   since>>

soap_wsdd_ProbeMatches ==
    /\ answer # NoAnswer
    /\ net' = net \cup {[type |-> "ProbeMatches", id |-> answer.id,
                         endpoint |-> endpoint, xaddr |-> answer.xaddr]}
    /\ answer' = NoAnswer
    /\ UNCHANGED <<ifaddrs, changes, pc, soap, endpoint, joined, used, view,
                   since>>

\* The second is over; in the main loop the next one begins.
ListenEnds ==
    /\ answer = NoAnswer
    /\ \/ pc = "hello_listen" /\ pc' = "loop"
       \/ pc = "bye_listen" /\ pc' = "last_listen"
       \/ pc = "last_listen" /\ pc' = "free"
    /\ UNCHANGED <<ifaddrs, changes, soap, endpoint, joined, answer, used, net,
                   view, since>>

\* daemon_exit_handler() interrupts init() or the main loop for good. Without
\* a soap context send_bye() cannot even draw a message id: the process dies.
SigTerm ==
    /\ pc \in InitPCs \cup {"loop"}
    /\ IF soap
       THEN /\ pc' = "bye"
            /\ answer' = NoAnswer
            /\ UNCHANGED <<soap, endpoint, joined>>
       ELSE Dies
    /\ UNCHANGED <<ifaddrs, changes, used, net, view, since>>

\* free_resources() listens once more even if the Bye could not be sent.
send_bye ==
    /\ pc = "bye"
    /\ \/ Multicast("Bye", endpoint) /\ pc' = "bye_listen"
       \/ net' = net /\ pc' = "last_listen"
    /\ UNCHANGED <<ifaddrs, changes, soap, endpoint, joined, answer, used, view,
                   since>>

free_resources ==
    /\ pc = "free"
    /\ Dies
    /\ UNCHANGED <<ifaddrs, changes, used, net, view, since>>

\* SIGKILL, a crash.
Killed ==
    /\ Alive
    /\ Dies
    /\ UNCHANGED <<ifaddrs, changes, used, net, view, since>>

-----------------------------------------------------------------------------
(* External: the machine's interfaces, the clients, UDP *)

\* Where the daemon can be reached: at any IPv4 address of its interface, at
\* what was written for it, or, without an address, nowhere.
RightHosts(list) ==
    IF ~Template THEN {Written}
    ELSE LET addrs == {a \in Addresses : \E i \in DOMAIN list :
                        list[i] = [name |-> IfName, af |-> "AF_INET", addr |-> a]}
         IN  IF addrs = {} THEN {Loopback} ELSE addrs

AddressChanges ==
    /\ changes < MaxChanges
    /\ \E l \in Lists \ {ifaddrs} :
        /\ ifaddrs' = l
        /\ since' = [p \in Probes |-> since[p] \cup RightHosts(l)]
    /\ changes' = changes + 1
    /\ UNCHANGED <<daemonVars, net, view>>

\* A client probes again and again; a slot is free when the network holds
\* nothing of its last Probe.
SendProbe(p) ==
    /\ \A m \in net : m.type \in {"Probe", "ProbeMatches"} => m.id # p
    /\ answer # NoAnswer => answer.id # p
    /\ net' = net \cup {[type |-> "Probe", id |-> p]}
    /\ since' = [since EXCEPT ![p] = RightHosts(ifaddrs)]
    /\ UNCHANGED <<ifaddrs, changes, daemonVars, view>>

\* A client lists what a Hello or a ProbeMatches says and drops what a Bye
\* names.
Heard(m) ==
    LET c == IF m.type = "ProbeMatches" THEN m.id[1] ELSE m.to
    IN  view' = IF m.endpoint = NoEndpoint THEN view
                ELSE [view EXCEPT ![c][m.endpoint] =
                        IF m.type = "Bye" THEN Unknown ELSE m.xaddr]

ClientHears(m) ==
    /\ m.type # "Probe"
    /\ Heard(m)
    /\ UNCHANGED <<ifaddrs, changes, daemonVars, since>>

\* A datagram reaches the daemon or its client; a duplicate of it may follow.
ProbeArrives == \E m \in net : wsdd_event_Probe(m) /\ net' = net \ {m}
MessageArrives(c) ==
    \E m \in net : /\ m.type # "Probe"
                   /\ c = IF m.type = "ProbeMatches" THEN m.id[1] ELSE m.to
                   /\ ClientHears(m) /\ net' = net \ {m}
Duplicate ==
    \E m \in net : (wsdd_event_Probe(m) \/ ClientHears(m)) /\ net' = net
Lose ==
    /\ \E m \in net : net' = net \ {m}
    /\ UNCHANGED <<ifaddrs, changes, daemonVars, view, since>>

-----------------------------------------------------------------------------
Init ==
    /\ ifaddrs \in Lists
    /\ changes = 0
    /\ pc = "off"
    /\ soap = FALSE
    /\ endpoint = Endpoint
    /\ joined = "nowhere"
    /\ answer = NoAnswer
    /\ used = {}
    /\ net = {}
    /\ view = [c \in Clients |-> [e \in Endpoints |-> Unknown]]
    /\ since = [p \in Probes |-> {}]

DaemonStep ==
    \/ BindPort \/ JoinGroup \/ InitFails \/ get_endpoint \/ send_hello
    \/ soap_wsdd_ProbeMatches \/ ListenEnds \/ send_bye \/ free_resources

Next ==
    \/ Launch \/ DaemonStep \/ SigTerm \/ Killed
    \/ ProbeArrives \/ Duplicate \/ Lose \/ AddressChanges
    \/ \E p \in Probes : SendProbe(p)
    \/ \E c \in Clients : MessageArrives(c)

Spec == Init /\ [][Next]_vars

\* The daemon runs, clients go on probing, and a datagram that is sent again
\* and again is received again and again.
FairSpec ==
    /\ Spec
    /\ WF_vars(DaemonStep)
    /\ SF_vars(ProbeArrives)
    /\ \A p \in Probes : SF_vars(SendProbe(p))
    /\ \A c \in Clients : SF_vars(MessageArrives(c))
-----------------------------------------------------------------------------
(* Properties *)

\* Whatever the order of a launch and its signals, no Hello goes out and nothing
\* is listened to before the endpoint is known: get_endpoint() comes before the
\* first listening, and init() is not resumed after the handler. (Only a handler
\* that interrupted init() before get_endpoint() can answer without a name.)
NamedAnnouncements ==
    /\ \A m \in net : m.type = "Hello" => m.endpoint \in Endpoints
    /\ answer # NoAnswer /\ ~InHandler => endpoint \in Endpoints

\* An answer is never older than its question: however late it is, it names a
\* host that was right at some time since the Probe was sent, because
\* wsdd_event_Probe() asks for the address at every Probe and takes it from the
\* interface it was told to use.
FreshAnswer ==
    /\ \A m \in net : m.type = "ProbeMatches" => m.xaddr \in since[m.id]
    /\ answer # NoAnswer => answer.xaddr \in since[answer.id]

\* A client that goes on probing a daemon that stays in its main loop keeps
\* finding the right address of it, whatever was lost, late or doubled and
\* however often the address has changed: provided the group was joined on the
\* daemon's interface, which imr_ifindex leaves to chance.
ProbingFinds ==
    \A c \in Clients :
        <>[](pc = "loop" /\ joined = "interface")
            => []<>(endpoint \in Endpoints /\ view[c][endpoint] \in RightHosts(ifaddrs))
=============================================================================
