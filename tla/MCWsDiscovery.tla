---------------------------- MODULE MCWsDiscovery ----------------------------
(* TLC instances of WsDiscovery. *)
EXTENDS WsDiscovery, TLC

CONSTANTS c1, e1, a1, a2

Entry(name, af, addr) == [name |-> name, af |-> af, addr |-> addr]

\* The loopback interface first, an entry without an address, the IPv6 entry
\* before the IPv4 one, an alias, and no usable entry at all.
MachineLists ==
    {<<Entry("lo", "AF_INET", Loopback), Entry("eth0", "AF_INET", a1)>>,
     <<Entry("lo", "AF_INET", Loopback), Entry("eth0", "AF_INET6", a1),
       Entry("eth0", "AF_INET", a2), Entry("eth0", "AF_INET", a1)>>,
     <<Entry("lo", "AF_INET", Loopback), Entry("eth0", "AF_INET", NoAddress)>>}

OneClient == {c1}
OneSlot == {1}
OneEndpoint == {e1}
TwoAddresses == {a1, a2, Loopback}
=============================================================================
