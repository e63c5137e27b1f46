---------------------------- MODULE MCOnvifServer ----------------------------
(***************************************************************************)
(* TLC instances of OnvifServer: command lines the server runs with, and   *)
(* command lines that are only read.                                       *)
(***************************************************************************)
EXTENDS OnvifServer, TLC

CONSTANTS c1, c2, a1, a2, n1, n2, u1, u2, if1, if2

TwoClients == {c1, c2}
OneClient == {c1}
TwoAddresses == {a1, a2}
OneAddress == {a1}
TwoNames == {n1, n2}
TwoUrls == {u1, u2}
TwoInterfaces == {if1, if2}

\* Each client in a subnet of its own.
OwnSubnet == (a1 :> {c1}) @@ (a2 :> {c2})
OneSubnet == a1 :> {c1}
OwnPrefix == (a1 :> 24) @@ (a2 :> 16)
OnePrefix == a1 :> 24

\* u1 is rtsp://%s:554/..., u2 has a host of its own.
OneTemplate == {u1}

OneEthernet == {if1}
TwoDescriptors == 3..4
SomeTexts == {"admin", "scope", ""}
Admin == [f \in TextFields |-> "admin"]
SomeEmpty == {"SetScopes", "AbsoluteMove"}

AllDirections == {-1, 0, 1}
Right == {1}
HourOffsets == {-18000, 7200}
India == {19800}

-----------------------------------------------------------------------------

Opt(o, v) == [opt |-> o, val |-> v]

\* A profile as the README of the service starts it.
Stream(name, url, type) ==
    <<Opt("name", name), Opt("width", 800), Opt("height", 600),
      Opt("url", url), Opt("type", type)>>

Moves(set) == [k \in DOMAIN set |-> Opt("move", set[k])]

\* One interface, one profile, every command.
AllMoves ==
    <<Opt("scope", "scope"), Opt("ifs", if1), Opt("ptz", "")>>
    \o Moves(<<"left", "right", "up", "down", "stop", "preset">>)
    \o Stream(n1, u1, "H264")

\* Two interfaces and profiles, GMT, nobody to log in, and a camera that
\* cannot be stopped.
TwoOfEach ==
    <<Opt("scope", "scope"), Opt("ifs", if1), Opt("ifs", if2),
      Opt("tz_format", 3), Opt("user", ""), Opt("model", "scope")>>
    \o Moves(<<"right">>)
    \o Stream(n1, u1, "H264") \o Stream(n2, u2, "JPEG")

\* The rest of a second profile, in every order and with options that come
\* twice, are left out or take the first profile's name.
Fields == {Opt("name", n1), Opt("name", n2),
           Opt("url", u1), Opt("url", u2), Opt("snapurl", u2)}

Second ==
    {Stream(n1, u1, "H264") \o <<Opt("width", 640)>> \o f
        \o <<Opt("height", 480), Opt("type", "JPEG")>> :
        f \in UNION {[1..n -> Fields] : n \in 0..3}}

\* Lines that end the program, before the fork or after it, one of them when
\* it has no descriptor left.
Refusals ==
    {<<Opt("width", 99)>>, <<Opt("height", 10000)>>, <<Opt("tz_format", 6)>>,
     <<Opt("ifs", NoInterface)>>, <<Opt("other", "--help")>>,
     <<Opt("type", "AVI")>>, <<Opt("name", n1), Opt("type", "JPEG")>>, <<>>,
     <<Opt("ifs", if1), Opt("ifs", if2), Opt("ifs", if1)>>,
     <<Opt("ifs", if1)>> \o Stream(n1, u1, "MPEG4")}

AnyLine == {AllMoves, TwoOfEach} \cup Second \cup Refusals
GmtLine == {TwoOfEach}
=============================================================================
