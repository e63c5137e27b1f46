----------------------------- MODULE OnvifServer -----------------------------
(***************************************************************************)
(* The ONVIF device server at work: the accept loop of onvif_srvd.cpp,     *)
(* which serves one connection at a time, and the handlers of the Device,  *)
(* Media and PTZ services it dispatches a request to.  A PTZ handler runs  *)
(* the commands of the command line, one after the other, on a camera that *)
(* keeps moving until it is told to stop; SIGTERM may interrupt it.        *)
(*                                                                         *)
(* Most handlers are empty and answer with success.  Connections wait in   *)
(* the backlog of the socket; a client has one at a time.                  *)
(***************************************************************************)
EXTENDS ServiceContext, OnvifHandlers, SequencesExt

CONSTANTS
    Clients,
    Addresses,      \* addresses an interface may get
    Subnet,         \* Subnet[a]: clients in the subnet of address a
    Prefix,         \* Prefix[a]: length of the prefix of that subnet
    Templates,      \* the URLs that contain %s
    Directions,     \* signs of x and y a PanTilt vector may have
    Offsets,        \* tm_gmtoff of the time zones the machine may be in
    Ethernet,       \* interfaces that have a hardware address
    EmptyAsked,     \* empty handlers that clients call
    NoAddress, Localhost, Garbage, NoOne, NoReply,
    HwAddress       \* some interface's hardware address, printed

ASSUME ServerAssumption ==
    /\ Subnet \in [Addresses -> SUBSET Clients]
    /\ Prefix \in [Addresses -> 0..32]
    /\ Templates \subseteq Urls
    /\ Directions \subseteq {-1, 0, 1}
    /\ Offsets \subseteq Int
    /\ Ethernet \subseteq Interfaces
    /\ EmptyAsked \subseteq EmptyHandlers
    /\ NoAddress \notin Addresses /\ NoOne \notin Clients

VARIABLES
    addr,       \* addr[i]: the address of interface i
    waiting,    \* connections in the backlog
    calls,      \* the requests being served
    camera,     \* where it is moving, and whose command moved it last
    reply       \* the last answer sent

serverVars == <<addr, waiting, calls, camera, reply>>
vars == <<ctxVars, serverVars>>

-----------------------------------------------------------------------------
(* Types *)

Request ==
         [op : {"GetStreamUri", "GetSnapshotUri", "GetProfile"}, token : Names]
    \cup [op : {"ContinuousMove", "RelativeMove"},
          x : Directions, y : Directions]
    \cup [op : {"GetServices"}, IncludeCapability : BOOLEAN]
    \cup [op : {"GetProfiles", "GetVideoSources", "GetCapabilities",
                "GetServiceCapabilities", "GetNetworkInterfaces",
                "GetSystemDateAndTime", "Stop", "GotoPreset",
                "GotoHomePosition", "GetNodes", "GetPresets",
                "GetDeviceInformation", "GetScopes", "GetUsers",
                "Unknown", "Mute"}]
    \cup [op : {"Empty"}, of : EmptyAsked]

DeviceTexts == TextFields \ {"user", "password"}

Steps == {"read", "pan", "pan_stop", "tilt", "tilt_stop", "done"}
Call == [client : Clients, req : Request, pc : Steps]

Camera == [pan : {-1, 0, 1}, tilt : {-1, 0, 1}, by : Clients \cup {NoOne}]

Host == Addresses \cup {Localhost, Garbage}

\* An entry of GetNetworkInterfaces.
InterfaceInfo == [name : Interfaces, hw : {HwAddress, Garbage},
                  address : Addresses \cup {HwAddress, Garbage},
                  prefix : 0..32 \cup {Garbage}]

Body ==
         [kind : {"done", "fault"}]
    \cup [kind : {"uri"}, url : Urls \cup {NoUrl}, host : Host \cup {NoAddress}]
    \cup [kind : {"services"}, host : Host, ptz : BOOLEAN, snapshot : BOOLEAN]
    \cup [kind : {"capabilities"}, snapshot : BOOLEAN]
    \cup [kind : {"interfaces"}, list : Seq(InterfaceInfo)]
    \cup [kind : {"profiles"}, names : SUBSET Names, ptz : BOOLEAN]
    \cup [kind : {"sources"}, names : SUBSET Names]
    \cup [kind : {"presets"}, number : {8}]
    \cup [kind : {"device"}, texts : [DeviceTexts -> Texts]]
    \cup [kind : {"scopes"}, list : Seq(Texts)]
    \cup [kind : {"users"}, names : SUBSET Texts]
    \cup [kind : {"time"}, offset : Offsets, format : 0..5,
          hours : Int, minutes : Int]

ServerTypeOK ==
    /\ addr \in [Interfaces -> Addresses \cup {NoAddress}]
    /\ waiting \in Seq(Clients)
    /\ calls \subseteq Call
    /\ camera \in Camera
    /\ reply \in [client : Clients, body : Body] \cup {NoReply}

TypeOK == ContextTypeOK /\ ServerTypeOK

Init ==
    /\ ContextInit
    /\ addr \in [Interfaces -> Addresses]
    /\ waiting = <<>>
    /\ calls = {}
    /\ camera = [pan |-> 0, tilt |-> 0, by |-> NoOne]
    /\ reply = NoReply

-----------------------------------------------------------------------------
(* getServerIpFromClientIp(): the address of the only interface, else of the *)
(* first whose subnet the client is in, else 127.0.0.1.  Nobody looks at     *)
(* what get_ip() and get_mask() return: of an interface without an address   *)
(* the comparison and the result use what is on the stack.                   *)

AddressOf(i) == IF addr[i] = NoAddress THEN Garbage ELSE addr[i]

MayMatch(i, c) == addr[i] = NoAddress \/ c \in Subnet[addr[i]]
MayDiffer(i, c) == addr[i] = NoAddress \/ c \notin Subnet[addr[i]]

\* The last interface that matches, in place of the first, and no fallback.
ServerIpsLast(c) ==
    {AddressOf(ifs[k].dev) : k \in {j \in DOMAIN ifs : MayMatch(ifs[j].dev, c)
                                                        \/ j = Len(ifs)}}

ServerIps(c) ==
    IF Len(ifs) = 1 THEN {AddressOf(ifs[1].dev)}
    ELSE {AddressOf(ifs[k].dev) : k \in
            {j \in DOMAIN ifs :
                /\ MayMatch(ifs[j].dev, c)
                /\ \A m \in 1..(j - 1) : MayDiffer(ifs[m].dev, c)}}
         \cup (IF \A k \in DOMAIN ifs : MayDiffer(ifs[k].dev, c)
               THEN {Localhost} ELSE {})

\* The body of GetStreamUri and GetSnapshotUri: the URL, and what %s becomes.
Uris(url, c) ==
    IF url \in Templates
    THEN {[kind |-> "uri", url |-> url, host |-> h] : h \in ServerIps(c)}
    ELSE {[kind |-> "uri", url |-> url, host |-> NoAddress]}

\* get_time_zone() prints hh and mm; C divides towards zero.
Magnitude(n) == IF n < 0 THEN -n ELSE n
Hours(offset) ==
    IF offset < 0 THEN -(Magnitude(offset) \div 3600) ELSE offset \div 3600

\* The GMT formats print the sign as the UTC formats do.
TimeZoneUnreversed(offset) ==
    [kind |-> "time", offset |-> offset, format |-> tz,
     hours |-> Hours(offset), minutes |-> Magnitude(offset) % 60]

\* abs(tm_gmtoff % 60), the seconds of the offset, is printed as its minutes.
TimeZone(offset) ==
    [kind |-> "time", offset |-> offset, format |-> tz,
     hours |-> IF tz \in {1, 3} THEN -Hours(offset) ELSE Hours(offset),
     minutes |-> Magnitude(offset) % 60]

-----------------------------------------------------------------------------
(* The accept loop *)

\* The kernel completes a connection; at most one for each client.
Connect(c) ==
    /\ phase = "serving"
    /\ ~Contains(waiting, c)
    /\ \A k \in calls : k.client # c
    /\ waiting' = Append(waiting, c)
    /\ UNCHANGED <<addr, calls, camera, reply>>

\* Every connection gets a thread.
AcceptInThread(r) ==
    /\ phase = "serving"
    /\ waiting # <<>>
    /\ calls' =
          calls \cup {[client |-> Head(waiting), req |-> r, pc |-> "read"]}
    /\ waiting' = Tail(waiting)
    /\ reply' = NoReply
    /\ UNCHANGED <<addr, camera>>

\* soap_accept(); r is what soap_begin_serve() is going to read.
Accept(r) ==
    /\ phase = "serving"
    /\ calls = {}
    /\ waiting # <<>>
    /\ calls' = {[client |-> Head(waiting), req |-> r, pc |-> "read"]}
    /\ waiting' = Tail(waiting)
    /\ reply' = NoReply
    /\ UNCHANGED <<addr, camera>>

\* The server waits for a request that never comes: no recv_timeout.
ReadForever(k) ==
    /\ k.pc = "read" /\ k.req.op = "Unknown"
    /\ calls' = calls \ {k}
    /\ UNCHANGED <<addr, waiting, camera, reply>>

\* recv_timeout passes without a request, or no service knows it: the loop
\* goes on and nothing is sent.
Unserved(k) ==
    /\ k.pc = "read" /\ k.req.op \in {"Mute", "Unknown"}
    /\ calls' = calls \ {k}
    /\ UNCHANGED <<addr, waiting, camera, reply>>

Send(k, body) ==
    /\ calls' = calls \ {k}
    /\ reply' = [client |-> k.client, body |-> body]

Advance(k, to) == calls' = (calls \ {k}) \cup {[k EXCEPT !.pc = to]}

Done == [kind |-> "done"]
Fault == [kind |-> "fault"]

-----------------------------------------------------------------------------
(* Handlers that only answer *)

Asks(k, ops) == k.pc = "read" /\ k.req.op \in ops

\* A handler finds the profile of its token, or returns SOAP_FAULT.
GetStreamUri(k) ==
    /\ Asks(k, {"GetStreamUri"})
    /\ LET p == profiles[k.req.token]
       IN  IF p = NoProfile THEN Send(k, Fault)
           ELSE \E b \in Uris(p.url, k.client) : Send(k, b)
    /\ UNCHANGED <<addr, waiting, camera>>

GetSnapshotUri(k) ==
    /\ Asks(k, {"GetSnapshotUri"})
    /\ LET p == profiles[k.req.token]
       IN  IF p = NoProfile THEN Send(k, Fault)
           ELSE \E b \in Uris(p.snapurl, k.client) : Send(k, b)
    /\ UNCHANGED <<addr, waiting, camera>>

\* StreamProfile::get_profile(): name, sizes and type are the profile's, and
\* every profile has the PTZ configuration if there is one.
Described(names) == [kind |-> "profiles", names |-> names, ptz |-> ptz]

Known == {n \in Names : profiles[n] # NoProfile}

GetProfile(k) ==
    /\ Asks(k, {"GetProfile"})
    /\ Send(k, IF profiles[k.req.token] = NoProfile THEN Fault
               ELSE Described({k.req.token}))
    /\ UNCHANGED <<addr, waiting, camera>>

GetProfiles(k) ==
    /\ Asks(k, {"GetProfiles"})
    /\ Send(k, Described(Known))
    /\ UNCHANGED <<addr, waiting, camera>>

\* A source for every profile.
GetVideoSources(k) ==
    /\ Asks(k, {"GetVideoSources"})
    /\ Send(k, [kind |-> "sources", names |-> Known])
    /\ UNCHANGED <<addr, waiting, camera>>

\* Of the capabilities only SnapshotUri depends on the command line.
SnapshotUri == \E n \in Known : profiles[n].snapurl # NoUrl

\* Device and Media have a handler for them.
GetServiceCapabilities(k) ==
    /\ Asks(k, {"GetServiceCapabilities"})
    /\ Send(k, [kind |-> "capabilities", snapshot |-> SnapshotUri])
    /\ UNCHANGED <<addr, waiting, camera>>

\* getXAddr() of the services that are there.
Services(c, snapshot) ==
    {[kind |-> "services", host |-> h, ptz |-> ptz, snapshot |-> snapshot] :
        h \in ServerIps(c)}

GetServices(k) ==
    /\ Asks(k, {"GetServices"})
    /\ \E b \in Services(k.client, k.req.IncludeCapability /\ SnapshotUri) :
        Send(k, b)
    /\ UNCHANGED <<addr, waiting, camera>>

\* The category of the request is All, or the PTZ service's; snapshots are not
\* spoken of.
GetCapabilities(k) ==
    /\ Asks(k, {"GetCapabilities"})
    /\ \E b \in Services(k.client, FALSE) : Send(k, b)
    /\ UNCHANGED <<addr, waiting, camera>>

\* get_hwaddr() into a buffer that is on the stack, get_ip() into the same one:
\* where it fails the last content is still there.  get_mask_prefix() then
\* counts the bits of whatever was on the stack.
HwAddressOf(i) == IF i \in Ethernet THEN HwAddress ELSE Garbage

InfoOf(i) ==
    IF addr[i] = NoAddress
    THEN [name |-> i, hw |-> HwAddressOf(i), address |-> HwAddressOf(i),
          prefix |-> Garbage]
    ELSE [name |-> i, hw |-> HwAddressOf(i), address |-> addr[i],
          prefix |-> Prefix[addr[i]]]

GetNetworkInterfaces(k) ==
    /\ Asks(k, {"GetNetworkInterfaces"})
    /\ Send(k, [kind |-> "interfaces",
                list |-> [j \in DOMAIN ifs |-> InfoOf(ifs[j].dev)]])
    /\ UNCHANGED <<addr, waiting, camera>>

\* get_SystemDateAndTime(): get_time_zone() asks for the time again, and its
\* localtime() overwrites the buffer LocalDateTime is then made from, so both
\* are of the same moment.  Formats 4 and 5 are the environment's.
GetSystemDateAndTime(k) ==
    /\ Asks(k, {"GetSystemDateAndTime"})
    /\ \E offset \in Offsets : Send(k, TimeZone(offset))
    /\ UNCHANGED <<addr, waiting, camera>>

\* GetNodes and GetNode: the one node has eight presets.
GetNodes(k) ==
    /\ Asks(k, {"GetNodes"})
    /\ Send(k, [kind |-> "presets", number |-> 8])
    /\ UNCHANGED <<addr, waiting, camera>>

\* They are "0" to "7", each at the middle.
GetPresets(k) ==
    /\ Asks(k, {"GetPresets"})
    /\ Send(k, [kind |-> "presets", number |-> 8])
    /\ UNCHANGED <<addr, waiting, camera>>

\* What the command line, or the constructor, says of the device.
GetDeviceInformation(k) ==
    /\ Asks(k, {"GetDeviceInformation"})
    /\ Send(k, [kind |-> "device", texts |-> [f \in DeviceTexts |-> texts[f]]])
    /\ UNCHANGED <<addr, waiting, camera>>

GetScopes(k) ==
    /\ Asks(k, {"GetScopes"})
    /\ Send(k, [kind |-> "scopes", list |-> scopes])
    /\ UNCHANGED <<addr, waiting, camera>>

\* The one user, unless the command line gave the empty string.
GetUsers(k) ==
    /\ Asks(k, {"GetUsers"})
    /\ Send(k, [kind |-> "users", names |-> {texts["user"]} \ {NoText}])
    /\ UNCHANGED <<addr, waiting, camera>>

\* SOAP_EMPTY_HANDLER: success, although nothing is done.
Empty(k) ==
    /\ Asks(k, {"Empty"})
    /\ Send(k, Done)
    /\ UNCHANGED <<addr, waiting, camera>>

-----------------------------------------------------------------------------
(* The PTZ handlers: system() runs a command and waits for it; an option     *)
(* that was not given is the empty command, which does nothing.              *)

PanCommand(x) == IF x > 0 THEN "right" ELSE "left"
TiltCommand(y) == IF y > 0 THEN "up" ELSE "down"

Pan(k) ==
    camera' = IF k.req.x # 0 /\ PanCommand(k.req.x) \in moves
              THEN [camera EXCEPT !.pan = k.req.x, !.by = k.client]
              ELSE camera

Tilt(k) ==
    camera' = IF k.req.y # 0 /\ TiltCommand(k.req.y) \in moves
              THEN [camera EXCEPT !.tilt = k.req.y, !.by = k.client]
              ELSE camera

\* One stop command for both axes.
Halt(k) ==
    camera' = IF "stop" \in moves
              THEN [pan |-> 0, tilt |-> 0, by |-> k.client] ELSE camera

\* ContinuousMove: pan, then tilt; a component that is 0 changes nothing, and
\* the Timeout of the request is not looked at.
ContinuousPan(k) ==
    /\ Asks(k, {"ContinuousMove"})
    /\ Pan(k)
    /\ Advance(k, "tilt")
    /\ UNCHANGED <<addr, waiting, reply>>

ContinuousTilt(k) ==
    /\ k.pc = "tilt" /\ k.req.op = "ContinuousMove"
    /\ Tilt(k)
    /\ Send(k, Done)
    /\ UNCHANGED <<addr, waiting>>

\* RelativeMove: pan, 300 ms, stop, tilt, 300 ms, stop.
RelativePan(k) ==
    /\ Asks(k, {"RelativeMove"})
    /\ Pan(k)
    /\ Advance(k, IF k.req.x # 0 THEN "pan_stop" ELSE "tilt")
    /\ UNCHANGED <<addr, waiting, reply>>

RelativePanStop(k) ==
    /\ k.pc = "pan_stop"
    /\ Halt(k)
    /\ Advance(k, "tilt")
    /\ UNCHANGED <<addr, waiting, reply>>

RelativeTilt(k) ==
    /\ k.pc = "tilt" /\ k.req.op = "RelativeMove"
    /\ Tilt(k)
    /\ Advance(k, IF k.req.y # 0 THEN "tilt_stop" ELSE "done")
    /\ UNCHANGED <<addr, waiting, reply>>

\* The last stop only when there was a pan.
RelativeTiltUnstopped(k) ==
    /\ k.pc = "tilt_stop"
    /\ IF k.req.x # 0 THEN UNCHANGED camera ELSE Halt(k)
    /\ Advance(k, "done")
    /\ UNCHANGED <<addr, waiting, reply>>

RelativeTiltStop(k) ==
    /\ k.pc = "tilt_stop"
    /\ Halt(k)
    /\ Advance(k, "done")
    /\ UNCHANGED <<addr, waiting, reply>>

RelativeDone(k) ==
    /\ k.pc = "done"
    /\ Send(k, Done)
    /\ UNCHANGED <<addr, waiting, camera>>

Stop(k) ==
    /\ Asks(k, {"Stop"})
    /\ Halt(k)
    /\ Send(k, Done)
    /\ UNCHANGED <<addr, waiting>>

\* The camera rests at the preset, whichever the request names.
ToPreset(k) ==
    camera' = IF "preset" \in moves
              THEN [pan |-> 0, tilt |-> 0, by |-> k.client] ELSE camera

GotoPreset(k) ==
    /\ Asks(k, {"GotoPreset"})
    /\ ToPreset(k)
    /\ Send(k, Done)
    /\ UNCHANGED <<addr, waiting>>

\* Home is preset "1".
GotoHomePosition(k) ==
    /\ Asks(k, {"GotoHomePosition"})
    /\ ToPreset(k)
    /\ Send(k, Done)
    /\ UNCHANGED <<addr, waiting>>

-----------------------------------------------------------------------------

\* An interface gets another address, or loses it.
ChangeAddress(i) ==
    /\ phase = "serving"
    /\ \E a \in Addresses \cup {NoAddress} : addr' = [addr EXCEPT ![i] = a]
    /\ UNCHANGED <<waiting, calls, camera, reply>>

\* SIGTERM, at any step of a handler: connections close, the camera does what
\* it was last told.
Terminate ==
    /\ phase = "serving"
    /\ phase' = "ended"
    /\ calls' = {} /\ waiting' = <<>>
    /\ UNCHANGED <<line, pos, draft, profiles, ifs, sockets, scopes, texts, ptz,
                   moves, tz, addr, camera, reply>>

Handle(k) ==
    \/ Unserved(k)
    \/ GetStreamUri(k) \/ GetSnapshotUri(k) \/ GetProfile(k) \/ GetProfiles(k)
    \/ GetVideoSources(k) \/ GetServices(k) \/ GetServiceCapabilities(k)
    \/ GetCapabilities(k) \/ GetNetworkInterfaces(k)
    \/ GetSystemDateAndTime(k) \/ GetNodes(k) \/ GetPresets(k)
    \/ GetDeviceInformation(k) \/ GetScopes(k) \/ GetUsers(k) \/ Empty(k)
    \/ ContinuousPan(k) \/ ContinuousTilt(k)
    \/ RelativePan(k) \/ RelativePanStop(k)
    \/ RelativeTilt(k) \/ RelativeTiltStop(k) \/ RelativeDone(k)
    \/ Stop(k) \/ GotoPreset(k) \/ GotoHomePosition(k)

Serve == (\E r \in Request : Accept(r)) \/ (\E k \in calls : Handle(k))

Next ==
    \/ ContextNext /\ UNCHANGED serverVars
    \/ /\ \/ Serve
          \/ \E c \in Clients : Connect(c)
          \/ \E i \in Interfaces : ChangeAddress(i)
       /\ UNCHANGED ctxVars
    \/ Terminate

Spec == Init /\ [][Next]_vars

\* The process is scheduled and its commands return; clients need not connect.
FairSpec == Spec /\ WF_vars(ContextNext /\ UNCHANGED serverVars)
                 /\ WF_vars(Serve /\ UNCHANGED ctxVars)

-----------------------------------------------------------------------------
(* Properties *)

\* A RelativeMove has the camera to itself: from its move command until its
\* stop command nobody else's command reaches the camera.
MotionExclusive ==
    \A k \in calls :
        /\ k.pc = "pan_stop" /\ PanCommand(k.req.x) \in moves
            => camera.by = k.client
        /\ k.pc = "tilt_stop" /\ TiltCommand(k.req.y) \in moves
            => camera.by = k.client

\* When a RelativeMove that moves at all is answered, the camera is at rest,
\* even if an earlier ContinuousMove was still under way.
RelativeEndsStill ==
    [][\A k \in calls \ calls' :
        (k.pc = "done" /\ (k.req.x # 0 \/ k.req.y # 0)
            /\ "stop" \in moves /\ phase' = "serving")
                => camera'.pan = 0 /\ camera'.tilt = 0]_vars

\* The host a client is told to talk to is the server's address in a subnet of
\* the client if there is one, and an address of the server if it has only one
\* interface, whatever the addresses are at that moment; as long as every
\* interface has one.
AddressReachesClient ==
    [][\A k \in calls :
        (/\ reply' # reply /\ reply' # NoReply
         /\ k.client = reply'.client /\ reply'.body.kind = "services"
         /\ \A j \in DOMAIN ifs : addr[ifs[j].dev] # NoAddress) =>
        LET own == {addr[ifs[j].dev] : j \in DOMAIN ifs}
            near == {a \in own : k.client \in Subnet[a]}
        IN  /\ near # {} /\ Len(ifs) > 1 => reply'.body.host \in near
            /\ near = {} /\ Len(ifs) > 1 => reply'.body.host = Localhost
            /\ Len(ifs) = 1 => reply'.body.host \in own]_vars

\* "[+|-]hh:mm", and the sign reversed for GMT (ServiceContext.h): the zone
\* that GetSystemDateAndTime prints is the offset of the local time it prints.
ZoneIsOffset ==
    (reply # NoReply /\ reply.body.kind = "time" /\ reply.body.format < 4) =>
        LET b == reply.body
            h == IF b.format \in {1, 3} THEN -b.hours ELSE b.hours
            m == IF b.offset < 0 THEN -b.minutes ELSE b.minutes
        IN  h * 3600 + m * 60 = b.offset

\* No connection is left waiting behind a client that sends nothing or asks
\* for something unknown: it is served, or closed when the daemon ends.
ConnectionsServed ==
    \A c \in Clients : Contains(waiting, c) ~> ~Contains(waiting, c)
=============================================================================
