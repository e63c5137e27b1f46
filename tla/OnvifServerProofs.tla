-------------------------- MODULE OnvifServerProofs --------------------------
(***************************************************************************)
(* What holds of the ONVIF server for any command lines, clients, subnets  *)
(* and interfaces: the types, that the profiles are as written, that every *)
(* interface has a socket, that a RelativeMove has the camera to itself    *)
(* and leaves it still, that a client is told an address it can reach, and *)
(* that all it is told of the camera is what the command line says.        *)
(***************************************************************************)
EXTENDS OnvifServer, SequenceTheorems, FiniteSetTheorems, TLAPS

-----------------------------------------------------------------------------
(* Types of the context *)

\* An option that is read is one the program knows, with a value of its kind.
LEMMA OptionRead ==
    ASSUME ContextTypeOK, NEW opts, Takes(opts)
    PROVE  /\ line[pos] \in Option
           /\ line[pos].opt \in opts
           /\ pos' \in 1..(Len(line) + 1)
<1>1. line \in CommandLines /\ pos \in 1..(Len(line) + 1)
  BY DEF ContextTypeOK
<1>2. Len(line) \in Nat /\ \A k \in 1..Len(line) : line[k] \in Option
  BY <1>1, ContextAssumption
<1>3. pos \in 1..Len(line) /\ pos' = pos + 1 /\ line[pos].opt \in opts
  BY <1>1, <1>2 DEF Takes
<1>4. QED BY <1>2, <1>3

\* What each option may carry.
LEMMA OptionValue ==
    ASSUME NEW o \in Option
    PROVE  /\ o.opt = "name" => o.val \in Names \cup {NoName}
           /\ o.opt \in {"width", "height", "tz_format"} => o.val \in Int
           /\ o.opt \in {"url", "snapurl"} => o.val \in Urls \cup {NoUrl}
           /\ o.opt = "ifs" => o.val \in Interfaces \cup {NoInterface}
           /\ o.opt = "move" => o.val \in Commands
           /\ o.opt \in {"scope"} \cup TextFields => o.val \in Texts
BY DEF Option, TextFields

\* A setter leaves the draft a profile.
LEMMA DraftTyped ==
    ASSUME ContextTypeOK, SetField
    PROVE  draft' \in Profile
<1> DEFINE o == line[pos]
<1>1. /\ draft \in Profile
      /\ o \in Option
      /\ o.opt \in {"name", "width", "height", "url", "snapurl"}
      /\ draft' = [draft EXCEPT ![o.opt] = o.val]
  BY OptionRead DEF SetField, ContextTypeOK, Val
<1> HIDE DEF o
<1>2. CASE o.opt = "name"
  BY <1>1, <1>2, OptionValue DEF Profile
<1>3. CASE o.opt = "width"
  BY <1>1, <1>3, OptionValue DEF Profile
<1>4. CASE o.opt = "height"
  BY <1>1, <1>4, OptionValue DEF Profile
<1>5. CASE o.opt = "url"
  BY <1>1, <1>5, OptionValue DEF Profile
<1>6. CASE o.opt = "snapurl"
  BY <1>1, <1>6, OptionValue DEF Profile
<1>7. QED BY <1>1, <1>2, <1>3, <1>4, <1>5, <1>6

\* A profile that --type completes is a profile, under a name.
LEMMA CommitTyped ==
    ASSUME ContextTypeOK, CommitProfile
    PROVE  /\ draft' \in Profile
           /\ profiles' \in [Names -> Profile \cup {NoProfile}]
<1> DEFINE p == [draft EXCEPT !.type = Val]
<1>1. /\ draft \in Profile
      /\ profiles \in [Names -> Profile \cup {NoProfile}]
      /\ Val \in Types /\ p.name # NoName
      /\ profiles' = [profiles EXCEPT ![p.name] = p]
      /\ draft' = Cleared
  BY DEF ContextTypeOK, CommitProfile, IsValid
<1>2. p \in Profile
  BY <1>1 DEF Profile
<1>3. p.name \in Names
  BY <1>1, <1>2 DEF Profile
<1>4. Cleared \in Profile
  BY DEF Cleared, Profile
<1> HIDE DEF p
<1>5. QED BY <1>1, <1>2, <1>3, <1>4

LEMMA ContextTypeStep ==
    ASSUME ContextTypeOK, ContextNext
    PROVE  ContextTypeOK'
<1>1. CASE SetField
  <2>1. draft' \in Profile /\ pos' \in 1..(Len(line) + 1)
    BY <1>1, DraftTyped, OptionRead DEF SetField
  <2>2. QED BY <1>1, <2>1 DEF SetField, ContextTypeOK
<1>2. CASE CommitProfile
  <2>1. /\ draft' \in Profile /\ pos' \in 1..(Len(line) + 1)
        /\ profiles' \in [Names -> Profile \cup {NoProfile}]
    BY <1>2, CommitTyped, OptionRead DEF CommitProfile
  <2>2. QED BY <1>2, <2>1 DEF CommitProfile, ContextTypeOK
<1>3. CASE OpenInterface
  <2>1. /\ line[pos] \in Option /\ line[pos].opt \in {"ifs"}
        /\ pos' \in 1..(Len(line) + 1)
    BY <1>3, OptionRead DEF OpenInterface
  <2>2. Val \in Interfaces
    BY <1>3, <2>1, OptionValue DEF OpenInterface, Val
  <2>3. PICK f \in Descriptors : /\ ifs' = Append(ifs, [dev |-> Val, sd |-> f])
                                 /\ sockets' = sockets \cup {f}
    BY <1>3 DEF OpenInterface
  <2>4. [dev |-> Val, sd |-> f] \in EthDev
    BY <2>2 DEF EthDev
  <2>5. ifs' \in Seq(EthDev)
    BY <2>3, <2>4, AppendProperties DEF ContextTypeOK
  <2>6. QED BY <1>3, <2>1, <2>3, <2>5 DEF OpenInterface, ContextTypeOK
<1>4. CASE SetTzFormat
  <2>1. pos' \in 1..(Len(line) + 1)
    BY <1>4, OptionRead DEF SetTzFormat
  <2>2. QED BY <1>4, <2>1 DEF SetTzFormat, ContextTypeOK
<1>5. CASE AddScope
  <2>1. /\ line[pos] \in Option /\ line[pos].opt \in {"scope"}
        /\ pos' \in 1..(Len(line) + 1)
    BY <1>5, OptionRead DEF AddScope
  <2>2. Val \in Texts
    BY <2>1, OptionValue DEF Val
  <2>3. scopes' \in Seq(Texts)
    BY <1>5, <2>2, AppendProperties DEF AddScope, ContextTypeOK
  <2>4. QED BY <1>5, <2>1, <2>3 DEF AddScope, ContextTypeOK
<1>6. CASE EnablePtz
  <2>1. pos' \in 1..(Len(line) + 1)
    BY <1>6, OptionRead DEF EnablePtz
  <2>2. QED BY <1>6, <2>1 DEF EnablePtz, ContextTypeOK
<1>7. CASE SetMove
  <2>1. /\ line[pos] \in Option /\ line[pos].opt \in {"move"}
        /\ pos' \in 1..(Len(line) + 1)
    BY <1>7, OptionRead DEF SetMove
  <2>2. Val \in Commands
    BY <2>1, OptionValue DEF Val
  <2>3. QED BY <1>7, <2>1, <2>2 DEF SetMove, ContextTypeOK
<1>8. CASE Refuse
  BY <1>8 DEF Refuse, ContextTypeOK, Phases
<1>9. CASE EndOfOptions
  BY <1>9 DEF EndOfOptions, ContextTypeOK, Phases
<1>10. CASE CheckContext
  BY <1>10 DEF CheckContext, ContextTypeOK, Phases
<1>11. CASE SetText
  <2>1. /\ line[pos] \in Option /\ line[pos].opt \in TextFields
        /\ pos' \in 1..(Len(line) + 1)
    BY <1>11, OptionRead DEF SetText
  <2>2. Val \in Texts
    BY <2>1, OptionValue DEF Val
  <2>3. texts' \in [TextFields -> Texts]
    BY <1>11, <2>1, <2>2 DEF SetText, ContextTypeOK
  <2>4. QED BY <1>11, <2>1, <2>3 DEF SetText, ContextTypeOK
<1>12. QED
  BY <1>1, <1>2, <1>3, <1>4, <1>5, <1>6, <1>7, <1>8, <1>9, <1>10, <1>11
     DEF ContextNext

-----------------------------------------------------------------------------
(* Types of the answers *)

\* getServerIpFromClientIp() returns an address, 127.0.0.1 or garbage.
LEMMA ServerIpsTyped ==
    ASSUME TypeOK, NEW c \in Clients
    PROVE  ServerIps(c) \subseteq Host
<1>1. /\ ifs \in Seq(EthDev)
      /\ addr \in [Interfaces -> Addresses \cup {NoAddress}]
  BY DEF TypeOK, ContextTypeOK, ServerTypeOK
<1>2. \A j \in DOMAIN ifs : ifs[j].dev \in Interfaces
  <2>1. \A j \in DOMAIN ifs : ifs[j] \in EthDev
    BY <1>1
  <2>2. QED BY <2>1 DEF EthDev
<1>3. \A j \in DOMAIN ifs : AddressOf(ifs[j].dev) \in Host
  BY <1>1, <1>2 DEF AddressOf, Host
<1>4. CASE Len(ifs) = 1
  <2>1. 1 \in DOMAIN ifs
    BY <1>1, <1>4
  <2>2. QED BY <1>3, <1>4, <2>1 DEF ServerIps
<1>5. CASE Len(ifs) # 1
  BY <1>3, <1>5 DEF ServerIps, Host
<1>6. QED BY <1>4, <1>5

LEMMA AnswersTyped ==
    ASSUME TypeOK, NEW c \in Clients
    PROVE  /\ Done \in Body /\ Fault \in Body
           /\ \A b \in BOOLEAN : Services(c, b) \subseteq Body
           /\ \A url \in Urls \cup {NoUrl} : Uris(url, c) \subseteq Body
           /\ \A names \in SUBSET Names : Described(names) \in Body
           /\ [kind |-> "sources", names |-> Known] \in Body
           /\ [kind |-> "capabilities", snapshot |-> SnapshotUri] \in Body
           /\ [kind |-> "presets", number |-> 8] \in Body
           /\ [kind |-> "device", texts |-> [f \in DeviceTexts |-> texts[f]]]
                \in Body
           /\ [kind |-> "scopes", list |-> scopes] \in Body
           /\ [kind |-> "users", names |-> {texts["user"]} \ {NoText}] \in Body
<1>1. ServerIps(c) \subseteq Host /\ ptz \in BOOLEAN
  BY ServerIpsTyped DEF TypeOK, ContextTypeOK
<1>2. Done \in Body /\ Fault \in Body
  BY DEF Done, Fault, Body
<1>3. ASSUME NEW b \in BOOLEAN
      PROVE  Services(c, b) \subseteq Body
  BY <1>1 DEF Services, Body
<1>4. ASSUME NEW url \in Urls \cup {NoUrl}
      PROVE  Uris(url, c) \subseteq Body
  BY <1>1 DEF Uris, Body
<1>5. ASSUME NEW names \in SUBSET Names
      PROVE  Described(names) \in Body
  BY <1>1 DEF Described, Body
<1>6. [kind |-> "sources", names |-> Known] \in Body
  BY DEF Known, Body
<1>7. [kind |-> "capabilities", snapshot |-> SnapshotUri] \in Body
  <2>1. SnapshotUri \in BOOLEAN
    BY DEF SnapshotUri
  <2>2. QED BY <2>1 DEF Body
<1>8. [kind |-> "presets", number |-> 8] \in Body
  BY DEF Body
<1>9. texts \in [TextFields -> Texts] /\ scopes \in Seq(Texts)
  BY DEF TypeOK, ContextTypeOK
<1>10. [kind |-> "device", texts |-> [f \in DeviceTexts |-> texts[f]]] \in Body
  <2>1. [f \in DeviceTexts |-> texts[f]] \in [DeviceTexts -> Texts]
    BY <1>9 DEF DeviceTexts
  <2>2. QED BY <2>1 DEF Body
<1>11. [kind |-> "scopes", list |-> scopes] \in Body
  BY <1>9 DEF Body
<1>12. [kind |-> "users", names |-> {texts["user"]} \ {NoText}] \in Body
  <2>1. {texts["user"]} \ {NoText} \in SUBSET Texts
    BY <1>9 DEF TextFields
  <2>2. QED BY <2>1 DEF Body
<1>13. QED
  BY <1>2, <1>3, <1>4, <1>5, <1>6, <1>7, <1>8, <1>10, <1>11, <1>12

\* get_time_zone() prints integers.
LEMMA TimeTyped ==
    ASSUME TypeOK, NEW offset \in Offsets
    PROVE  TimeZone(offset) \in Body
<1>1. offset \in Int /\ tz \in 0..5
  BY ServerAssumption DEF TypeOK, ContextTypeOK
<1>2. Magnitude(offset) \in Nat
  BY <1>1 DEF Magnitude
<1>3. /\ (Magnitude(offset) % 60) \in Int
      /\ Magnitude(offset) \div 3600 \in Int
  BY <1>2
<1>4. Hours(offset) \in Int
  BY <1>1, <1>3 DEF Hours, Magnitude
<1>5. -Hours(offset) \in Int
  BY <1>4
<1>6. QED BY <1>1, <1>3, <1>4, <1>5 DEF TimeZone, Body

\* GetNetworkInterfaces answers with a list of interfaces and addresses.
LEMMA InterfacesTyped ==
    ASSUME TypeOK,
           NEW b, b = [kind |-> "interfaces",
                       list |-> [j \in DOMAIN ifs |-> InfoOf(ifs[j].dev)]]
    PROVE  b \in Body
<1> DEFINE Entry == InterfaceInfo
           entries == [j \in DOMAIN ifs |-> InfoOf(ifs[j].dev)]
<1>1. /\ ifs \in Seq(EthDev)
      /\ addr \in [Interfaces -> Addresses \cup {NoAddress}]
  BY DEF TypeOK, ContextTypeOK, ServerTypeOK
<1>2. Len(ifs) \in Nat /\ DOMAIN ifs = 1..Len(ifs)
  BY <1>1
<1>3. \A j \in DOMAIN ifs : entries[j] \in Entry
  <2>1. ASSUME NEW i \in Interfaces PROVE InfoOf(i) \in InterfaceInfo
    <3>1. CASE addr[i] = NoAddress
      BY <3>1 DEF InfoOf, InterfaceInfo, HwAddressOf
    <3>2. CASE addr[i] # NoAddress
      <4>1. addr[i] \in Addresses /\ Prefix[addr[i]] \in 0..32
        BY <1>1, <3>2, ServerAssumption
      <4>2. QED BY <3>2, <4>1 DEF InfoOf, InterfaceInfo, HwAddressOf
    <3>3. QED BY <3>1, <3>2
  <2>2. \A j \in DOMAIN ifs : ifs[j].dev \in Interfaces
    <3>1. \A j \in DOMAIN ifs : ifs[j] \in EthDev
      BY <1>1
    <3>2. QED BY <3>1 DEF EthDev
  <2>3. QED BY <2>1, <2>2
<1>4. entries \in [1..Len(ifs) -> Entry]
  BY <1>2, <1>3
<1>5. entries \in Seq(Entry)
  <2> DEFINE n == Len(ifs)
  <2>1. n \in Nat /\ entries \in [1..n -> Entry]
    BY <1>2, <1>4
  <2> HIDE DEF entries, Entry, n
  <2>2. entries \in UNION {[1..m -> Entry] : m \in Nat}
    BY <2>1
  <2>3. Seq(Entry) = UNION {[1..m -> Entry] : m \in Nat}
    BY SeqDef, Zenon
  <2>4. QED BY <2>2, <2>3, Zenon
<1>6. b = [kind |-> "interfaces", list |-> entries]
  OBVIOUS
<1>7. [kind |-> "interfaces", list |-> entries]
        \in [kind : {"interfaces"}, list : Seq(Entry)]
  <2> HIDE DEF entries, Entry
  <2>1. QED BY <1>5
<1> HIDE DEF entries
<1>8. b \in [kind : {"interfaces"}, list : Seq(Entry)]
  BY <1>6, <1>7
<1>9. QED BY <1>8, Zenon DEF Body

-----------------------------------------------------------------------------
(* Types of the server *)

\* A request under way has a client, and a move has a direction.
LEMMA CallTyped ==
    ASSUME TypeOK, NEW k \in calls
    PROVE  /\ k \in Call /\ k.client \in Clients /\ k.req \in Request
           /\ k.req.op \in {"GetStreamUri", "GetSnapshotUri", "GetProfile"}
                => k.req.token \in Names
           /\ k.req.op \in {"ContinuousMove", "RelativeMove"}
                => k.req.x \in {-1, 0, 1} /\ k.req.y \in {-1, 0, 1}
<1>1. k \in Call
  BY DEF TypeOK, ServerTypeOK
<1>2. k.client \in Clients /\ k.req \in Request
  BY <1>1 DEF Call
<1>3. QED BY <1>1, <1>2, ServerAssumption DEF Request

\* An answer ends the request.
LEMMA SendTyped ==
    ASSUME TypeOK, NEW k \in calls, NEW body \in Body, Send(k, body)
    PROVE  /\ calls' \subseteq Call
           /\ reply' \in [client : Clients, body : Body] \cup {NoReply}
<1>1. k.client \in Clients /\ calls \subseteq Call
  BY CallTyped DEF TypeOK, ServerTypeOK
<1>2. QED BY <1>1 DEF Send

\* A handler goes on to another of its steps.
LEMMA AdvanceTyped ==
    ASSUME TypeOK, NEW k \in calls, NEW to \in Steps, Advance(k, to)
    PROVE  calls' \subseteq Call
<1>1. [k EXCEPT !.pc = to] \in Call
  BY CallTyped DEF Call
<1>2. QED BY <1>1 DEF Advance, TypeOK, ServerTypeOK

\* Every command leaves the camera at rest or moving in one of the directions.
LEMMA CameraTyped ==
    ASSUME TypeOK, NEW k \in calls,
           \/ /\ k.req.op \in {"ContinuousMove", "RelativeMove"}
              /\ Pan(k) \/ Tilt(k)
           \/ Halt(k)
           \/ ToPreset(k)
    PROVE  camera' \in Camera
<1>1. /\ camera \in Camera
      /\ k.client \in Clients
  BY CallTyped DEF TypeOK, ServerTypeOK, Camera
<1>2. CASE Halt(k) \/ ToPreset(k)
  BY <1>1, <1>2 DEF Halt, ToPreset, Camera
<1>3. ASSUME k.req.op \in {"ContinuousMove", "RelativeMove"}, Pan(k)
      PROVE  camera' \in Camera
  <2>1. k.req.x \in {-1, 0, 1}
    BY <1>3, CallTyped
  <2>2. [camera EXCEPT !.pan = k.req.x, !.by = k.client] \in Camera
    BY <1>1, <2>1 DEF Camera
  <2>3. QED BY <1>1, <1>3, <2>2 DEF Pan
<1>4. ASSUME k.req.op \in {"ContinuousMove", "RelativeMove"}, Tilt(k)
      PROVE  camera' \in Camera
  <2>1. k.req.y \in {-1, 0, 1}
    BY <1>4, CallTyped
  <2>2. [camera EXCEPT !.tilt = k.req.y, !.by = k.client] \in Camera
    BY <1>1, <2>1 DEF Camera
  <2>3. QED BY <1>1, <1>4, <2>2 DEF Tilt
<1>5. QED BY <1>2, <1>3, <1>4

\* A handler keeps the types.
LEMMA HandleTyped ==
    ASSUME TypeOK, NEW k \in calls, Handle(k)
    PROVE  /\ addr' = addr /\ waiting' = waiting
           /\ calls' \subseteq Call
           /\ camera' \in Camera
           /\ reply' \in [client : Clients, body : Body] \cup {NoReply}
<1>1. /\ k \in Call /\ k.client \in Clients
      /\ calls \subseteq Call /\ camera \in Camera
      /\ reply \in [client : Clients, body : Body] \cup {NoReply}
      /\ profiles \in [Names -> Profile \cup {NoProfile}]
  BY CallTyped DEF TypeOK, ServerTypeOK, ContextTypeOK
<1>2. CASE Unserved(k)
  BY <1>1, <1>2 DEF Unserved
<1>3. CASE GetStreamUri(k)
  <2>1. profiles[k.req.token] # NoProfile
          => profiles[k.req.token].url \in Urls \cup {NoUrl}
    BY <1>1, <1>3, CallTyped DEF GetStreamUri, Asks, Profile
  <2>2. PICK b \in Body : Send(k, b)
    BY <1>1, <1>3, <2>1, AnswersTyped DEF GetStreamUri
  <2>3. QED BY <1>1, <1>3, <2>2, SendTyped DEF GetStreamUri
<1>4. CASE GetSnapshotUri(k)
  <2>1. profiles[k.req.token] # NoProfile
          => profiles[k.req.token].snapurl \in Urls \cup {NoUrl}
    BY <1>1, <1>4, CallTyped DEF GetSnapshotUri, Asks, Profile
  <2>2. PICK b \in Body : Send(k, b)
    BY <1>1, <1>4, <2>1, AnswersTyped DEF GetSnapshotUri
  <2>3. QED BY <1>1, <1>4, <2>2, SendTyped DEF GetSnapshotUri
<1>5. CASE GetProfile(k)
  <2>1. {k.req.token} \in SUBSET Names
    BY <1>5, CallTyped DEF GetProfile, Asks
  <2>2. PICK b \in Body : Send(k, b)
    BY <1>1, <1>5, <2>1, AnswersTyped DEF GetProfile
  <2>3. QED BY <1>1, <1>5, <2>2, SendTyped DEF GetProfile
<1>6. CASE GetProfiles(k)
  <2>1. PICK b \in Body : Send(k, b)
    BY <1>1, <1>6, AnswersTyped DEF GetProfiles, Known
  <2>2. QED BY <1>1, <1>6, <2>1, SendTyped DEF GetProfiles
<1>7. CASE GetServices(k)
  <2>1. (k.req.IncludeCapability /\ SnapshotUri) \in BOOLEAN
    BY <1>7, CallTyped DEF GetServices, Asks, SnapshotUri
  <2>2. PICK b \in Body : Send(k, b)
    BY <1>1, <1>7, <2>1, AnswersTyped DEF GetServices
  <2>3. QED BY <1>1, <1>7, <2>2, SendTyped DEF GetServices
<1>8. CASE GetCapabilities(k)
  <2>1. PICK b \in Body : Send(k, b)
    BY <1>1, <1>8, AnswersTyped DEF GetCapabilities
  <2>2. QED BY <1>1, <1>8, <2>1, SendTyped DEF GetCapabilities
<1>9. CASE GetNetworkInterfaces(k)
  <2>1. PICK b \in Body : Send(k, b)
    BY <1>9, InterfacesTyped DEF GetNetworkInterfaces
  <2>2. QED BY <1>1, <1>9, <2>1, SendTyped DEF GetNetworkInterfaces
<1>10. CASE GetSystemDateAndTime(k)
  <2>1. PICK b \in Body : Send(k, b)
    BY <1>10, TimeTyped DEF GetSystemDateAndTime
  <2>2. QED BY <1>1, <1>10, <2>1, SendTyped DEF GetSystemDateAndTime
<1>11. CASE \/ GetDeviceInformation(k) \/ GetScopes(k) \/ GetUsers(k)
             \/ Empty(k)
  <2>1. PICK b \in Body : Send(k, b)
    BY <1>1, <1>11, AnswersTyped
       DEF GetDeviceInformation, GetScopes, GetUsers, Empty
  <2>2. QED BY <1>1, <1>11, <2>1, SendTyped
            DEF GetDeviceInformation, GetScopes, GetUsers, Empty
<1>12. CASE ContinuousPan(k)
  BY <1>1, <1>12, AdvanceTyped, CameraTyped DEF ContinuousPan, Asks, Steps
<1>13. CASE ContinuousTilt(k)
  BY <1>1, <1>13, AnswersTyped, SendTyped, CameraTyped DEF ContinuousTilt
<1>14. CASE RelativePan(k)
  <2>1. PICK to \in Steps : Advance(k, to)
    BY <1>14 DEF RelativePan, Steps
  <2>2. QED BY <1>1, <1>14, <2>1, AdvanceTyped, CameraTyped
            DEF RelativePan, Asks
<1>15. CASE RelativePanStop(k)
  BY <1>1, <1>15, AdvanceTyped, CameraTyped DEF RelativePanStop, Steps
<1>16. CASE RelativeTilt(k)
  <2>1. PICK to \in Steps : Advance(k, to)
    BY <1>16 DEF RelativeTilt, Steps
  <2>2. QED BY <1>1, <1>16, <2>1, AdvanceTyped, CameraTyped
            DEF RelativeTilt
<1>17. CASE RelativeTiltStop(k)
  BY <1>1, <1>17, AdvanceTyped, CameraTyped DEF RelativeTiltStop, Steps
<1>18. CASE RelativeDone(k)
  BY <1>1, <1>18, AnswersTyped, SendTyped DEF RelativeDone
<1>19. CASE Stop(k)
  BY <1>1, <1>19, AnswersTyped, SendTyped, CameraTyped DEF Stop
<1>20. CASE GotoPreset(k)
  BY <1>1, <1>20, AnswersTyped, SendTyped, CameraTyped DEF GotoPreset
<1>21. CASE GotoHomePosition(k)
  BY <1>1, <1>21, AnswersTyped, SendTyped, CameraTyped DEF GotoHomePosition
<1>22. CASE GetVideoSources(k)
  BY <1>1, <1>22, AnswersTyped, SendTyped DEF GetVideoSources
<1>23. CASE GetServiceCapabilities(k)
  BY <1>1, <1>23, AnswersTyped, SendTyped DEF GetServiceCapabilities
<1>24. CASE GetNodes(k) \/ GetPresets(k)
  BY <1>1, <1>24, AnswersTyped, SendTyped DEF GetNodes, GetPresets
<1>25. QED
  BY <1>2, <1>3, <1>4, <1>5, <1>6, <1>7, <1>8, <1>9, <1>10, <1>11, <1>12,
     <1>13, <1>14, <1>15, <1>16, <1>17, <1>18, <1>19, <1>20, <1>21, <1>22,
     <1>23, <1>24, Zenon DEF Handle

\* So does every other step.
LEMMA TypeStep == ASSUME TypeOK, [Next]_vars PROVE TypeOK'
<1>1. CASE UNCHANGED vars
  BY <1>1 DEF vars, ctxVars, serverVars, TypeOK, ContextTypeOK, ServerTypeOK
<1>2. CASE ContextNext /\ UNCHANGED serverVars
  BY <1>2, ContextTypeStep DEF TypeOK, ServerTypeOK, serverVars
<1>3. CASE Terminate
  <2>1. <<>> \in Seq(Clients)
    OBVIOUS
  <2>2. ContextTypeOK'
    BY <1>3 DEF Terminate, TypeOK, ContextTypeOK, Phases
  <2>3. QED BY <1>3, <2>1, <2>2 DEF Terminate, TypeOK, ServerTypeOK
<1>4. ASSUME UNCHANGED ctxVars,
             \/ Serve
             \/ \E c \in Clients : Connect(c)
             \/ \E i \in Interfaces : ChangeAddress(i)
      PROVE  TypeOK'
  <2>1. ContextTypeOK'
    BY <1>4 DEF TypeOK, ContextTypeOK, ctxVars
  <2>2. ASSUME NEW r \in Request, Accept(r) PROVE ServerTypeOK'
    <3>1. /\ Head(waiting) \in Clients
          /\ Tail(waiting) \in Seq(Clients)
      BY <2>2, HeadTailProperties DEF Accept, TypeOK, ServerTypeOK
    <3>2. [client |-> Head(waiting), req |-> r, pc |-> "read"] \in Call
      BY <3>1 DEF Call, Steps
    <3>3. QED BY <2>2, <3>1, <3>2 DEF Accept, TypeOK, ServerTypeOK
  <2>3. ASSUME NEW k \in calls, Handle(k) PROVE ServerTypeOK'
    BY <2>3, HandleTyped DEF TypeOK, ServerTypeOK
  <2>4. ASSUME NEW c \in Clients, Connect(c) PROVE ServerTypeOK'
    <3>1. Append(waiting, c) \in Seq(Clients)
      BY AppendProperties DEF TypeOK, ServerTypeOK
    <3>2. QED BY <2>4, <3>1 DEF Connect, TypeOK, ServerTypeOK
  <2>5. ASSUME NEW i \in Interfaces, ChangeAddress(i) PROVE ServerTypeOK'
    BY <2>5 DEF ChangeAddress, TypeOK, ServerTypeOK
  <2>6. QED BY <1>4, <2>1, <2>2, <2>3, <2>4, <2>5 DEF Serve, TypeOK
<1>5. QED BY <1>1, <1>2, <1>3, <1>4 DEF Next

-----------------------------------------------------------------------------
(* One request at a time, and what its RelativeMove has done so far *)

\* Of at most one request, only while the server serves, a camera at rest
\* between the pan and the tilt and at the end, and moved by nobody else.
OneCall == \A j, k \in calls : j = k
Serving == calls # {} => phase = "serving"
AtRest == camera.pan = 0 /\ camera.tilt = 0

MoveAt(pc, req, client) ==
    /\ pc \in {"pan_stop", "tilt_stop", "done"} => req.op = "RelativeMove"
    /\ pc = "pan_stop" => req.x # 0
    /\ pc = "tilt_stop" => req.y # 0
    /\ pc = "pan_stop" /\ PanCommand(req.x) \in moves => camera.by = client
    /\ pc = "tilt_stop" /\ TiltCommand(req.y) \in moves => camera.by = client
    /\ (pc = "tilt" /\ req.op = "RelativeMove" /\ req.x # 0
            /\ "stop" \in moves) => AtRest
    /\ (pc = "done" /\ (req.x # 0 \/ req.y # 0) /\ "stop" \in moves) => AtRest

Underway(k) == MoveAt(k.pc, k.req, k.client)

ServerInv == TypeOK /\ OneCall /\ Serving /\ \A k \in calls : Underway(k)

\* With one request, an answer leaves none and a step leaves one.
LEMMA SendLeavesNone ==
    ASSUME OneCall, NEW k \in calls, NEW body, Send(k, body)
    PROVE  calls' = {}
BY DEF OneCall, Send

LEMMA AdvanceLeavesOne ==
    ASSUME OneCall, NEW k \in calls, NEW to, Advance(k, to)
    PROVE  calls' = {[k EXCEPT !.pc = to]}
<1>1. calls = {k}
  BY DEF OneCall
<1>2. QED BY <1>1 DEF Advance

\* The handlers that take several steps, one after the other.
LEMMA MoveUnderway ==
    ASSUME ServerInv, NEW k \in calls, moves' = moves,
           \/ ContinuousPan(k) \/ RelativePan(k) \/ RelativePanStop(k)
           \/ RelativeTilt(k) \/ RelativeTiltStop(k)
    PROVE  \E to \in Steps : /\ calls' = {[k EXCEPT !.pc = to]}
                             /\ MoveAt(to, k.req, k.client)'
<1>1. /\ OneCall /\ Underway(k) /\ k \in Call
      /\ camera \in Camera
  BY CallTyped DEF ServerInv, TypeOK, ServerTypeOK
<1>2. k.req.op \in {"ContinuousMove", "RelativeMove"}
        => k.req.x \in {-1, 0, 1} /\ k.req.y \in {-1, 0, 1}
  BY CallTyped DEF ServerInv
<1>3. CASE ContinuousPan(k)
  <2>1. Advance(k, "tilt") /\ k.req.op = "ContinuousMove" /\ "tilt" \in Steps
    BY <1>3 DEF ContinuousPan, Asks, Steps
  <2>2. MoveAt("tilt", k.req, k.client)'
    BY <1>2, <2>1 DEF MoveAt
  <2>3. QED BY <1>1, <2>1, <2>2, AdvanceLeavesOne
<1>4. CASE RelativePan(k)
  <2>1. k.req.op = "RelativeMove" /\ Pan(k)
    BY <1>4 DEF RelativePan, Asks
  <2>2. CASE k.req.x # 0
    <3>1. Advance(k, "pan_stop") /\ "pan_stop" \in Steps
      BY <1>4, <2>2 DEF RelativePan, Steps
    <3>2. PanCommand(k.req.x) \in moves => camera'.by = k.client
      BY <1>1, <2>1, <2>2 DEF Pan, Camera
    <3>3. MoveAt("pan_stop", k.req, k.client)'
      BY <1>2, <2>1, <2>2, <3>1, <3>2 DEF MoveAt
    <3>4. QED BY <1>1, <3>1, <3>3, AdvanceLeavesOne
  <2>3. CASE k.req.x = 0
    <3>1. Advance(k, "tilt") /\ "tilt" \in Steps
      BY <1>4, <2>3 DEF RelativePan, Steps
    <3>2. MoveAt("tilt", k.req, k.client)'
      BY <1>2, <2>1, <2>3, <3>1 DEF MoveAt
    <3>3. QED BY <1>1, <3>1, <3>2, AdvanceLeavesOne
  <2>4. QED BY <2>2, <2>3
<1>5. CASE RelativePanStop(k)
  <2>1. /\ Advance(k, "tilt") /\ Halt(k) /\ "tilt" \in Steps
        /\ k.req.op = "RelativeMove"
    BY <1>1, <1>5 DEF RelativePanStop, Underway, MoveAt, Steps
  <2>2. "stop" \in moves => AtRest'
    BY <2>1 DEF Halt, AtRest
  <2>3. MoveAt("tilt", k.req, k.client)'
    BY <1>2, <2>1, <2>2 DEF MoveAt
  <2>4. QED BY <1>1, <2>1, <2>3, AdvanceLeavesOne
<1>6. CASE RelativeTilt(k)
  <2>1. k.req.op = "RelativeMove" /\ k.pc = "tilt" /\ Tilt(k)
    BY <1>6 DEF RelativeTilt
  <2>2. CASE k.req.y # 0
    <3>1. Advance(k, "tilt_stop") /\ "tilt_stop" \in Steps
      BY <1>6, <2>2 DEF RelativeTilt, Steps
    <3>2. TiltCommand(k.req.y) \in moves => camera'.by = k.client
      BY <1>1, <2>1, <2>2 DEF Tilt, Camera
    <3>3. MoveAt("tilt_stop", k.req, k.client)'
      BY <1>2, <2>1, <2>2, <3>1, <3>2 DEF MoveAt
    <3>4. QED BY <1>1, <3>1, <3>3, AdvanceLeavesOne
  <2>3. CASE k.req.y = 0
    <3>1. Advance(k, "done") /\ "done" \in Steps /\ camera' = camera
      BY <1>6, <2>1, <2>3 DEF RelativeTilt, Tilt, Steps
    <3>2. k.req.x # 0 /\ "stop" \in moves => AtRest'
      BY <1>1, <2>1, <3>1 DEF Underway, MoveAt, AtRest
    <3>3. MoveAt("done", k.req, k.client)'
      BY <1>2, <2>1, <2>3, <3>1, <3>2 DEF MoveAt
    <3>4. QED BY <1>1, <3>1, <3>3, AdvanceLeavesOne
  <2>4. QED BY <2>2, <2>3
<1>7. CASE RelativeTiltStop(k)
  <2>1. /\ Advance(k, "done") /\ Halt(k) /\ "done" \in Steps
        /\ k.req.op = "RelativeMove"
    BY <1>1, <1>7 DEF RelativeTiltStop, Underway, MoveAt, Steps
  <2>2. "stop" \in moves => AtRest'
    BY <2>1 DEF Halt, AtRest
  <2>3. MoveAt("done", k.req, k.client)'
    BY <1>2, <2>1, <2>2 DEF MoveAt
  <2>4. QED BY <1>1, <2>1, <2>3, AdvanceLeavesOne
<1>8. QED BY <1>3, <1>4, <1>5, <1>6, <1>7

\* Every other handler answers, or gives up, and leaves no request.
LEMMA OthersFinish ==
    ASSUME ServerInv, NEW k \in calls, Handle(k),
           ~ (\/ ContinuousPan(k) \/ RelativePan(k) \/ RelativePanStop(k)
              \/ RelativeTilt(k) \/ RelativeTiltStop(k))
    PROVE  calls' = {}
<1>1. OneCall
  BY DEF ServerInv
<1>2. CASE Unserved(k)
  BY <1>1, <1>2 DEF Unserved, OneCall
<1>3. ASSUME ~Unserved(k) PROVE \E body : Send(k, body)
  BY <1>3 DEF Handle, GetStreamUri, GetSnapshotUri, GetProfile, GetProfiles,
     GetVideoSources, GetServices, GetServiceCapabilities, GetCapabilities,
     GetNetworkInterfaces, GetSystemDateAndTime, GetNodes, GetPresets,
     GetDeviceInformation, GetScopes, GetUsers, Empty, ContinuousTilt,
     RelativeDone, Stop, GotoPreset, GotoHomePosition
<1>4. QED BY <1>1, <1>2, <1>3, SendLeavesNone

\* Every step keeps what a RelativeMove has done.
LEMMA InvStep == ASSUME ServerInv, [Next]_vars PROVE ServerInv'
<1>1. TypeOK'
  BY TypeStep DEF ServerInv
<1>2. CASE UNCHANGED vars
  <2>1. /\ calls' = calls /\ camera' = camera /\ moves' = moves
        /\ phase' = phase
    BY <1>2 DEF vars, ctxVars, serverVars
  <2>2. \A k \in calls : Underway(k)'
    BY <2>1 DEF ServerInv, Underway, MoveAt, AtRest
  <2>3. QED BY <1>1, <2>1, <2>2 DEF ServerInv, OneCall, Serving
<1>3. CASE ContextNext /\ UNCHANGED serverVars
  <2>1. calls' = calls
    BY <1>3 DEF serverVars
  <2>2. phase # "serving"
    BY <1>3 DEF ContextNext, SetField, CommitProfile, OpenInterface,
       SetTzFormat, SetText, AddScope, EnablePtz, SetMove, Refuse, EndOfOptions,
       CheckContext, Takes
  <2>3. calls' = {}
    BY <2>1, <2>2 DEF ServerInv, Serving
  <2>4. QED BY <1>1, <2>3 DEF ServerInv, OneCall, Serving
<1>4. CASE Terminate
  BY <1>1, <1>4 DEF Terminate, ServerInv, OneCall, Serving
<1>5. ASSUME UNCHANGED ctxVars, NEW r \in Request, Accept(r)
      PROVE  ServerInv'
  <2>1. /\ calls' = {[client |-> Head(waiting), req |-> r, pc |-> "read"]}
        /\ phase = "serving" /\ phase' = phase
    BY <1>5 DEF Accept, ctxVars
  <2>2. \A c : MoveAt("read", r, c)'
    BY DEF MoveAt
  <2>3. \A k \in calls' : Underway(k)'
    <3>1. ASSUME NEW k,
                 k = [client |-> Head(waiting), req |-> r, pc |-> "read"]
          PROVE  k.client = Head(waiting) /\ k.req = r /\ k.pc = "read"
      BY <3>1
    <3>2. \A k \in calls' :
            k.client = Head(waiting) /\ k.req = r /\ k.pc = "read"
      BY <2>1, <3>1, Zenon
    <3>3. QED BY <2>2, <3>2 DEF Underway
  <2>4. \E n : calls' = {n}
    BY <2>1, Zenon
  <2>5. OneCall' /\ Serving'
    <3>1. OneCall'
      BY <2>4 DEF OneCall
    <3>2. Serving'
      BY <2>1 DEF Serving
    <3>3. QED BY <3>1, <3>2
  <2>6. QED BY <1>1, <2>3, <2>5 DEF ServerInv
<1>6. ASSUME UNCHANGED ctxVars, NEW k \in calls, Handle(k)
      PROVE  ServerInv'
  <2>1. phase' = "serving" /\ moves' = moves
    BY <1>6 DEF ServerInv, Serving, ctxVars
  <2>2. CASE \/ ContinuousPan(k) \/ RelativePan(k) \/ RelativePanStop(k)
             \/ RelativeTilt(k) \/ RelativeTiltStop(k)
    <3>1. PICK to \in Steps : /\ calls' = {[k EXCEPT !.pc = to]}
                              /\ MoveAt(to, k.req, k.client)'
      BY <2>1, <2>2, MoveUnderway
    <3>2. k \in Call
      BY CallTyped DEF ServerInv
    <3>3. ASSUME NEW n, n = [k EXCEPT !.pc = to]
          PROVE  n.pc = to /\ n.req = k.req /\ n.client = k.client
      BY <3>2, <3>3 DEF Call
    <3>4. \A n \in calls' : n.pc = to /\ n.req = k.req /\ n.client = k.client
      BY <3>1, <3>3
    <3>5. \A n \in calls' : Underway(n)'
      BY <3>1, <3>4 DEF Underway
    <3>6. QED BY <1>1, <2>1, <3>1, <3>5 DEF ServerInv, OneCall, Serving
  <2>3. CASE ~ (\/ ContinuousPan(k) \/ RelativePan(k) \/ RelativePanStop(k)
                \/ RelativeTilt(k) \/ RelativeTiltStop(k))
    <3>1. calls' = {}
      BY <1>6, <2>3, OthersFinish
    <3>2. QED BY <1>1, <3>1 DEF ServerInv, OneCall, Serving
  <2>4. QED BY <2>2, <2>3
<1>7. ASSUME UNCHANGED ctxVars,
             \/ \E c \in Clients : Connect(c)
             \/ \E i \in Interfaces : ChangeAddress(i)
      PROVE  ServerInv'
  <2>1. /\ calls' = calls /\ camera' = camera /\ moves' = moves
        /\ phase' = phase
    BY <1>7 DEF Connect, ChangeAddress, ctxVars
  <2>2. \A k \in calls : Underway(k)'
    BY <2>1 DEF ServerInv, Underway, MoveAt, AtRest
  <2>3. QED BY <1>1, <2>1, <2>2 DEF ServerInv, OneCall, Serving
<1>8. QED BY <1>2, <1>3, <1>4, <1>5, <1>6, <1>7 DEF Next, Serve

LEMMA InitInv == ASSUME Init PROVE ServerInv
<1>1. /\ Cleared \in Profile /\ <<>> \in Seq(EthDev) /\ <<>> \in Seq(Clients)
      /\ <<>> \in Seq(Texts)
  BY DEF Cleared, Profile
<1>2. line \in CommandLines /\ Len(line) \in Nat
  BY ContextAssumption DEF Init, ContextInit
<1>3. pos \in 1..(Len(line) + 1)
  BY <1>2 DEF Init, ContextInit
<1>4. ContextTypeOK
  <2>1. /\ draft \in Profile /\ ifs \in Seq(EthDev) /\ scopes \in Seq(Texts)
        /\ sockets \subseteq Descriptors
    BY <1>1 DEF Init, ContextInit
  <2>2. profiles \in [Names -> Profile \cup {NoProfile}]
    BY DEF Init, ContextInit
  <2>3. /\ ptz \in BOOLEAN /\ moves \subseteq Commands
        /\ phase \in Phases
    BY DEF Init, ContextInit, Phases
  <2>4. tz \in 0..5
    BY DEF Init, ContextInit
  <2>5. texts \in [TextFields -> Texts]
    <3>1. DefaultTexts \in [TextFields -> Texts]
      BY ContextAssumption
    <3>2. texts = DefaultTexts
      BY DEF Init, ContextInit
    <3>3. QED BY <3>1, <3>2
  <2>6. QED BY <1>2, <1>3, <2>1, <2>2, <2>3, <2>4, <2>5 DEF ContextTypeOK
<1>5. ServerTypeOK
  BY <1>1 DEF Init, ServerTypeOK, Camera
<1>6. QED BY <1>4, <1>5 DEF Init, ServerInv, TypeOK, OneCall, Serving

\* At every moment at most one request is served and its RelativeMove has done
\* what its position says.
THEOREM ServerInvariant == Spec => []ServerInv
<1>1. Init => ServerInv
  BY InitInv
<1>2. ServerInv /\ [Next]_vars => ServerInv'
  BY InvStep
<1>3. QED BY <1>1, <1>2, PTL DEF Spec

\* Every variable of the context and of the server keeps its type.
THEOREM TypeCorrect == Spec => []TypeOK
<1>1. ServerInv => TypeOK
  BY DEF ServerInv
<1>2. QED BY <1>1, ServerInvariant, PTL

(* The sockets of the interfaces *)

\* open() of one more interface takes a descriptor that none of them has.
LEMMA OpenKeepsOpen ==
    ASSUME ContextTypeOK, InterfacesOpen, OpenInterface
    PROVE  InterfacesOpen'
<1>1. PICK f \in Descriptors : /\ f \notin sockets
                               /\ ifs' = Append(ifs, [dev |-> Val, sd |-> f])
                               /\ sockets' = sockets \cup {f}
  BY DEF OpenInterface, Opens
<1> DEFINE r == [dev |-> Val, sd |-> f]
           n == Len(ifs)
<1>2. r.sd = f
  OBVIOUS
<1>3. ifs \in Seq(EthDev) /\ n \in Nat /\ DOMAIN ifs = 1..n
  BY DEF ContextTypeOK
<1>4. ifs' = Append(ifs, r)
  BY <1>1
<1> HIDE DEF r
<1>5. /\ DOMAIN ifs' = 1..(n + 1)
      /\ ifs'[n + 1] = r
      /\ \A k \in 1..n : ifs'[k] = ifs[k]
  BY <1>3, <1>4
<1> HIDE DEF n
<1>6. \A k \in 1..n : ifs'[k].sd = ifs[k].sd /\ ifs[k].sd \in sockets
  BY <1>3, <1>5 DEF InterfacesOpen
<1>7. \A k \in DOMAIN ifs' : k \in 1..n \/ (k = n + 1 /\ ifs'[k].sd = f)
  BY <1>2, <1>3, <1>5
<1>8. sockets' = {ifs'[k].sd : k \in DOMAIN ifs'}
  <2>1. ASSUME NEW d \in sockets' PROVE \E k \in DOMAIN ifs' : ifs'[k].sd = d
    <3>1. CASE d = f
      BY <1>2, <1>3, <1>5, <3>1
    <3>2. CASE d # f
      <4>1. d \in sockets
        BY <1>1, <2>1, <3>2
      <4>2. PICK k \in 1..n : ifs[k].sd = d
        BY <1>3, <4>1 DEF InterfacesOpen
      <4>3. k \in DOMAIN ifs'
        BY <1>3, <1>5
      <4>4. QED BY <1>6, <4>2, <4>3
    <3>3. QED BY <3>1, <3>2
  <2>2. ASSUME NEW k \in DOMAIN ifs' PROVE ifs'[k].sd \in sockets'
    BY <1>1, <1>6, <1>7
  <2>3. QED BY <2>1, <2>2
<1>9. ASSUME NEW j \in DOMAIN ifs', NEW k \in DOMAIN ifs',
             ifs'[j].sd = ifs'[k].sd
      PROVE  j = k
  <2>1. CASE j \in 1..n /\ k \in 1..n
    BY <1>3, <1>6, <1>9, <2>1 DEF InterfacesOpen
  <2>2. CASE ~ (j \in 1..n /\ k \in 1..n)
    BY <1>1, <1>6, <1>7, <1>9, <2>2
  <2>3. QED BY <2>1, <2>2
<1>10. QED BY <1>8, <1>9 DEF InterfacesOpen

\* No other step opens, closes or copies a socket.
LEMMA OpenStep ==
    ASSUME TypeOK, InterfacesOpen, [Next]_vars
    PROVE  InterfacesOpen'
<1>1. CASE OpenInterface
  BY <1>1, OpenKeepsOpen DEF TypeOK
<1>2. CASE ~OpenInterface
  <2>1. ifs' = ifs /\ sockets' = sockets
    BY <1>2 DEF Next, vars, ctxVars, Terminate, ContextNext, SetField,
       CommitProfile, SetTzFormat, SetText, AddScope, EnablePtz, SetMove,
       Refuse, EndOfOptions, CheckContext
  <2>2. QED BY <2>1 DEF InterfacesOpen
<1>3. QED BY <1>1, <1>2

\* Every interface of the server has a socket of its own, however often the
\* vector that holds them has been copied.
THEOREM InterfacesAreOpen == Spec => []InterfacesOpen
<1>1. Init => InterfacesOpen
  BY DEF Init, ContextInit, InterfacesOpen
<1>2. TypeOK /\ InterfacesOpen /\ [Next]_vars => InterfacesOpen'
  BY OpenStep
<1>3. QED BY <1>1, <1>2, TypeCorrect, PTL DEF Spec

\* From the move command of a RelativeMove to its stop command nobody else's
\* command reaches the camera, for any number of clients.
THEOREM MotionIsExclusive == Spec => []MotionExclusive
<1>1. ServerInv => MotionExclusive
  BY DEF ServerInv, Underway, MoveAt, MotionExclusive
<1>2. QED BY <1>1, ServerInvariant, PTL

\* A RelativeMove that is answered leaves the camera at rest, whatever
\* ContinuousMove came before it.
THEOREM RelativeMoveEndsStill == Spec => RelativeEndsStill
<1> DEFINE Still ==
        \A k \in calls \ calls' :
            (k.pc = "done" /\ (k.req.x # 0 \/ k.req.y # 0)
                /\ "stop" \in moves /\ phase' = "serving")
                    => camera'.pan = 0 /\ camera'.tilt = 0
<1>1. ASSUME ServerInv, [Next]_vars PROVE Still
  <2> SUFFICES ASSUME NEW k \in calls, k \notin calls', k.pc = "done",
                      k.req.x # 0 \/ k.req.y # 0, "stop" \in moves,
                      phase' = "serving"
               PROVE  camera'.pan = 0 /\ camera'.tilt = 0
    OBVIOUS
  <2>1. AtRest /\ calls = {k}
    BY <1>1 DEF ServerInv, OneCall, Underway, MoveAt
  <2>2. camera' = camera
    <3>1. ~UNCHANGED calls
      OBVIOUS
    <3>2. ~Terminate
      BY DEF Terminate
    <3>3. PICK j \in calls : Handle(j)
      BY <1>1, <2>1, <3>1, <3>2
         DEF Next, Serve, Accept, Connect, ChangeAddress, vars, serverVars
    <3>4. j = k
      BY <2>1
    <3>5. QED
      BY <3>3, <3>4 DEF Handle, Asks, Unserved, GetStreamUri, GetSnapshotUri,
         GetProfile, GetProfiles, GetVideoSources, GetServices,
         GetServiceCapabilities, GetCapabilities, GetNetworkInterfaces,
         GetSystemDateAndTime, GetNodes, GetPresets, GetDeviceInformation,
         GetScopes, GetUsers, Empty, ContinuousPan,
         ContinuousTilt, RelativePan, RelativePanStop, RelativeTilt,
         RelativeTiltStop, RelativeDone, Stop, GotoPreset, GotoHomePosition
  <2>3. QED BY <2>1, <2>2 DEF AtRest
<1>2. ServerInv /\ [Next]_vars => [Still]_vars
  BY <1>1
<1>3. QED BY <1>2, ServerInvariant, PTL DEF Spec, RelativeEndsStill

-----------------------------------------------------------------------------
(* The address a client is told *)

\* As long as every interface has an address, the search for the client's
\* subnet finds what there is to find.
LEMMA HostReaches ==
    ASSUME TypeOK, NEW c, NEW h \in ServerIps(c),
           \A j \in DOMAIN ifs : addr[ifs[j].dev] # NoAddress
    PROVE  LET own == {addr[ifs[j].dev] : j \in DOMAIN ifs}
               near == {a \in own : c \in Subnet[a]}
           IN  /\ near # {} /\ Len(ifs) > 1 => h \in near
               /\ near = {} /\ Len(ifs) > 1 => h = Localhost
               /\ Len(ifs) = 1 => h \in own
<1> DEFINE own == {addr[ifs[j].dev] : j \in DOMAIN ifs}
           near == {a \in own : c \in Subnet[a]}
<1>1. Len(ifs) \in Nat /\ DOMAIN ifs = 1..Len(ifs)
  BY DEF TypeOK, ContextTypeOK
<1>2. \A j \in DOMAIN ifs : /\ AddressOf(ifs[j].dev) = addr[ifs[j].dev]
                            /\ MayMatch(ifs[j].dev, c)
                                <=> addr[ifs[j].dev] \in near
                            /\ MayDiffer(ifs[j].dev, c)
                                <=> addr[ifs[j].dev] \notin near
  BY DEF AddressOf, MayMatch, MayDiffer
<1>3. CASE Len(ifs) = 1
  BY <1>1, <1>2, <1>3 DEF ServerIps
<1>4. CASE Len(ifs) # 1
  <2>1. \/ \E k \in DOMAIN ifs : h = addr[ifs[k].dev] /\ h \in near
        \/ h = Localhost /\ \A k \in DOMAIN ifs : addr[ifs[k].dev] \notin near
    BY <1>2, <1>4 DEF ServerIps
  <2>2. (\A k \in DOMAIN ifs : addr[ifs[k].dev] \notin near) => near = {}
    OBVIOUS
  <2>3. QED BY <1>4, <2>1, <2>2
<1>5. QED BY <1>3, <1>4

\* Only GetServices and GetCapabilities tell a client where the services are.
LEMMA ServicesAreSent ==
    ASSUME TypeOK, [Next]_vars, reply' # reply, reply' # NoReply,
           reply'.body.kind = "services"
    PROVE  \E k \in calls, s \in BOOLEAN :
               reply'.client = k.client /\ reply'.body \in Services(k.client, s)
<1>1. PICK k \in calls : Handle(k)
  BY DEF Next, vars, serverVars, Serve, Accept, Connect, ChangeAddress,
     Terminate
<1>2. ASSUME NEW b, Send(k, b)
      PROVE  reply'.client = k.client /\ reply'.body = b
  BY <1>2 DEF Send
<1>3. ASSUME NEW b, Send(k, b), b.kind # "services" PROVE FALSE
  BY <1>2, <1>3
<1>4. CASE GetServices(k)
  <2>1. PICK b \in Services(k.client, k.req.IncludeCapability /\ SnapshotUri) :
            Send(k, b)
    BY <1>4 DEF GetServices
  <2>2. (k.req.IncludeCapability /\ SnapshotUri) \in BOOLEAN
    OBVIOUS
  <2>3. QED BY <1>2, <2>1, <2>2
<1>5. CASE GetCapabilities(k)
  BY <1>2, <1>5 DEF GetCapabilities
<1>6. CASE \/ Unserved(k) \/ ContinuousPan(k) \/ RelativePan(k)
           \/ RelativePanStop(k) \/ RelativeTilt(k) \/ RelativeTiltStop(k)
  BY <1>6 DEF Unserved, ContinuousPan, RelativePan, RelativePanStop,
     RelativeTilt, RelativeTiltStop
<1>7. CASE GetStreamUri(k) \/ GetSnapshotUri(k)
  <2>1. \E p : Send(k, Fault) \/ \E b \in Uris(p, k.client) : Send(k, b)
    BY <1>7 DEF GetStreamUri, GetSnapshotUri
  <2>2. ASSUME NEW p, NEW b \in Uris(p, k.client) PROVE b.kind # "services"
    BY DEF Uris
  <2>3. QED BY <1>3, <2>1, <2>2 DEF Fault
<1>8. CASE GetProfile(k) \/ GetProfiles(k) \/ GetVideoSources(k)
  BY <1>3, <1>8 DEF GetProfile, GetProfiles, GetVideoSources, Described, Fault
<1>9. CASE GetServiceCapabilities(k) \/ GetNetworkInterfaces(k)
  BY <1>3, <1>9 DEF GetServiceCapabilities, GetNetworkInterfaces
<1>10. CASE GetSystemDateAndTime(k)
  BY <1>3, <1>10 DEF GetSystemDateAndTime, TimeZone
<1>11. CASE GetNodes(k) \/ GetPresets(k) \/ GetDeviceInformation(k)
  BY <1>3, <1>11 DEF GetNodes, GetPresets, GetDeviceInformation
<1>12. CASE GetScopes(k) \/ GetUsers(k)
  BY <1>3, <1>12 DEF GetScopes, GetUsers
<1>13. CASE \/ Empty(k) \/ ContinuousTilt(k) \/ RelativeDone(k) \/ Stop(k)
            \/ GotoPreset(k) \/ GotoHomePosition(k)
  BY <1>3, <1>13 DEF Empty, ContinuousTilt, RelativeDone, Stop, GotoPreset,
     GotoHomePosition, Done
<1>14. QED BY <1>1, <1>4, <1>5, <1>6, <1>7, <1>8, <1>9, <1>10, <1>11, <1>12,
              <1>13 DEF Handle

\* The host a client is told to talk to is one it can reach, whatever the
\* addresses are and however many interfaces there are.
THEOREM AddressesReachClients == Spec => AddressReachesClient
<1> DEFINE Reaches ==
        \A k \in calls :
            (/\ reply' # reply /\ reply' # NoReply
             /\ k.client = reply'.client /\ reply'.body.kind = "services"
             /\ \A j \in DOMAIN ifs : addr[ifs[j].dev] # NoAddress) =>
            LET own == {addr[ifs[j].dev] : j \in DOMAIN ifs}
                near == {a \in own : k.client \in Subnet[a]}
            IN  /\ near # {} /\ Len(ifs) > 1 => reply'.body.host \in near
                /\ near = {} /\ Len(ifs) > 1 => reply'.body.host = Localhost
                /\ Len(ifs) = 1 => reply'.body.host \in own
<1>1. ASSUME TypeOK, [Next]_vars PROVE Reaches
  <2> SUFFICES ASSUME NEW k \in calls, reply' # reply, reply' # NoReply,
                      k.client = reply'.client,
                      reply'.body.kind = "services",
                      \A j \in DOMAIN ifs : addr[ifs[j].dev] # NoAddress
               PROVE  LET own == {addr[ifs[j].dev] : j \in DOMAIN ifs}
                          near == {a \in own : k.client \in Subnet[a]}
                      IN  /\ near # {} /\ Len(ifs) > 1
                                => reply'.body.host \in near
                          /\ near = {} /\ Len(ifs) > 1
                                => reply'.body.host = Localhost
                          /\ Len(ifs) = 1 => reply'.body.host \in own
    OBVIOUS
  <2>1. PICK s \in BOOLEAN : reply'.body \in Services(k.client, s)
    BY <1>1, ServicesAreSent
  <2>2. reply'.body.host \in ServerIps(k.client)
    BY <2>1 DEF Services
  <2>3. QED BY <1>1, <2>2, HostReaches
<1>2. TypeOK /\ [Next]_vars => [Reaches]_vars
  BY <1>1
<1>3. QED BY <1>2, TypeCorrect, PTL DEF Spec, AddressReachesClient

-----------------------------------------------------------------------------
(* The time zone *)

\* The machine is in a zone of whole hours.
WholeHours == \A o \in Offsets : \E n \in Int : o = n * 3600

\* What is printed of a whole number of hours is that number and no minutes.
LEMMA HoursOfHours ==
    ASSUME NEW n \in Int, NEW o, o = n * 3600
    PROVE  Hours(o) = n /\ Magnitude(o) % 60 = 0
<1>1. CASE n < 0
  <2>1. Magnitude(o) = (-n) * 3600 /\ -n \in Nat /\ o < 0
    BY <1>1 DEF Magnitude
  <2>2. ((-n) * 3600) \div 3600 = -n /\ ((-n) * 3600) % 60 = 0
    BY <2>1
  <2>3. QED BY <2>1, <2>2 DEF Hours
<1>2. CASE n >= 0
  <2>1. Magnitude(o) = o /\ ~(o < 0)
    BY <1>2 DEF Magnitude
  <2>2. o \div 3600 = n /\ o % 60 = 0
    BY <1>2
  <2>3. QED BY <2>1, <2>2 DEF Hours
<1>3. QED BY <1>1, <1>2

\* Only GetSystemDateAndTime tells a client the time.
LEMMA TimeIsSent ==
    ASSUME [Next]_vars, reply' # reply, reply' # NoReply,
           reply'.body.kind = "time"
    PROVE  \E o \in Offsets : reply'.body = TimeZone(o)
<1>1. PICK k \in calls : Handle(k)
  BY DEF Next, vars, serverVars, Serve, Accept, Connect, ChangeAddress,
     Terminate
<1>2. ASSUME NEW b, Send(k, b)
      PROVE  reply'.body = b
  BY <1>2 DEF Send
<1>3. ASSUME NEW b, Send(k, b), b.kind # "time" PROVE FALSE
  BY <1>2, <1>3
<1>4. CASE GetSystemDateAndTime(k)
  <2>1. PICK o \in Offsets : Send(k, TimeZone(o))
    BY <1>4 DEF GetSystemDateAndTime
  <2>2. QED BY <1>2, <2>1
<1>5. CASE GetServices(k) \/ GetCapabilities(k)
  <2>1. \E s, b : b \in Services(k.client, s) /\ Send(k, b)
    BY <1>5 DEF GetServices, GetCapabilities
  <2>2. ASSUME NEW s, NEW b \in Services(k.client, s) PROVE b.kind # "time"
    BY DEF Services
  <2>3. QED BY <1>3, <2>1, <2>2
<1>6. CASE \/ Unserved(k) \/ ContinuousPan(k) \/ RelativePan(k)
           \/ RelativePanStop(k) \/ RelativeTilt(k) \/ RelativeTiltStop(k)
  BY <1>6 DEF Unserved, ContinuousPan, RelativePan, RelativePanStop,
     RelativeTilt, RelativeTiltStop
<1>7. CASE GetStreamUri(k) \/ GetSnapshotUri(k)
  <2>1. \E p : Send(k, Fault) \/ \E b \in Uris(p, k.client) : Send(k, b)
    BY <1>7 DEF GetStreamUri, GetSnapshotUri
  <2>2. ASSUME NEW p, NEW b \in Uris(p, k.client) PROVE b.kind # "time"
    BY DEF Uris
  <2>3. QED BY <1>3, <2>1, <2>2 DEF Fault
<1>8. CASE GetProfile(k) \/ GetProfiles(k) \/ GetVideoSources(k)
  BY <1>3, <1>8 DEF GetProfile, GetProfiles, GetVideoSources, Described, Fault
<1>9. CASE GetServiceCapabilities(k) \/ GetNetworkInterfaces(k)
  BY <1>3, <1>9 DEF GetServiceCapabilities, GetNetworkInterfaces
<1>10. CASE GetNodes(k) \/ GetPresets(k) \/ GetDeviceInformation(k)
  BY <1>3, <1>10 DEF GetNodes, GetPresets, GetDeviceInformation
<1>11. CASE GetScopes(k) \/ GetUsers(k)
  BY <1>3, <1>11 DEF GetScopes, GetUsers
<1>12. CASE \/ Empty(k) \/ ContinuousTilt(k) \/ RelativeDone(k) \/ Stop(k)
            \/ GotoPreset(k) \/ GotoHomePosition(k)
  BY <1>3, <1>12 DEF Empty, ContinuousTilt, RelativeDone, Stop, GotoPreset,
     GotoHomePosition, Done
<1>13. QED BY <1>1, <1>4, <1>5, <1>6, <1>7, <1>8, <1>9, <1>10, <1>11, <1>12
           DEF Handle

\* The zone printed with the time is the offset of that time, for any set of
\* zones that are whole hours from UTC; those that are not are the divergence
\* the run zone_loses_minutes shows.
THEOREM ZonesAreOffsets ==
    ASSUME WholeHours PROVE Spec => []ZoneIsOffset
<1>1. Init => ZoneIsOffset
  BY DEF Init, ZoneIsOffset
<1>2. ASSUME NEW o \in Offsets, TypeOK
      PROVE  LET b == TimeZone(o)
                 h == IF b.format \in {1, 3} THEN -b.hours ELSE b.hours
                 m == IF b.offset < 0 THEN -b.minutes ELSE b.minutes
             IN  h * 3600 + m * 60 = b.offset
  <2>1. PICK n \in Int : o = n * 3600
    BY WholeHours DEF WholeHours
  <2>2. Hours(o) = n /\ Magnitude(o) % 60 = 0
    BY <2>1, HoursOfHours
  <2>3. QED BY <2>1, <2>2 DEF TimeZone
<1>3. TypeOK /\ ZoneIsOffset /\ [Next]_vars => ZoneIsOffset'
  <2> SUFFICES ASSUME TypeOK, ZoneIsOffset, [Next]_vars
               PROVE  ZoneIsOffset'
    OBVIOUS
  <2>1. CASE reply' = reply
    BY <2>1 DEF ZoneIsOffset
  <2>2. CASE reply' # reply
    <3> SUFFICES ASSUME reply' # NoReply, reply'.body.kind = "time"
                 PROVE  ZoneIsOffset'
      BY DEF ZoneIsOffset
    <3>1. PICK o \in Offsets : reply'.body = TimeZone(o)
      BY <2>2, TimeIsSent
    <3>2. QED BY <1>2, <3>1 DEF ZoneIsOffset
  <2>3. QED BY <2>1, <2>2
<1>4. QED BY <1>1, <1>3, TypeCorrect, PTL DEF Spec

-----------------------------------------------------------------------------
(* The profiles of the command line *)

DraftFields == {"name", "width", "height", "url", "snapurl"}

\* The positions of the --type options that have been read.
TypesRead == {k \in 1..(pos - 1) : line[k].opt = "type"}

Committed == {n \in Names : profiles[n] # NoProfile}

\* A field of p is the last of its values between positions j and k.
FieldAsGiven(p, f, j, k) ==
    \/ p[f] = Cleared[f] /\ Given(f, j, k) = {}
    \/ \E m \in Given(f, j, k) : Given(f, m, k) = {} /\ p[f] = line[m].val

\* The draft has what was given since the last --type.
DraftAsWritten ==
    \A j \in TypesRead \cup {0} :
        Given("type", j, pos) = {} =>
            \A f \in DraftFields : FieldAsGiven(draft, f, j, pos)

\* A profile has what was given between its --type and the one before.
EachAsWritten ==
    \A k \in TypesRead, j \in TypesRead \cup {0} :
        (j < k /\ Given("type", j, k) = {}) =>
            \E p \in Profile :
                /\ IsValid(p) /\ profiles[p.name] = p
                /\ p.type = line[k].val
                /\ \A f \in DraftFields : FieldAsGiven(p, f, j, k)

\* As many profiles as there are --type options.
OneForEach ==
    /\ IsFiniteSet(Committed) /\ IsFiniteSet(TypesRead)
    /\ Cardinality(Committed) = Cardinality(TypesRead)

WrittenInv == TypeOK /\ DraftAsWritten /\ EachAsWritten /\ OneForEach

\* What the invariant says of a profile is what the property says of it.
LEMMA WrittenImplies == WrittenInv => ProfilesAsWritten
<1> SUFFICES ASSUME WrittenInv PROVE ProfilesAsWritten
  OBVIOUS
<1> DEFINE ends == {k \in 1..(pos - 1) : line[k].opt = "type"}
           Written(j, k) ==
              \E n \in Given("name", j, k) :
              LET p == profiles[line[n].val]
              IN  /\ p # NoProfile
                  /\ p.type = line[k].val
                  /\ \A f \in {"name", "width", "height", "url"} :
                      \E m \in Given(f, j, k) :
                          /\ Given(f, m, k) = {}
                          /\ p[f] = line[m].val
                  /\ \/ p.snapurl = NoUrl /\ Given("snapurl", j, k) = {}
                     \/ \E m \in Given("snapurl", j, k) :
                          /\ Given("snapurl", m, k) = {}
                          /\ p.snapurl = line[m].val
<1>1. Cardinality({n \in Names : profiles[n] # NoProfile})
        = Cardinality({k \in 1..(pos - 1) : line[k].opt = "type"})
  BY DEF WrittenInv, OneForEach, Committed, TypesRead
<1>2. ASSUME NEW j \in TypesRead \cup {0}, NEW k \in TypesRead, j < k,
             Given("type", j, k) = {}
      PROVE  Written(j, k)
  <2>1. PICK p \in Profile : /\ IsValid(p) /\ profiles[p.name] = p
                             /\ p.type = line[k].val
                             /\ \A f \in DraftFields : FieldAsGiven(p, f, j, k)
    BY <1>2 DEF WrittenInv, EachAsWritten
  <2>2. \A f \in {"name", "width", "height", "url"} :
            \E m \in Given(f, j, k) : Given(f, m, k) = {} /\ p[f] = line[m].val
    <3>1. /\ p["name"] # Cleared["name"] /\ p["width"] # Cleared["width"]
          /\ p["height"] # Cleared["height"] /\ p["url"] # Cleared["url"]
      BY <2>1 DEF IsValid, Cleared
    <3>2. QED BY <2>1, <3>1 DEF FieldAsGiven, DraftFields
  <2>3. FieldAsGiven(p, "snapurl", j, k)
    BY <2>1 DEF DraftFields
  <2>4. \/ p.snapurl = NoUrl /\ Given("snapurl", j, k) = {}
        \/ \E m \in Given("snapurl", j, k) :
                Given("snapurl", m, k) = {} /\ p.snapurl = line[m].val
    BY <2>3 DEF FieldAsGiven, Cleared
  <2>5. PICK n \in Given("name", j, k) : p["name"] = line[n].val
    BY <2>2
  <2>6. profiles[line[n].val] = p
    BY <2>1, <2>5
  <2>7. p # NoProfile
    BY ContextAssumption
  <2>8. QED BY <2>1, <2>2, <2>4, <2>6, <2>7
<1>3. ends = TypesRead
  BY DEF TypesRead
<1> HIDE DEF ends, Written
<1>4. \A j \in ends \cup {0}, k \in ends :
        (j < k /\ Given("type", j, k) = {}) => Written(j, k)
  BY <1>2, <1>3
<1>5. QED BY <1>1, <1>4 DEF ProfilesAsWritten, ends, Written

\* What has been read when one more option is.
LEMMA GivenGrows ==
    ASSUME ContextTypeOK, pos <= Len(line), NEW o, NEW j \in Nat
    PROVE  /\ pos \in Nat
           /\ line[pos].opt = o /\ j < pos
                => Given(o, j, pos + 1) = Given(o, j, pos) \cup {pos}
           /\ line[pos].opt # o => Given(o, j, pos + 1) = Given(o, j, pos)
           /\ Given(o, pos, pos + 1) = {}
  BY ContextAssumption DEF ContextTypeOK, Given

\* A step that reads an option other than --type.
LEMMA OtherOptionRead ==
    ASSUME WrittenInv, TypeOK', pos <= Len(line), pos' = pos + 1,
           line[pos].opt # "type", UNCHANGED <<line, profiles>>,
           \A f \in DraftFields :
              draft'[f] = IF f = line[pos].opt THEN line[pos].val ELSE draft[f]
    PROVE  WrittenInv'
<1>1. pos \in Nat /\ TypesRead' = TypesRead
  BY GivenGrows DEF TypesRead, WrittenInv, TypeOK
<1>2. DraftAsWritten'
  <2>a. \A o, i : Given(o, i, pos)' = Given(o, i, pos + 1)
    BY DEF Given
  <2>b. ASSUME NEW f, NEW j,
               \/ draft'[f] = Cleared[f] /\ Given(f, j, pos + 1) = {}
               \/ \E m \in Given(f, j, pos + 1) :
                    Given(f, m, pos + 1) = {} /\ draft'[f] = line[m].val
        PROVE  FieldAsGiven(draft, f, j, pos)'
    BY <2>a, <2>b DEF FieldAsGiven, Cleared
  <2>c. ASSUME NEW j \in TypesRead \cup {0}, Given("type", j, pos)' = {},
               NEW f \in DraftFields
        PROVE  FieldAsGiven(draft, f, j, pos)'
    <3>1. j \in Nat /\ j < pos
      BY <1>1 DEF TypesRead, WrittenInv, TypeOK, ContextTypeOK
    <3>2. Given("type", j, pos) = {}
      BY <2>a, <2>c, <3>1, GivenGrows DEF WrittenInv, TypeOK
    <3>3. FieldAsGiven(draft, f, j, pos)
      BY <3>2 DEF WrittenInv, DraftAsWritten
    <3>4. CASE f = line[pos].opt
      <4>1. pos \in Given(f, j, pos + 1) /\ Given(f, pos, pos + 1) = {}
        BY <3>1, <3>4, GivenGrows DEF WrittenInv, TypeOK
      <4>2. draft'[f] = line[pos].val
        BY <3>4
      <4>3. QED BY <2>b, <4>1, <4>2
    <3>5. CASE f # line[pos].opt
      <4>1. Given(f, j, pos + 1) = Given(f, j, pos)
        BY <3>1, <3>5, GivenGrows DEF WrittenInv, TypeOK
      <4>2. \A m \in Given(f, j, pos) : Given(f, m, pos + 1) = Given(f, m, pos)
        <5>1. \A m \in Given(f, j, pos) : m \in Nat
          BY <1>1, <3>1 DEF Given
        <5>2. QED BY <3>5, <5>1, GivenGrows DEF WrittenInv, TypeOK
      <4>3. draft'[f] = draft[f]
        BY <3>5
      <4>4. \/ draft'[f] = Cleared[f] /\ Given(f, j, pos + 1) = {}
            \/ \E m \in Given(f, j, pos + 1) :
                 Given(f, m, pos + 1) = {} /\ draft'[f] = line[m].val
        BY <3>3, <4>1, <4>2, <4>3 DEF FieldAsGiven
      <4>5. QED BY <2>b, <4>4
    <3>6. QED BY <3>4, <3>5
  <2>d. QED BY <1>1, <2>c DEF DraftAsWritten
<1>3. EachAsWritten'
  BY <1>1 DEF WrittenInv, EachAsWritten, FieldAsGiven, Given
<1>4. OneForEach'
  BY <1>1 DEF WrittenInv, OneForEach, Committed
<1>5. QED BY <1>2, <1>3, <1>4 DEF WrittenInv

\* A setter changes the field it is for.
LEMMA SetterRead ==
    ASSUME ContextTypeOK, SetField
    PROVE  \A f \in DraftFields :
              draft'[f] = IF f = line[pos].opt THEN line[pos].val ELSE draft[f]
<1>1. /\ draft \in Profile
      /\ draft' = [draft EXCEPT ![line[pos].opt] = line[pos].val]
  BY DEF ContextTypeOK, SetField, Val
<1>2. line[pos].opt \in DraftFields
  BY DEF SetField, Takes, DraftFields
<1>3. CASE line[pos].opt = "name"
  BY <1>1, <1>3 DEF Profile, DraftFields
<1>4. CASE line[pos].opt = "width"
  BY <1>1, <1>4 DEF Profile, DraftFields
<1>5. CASE line[pos].opt = "height"
  BY <1>1, <1>5 DEF Profile, DraftFields
<1>6. CASE line[pos].opt = "url"
  BY <1>1, <1>6 DEF Profile, DraftFields
<1>7. CASE line[pos].opt = "snapurl"
  BY <1>1, <1>7 DEF Profile, DraftFields
<1>8. QED BY <1>2, <1>3, <1>4, <1>5, <1>6, <1>7 DEF DraftFields

\* --type turns the draft into one profile more.
LEMMA TypeRead ==
    ASSUME WrittenInv, TypeOK', CommitProfile
    PROVE  WrittenInv'
<1> DEFINE p == [draft EXCEPT !.type = Val]
<1>1. /\ pos \in Nat /\ pos > 0 /\ pos <= Len(line) /\ line[pos].opt = "type"
      /\ pos' = pos + 1 /\ UNCHANGED line
      /\ Val \in Types /\ IsValid(p) /\ profiles[p.name] = NoProfile
      /\ profiles' = [profiles EXCEPT ![p.name] = p]
      /\ draft' = Cleared
      /\ draft \in Profile /\ profiles \in [Names -> Profile \cup {NoProfile}]
      /\ Val = line[pos].val
  BY DEF CommitProfile, Takes, Val, WrittenInv, TypeOK, ContextTypeOK
<1>2. /\ p \in Profile /\ p.type = line[pos].val
      /\ \A f \in DraftFields : p[f] = draft[f]
  BY <1>1 DEF Profile, DraftFields
<1>3. p.name \in Names
  BY <1>1, <1>2 DEF Profile, IsValid
<1> HIDE DEF p
<1>4. p # NoProfile
  BY <1>2, ContextAssumption
<1>5. /\ profiles'[p.name] = p
      /\ \A n \in Names \ {p.name} : profiles'[n] = profiles[n]
  BY <1>1, <1>3
<1>6. TypesRead' = TypesRead \cup {pos} /\ pos \notin TypesRead
  BY <1>1 DEF TypesRead
<1>7. DraftAsWritten'
  <2> SUFFICES ASSUME NEW j \in TypesRead' \cup {0},
                      Given("type", j, pos + 1) = {}, NEW f \in DraftFields
               PROVE  Cleared[f] = Cleared[f] /\ Given(f, j, pos + 1) = {}
    BY <1>1 DEF DraftAsWritten, FieldAsGiven, Given
  <2>1. j \in Nat /\ j <= pos
    BY <1>1, <1>6 DEF TypesRead
  <2>2. j = pos
    <3>1. j < pos => pos \in Given("type", j, pos + 1)
      BY <1>1, <2>1 DEF Given
    <3>2. QED BY <1>1, <2>1, <3>1
  <2>3. QED BY <1>1, <2>2, GivenGrows DEF WrittenInv, TypeOK
<1>8. EachAsWritten'
  <2> SUFFICES ASSUME NEW k \in TypesRead', NEW j \in TypesRead' \cup {0},
                      j < k, Given("type", j, k) = {}
               PROVE  \E q \in Profile :
                        /\ IsValid(q) /\ profiles'[q.name] = q
                        /\ q.type = line[k].val
                        /\ \A f \in DraftFields : FieldAsGiven(q, f, j, k)
    BY <1>1 DEF EachAsWritten, FieldAsGiven, Given
  <2>1. \A i \in TypesRead \cup {0} : i \in Nat /\ i < pos
    BY <1>1 DEF TypesRead
  <2>2. j \in TypesRead \cup {0}
    BY <1>1, <1>6, <2>1
  <2>3. CASE k = pos
    <3>1. \A f \in DraftFields : FieldAsGiven(draft, f, j, k)
      BY <2>2, <2>3 DEF WrittenInv, DraftAsWritten
    <3>2. \A f \in DraftFields : FieldAsGiven(p, f, j, k)
      BY <1>2, <3>1 DEF FieldAsGiven
    <3>3. QED BY <1>1, <1>2, <1>5, <2>3, <3>2
  <2>4. CASE k # pos
    <3>1. k \in TypesRead
      BY <1>6, <2>4
    <3>2. PICK q \in Profile : /\ IsValid(q) /\ profiles[q.name] = q
                               /\ q.type = line[k].val
                               /\ \A f \in DraftFields :
                                    FieldAsGiven(q, f, j, k)
      BY <2>2, <3>1 DEF WrittenInv, EachAsWritten
    <3>3. q # NoProfile /\ q.name \in Names
      BY <3>2, ContextAssumption DEF IsValid, Profile
    <3>4. profiles'[q.name] = q
      BY <1>1, <1>5, <3>2, <3>3
    <3>5. QED BY <3>2, <3>4
  <2>5. QED BY <2>3, <2>4
<1>9. OneForEach'
  <2>1. Committed' = Committed \cup {p.name} /\ p.name \notin Committed
    BY <1>1, <1>3, <1>4, <1>5 DEF Committed
  <2>2. QED BY <1>6, <2>1, FS_AddElement DEF WrittenInv, OneForEach
<1>10. QED BY <1>7, <1>8, <1>9 DEF WrittenInv

\* Every step keeps the invariant.
LEMMA WrittenStep ==
    ASSUME WrittenInv, TypeOK', [Next]_vars
    PROVE  WrittenInv'
<1>1. CASE SetField
  BY <1>1, OtherOptionRead, SetterRead DEF WrittenInv, TypeOK, SetField, Takes
<1>2. CASE CommitProfile
  BY <1>2, TypeRead
<1>3. CASE \/ OpenInterface \/ SetTzFormat \/ SetText \/ AddScope \/ EnablePtz
           \/ SetMove
  <2>1. /\ pos <= Len(line) /\ pos' = pos + 1
        /\ line[pos].opt \in {"ifs", "tz_format", "scope", "ptz", "move"}
                               \cup TextFields
        /\ UNCHANGED <<line, draft, profiles>>
    BY <1>3 DEF OpenInterface, SetTzFormat, SetText, AddScope, EnablePtz,
       SetMove, Takes
  <2>2. line[pos].opt \notin DraftFields \cup {"type"}
    BY <2>1 DEF DraftFields, TextFields
  <2>3. QED BY <2>1, <2>2, OtherOptionRead
<1>4. CASE ~ (\/ SetField \/ CommitProfile \/ OpenInterface \/ SetTzFormat
              \/ SetText \/ AddScope \/ EnablePtz \/ SetMove)
  <2>1. UNCHANGED <<line, pos, draft, profiles>>
    BY <1>4 DEF Next, vars, ctxVars, Terminate, ContextNext, Refuse,
       EndOfOptions, CheckContext
  <2>2. QED BY <2>1 DEF WrittenInv, DraftAsWritten, EachAsWritten, OneForEach,
               TypesRead, Committed, FieldAsGiven, Given
<1>5. QED BY <1>1, <1>2, <1>3, <1>4

LEMMA InitWritten == Init => WrittenInv
<1> SUFFICES ASSUME Init PROVE WrittenInv
  OBVIOUS
<1>1. TypeOK
  BY InitInv DEF ServerInv
<1>2. pos = 1 /\ draft = Cleared /\ profiles = [n \in Names |-> NoProfile]
  BY DEF Init, ContextInit
<1>3. TypesRead = {} /\ Committed = {}
  BY <1>2 DEF TypesRead, Committed
<1>4. \A f : Given(f, 0, 1) = {}
  BY DEF Given
<1>5. QED BY <1>1, <1>2, <1>3, <1>4, FS_EmptySet
          DEF WrittenInv, DraftAsWritten, EachAsWritten, OneForEach,
              FieldAsGiven

\* Each profile has what is written between two --type options and nothing
\* else, and none is lost, for any command lines.
THEOREM ProfilesAreAsWritten == Spec => []ProfilesAsWritten
<1>1. WrittenInv /\ TypeOK' /\ [Next]_vars => WrittenInv'
  BY WrittenStep
<1>2. QED BY <1>1, InitWritten, WrittenImplies, TypeCorrect, PTL DEF Spec
-----------------------------------------------------------------------------
(* What a client is told is what was written on the command line           *)

\* v is the last of the values of option o before position p, or d without one.
LastGiven(o, p, d, v) ==
    \/ v = d /\ Given(o, 0, p) = {}
    \/ \E m \in Given(o, 0, p) : Given(o, m, p) = {} /\ v = line[m].val

\* vals has the values of option o before position p: each of them, once, and
\* in their order.
AllGiven(o, p, vals) ==
    \E at \in [DOMAIN vals -> Given(o, 0, p)] :
        /\ \A j, k \in DOMAIN vals : j < k => at[j] < at[k]
        /\ \A m \in Given(o, 0, p) : \E k \in DOMAIN vals : at[k] = m
        /\ \A k \in DOMAIN vals : vals[k] = line[at[k]].val

Devices == [k \in DOMAIN ifs |-> ifs[k].dev]

\* The options that are no profile's.
OptionsAsWritten ==
    /\ \A f \in TextFields : LastGiven(f, pos, DefaultTexts[f], texts[f])
    /\ LastGiven("tz_format", pos, 0, tz)
    /\ ptz <=> Given("ptz", 0, pos) # {}
    /\ moves = {line[m].val : m \in Given("move", 0, pos)}
    /\ AllGiven("scope", pos, scopes)
    /\ AllGiven("ifs", pos, Devices)

\* The last --name between two --type options is n: a profile of that name.
NameGiven(n, p) ==
    \E k \in Given("type", 0, p), m \in Given("name", 0, p) :
        /\ m < k /\ line[m].val = n
        /\ Given("name", m, k) = {} /\ Given("type", m, k) = {}

UrlGiven(url, p) ==
    \/ url = NoUrl
    \/ \E m \in Given("url", 0, p) \cup Given("snapurl", 0, p) :
            url = line[m].val

\* After the whole line, an answer to a client says of the profiles, the URLs,
\* the interfaces, the scopes, the strings of the device, the user, the format
\* of the time zone and the PTZ service what the line says of them, whatever
\* was asked before, by whom, and wherever the addresses have moved.
ToldAsWritten ==
    reply # NoReply =>
        LET b == reply.body
            end == Len(line) + 1
        IN  /\ b.kind = "uri" => UrlGiven(b.url, end)
            /\ b.kind \in {"profiles", "sources"} =>
                    \A n \in b.names : NameGiven(n, end)
            /\ b.kind = "sources" =>
                    Cardinality(b.names) = Cardinality(Given("type", 0, end))
            /\ b.kind \in {"profiles", "services"} =>
                    (b.ptz <=> Given("ptz", 0, end) # {})
            /\ b.kind = "interfaces" =>
                    AllGiven("ifs", end, [j \in DOMAIN b.list |-> b.list[j].name])
            /\ b.kind = "device" =>
                    \A f \in DeviceTexts :
                        LastGiven(f, end, DefaultTexts[f], b.texts[f])
            /\ b.kind = "scopes" => AllGiven("scope", end, b.list)
            /\ b.kind = "users" =>
                    \A u \in b.names :
                        LastGiven("user", end, DefaultTexts["user"], u)
            /\ b.kind = "time" => LastGiven("tz_format", end, 0, b.format)

\* The daemon serves when the line has been read to its end.
ReadToTheEnd ==
    phase \in {"starting", "failed", "serving", "ended"} => pos = Len(line) + 1

\* The names and URLs of profiles are in the line, and a --type is the last.
NamesAsWritten ==
    /\ \E j \in TypesRead \cup {0} : Given("type", j, pos) = {}
    /\ \A n \in Names : profiles[n] # NoProfile =>
            /\ NameGiven(n, pos)
            /\ UrlGiven(profiles[n].url, pos) /\ UrlGiven(profiles[n].snapurl, pos)

\* An option of another name leaves the last value alone, one of the name is it.
LEMMA LastGivenGrows ==
    ASSUME ContextTypeOK, pos <= Len(line), NEW o, NEW d, NEW v
    PROVE  /\ line[pos].opt = o => LastGiven(o, pos + 1, d, line[pos].val)
           /\ line[pos].opt # o /\ LastGiven(o, pos, d, v)
                => LastGiven(o, pos + 1, d, v)
<1>1. /\ pos \in Nat /\ 0 < pos
      /\ line[pos].opt = o => Given(o, 0, pos + 1) = Given(o, 0, pos) \cup {pos}
      /\ Given(o, pos, pos + 1) = {}
  BY GivenGrows DEF ContextTypeOK
<1>2. ASSUME line[pos].opt # o, NEW j \in Nat
      PROVE  Given(o, j, pos + 1) = Given(o, j, pos)
  BY <1>2, GivenGrows
<1>3. \A m \in Given(o, 0, pos) : m \in Nat
  BY <1>1 DEF Given
<1>4. QED BY <1>1, <1>2, <1>3 DEF LastGiven

\* One value more at the end, or none.
LEMMA AllGivenGrows ==
    ASSUME ContextTypeOK, pos <= Len(line), NEW o, NEW S, NEW vals \in Seq(S),
           AllGiven(o, pos, vals)
    PROVE  /\ line[pos].opt = o /\ line[pos].val \in S
                => AllGiven(o, pos + 1, Append(vals, line[pos].val))
           /\ line[pos].opt # o => AllGiven(o, pos + 1, vals)
<1>1. PICK at \in [DOMAIN vals -> Given(o, 0, pos)] :
            /\ \A j, k \in DOMAIN vals : j < k => at[j] < at[k]
            /\ \A m \in Given(o, 0, pos) : \E k \in DOMAIN vals : at[k] = m
            /\ \A k \in DOMAIN vals : vals[k] = line[at[k]].val
  BY DEF AllGiven
<1>2. /\ pos \in Nat /\ 0 < pos
      /\ line[pos].opt = o => Given(o, 0, pos + 1) = Given(o, 0, pos) \cup {pos}
      /\ line[pos].opt # o => Given(o, 0, pos + 1) = Given(o, 0, pos)
  BY GivenGrows DEF ContextTypeOK
<1>3. CASE line[pos].opt # o
  BY <1>1, <1>2, <1>3 DEF AllGiven
<1>4. ASSUME line[pos].opt = o, line[pos].val \in S
      PROVE  AllGiven(o, pos + 1, Append(vals, line[pos].val))
  <2> DEFINE more == Append(vals, line[pos].val)
             n == Len(vals)
             up == [k \in DOMAIN more |-> IF k = n + 1 THEN pos ELSE at[k]]
  <2>1. /\ n \in Nat /\ DOMAIN vals = 1..n /\ DOMAIN more = 1..(n + 1)
        /\ more[n + 1] = line[pos].val
        /\ \A k \in 1..n : more[k] = vals[k]
    BY <1>4
  <2>2. \A m \in Given(o, 0, pos) : m < pos
    BY <1>2 DEF Given
  <2> HIDE DEF more, n
  <2>3. /\ DOMAIN up = 1..(n + 1) /\ up[n + 1] = pos
        /\ \A k \in 1..n : up[k] = at[k] /\ up[k] \in Given(o, 0, pos)
    BY <1>1, <2>1
  <2>4. up \in [DOMAIN more -> Given(o, 0, pos + 1)]
    BY <1>1, <1>2, <1>4, <2>1
  <2> HIDE DEF up
  <2>5. \A k \in 1..(n + 1) : k = n + 1 \/ k \in 1..n
    BY <2>1
  <2>6. \A j, k \in 1..(n + 1) : j < k => up[j] < up[k]
    <3> SUFFICES ASSUME NEW j \in 1..(n + 1), NEW k \in 1..(n + 1), j < k
                 PROVE  up[j] < up[k]
      OBVIOUS
    <3>1. j \in 1..n
      BY <2>1
    <3>2. CASE k = n + 1
      BY <2>2, <2>3, <3>1, <3>2
    <3>3. CASE k \in 1..n
      BY <1>1, <2>1, <2>3, <3>1, <3>3
    <3>4. QED BY <2>5, <3>2, <3>3
  <2>7. \A m \in Given(o, 0, pos + 1) : \E k \in 1..(n + 1) : up[k] = m
    <3>1. n + 1 \in 1..(n + 1) /\ \A k \in 1..n : k \in 1..(n + 1)
      BY <2>1
    <3>2. QED BY <1>1, <1>2, <1>4, <2>1, <2>3, <3>1
  <2>8. \A k \in 1..(n + 1) : more[k] = line[up[k]].val
    BY <1>1, <2>1, <2>3, <2>5
  <2>9. AllGiven(o, pos + 1, more)
    <3>1. /\ \A j, k \in DOMAIN more : j < k => up[j] < up[k]
          /\ \A m \in Given(o, 0, pos + 1) : \E k \in DOMAIN more : up[k] = m
          /\ \A k \in DOMAIN more : more[k] = line[up[k]].val
      BY <2>1, <2>6, <2>7, <2>8
    <3>2. QED BY <2>4, <3>1 DEF AllGiven
  <2>10. QED BY <2>9 DEF more
<1>5. QED BY <1>3, <1>4

\* The interfaces of the line are interfaces.
LEMMA DevicesTyped == ASSUME ContextTypeOK PROVE Devices \in Seq(Interfaces)
<1>1. Len(ifs) \in Nat /\ DOMAIN ifs = 1..Len(ifs)
  BY DEF ContextTypeOK
<1>2. \A k \in DOMAIN ifs : ifs[k].dev \in Interfaces
  <2>1. \A k \in DOMAIN ifs : ifs[k] \in EthDev
    BY DEF ContextTypeOK
  <2>2. QED BY <2>1 DEF EthDev
<1>3. Devices \in [1..Len(ifs) -> Interfaces]
  BY <1>1, <1>2 DEF Devices
<1>4. QED BY <1>1, <1>3, SeqDef

\* What was in the line before a position is in it before the next.
LEMMA NamesGrow ==
    ASSUME ContextTypeOK, pos <= Len(line)
    PROVE  /\ \A n : NameGiven(n, pos) => NameGiven(n, pos + 1)
           /\ \A url : UrlGiven(url, pos) => UrlGiven(url, pos + 1)
<1>1. pos \in Nat
  BY GivenGrows
<1>2. \A o : Given(o, 0, pos) \subseteq Given(o, 0, pos + 1)
  BY <1>1 DEF Given
<1>3. QED BY <1>2 DEF NameGiven, UrlGiven

\* A step that reads an option, of which the context notes nothing: the other
\* options stay as they were.
LEMMA OthersStay ==
    ASSUME ContextTypeOK, OptionsAsWritten, pos <= Len(line)
    PROVE  /\ \A f \in TextFields \ {line[pos].opt} :
                    LastGiven(f, pos + 1, DefaultTexts[f], texts[f])
           /\ line[pos].opt # "tz_format" => LastGiven("tz_format", pos + 1, 0, tz)
           /\ line[pos].opt # "ptz" => (ptz <=> Given("ptz", 0, pos + 1) # {})
           /\ line[pos].opt # "move" =>
                    moves = {line[m].val : m \in Given("move", 0, pos + 1)}
           /\ line[pos].opt # "scope" => AllGiven("scope", pos + 1, scopes)
           /\ line[pos].opt # "ifs" => AllGiven("ifs", pos + 1, Devices)
<1>1. \A f \in TextFields \ {line[pos].opt} :
            LastGiven(f, pos + 1, DefaultTexts[f], texts[f])
  BY LastGivenGrows DEF OptionsAsWritten
<1>2. line[pos].opt # "tz_format" => LastGiven("tz_format", pos + 1, 0, tz)
  BY LastGivenGrows DEF OptionsAsWritten
<1>3. /\ line[pos].opt # "ptz" => Given("ptz", 0, pos + 1) = Given("ptz", 0, pos)
      /\ line[pos].opt # "move" => Given("move", 0, pos + 1) = Given("move", 0, pos)
  BY GivenGrows
<1>4. line[pos].opt # "scope" => AllGiven("scope", pos + 1, scopes)
  BY AllGivenGrows DEF OptionsAsWritten, ContextTypeOK
<1>5. Devices \in Seq(Interfaces)
  BY DevicesTyped
<1>6. line[pos].opt # "ifs" => AllGiven("ifs", pos + 1, Devices)
  BY <1>5, AllGivenGrows DEF OptionsAsWritten
<1>7. QED BY <1>1, <1>2, <1>3, <1>4, <1>6 DEF OptionsAsWritten

\* The context after a step that reads an option, in terms of the line.
LEMMA OptionsRead ==
    ASSUME UNCHANGED line, pos' = pos + 1,
           /\ \A f \in TextFields : LastGiven(f, pos + 1, DefaultTexts[f], texts'[f])
           /\ LastGiven("tz_format", pos + 1, 0, tz')
           /\ ptz' <=> Given("ptz", 0, pos + 1) # {}
           /\ moves' = {line[m].val : m \in Given("move", 0, pos + 1)}
           /\ AllGiven("scope", pos + 1, scopes')
           /\ AllGiven("ifs", pos + 1, Devices')
    PROVE  OptionsAsWritten'
<1>1. \A o, j : Given(o, j, pos)' = Given(o, j, pos + 1)
  BY DEF Given
<1>2. \A f \in TextFields : LastGiven(f, pos, DefaultTexts[f], texts[f])'
  <2> TAKE f \in TextFields
  <2>1. LastGiven(f, pos + 1, DefaultTexts[f], texts'[f])
    OBVIOUS
  <2>2. QED BY <2>1 DEF LastGiven, Given
<1>3. LastGiven("tz_format", pos, 0, tz)'
  BY DEF LastGiven, Given
<1>4. AllGiven("scope", pos, scopes)'
  BY DEF AllGiven, Given
<1>5. AllGiven("ifs", pos, Devices)'
  BY DEF AllGiven, Given
<1>6. QED BY <1>1, <1>2, <1>3, <1>4, <1>5 DEF OptionsAsWritten

\* Each option goes where it belongs and nowhere else.
LEMMA OptionsStep ==
    ASSUME ContextTypeOK, OptionsAsWritten, ContextNext
    PROVE  OptionsAsWritten'
<1>1. CASE SetField
  <2>1. /\ UNCHANGED <<line, ifs, scopes, texts, ptz, moves, tz>>
        /\ pos <= Len(line) /\ pos' = pos + 1
        /\ line[pos].opt \in DraftFields
    BY <1>1 DEF SetField, Takes, DraftFields
  <2>2. line[pos].opt \notin TextFields \cup {"tz_format", "ptz", "move",
                                              "scope", "ifs"}
    BY <2>1 DEF DraftFields, TextFields
  <2>3. Devices' = Devices
    BY <2>1 DEF Devices
  <2>4. QED BY <2>1, <2>2, <2>3, OthersStay, OptionsRead
<1>2. CASE CommitProfile
  <2>1. /\ UNCHANGED <<line, ifs, scopes, texts, ptz, moves, tz>>
        /\ pos <= Len(line) /\ pos' = pos + 1 /\ line[pos].opt = "type"
    BY <1>2 DEF CommitProfile, Takes
  <2>2. line[pos].opt \notin TextFields \cup {"tz_format", "ptz", "move",
                                              "scope", "ifs"}
    BY <2>1 DEF TextFields
  <2>3. Devices' = Devices
    BY <2>1 DEF Devices
  <2>4. QED BY <2>1, <2>2, <2>3, OthersStay, OptionsRead
<1>3. CASE OpenInterface
  <2>1. /\ UNCHANGED <<line, scopes, texts, ptz, moves, tz>>
        /\ pos <= Len(line) /\ pos' = pos + 1 /\ line[pos].opt = "ifs"
        /\ \E f \in Descriptors : ifs' = Append(ifs, [dev |-> Val, sd |-> f])
        /\ Val = line[pos].val /\ Val # NoInterface
    BY <1>3 DEF OpenInterface, Takes, Val
  <2>2. line[pos].opt \notin TextFields \cup {"tz_format", "ptz", "move", "scope"}
    BY <2>1 DEF TextFields
  <2>3. line[pos].val \in Interfaces
    BY <1>3, <2>1, OptionRead, OptionValue DEF OpenInterface
  <2>4. Devices' = Append(Devices, line[pos].val)
    <3>1. PICK f \in Descriptors : ifs' = Append(ifs, [dev |-> Val, sd |-> f])
      BY <2>1
    <3> DEFINE new == [dev |-> Val, sd |-> f]
               n == Len(ifs)
    <3>2. ifs \in Seq(EthDev) /\ new \in EthDev
      BY <2>1, <2>3 DEF ContextTypeOK, EthDev
    <3>3. /\ n \in Nat /\ DOMAIN ifs = 1..n /\ DOMAIN ifs' = 1..(n + 1)
          /\ ifs'[n + 1] = new /\ \A k \in 1..n : ifs'[k] = ifs[k]
      BY <3>1, <3>2
    <3>4. /\ Devices \in Seq(Interfaces)
          /\ DOMAIN Devices = 1..n /\ Len(Devices) = n
          /\ \A k \in 1..n : Devices[k] = ifs[k].dev
      BY <3>3, DevicesTyped DEF Devices
    <3>5. /\ DOMAIN Devices' = 1..(n + 1)
          /\ \A k \in 1..(n + 1) : Devices'[k] = ifs'[k].dev
      BY <3>3 DEF Devices
    <3>6. new.dev = line[pos].val
      BY <2>1
    <3> DEFINE more == Append(Devices, line[pos].val)
    <3>7. /\ DOMAIN more = 1..(n + 1) /\ more[n + 1] = line[pos].val
          /\ \A k \in 1..n : more[k] = Devices[k]
          /\ more = [k \in 1..(n + 1) |-> more[k]]
      BY <2>3, <3>3, <3>4
    <3>8. Devices' = [k \in 1..(n + 1) |-> Devices'[k]]
      BY <3>5 DEF Devices
    <3> HIDE DEF new, n, more
    <3>9. \A k \in 1..(n + 1) : Devices'[k] = more[k]
      <4>1. \A k \in 1..(n + 1) : k = n + 1 \/ k \in 1..n
        BY <3>3
      <4>2. Devices'[n + 1] = more[n + 1]
        BY <3>3, <3>5, <3>6, <3>7
      <4>3. \A k \in 1..n : Devices'[k] = more[k]
        <5>1. \A k \in 1..n : k \in 1..(n + 1)
          BY <3>3
        <5> TAKE k \in 1..n
        <5>2. k \in 1..(n + 1)
          BY <5>1
        <5>3. Devices'[k] = ifs'[k].dev
          BY <3>5, <5>2
        <5>4. more[k] = ifs[k].dev
          BY <3>4, <3>7
        <5>5. ifs'[k] = ifs[k]
          BY <3>3
        <5>6. QED BY <5>3, <5>4, <5>5
      <4>4. QED BY <4>1, <4>2, <4>3
    <3>10. Devices' = more
      BY <3>7, <3>8, <3>9
    <3>11. QED BY <3>10 DEF more
  <2>5. AllGiven("ifs", pos + 1, Devices')
    BY <2>1, <2>3, <2>4, DevicesTyped, AllGivenGrows DEF OptionsAsWritten
  <2>6. QED BY <2>1, <2>2, <2>5, OthersStay, OptionsRead
<1>4. CASE SetTzFormat
  <2>1. /\ UNCHANGED <<line, ifs, scopes, texts, ptz, moves>>
        /\ pos <= Len(line) /\ pos' = pos + 1 /\ line[pos].opt = "tz_format"
        /\ tz' = line[pos].val
    BY <1>4 DEF SetTzFormat, Takes, Val
  <2>2. line[pos].opt \notin TextFields \cup {"ptz", "move", "scope", "ifs"}
    BY <2>1 DEF TextFields
  <2>3. Devices' = Devices
    BY <2>1 DEF Devices
  <2>4. LastGiven("tz_format", pos + 1, 0, tz')
    BY <2>1, LastGivenGrows
  <2>5. QED BY <2>1, <2>2, <2>3, <2>4, OthersStay, OptionsRead
<1>5. CASE SetText
  <2>1. /\ UNCHANGED <<line, ifs, scopes, ptz, moves, tz>>
        /\ pos <= Len(line) /\ pos' = pos + 1 /\ line[pos].opt \in TextFields
        /\ texts' = [texts EXCEPT ![line[pos].opt] = line[pos].val]
    BY <1>5 DEF SetText, Takes, Val
  <2>2. line[pos].opt \notin {"tz_format", "ptz", "move", "scope", "ifs"}
    BY <2>1 DEF TextFields
  <2>3. Devices' = Devices
    BY <2>1 DEF Devices
  <2>4. /\ texts'[line[pos].opt] = line[pos].val
        /\ \A f \in TextFields \ {line[pos].opt} : texts'[f] = texts[f]
    BY <2>1 DEF ContextTypeOK
  <2>5. ASSUME NEW f \in TextFields
        PROVE  LastGiven(f, pos + 1, DefaultTexts[f], texts'[f])
    <3>1. CASE f = line[pos].opt
      <4>1. LastGiven(f, pos + 1, DefaultTexts[f], line[pos].val)
        BY <2>1, <3>1, LastGivenGrows
      <4>2. texts'[f] = line[pos].val
        BY <2>4, <3>1
      <4>3. QED BY <4>1, <4>2
    <3>2. CASE f # line[pos].opt
      <4>1. LastGiven(f, pos + 1, DefaultTexts[f], texts[f])
        BY <2>1, <3>2, OthersStay
      <4>2. texts'[f] = texts[f]
        BY <2>4, <3>2
      <4>3. QED BY <4>1, <4>2
    <3>3. QED BY <3>1, <3>2
  <2>6. QED BY <2>1, <2>2, <2>3, <2>5, OthersStay, OptionsRead
<1>6. CASE AddScope
  <2>1. /\ UNCHANGED <<line, ifs, texts, ptz, moves, tz>>
        /\ pos <= Len(line) /\ pos' = pos + 1 /\ line[pos].opt = "scope"
        /\ scopes' = Append(scopes, line[pos].val)
    BY <1>6 DEF AddScope, Takes, Val
  <2>2. line[pos].opt \notin TextFields \cup {"tz_format", "ptz", "move", "ifs"}
    BY <2>1 DEF TextFields
  <2>3. Devices' = Devices
    BY <2>1 DEF Devices
  <2>4. line[pos].val \in Texts
    BY <1>6, <2>1, OptionRead, OptionValue DEF AddScope
  <2>5. AllGiven("scope", pos + 1, scopes')
    BY <2>1, <2>4, AllGivenGrows DEF OptionsAsWritten, ContextTypeOK
  <2>6. QED BY <2>1, <2>2, <2>3, <2>5, OthersStay, OptionsRead
<1>7. CASE EnablePtz
  <2>1. /\ UNCHANGED <<line, ifs, scopes, texts, moves, tz>>
        /\ pos <= Len(line) /\ pos' = pos + 1 /\ line[pos].opt = "ptz"
        /\ ptz' = TRUE
    BY <1>7 DEF EnablePtz, Takes
  <2>2. line[pos].opt \notin TextFields \cup {"tz_format", "move", "scope", "ifs"}
    BY <2>1 DEF TextFields
  <2>3. Devices' = Devices
    BY <2>1 DEF Devices
  <2>4. pos \in Given("ptz", 0, pos + 1)
    BY <2>1, GivenGrows DEF ContextTypeOK
  <2>5. QED BY <2>1, <2>2, <2>3, <2>4, OthersStay, OptionsRead
<1>8. CASE SetMove
  <2>1. /\ UNCHANGED <<line, ifs, scopes, texts, ptz, tz>>
        /\ pos <= Len(line) /\ pos' = pos + 1 /\ line[pos].opt = "move"
        /\ moves' = moves \cup {line[pos].val}
    BY <1>8 DEF SetMove, Takes, Val
  <2>2. line[pos].opt \notin TextFields \cup {"tz_format", "ptz", "scope", "ifs"}
    BY <2>1 DEF TextFields
  <2>3. Devices' = Devices
    BY <2>1 DEF Devices
  <2>4. Given("move", 0, pos + 1) = Given("move", 0, pos) \cup {pos}
    BY <2>1, GivenGrows DEF ContextTypeOK
  <2>5. moves' = {line[m].val : m \in Given("move", 0, pos + 1)}
    BY <2>1, <2>4 DEF OptionsAsWritten
  <2>6. QED BY <2>1, <2>2, <2>3, <2>5, OthersStay, OptionsRead
<1>9. CASE Refuse \/ EndOfOptions \/ CheckContext
  <2>1. UNCHANGED <<line, pos, ifs, scopes, texts, ptz, moves, tz>>
    BY <1>9 DEF Refuse, EndOfOptions, CheckContext
  <2>2. QED BY <2>1 DEF OptionsAsWritten, LastGiven, AllGiven, Given, Devices
<1>10. QED
  BY <1>1, <1>2, <1>3, <1>4, <1>5, <1>6, <1>7, <1>8, <1>9 DEF ContextNext

\* The names after a step that reads an option, in terms of the line.
LEMMA NamesRead ==
    ASSUME UNCHANGED line, pos' = pos + 1,
           \E j \in TypesRead' \cup {0} : Given("type", j, pos + 1) = {},
           \A n \in Names : profiles'[n] # NoProfile =>
                /\ NameGiven(n, pos + 1)
                /\ UrlGiven(profiles'[n].url, pos + 1)
                /\ UrlGiven(profiles'[n].snapurl, pos + 1)
    PROVE  NamesAsWritten'
<1>1. \E j \in TypesRead' \cup {0} : Given("type", j, pos)' = {}
  BY DEF Given
<1>2. ASSUME NEW n \in Names, profiles'[n] # NoProfile
      PROVE  NameGiven(n, pos)'
  <2>1. NameGiven(n, pos + 1)
    BY <1>2
  <2>2. QED BY <2>1 DEF NameGiven, Given
<1>3. ASSUME NEW n \in Names, profiles'[n] # NoProfile
      PROVE  UrlGiven(profiles[n].url, pos)' /\ UrlGiven(profiles[n].snapurl, pos)'
  <2>1. UrlGiven(profiles'[n].url, pos + 1) /\ UrlGiven(profiles'[n].snapurl, pos + 1)
    BY <1>3
  <2>2. QED BY <2>1 DEF UrlGiven, Given
<1>4. QED BY <1>1, <1>2, <1>3 DEF NamesAsWritten

\* A profile that --type completes has its name and URLs from the line.
LEMMA NamesStep ==
    ASSUME WrittenInv, NamesAsWritten, ContextNext
    PROVE  NamesAsWritten'
<1>1. ContextTypeOK /\ pos \in Nat /\ 0 < pos
  BY ContextAssumption DEF WrittenInv, TypeOK, ContextTypeOK
<1>2. CASE CommitProfile
  <2> DEFINE p == [draft EXCEPT !.type = Val]
  <2>1. /\ pos <= Len(line) /\ line[pos].opt = "type"
        /\ pos' = pos + 1 /\ UNCHANGED line
        /\ IsValid(p)
        /\ profiles' = [profiles EXCEPT ![p.name] = p]
        /\ draft \in Profile /\ profiles \in [Names -> Profile \cup {NoProfile}]
    BY <1>1, <1>2 DEF CommitProfile, Takes, ContextTypeOK
  <2>2. /\ \A f \in DraftFields : p[f] = draft[f]
        /\ draft.name # NoName
    BY <2>1 DEF Profile, DraftFields, IsValid
  <2>3. PICK j \in TypesRead \cup {0} : Given("type", j, pos) = {}
    BY DEF NamesAsWritten
  <2>4. j \in Nat /\ \A f \in DraftFields : FieldAsGiven(draft, f, j, pos)
    BY <1>1, <2>3 DEF WrittenInv, DraftAsWritten, TypesRead
  <2>5. /\ pos \in Given("type", 0, pos + 1)
        /\ \A o : Given(o, j, pos) \subseteq Given(o, 0, pos + 1)
        /\ \A o : \A m \in Given(o, j, pos) :
                m < pos /\ Given("type", m, pos) \subseteq Given("type", j, pos)
    BY <1>1, <2>1, <2>4 DEF Given
  <2>6. NameGiven(draft.name, pos + 1)
    <3>1. FieldAsGiven(draft, "name", j, pos) /\ draft["name"] # Cleared["name"]
      BY <2>2, <2>4 DEF DraftFields, Cleared
    <3>2. PICK m \in Given("name", j, pos) :
                Given("name", m, pos) = {} /\ draft["name"] = line[m].val
      BY <3>1 DEF FieldAsGiven
    <3>3. m \in Given("name", 0, pos + 1) /\ m < pos /\ Given("type", m, pos) = {}
      BY <2>3, <2>5, <3>2
    <3>4. QED BY <2>5, <3>2, <3>3 DEF NameGiven
  <2>7. UrlGiven(draft.url, pos + 1) /\ UrlGiven(draft.snapurl, pos + 1)
    <3>1. /\ FieldAsGiven(draft, "url", j, pos)
          /\ FieldAsGiven(draft, "snapurl", j, pos)
          /\ Cleared["url"] = NoUrl /\ Cleared["snapurl"] = NoUrl
      BY <2>4 DEF DraftFields, Cleared
    <3>2. \/ draft["url"] = NoUrl
          \/ \E m \in Given("url", 0, pos + 1) : draft["url"] = line[m].val
      BY <2>5, <3>1 DEF FieldAsGiven
    <3>3. \/ draft["snapurl"] = NoUrl
          \/ \E m \in Given("snapurl", 0, pos + 1) :
                    draft["snapurl"] = line[m].val
      BY <2>5, <3>1 DEF FieldAsGiven
    <3>4. QED BY <3>2, <3>3 DEF UrlGiven
  <2>8. /\ p.name = draft.name /\ p.url = draft.url
        /\ p.snapurl = draft.snapurl
    BY <2>2 DEF DraftFields
  <2> HIDE DEF p
  <2>9. \A n \in Names : \/ profiles'[n] = profiles[n]
                         \/ n = p.name /\ profiles'[n] = p
    BY <2>1
  <2>10. \A n \in Names : profiles'[n] # NoProfile =>
            /\ NameGiven(n, pos + 1)
            /\ UrlGiven(profiles'[n].url, pos + 1)
            /\ UrlGiven(profiles'[n].snapurl, pos + 1)
    BY <1>1, <2>1, <2>6, <2>7, <2>8, <2>9, NamesGrow DEF NamesAsWritten
  <2>11. pos \in TypesRead' /\ Given("type", pos, pos + 1) = {}
    BY <1>1, <2>1, GivenGrows DEF TypesRead
  <2>12. QED BY <2>1, <2>10, <2>11, NamesRead
<1>3. CASE \/ SetField \/ OpenInterface \/ SetTzFormat \/ SetText \/ AddScope
           \/ EnablePtz \/ SetMove
  <2>1. /\ pos <= Len(line) /\ pos' = pos + 1 /\ UNCHANGED <<line, profiles>>
        /\ line[pos].opt # "type"
    BY <1>3 DEF SetField, OpenInterface, SetTzFormat, SetText, AddScope,
       EnablePtz, SetMove, Takes, TextFields
  <2>2. PICK j \in TypesRead \cup {0} : Given("type", j, pos) = {}
    BY DEF NamesAsWritten
  <2>3. j \in TypesRead' \cup {0} /\ Given("type", j, pos + 1) = {}
    BY <1>1, <2>1, <2>2, GivenGrows DEF TypesRead
  <2>4. \A n \in Names : profiles[n] # NoProfile =>
            /\ NameGiven(n, pos + 1)
            /\ UrlGiven(profiles[n].url, pos + 1)
            /\ UrlGiven(profiles[n].snapurl, pos + 1)
    BY <1>1, <2>1, NamesGrow DEF NamesAsWritten
  <2>5. \A n \in Names : profiles'[n] = profiles[n]
    BY <2>1
  <2>6. QED BY <2>1, <2>3, <2>4, <2>5, NamesRead
<1>4. CASE Refuse \/ EndOfOptions \/ CheckContext
  <2>1. UNCHANGED <<line, pos, profiles>>
    BY <1>4 DEF Refuse, EndOfOptions, CheckContext
  <2>2. QED BY <2>1 DEF NamesAsWritten, NameGiven, UrlGiven, Given, TypesRead
<1>5. QED BY <1>2, <1>3, <1>4 DEF ContextNext

LEMMA EndStep ==
    ASSUME ContextTypeOK, ReadToTheEnd, [Next]_vars
    PROVE  ReadToTheEnd'
<1>1. CASE EndOfOptions
  <2>1. Len(line) \in Nat /\ pos \in 1..(Len(line) + 1)
    BY ContextAssumption DEF ContextTypeOK
  <2>2. pos = Len(line) + 1
    BY <1>1, <2>1 DEF EndOfOptions
  <2>3. QED BY <1>1, <2>2 DEF EndOfOptions, ReadToTheEnd
<1>2. CASE CheckContext \/ Terminate
  BY <1>2 DEF CheckContext, Terminate, ReadToTheEnd
<1>3. CASE UNCHANGED <<line, pos, phase>>
  BY <1>3 DEF ReadToTheEnd
<1>4. CASE phase' \in {"parsing", "refused"}
  BY <1>4 DEF ReadToTheEnd
<1>5. QED
  BY <1>1, <1>2, <1>3, <1>4 DEF Next, vars, ctxVars, ContextNext, SetField,
     CommitProfile, OpenInterface, SetTzFormat, SetText, AddScope, EnablePtz,
     SetMove, Refuse, Takes

\* What an answer says of the context is so.
FromContext(b) ==
    /\ b.kind = "uri" =>
            \E n \in Known : b.url \in {profiles[n].url, profiles[n].snapurl}
    /\ b.kind = "profiles" => b.names \subseteq Known /\ b.ptz = ptz
    /\ b.kind = "sources" => b.names = Known
    /\ b.kind = "services" => b.ptz = ptz
    /\ b.kind = "interfaces" =>
            /\ DOMAIN b.list = DOMAIN ifs
            /\ \A j \in DOMAIN ifs : b.list[j].name = ifs[j].dev
    /\ b.kind = "device" => \A f \in DeviceTexts : b.texts[f] = texts[f]
    /\ b.kind = "scopes" => b.list = scopes
    /\ b.kind = "users" => b.names \subseteq {texts["user"]}
    /\ b.kind = "time" => b.format = tz

\* A handler answers from the context, or not at all.
LEMMA AnswersFromContext ==
    ASSUME TypeOK, NEW k \in calls, Handle(k)
    PROVE  reply' = reply \/ FromContext(reply'.body)
<1>1. ASSUME NEW b, Send(k, b) PROVE reply'.body = b
  BY <1>1 DEF Send
<1>2. ASSUME NEW b, Send(k, b),
             b.kind \in {"fault", "done", "presets", "capabilities"}
      PROVE  FromContext(reply'.body)
  BY <1>1, <1>2 DEF FromContext
<1>3. CASE \/ Unserved(k) \/ ContinuousPan(k) \/ RelativePan(k)
           \/ RelativePanStop(k) \/ RelativeTilt(k) \/ RelativeTiltStop(k)
  BY <1>3 DEF Unserved, ContinuousPan, RelativePan, RelativePanStop,
     RelativeTilt, RelativeTiltStop
<1>4. CASE \/ Empty(k) \/ ContinuousTilt(k) \/ RelativeDone(k) \/ Stop(k)
           \/ GotoPreset(k) \/ GotoHomePosition(k) \/ GetNodes(k)
           \/ GetPresets(k) \/ GetServiceCapabilities(k)
  <2>1. \E b : Send(k, b) /\ b.kind \in {"done", "presets", "capabilities"}
    BY <1>4 DEF Empty, ContinuousTilt, RelativeDone, Stop, GotoPreset,
       GotoHomePosition, GetNodes, GetPresets, GetServiceCapabilities, Done
  <2>2. QED BY <1>2, <2>1
<1>5. CASE GetStreamUri(k) \/ GetSnapshotUri(k)
  <2>1. k.req.token \in Names
    BY <1>5, CallTyped DEF GetStreamUri, GetSnapshotUri, Asks
  <2> DEFINE p == profiles[k.req.token]
  <2>2. \/ Send(k, Fault)
        \/ p # NoProfile /\ \E b \in Uris(p.url, k.client) \cup Uris(p.snapurl, k.client) :
                                Send(k, b)
    BY <1>5 DEF GetStreamUri, GetSnapshotUri
  <2>3. CASE Send(k, Fault)
    BY <1>2, <2>3 DEF Fault
  <2>4. ASSUME p # NoProfile,
               NEW b \in Uris(p.url, k.client) \cup Uris(p.snapurl, k.client),
               Send(k, b)
        PROVE  FromContext(reply'.body)
    <3>1. b.kind = "uri" /\ b.url \in {p.url, p.snapurl}
      BY <2>4 DEF Uris
    <3>2. k.req.token \in Known
      BY <2>1, <2>4 DEF Known
    <3>3. QED BY <1>1, <2>4, <3>1, <3>2 DEF FromContext
  <2>5. QED BY <2>2, <2>3, <2>4
<1>6. CASE GetProfile(k)
  <2>1. k.req.token \in Names
    BY <1>6, CallTyped DEF GetProfile, Asks
  <2>2. CASE profiles[k.req.token] = NoProfile
    BY <1>2, <1>6, <2>2 DEF GetProfile, Fault
  <2>3. CASE profiles[k.req.token] # NoProfile
    BY <1>1, <1>6, <2>1, <2>3 DEF GetProfile, Described, Known, FromContext
  <2>4. QED BY <2>2, <2>3
<1>7. CASE GetProfiles(k)
  BY <1>1, <1>7 DEF GetProfiles, Described, FromContext
<1>8. CASE GetVideoSources(k)
  BY <1>1, <1>8 DEF GetVideoSources, FromContext
<1>9. CASE GetServices(k) \/ GetCapabilities(k)
  <2>1. PICK s : \E b \in Services(k.client, s) : Send(k, b)
    BY <1>9 DEF GetServices, GetCapabilities
  <2>2. PICK b \in Services(k.client, s) : Send(k, b)
    BY <2>1
  <2>3. b.kind = "services" /\ b.ptz = ptz
    BY <2>2 DEF Services
  <2>4. QED BY <1>1, <2>2, <2>3 DEF FromContext
<1>10. CASE GetNetworkInterfaces(k)
  <2> DEFINE b == [kind |-> "interfaces",
                   list |-> [j \in DOMAIN ifs |-> InfoOf(ifs[j].dev)]]
  <2>1. Send(k, b)
    BY <1>10 DEF GetNetworkInterfaces
  <2>2. \A i : InfoOf(i).name = i
    BY DEF InfoOf
  <2>3. /\ b.kind = "interfaces" /\ DOMAIN b.list = DOMAIN ifs
        /\ \A j \in DOMAIN ifs : b.list[j].name = ifs[j].dev
    BY <2>2
  <2> HIDE DEF b
  <2>4. QED BY <1>1, <2>1, <2>3 DEF FromContext
<1>11. CASE GetSystemDateAndTime(k)
  <2>1. PICK offset \in Offsets : Send(k, TimeZone(offset))
    BY <1>11 DEF GetSystemDateAndTime
  <2>2. TimeZone(offset).kind = "time" /\ TimeZone(offset).format = tz
    BY DEF TimeZone
  <2>3. QED BY <1>1, <2>1, <2>2 DEF FromContext
<1>12. CASE GetDeviceInformation(k)
  BY <1>1, <1>12 DEF GetDeviceInformation, FromContext
<1>13. CASE GetScopes(k)
  BY <1>1, <1>13 DEF GetScopes, FromContext
<1>14. CASE GetUsers(k)
  BY <1>1, <1>14 DEF GetUsers, FromContext
<1>15. QED
  BY <1>3, <1>4, <1>5, <1>6, <1>7, <1>8, <1>9, <1>10, <1>11, <1>12, <1>13,
     <1>14 DEF Handle

\* Answers are given when nothing is read any more.
AnswersInv ==
    reply # NoReply => phase \in {"serving", "ended"} /\ FromContext(reply.body)

LEMMA AnswersStep ==
    ASSUME ServerInv, AnswersInv, [Next]_vars
    PROVE  AnswersInv'
<1>1. ASSUME UNCHANGED ctxVars, reply' # NoReply, phase = "serving",
             FromContext(reply'.body)
      PROVE  AnswersInv'
  BY <1>1 DEF AnswersInv, FromContext, Known, ctxVars
<1>2. CASE reply' = NoReply
  BY <1>2 DEF AnswersInv
<1>3. CASE reply' = reply /\ UNCHANGED ctxVars
  BY <1>3 DEF AnswersInv, FromContext, Known, ctxVars
<1>4. CASE ContextNext /\ UNCHANGED serverVars
  <2>1. phase \in {"parsing", "starting"} /\ reply' = reply
    BY <1>4 DEF ContextNext, SetField, CommitProfile, OpenInterface,
       SetTzFormat, SetText, AddScope, EnablePtz, SetMove, Refuse, Takes,
       EndOfOptions, CheckContext, serverVars
  <2>2. QED BY <2>1 DEF AnswersInv
<1>5. CASE Terminate
  BY <1>5 DEF Terminate, AnswersInv, FromContext, Known
<1>6. ASSUME NEW k \in calls, Handle(k), UNCHANGED ctxVars
      PROVE  AnswersInv'
  <2>1. phase = "serving"
    BY <1>6 DEF ServerInv, Serving
  <2>2. reply' = reply \/ FromContext(reply'.body)
    BY <1>6, AnswersFromContext DEF ServerInv
  <2>3. QED BY <1>1, <1>2, <1>3, <1>6, <2>1, <2>2
<1>7. QED
  BY <1>2, <1>3, <1>4, <1>5, <1>6 DEF Next, vars, serverVars, Serve, Accept,
     Connect, ChangeAddress

\* What is so of the context is written.
LEMMA ToldFromLine ==
    ASSUME TypeOK, OptionsAsWritten, NamesAsWritten, WrittenInv, ReadToTheEnd,
           AnswersInv
    PROVE  ToldAsWritten
<1> SUFFICES ASSUME reply # NoReply PROVE ToldAsWritten
  BY DEF ToldAsWritten
<1> DEFINE b == reply.body
           end == Len(line) + 1
<1>1. end = pos /\ FromContext(b)
  BY DEF ReadToTheEnd, AnswersInv
<1> HIDE DEF b, end
<1>2. b.kind = "uri" => UrlGiven(b.url, end)
  BY <1>1 DEF FromContext, NamesAsWritten, Known
<1>3. b.kind \in {"profiles", "sources"} => \A n \in b.names : NameGiven(n, end)
  BY <1>1 DEF FromContext, NamesAsWritten, Known
<1>4. b.kind = "sources" =>
            Cardinality(b.names) = Cardinality(Given("type", 0, end))
  <2>1. Committed = Known /\ Given("type", 0, pos) = TypesRead
    BY DEF Committed, Known, Given, TypesRead
  <2>2. QED BY <1>1, <2>1 DEF FromContext, WrittenInv, OneForEach
<1>5. b.kind \in {"profiles", "services"} => (b.ptz <=> Given("ptz", 0, end) # {})
  <2>1. b.kind \in {"profiles", "services"} => b.ptz = ptz
    BY <1>1 DEF FromContext
  <2>2. ptz <=> Given("ptz", 0, end) # {}
    BY <1>1 DEF OptionsAsWritten
  <2>3. QED BY <2>1, <2>2
<1>6. b.kind = "interfaces" =>
            AllGiven("ifs", end, [j \in DOMAIN b.list |-> b.list[j].name])
  <2>1. b.kind = "interfaces" =>
            [j \in DOMAIN b.list |-> b.list[j].name] = Devices
    BY <1>1 DEF FromContext, Devices
  <2>2. AllGiven("ifs", end, Devices)
    BY <1>1 DEF OptionsAsWritten
  <2>3. QED BY <2>1, <2>2
<1>7. b.kind = "device" =>
            \A f \in DeviceTexts : LastGiven(f, end, DefaultTexts[f], b.texts[f])
  BY <1>1 DEF FromContext, OptionsAsWritten, DeviceTexts
<1>8. b.kind = "scopes" => AllGiven("scope", end, b.list)
  BY <1>1 DEF FromContext, OptionsAsWritten
<1>9. b.kind = "users" =>
            \A u \in b.names : LastGiven("user", end, DefaultTexts["user"], u)
  BY <1>1 DEF FromContext, OptionsAsWritten, TextFields
<1>10. b.kind = "time" => LastGiven("tz_format", end, 0, b.format)
  BY <1>1 DEF FromContext, OptionsAsWritten
<1>11. QED
  BY <1>2, <1>3, <1>4, <1>5, <1>6, <1>7, <1>8, <1>9, <1>10
     DEF ToldAsWritten, b, end

\* Nothing has been read or told at the start.
LEMMA InitTold ==
    Init => OptionsAsWritten /\ NamesAsWritten /\ ReadToTheEnd /\ AnswersInv
<1> SUFFICES ASSUME Init
             PROVE  OptionsAsWritten /\ NamesAsWritten /\ ReadToTheEnd /\ AnswersInv
  OBVIOUS
<1>1. /\ pos = 1 /\ ifs = <<>> /\ scopes = <<>> /\ texts = DefaultTexts
      /\ ptz = FALSE /\ moves = {} /\ tz = 0 /\ phase = "parsing"
      /\ profiles = [n \in Names |-> NoProfile] /\ reply = NoReply
  BY DEF Init, ContextInit
<1>2. \A o : Given(o, 0, pos) = {}
  BY <1>1 DEF Given
<1>3. \A o : AllGiven(o, pos, <<>>)
  <2> TAKE o
  <2>1. /\ <<>> \in [DOMAIN <<>> -> Given(o, 0, pos)] /\ DOMAIN <<>> = {}
    OBVIOUS
  <2>2. QED BY <1>2, <2>1 DEF AllGiven
<1>4. Devices = <<>>
  BY <1>1 DEF Devices
<1>5. OptionsAsWritten
  BY <1>1, <1>2, <1>3, <1>4 DEF OptionsAsWritten, LastGiven
<1>6. NamesAsWritten
  BY <1>1, <1>2 DEF NamesAsWritten
<1>7. QED BY <1>1, <1>5, <1>6 DEF ReadToTheEnd, AnswersInv

\* What any client is told of the camera is what its command line says, for any
\* lines, requests, clients and interfaces.
THEOREM AnswersAreAsWritten == Spec => [](OptionsAsWritten /\ ToldAsWritten)
<1>1. TypeOK /\ OptionsAsWritten /\ [Next]_vars => OptionsAsWritten'
  <2>1. CASE ContextNext
    BY <2>1, OptionsStep DEF TypeOK
  <2>2. CASE UNCHANGED <<line, pos, ifs, scopes, texts, ptz, moves, tz>>
    BY <2>2 DEF OptionsAsWritten, LastGiven, AllGiven, Given, Devices
  <2>3. QED BY <2>1, <2>2 DEF Next, vars, ctxVars, Terminate
<1>2. WrittenInv /\ NamesAsWritten /\ [Next]_vars => NamesAsWritten'
  <2>1. CASE ContextNext
    BY <2>1, NamesStep
  <2>2. CASE UNCHANGED <<line, pos, profiles>>
    BY <2>2 DEF NamesAsWritten, NameGiven, UrlGiven, Given, TypesRead
  <2>3. QED BY <2>1, <2>2 DEF Next, vars, ctxVars, Terminate
<1>3. TypeOK /\ ReadToTheEnd /\ [Next]_vars => ReadToTheEnd'
  BY EndStep DEF TypeOK
<1>4. ServerInv /\ AnswersInv /\ [Next]_vars => AnswersInv'
  BY AnswersStep
<1>5. WrittenInv /\ TypeOK' /\ [Next]_vars => WrittenInv'
  BY WrittenStep
<1>6. TypeOK /\ OptionsAsWritten /\ NamesAsWritten /\ WrittenInv
        /\ ReadToTheEnd /\ AnswersInv => ToldAsWritten
  BY ToldFromLine
<1>7. QED
  BY <1>1, <1>2, <1>3, <1>4, <1>5, <1>6, InitTold, InitWritten, TypeCorrect,
     ServerInvariant, PTL DEF Spec
=============================================================================
