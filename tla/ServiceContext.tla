---------------------------- MODULE ServiceContext ----------------------------
(***************************************************************************)
(* What the ONVIF device server is configured to be: processing_cmd() of   *)
(* onvif_srvd.cpp reads the command line into the one ServiceContext, with *)
(* one StreamProfile variable that every profile passes through, and the   *)
(* checks of check_service_ctx() follow after the fork.                    *)
(*                                                                         *)
(* A command line is a sequence of options.  Names, URLs and interfaces    *)
(* are only compared; sizes and the time-zone format are numbers.          *)
(***************************************************************************)
EXTENDS Integers, Sequences, FiniteSets

CONSTANTS
    CommandLines,   \* what the daemon may be started with
    Names,          \* names of media profiles
    Urls,           \* URLs of streams and snapshots
    Interfaces,     \* network interfaces of the machine
    Descriptors,    \* descriptors the process may open
    Texts,          \* scopes, and what the device says of itself
    DefaultTexts,   \* what the constructor says of it
    NoName, NoUrl,  \* the empty string, as a name and as a URL
    NoText,         \* the empty string, as one of Texts
    NoInterface,    \* an interface the machine does not have
    NoProfile       \* no profile of that name

VARIABLES
    line,       \* argv
    pos,        \* optind: the option getopt_long() returns next
    draft,      \* the local variable profile
    profiles,   \* service_ctx.profiles
    ifs,        \* service_ctx.eth_ifs
    sockets,    \* the descriptors that are open for them
    scopes,     \* service_ctx.scopes
    texts,      \* the other strings of service_ctx
    ptz,        \* service_ctx.ptz_node.enable
    moves,      \* commands of service_ctx.ptz_node that are set
    tz,         \* service_ctx.tz_format
    phase       \* how far main() is

ctxVars ==
    <<line, pos, draft, profiles, ifs, sockets, scopes, texts, ptz, moves, tz,
      phase>>

-----------------------------------------------------------------------------
(* Types *)

Types == {"JPEG", "MPEG4", "H264"}
Commands == {"left", "right", "up", "down", "stop", "preset"}
TextFields == {"user", "password", "manufacturer", "model", "firmware_ver",
               "serial_num", "hardware_id"}
Phases == {"parsing", "refused", "starting", "failed", "serving", "ended"}

Profile == [name : Names \cup {NoName}, width : Int, height : Int,
            url : Urls \cup {NoUrl}, snapurl : Urls \cup {NoUrl},
            type : Types \cup {"none"}]

\* An Eth_Dev_Param: the name in its _ifr, and its _sd.
EthDev == [dev : Interfaces, sd : Descriptors]

Option ==
         [opt : {"name"}, val : Names \cup {NoName}]
    \cup [opt : {"width", "height", "tz_format"}, val : Int]
    \cup [opt : {"url", "snapurl"}, val : Urls \cup {NoUrl}]
    \cup [opt : {"type", "other", "ptz"}, val : STRING]
    \cup [opt : {"scope"} \cup TextFields, val : Texts]
    \cup [opt : {"move"}, val : Commands]
    \cup [opt : {"ifs"}, val : Interfaces \cup {NoInterface}]

ASSUME ContextAssumption ==
    /\ \A l \in CommandLines : /\ Len(l) \in Nat
                               /\ \A k \in 1..Len(l) : l[k] \in Option
    /\ NoName \notin Names /\ NoUrl \notin Urls
    /\ NoInterface \notin Interfaces
    /\ Descriptors \subseteq Nat
    /\ DefaultTexts \in [TextFields -> Texts]
    /\ NoProfile \notin Profile

ContextTypeOK ==
    /\ line \in CommandLines
    /\ pos \in 1..(Len(line) + 1)
    /\ draft \in Profile
    /\ profiles \in [Names -> Profile \cup {NoProfile}]
    /\ ifs \in Seq(EthDev)
    /\ sockets \subseteq Descriptors
    /\ scopes \in Seq(Texts)
    /\ texts \in [TextFields -> Texts]
    /\ ptz \in BOOLEAN
    /\ moves \subseteq Commands
    /\ tz \in 0..5
    /\ phase \in Phases

\* StreamProfile::clear()
Cleared == [name |-> NoName, width |-> -1, height |-> -1,
            url |-> NoUrl, snapurl |-> NoUrl, type |-> "none"]

ContextInit ==
    /\ line \in CommandLines
    /\ pos = 1
    /\ draft = Cleared
    /\ profiles = [n \in Names |-> NoProfile]
    /\ ifs = <<>> /\ sockets = {}
    /\ scopes = <<>> /\ texts = DefaultTexts
    /\ ptz = FALSE
    /\ moves = {}
    /\ tz = 0
    /\ phase = "parsing"

-----------------------------------------------------------------------------
(* processing_cmd() *)

\* set_width() and set_height()
SizeOK(n) == n >= 100 /\ n < 10000

\* StreamProfile::is_valid()
IsValid(p) ==
    /\ p.name # NoName /\ p.url # NoUrl
    /\ p.width # -1 /\ p.height # -1 /\ p.type # "none"

\* The option is one of opts; getopt_long() goes on to the next.
Takes(opts) ==
    /\ phase = "parsing"
    /\ pos <= Len(line)
    /\ line[pos].opt \in opts
    /\ pos' = pos + 1

Val == line[pos].val

SetField ==
    /\ Takes({"name", "width", "height", "url", "snapurl"})
    /\ line[pos].opt \in {"width", "height"} => SizeOK(Val)
    /\ draft' = [draft EXCEPT ![line[pos].opt] = Val]
    /\ UNCHANGED <<line, profiles, ifs, sockets, scopes, texts, ptz, moves,
                   tz, phase>>

\* profile.clear() is forgotten: what is not set again stays.
CommitUncleared ==
    LET p == [draft EXCEPT !.type = Val]
    IN  /\ Takes({"type"})
        /\ Val \in Types /\ IsValid(p) /\ profiles[p.name] = NoProfile
        /\ profiles' = [profiles EXCEPT ![p.name] = p]
        /\ draft' = p
        /\ UNCHANGED <<line, ifs, sockets, scopes, texts, ptz, moves, tz,
                       phase>>

\* add_profile() lets a later profile replace an earlier one.
CommitReplaces ==
    LET p == [draft EXCEPT !.type = Val]
    IN  /\ Takes({"type"})
        /\ Val \in Types /\ IsValid(p)
        /\ profiles' = [profiles EXCEPT ![p.name] = p]
        /\ draft' = Cleared
        /\ UNCHANGED <<line, ifs, sockets, scopes, texts, ptz, moves, tz,
                       phase>>

\* --type ends a profile: set_type(), add_profile(), clear().
CommitProfile ==
    LET p == [draft EXCEPT !.type = Val]
    IN  /\ Takes({"type"})
        /\ Val \in Types /\ IsValid(p) /\ profiles[p.name] = NoProfile
        /\ profiles' = [profiles EXCEPT ![p.name] = p]
        /\ draft' = Cleared
        /\ UNCHANGED <<line, ifs, sockets, scopes, texts, ptz, moves, tz,
                       phase>>

\* socket() hands out the lowest descriptor that is free.
Opens(f) ==
    /\ f \in Descriptors \ sockets
    /\ \A g \in Descriptors \ sockets : f <= g

\* ~Eth_Dev_Param() closes _sd, as its commented lines would: push_back() of
\* the second element copies the first and destroys the original.
OpenThenDestroy ==
    /\ Takes({"ifs"})
    /\ Val # NoInterface
    /\ \E f \in Descriptors :
        /\ Opens(f)
        /\ ifs' = Append(ifs, [dev |-> Val, sd |-> f])
        /\ sockets' = {f}
    /\ UNCHANGED <<line, draft, profiles, scopes, texts, ptz, moves, tz,
                   phase>>

\* push_back() of an Eth_Dev_Param, which moves the others by plain copies, and
\* open(): a socket, on which SIOCGIFFLAGS finds the interface.
OpenInterface ==
    /\ Takes({"ifs"})
    /\ Val # NoInterface
    /\ \E f \in Descriptors :
        /\ Opens(f)
        /\ ifs' = Append(ifs, [dev |-> Val, sd |-> f])
        /\ sockets' = sockets \cup {f}
    /\ UNCHANGED <<line, draft, profiles, scopes, texts, ptz, moves, tz,
                   phase>>

SetTzFormat ==
    /\ Takes({"tz_format"})
    /\ Val \in 0..5
    /\ tz' = Val
    /\ UNCHANGED <<line, draft, profiles, ifs, sockets, scopes, texts, ptz,
                   moves, phase>>

\* The strings of the device and of its user, whatever they are.
SetText ==
    /\ Takes(TextFields)
    /\ texts' = [texts EXCEPT ![line[pos].opt] = Val]
    /\ UNCHANGED <<line, draft, profiles, ifs, sockets, scopes, ptz, moves, tz,
                   phase>>

AddScope ==
    /\ Takes({"scope"})
    /\ scopes' = Append(scopes, Val)
    /\ UNCHANGED <<line, draft, profiles, ifs, sockets, texts, ptz, moves, tz,
                   phase>>

EnablePtz ==
    /\ Takes({"ptz"})
    /\ ptz' = TRUE
    /\ UNCHANGED <<line, draft, profiles, ifs, sockets, scopes, texts, moves,
                   tz, phase>>

SetMove ==
    /\ Takes({"move"})
    /\ moves' = moves \cup {Val}
    /\ UNCHANGED <<line, draft, profiles, ifs, sockets, scopes, texts, ptz,
                   tz, phase>>

\* daemon_error_exit() before the fork; --help, --version and an unknown
\* option end the process as well.
Refuse ==
    /\ phase = "parsing"
    /\ pos <= Len(line)
    /\ CASE line[pos].opt \in {"width", "height"} -> ~SizeOK(Val)
         [] line[pos].opt = "type" ->
                ~ (/\ Val \in Types
                   /\ IsValid([draft EXCEPT !.type = Val])
                   /\ profiles[draft.name] = NoProfile)
         [] line[pos].opt = "ifs" ->
                Val = NoInterface \/ Descriptors \subseteq sockets
         [] line[pos].opt = "tz_format" -> Val \notin 0..5
         [] OTHER -> line[pos].opt = "other"
    /\ phase' = "refused"
    /\ UNCHANGED <<line, pos, draft, profiles, ifs, sockets, scopes, texts,
                   ptz, moves, tz>>

\* The options are used up: main() goes on to daemonize2().
EndOfOptions ==
    /\ phase = "parsing"
    /\ pos > Len(line)
    /\ phase' = "starting"
    /\ UNCHANGED <<line, pos, draft, profiles, ifs, sockets, scopes, texts,
                   ptz, moves, tz>>

\* check_service_ctx(), in the daemon, then init_gsoap() and the main loop.
CheckContext ==
    /\ phase = "starting"
    /\ phase' = IF /\ ifs # <<>> /\ scopes # <<>>
                   /\ \E n \in Names : profiles[n] # NoProfile
                THEN "serving" ELSE "failed"
    /\ UNCHANGED <<line, pos, draft, profiles, ifs, sockets, scopes, texts,
                   ptz, moves, tz>>

ContextNext ==
    \/ SetField \/ CommitProfile \/ OpenInterface \/ SetTzFormat
    \/ SetText \/ AddScope \/ EnablePtz \/ SetMove
    \/ Refuse \/ EndOfOptions \/ CheckContext

-----------------------------------------------------------------------------
(* Properties *)

\* An Eth_Dev_Param has no copy constructor and the vector copies it whenever
\* it grows: still each element of eth_ifs has an open socket of its own, and
\* no socket is open that none of them has.
InterfacesOpen ==
    /\ sockets = {ifs[k].sd : k \in DOMAIN ifs}
    /\ \A j, k \in DOMAIN ifs : ifs[j].sd = ifs[k].sd => j = k

\* The positions of option o after position j and before position k.
Given(o, j, k) == {m \in (j + 1)..(k - 1) : line[m].opt = o}

\* "It is also a sign of the end of the profile parameters" (help of --type):
\* although all of them pass through one variable, each profile of the context
\* has exactly the last of the values given between its --type and the one
\* before, none is missing and none has replaced another.
ProfilesAsWritten ==
    LET ends == {k \in 1..(pos - 1) : line[k].opt = "type"}
    IN  /\ Cardinality({n \in Names : profiles[n] # NoProfile})
            = Cardinality(ends)
        /\ \A j \in ends \cup {0}, k \in ends :
            (j < k /\ Given("type", j, k) = {}) =>
                \E n \in Given("name", j, k) :
                    LET p == profiles[line[n].val]
                    IN  /\ p # NoProfile
                        /\ p.type = line[k].val
                        /\ \A f \in {"name", "width", "height", "url"} :
                            \E m \in Given(f, j, k) :
                                /\ Given(f, m, k) = {}
                                /\ p[f] = line[m].val
                        /\ \/ p.snapurl = NoUrl /\ Given("snapurl", j, k) = {}
                           \/ \E m \in Given("snapurl", j, k) :
                                /\ Given("snapurl", m, k) = {}
                                /\ p.snapurl = line[m].val
=============================================================================
