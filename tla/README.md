# A verification project for the sample applications of Arc Jumpstart Drops

The repository is a collection of "drops": documentation, templates, scripts and
sample applications. The code with behaviour of its own, state that outlives a
call, processes that race, messages that get lost, is in two sample applications,
and in the checks a drop has to pass:

- `src/sample_app/onvif_camera_mock/artifacts`: the `wsdd` and `onvif_srvd`
  daemons (C, C++), their start scripts (sh) and their launcher (Python);
- `src/sample_app/cerebral_genai`: the edge RAG pipeline (four Python services
  and a broker) and the Cerebral chat application (Flask, Redis);
- `src/.github`: the content check of a pull request and the weekly date check.

These are what is modelled. Paths below leave out `src/sample_app/`, and
`artifacts/` of the camera and `code/` of the RAG application.

## Inventory

### The camera mock

| Component | State | Operations | Talks to |
|---|---|---|---|
| daemon lifecycle (`daemon.c`, `init`, `main` and the signal handlers of both daemons) | process, descriptor and lock of the pid file, the file's name and content, pending SIGTERM, the port | daemonize, create the pid file, install handlers, bind, serve, handle SIGTERM, fail | scripts, through the file, signals and exit codes |
| start scripts (`S90wsdd`, `S90onvif_srvd`) | the shell's place in the script, the pid it has read | start, stop, restart | daemons, by `kill` |
| launcher (`main.py`) | the same | `pkill`, `pkill -9`, launch; a GStreamer server | daemons |
| service context and command line (`onvif_srvd.cpp`, `ServiceContext.cpp`) | interfaces with a socket each, profiles, the draft profile, texts, scopes, time zone format, PTZ commands | one per option, the final check | read by every handler |
| accept loop (`onvif_srvd.cpp`) | the backlog, the one connection being served | accept, dispatch, close, end | clients |
| Device, Media and PTZ services | none of their own; the camera a PTZ command moves | some 40 ONVIF requests; 174 more are answered with success and do nothing | service context, interfaces, `system()` |
| interface parameters (`eth_dev_param.cpp`) | a socket descriptor per object; asks the kernel each time | construct, copy, open, close; get the address, mask, hardware address | kernel |
| WS-Discovery (`wsdd.c`, `wsdd_utils.c`, `client_events.c`) | endpoint, scope, xaddr template, the gSOAP context | join the group, Hello, answer Probe, Bye | clients, by multicast that loses, doubles and reorders |
| helpers (`net_utils.c`, `file_utils.c`) | descriptors, blocking mode, the connection, the bytes moved | make a socket, connect with a time limit, send, receive, read and write in loops, count files; of these only the address look-ups have a caller, `wsdd` | kernel, the peer |

### The RAG application

| Component | State | Operations | Talks to |
|---|---|---|---|
| search page (`rag-on-edge-web/page_vector_search.py`) | the conversation of a browser session, the running search | ask, poll, show, trim | interface (HTTP) |
| index pages (`page_create_index.py`, `page_delete_index.py`, `page_upload_data.py`) | none | create, delete, upload | vector database (HTTP) |
| interface (`RAGInterface/main.py`) | `pending_requests`, in memory | accept a request, publish it, take the result, give it out | pages, broker |
| vector database (`VDBModule/main.py`, `ChromaHelper.py`) | collections, in Chroma's files in the container; the image ships some | create, delete, upload in batches, search | pages, broker |
| language model (`LLMModule/main.py`) | the model | infer | broker |
| Cerebral (`rag-on-edge-cerebral/app.py`, `templates/`) | a session per browser in Redis, copies of it in threads, one conversation for all | home, log in, log out, reset, ask, files of a page | browser, Redis, InfluxDB, OpenAI |
| simulator, test programs, manifests | none | | |

### The checks of a drop

| Component | State | Operations | Talks to |
|---|---|---|---|
| content validator (`.github/workflows/content-validator.yaml`, `content-validator/`) | the list of changed files, a task per file with a word list of its own | drop names the whitelist does not keep, read the Source, fetch a README, look for listed words | GitHub, files |
| date validator (`date-validator/validator.js`) | the drop it is at, the list of outdated ones | ask for the last commit, compare, report | git log, GitHub's API |
| schema check, catalogue build | | third-party action; static site | |

### Elsewhere

The OVAL snapshot of the Power BI dashboard, the
endpoint check, the SQL and ESU runbooks, the provisioning scripts, the LoRaWAN
broker, the catalogue and the infrastructure templates: `PROJECT.json` has an
entry for each, with why it is not modelled or when it is planned.

### What is hard, and what makes each part correct

- **Pid file.** A start is six steps (open, lock, truncate, write, arm, bind), a
  stop reads the file twice, signals and removes it, and the daemon being stopped
  unlinks the same name when its handler gets there. Correct: locks exclude, a
  running daemon's file is never clobbered, one instance serves, it can be found
  through the file, "not running" is true, SIGTERM ends it, and a stranger that has
  got a dead daemon's pid is taken for it only while none is up.
- **Accept loop and PTZ.** The loop is all that keeps a second client out of a
  three-command move; the handlers look at addresses that may change between two
  requests. Correct: a RelativeMove has the camera to itself and leaves it at
  rest, a client is told an address it can reach, nobody waits for ever.
- **WS-Discovery.** Datagrams are lost, late and doubled, the address changes, and a
  signal may interrupt the set-up. Correct: nothing is announced without a name, an
  answer is no older than its question, a client that keeps probing finds the camera.
- **Socket helpers.** A call moves part of what it was asked to, or nothing, or fails
  behind what it has moved; a `size_t` is counted down in an `int`; a connection is
  refused, breaks or is late. Correct: bytes arrive in order, none lost, none twice,
  and the count told is what went out; whatever fails, no descriptor is leaked or
  closed twice; a socket returned is connected; every helper returns.
- **Command line.** One draft profile passes every profile of the line. Correct:
  the profiles are what is written between two `--type`. Interfaces are copied with
  the vector that holds them: each keeps an open socket of its own.
- **Vector database.** An upload looks its collection up by name for every batch.
  Correct: batches cover the file, an index holds a prefix of every running
  upload, success means everything is there.
- **RAG pipeline.** Messages are delivered at least once, handlers run in
  parallel threads, each service may be restarted, the page gives up and the user
  asks on. Correct: an answer shown is the asked question's from the asked index,
  a question is told one outcome, once, and messages do not vanish.
- **Cerebral.** Threads read, change and write back whole sessions; replies arrive
  in any order; Reset is a form, a button and, through the page's script, a
  question. Correct: histories hold their own browser's lines, each once, and are
  exact where requests do not overlap.
- **Checks of a drop.** Files are read in parallel and every failure is caught
  where it happens; names and listed words go through conversions that do not keep
  them all; the sources are pushed to while the date check takes its time, with
  author dates in any order. Correct: a failure is not a pass, and what is outdated
  all the time is not passed over.

The list of hazards in `PROJECT.json` names the line of each and the properties
that would catch it.

## Modules

| Module | Models | Uses |
|---|---|---|
| `DaemonService` | abstract: a service that is started, told to end, and found or not | |
| `DaemonLifecycle` | pid file, both daemons, scripts, launcher | implements `DaemonService` |
| `ServiceContext` | options of `onvif_srvd`, one at a time | |
| `OnvifHandlers` | the names of the handlers that do nothing | |
| `OnvifServer` | accept loop and handlers | extends `ServiceContext`, `OnvifHandlers` |
| `WsDiscovery` | `wsdd` on the network: Hello, Probe, ProbeMatches, Bye | |
| `ByteStream` | abstract: what two programs that talk through the loops may rely on | |
| `SocketHelpers` | socket and file helpers at both ends of a connection | implements `ByteStream` |
| `VdbIndex` | index operations of the vector database | |
| `RagPromise` | abstract: what a search promises the user | |
| `RagPipeline` | page, interface, three topics, database and model handlers | extends `VdbIndex`, implements `RagPromise` |
| `CerebralSession` | routes, threads, Redis, the page and its script | |
| `DropFiles` | what the checks tell apart in a file | |
| `ContentValidator` | content check of a pull request | extends `DropFiles` |
| `DateValidator` | weekly check of the dates | extends `DropFiles` |
| `DropChecks` | pull request, merge, weekly check | extends both |
| `MC*` | instances for TLC | |
| `*Proofs` | theorems of the module of that name | |

Operators whose comment calls them faulty, or that stand before the definition
they vary, are forms of that definition with a plausible mistake. They are not
part of any next-state relation; they are what the mutants of `PROJECT.json` use
to show that a property can fail.

### State and actions, and the code

`DaemonLifecycle`. `pc[p]` is the statement a process is at, from the `fork()` of
`do_fork()` to its exit; `fd`, `dirent` and `data` are its descriptor, the name of the
pid file and what is written in each inode; `term` has the processes with a pending
SIGTERM. `OpenPidFile`, `LockPidFile`, `TruncatePidFile` and `WritePid` are
`create_pid_file()`; `InitSignals`, `BindPort` and `EnterMainLoop` are `init()` and
`main()`; `TermHandled`, `ReleaseContext`, `UnlinkPidFile` and `Exit` are
`daemon_exit_handler()`. Before `sigaction()` SIGTERM kills. After it the handler uses
gSOAP and malloc from a signal, which POSIX leaves undefined: the model lets the
process crash (`TermKills`) or go on. A hang is not among the outcomes, as both
daemons have one thread, in which glibc and musl take no malloc lock. Scripts go from
one command that reads or changes shared state to the next. `site` is chosen at the
start: the daemon, the commands its shells give and whether they wait for each other
(`spaced`). It is either the S90 scripts with the `*_debug` binary and its
`*_debug.pid`, or `main.py` with the release binary and the default pid file, never
both: a state has one pid file, and a site only the commands that use it. `stranger`
has the pids of processes that are no daemon of ours. They come and go, and may get
the pid a dead daemon has left in its file: `KillWorks` is then true of it, so `start`
says "already running", and `stop` signals it. `onvif_srvd` has TCP, where a listening
port is exclusive and a failed accept ends `main` without cleanup, `wsdd` UDP with
`SO_REUSEADDR`. `DaemonService` is what an administrator may rely on: a process is
off, starting, up or ending, and a shell that says something of it says so of one that
is, except that "already running" may be said of a stranger, and then none is up
(`mistaken`). `Phase`, `Told` and `Mistaken` are the mapping: a daemon is starting
until it is in its main loop, up while it is there, and ending from the moment SIGTERM
is pending.

`ServiceContext` reads `line[pos]`, one option per step, into `draft`, `profiles`,
`ifs`, `tz`, `texts`, `scopes`, `ptz` and `moves`; `sockets` has the descriptors of
the process, and each interface the one its `Eth_Dev_Param` was opened with, which
every reallocation of the vector copies. `SetField` is the setters, `CommitProfile`
the `--type` case with `add_profile()` and the clearing of the draft, `Refuse` every
`daemon_error_exit()`, `CheckContext` the checks after the fork. Sizes keep their
bounds (100 and 10000 are values of the instances).

`OnvifServer` has `waiting` (backlog), `calls` (what the loop serves; a set, so that
"one at a time" is what `Accept` does and not what the type says), `camera`, and
`addr`, which changes at any time. `RelativePan`, `RelativePanStop`, `RelativeTilt`,
`RelativeTiltStop` are the `system()` calls of `RelativeMove()`; `Terminate` is SIGTERM at
any of them. `ServerIps` is a set because an interface without an address is
compared through uninitialised memory, of which any outcome is possible. Answers
keep what depends on the command line or on an address: hosts, profiles, the
`SnapshotUri` capability, the PTZ service, the texts and scopes; constants are left
out. `Empty` is any handler of `OnvifHandlers`.

`WsDiscovery` takes over from `DaemonLifecycle` where the daemon has its pid file.
`pc` is the statement of `init_gsoap()`, `main()` or `free_resources()` it is at,
`answer` the ProbeMatches between the address look-up and `sendto()`, `net` the
datagrams under way. `JoinGroup` is nondeterministic because `imr_ifindex` of its
request is never set. `get_xaddr`, `get_ip_of_if` and `get_addr_of_if` have the names
they have in the code. `since` is a history variable: the addresses that were right
at some moment since a Probe was sent.

`SocketHelpers` has two ends, each a process with one thread. `call[e]` is the helper
it is in and the system call it is at, `sd` and `aux` the descriptors the helper has,
`open` those the process has, `net` the connection. `xfer[e]` holds the arguments and
locals of a loop: `len` is an `int`, so `ToInt` is what a large `buf_len` becomes. The
byte at place n is n, which makes a gap, a repetition and a swap visible in `wire`
(what went out) and `mem` (what came in). Callers are external: they pass on the
buffer behind the count they were told, and stop at -1. `StreamKept` instantiates
`ByteStream` with what went out, what the writer was told and what the reader was.

`VdbIndex` keeps `created` and `store`, Chroma's names and documents, and for each
upload the batch its loop is at. The image is built with whatever the repository's
`chromedb/db` holds (`COPY . .`), so the first state has the collections `Shipped`,
each with a record no upload has put there (`ImageStore`). `VdbRestart` ends the
uploads; a process that is started again in its container finds its files as they
were, a new container those of the image. `First` and `Batches` are `np.array_split()`
and the expression that calls it.

`RagPipeline` has the page of each session, `pending` (the interface's dictionary,
lost at `InterfaceRestart`), the three topics as sets, `searching` (threads between
search and publish) and `told`, what the user of the abstract specification knows.
What an answer may rest on is `Provided`: uploaded to its index, or shipped with it.
A topic is a set because delivery is at least once and unordered: `Acked` lets a
message stay although its handler finished. With `DropsRefused` a message whose
handler returned an error may be dropped, as Dapr does without a retry policy.

`CerebralSession` follows Flask-Session: every request has a thread, the thread has
the whole session loaded when it starts (`Open`, `OpenPage`, `FetchOpen`), changes its
copy or not, and may store all of it when it ends (`Finish`, `Save`, `FetchSave`). A
copy that was modified is always stored. One that was not (`home()`, a refused login,
a file under `static/`) is `Stored` or left alone: `requirements.txt` does not pin
Flask-Session, releases before 0.8 store it, and 0.8 does not for a session that is
not permanent, as `SESSION_PERMANENT` says here. `fetch[b]` is the request for a file.
The page is blank from the moment it is left until the next one is rendered, and a
question whose page was left still runs. Reset and Log in redirect to `home()`, a
request of its own. The query, the recommendations and the chart of a data question
touch nothing shared and are one step, `FetchData`. The application runs with
`debug=True`, so an exception is a page with code 500 and nothing is stored.
`answered`, `disturbed` and `cleared` are history variables, of which only properties
speak.

`ContentValidator`. `Sanitize` is one round of the shell loop of the workflow: `Clean`
takes a name the whitelist keeps, if its extension is listed; one that loses
characters is skipped, or turns into another file of the repository (`Namesakes`), so
that `drops/my drop.json` is never looked at. `Start` is the end of that step: without a
name left the job passes and `validator.js` is not started. `ReadSource`,
`FetchReadme` and `Filter` are the part of `validator.js` before the tasks,
`ReadContent`, `LoadTerms`, `ReloadTerms` and `Scan` one task, `Finish` is the end after
`Promise.all()`. A file is a record of what these steps can tell apart. Of the words in
it that is how a listed term stands there (`Wordings`), because `Detects` depends on it:
in a text a term is found only between white space, in JSON only if it has no mark
and no blank in it, since every mark becomes a blank first, and not behind a line
break, which JSON spells with a letter; a term of the list with a blank at its end
is found nowhere. `DateValidator` has a loop over `files`; `head` is what GitHub knows and
changes to any date while the loop runs, as git does not order author dates;
`checkout` is what it was when the job began, `since` a history variable, all that
`head` has been since. `MergeAndSchedule` of `DropChecks` puts some of
the drops of a pull request that passed among those that were there, in any order:
`readdirSync()` sorts, but the names may be anything. `merged` has their places.

## Runs

Types are not among the properties of the runs: each has a theorem.

| Run | Instance | Shows |
|---|---|---|
| `daemon_runs` | two processes, two inodes, one shell, fair; `onvif_srvd` with every command and a shell that does not wait, either daemon with shells that do, under the S90 scripts or under `main.py` | a lock has one holder, a live owner's inode has its pid, SIGTERM ends a daemon, a launch settles; where commands wait, and strangers get the pids of dead daemons, there is one instance, found by the file, "not running" is true, no launch is refused, and `DaemonService` is implemented |
| `restart_loses_pid_file` | two `onvif_srvd`, restart | violation: a serving daemon is "not running" |
| `vdb_uploads` | two uploads of 0 to 5 records, batches of 2, two indexes, one of them shipped | batches, prefixes, success |
| `rag_faults` | two sessions, two questions, timeouts 0 and 2, a shipped index, no uploads, restarts, repeats, failures | nothing published is lost, `RagPromise` is implemented |
| `rag_answers` | one session, two questions, two indexes, one shipped, one upload, timeout 2, fair | answers match and come from an uploaded or shipped document, lines are paired, every question is told, results arrive |
| `onvif_server` | 168 command lines, two clients in subnets of their own, two interfaces, fair | profiles, sockets, moves, addresses, whole-hour zones, no one waits for ever |
| `zone_loses_minutes` | one client, an offset of 5 h 30 | violation: the minutes are lost |
| `cerebral_sessions` | two browsers, two questions, files of a page, restarts of application and Redis | histories are own and exact, without what was cleared, the model sees the question, the page shows what is stored |
| `reset_is_undone` | one browser, two questions | violation: what Reset cleared comes back |
| `wsdd_discovery` | one client, one Probe at a time, three states of the interface list, two changes, fair | announcements are named, answers are fresh, probing finds |
| `socket_helpers` | a client and a server, two descriptors, room for two bytes, an `int` of four bits, fair | descriptors balance, a socket returned is connected, `ByteStream` is implemented, every helper returns |
| `drop_checks` | pull requests of one and two files of twenty-one kinds, merged with none or one drop | a pass is clean, what is outdated all the time is not missed, what is listed was outdated, one bad file is caught |

### Bounds, and why they are enough

- *Two processes, two inodes, one shell*: a process that holds a file and a newcomer;
  processes only meet in pairs, at a lock, a name or the port. A third inode or
  process adds nothing to that, and the theorems have any number. One shell is enough
  for contention since the hasty one does not wait for what it started. Pids and
  inodes are used again, so a run of any length is covered.
- *One pid file per site*: the S90 scripts and `main.py` on one machine would be two
  files, of which neither's commands see the other's daemon; that mix is not
  modelled, nor are `main.py`'s `pkill` of a process another site runs under that name, nor
  the systemd units, which keep their pid files under `/tmp`.
- *An `int` of four bits, sizes 3, 10 and 17, room for two bytes*: 3 takes two
  transfers, 10 is negative as an `int` and 17 is 1. Two descriptors are a socket and
  epoll's or the accepted one; with one more open a call fails, which is also a case.
  Two attempts per loop, two loops and two tries per end: the first and the last, the
  one that failed and the one that follows it. The theorems have any sizes.
- *Files of 0 to 5 records, batches of 2*: empty, smaller than a batch, exact
  multiples and remainders; `FilesAreCut` has every size.
- *Two questions, two uuids, two pages*: every property relates a question to
  one other (its predecessor or its neighbour). A timeout of 0 or 2 checks: none (in `rag_faults`), and one that
  can be both reached and not reached. One of two indexes is shipped, so that an
  answer may come from either origin, and deleting and creating meet both. `CONV_HISTORY_NUM` is 5 in the code; 3 lets
  the trim happen sooner and takes the same branch.
- *Command lines*: all sequences of up to three further options of five kinds in
  a second profile, complete lines of one and two profiles, and one line for each
  refusal. Two interfaces and two subnets have each outcome of the address choice.
- *Two browsers, two questions*: two requests of one browser that overlap, or one
  of each; three states of a page. A browser asks for one file at a time, and while one
  browser's file is served no request of the other is (`FetchesAlone`): of another
  browser such a request shares only the restarts, and with those of its own it
  overlaps freely. `reset_is_undone` does without these requests (`NoFetches`), so that its
  trace is due to Reset alone. The theorems have no bound.
- *One client, one Probe, one UUID; three interface lists, two changes*: clients do
  not meet, and a duplicated datagram is a second Probe of the same id. The lists are
  one address, two of them behind an IPv6 entry, and an interface without one; two changes are there
  and back. `AnswersFresh` and `AnnouncementsNamed` have no bound.
- *One or two files, dates 0, 1 and never*: every rule of the checks is about a file
  alone or about whether there is a second one; dates are only compared. A name that
  loses characters is no file's or that of one other file. The theorems have any.

Symmetry is used where model values are only compared, and never with a liveness
property. Views leave out history variables and dead values that the properties
of that run do not read; each says which. `ChatView` keeps `cleared` and `answered` until a
browser is disturbed, after which no property reads them; the view of `DropChecks`
keeps of `since` whether all and whether some of its dates outdate the drop.

Deadlock is checked except for `OnvifServer`, `SocketHelpers` and `DropChecks`, which
end.

### Fairness

`DaemonLifecycle`: the kernel schedules every process, and a shell finishes the
command it began. Nothing has to fail, and nobody has to give a command.
`RagPipeline`: page scripts keep running; for each message the broker keeps delivering
and the handler is scheduled (weak fairness per id, as Dapr redelivers and Flask has a
thread per delivery). `ResultArrives` is checked without failures. `OnvifServer`: the
process is scheduled and its `system()` commands return; `soap_serve()` has timeouts,
so a silent client is dropped (`Unserved`). Clients need not connect. `WsDiscovery`:
weak fairness of the daemon's steps; strong fairness of probing and of arrival, as a
client probes periodically and what is sent again and again on a network that works is
received again and again. No particular datagram arrives, and nothing is assumed of
addresses and signals. `SocketHelpers`: a process that is in a helper is scheduled,
and a system call that does not block returns. No signal has to come to a loop's help:
`HelperProgress` takes a failing step of a loop only when its connection is gone. A
loop on a blocking socket waits for its peer, so nothing is claimed of it.
`DropChecks` has no liveness property. `CerebralSession` has no liveness property:
every call a thread waits for is a remote service's, of which the code assumes
nothing.

## Findings

1. `NotRunningIsTrue`, run `restart_loses_pid_file`: the handler unlinks the pid file
   by name. `S90onvif_srvd restart` has removed it already and starts the next daemon
   at once, so it is the new daemon's file that goes, and `stop` then says "not
   running" of a daemon that serves.
2. `ZoneIsOffset`, run `zone_loses_minutes`: `abs(tm_gmtoff % 60)` is seconds, always 0,
   and is printed as the minutes of the zone.
3. `ResetClears`, run `reset_is_undone`: a question under way stores the session it
   loaded before the reset; and the page's script starts one at every Reset.

Seen while modelling, and in the models as the code has it, without a run:

- the search page pops one line of a long history and appends two;
- `imr_ifindex` of `wsdd`'s group request is not initialised, and `SIGTERM` between the
  join and `get_endpoint()` sends a Bye that names nothing;
- the content check reads a list separated by spaces line by line, so a pull request
  of several files passes unread; of an external drop it fetches a README and then
  drops it from the list, unless the name of the repository ends in `drops`;
- it skips a file whose name has a blank or another character the whitelist does not
  keep (`drops/my drop.json`), and the job passes; the weekly check stops at it;
- of the terms of `en.txt` those with a mark in them cannot be found in JSON, and those
  with a blank at the end or inside nowhere;
- the date check compares author dates: a push of older commits while it runs hides
  a drop that was outdated when the run began;
- a connection that times out or is refused leaves `errno` at the `EINPROGRESS` of
  `connect()`, and a failed look-up sets `h_errno`; "see errno" say the comments;
- `recv_loop()` is -1 at the end of the stream although it has received bytes before,
  `read_loop()` tries again until its attempts are used up;
- `count_files_in_dir()` counts `.` and `..`;
- a client that sets scopes, users or presets is told of success and nothing is set;
- the date check makes 88 requests in 44 minutes where GitHub allows 60 an hour.

## What is proved

Every theorem is for all values of the constants, under the assumptions named in the
module that declares them: that null values are not members of the sets they complete,
and the ranges of numbers and flags. Sets may be infinite. The four theorems under
`SitesArePatient` and the one under `WholeHours` have an assumption of their own,
named below. Types are proved for every state machine as `TypeCorrect`. Every
invariant, action property and refinement that a passing run checks is a theorem.

- **`DaemonLifecycleProofs`**: `LockInv` is inductive. Exclusion of `lockf()` alone is
  not: the step of a third process that opens the file must know that a dead
  process has no descriptor (`DescriptorsAreLive`), and that an inode is only used
  again when nobody holds it. With it `LockIsExclusive` and `OwnerIsNamed`. Under
  `SitesArePatient`, that no site whose commands wait uses `restart`, which the
  finding `NotRunningIsTrue` needs, `PatientInv` says that at most one process is
  alive, that the name of the pid file leads to it until it is told to end, and
  that what a shell believes (it has seen nothing, or the pid) is so: `DaemonIsSingle`,
  `DaemonIsFound`, `LaunchIsClear` and the action property `NotRunningTrue`.
  `ServiceIsKept` shows step by step that such a site implements `DaemonService`, whoever
  gets the pid of a daemon that ended: a stranger may pass for a daemon, but never
  while one is up, as its file then has its own pid. Besides
  `PatientInv` it needs that a SIGTERM is only pending for a process that lives
  (`TermIsLive`): otherwise a new process would begin as one that is ending.
- **`VdbIndexProofs`**: the lemmas on `First` and `Batches` (non-linear arithmetic, in
  steps of one fact each) give `FilesAreCut`; `VdbInv` adds to the properties that
  documents of an upload that has not begun are nowhere, from which
  `UploadsArePrefixes`, `StoresMatchIndexes` and the action property
  `SuccessesAreComplete`.
- **`RagPipelineProofs`**: `RagInv` says of every message, pending entry and page that
  its id was minted for the question and index it carries. This is what makes
  `AnswersMatch` inductive although the interface forgets: an id is minted once, so
  a late message cannot meet another's entry. `FlightInv` follows each published id
  through the topics and gives `RequestsStayInFlight`. `HistoryInv` adds to
  `HistoryPaired` that the question of a running script is the last line, whatever
  was given up before: `AnswersFollowQuestions`. `PromiseIsKept` maps every step to one of
  `RagPromise` or to none; it rests on `RagInv`, as the abstract answer must be of the
  question and index that were asked. `Provenance` adds where a document comes from,
  be it stored, searched, inferred from or shown: it is a record of a file somebody
  uploaded to its index, or one the image was built with, and no later step undoes
  that; so `AnswersMatch` also says that what is shown was uploaded or shipped, although the
  index may be deleted or its module restarted while the answer is on its way.
  `PipelineIsIndex` shows that every step of the pipeline is one of `VdbIndex` or none; what
  is proved of that module holds while it is searched (`UploadsWhileSearched`).
  `NoneIsForgotten` is what safety can say of `AskedIsTold`: whoever waits has a script at work.
- **`OnvifServerProofs`**: `ServerInv` has at most one call (`OneCall`), calls only
  while serving, and for that call what its finished steps did to the camera
  (`Underway`): `MotionIsExclusive` and the action property `RelativeMoveEndsStill`.
  `WrittenInv` says of each position of the command line what the draft and the
  profiles have from it: `ProfilesAreAsWritten`. `OptionsAsWritten` says the same of the options
  that are no profile's, in their order where the order counts, and `AnswersInv` that
  an answer agrees with the context; with `ReadToTheEnd` (who serves has read the
  whole line) `AnswersAreAsWritten` ties what a client is told to the command line. `InterfacesOpen` is
  inductive as it stands, with types, and `AddressesReachClients` is about
  which handlers send an address and what `ServerIps` returns. `ZonesAreOffsets` assumes
  `WholeHours`, that the zones are whole hours from UTC; without it the second finding
  refutes it.
- **`WsDiscoveryProofs`**: `FreshInv` says of an answer under way and of one being put
  together that its host is among those that were right since its Probe; a Probe
  may only be sent when nothing of its predecessor is left. `NamedInv` adds that
  every state from the first listening on has an endpoint.
- **`SocketHelpersProofs`**: `BytesInPlace` says that `wire` is the first bytes of the
  stream, and where both ends' buffers are in it, between what was told and what has
  been moved. The refinement
  `StreamIsKept` follows step by step. The loops count in `int`: the sum that is told is
  right because the truncations of `size - len` and of `size` cancel out.
  `DescriptorsAreBalanced` and `ConnectedAreEstablished` tie the program counter of a
  helper to the descriptors it has and to the state of the connection.
- **`CerebralSessionProofs`**: `LinesInv` says that copies held by threads and shown
  pages are as clean as stored sessions, and that a question not finished yet is in
  none of them: `LinesAreOwn`. `ExactInv` says of a browser that was not disturbed
  that a thread's copy, be it a question's, a route's or a file's, equals what is stored,
  so storing it, modified or not, loses nothing: `HistoryIsExact`. A request for a file
  disturbs like any other, since it may store an old copy. `ClearedInv` says that the requests of cleared questions are over and that none
  of them counts as answered since; the finding `ResetClears` is what becomes of it where
  requests overlap. For `PageIsSaved`, `LeavingInv` says that a page that is being left
  shows nothing and gets no replies, and `BeginsInv` that the page and the replies
  under way to it are beginnings of the stored history. `OwnQuestionSeen` needs that the conversation is only appended to while a
  thread waits.
- **`DropChecksProofs`**: `ContentInv` says what the shell loop has passed on
  (`ChangedAreListed`) and what each task of a job has looked at, so that the exit code
  after `Promise.all()` speaks for all of them: `PassesAreClean`, which claims only what the
  code can find in texts and in JSON alike, terms of letters and digits between
  spaces. `DateInv` says what the loop over the drops is through with, relative to all
  dates since the checkout (`DatesAreSince`): `ReportsAreTrue`, with dates in any order.
  `MergedHavePassed` carries what the first check found over the merge to the second:
  `BadFilesAreCaught`, for names the whitelist keeps, one on a line.

Model-checked only: what needs fairness (`TermEndsDaemon`, `LaunchSettles`, `AskedIsTold`,
`ResultArrives`, `ConnectionsServed`, `ProbingFinds`, `HelpersReturn`), out of the prover's
reach.

## What is not modelled

Content: prompts, embeddings, tables, charts, images, the XML of ONVIF and
WS-Discovery, file names other than the pid file's. Third-party code (gSOAP,
GStreamer, Chroma, LangChain, Dapr, Flask-Session, Redis, InfluxDB) appears as the
actions its callers rely on, marked external. Of functions without a caller,
`file_size()`, `ffile_size()` and `get_ip_of_host()` return a value and change nothing, and
the setters and the gateway of `Eth_Dev_Param` change the kernel's configuration only.
The other components are listed in `PROJECT.json` with a
reason each.

## Plan

Done, in this order: `DaemonLifecycle`, `VdbIndex`, `RagPromise` and `RagPipeline`,
`ServiceContext` and `OnvifServer`, `CerebralSession`, `WsDiscovery`; `DropFiles`,
`ContentValidator`, `DateValidator`, `DropChecks`; `ByteStream` and `SocketHelpers`,
`OnvifHandlers`; all with their proofs.

1. `OvalSnapshot`: preparations that run at once, crash before and after
   `os.replace()`, and readers; the snapshot is always one a preparation wrote, whole.
2. `EndpointCheck`: what the options select, which endpoints a bypass or the gateway
   exempts from which probe, and how probes and issues make a verdict.
3. The runbooks as retried loops: a second run completes the first.
4. The catalogue build: a push during a deployment.

Every safety property and every refinement of a run is a theorem. Worth proving next are the
lemmas on which a liveness argument would rest, as `NoneIsForgotten` is for `AskedIsTold`.
