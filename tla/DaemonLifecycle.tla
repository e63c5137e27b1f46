--------------------------- MODULE DaemonLifecycle ---------------------------
(***************************************************************************)
(* The life of the two camera daemons, wsdd and onvif_srvd, around their   *)
(* pid file: daemonize2() and create_pid_file() of daemon.c, the init()    *)
(* callbacks, the SIGTERM handlers of wsdd.c and onvif_srvd.cpp, and what  *)
(* drives them from outside: the S90 start/stop scripts and main.py.       *)
(*                                                                         *)
(* The S90 scripts run the *_debug binaries with a *_debug.pid of their    *)
(* own, main.py the release binaries with the pid file of the build, so a  *)
(* site has either and one pid file.  The shells that share it share the   *)
(* working directory too: the name is relative, and DAEMON_NO_CHDIR is 1.  *)
(*                                                                         *)
(* The file system and the kernel are external: a directory entry for the  *)
(* name of the pid file, the inodes it has named, the descriptor each      *)
(* process keeps open and with it the lockf() lock, signals that are sent  *)
(* in one step and handled in a later one, pids that are used again, by a  *)
(* daemon or by a stranger, a process that has nothing to do with it.      *)
(***************************************************************************)
EXTENDS Naturals, FiniteSets

CONSTANTS
    Pids,       \* process ids the kernel hands out
    Inodes,     \* inodes the pid file may live in
    Scripts,    \* shells that run a start script, or main.py
    Sites,      \* where a daemon may be run, see Site
    NoPid,      \* an empty or unreadable pid file
    NoInode     \* no such file, no open descriptor

\* Which daemon it is, what the shells are asked to do, and whether they are
\* asked only when the last command has settled.  "replace" is main.py, whose
\* daemon is not the one that the S90 scripts start and look for.
Site == [daemon : {"wsdd", "onvif_srvd"},
         commands : (SUBSET {"start", "stop", "restart"}) \cup {{"replace"}},
         spaced : BOOLEAN]

ASSUME DaemonAssumption ==
    /\ Sites \subseteq Site
    /\ NoPid \notin Pids
    /\ NoInode \notin Inodes

VARIABLES
    site,       \* where this daemon is run: chosen once
    pc,         \* pc[p]: how far process p is, or how it ended
    fd,         \* fd[p]: inode of the pid file p holds open
    dirent,     \* inode the pid file's name refers to
    data,       \* data[i]: the pid written in inode i
    term,       \* processes with a SIGTERM pending
    stranger,   \* pids that some other process has, which a shell may signal
    script      \* script[s]: progress of shell s

vars == <<site, pc, fd, dirent, data, term, stranger, script>>

-----------------------------------------------------------------------------
(* Types *)

DeadPCs == {"unborn", "failed", "killed", "exited"}
InitPCs == {"forked", "opened", "locked", "truncated", "written",
            "armed", "bound"}
HandlerPCs == {"bye", "cleaned", "unlinked"}
LivePCs == InitPCs \cup {"serving"} \cup HandlerPCs

\* Between lockf() and exit a process holds the lock of its descriptor.
LockPCs == LivePCs \ {"forked", "opened"}
\* From write() on the process has stored its own pid.
OwnerPCs == LockPCs \ {"locked", "truncated"}

ScriptPCs == {"idle", "stop", "stop_probe", "stop_reread", "stop_kill",
              "stop_rm", "start", "start_probe", "launch",
              "term_all", "kill_all"}
Sayings == {"nothing", "not running", "stopped", "already running", "started"}

Script == [pc : ScriptPCs, cmd : {"start", "stop", "restart", "replace"},
           pid : Pids \cup {NoPid}, child : Pids \cup {NoPid}, said : Sayings]

TypeOK ==
    /\ site \in Sites
    /\ pc \in [Pids -> DeadPCs \cup LivePCs]
    /\ fd \in [Pids -> Inodes \cup {NoInode}]
    /\ dirent \in Inodes \cup {NoInode}
    /\ data \in [Inodes -> Pids \cup {NoPid}]
    /\ term \subseteq Pids
    /\ stranger \subseteq Pids
    /\ script \in [Scripts -> Script]

-----------------------------------------------------------------------------
(* Processes, files and the port as the code sees them *)

Alive(p) == pc[p] \in LivePCs
HasLock(p) == pc[p] \in LockPCs
OwnsFile(p) == pc[p] \in OwnerPCs
Serving(p) == pc[p] = "serving"
Settled(p) == ~Alive(p) \/ (Serving(p) /\ p \notin term)

\* An inode is free again when no name and no descriptor refers to it.
Unused(i) == i # dirent /\ \A p \in Pids : fd[p] # i

\* What $(cat $PID_FILE) gives to kill.
Content == IF dirent = NoInode THEN NoPid ELSE data[dirent]

\* kill v succeeds: v is a pid and there is such a process, whatever it is.
KillWorks(v) == v # NoPid /\ (Alive(v) \/ v \in stranger)

\* onvif_srvd listens on TCP, where SO_REUSEADDR does not share a listening
\* port; soap_free() closes the socket before the handler unlinks.  wsdd binds
\* UDP 3702, which SO_REUSEADDR lets any number of processes share.
PortTaken(p) ==
    site.daemon = "onvif_srvd" /\ \E q \in Pids \ {p} :
        pc[q] \in {"bound", "serving", "bye"}

-----------------------------------------------------------------------------
(* Initial state, and what the daemon's steps are built from *)

Init ==
    /\ site \in Sites
    /\ pc = [p \in Pids |-> "unborn"]
    /\ fd = [p \in Pids |-> NoInode]
    /\ dirent = NoInode
    /\ data = [i \in Inodes |-> NoPid]
    /\ term = {}
    /\ stranger = {}
    /\ script = [s \in Scripts |->
                    [pc |-> "idle", cmd |-> "start", pid |-> NoPid,
                     child |-> NoPid, said |-> "nothing"]]

Advance(p, from, to) == pc[p] = from /\ pc' = [pc EXCEPT ![p] = to]

\* A process that ends, however it ends, loses its descriptor and its lock,
\* but the pid file stays where it is.
End(p, how) ==
    /\ pc' = [pc EXCEPT ![p] = how]
    /\ fd' = [fd EXCEPT ![p] = NoInode]
    /\ term' = term \ {p}
    /\ UNCHANGED <<site, dirent, data, stranger, script>>

\* Another process holds the lock of inode i.
Locked(i, p) == \E q \in Pids \ {p} : fd[q] = i /\ HasLock(q)

(* Faulty forms of some steps below, for the mutants: never part of Next. *)

\* O_TRUNC in open() in place of the ftruncate() after lockf().
OpenTruncates(p) ==
    /\ Advance(p, "forked", "opened")
    /\ \E i \in Inodes :
        /\ IF dirent = NoInode THEN Unused(i) ELSE i = dirent
        /\ dirent' = i
        /\ fd' = [fd EXCEPT ![p] = i]
        /\ data' = [data EXCEPT ![i] = NoPid]
    /\ UNCHANGED <<site, term, stranger, script>>

\* The pid file is locked before the fork, which does not pass locks on.
LockInParent(p) ==
    /\ Advance(p, "opened", "locked")
    /\ UNCHANGED <<site, fd, dirent, data, term, stranger, script>>

\* F_LOCK in place of F_TLOCK: a locked file is waited for.
LockWaits(p) == FALSE

\* The write is left to a buffer that nobody flushes.
WriteBuffered(p) ==
    /\ Advance(p, "truncated", "written")
    /\ UNCHANGED <<site, fd, dirent, data, term, stranger, script>>

\* An unlink() that fails is tried again.
UnlinkRetries(p) ==
    /\ Advance(p, "cleaned", "unlinked")
    /\ dirent # NoInode
    /\ dirent' = NoInode
    /\ UNCHANGED <<site, fd, data, term, stranger, script>>

-----------------------------------------------------------------------------
(* create_pid_file(), init(), the main loop and the signal handler *)

\* open(O_RDWR | O_CREAT): the inode under the name, or a new empty one.
OpenPidFile(p) ==
    /\ Advance(p, "forked", "opened")
    /\ \/ /\ dirent # NoInode
          /\ fd' = [fd EXCEPT ![p] = dirent]
          /\ UNCHANGED <<dirent, data>>
       \/ /\ dirent = NoInode
          /\ \E i \in Inodes :
                /\ Unused(i)
                /\ dirent' = i
                /\ fd' = [fd EXCEPT ![p] = i]
                /\ data' = [data EXCEPT ![i] = NoPid]
    /\ UNCHANGED <<site, term, stranger, script>>

\* lockf(fd, F_TLOCK, 0) succeeds.
LockPidFile(p) ==
    /\ Advance(p, "opened", "locked")
    /\ ~Locked(fd[p], p)
    /\ UNCHANGED <<site, fd, dirent, data, term, stranger, script>>

\* lockf() fails: close(fd), -1, daemon_error_exit().
LockRefused(p) ==
    /\ pc[p] = "opened"
    /\ Locked(fd[p], p)
    /\ End(p, "failed")

TruncatePidFile(p) ==
    /\ Advance(p, "locked", "truncated")
    /\ data' = [data EXCEPT ![fd[p]] = NoPid]
    /\ UNCHANGED <<site, fd, dirent, term, stranger, script>>

WritePid(p) ==
    /\ Advance(p, "truncated", "written")
    /\ data' = [data EXCEPT ![fd[p]] = p]
    /\ UNCHANGED <<site, fd, dirent, term, stranger, script>>

InitSignals(p) ==
    /\ Advance(p, "written", "armed")
    /\ UNCHANGED <<site, fd, dirent, data, term, stranger, script>>

\* init_gsoap(): the socket is bound, or the port is taken and init exits.
BindPort(p) ==
    /\ Advance(p, "armed", "bound")
    /\ ~PortTaken(p)
    /\ UNCHANGED <<site, fd, dirent, data, term, stranger, script>>

BindFails(p) ==
    /\ pc[p] = "armed"
    /\ PortTaken(p)
    /\ End(p, "failed")

\* The rest of init (wsdd: endpoint and Hello), stdio to /dev/null, main loop.
EnterMainLoop(p) ==
    /\ Advance(p, "bound", "serving")
    /\ UNCHANGED <<site, fd, dirent, data, term, stranger, script>>

\* setsid, open, write, the parameter checks, the interface lookup or
\* the redirection fails: daemon_error_exit() or exit(), no cleanup.
InitFails(p) ==
    /\ pc[p] \in InitPCs
    /\ End(p, "failed")

\* soap_accept() fails in onvif_srvd: main returns, no cleanup either.
AcceptFails(p) ==
    /\ site.daemon = "onvif_srvd"
    /\ Serving(p)
    /\ End(p, "exited")

\* SIGTERM before init_signals() has the default disposition.  Later the
\* handler calls gSOAP and malloc from a signal, on a context that may be NULL
\* or in use: undefined, and a process that crashes there ends like this too.
TermKills(p) ==
    /\ p \in term
    /\ pc[p] \in InitPCs \cup {"serving"}
    /\ End(p, "killed")

\* daemon_exit_handler() interrupts init or the main loop.  SIGTERM is masked
\* while it runs, so a second one stays pending.
TermHandled(p) ==
    /\ p \in term
    /\ pc[p] \in {"armed", "bound", "serving"}
    /\ pc' = [pc EXCEPT ![p] = IF pc[p] = "armed" THEN "cleaned" ELSE "bye"]
    /\ term' = term \ {p}
    /\ UNCHANGED <<site, fd, dirent, data, stranger, script>>

\* wsdd says Bye and listens twice for a second; both free the context.
ReleaseContext(p) ==
    /\ Advance(p, "bye", "cleaned")
    /\ UNCHANGED <<site, fd, dirent, data, term, stranger, script>>

\* unlink(daemon_info.pid_file), whatever file has that name by now.
UnlinkPidFile(p) ==
    /\ Advance(p, "cleaned", "unlinked")
    /\ dirent' = NoInode
    /\ UNCHANGED <<site, fd, data, term, stranger, script>>

Exit(p) ==
    /\ pc[p] = "unlinked"
    /\ End(p, "exited")

\* SIGKILL from outside, the out-of-memory killer, a crash.
Crash(p) ==
    /\ Alive(p)
    /\ End(p, "killed")

DaemonStep(p) ==
    \/ OpenPidFile(p) \/ LockPidFile(p) \/ LockRefused(p)
    \/ TruncatePidFile(p) \/ WritePid(p)
    \/ InitSignals(p) \/ BindPort(p) \/ BindFails(p) \/ EnterMainLoop(p)
    \/ TermKills(p) \/ TermHandled(p)
    \/ ReleaseContext(p) \/ UnlinkPidFile(p) \/ Exit(p)

Misfortune(p) == InitFails(p) \/ AcceptFails(p) \/ Crash(p)

-----------------------------------------------------------------------------
(* The scripts *)

Goto(s, from, to) ==
    /\ script[s].pc = from
    /\ script' = [script EXCEPT ![s].pc = to]

Say(s, from, to, words) ==
    /\ script[s].pc = from
    /\ script' = [script EXCEPT ![s].pc = to, ![s].said = words,
                                ![s].pid = NoPid]

FirstStep(cmd) == CASE cmd = "start" -> "start"
                    [] cmd = "replace" -> "term_all"
                    [] OTHER -> "stop"

Invoke(s, cmd) ==
    /\ script[s].pc = "idle"
    /\ site.spaced =>
         /\ \A t \in Scripts : script[t].pc = "idle"
         /\ cmd # "replace" => \A p \in Pids : Settled(p)
    /\ script' = [script EXCEPT ![s] =
                    [pc |-> FirstStep(cmd), cmd |-> cmd, pid |-> NoPid,
                     child |-> NoPid, said |-> "nothing"]]
    /\ UNCHANGED <<site, pc, fd, dirent, data, term, stranger>>

\* restart runs d_start whatever d_stop returned.
AfterStop(s) == IF script[s].cmd = "restart" THEN "start" ELSE "idle"

(* Faulty forms again. *)

\* d_start takes the pid file's word for it, without the kill -0.
StartTrustsFile(s) ==
    /\ Say(s, "start_probe", "idle", "already running")
    /\ UNCHANGED <<site, pc, fd, dirent, data, term, stranger>>

\* kill -1, the signal both daemons ignore.
StopHangsUp(s) ==
    /\ script[s].pc = "stop_kill"
    /\ IF KillWorks(script[s].pid)
       THEN Goto(s, "stop_kill", "stop_rm")
       ELSE Say(s, "stop_kill", AfterStop(s), "stopped")
    /\ UNCHANGED <<site, pc, fd, dirent, data, term, stranger>>

\* pkill without the pkill -9 that follows it.
ReplaceWithoutKill(s) ==
    /\ Goto(s, "kill_all", "launch")
    /\ UNCHANGED <<site, pc, fd, dirent, data, term, stranger>>

(* The steps of d_stop, d_start and main.py *)

\* d_stop: [ ! -f ], then cat for kill -0.  An absent or an empty file makes
\* the kill fail.
StopRead(s) ==
    /\ script[s].pc = "stop"
    /\ IF Content = NoPid
       THEN Say(s, "stop", AfterStop(s), "not running")
       ELSE script' = [script EXCEPT ![s].pc = "stop_probe", ![s].pid = Content]
    /\ UNCHANGED <<site, pc, fd, dirent, data, term, stranger>>

StopProbe(s) ==
    /\ script[s].pc = "stop_probe"
    /\ IF KillWorks(script[s].pid)
       THEN Goto(s, "stop_probe", "stop_reread")
       ELSE Say(s, "stop_probe", AfterStop(s), "not running")
    /\ UNCHANGED <<site, pc, fd, dirent, data, term, stranger>>

\* kill -15 $(cat $PID_FILE) reads the file a second time.
StopReread(s) ==
    /\ script[s].pc = "stop_reread"
    /\ script' = [script EXCEPT ![s].pc = "stop_kill", ![s].pid = Content]
    /\ UNCHANGED <<site, pc, fd, dirent, data, term, stranger>>

\* Only a kill that succeeds is followed by rm; "stopped" is said either way.
\* What a stranger does with the SIGTERM is its own affair.
StopKill(s) ==
    /\ script[s].pc = "stop_kill"
    /\ \/ /\ KillWorks(script[s].pid)
          /\ Goto(s, "stop_kill", "stop_rm")
          /\ term' = term \cup {p \in Pids : p = script[s].pid /\ Alive(p)}
       \/ /\ ~KillWorks(script[s].pid)
          /\ Say(s, "stop_kill", AfterStop(s), "stopped")
          /\ UNCHANGED term
    /\ UNCHANGED <<site, pc, fd, dirent, data, stranger>>

\* rm -f $PID_FILE.  The sleep 2 of S90wsdd is no guarantee: the handler
\* listens for two seconds itself before it unlinks.
StopRemove(s) ==
    /\ Say(s, "stop_rm", AfterStop(s), "stopped")
    /\ dirent' = NoInode
    /\ UNCHANGED <<site, pc, fd, data, term, stranger>>

\* d_start: [ -f $PID_FILE ] && kill -0 $(cat $PID_FILE)
StartRead(s) ==
    /\ script[s].pc = "start"
    /\ script' = [script EXCEPT
                    ![s].pc = IF Content = NoPid THEN "launch" ELSE "start_probe",
                    ![s].pid = Content]
    /\ UNCHANGED <<site, pc, fd, dirent, data, term, stranger>>

StartProbe(s) ==
    /\ script[s].pc = "start_probe"
    /\ IF KillWorks(script[s].pid)
       THEN Say(s, "start_probe", "idle", "already running")
       ELSE Goto(s, "start_probe", "launch")
    /\ UNCHANGED <<site, pc, fd, dirent, data, term, stranger>>

\* do_fork(): the parent exits with success as soon as the child exists, and
\* the script takes that for "started".
Launch(s) ==
    /\ script[s].pc = "launch"
    /\ \E p \in Pids :
        /\ ~Alive(p) /\ p \notin stranger
        /\ pc' = [pc EXCEPT ![p] = "forked"]
        /\ script' = [script EXCEPT ![s].pc = "idle", ![s].child = p,
                                    ![s].pid = NoPid, ![s].said = "started"]
    /\ UNCHANGED <<site, fd, dirent, data, term, stranger>>

\* main.py: pkill, then pkill -9 at once if pgrep still finds a process, then
\* the daemon; the pid file is not looked at.
ReplaceTermAll(s) ==
    /\ Goto(s, "term_all", "kill_all")
    /\ term' = term \cup {p \in Pids : Alive(p)}
    /\ UNCHANGED <<site, pc, fd, dirent, data, stranger>>

ReplaceKillAll(s) ==
    /\ Goto(s, "kill_all", "launch")
    /\ pc' = [p \in Pids |-> IF Alive(p) THEN "killed" ELSE pc[p]]
    /\ fd' = [p \in Pids |-> NoInode]
    /\ term' = {}
    /\ UNCHANGED <<site, dirent, data, stranger>>

-----------------------------------------------------------------------------
(* Other processes: a pid that is free may become theirs, whoever had it
   before and whatever pid file still says so *)

StrangerStarts(p) ==
    /\ ~Alive(p) /\ p \notin stranger
    /\ stranger' = stranger \cup {p}
    /\ UNCHANGED <<site, pc, fd, dirent, data, term, script>>

StrangerEnds(p) ==
    /\ p \in stranger
    /\ stranger' = stranger \ {p}
    /\ UNCHANGED <<site, pc, fd, dirent, data, term, script>>

-----------------------------------------------------------------------------

ScriptStep(s) ==
    \/ StopRead(s) \/ StopProbe(s) \/ StopReread(s) \/ StopKill(s)
    \/ StopRemove(s) \/ StartRead(s) \/ StartProbe(s) \/ Launch(s)
    \/ ReplaceTermAll(s) \/ ReplaceKillAll(s)

Next ==
    \/ \E p \in Pids : DaemonStep(p) \/ Misfortune(p)
    \/ \E s \in Scripts :
        ScriptStep(s) \/ \E cmd \in site.commands : Invoke(s, cmd)
    \/ \E p \in Pids : StrangerStarts(p) \/ StrangerEnds(p)

Spec == Init /\ [][Next]_vars

\* The kernel schedules every process and the shells finish their commands;
\* nothing has to fail, no pid to be used again, no command to be issued.
Fairness ==
    /\ \A p \in Pids : WF_vars(DaemonStep(p))
    /\ \A s \in Scripts : WF_vars(ScriptStep(s))

FairSpec == Spec /\ Fairness

-----------------------------------------------------------------------------
(* Properties *)

\* Two processes that are past lockf() on the same inode are the same process:
\* create_pid_file() locks before it touches the file, and only exit unlocks.
LockExclusion ==
    \A p, q \in Pids : HasLock(p) /\ HasLock(q) /\ fd[p] = fd[q] => p = q

\* As long as a process lives past create_pid_file(), the inode it holds still
\* contains its pid: no later start truncates or overwrites the file of a
\* running daemon, even when it was unlinked and the inode has no name.
OwnerNamesItself == \A p \in Pids : OwnsFile(p) => data[fd[p]] = p

\* The strengthening of the two invariants above: a live process past open()
\* has a descriptor, and nothing that ended, or was only forked, keeps one.
DescriptorsAreLive ==
    \A p \in Pids : fd[p] # NoInode <=> Alive(p) /\ pc[p] # "forked"

\* The inductive invariant of the pid file.
LockInv == TypeOK /\ DescriptorsAreLive /\ LockExclusion /\ OwnerNamesItself

\* Where commands wait for the last one to settle, no two daemons serve at the
\* same time, unless one has been told to end: of wsdd, whose port any number
\* can share, only the pid file sees to that.
SingleInstance ==
    site.spaced => \A p, q \in Pids :
        Serving(p) /\ Serving(q) /\ {p, q} \cap term = {} => p = q

\* There, a daemon that serves and was not told to end can be found through the
\* pid file: its name refers to the inode the daemon holds, so it reads its pid.
Findable ==
    site.spaced => \A p \in Pids :
        Serving(p) /\ p \notin term => Content = p

\* There, when d_stop answers "not running", no daemon is serving, whatever
\* the pid file says and whoever has that pid.
NotRunningIsTrue ==
    [][site.spaced => \A s \in Scripts :
        script[s].said # "not running" /\ script'[s].said = "not running"
            => ~\E p \in Pids : Serving(p) /\ p \notin term]_vars

\* There, a daemon that a script or main.py launches is refused neither the
\* lock nor the port: whatever was left of the last one, and its descriptor, is
\* gone by then.
LaunchNeverRefused ==
    site.spaced => \A p \in Pids :
        /\ pc[p] = "opened" => ~Locked(fd[p], p)
        /\ pc[p] = "armed" => ~PortTaken(p)

\* The sites where a command waits for the last one and restart, which does
\* not wait inside, is not used.
Patient == site.spaced /\ "restart" \notin site.commands

Told(p) == p \in term \/ pc[p] \in HandlerPCs

\* What the steps of a process come to for someone who runs the daemon.
Phase(p) == IF ~Alive(p) THEN "off"
            ELSE IF Told(p) THEN "ending"
            ELSE IF Serving(p) THEN "up" ELSE "starting"

\* A shell that asks for the daemon of the pid file is answered by a stranger.
Mistaken == Content \in stranger

Service == INSTANCE DaemonService WITH
    phase <- [p \in Pids |-> Phase(p)],
    said <- [s \in Scripts |-> script[s].said],
    mistaken <- Mistaken

\* There the scripts, the pid file, its lock and the signals add up to what
\* DaemonService says: one daemon that turns off, starting, up and ending, and
\* words that are true when they are said, whatever crashes in between.  Only
\* "already running" can be wrong, and only when a stranger has got the pid
\* that a crash left in the file, which happens to no daemon that is up.
ServiceKept ==
    Service!Init /\ [][Patient => Service!Next]_(Service!vars)

\* A daemon that serves or is still starting and is told to end does end: the
\* handler needs no one else and the missing pid file does not stop it.
TermEndsDaemon ==
    \A p \in Pids : p \in term ~> ~Alive(p)

\* Every launched daemon settles: it serves or it is gone, whoever else holds
\* the pid file, its lock or the port.
LaunchSettles ==
    \A p \in Pids : pc[p] = "forked" ~> (Serving(p) \/ ~Alive(p))
=============================================================================
