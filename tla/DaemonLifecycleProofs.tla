------------------------ MODULE DaemonLifecycleProofs ------------------------
(***************************************************************************)
(* What holds of the pid file for any number of processes, inodes and      *)
(* shells, at every site, whether its commands wait or not: the types,     *)
(* the exclusion of lockf(), that a live daemon's inode names it, and      *)
(* that, where commands wait, it all implements DaemonService.             *)
(***************************************************************************)
EXTENDS DaemonLifecycle, TLAPS

-----------------------------------------------------------------------------
(* Types *)

LEMMA CommandsOfSite ==
    ASSUME TypeOK, NEW cmd \in site.commands
    PROVE  cmd \in {"start", "stop", "restart", "replace"}
<1>1. site.commands \in (SUBSET {"start", "stop", "restart"}) \cup {{"replace"}}
  BY DaemonAssumption DEF TypeOK, Site
<1>2. CASE site.commands \in SUBSET {"start", "stop", "restart"}
  BY <1>2
<1>3. CASE site.commands \in {{"replace"}}
  BY <1>3
<1>4. QED
  <2>1. site.commands \in SUBSET {"start", "stop", "restart"}
          \/ site.commands \in {{"replace"}}
    BY <1>1
  <2>2. QED BY <1>2, <1>3, <2>1

\* Goto and Say keep a shell's record in its type.
LEMMA GotoTyped ==
    ASSUME script \in [Scripts -> Script], NEW s \in Scripts, NEW from,
           NEW to \in ScriptPCs, Goto(s, from, to)
    PROVE  script' \in [Scripts -> Script]
BY DEF Goto, Script

LEMMA SayTyped ==
    ASSUME script \in [Scripts -> Script], NEW s \in Scripts, NEW from,
           NEW to \in ScriptPCs, NEW words \in Sayings, Say(s, from, to, words)
    PROVE  script' \in [Scripts -> Script]
<1>1. [script[s] EXCEPT !.pc = to, !.said = words, !.pid = NoPid] \in Script
  BY DEF Script
<1>2. QED BY <1>1 DEF Say

\* So does what a shell reads from the pid file.
LEMMA ReadTyped ==
    ASSUME script \in [Scripts -> Script], NEW s \in Scripts,
           NEW to \in ScriptPCs, NEW v \in Pids \cup {NoPid},
           script' = [script EXCEPT ![s].pc = to, ![s].pid = v]
    PROVE  script' \in [Scripts -> Script]
<1>1. [script[s] EXCEPT !.pc = to, !.pid = v] \in Script
  BY DEF Script
<1>2. QED BY <1>1

\* Every step of a shell keeps the records of the shells in their type.
LEMMA ScriptTyped ==
    ASSUME TypeOK, NEW s \in Scripts, ScriptStep(s)
    PROVE  script' \in [Scripts -> Script]
<1>1. script \in [Scripts -> Script] /\ Content \in Pids \cup {NoPid}
  BY DEF TypeOK, Content
<1>2. /\ AfterStop(s) \in ScriptPCs
      /\ {"stop_probe", "stop_reread", "stop_kill", "stop_rm", "start_probe",
          "launch", "kill_all", "idle"} \subseteq ScriptPCs
      /\ {"not running", "stopped", "already running"} \subseteq Sayings
  BY DEF AfterStop, ScriptPCs, Sayings
<1>3. CASE StopRead(s)
  <2>1. CASE Content = NoPid
    BY <1>1, <1>2, <1>3, <2>1, SayTyped DEF StopRead
  <2>2. CASE Content # NoPid
    BY <1>1, <1>2, <1>3, <2>2, ReadTyped DEF StopRead
  <2>3. QED BY <2>1, <2>2
<1>4. CASE StopProbe(s)
  BY <1>1, <1>2, <1>4, GotoTyped, SayTyped DEF StopProbe
<1>5. CASE StopReread(s)
  BY <1>1, <1>2, <1>5, ReadTyped DEF StopReread
<1>6. CASE StopKill(s)
  BY <1>1, <1>2, <1>6, GotoTyped, SayTyped DEF StopKill
<1>7. CASE StopRemove(s)
  BY <1>1, <1>2, <1>7, SayTyped DEF StopRemove
<1>8. CASE StartRead(s)
  BY <1>1, <1>2, <1>8, ReadTyped DEF StartRead
<1>9. CASE StartProbe(s)
  BY <1>1, <1>2, <1>9, GotoTyped, SayTyped DEF StartProbe
<1>10. CASE Launch(s)
  <2>1. PICK p \in Pids :
          script' = [script EXCEPT ![s].pc = "idle", ![s].child = p,
                                   ![s].pid = NoPid, ![s].said = "started"]
    BY <1>10 DEF Launch
  <2>2. [script[s] EXCEPT !.pc = "idle", !.child = p, !.pid = NoPid,
                          !.said = "started"] \in Script
    BY <1>1 DEF Script, ScriptPCs, Sayings
  <2>3. QED BY <1>1, <2>1, <2>2
<1>11. CASE ReplaceTermAll(s)
  BY <1>1, <1>2, <1>11, GotoTyped DEF ReplaceTermAll
<1>12. CASE ReplaceKillAll(s)
  BY <1>1, <1>2, <1>12, GotoTyped DEF ReplaceKillAll
<1>13. QED
  BY <1>3, <1>4, <1>5, <1>6, <1>7, <1>8, <1>9, <1>10, <1>11, <1>12
     DEF ScriptStep

\* Every step keeps every variable in its type.
LEMMA TypeStep == ASSUME TypeOK, [Next]_vars PROVE TypeOK'
<1> USE DaemonAssumption
<1> USE DEF TypeOK, LivePCs, InitPCs, HandlerPCs, DeadPCs
<1>1. CASE UNCHANGED vars
  BY <1>1 DEF vars
<1>2. ASSUME NEW p \in Pids, DaemonStep(p) PROVE TypeOK'
  <2>1. CASE OpenPidFile(p) BY <2>1 DEF OpenPidFile, Advance
  <2>2. CASE LockPidFile(p) BY <2>2 DEF LockPidFile, Advance
  <2>3. CASE LockRefused(p) BY <2>3 DEF LockRefused, End
  <2>4. CASE TruncatePidFile(p) BY <2>4 DEF TruncatePidFile, Advance
  <2>5. CASE WritePid(p) BY <2>5 DEF WritePid, Advance
  <2>6. CASE InitSignals(p) BY <2>6 DEF InitSignals, Advance
  <2>7. CASE BindPort(p) BY <2>7 DEF BindPort, Advance
  <2>8. CASE BindFails(p) BY <2>8 DEF BindFails, End
  <2>9. CASE EnterMainLoop(p) BY <2>9 DEF EnterMainLoop, Advance
  <2>10. CASE TermKills(p) BY <2>10 DEF TermKills, End
  <2>11. CASE TermHandled(p) BY <2>11 DEF TermHandled
  <2>12. CASE ReleaseContext(p) BY <2>12 DEF ReleaseContext, Advance
  <2>13. CASE UnlinkPidFile(p) BY <2>13 DEF UnlinkPidFile, Advance
  <2>14. CASE Exit(p) BY <2>14 DEF Exit, End
  <2>15. QED
    BY <1>2, <2>1, <2>2, <2>3, <2>4, <2>5, <2>6, <2>7, <2>8, <2>9, <2>10,
       <2>11, <2>12, <2>13, <2>14 DEF DaemonStep
<1>3. ASSUME NEW p \in Pids, Misfortune(p) PROVE TypeOK'
  BY <1>3 DEF Misfortune, InitFails, AcceptFails, Crash, End
<1>4. ASSUME NEW s \in Scripts, ScriptStep(s) PROVE TypeOK'
  <2>1. script' \in [Scripts -> Script]
    BY <1>4, ScriptTyped
  <2>2. /\ pc' \in [Pids -> DeadPCs \cup LivePCs]
        /\ fd' \in [Pids -> Inodes \cup {NoInode}]
        /\ dirent' \in Inodes \cup {NoInode}
        /\ data' = data /\ site' = site /\ stranger' = stranger
    BY <1>4 DEF ScriptStep, StopRead, StopProbe, StopReread, StopKill,
                StopRemove, StartRead, StartProbe, Launch, ReplaceTermAll,
                ReplaceKillAll
  <2>3. term' \subseteq Pids
    BY <1>4 DEF ScriptStep, StopRead, StopProbe, StopReread, StopKill,
                StopRemove, StartRead, StartProbe, Launch, ReplaceTermAll,
                ReplaceKillAll
  <2>4. QED BY <2>1, <2>2, <2>3
<1>5. ASSUME NEW s \in Scripts, NEW cmd \in site.commands, Invoke(s, cmd)
      PROVE TypeOK'
  <2>1. cmd \in {"start", "stop", "restart", "replace"}
    BY CommandsOfSite
  <2>2. QED BY <1>5, <2>1 DEF Invoke, FirstStep, Script, ScriptPCs, Sayings
<1>6. ASSUME NEW p \in Pids, StrangerStarts(p) \/ StrangerEnds(p) PROVE TypeOK'
  BY <1>6 DEF StrangerStarts, StrangerEnds
<1>7. QED
  BY <1>1, <1>2, <1>3, <1>4, <1>5, <1>6 DEF Next

\* The variables have their types in every reachable state.
THEOREM TypeCorrect == Spec => []TypeOK
<1>1. Init => TypeOK
  BY DaemonAssumption
     DEF Init, TypeOK, DeadPCs, Script, ScriptPCs, Sayings
<1>2. TypeOK /\ [Next]_vars => TypeOK'
  BY TypeStep
<1>3. QED
  BY <1>1, <1>2, PTL DEF Spec

-----------------------------------------------------------------------------
(* The lock *)

\* A process that ends takes nothing from the others: their descriptors,
\* locks and files stay as they are.
LEMMA EndKeepsLockInv ==
    ASSUME LockInv, NEW p \in Pids, NEW how \in DeadPCs, End(p, how)
    PROVE  DescriptorsAreLive' /\ LockExclusion' /\ OwnerNamesItself'
<1> USE DEF LockInv, TypeOK, End
<1>1. pc'[p] \notin LivePCs /\ fd'[p] = NoInode /\ data' = data
  BY DEF DeadPCs, LivePCs, InitPCs, HandlerPCs
<1>2. \A q \in Pids \ {p} : pc'[q] = pc[q] /\ fd'[q] = fd[q]
  OBVIOUS
<1>3. DescriptorsAreLive'
  BY <1>1, <1>2 DEF DescriptorsAreLive, Alive
<1>4. LockExclusion'
  BY <1>1, <1>2 DEF LockExclusion, HasLock, LockPCs
<1>5. OwnerNamesItself'
  BY <1>1, <1>2 DEF OwnerNamesItself, OwnsFile, OwnerPCs, LockPCs
<1>6. QED BY <1>3, <1>4, <1>5

\* Moving on between two points that both have the lock, or both have not,
\* changes nothing as long as the process does not become an owner.
LEMMA AdvanceKeepsLockInv ==
    ASSUME LockInv, NEW p \in Pids, NEW from \in LivePCs, NEW to \in LivePCs,
           Advance(p, from, to), UNCHANGED <<fd, data>>,
           from # "forked", to # "forked",
           to \in LockPCs => from \in LockPCs,
           to \in OwnerPCs => from \in OwnerPCs
    PROVE  DescriptorsAreLive' /\ LockExclusion' /\ OwnerNamesItself'
<1> USE DEF LockInv, TypeOK, Advance
<1>1. pc[p] = from /\ pc'[p] = to /\ \A q \in Pids \ {p} : pc'[q] = pc[q]
  OBVIOUS
<1>2. DescriptorsAreLive'
  BY <1>1 DEF DescriptorsAreLive, Alive
<1>3. LockExclusion'
  BY <1>1 DEF LockExclusion, HasLock
<1>4. OwnerNamesItself'
  BY <1>1 DEF OwnerNamesItself, OwnsFile
<1>5. QED BY <1>2, <1>3, <1>4

\* The step that takes the lock keeps the exclusion, because lockf() looked at
\* every other process that has the inode open.
LEMMA LockKeepsLockInv ==
    ASSUME LockInv, NEW p \in Pids, LockPidFile(p)
    PROVE  DescriptorsAreLive' /\ LockExclusion' /\ OwnerNamesItself'
<1> USE DEF LockInv, TypeOK, LockPidFile, Advance
<1>1. /\ pc[p] = "opened" /\ pc'[p] = "locked"
      /\ \A q \in Pids \ {p} : pc'[q] = pc[q]
      /\ fd' = fd /\ data' = data
  OBVIOUS
<1>2. DescriptorsAreLive'
  BY <1>1 DEF DescriptorsAreLive, Alive, LivePCs, InitPCs
<1>3. \A q \in Pids \ {p} : HasLock(q) => fd[q] # fd[p]
  BY DEF Locked
<1>4. LockExclusion'
  BY <1>1, <1>3 DEF LockExclusion, HasLock
<1>5. OwnerNamesItself'
  BY <1>1 DEF OwnerNamesItself, OwnsFile, OwnerPCs
<1>6. QED BY <1>2, <1>4, <1>5

\* Truncating and writing touch the contents of one inode, the one the process
\* has locked, so by the exclusion no other owner's file.
LEMMA WriteKeepsLockInv ==
    ASSUME LockInv, NEW p \in Pids, TruncatePidFile(p) \/ WritePid(p)
    PROVE  DescriptorsAreLive' /\ LockExclusion' /\ OwnerNamesItself'
<1> USE DEF LockInv, TypeOK, TruncatePidFile, WritePid, Advance
<1>1. /\ pc[p] \in {"locked", "truncated"}
      /\ pc'[p] \in {"truncated", "written"}
      /\ \A q \in Pids \ {p} : pc'[q] = pc[q]
      /\ fd' = fd
  OBVIOUS
<1>2. HasLock(p) /\ HasLock(p)' /\ fd[p] \in Inodes
  BY <1>1 DEF HasLock, LockPCs, LivePCs, InitPCs, HandlerPCs,
              DescriptorsAreLive, Alive
<1>3. DescriptorsAreLive'
  BY <1>1 DEF DescriptorsAreLive, Alive, LivePCs, InitPCs
<1>4. LockExclusion'
  BY <1>1, <1>2 DEF LockExclusion, HasLock
<1>5. ASSUME NEW q \in Pids, OwnsFile(q)' PROVE data'[fd'[q]] = q
  <2>1. CASE q = p
    <3>1. WritePid(p)
      BY <1>5, <2>1 DEF OwnsFile, OwnerPCs
    <3>2. QED BY <1>2, <2>1, <3>1
  <2>2. CASE q # p
    <3>1. OwnsFile(q) /\ HasLock(q)
      BY <1>1, <1>5, <2>2 DEF OwnsFile, OwnerPCs, HasLock
    <3>2. fd[q] # fd[p]
      BY <1>2, <2>2, <3>1 DEF LockExclusion
    <3>3. data[fd[q]] = q
      BY <3>1 DEF OwnerNamesItself
    <3>4. fd[q] \in Inodes
      BY <3>1 DEF HasLock, LockPCs, DescriptorsAreLive, Alive
    <3>5. QED BY <1>1, <1>2, <3>2, <3>3, <3>4
  <2>3. QED BY <2>1, <2>2
<1>6. QED BY <1>3, <1>4, <1>5 DEF OwnerNamesItself

\* open() gives a descriptor to a process that has none; a new inode is one
\* that no process has open, so emptying it takes no owner's pid away.
LEMMA OpenKeepsLockInv ==
    ASSUME LockInv, NEW p \in Pids, OpenPidFile(p)
    PROVE  DescriptorsAreLive' /\ LockExclusion' /\ OwnerNamesItself'
<1> USE DEF LockInv, TypeOK, OpenPidFile, Advance
<1>1. /\ pc[p] = "forked" /\ pc'[p] = "opened"
      /\ \A q \in Pids \ {p} : pc'[q] = pc[q] /\ fd'[q] = fd[q]
      /\ fd'[p] # NoInode
  BY DaemonAssumption
<1>2. DescriptorsAreLive'
  BY <1>1 DEF DescriptorsAreLive, Alive, LivePCs, InitPCs
<1>3. LockExclusion'
  BY <1>1 DEF LockExclusion, HasLock, LockPCs
<1>4. ASSUME NEW q \in Pids, OwnsFile(q)' PROVE data'[fd'[q]] = q
  <2>1. q # p
    BY <1>1, <1>4 DEF OwnsFile, OwnerPCs, LockPCs
  <2>2. OwnsFile(q) /\ fd'[q] = fd[q] /\ data[fd[q]] = q
    BY <1>1, <1>4, <2>1 DEF OwnsFile, OwnerNamesItself
  <2>3. fd[q] \in Inodes
    BY <2>2 DEF OwnsFile, OwnerPCs, LockPCs, DescriptorsAreLive, Alive
  <2>4. data'[fd[q]] = data[fd[q]]
    BY <2>3 DEF Unused
  <2>5. QED BY <2>2, <2>4
<1>5. QED BY <1>2, <1>3, <1>4 DEF OwnerNamesItself

\* The inductive step.
LEMMA LockInvStep == ASSUME LockInv, [Next]_vars PROVE LockInv'
<1>1. TypeOK'
  BY TypeStep DEF LockInv
<1> DEFINE Locks == DescriptorsAreLive /\ LockExclusion /\ OwnerNamesItself
<1>2. ASSUME UNCHANGED <<pc, fd, data>> PROVE Locks'
  BY <1>2 DEF LockInv, DescriptorsAreLive, Alive, LockExclusion, HasLock,
              OwnerNamesItself, OwnsFile
<1>3. ASSUME UNCHANGED vars PROVE Locks'
  BY <1>2, <1>3 DEF vars
<1>4. ASSUME NEW p \in Pids, DaemonStep(p) PROVE Locks'
  <2>1. CASE OpenPidFile(p)
    BY <2>1, OpenKeepsLockInv
  <2>2. CASE LockPidFile(p)
    BY <2>2, LockKeepsLockInv
  <2>3. CASE TruncatePidFile(p) \/ WritePid(p)
    BY <2>3, WriteKeepsLockInv
  <2>4. CASE LockRefused(p) \/ BindFails(p) \/ TermKills(p) \/ Exit(p)
    <3>1. PICK how \in DeadPCs : End(p, how)
      BY <2>4 DEF LockRefused, BindFails, TermKills, Exit, DeadPCs
    <3>2. QED BY <3>1, EndKeepsLockInv
  <2>5. CASE InitSignals(p) \/ BindPort(p) \/ EnterMainLoop(p)
             \/ TermHandled(p) \/ ReleaseContext(p) \/ UnlinkPidFile(p)
    <3>1. \E from \in OwnerPCs, to \in OwnerPCs :
             Advance(p, from, to) /\ UNCHANGED <<fd, data>>
      BY <2>5 DEF InitSignals, BindPort, EnterMainLoop, TermHandled, Advance,
                  ReleaseContext, UnlinkPidFile, OwnerPCs, LockPCs, LivePCs,
                  InitPCs, HandlerPCs
    <3>2. OwnerPCs \subseteq LockPCs /\ LockPCs \subseteq LivePCs
          /\ "forked" \notin OwnerPCs
      BY DEF OwnerPCs, LockPCs
    <3>3. QED BY <3>1, <3>2, AdvanceKeepsLockInv
  <2>6. QED
    BY <1>4, <2>1, <2>2, <2>3, <2>4, <2>5 DEF DaemonStep
<1>5. ASSUME NEW p \in Pids, Misfortune(p) PROVE Locks'
  <2>1. PICK how \in DeadPCs : End(p, how)
    BY <1>5 DEF Misfortune, InitFails, AcceptFails, Crash, DeadPCs
  <2>2. QED BY <2>1, EndKeepsLockInv
<1>6. ASSUME NEW s \in Scripts, ScriptStep(s) PROVE Locks'
  <2>1. CASE Launch(s)
    <3>1. PICK p \in Pids : ~Alive(p) /\ pc' = [pc EXCEPT ![p] = "forked"]
      BY <2>1 DEF Launch
    <3>2. /\ pc'[p] = "forked" /\ fd' = fd /\ data' = data
          /\ \A q \in Pids \ {p} : pc'[q] = pc[q]
      BY <2>1, <3>1 DEF Launch, LockInv, TypeOK
    <3>3. DescriptorsAreLive'
      BY <3>1, <3>2 DEF LockInv, DescriptorsAreLive, Alive
    <3>4. LockExclusion'
      BY <3>2 DEF LockInv, LockExclusion, HasLock, LockPCs
    <3>5. OwnerNamesItself'
      BY <3>2 DEF LockInv, OwnerNamesItself, OwnsFile, OwnerPCs, LockPCs
    <3>6. QED BY <3>3, <3>4, <3>5
  <2>2. CASE ReplaceKillAll(s)
    <3>1. \A p \in Pids : pc'[p] \notin LivePCs /\ fd'[p] = NoInode
      BY <2>2 DEF ReplaceKillAll, Alive, LivePCs, InitPCs, HandlerPCs, LockInv,
                  TypeOK
    <3>2. QED
      BY <3>1 DEF DescriptorsAreLive, Alive, LockExclusion, HasLock, LockPCs,
                  OwnerNamesItself, OwnsFile, OwnerPCs
  <2>3. CASE UNCHANGED <<pc, fd, data>>
    BY <1>2, <2>3
  <2>4. QED
    BY <1>6, <2>1, <2>2, <2>3 DEF ScriptStep, StopRead, StopProbe, StopReread,
       StopKill, StopRemove, StartRead, StartProbe, ReplaceTermAll
<1>7. ASSUME NEW s \in Scripts, NEW cmd \in site.commands, Invoke(s, cmd)
      PROVE Locks'
  BY <1>2, <1>7 DEF Invoke
<1>8. ASSUME NEW p \in Pids, StrangerStarts(p) \/ StrangerEnds(p) PROVE Locks'
  BY <1>2, <1>8 DEF StrangerStarts, StrangerEnds
<1>9. Locks'
  BY <1>3, <1>4, <1>5, <1>6, <1>7, <1>8 DEF Next
<1>10. QED BY <1>1, <1>9 DEF LockInv

LEMMA LockInvInit == Init => LockInv
BY DaemonAssumption
   DEF Init, LockInv, TypeOK, DescriptorsAreLive, LockExclusion,
       OwnerNamesItself, Alive, HasLock, OwnsFile, OwnerPCs, LockPCs, LivePCs,
       InitPCs, HandlerPCs, DeadPCs, Script, ScriptPCs, Sayings

\* The invariant of the pid file holds in every reachable state.
THEOREM LockInvariant == Spec => []LockInv
<1>1. LockInv /\ [Next]_vars => LockInv'
  BY LockInvStep
<1>2. QED BY LockInvInit, <1>1, PTL DEF Spec

\* Two processes past lockf() on one inode are the same process.
THEOREM LockIsExclusive == Spec => []LockExclusion
<1>1. LockInv => LockExclusion
  BY DEF LockInv
<1>2. QED BY <1>1, LockInvariant, PTL

\* A live daemon's inode keeps its pid, for as long as the daemon lives.
THEOREM OwnerIsNamed == Spec => []OwnerNamesItself
<1>1. LockInv => OwnerNamesItself
  BY DEF LockInv
<1>2. QED BY <1>1, LockInvariant, PTL

-----------------------------------------------------------------------------
(* One daemon at a time *)

\* The pid file's name leads to the inode p holds, until p is told to end.
Named(p) ==
    pc[p] \in (InitPCs \ {"forked"}) \cup {"serving"} /\ p \notin term
        => dirent = fd[p]

\* The shell commands that began with every process settled.
Looking == {"start", "start_probe", "stop", "stop_probe", "stop_reread",
            "stop_kill"}

OneAlive == \A p, q \in Pids : Alive(p) /\ Alive(q) => p = q

\* What a shell has found out about the live process, if there is one.
ShellKnows(s) ==
    /\ script[s].cmd # "restart"
    /\ script[s].pc = "start_probe" => script[s].pid = Content
    /\ \A p \in Pids : Alive(p) =>
        /\ script[s].pc \in Looking => Serving(p) /\ p \notin term
        /\ script[s].pc \in {"start_probe", "stop_probe", "stop_kill"} =>
                script[s].pid = p
        /\ script[s].pc # "launch"
        /\ script[s].pc = "stop_rm" => Told(p)

PatientInv ==
    /\ OneAlive
    /\ \A p \in Pids : Named(p)
    /\ \A s, t \in Scripts :
        script[s].pc # "idle" /\ script[t].pc # "idle" => s = t
    /\ \A s \in Scripts : ShellKnows(s)

\* A daemon that serves and was not told to end is what cat prints.
LEMMA FoundByContent ==
    ASSUME LockInv, PatientInv, NEW p \in Pids, Serving(p), p \notin term
    PROVE  Content = p
<1>1. OwnsFile(p) /\ Alive(p) /\ pc[p] # "forked"
  BY DEF Serving, OwnsFile, OwnerPCs, LockPCs, LivePCs, Alive
<1>2. fd[p] # NoInode /\ data[fd[p]] = p
  BY <1>1 DEF LockInv, DescriptorsAreLive, OwnerNamesItself
<1>3. dirent = fd[p]
  BY DEF PatientInv, Named, Serving
<1>4. QED BY <1>2, <1>3 DEF Content

\* A process that ends leaves the shells with less to know.
LEMMA EndKeepsPatience ==
    ASSUME TypeOK, PatientInv, NEW p \in Pids, NEW how \in DeadPCs, End(p, how)
    PROVE  PatientInv'
<1>1. /\ ~Alive(p)' /\ pc'[p] \notin InitPCs \cup {"serving"}
      /\ \A q \in Pids \ {p} : pc'[q] = pc[q] /\ fd'[q] = fd[q]
                               /\ (q \in term' <=> q \in term)
      /\ UNCHANGED <<dirent, data, script>>
  BY DEF TypeOK, End, Alive, DeadPCs, LivePCs, InitPCs, HandlerPCs
<1>2. \A q \in Pids : Alive(q)' => Alive(q) /\ q # p
  BY <1>1 DEF Alive
<1>3. OneAlive' /\ \A q \in Pids : Named(q)'
  BY <1>1, <1>2 DEF PatientInv, OneAlive, Named
<1>4. ASSUME NEW s \in Scripts PROVE ShellKnows(s)'
  BY <1>1, <1>2 DEF PatientInv, ShellKnows, Serving, Told, Content
<1>5. QED BY <1>1, <1>3, <1>4 DEF PatientInv

\* A process that is not settled may move on: no shell is looking.
LEMMA MoveKeepsPatience ==
    ASSUME TypeOK, PatientInv, NEW p \in Pids, Alive(p), ~Settled(p),
           \A q \in Pids \ {p} : pc'[q] = pc[q],
           Told(p) => Told(p)', Named(p)', UNCHANGED script
    PROVE  PatientInv'
<1>1. \A q \in Pids : Alive(q)' => q = p
  BY DEF PatientInv, OneAlive, Alive
<1>2. OneAlive' /\ \A q \in Pids : Named(q)'
  BY <1>1 DEF OneAlive, Named, Alive, LivePCs
<1>3. ASSUME NEW s \in Scripts PROVE ShellKnows(s)'
  <2>1. script[s].pc \notin Looking
    BY DEF PatientInv, ShellKnows, Settled
  <2>2. QED
    BY <1>1, <2>1 DEF PatientInv, ShellKnows, Looking
<1>4. QED BY <1>2, <1>3 DEF PatientInv

LEMMA DaemonKeepsPatience ==
    ASSUME LockInv, PatientInv, NEW p \in Pids, DaemonStep(p)
    PROVE  PatientInv'
<1>0. TypeOK
  BY DEF LockInv
<1>1. CASE LockRefused(p) \/ BindFails(p) \/ TermKills(p) \/ Exit(p)
  <2>1. PICK how \in DeadPCs : End(p, how)
    BY <1>1 DEF LockRefused, BindFails, TermKills, Exit, DeadPCs
  <2>2. QED BY <1>0, <2>1, EndKeepsPatience
<1>2. CASE OpenPidFile(p)
  <2>1. /\ pc[p] = "forked" /\ pc'[p] = "opened"
        /\ \A q \in Pids \ {p} : pc'[q] = pc[q]
        /\ dirent' = fd'[p] /\ UNCHANGED <<term, script>>
    BY <1>0, <1>2 DEF OpenPidFile, Advance, TypeOK
  <2>2. Alive(p) /\ ~Settled(p) /\ Named(p)' /\ (Told(p) => Told(p)')
    BY <2>1 DEF Alive, Settled, Serving, LivePCs, InitPCs, HandlerPCs, Named,
                Told
  <2>3. QED BY <1>0, <2>1, <2>2, MoveKeepsPatience
<1>3. CASE LockPidFile(p) \/ TruncatePidFile(p) \/ WritePid(p)
           \/ InitSignals(p) \/ BindPort(p) \/ EnterMainLoop(p)
  <2>1. /\ pc[p] \in InitPCs \ {"forked"}
        /\ pc'[p] \in InitPCs \cup {"serving"}
        /\ \A q \in Pids \ {p} : pc'[q] = pc[q]
        /\ UNCHANGED <<dirent, fd, term, script>>
    BY <1>0, <1>3 DEF LockPidFile, TruncatePidFile, WritePid, InitSignals,
       BindPort, EnterMainLoop, Advance, TypeOK, InitPCs
  <2>2. Alive(p) /\ ~Settled(p)
    BY <2>1 DEF Alive, Settled, Serving, LivePCs, InitPCs
  <2>3. Named(p)' /\ (Told(p) => Told(p)')
    BY <2>1 DEF PatientInv, Named, Told, InitPCs, HandlerPCs
  <2>4. QED BY <1>0, <2>1, <2>2, <2>3, MoveKeepsPatience
<1>4. CASE TermHandled(p) \/ ReleaseContext(p) \/ UnlinkPidFile(p)
  <2>1. /\ pc'[p] \in HandlerPCs
        /\ pc[p] \in HandlerPCs \/ (p \in term /\ pc[p] \in LivePCs)
        /\ \A q \in Pids \ {p} : pc'[q] = pc[q]
        /\ UNCHANGED script
    BY <1>0, <1>4 DEF TermHandled, ReleaseContext, UnlinkPidFile, Advance,
       TypeOK, HandlerPCs, LivePCs, InitPCs
  <2>2. Alive(p) /\ ~Settled(p)
    BY <2>1 DEF Alive, Settled, Serving, LivePCs, HandlerPCs
  <2>3. Named(p)' /\ Told(p)'
    BY <2>1 DEF Named, Told, InitPCs, HandlerPCs
  <2>4. QED BY <1>0, <2>1, <2>2, <2>3, MoveKeepsPatience
<1>5. QED
  BY <1>1, <1>2, <1>3, <1>4 DEF DaemonStep

\* A shell's step that leaves the processes alone.
LEMMA ShellMoves ==
    ASSUME TypeOK, PatientInv, NEW s \in Scripts, NEW rec,
           script[s].pc # "idle", script' = [script EXCEPT ![s] = rec],
           UNCHANGED <<pc, fd, dirent, data, term>>, ShellKnows(s)'
    PROVE  PatientInv'
<1>1. \A t \in Scripts \ {s} : script'[t] = script[t]
  BY DEF TypeOK
<1>2. OneAlive' /\ \A p \in Pids : Named(p)'
  BY DEF PatientInv, OneAlive, Named, Alive
<1>3. ASSUME NEW t \in Scripts PROVE ShellKnows(t)'
  BY <1>1 DEF PatientInv, ShellKnows, Alive, Serving, Told, Content
<1>4. QED BY <1>1, <1>2, <1>3 DEF PatientInv

\* What a shell that looks at the pid file gets to know.
LEMMA LookKeepsPatience ==
    ASSUME LockInv, PatientInv, NEW s \in Scripts,
           \/ StopRead(s) \/ StopProbe(s) \/ StopReread(s)
           \/ StartRead(s) \/ StartProbe(s)
    PROVE  PatientInv'
<1>0. TypeOK /\ script[s] \in Script /\ ShellKnows(s)
  BY DEF LockInv, TypeOK, PatientInv
<1>1. PICK rec : script' = [script EXCEPT ![s] = rec]
  BY DEF StopRead, StopProbe, StopReread, StartRead, StartProbe, Goto, Say
<1>2. /\ UNCHANGED <<pc, fd, dirent, data, term>>
      /\ script[s].pc \in Looking /\ script[s].pc # "idle"
      /\ script'[s] = rec
  BY <1>0, <1>1 DEF StopRead, StopProbe, StopReread, StartRead, StartProbe,
     Goto, Say, Looking, TypeOK
<1>3. AfterStop(s) = "idle"
  BY <1>0 DEF AfterStop, ShellKnows
<1>4. \A p \in Pids : Alive(p) =>
        Serving(p) /\ p \notin term /\ p # NoPid /\ Content = p
  BY <1>0, <1>2, FoundByContent, DaemonAssumption DEF ShellKnows
<1>5. rec.cmd # "restart"
  BY <1>0, <1>1, <1>2 DEF StopRead, StopProbe, StopReread, StartRead,
     StartProbe, Goto, Say, Script, TypeOK, ShellKnows
<1>6. CASE StopRead(s) \/ StartRead(s)
  <2>1. ASSUME NEW p \in Pids, Alive(p)
        PROVE  rec.pc \in {"stop_probe", "start_probe"} /\ rec.pid = p
    <3>1. Content = p /\ p # NoPid
      BY <1>4, <2>1
    <3>2. PICK to \in {"stop_probe", "start_probe"} :
            script' = [script EXCEPT ![s].pc = to, ![s].pid = p]
      BY <1>6, <3>1 DEF StopRead, StartRead
    <3>3. script'[s] = [script[s] EXCEPT !.pc = to, !.pid = p]
      BY <1>0, <3>2 DEF TypeOK
    <3>4. QED BY <1>0, <1>2, <3>3 DEF Script
  <2>2. rec.pc = "start_probe" => rec.pid = Content
    <3>1. CASE StartRead(s)
      <4>1. PICK to : script' = [script EXCEPT ![s].pc = to, ![s].pid = Content]
        BY <3>1 DEF StartRead
      <4>2. script'[s] = [script[s] EXCEPT !.pc = to, !.pid = Content]
        BY <1>0, <4>1 DEF TypeOK
      <4>3. QED BY <1>0, <1>2, <4>2 DEF Script
    <3>2. CASE StopRead(s)
      <4>1. PICK to \in {"stop_probe", "idle"} :
              \/ script' = [script EXCEPT ![s].pc = to, ![s].pid = Content]
              \/ script' = [script EXCEPT ![s].pc = to, ![s].said = "not running",
                                          ![s].pid = NoPid]
        BY <1>3, <3>2 DEF StopRead, Say
      <4>2. script'[s].pc = to
        <5>1. \/ script'[s] = [script[s] EXCEPT !.pc = to, !.pid = Content]
              \/ script'[s] = [script[s] EXCEPT !.pc = to, !.said = "not running",
                                                !.pid = NoPid]
          BY <1>0, <4>1 DEF TypeOK
        <5>2. QED BY <1>0, <5>1 DEF Script
      <4>3. QED BY <1>2, <4>2
    <3>3. QED BY <1>6, <3>1, <3>2
  <2>3. Content' = Content
    BY <1>2 DEF Content
  <2>4. ShellKnows(s)'
    BY <1>2, <1>4, <1>5, <2>1, <2>2, <2>3 DEF ShellKnows, Alive, Serving, Looking
  <2>5. QED BY <1>0, <1>1, <1>2, <2>4, ShellMoves
<1>7. CASE StopProbe(s) \/ StartProbe(s)
  <2>1. ASSUME NEW p \in Pids, Alive(p)
        PROVE  rec.pc \in {"stop_reread", "idle"}
    <3>1. script[s].pid = p
      BY <1>0, <1>7, <2>1 DEF ShellKnows, StopProbe, StartProbe
    <3>2. KillWorks(script[s].pid)
      BY <1>4, <2>1, <3>1 DEF KillWorks
    <3>3. \/ script' = [script EXCEPT ![s].pc = "stop_reread"]
          \/ script' = [script EXCEPT ![s].pc = "idle",
                           ![s].said = "already running", ![s].pid = NoPid]
      BY <1>7, <3>2 DEF StopProbe, StartProbe, Goto, Say
    <3>4. \/ script'[s] = [script[s] EXCEPT !.pc = "stop_reread"]
          \/ script'[s] = [script[s] EXCEPT !.pc = "idle",
                              !.said = "already running", !.pid = NoPid]
      BY <1>0, <3>3 DEF TypeOK
    <3>5. QED BY <1>0, <1>2, <3>4 DEF Script
  <2>2. rec.pc # "start_probe"
    <3>1. PICK to \in {"stop_reread", "launch", "idle"},
                  words \in {"already running", "not running"} :
            \/ script' = [script EXCEPT ![s].pc = to]
            \/ script' = [script EXCEPT ![s].pc = to, ![s].said = words,
                                        ![s].pid = NoPid]
      BY <1>3, <1>7 DEF StopProbe, StartProbe, Goto, Say
    <3>2. \/ script'[s] = [script[s] EXCEPT !.pc = to]
          \/ script'[s] = [script[s] EXCEPT !.pc = to, !.said = words,
                                            !.pid = NoPid]
      BY <1>0, <3>1 DEF TypeOK
    <3>3. QED BY <1>0, <1>2, <3>2 DEF Script
  <2>3. ShellKnows(s)'
    BY <1>2, <1>4, <1>5, <2>1, <2>2 DEF ShellKnows, Alive, Serving, Looking
  <2>4. QED BY <1>0, <1>1, <1>2, <2>3, ShellMoves
<1>8. CASE StopReread(s)
  <2>1. rec.pc = "stop_kill" /\ rec.pid = Content
    BY <1>0, <1>2, <1>8 DEF StopReread, Script, TypeOK
  <2>2. ShellKnows(s)'
    BY <1>2, <1>4, <1>5, <2>1 DEF ShellKnows, Alive, Serving, Looking
  <2>3. QED BY <1>0, <1>1, <1>2, <2>2, ShellMoves
<1>9. QED BY <1>6, <1>7, <1>8

\* The kill finds the one process there is, and from then on it is told.
LEMMA KillKeepsPatience ==
    ASSUME LockInv, PatientInv, NEW s \in Scripts, StopKill(s)
    PROVE  PatientInv'
<1>0. TypeOK /\ script[s] \in Script /\ ShellKnows(s)
      /\ script[s].pc = "stop_kill"
  BY DEF LockInv, TypeOK, PatientInv, StopKill
<1>1. CASE ~KillWorks(script[s].pid)
  <2>1. \A p \in Pids : ~Alive(p)
    BY <1>0, <1>1, DaemonAssumption DEF ShellKnows, KillWorks
  <2>2. AfterStop(s) = "idle"
    BY <1>0 DEF AfterStop, ShellKnows
  <2>3. PICK rec : /\ script' = [script EXCEPT ![s] = rec]
                   /\ rec = [script[s] EXCEPT !.pc = "idle",
                               !.said = "stopped", !.pid = NoPid]
    BY <1>0, <1>1, <2>2 DEF StopKill, Say
  <2>4. script'[s] = rec /\ rec.cmd = script[s].cmd /\ rec.pc = "idle"
    BY <1>0, <2>3 DEF TypeOK, Script
  <2>5. UNCHANGED <<pc, fd, dirent, data, term>>
    BY <1>1 DEF StopKill
  <2>6. ShellKnows(s)'
    BY <1>0, <2>1, <2>4, <2>5 DEF ShellKnows, Alive
  <2>7. QED BY <1>0, <2>3, <2>5, <2>6, ShellMoves
<1>2. CASE KillWorks(script[s].pid)
  <2>1. /\ script' = [script EXCEPT ![s].pc = "stop_rm"]
        /\ term' = term \cup {p \in Pids : p = script[s].pid /\ Alive(p)}
        /\ UNCHANGED <<pc, fd, dirent>>
    BY <1>2 DEF StopKill, Goto
  <2>2. script'[s].pc = "stop_rm" /\ script'[s].cmd = script[s].cmd
        /\ \A t \in Scripts \ {s} : script'[t] = script[t]
    BY <1>0, <2>1 DEF TypeOK, Script
  <2>3. OneAlive' /\ \A p \in Pids : Named(p)'
    BY <2>1 DEF PatientInv, OneAlive, Named, Alive
  <2>4. \A p \in Pids : Alive(p) => p \in term'
    BY <1>0, <2>1 DEF ShellKnows
  <2>5. ASSUME NEW t \in Scripts PROVE ShellKnows(t)'
    <3>1. CASE t = s
      BY <1>0, <2>1, <2>2, <2>4, <3>1 DEF ShellKnows, Alive, Told, Looking
    <3>2. CASE t # s
      <4>1. script'[t].pc = "idle" /\ script'[t].cmd # "restart"
        BY <1>0, <2>2, <3>2 DEF PatientInv, ShellKnows
      <4>2. QED BY <4>1 DEF ShellKnows, Looking
    <3>3. QED BY <3>1, <3>2
  <2>6. QED BY <1>0, <2>2, <2>3, <2>5 DEF PatientInv
<1>3. QED BY <1>1, <1>2

\* The file that d_stop removes is one of a daemon that is ending.
LEMMA RemoveKeepsPatience ==
    ASSUME LockInv, PatientInv, NEW s \in Scripts, StopRemove(s)
    PROVE  PatientInv'
<1>0. TypeOK /\ script[s] \in Script /\ ShellKnows(s)
      /\ script[s].pc = "stop_rm"
  BY DEF LockInv, TypeOK, PatientInv, StopRemove, Say
<1>1. AfterStop(s) = "idle"
  BY <1>0 DEF AfterStop, ShellKnows
<1>2. /\ script' = [script EXCEPT ![s].pc = "idle", ![s].said = "stopped",
                                  ![s].pid = NoPid]
      /\ UNCHANGED <<pc, fd, term>>
  BY <1>1 DEF StopRemove, Say
<1>3. /\ script'[s] = [script[s] EXCEPT !.pc = "idle", !.said = "stopped",
                                        !.pid = NoPid]
      /\ \A t \in Scripts \ {s} : script'[t] = script[t]
  BY <1>0, <1>2 DEF TypeOK
<1>4. \A t \in Scripts : script'[t].pc = "idle" /\ script'[t].cmd # "restart"
  <2>1. script'[s].pc = "idle" /\ script'[s].cmd = script[s].cmd
    BY <1>0, <1>3 DEF Script
  <2>2. \A t \in Scripts \ {s} : script[t].pc = "idle"
    BY <1>0 DEF PatientInv
  <2>3. \A t \in Scripts : script[t].cmd # "restart"
    BY DEF PatientInv, ShellKnows
  <2>4. \A t \in Scripts \ {s} : script'[t] = script[t]
    BY <1>3
  <2>5. QED BY <2>1, <2>2, <2>3, <2>4
<1>5. \A t \in Scripts : ShellKnows(t)'
  BY <1>4 DEF ShellKnows, Looking
<1>6. \A p \in Pids : Alive(p) => Told(p)
  BY <1>0 DEF ShellKnows
<1>7. \A p \in Pids : Named(p)'
  BY <1>2, <1>6 DEF Named, Alive, Told, LivePCs, InitPCs, HandlerPCs
<1>8. OneAlive'
  BY <1>2 DEF PatientInv, OneAlive, Alive
<1>9. QED BY <1>4, <1>5, <1>7, <1>8 DEF PatientInv

\* Only when nothing is alive does a shell launch a daemon.
LEMMA LaunchKeepsPatience ==
    ASSUME LockInv, PatientInv, NEW s \in Scripts, Launch(s)
    PROVE  PatientInv'
<1>0. TypeOK /\ script[s] \in Script /\ ShellKnows(s)
      /\ script[s].pc = "launch"
  BY DEF LockInv, TypeOK, PatientInv, Launch
<1>1. \A p \in Pids : ~Alive(p)
  BY <1>0 DEF ShellKnows
<1>2. PICK p \in Pids :
        /\ pc' = [pc EXCEPT ![p] = "forked"]
        /\ script' = [script EXCEPT ![s].pc = "idle", ![s].child = p,
                                    ![s].pid = NoPid, ![s].said = "started"]
  BY DEF Launch
<1>3. /\ script'[s] = [script[s] EXCEPT !.pc = "idle", !.child = p,
                                        !.pid = NoPid, !.said = "started"]
      /\ \A t \in Scripts \ {s} : script'[t] = script[t]
      /\ pc'[p] = "forked" /\ \A q \in Pids \ {p} : pc'[q] = pc[q]
  BY <1>0, <1>2 DEF TypeOK
<1>4. \A t \in Scripts : script'[t].pc = "idle" /\ script'[t].cmd # "restart"
  <2>1. script'[s].pc = "idle" /\ script'[s].cmd = script[s].cmd
    BY <1>0, <1>3 DEF Script
  <2>2. \A t \in Scripts \ {s} : script[t].pc = "idle"
    BY <1>0 DEF PatientInv
  <2>3. \A t \in Scripts : script[t].cmd # "restart"
    BY DEF PatientInv, ShellKnows
  <2>4. \A t \in Scripts \ {s} : script'[t] = script[t]
    BY <1>3
  <2>5. QED BY <2>1, <2>2, <2>3, <2>4
<1>5. \A t \in Scripts : ShellKnows(t)'
  BY <1>4 DEF ShellKnows, Looking
<1>6. OneAlive' /\ \A q \in Pids : Named(q)'
  BY <1>1, <1>3 DEF OneAlive, Named, Alive, LivePCs, InitPCs
<1>7. QED BY <1>4, <1>5, <1>6 DEF PatientInv

\* main.py ends whatever it finds before it launches.
LEMMA ReplaceKeepsPatience ==
    ASSUME LockInv, PatientInv, NEW s \in Scripts,
           ReplaceTermAll(s) \/ ReplaceKillAll(s)
    PROVE  PatientInv'
<1>0. TypeOK /\ script[s] \in Script /\ ShellKnows(s)
      /\ script[s].pc \in {"term_all", "kill_all"}
  BY DEF LockInv, TypeOK, PatientInv, ReplaceTermAll, ReplaceKillAll, Goto
<1>1. \A t \in Scripts \ {s} :
        script[t].pc = "idle" /\ script[t].cmd # "restart"
  BY <1>0 DEF PatientInv, ShellKnows
<1>2. PICK to \in {"kill_all", "launch"} :
        /\ script' = [script EXCEPT ![s].pc = to]
        /\ to = "launch" => ReplaceKillAll(s)
  BY DEF ReplaceTermAll, ReplaceKillAll, Goto
<1>3. /\ script'[s].pc = to /\ script'[s].cmd = script[s].cmd
      /\ \A t \in Scripts \ {s} : script'[t] = script[t]
  BY <1>0, <1>2 DEF TypeOK, Script
<1>4. ReplaceKillAll(s) => \A p \in Pids : ~Alive(p)' /\ pc'[p] # "opened"
                                           /\ pc'[p] \notin InitPCs \cup {"serving"}
  BY <1>0 DEF ReplaceKillAll, Alive, LivePCs, InitPCs, HandlerPCs, TypeOK
<1>5. ReplaceTermAll(s) =>
        /\ UNCHANGED <<pc, fd, dirent>>
        /\ \A p \in Pids : p \in term => p \in term'
  BY DEF ReplaceTermAll
<1>6. OneAlive' /\ \A p \in Pids : Named(p)'
  BY <1>4, <1>5 DEF PatientInv, OneAlive, Named, Alive
<1>7. ASSUME NEW t \in Scripts PROVE ShellKnows(t)'
  <2>1. CASE t = s
    BY <1>0, <1>2, <1>3, <1>4, <2>1 DEF ShellKnows, Looking
  <2>2. CASE t # s
    BY <1>1, <1>3, <2>2 DEF ShellKnows, Looking
  <2>3. QED BY <2>1, <2>2
<1>8. QED BY <1>1, <1>3, <1>6, <1>7 DEF PatientInv

\* A command begins when the last one is over and its effects too.
LEMMA InvokeKeepsPatience ==
    ASSUME LockInv, PatientInv, Patient, NEW s \in Scripts,
           NEW cmd \in site.commands, Invoke(s, cmd)
    PROVE  PatientInv'
<1>0. TypeOK /\ cmd # "restart"
  BY DEF LockInv, Patient
<1>1. /\ \A t \in Scripts : script[t].pc = "idle"
      /\ cmd # "replace" => \A p \in Pids : Settled(p)
      /\ UNCHANGED <<pc, fd, dirent, term>>
  BY DEF Invoke, Patient
<1>2. /\ script'[s].pc = FirstStep(cmd) /\ script'[s].cmd = cmd
      /\ \A t \in Scripts \ {s} : script'[t] = script[t]
  BY <1>0 DEF Invoke, TypeOK
<1>3. cmd \in {"start", "stop", "replace"}
  BY <1>0, CommandsOfSite
<1>4. /\ cmd = "replace" => FirstStep(cmd) = "term_all"
      /\ cmd # "replace" => FirstStep(cmd) \in {"start", "stop"}
  BY <1>3 DEF FirstStep
<1>5. ASSUME NEW t \in Scripts PROVE ShellKnows(t)'
  <2>1. CASE t = s
    BY <1>0, <1>1, <1>2, <1>4, <2>1
       DEF ShellKnows, Looking, Alive, Settled, Serving
  <2>2. CASE t # s
    BY <1>1, <1>2, <2>2 DEF PatientInv, ShellKnows, Looking
  <2>3. QED BY <2>1, <2>2
<1>6. OneAlive' /\ \A p \in Pids : Named(p)'
  BY <1>1 DEF PatientInv, OneAlive, Named, Alive
<1>7. QED BY <1>1, <1>2, <1>5, <1>6 DEF PatientInv

LEMMA PatientStep ==
    ASSUME LockInv, Patient => PatientInv, [Next]_vars
    PROVE  (Patient => PatientInv)'
<1> SUFFICES ASSUME Patient, PatientInv PROVE PatientInv'
  <2>1. UNCHANGED site
    BY DEF Next, vars, DaemonStep, OpenPidFile, LockPidFile, LockRefused,
       TruncatePidFile, WritePid, InitSignals, BindPort, BindFails,
       EnterMainLoop, TermKills, TermHandled, ReleaseContext, UnlinkPidFile,
       Exit, Misfortune, InitFails, AcceptFails, Crash, End, ScriptStep,
       StopRead, StopProbe, StopReread, StopKill, StopRemove, StartRead,
       StartProbe, Launch, ReplaceTermAll, ReplaceKillAll, Invoke,
       StrangerStarts, StrangerEnds
  <2>2. QED BY <2>1 DEF Patient
<1>1. CASE UNCHANGED vars
  BY <1>1 DEF vars, PatientInv, OneAlive, Named, ShellKnows, Alive, Serving,
              Told, Content
<1>2. ASSUME NEW p \in Pids, Misfortune(p) PROVE PatientInv'
  <2>1. PICK how \in DeadPCs : End(p, how)
    BY <1>2 DEF Misfortune, InitFails, AcceptFails, Crash, DeadPCs
  <2>2. QED BY <2>1, EndKeepsPatience DEF LockInv
<1>3. ASSUME NEW s \in Scripts, ScriptStep(s) PROVE PatientInv'
  BY <1>3, LookKeepsPatience, KillKeepsPatience, RemoveKeepsPatience,
     LaunchKeepsPatience, ReplaceKeepsPatience DEF ScriptStep
<1>4. ASSUME NEW p \in Pids, StrangerStarts(p) \/ StrangerEnds(p)
      PROVE  PatientInv'
  BY <1>4 DEF StrangerStarts, StrangerEnds, PatientInv, OneAlive, Named,
              ShellKnows, Alive, Serving, Told, Content
<1>5. QED
  BY <1>1, <1>2, <1>3, <1>4, DaemonKeepsPatience, InvokeKeepsPatience DEF Next

LEMMA PatientInit == Init => PatientInv
BY DEF Init, PatientInv, OneAlive, Named, ShellKnows, Alive, LivePCs, InitPCs,
       HandlerPCs, Looking

\* Where commands wait for each other there is at most one live process, and
\* the pid file leads to it unless it was told to end.
THEOREM OneProcess == Spec => [](Patient => PatientInv)
<1>1. LockInv /\ (Patient => PatientInv) /\ [Next]_vars
        => (Patient => PatientInv)'
  BY PatientStep
<1>2. QED BY <1>1, PatientInit, LockInvariant, PTL DEF Spec

\* At such sites no two daemons serve, a serving one is found through the pid
\* file, and one that is launched gets the lock and the port.
SitesArePatient == \A d \in Sites : d.spaced => "restart" \notin d.commands

THEOREM DaemonIsSingle ==
    ASSUME SitesArePatient
    PROVE  Spec => []SingleInstance
<1>1. TypeOK /\ (Patient => PatientInv) => SingleInstance
  BY DEF SitesArePatient, TypeOK, Patient, PatientInv, OneAlive,
     SingleInstance, Serving, Alive, LivePCs
<1>2. QED BY <1>1, OneProcess, TypeCorrect, PTL

\* Its pid is what cat prints: the name was neither unlinked nor taken.
THEOREM DaemonIsFound ==
    ASSUME SitesArePatient
    PROVE  Spec => []Findable
<1>1. LockInv /\ (Patient => PatientInv) => Findable
  <2> SUFFICES ASSUME LockInv, Patient => PatientInv PROVE Findable
    OBVIOUS
  <2>1. site.spaced => PatientInv
    BY DEF SitesArePatient, LockInv, TypeOK, Patient
  <2>2. QED BY <2>1, FoundByContent DEF Findable
<1>2. QED BY <1>1, OneProcess, LockInvariant, PTL

\* Neither an earlier daemon's lock nor its port is in the way of a launch.
THEOREM LaunchIsClear ==
    ASSUME SitesArePatient
    PROVE  Spec => []LaunchNeverRefused
<1>1. TypeOK /\ (Patient => PatientInv) => LaunchNeverRefused
  <2> SUFFICES ASSUME TypeOK, Patient => PatientInv PROVE LaunchNeverRefused
    OBVIOUS
  <2>1. site.spaced => OneAlive
    BY DEF SitesArePatient, TypeOK, Patient, PatientInv
  <2>2. QED
    BY <2>1 DEF LaunchNeverRefused, OneAlive, Alive, Locked, HasLock, LockPCs,
       PortTaken, LivePCs, InitPCs, HandlerPCs
<1>2. QED BY <1>1, OneProcess, TypeCorrect, PTL

\* d_stop says "not running" only when nothing is, however long after its
\* command was given a daemon has crashed.
THEOREM NotRunningTrue ==
    ASSUME SitesArePatient
    PROVE  Spec => NotRunningIsTrue
<1> DEFINE Says == site.spaced => \A s \in Scripts :
              script[s].said # "not running" /\ script'[s].said = "not running"
                  => ~\E p \in Pids : Serving(p) /\ p \notin term
<1>1. ASSUME LockInv, Patient => PatientInv, Next
      PROVE  Says
  <2> SUFFICES ASSUME PatientInv, NEW s \in Scripts,
                      script[s].said # "not running",
                      script'[s].said = "not running",
                      NEW p \in Pids, Serving(p), p \notin term
               PROVE  FALSE
    BY <1>1 DEF SitesArePatient, LockInv, TypeOK, Patient
  <2>1. Content = p /\ p # NoPid /\ Alive(p)
    BY <1>1, FoundByContent, DaemonAssumption DEF Serving, Alive, LivePCs
  <2>2. script \in [Scripts -> Script] /\ ShellKnows(s)
    BY <1>1 DEF LockInv, TypeOK, PatientInv
  <2>3. ASSUME StopRead(s) PROVE FALSE
    BY <2>1, <2>2, <2>3 DEF StopRead, Script
  <2>4. ASSUME StopProbe(s) PROVE FALSE
    <3>1. KillWorks(script[s].pid)
      BY <2>1, <2>2, <2>4 DEF ShellKnows, StopProbe, KillWorks
    <3>2. script' = [script EXCEPT ![s].pc = "stop_reread"]
      BY <2>4, <3>1 DEF StopProbe, Goto
    <3>3. script'[s].said = script[s].said
      BY <2>2, <3>2 DEF Script
    <3>4. QED BY <3>3
  <2>5. ASSUME NEW t \in Scripts, ScriptStep(t) PROVE FALSE
    <3>1. CASE t # s /\ \E rec : script' = [script EXCEPT ![t] = rec]
      BY <2>2, <3>1
    <3>2. \E rec : script' = [script EXCEPT ![t] = rec]
      BY <2>5 DEF ScriptStep, StopRead, StopProbe, StopReread, StopKill,
         StopRemove, StartRead, StartProbe, Launch, ReplaceTermAll,
         ReplaceKillAll, Goto, Say
    <3>3. CASE t = s /\ ~StopRead(s) /\ ~StopProbe(s)
      <4>1. ASSUME NEW to, NEW v,
                   script' = [script EXCEPT ![s].pc = to, ![s].pid = v]
            PROVE  FALSE
        <5>1. script'[s] = [script[s] EXCEPT !.pc = to, !.pid = v]
          BY <2>2, <4>1
        <5>2. QED BY <2>2, <5>1 DEF Script
      <4>2. ASSUME NEW from, NEW to, Goto(s, from, to)
            PROVE  FALSE
        <5>1. script'[s] = [script[s] EXCEPT !.pc = to]
          BY <2>2, <4>2 DEF Goto
        <5>2. QED BY <2>2, <5>1 DEF Script
      <4>3. ASSUME NEW from, NEW to, NEW words \in Sayings \ {"not running"},
                   Say(s, from, to, words)
            PROVE  FALSE
        <5>1. script'[s] = [script[s] EXCEPT !.pc = to, !.said = words,
                                             !.pid = NoPid]
          BY <2>2, <4>3 DEF Say
        <5>2. script[s] \in Script
          BY <2>2
        <5>3. script'[s].said = words
          BY <5>1, <5>2 DEF Script
        <5>4. QED BY <4>3, <5>3
      <4>4. ASSUME Launch(s) PROVE FALSE
        <5>1. PICK p1 \in Pids : script' = [script EXCEPT ![s].pc = "idle",
                        ![s].child = p1, ![s].pid = NoPid, ![s].said = "started"]
          BY <4>4 DEF Launch
        <5>2. script'[s] = [script[s] EXCEPT !.pc = "idle", !.child = p1,
                                             !.pid = NoPid, !.said = "started"]
          BY <2>2, <5>1
        <5>3. script[s] \in Script
          BY <2>2
        <5>4. script'[s].said = "started"
          BY <5>2, <5>3 DEF Script
        <5>5. QED BY <5>4
      <4>5. CASE StopReread(s) \/ StartRead(s)
        BY <4>1, <4>5 DEF StopReread, StartRead
      <4>6. CASE \/ StopKill(s) \/ StopRemove(s) \/ StartProbe(s)
                 \/ ReplaceTermAll(s) \/ ReplaceKillAll(s)
        <5>1. {"stopped", "already running"} \subseteq Sayings \ {"not running"}
          BY DEF Sayings
        <5>2. QED
          BY <4>2, <4>3, <4>6, <5>1 DEF StopKill, StopRemove, StartProbe,
             ReplaceTermAll, ReplaceKillAll
      <4>7. QED BY <2>5, <3>3, <4>4, <4>5, <4>6 DEF ScriptStep
    <3>4. QED BY <2>3, <2>4, <3>1, <3>2, <3>3
  <2>6. ASSUME NEW t \in Scripts, NEW cmd, Invoke(t, cmd) PROVE FALSE
    BY <2>2, <2>6 DEF Invoke, Script
  <2>7. ASSUME NEW q \in Pids, DaemonStep(q) \/ Misfortune(q)
        PROVE  UNCHANGED script
    BY <2>7 DEF DaemonStep, OpenPidFile, LockPidFile, LockRefused,
       TruncatePidFile, WritePid, InitSignals, BindPort, BindFails,
       EnterMainLoop, TermKills, TermHandled, ReleaseContext, UnlinkPidFile,
       Exit, Misfortune, InitFails, AcceptFails, Crash, End
  <2>8. ASSUME NEW q \in Pids, StrangerStarts(q) \/ StrangerEnds(q)
        PROVE  UNCHANGED script
    BY <2>8 DEF StrangerStarts, StrangerEnds
  <2>9. QED BY <1>1, <2>5, <2>6, <2>7, <2>8 DEF Next
<1>2. LockInv /\ (Patient => PatientInv) /\ [Next]_vars => [Says]_vars
  BY <1>1
<1>3. QED
  BY <1>2, OneProcess, LockInvariant, PTL DEF Spec, NotRunningIsTrue

-----------------------------------------------------------------------------
(* The promise of the scripts *)

\* A signal is pending for live processes only: a pid that is used again does
\* not inherit its predecessor's SIGTERM.  Nor does a stranger share the pid
\* of a live daemon.
PidsAreOnes ==
    \A p \in Pids : (p \in term => Alive(p)) /\ (p \in stranger => ~Alive(p))

LEMMA PidsAreOnesStep ==
    ASSUME TypeOK, PidsAreOnes, [Next]_vars
    PROVE  PidsAreOnes'
<1> USE DEF PidsAreOnes
<1>1. CASE UNCHANGED <<pc, term, stranger>>
  BY <1>1 DEF Alive
<1>2. ASSUME NEW p \in Pids, NEW how \in DeadPCs, End(p, how) PROVE PidsAreOnes'
  <2>1. /\ \A q \in Pids : q \in term' => q \in term /\ q # p /\ pc'[q] = pc[q]
        /\ \A q \in Pids \ {p} : pc'[q] = pc[q]
        /\ pc'[p] \notin LivePCs /\ stranger' = stranger
    BY <1>2 DEF End, TypeOK, DeadPCs, LivePCs, InitPCs, HandlerPCs
  <2>2. QED BY <2>1 DEF Alive
<1>3. ASSUME NEW p \in Pids, DaemonStep(p) \/ Misfortune(p) PROVE PidsAreOnes'
  <2>1. CASE \E how \in DeadPCs : End(p, how)
    BY <1>2, <2>1
  <2>2. CASE /\ pc[p] \in LivePCs /\ pc'[p] \in LivePCs
             /\ \A q \in Pids \ {p} : pc'[q] = pc[q]
             /\ term' \subseteq term /\ stranger' = stranger
    BY <2>2 DEF Alive
  <2>3. QED
    BY <1>3, <2>1, <2>2 DEF DaemonStep, OpenPidFile, LockPidFile, LockRefused,
       TruncatePidFile, WritePid, InitSignals, BindPort, BindFails,
       EnterMainLoop, TermKills, TermHandled, ReleaseContext, UnlinkPidFile,
       Exit, Misfortune, InitFails, AcceptFails, Crash, Advance, TypeOK,
       LivePCs, InitPCs, HandlerPCs, DeadPCs
<1>4. ASSUME NEW s \in Scripts, ScriptStep(s) PROVE PidsAreOnes'
  <2>1. CASE StopKill(s)
    BY <2>1 DEF StopKill, Alive
  <2>2. CASE Launch(s)
    <3>1. \A q \in Pids : pc'[q] # pc[q] => Alive(q)' /\ q \notin stranger
      BY <2>2 DEF Launch, Alive, TypeOK, LivePCs, InitPCs
    <3>2. QED BY <2>2, <3>1 DEF Launch, Alive
  <2>3. CASE ReplaceTermAll(s)
    BY <2>3 DEF ReplaceTermAll, Alive
  <2>4. CASE ReplaceKillAll(s)
    BY <2>4 DEF ReplaceKillAll, Alive, TypeOK
  <2>5. QED
    BY <1>1, <1>4, <2>1, <2>2, <2>3, <2>4 DEF ScriptStep, StopRead, StopProbe,
       StopReread, StopRemove, StartRead, StartProbe
<1>5. ASSUME NEW s \in Scripts, NEW cmd, Invoke(s, cmd) PROVE PidsAreOnes'
  BY <1>1, <1>5 DEF Invoke
<1>6. ASSUME NEW p \in Pids, StrangerStarts(p) \/ StrangerEnds(p)
      PROVE  PidsAreOnes'
  BY <1>6 DEF StrangerStarts, StrangerEnds, Alive
<1>7. QED
  BY <1>1, <1>3, <1>4, <1>5, <1>6 DEF Next, vars

\* One process changes its phase, and no other.
LEMMA PhaseTurns ==
    ASSUME NEW p \in Pids, NEW from, NEW to, Phase(p) \in from, Phase(p)' = to,
           \A q \in Pids \ {p} : pc'[q] = pc[q] /\ (q \in term' <=> q \in term)
    PROVE  Service!Turns(p, from, to)
<1>1. \A q \in Pids \ {p} : Phase(q)' = Phase(q)
  BY DEF Phase, Alive, Told, Serving
<1>2. [q \in Pids |-> Phase(q)]'
        = [[q \in Pids |-> Phase(q)] EXCEPT ![p] = to]
  BY <1>1
<1>3. QED BY <1>2 DEF Service!Turns

\* No process does.
LEMMA PhasesStay ==
    ASSUME \A q \in Pids : Phase(q)' = Phase(q)
    PROVE  [q \in Pids |-> Phase(q)]' = [q \in Pids |-> Phase(q)]
OBVIOUS

\* One shell speaks, or none.
LEMMA ShellSays ==
    ASSUME script \in [Scripts -> Script], NEW s \in Scripts, NEW rec,
           script' = [script EXCEPT ![s] = rec]
    PROVE  Service!Says(s, rec.said)
<1>1. script'[s] = rec /\ \A t \in Scripts \ {s} : script'[t] = script[t]
  OBVIOUS
<1>2. [t \in Scripts |-> script[t].said]'
        = [[t \in Scripts |-> script[t].said] EXCEPT ![s] = rec.said]
  BY <1>1
<1>3. QED BY <1>2 DEF Service!Says

LEMMA ShellSilent ==
    ASSUME script \in [Scripts -> Script], NEW s \in Scripts, NEW rec,
           script' = [script EXCEPT ![s] = rec], rec.said = script[s].said
    PROVE  [t \in Scripts |-> script[t].said]'
             = [t \in Scripts |-> script[t].said]
<1>1. script'[s] = rec /\ \A t \in Scripts \ {s} : script'[t] = script[t]
  OBVIOUS
<1>2. \A t \in Scripts : script'[t].said = script[t].said
  BY <1>1
<1>3. QED BY <1>2

\* The phases in words of the invariants.
LEMMA PhaseFacts ==
    ASSUME NEW p \in Pids
    PROVE  /\ Phase(p) \in Service!Phases
           /\ Phase(p) = "off" <=> ~Alive(p)
           /\ Phase(p) = "ending" <=> Alive(p) /\ Told(p)
           /\ Phase(p) = "up" <=> Serving(p) /\ p \notin term
BY DEF Phase, Service!Phases, Alive, Told, Serving, LivePCs, HandlerPCs

\* No stranger is taken for the daemon, or for another one than before, unless
\* the file, its contents or the strangers change.
LEMMA MistakeStays ==
    ASSUME Content' = Content, UNCHANGED stranger
    PROVE  UNCHANGED Mistaken
BY DEF Mistaken

LEMMA SameFileSameContent ==
    ASSUME UNCHANGED <<dirent, data>>
    PROVE  Content' = Content
BY DEF Content

LEMMA MistakeEnds ==
    ASSUME (Content \notin stranger)'
    PROVE  Mistaken' = FALSE
BY DEF Mistaken

\* Writing and removing the pid file clear a mistake, if there was one.
LEMMA FileStepServes ==
    ASSUME LockInv, PidsAreOnes, NEW p \in Pids,
           \/ OpenPidFile(p) \/ TruncatePidFile(p) \/ WritePid(p)
           \/ UnlinkPidFile(p)
    PROVE  Mistaken' = FALSE \/ UNCHANGED Mistaken
<1>0. TypeOK /\ NoPid \notin stranger /\ UNCHANGED stranger
  BY DaemonAssumption DEF LockInv, TypeOK, OpenPidFile, TruncatePidFile,
     WritePid, UnlinkPidFile
<1>1. CASE OpenPidFile(p)
  <2>1. CASE dirent # NoInode
    BY <1>0, <1>1, <2>1, MistakeStays, SameFileSameContent DEF OpenPidFile
  <2>2. CASE dirent = NoInode
    <3>1. PICK i \in Inodes : dirent' = i /\ data' = [data EXCEPT ![i] = NoPid]
      BY <1>1, <2>2 DEF OpenPidFile
    <3>2. Content' = NoPid
      BY <1>0, <3>1, DaemonAssumption DEF Content, TypeOK
    <3>3. QED BY <1>0, <3>2, MistakeEnds
  <2>3. QED BY <2>1, <2>2
<1>2. CASE TruncatePidFile(p) \/ WritePid(p)
  <2>1. PICK v \in {NoPid, p} : data' = [data EXCEPT ![fd[p]] = v]
    BY <1>2 DEF TruncatePidFile, WritePid
  <2>2. v \notin stranger
    BY <1>0, <1>2, DaemonAssumption DEF PidsAreOnes, TruncatePidFile, WritePid,
       Advance, Alive, LivePCs, InitPCs
  <2>3. dirent' = dirent
    BY <1>2 DEF TruncatePidFile, WritePid
  <2>4. CASE dirent = fd[p] /\ dirent # NoInode
    <3>1. Content' = v
      BY <1>0, <2>1, <2>3, <2>4 DEF Content, TypeOK
    <3>2. QED BY <1>0, <2>2, <3>1, MistakeEnds
  <2>5. CASE dirent # fd[p] \/ dirent = NoInode
    <3>1. Content' = Content
      BY <1>0, <2>1, <2>3, <2>5 DEF Content, TypeOK
    <3>2. QED BY <1>0, <3>1, MistakeStays
  <2>6. QED BY <2>4, <2>5
<1>3. CASE UnlinkPidFile(p)
  <2>1. Content' = NoPid
    BY <1>3 DEF UnlinkPidFile, Content
  <2>2. QED BY <1>0, <2>1, MistakeEnds
<1>4. QED BY <1>1, <1>2, <1>3

\* A step that changes no phase is a stutter, or the end of a mistake.
LEMMA QuietStepServes ==
    ASSUME Mistaken' = FALSE \/ UNCHANGED Mistaken,
           [q \in Pids |-> Phase(q)]' = [q \in Pids |-> Phase(q)],
           [t \in Scripts |-> script[t].said]'
             = [t \in Scripts |-> script[t].said]
    PROVE  Service!Next \/ UNCHANGED Service!vars
<1>1. CASE Mistaken' = FALSE
  BY <1>1 DEF Service!Clear, Service!Next
<1>2. CASE UNCHANGED Mistaken
  BY <1>2 DEF Service!vars
<1>3. QED BY <1>1, <1>2

\* A step of the daemon, or its end, is a turn of its phase or none.
LEMMA DaemonServes ==
    ASSUME LockInv, PidsAreOnes, NEW p \in Pids, DaemonStep(p) \/ Misfortune(p)
    PROVE  Service!Next \/ UNCHANGED Service!vars
<1>0. UNCHANGED script
  BY DEF DaemonStep, OpenPidFile, LockPidFile, LockRefused, TruncatePidFile,
     WritePid, InitSignals, BindPort, BindFails, EnterMainLoop, TermKills,
     TermHandled, ReleaseContext, UnlinkPidFile, Exit, Misfortune, InitFails,
     AcceptFails, Crash, End
<1>a. TypeOK
  BY DEF LockInv
<1>1. [t \in Scripts |-> script[t].said]' = [t \in Scripts |-> script[t].said]
  BY <1>0
<1>b. ASSUME UNCHANGED <<dirent, data, stranger>>
      PROVE  UNCHANGED Mistaken
  BY <1>b, MistakeStays, SameFileSameContent
<1>2. ASSUME NEW how \in DeadPCs, End(p, how), Alive(p)
      PROVE  Service!Ends(p)
  <2>1. /\ pc'[p] \in DeadPCs
        /\ \A q \in Pids \ {p} : pc'[q] = pc[q] /\ (q \in term' <=> q \in term)
    BY <1>2, <1>a DEF End, TypeOK
  <2>2. Phase(p)' = "off"
    BY <2>1 DEF Phase, Alive, DeadPCs, LivePCs, InitPCs, HandlerPCs
  <2>3. Phase(p) \in Service!Phases \ {"off"}
    BY <1>2, PhaseFacts
  <2>4. UNCHANGED Mistaken
    BY <1>2, <1>b DEF End
  <2>5. QED BY <1>1, <2>1, <2>2, <2>3, <2>4, PhaseTurns DEF Service!Ends
<1>3. CASE \/ LockRefused(p) \/ BindFails(p) \/ TermKills(p) \/ Exit(p)
           \/ Misfortune(p)
  <2>1. Alive(p)
    BY <1>3 DEF LockRefused, BindFails, TermKills, Exit, Misfortune, InitFails,
       AcceptFails, Crash, Alive, Serving, LivePCs, InitPCs, HandlerPCs
  <2>2. \E how \in DeadPCs : End(p, how)
    BY <1>3 DEF LockRefused, BindFails, TermKills, Exit, Misfortune, InitFails,
       AcceptFails, Crash, DeadPCs
  <2>3. QED BY <1>2, <2>1, <2>2 DEF Service!Next
<1>4. CASE OpenPidFile(p) \/ LockPidFile(p) \/ TruncatePidFile(p) \/ WritePid(p)
           \/ InitSignals(p) \/ BindPort(p)
  <2>1. /\ pc[p] \in InitPCs /\ pc'[p] \in InitPCs
        /\ \A q \in Pids \ {p} : pc'[q] = pc[q]
        /\ UNCHANGED term
    BY <1>4, <1>a DEF OpenPidFile, LockPidFile, TruncatePidFile, WritePid,
       InitSignals, BindPort, Advance, TypeOK, InitPCs
  <2>2. \A q \in Pids : Phase(q)' = Phase(q)
    BY <2>1 DEF Phase, Alive, Told, Serving, LivePCs, InitPCs, HandlerPCs
  <2>3. Mistaken' = FALSE \/ UNCHANGED Mistaken
    BY <1>4, <1>b, FileStepServes DEF LockPidFile, InitSignals, BindPort
  <2>4. QED BY <1>1, <2>2, <2>3, PhasesStay, QuietStepServes
<1>5. CASE EnterMainLoop(p)
  <2>1. /\ pc[p] = "bound" /\ pc'[p] = "serving"
        /\ \A q \in Pids \ {p} : pc'[q] = pc[q]
        /\ UNCHANGED term /\ UNCHANGED Mistaken
    BY <1>5, <1>a, <1>b DEF EnterMainLoop, Advance, TypeOK
  <2>2. CASE p \in term
    <3>1. \A q \in Pids : Phase(q)' = Phase(q)
      BY <2>1, <2>2 DEF Phase, Alive, Told, Serving, LivePCs, InitPCs
    <3>2. QED BY <1>1, <2>1, <3>1, PhasesStay, QuietStepServes
  <2>3. CASE p \notin term
    <3>1. Phase(p) = "starting" /\ Phase(p)' = "up"
      BY <2>1, <2>3 DEF Phase, Alive, Told, Serving, LivePCs, InitPCs,
         HandlerPCs
    <3>2. Service!ComesUp(p)
      BY <1>1, <2>1, <3>1, PhaseTurns DEF Service!ComesUp
    <3>3. QED BY <3>2 DEF Service!Next
  <2>4. QED BY <2>2, <2>3
<1>6. CASE TermHandled(p) \/ ReleaseContext(p) \/ UnlinkPidFile(p)
  <2>1. /\ pc'[p] \in HandlerPCs
        /\ pc[p] \in HandlerPCs \/ (p \in term /\ pc[p] \in LivePCs)
        /\ \A q \in Pids \ {p} : pc'[q] = pc[q] /\ (q \in term' <=> q \in term)
    BY <1>6, <1>a DEF TermHandled, ReleaseContext, UnlinkPidFile, Advance, TypeOK,
       HandlerPCs, LivePCs, InitPCs
  <2>2. \A q \in Pids : Phase(q)' = Phase(q)
    BY <2>1 DEF Phase, Alive, Told, Serving, LivePCs
  <2>3. Mistaken' = FALSE \/ UNCHANGED Mistaken
    BY <1>6, <1>b, FileStepServes DEF TermHandled, ReleaseContext
  <2>4. QED BY <1>1, <2>2, <2>3, PhasesStay, QuietStepServes
<1>7. QED BY <1>3, <1>4, <1>5, <1>6 DEF DaemonStep

\* A step that leaves the processes and their signals alone.
LEMMA LookingLeavesPhases ==
    ASSUME UNCHANGED <<pc, term>>
    PROVE  [q \in Pids |-> Phase(q)]' = [q \in Pids |-> Phase(q)]
BY DEF Phase, Alive, Told, Serving

\* What a shell says when it looks at the file is so.
LEMMA LookingServes ==
    ASSUME LockInv, PatientInv, NEW s \in Scripts,
           \/ StopRead(s) \/ StopProbe(s) \/ StopReread(s)
           \/ StartRead(s) \/ StartProbe(s)
    PROVE  Service!Next \/ UNCHANGED Service!vars
<1>0. TypeOK /\ script \in [Scripts -> Script] /\ ShellKnows(s)
  BY DEF LockInv, TypeOK, PatientInv
<1>1. UNCHANGED <<pc, term, dirent, data, stranger>> /\ script[s].pc \in Looking
  BY DEF StopRead, StopProbe, StopReread, StartRead, StartProbe, Goto, Say,
     Looking
<1>2. [q \in Pids |-> Phase(q)]' = [q \in Pids |-> Phase(q)]
  BY <1>1, LookingLeavesPhases
<1>a. UNCHANGED Mistaken
  BY <1>1, MistakeStays, SameFileSameContent
<1>3. \A p \in Pids : Alive(p) =>
        /\ Phase(p) = "up" /\ p # NoPid /\ Content = p
        /\ script[s].pc \in {"start_probe", "stop_probe"} => KillWorks(script[s].pid)
  BY <1>0, <1>1, FoundByContent, PhaseFacts, DaemonAssumption
     DEF ShellKnows, KillWorks
<1>4. AfterStop(s) = "idle" /\ script[s] \in Script
  BY <1>0 DEF AfterStop, ShellKnows
<1>5. ASSUME NEW to, NEW v, script' = [script EXCEPT ![s].pc = to, ![s].pid = v]
      PROVE  UNCHANGED Service!vars
  <2>1. PICK rec : /\ script' = [script EXCEPT ![s] = rec]
                   /\ rec = [script[s] EXCEPT !.pc = to, !.pid = v]
    BY <1>0, <1>5
  <2>2. rec.said = script[s].said
    BY <1>4, <2>1 DEF Script
  <2>3. QED BY <1>0, <1>2, <1>a, <2>1, <2>2, ShellSilent DEF Service!vars
<1>6. ASSUME NEW to, script' = [script EXCEPT ![s].pc = to]
      PROVE  UNCHANGED Service!vars
  <2>1. PICK rec : /\ script' = [script EXCEPT ![s] = rec]
                   /\ rec = [script[s] EXCEPT !.pc = to]
    BY <1>0, <1>6
  <2>2. rec.said = script[s].said
    BY <1>4, <2>1 DEF Script
  <2>3. QED BY <1>0, <1>2, <1>a, <2>1, <2>2, ShellSilent DEF Service!vars
<1>7. ASSUME NEW words, script' = [script EXCEPT ![s].pc = "idle",
                                        ![s].said = words, ![s].pid = NoPid]
      PROVE  Service!Says(s, words)
  <2>1. PICK rec : /\ script' = [script EXCEPT ![s] = rec]
                   /\ rec = [script[s] EXCEPT !.pc = "idle", !.said = words,
                                              !.pid = NoPid]
    BY <1>0, <1>7
  <2>2. rec.said = words
    BY <1>4, <2>1 DEF Script
  <2>3. Service!Says(s, rec.said)
    BY <1>0, <2>1, ShellSays
  <2>4. QED BY <2>2, <2>3
<1>8. CASE StopRead(s) /\ Content = NoPid
  <2>1. Service!AllOff
    BY <1>3, <1>8, PhaseFacts DEF Service!AllOff
  <2>2. Service!Says(s, "not running")
    BY <1>4, <1>7, <1>8 DEF StopRead, Say
  <2>3. QED BY <1>2, <1>a, <2>1, <2>2 DEF Service!NotRunning, Service!Next
<1>9. CASE StopRead(s) /\ Content # NoPid
  BY <1>5, <1>9 DEF StopRead
<1>10. CASE StopReread(s) \/ StartRead(s)
  BY <1>5, <1>10 DEF StopReread, StartRead
<1>11. CASE StopProbe(s)
  <2>1. CASE KillWorks(script[s].pid)
    BY <1>6, <1>11, <2>1 DEF StopProbe, Goto
  <2>2. CASE ~KillWorks(script[s].pid)
    <3>1. Service!AllOff
      BY <1>3, <1>11, <2>2, PhaseFacts DEF Service!AllOff, StopProbe
    <3>2. Service!Says(s, "not running")
      BY <1>4, <1>7, <1>11, <2>2 DEF StopProbe, Say
    <3>3. QED BY <1>2, <1>a, <3>1, <3>2 DEF Service!NotRunning, Service!Next
  <2>3. QED BY <2>1, <2>2
<1>12. CASE StartProbe(s)
  <2>1. CASE ~KillWorks(script[s].pid)
    BY <1>6, <1>12, <2>1 DEF StartProbe, Goto
  <2>2. CASE KillWorks(script[s].pid)
    <3>1. Mistaken \/ \E p \in Pids : Phase(p) = "up"
      <4>1. PICK p \in Pids : p = script[s].pid /\ (Alive(p) \/ p \in stranger)
        BY <1>4, <2>2 DEF KillWorks, Script
      <4>2. script[s].pid = Content
        BY <1>0, <1>12 DEF ShellKnows, StartProbe
      <4>3. QED BY <1>3, <4>1, <4>2 DEF Mistaken
    <3>2. Service!Says(s, "already running")
      BY <1>7, <1>12, <2>2 DEF StartProbe, Say
    <3>3. QED BY <1>2, <1>a, <3>1, <3>2 DEF Service!AlreadyRunning, Service!Next
  <2>3. QED BY <2>1, <2>2
<1>13. QED BY <1>8, <1>9, <1>10, <1>11, <1>12

\* The kill tells the one daemon there is, which is up, and what d_stop says
\* after it, or instead, is so.
LEMMA StoppingServes ==
    ASSUME LockInv, PatientInv, NEW s \in Scripts, StopKill(s) \/ StopRemove(s)
    PROVE  Service!Next \/ UNCHANGED Service!vars
<1>0. TypeOK /\ script \in [Scripts -> Script] /\ script[s] \in Script
      /\ ShellKnows(s) /\ AfterStop(s) = "idle"
  BY DEF LockInv, TypeOK, PatientInv, ShellKnows, AfterStop
<1>1. ASSUME Say(s, script[s].pc, "idle", "stopped"),
             \A p \in Pids : Alive(p) => Told(p), UNCHANGED <<pc, term>>,
             Mistaken' = FALSE \/ UNCHANGED Mistaken
      PROVE  Service!Next
  <2>1. PICK rec : /\ script' = [script EXCEPT ![s] = rec]
                   /\ rec = [script[s] EXCEPT !.pc = "idle",
                               !.said = "stopped", !.pid = NoPid]
    BY <1>0, <1>1 DEF Say
  <2>2. rec.said = "stopped"
    BY <1>0, <2>1 DEF Script
  <2>3. Service!Says(s, rec.said)
    BY <1>0, <2>1, ShellSays
  <2>4. \A p \in Pids : Phase(p) \in {"off", "ending"}
    BY <1>1, PhaseFacts
  <2>5. [q \in Pids |-> Phase(q)]' = [q \in Pids |-> Phase(q)]
    BY <1>1, LookingLeavesPhases
  <2>6. Service!Stopped(s)
    BY <1>1, <2>2, <2>3, <2>4, <2>5 DEF Service!Stopped
  <2>7. QED BY <2>6 DEF Service!Next
<1>2. CASE StopRemove(s)
  <2>1. \A p \in Pids : Alive(p) => Told(p)
    BY <1>0, <1>2 DEF ShellKnows, StopRemove, Say
  <2>2. Mistaken' = FALSE
    <3>1. Content' = NoPid /\ NoPid \notin stranger /\ UNCHANGED stranger
      BY <1>0, <1>2, DaemonAssumption DEF StopRemove, Content, TypeOK
    <3>2. QED BY <3>1, MistakeEnds
  <2>3. QED BY <1>0, <1>1, <1>2, <2>1, <2>2 DEF StopRemove, Say
<1>3. CASE StopKill(s) /\ ~KillWorks(script[s].pid)
  <2>1. \A p \in Pids : ~Alive(p)
    BY <1>0, <1>3, DaemonAssumption DEF ShellKnows, KillWorks, StopKill
  <2>2. UNCHANGED Mistaken
    BY <1>3, MistakeStays, SameFileSameContent DEF StopKill
  <2>3. QED BY <1>0, <1>1, <1>3, <2>1, <2>2 DEF StopKill, Say
<1>4. CASE StopKill(s) /\ KillWorks(script[s].pid)
  <2>1. PICK p \in Pids : p = script[s].pid /\ (Alive(p) \/ p \in stranger)
    BY <1>0, <1>4 DEF KillWorks, Script
  <2>2. /\ script' = [script EXCEPT ![s].pc = "stop_rm"]
        /\ term' = term \cup {q \in Pids : q = p /\ Alive(q)} /\ UNCHANGED pc
    BY <1>4, <2>1 DEF StopKill, Goto
  <2>3. UNCHANGED Mistaken
    BY <1>4, MistakeStays, SameFileSameContent DEF StopKill
  <2>4. [t \in Scripts |-> script[t].said]'
          = [t \in Scripts |-> script[t].said]
    <3>1. PICK rec : /\ script' = [script EXCEPT ![s] = rec]
                     /\ rec = [script[s] EXCEPT !.pc = "stop_rm"]
      BY <1>0, <2>2
    <3>2. rec.said = script[s].said
      BY <1>0, <3>1 DEF Script
    <3>3. QED BY <1>0, <3>1, <3>2, ShellSilent
  <2>5. CASE Alive(p)
    <3>1. Serving(p) /\ p \notin term
      BY <1>0, <1>4, <2>1, <2>5 DEF ShellKnows, StopKill, Looking
    <3>2. term' = term \cup {p}
      BY <2>2, <2>5
    <3>3. Phase(p) = "up" /\ Phase(p)' = "ending"
      BY <2>2, <3>1, <3>2 DEF Phase, Alive, Told, Serving, LivePCs, HandlerPCs
    <3>4. Service!Turns(p, {"up"}, "ending")
      BY <2>2, <3>2, <3>3, PhaseTurns
    <3>5. Service!Stop
      BY <2>3, <2>4, <3>4 DEF Service!Stop
    <3>6. QED BY <3>5 DEF Service!Next
  <2>6. CASE ~Alive(p)
    <3>1. term' = term
      BY <2>2, <2>6
    <3>2. QED
      BY <2>2, <2>3, <2>4, <3>1, LookingLeavesPhases, QuietStepServes
  <2>7. QED BY <2>5, <2>6
<1>5. QED BY <1>2, <1>3, <1>4

\* A launch finds every phase off.
LEMMA LaunchServes ==
    ASSUME LockInv, PatientInv, PidsAreOnes, NEW s \in Scripts, Launch(s)
    PROVE  Service!Next
<1>0. TypeOK /\ script \in [Scripts -> Script] /\ script[s] \in Script
      /\ ShellKnows(s) /\ script[s].pc = "launch"
  BY DEF LockInv, TypeOK, PatientInv, Launch
<1>1. \A p \in Pids : ~Alive(p)
  BY <1>0 DEF ShellKnows
<1>2. PICK p \in Pids :
        /\ pc' = [pc EXCEPT ![p] = "forked"]
        /\ script' = [script EXCEPT ![s].pc = "idle", ![s].child = p,
                                    ![s].pid = NoPid, ![s].said = "started"]
        /\ UNCHANGED term
  BY DEF Launch
<1>3. PICK rec : /\ script' = [script EXCEPT ![s] = rec]
                 /\ rec = [script[s] EXCEPT !.pc = "idle", !.child = p,
                                     !.pid = NoPid, !.said = "started"]
  BY <1>0, <1>2
<1>4. rec.said = "started"
  BY <1>0, <1>3 DEF Script
<1>5. Service!Says(s, "started")
  <2>1. Service!Says(s, rec.said)
    BY <1>0, <1>3, ShellSays
  <2>2. QED BY <1>4, <2>1
<1>6. Service!AllOff
  BY <1>1, PhaseFacts DEF Service!AllOff
<1>7. pc'[p] = "forked" /\ p \notin term'
      /\ \A q \in Pids \ {p} : pc'[q] = pc[q] /\ (q \in term' <=> q \in term)
  BY <1>0, <1>1, <1>2 DEF TypeOK, PidsAreOnes
<1>8. Phase(p) = "off" /\ Phase(p)' = "starting"
  BY <1>1, <1>7 DEF Phase, Alive, Told, Serving, LivePCs, InitPCs, HandlerPCs
<1>9. Service!Turns(p, {"off"}, "starting")
  BY <1>7, <1>8, PhaseTurns
<1>10. UNCHANGED Mistaken
  BY MistakeStays, SameFileSameContent DEF Launch
<1>11. Service!Start(s)
  BY <1>5, <1>6, <1>9, <1>10 DEF Service!Start
<1>12. QED BY <1>11 DEF Service!Next

\* main.py tells everything to end, and then everything has ended.
LEMMA ReplaceServes ==
    ASSUME LockInv, PatientInv, NEW s \in Scripts,
           ReplaceTermAll(s) \/ ReplaceKillAll(s)
    PROVE  Service!Next
<1>0. TypeOK /\ script \in [Scripts -> Script] /\ script[s] \in Script
  BY DEF LockInv, TypeOK
<1>1. [t \in Scripts |-> script[t].said]' = [t \in Scripts |-> script[t].said]
  <2>1. PICK to : script' = [script EXCEPT ![s].pc = to]
    BY DEF ReplaceTermAll, ReplaceKillAll, Goto
  <2>2. PICK rec : /\ script' = [script EXCEPT ![s] = rec]
                   /\ rec = [script[s] EXCEPT !.pc = to]
    BY <1>0, <2>1
  <2>3. rec.said = script[s].said
    BY <1>0, <2>2 DEF Script
  <2>4. QED BY <1>0, <2>2, <2>3, ShellSilent
<1>a. UNCHANGED Mistaken
  BY MistakeStays, SameFileSameContent DEF ReplaceTermAll, ReplaceKillAll
<1>2. CASE ReplaceTermAll(s)
  <2>1. \A p \in Pids : Phase(p)' = IF Phase(p) = "off" THEN "off" ELSE "ending"
    BY <1>0, <1>2 DEF ReplaceTermAll, Phase, Alive, Told, TypeOK, LivePCs,
       HandlerPCs
  <2>2. Service!Replace
    BY <1>1, <1>a, <2>1 DEF Service!Replace
  <2>3. QED BY <2>2 DEF Service!Next
<1>3. CASE ReplaceKillAll(s)
  <2>1. \A p \in Pids : Phase(p)' = "off"
    BY <1>0, <1>3 DEF ReplaceKillAll, Phase, Alive, TypeOK, LivePCs, InitPCs,
       HandlerPCs
  <2>2. Service!Replace
    BY <1>1, <1>a, <2>1 DEF Service!Replace
  <2>3. QED BY <2>2 DEF Service!Next
<1>4. QED BY <1>2, <1>3

LEMMA CommandServes ==
    ASSUME TypeOK, NEW s \in Scripts, NEW cmd, Invoke(s, cmd)
    PROVE  Service!Next
<1>0. script' = [script EXCEPT ![s] =
                    [pc |-> FirstStep(cmd), cmd |-> cmd, pid |-> NoPid,
                     child |-> NoPid, said |-> "nothing"]]
  BY DEF Invoke
<1>1. PICK rec : script' = [script EXCEPT ![s] = rec] /\ rec.said = "nothing"
  <2>1. [pc |-> FirstStep(cmd), cmd |-> cmd, pid |-> NoPid,
         child |-> NoPid, said |-> "nothing"].said = "nothing"
    OBVIOUS
  <2>2. QED BY <1>0, <2>1
<1>2. Service!Says(s, rec.said)
  BY <1>1, ShellSays DEF TypeOK
<1>3. [q \in Pids |-> Phase(q)]' = [q \in Pids |-> Phase(q)]
  BY LookingLeavesPhases DEF Invoke
<1>4. UNCHANGED Mistaken
  BY MistakeStays, SameFileSameContent DEF Invoke
<1>5. Service!Command(s)
  BY <1>1, <1>2, <1>3, <1>4 DEF Service!Command
<1>6. QED BY <1>5 DEF Service!Next

\* A stranger that gets the pid in the file does so when no daemon is up.
LEMMA StrangerServes ==
    ASSUME LockInv, PatientInv, NEW p \in Pids,
           StrangerStarts(p) \/ StrangerEnds(p)
    PROVE  Service!Next \/ UNCHANGED Service!vars
<1>0. UNCHANGED <<pc, term, dirent, data, script>>
  BY DEF StrangerStarts, StrangerEnds
<1>1. /\ [q \in Pids |-> Phase(q)]' = [q \in Pids |-> Phase(q)]
      /\ [t \in Scripts |-> script[t].said]' = [t \in Scripts |-> script[t].said]
      /\ Content' = Content
  BY <1>0, LookingLeavesPhases, SameFileSameContent
<1>2. CASE StrangerStarts(p) /\ Content = p
  <2>1. \A q \in Pids : Phase(q) # "up"
    <3>1. ASSUME NEW q \in Pids, Phase(q) = "up" PROVE FALSE
      <4>1. Serving(q) /\ q \notin term
        BY <3>1, PhaseFacts
      <4>2. q = p
        BY <1>2, <4>1, FoundByContent
      <4>3. QED BY <1>2, <4>1, <4>2 DEF StrangerStarts, Alive, Serving, LivePCs
    <3>2. QED BY <3>1
  <2>2. Mistaken' = TRUE
    BY <1>1, <1>2 DEF Mistaken, StrangerStarts
  <2>3. Service!Mistake
    BY <1>1, <2>1, <2>2 DEF Service!Mistake
  <2>4. QED BY <2>3 DEF Service!Next
<1>3. CASE StrangerEnds(p) \/ Content # p
  <2>1. Mistaken' = FALSE \/ UNCHANGED Mistaken
    BY <1>1, <1>3 DEF Mistaken, StrangerStarts, StrangerEnds
  <2>2. QED BY <1>1, <2>1, QuietStepServes
<1>4. QED BY <1>2, <1>3

\* The pid file, its lock, the port, the signals and the shells implement
\* DaemonService, for any number of processes, inodes and shells, wherever
\* commands wait for each other, whatever fails or crashes and whoever gets the
\* pid of a daemon that ended.
THEOREM ServiceIsKept == Spec => ServiceKept
<1>1. Init => Service!Init /\ PidsAreOnes
  BY DEF Init, Service!Init, Phase, Alive, LivePCs, InitPCs, HandlerPCs,
     PidsAreOnes, Mistaken
<1>2. LockInv /\ PidsAreOnes /\ [Next]_vars => PidsAreOnes'
  BY PidsAreOnesStep DEF LockInv
<1>3. ASSUME LockInv, PidsAreOnes, Patient => PatientInv, Patient, Next
      PROVE  Service!Next \/ UNCHANGED Service!vars
  <2>1. TypeOK /\ PatientInv
    BY <1>3 DEF LockInv
  <2>2. ASSUME NEW s \in Scripts, ScriptStep(s)
        PROVE  Service!Next \/ UNCHANGED Service!vars
    BY <1>3, <2>1, <2>2, LookingServes, StoppingServes, LaunchServes,
       ReplaceServes DEF ScriptStep
  <2>3. QED
    BY <1>3, <2>1, <2>2, DaemonServes, CommandServes, StrangerServes DEF Next
<1>4. UNCHANGED vars => UNCHANGED Service!vars
  <2> SUFFICES ASSUME UNCHANGED vars PROVE UNCHANGED Service!vars
    OBVIOUS
  <2>1. UNCHANGED <<pc, term, script>> /\ UNCHANGED Mistaken
    BY MistakeStays, SameFileSameContent DEF vars
  <2>2. [q \in Pids |-> Phase(q)]' = [q \in Pids |-> Phase(q)]
    BY <2>1, LookingLeavesPhases
  <2>3. QED BY <2>1, <2>2 DEF Service!vars
<1>5. LockInv /\ PidsAreOnes /\ (Patient => PatientInv) /\ [Next]_vars
        => [Patient => Service!Next]_(Service!vars)
  BY <1>3, <1>4
<1>6. QED
  BY <1>1, <1>2, <1>5, OneProcess, LockInvariant, PTL DEF Spec, ServiceKept
=============================================================================
