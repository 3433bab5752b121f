---------------------------- MODULE Valord_proofs ----------------------------
(***************************************************************************)
(* Proofs about Valord, for any processes, images, databases and digests.  *)
(*                                                                         *)
(* A process is followed by its PID and its number: whoever matches is a   *)
(* suspect, the list names suspects by both, and the number behind a PID   *)
(* only grows (IInv).  A scan is followed by who was there when it began:  *)
(* they are listed once passed, and a threat is ahead until it is dead     *)
(* (ScanInv).                                                              *)
(***************************************************************************)
EXTENDS Valord, TLAPS

\* The processes that match now are suspects.
MatchingAreSuspects ==
  ~IsEmpty(db.hash_tree) =>
    \A pid \in Pids :
      Alive(pid) /\ Matches(procs[pid], db) => Identity(pid, procs[pid]) \in suspects

\* An entry of the list whose name matches is of a suspect; what its PID stands
\* for now is the same process or a later one.
EntriesAreKnown ==
  \A k \in DOMAIN processes :
    /\ processes[k].id <= started
    /\ db.modulo # 0 /\ stringset_check(db.name_set, processes[k].comm)
         => <<processes[k].pid, processes[k].id>> \in suspects
    /\ Alive(processes[k].pid)
         => processes[k].id <= procs[processes[k].pid].id

\* A kill that is due goes to a suspect or to a later process of its PID.
KillIsFounded ==
  pc = "kill" =>
    /\ culprit \in suspects
    /\ culprit[1] = Victim
    /\ culprit[2] <= started
    /\ Alive(Victim) => culprit[2] <= procs[Victim].id

NumbersGrow == \A pid \in Pids : procs[pid].id <= started

\* Where the daemon is once it has a database.
Busy == {"loop", "readdir", "get_process", "judge", "hash", "kill", "sleep"}

IType ==
  /\ TypeOK
  /\ pc = "get_process" => cursor \in Pids
  /\ pc \in {"hash", "kill"} => i <= Len(processes)

IInv ==
  /\ IType
  /\ pc = "start" => processes = <<>>
  /\ pc \in Busy => ~IsEmpty(db.hash_tree)
  /\ NumbersGrow
  /\ MatchingAreSuspects
  /\ EntriesAreKnown
  /\ KillIsFounded

-----------------------------------------------------------------------------
\* The numbers and command lines of processes and the entries made of them.
LEMMA ProcessTypes ==
  /\ \A id \in 1 .. MaxProcesses, image \in Images :
       Process(id, image) \in Processes /\ Process(id, image).id = id
  /\ \A proc \in Processes :
       /\ proc.id \in 1 .. MaxProcesses
       /\ proc # NoProcess
       /\ proc.cmdline # <<>> => get_process_comm(proc.cmdline) \in Strings
  /\ NoProcess.id = 0 /\ NoProcess.cmdline = <<>>
<1>1. \A id \in 1 .. MaxProcesses, image \in Images :
        Process(id, image) \in Processes /\ Process(id, image).id = id
  BY DEF Process, Processes
<1>2. ASSUME NEW proc \in Processes
      PROVE  /\ proc.id \in 1 .. MaxProcesses
             /\ proc # NoProcess
             /\ proc.cmdline # <<>> => get_process_comm(proc.cmdline) \in Strings
  <2>1. PICK id \in 1 .. MaxProcesses, image \in Images :
               proc = [id |-> id, cmdline |-> image.cmdline, exe |-> image.exe]
    BY DEF Process, Processes
  <2>2. proc.id = id /\ proc.cmdline = image.cmdline /\ id # 0
    BY <2>1, ValordAssumption
  <2> QED
    BY <2>1, <2>2, ValordAssumption DEF NoProcess
<1> QED
  BY <1>1, <1>2 DEF NoProcess

LEMMA ProcsTypes ==
  ASSUME TypeOK, NEW pid \in Pids
  PROVE  /\ procs[pid].id \in 0 .. MaxProcesses
         /\ Alive(pid) => procs[pid] \in Processes /\ procs[pid].id \in 1 .. MaxProcesses
         /\ ~Alive(pid) => procs[pid].id = 0
  BY ProcessTypes, ValordAssumption DEF TypeOK, Alive

LEMMA InitIInv == Init => IInv
<1> SUFFICES ASSUME Init PROVE IInv
  OBVIOUS
<1>0. MaxProcesses \in Nat \ {0} /\ Self \in Pids
  BY ValordAssumption
<1>1. PICK image \in Images :
        procs = [pid \in Pids |->
                   IF pid = Self THEN Process(1, image) ELSE NoProcess]
  BY DEF Init
<1>2. TypeOK
  <2>1. procs \in [Pids -> Processes \cup {NoProcess}]
    BY <1>0, <1>1, ProcessTypes
  <2>2. processes \in Seq(Entries)
    BY DEF Init
  <2>3. started \in 1 .. MaxProcesses /\ culprit \in Identities \cup {Nobody}
    BY <1>0 DEF Init
  <2>4. /\ pc = "start" /\ need_shutdown \in BOOLEAN /\ cursor \in Pids \cup {0}
        /\ sigterm \in BOOLEAN
    BY DEF Init
  <2>5. i \in Nat \ {0} /\ present \subseteq Pids /\ suspects \subseteq Identities
    BY DEF Init
  <2> QED
    BY <2>1, <2>2, <2>3, <2>4, <2>5 DEF TypeOK
<1>3. NumbersGrow
  BY <1>0, <1>1, ProcessTypes DEF Init, NumbersGrow
<1>4. pc = "start" /\ processes = <<>> /\ IsEmpty(db.hash_tree)
  BY DEF Init, create_database, create_ed_tree, IsEmpty
<1>5. MatchingAreSuspects
  BY <1>4 DEF MatchingAreSuspects
<1>6. EntriesAreKnown
  <2>1. DOMAIN processes = {}
    BY <1>4
  <2> QED
    BY <2>1 DEF EntriesAreKnown
<1>7. KillIsFounded
  BY <1>4 DEF KillIsFounded
<1>8. IType
  BY <1>2, <1>4 DEF IType
<1> QED
  BY <1>3, <1>4, <1>5, <1>6, <1>7, <1>8 DEF IInv, Busy

-----------------------------------------------------------------------------
(***************************************************************************)
(* Types                                                                   *)
(***************************************************************************)

\* The process the daemon is busy with is on the list.
LEMMA CurrentEntry ==
  ASSUME TypeOK, i <= Len(processes)
  PROVE  /\ i \in DOMAIN processes
         /\ processes[i] \in Entries
         /\ processes[i].pid \in Pids
         /\ processes[i].id \in 1 .. MaxProcesses
<1>1. processes \in Seq(Entries) /\ i \in Nat \ {0}
  BY DEF TypeOK
<1>2. i \in 1 .. Len(processes)
  BY <1>1
<1>3. i \in DOMAIN processes /\ processes[i] \in Entries
  BY <1>1, <1>2
<1> QED
  BY <1>3 DEF Entries

\* What becomes of the table of processes keeps its type.
LEMMA TableTypes ==
  ASSUME TypeOK, NEW pid \in Pids, NEW proc \in Processes \cup {NoProcess},
         procs' = [procs EXCEPT ![pid] = proc]
  PROVE  procs' \in [Pids -> Processes \cup {NoProcess}]
  BY DEF TypeOK

LEMMA SpawnKeepsIType ==
  ASSUME IType, NEW pid \in Pids, NEW image \in Images, Spawn(pid, image)
  PROVE  IType'
<1>1. started + 1 \in 1 .. MaxProcesses
  BY ValordAssumption DEF IType, TypeOK, Spawn
<1>2. Process(started + 1, image) \in Processes
      /\ Process(started + 1, image).id = started + 1
  BY <1>1, ProcessTypes
<1>3. procs' \in [Pids -> Processes \cup {NoProcess}]
  BY <1>2, TableTypes DEF IType, Spawn, Becomes
<1>4. suspects' \subseteq Identities /\ present' \subseteq Pids
  BY <1>1, <1>2 DEF IType, TypeOK, Spawn, Becomes, Identity, Identities
<1> QED
  BY <1>1, <1>3, <1>4 DEF IType, TypeOK, Spawn, daemon

LEMMA ExecKeepsIType ==
  ASSUME IType, NEW pid \in Pids, NEW image \in Images, Exec(pid, image)
  PROVE  IType'
<1>1. procs[pid].id \in 1 .. MaxProcesses
  BY ProcsTypes DEF IType, Exec
<1>2. Process(procs[pid].id, image) \in Processes
      /\ Process(procs[pid].id, image).id = procs[pid].id
  BY <1>1, ProcessTypes
<1>3. procs' \in [Pids -> Processes \cup {NoProcess}]
  BY <1>2, TableTypes DEF IType, Exec, Becomes
<1>4. suspects' \subseteq Identities /\ present' \subseteq Pids
  BY <1>1, <1>2 DEF IType, TypeOK, Exec, Becomes, Identity, Identities
<1> QED
  BY <1>3, <1>4 DEF IType, TypeOK, Exec, daemon

LEMMA ExitKeepsIType ==
  ASSUME IType, NEW pid \in Pids, Exit(pid)
  PROVE  IType'
<1>1. procs' \in [Pids -> Processes \cup {NoProcess}]
  BY TableTypes DEF IType, Exit
<1> QED
  BY <1>1 DEF IType, TypeOK, Exit, daemon

LEMMA KillKeepsIType == IType /\ Kill => IType'
<1> SUFFICES ASSUME IType, Kill PROVE IType'
  OBVIOUS
<1>1. Victim \in Pids
  BY CurrentEntry DEF IType, Kill, Victim
<1>2. procs' \in [Pids -> Processes \cup {NoProcess}] /\ present' \subseteq Pids
  BY <1>1, TableTypes DEF IType, TypeOK, Kill
<1>3. i' \in Nat \ {0} /\ culprit' \in Identities \cup {Nobody}
  BY ValordAssumption DEF IType, TypeOK, Kill
<1>4. pc' \in {"killed", "judge"}
  BY DEF Kill
<1> QED
  BY <1>2, <1>3, <1>4 DEF IType, TypeOK, Kill

LEMMA GetProcessKeepsIType == IType /\ GetProcess => IType'
<1> SUFFICES ASSUME IType, GetProcess PROVE IType'
  OBVIOUS
<1>1. processes' \in Seq(Entries)
  <2> DEFINE entry == [pid  |-> cursor,
                       comm |-> get_process_comm(procs[cursor].cmdline),
                       id   |-> procs[cursor].id]
  <2>1. CASE Alive(cursor) /\ procs[cursor].cmdline # <<>>
    <3>1. cursor \in Pids /\ processes \in Seq(Entries)
      BY DEF IType, TypeOK, GetProcess
    <3>2. procs[cursor] \in Processes /\ procs[cursor].id \in 1 .. MaxProcesses
      BY <2>1, <3>1, ProcsTypes DEF IType
    <3>3. get_process_comm(procs[cursor].cmdline) \in Strings
      BY <2>1, <3>2, ProcessTypes
    <3>4. entry \in Entries
      BY <3>1, <3>2, <3>3 DEF Entries
    <3>5. processes' = Append(processes, entry)
      BY <2>1 DEF GetProcess
    <3> QED
      BY <3>1, <3>4, <3>5
  <2>2. CASE ~(Alive(cursor) /\ procs[cursor].cmdline # <<>>)
    BY <2>2 DEF IType, TypeOK, GetProcess
  <2> QED
    BY <2>1, <2>2
<1>2. pc' = "readdir"
  BY DEF GetProcess
<1> QED
  BY <1>1, <1>2 DEF IType, TypeOK, GetProcess, kernel, history

LEMMA StartKeepsIType == IType /\ Start => IType'
<1> SUFFICES ASSUME IType, Start PROVE IType'
  OBVIOUS
<1>1. suspects' \subseteq Identities
  BY ProcsTypes DEF IType, Start, Identity, Identities
<1>2. pc' = "loop"
  BY DEF Start
<1> QED
  BY <1>1, <1>2 DEF IType, TypeOK, Start, kernel

LEMMA LoopKeepsIType == IType /\ Loop => IType'
<1> SUFFICES ASSUME IType, Loop PROVE IType'
  OBVIOUS
<1>1. processes' \in Seq(Entries) /\ pc' \in {"stopped", "readdir"}
  BY DEF Loop
<1> QED
  BY <1>1 DEF IType, TypeOK, Loop, kernel

LEMMA HashExeKeepsIType == IType /\ HashExe => IType'
<1> SUFFICES ASSUME IType, HashExe PROVE IType'
  OBVIOUS
<1>1. processes[i].pid \in Pids
  BY CurrentEntry DEF IType, HashExe
<1>2. procs[processes[i].pid].id \in 0 .. MaxProcesses
  BY <1>1, ProcsTypes DEF IType
<1>3. HashMatches(procs[processes[i].pid], db)
        => Identity(processes[i].pid, procs[processes[i].pid]) \in Identities
  <2> SUFFICES ASSUME HashMatches(procs[processes[i].pid], db)
               PROVE  procs[processes[i].pid].id \in 1 .. MaxProcesses
    BY <1>1 DEF Identity, Identities
  <2>1. Alive(processes[i].pid)
    BY ValordAssumption DEF HashMatches, Alive, NoProcess
  <2> QED
    BY <1>1, <2>1, ProcsTypes DEF IType
<1>4. i' \in Nat \ {0} /\ culprit' \in Identities \cup {Nobody}
      /\ pc' \in {"kill", "judge"} /\ (pc' = "kill" => i' = i)
  BY <1>3 DEF IType, TypeOK, HashExe
<1> QED
  BY <1>4 DEF IType, TypeOK, HashExe, kernel

LEMMA JudgeKeepsIType == IType /\ Judge => IType'
<1> SUFFICES ASSUME IType, Judge PROVE IType'
  OBVIOUS
<1>1. processes[i].id \in 1 .. MaxProcesses /\ processes[i].pid \in Pids
  BY CurrentEntry DEF IType, Judge
<1>2. culprit' \in Identities \cup {Nobody} /\ pc' \in {"lost", "kill", "hash"}
  BY <1>1 DEF IType, TypeOK, Judge, Identities
<1> QED
  BY <1>1, <1>2 DEF IType, TypeOK, Judge, kernel

LEMMA NextKeepsIType == IType /\ [Next]_vars => IType'
<1> SUFFICES ASSUME IType, [Next]_vars PROVE IType'
  OBVIOUS
<1>1. CASE Readdir
  BY <1>1 DEF IType, TypeOK, Readdir, kernel, history
<1>2. CASE EndScan
  BY <1>2 DEF IType, TypeOK, EndScan, kernel, history
<1>3. CASE Wake
  BY <1>3 DEF IType, TypeOK, Wake, kernel, history
<1>4. CASE StartFails
  BY <1>4 DEF IType, TypeOK, StartFails, kernel, history
<1>5. CASE OpendirFails
  BY <1>5 DEF IType, TypeOK, OpendirFails, kernel, history
<1>6. CASE Sigterm
  BY <1>6 DEF IType, TypeOK, Sigterm, Running, Ended, kernel
<1>7. CASE UNCHANGED vars
  BY <1>7 DEF IType, TypeOK, vars
<1> QED
  BY <1>1, <1>2, <1>3, <1>4, <1>5, <1>6, <1>7, SpawnKeepsIType, ExecKeepsIType,
     ExitKeepsIType, KillKeepsIType, GetProcessKeepsIType, StartKeepsIType,
     LoopKeepsIType, HashExeKeepsIType, JudgeKeepsIType
  DEF Next, Daemon

-----------------------------------------------------------------------------
(***************************************************************************)
(* Suspects and numbers                                                    *)
(***************************************************************************)

\* A PID gets another process: a later one if it had none, one with the same
\* number, or none.
LEMMA ProcessChanges ==
  ASSUME IInv, IType', NEW pid \in Pids, NEW proc \in Processes \cup {NoProcess},
         procs' = [procs EXCEPT ![pid] = proc],
         started' >= started,
         proc # NoProcess =>
           /\ proc.id <= started'
           /\ IF Alive(pid) THEN proc.id = procs[pid].id ELSE proc.id > started
           /\ ~IsEmpty(db.hash_tree) /\ Matches(proc, db) => Identity(pid, proc) \in suspects',
         suspects \subseteq suspects', db' = db, processes' = processes
  PROVE  /\ NumbersGrow' /\ MatchingAreSuspects' /\ EntriesAreKnown'
         /\ pc' = pc /\ i' = i /\ culprit' = culprit => KillIsFounded'
<1>1. started \in Nat /\ started' \in Nat
  BY ValordAssumption DEF IInv, IType, TypeOK
<1>2. \A other \in Pids :
        procs'[other] = IF other = pid THEN proc ELSE procs[other]
  BY DEF IInv, IType, TypeOK
<1>3. \A other \in Pids : procs[other].id \in Nat /\ procs[other].id <= started
  BY ProcsTypes DEF IInv, IType, NumbersGrow
<1>4. proc.id \in Nat /\ (proc = NoProcess => proc.id = 0)
  BY ProcessTypes
\* Who is behind a PID now is who was there or came later than everyone.
<1>5. ASSUME NEW other \in Pids, NEW n \in Nat, n <= started,
             Alive(other) => n <= procs[other].id, Alive(other)'
      PROVE  n <= procs'[other].id
  <2>1. CASE other # pid
    BY <1>2, <1>5, <2>1 DEF Alive
  <2>2. CASE other = pid
    BY <1>1, <1>2, <1>3, <1>4, <1>5, <2>2 DEF Alive
  <2> QED
    BY <2>1, <2>2
<1>6. NumbersGrow'
  <2> SUFFICES ASSUME NEW other \in Pids PROVE procs'[other].id <= started'
    BY DEF NumbersGrow
  <2> QED
    BY <1>1, <1>2, <1>3, <1>4
<1>7. MatchingAreSuspects'
  <2> SUFFICES ASSUME ~IsEmpty(db.hash_tree), NEW other \in Pids, Alive(other)',
                      Matches(procs'[other], db)
               PROVE  Identity(other, procs'[other]) \in suspects'
    BY DEF MatchingAreSuspects, Matches, NameMatches, HashMatches, Score
  <2> QED
    BY <1>2 DEF IInv, MatchingAreSuspects, Alive
<1>8. EntriesAreKnown'
  <2> SUFFICES ASSUME NEW k \in DOMAIN processes
               PROVE  /\ processes[k].id <= started'
                      /\ db.modulo # 0 /\ stringset_check(db.name_set, processes[k].comm)
                           => <<processes[k].pid, processes[k].id>> \in suspects'
                      /\ Alive(processes[k].pid)'
                           => processes[k].id <= procs'[processes[k].pid].id
    BY DEF EntriesAreKnown, Alive
  <2>1. processes[k] \in Entries
    BY DEF IInv, IType, TypeOK
  <2>2. processes[k].id \in Nat /\ processes[k].pid \in Pids
    BY <2>1, ValordAssumption DEF Entries
  <2>3. /\ processes[k].id <= started
        /\ db.modulo # 0 /\ stringset_check(db.name_set, processes[k].comm)
             => <<processes[k].pid, processes[k].id>> \in suspects
        /\ Alive(processes[k].pid)
             => processes[k].id <= procs[processes[k].pid].id
    BY DEF IInv, EntriesAreKnown
  <2>4. Alive(processes[k].pid)'
          => processes[k].id <= procs'[processes[k].pid].id
    BY <1>5, <2>2, <2>3
  <2> QED
    BY <1>1, <2>2, <2>3, <2>4
<1>9. ASSUME pc' = pc, i' = i, culprit' = culprit, pc = "kill" PROVE KillIsFounded'
  <2>1. processes[i].pid \in Pids
    BY <1>9, CurrentEntry DEF IInv, IType
  <2>2. /\ culprit \in suspects /\ culprit[1] = processes[i].pid
        /\ culprit[2] <= started
        /\ Alive(processes[i].pid) => culprit[2] <= procs[processes[i].pid].id
    BY <1>9 DEF IInv, KillIsFounded, Victim
  <2>3. culprit[2] \in Nat
    BY <2>2, ValordAssumption DEF IInv, IType, TypeOK, Identities
  <2>4. Alive(processes[i].pid)' => culprit[2] <= procs'[processes[i].pid].id
    BY <1>5, <1>9, <2>1, <2>2, <2>3
  <2> QED
    BY <1>1, <1>9, <2>2, <2>3, <2>4 DEF KillIsFounded, Alive, Victim
<1> QED
  BY <1>6, <1>7, <1>8, <1>9 DEF KillIsFounded

\* Steps of the daemon that change neither processes nor the list nor the
\* database.
LEMMA WorldUnchanged ==
  ASSUME IInv, UNCHANGED <<kernel, db, processes, suspects>>
  PROVE  NumbersGrow' /\ MatchingAreSuspects' /\ EntriesAreKnown'
<1>1. NumbersGrow'
  BY DEF IInv, NumbersGrow, kernel
<1>2. MatchingAreSuspects'
  BY DEF IInv, MatchingAreSuspects, Matches, NameMatches, HashMatches, Score,
         Alive, kernel
<1>3. EntriesAreKnown'
  BY DEF IInv, EntriesAreKnown, Alive, kernel
<1> QED
  BY <1>1, <1>2, <1>3

LEMMA SpawnKeepsIInv ==
  ASSUME IInv, NEW pid \in Pids, NEW image \in Images, Spawn(pid, image)
  PROVE  IInv'
<1>1. IType'
  BY SpawnKeepsIType DEF IInv
<1>2. started \in Nat /\ started + 1 \in 1 .. MaxProcesses
  BY ValordAssumption DEF IInv, IType, TypeOK, Spawn
<1> DEFINE proc == Process(started + 1, image)
<1>3. proc \in Processes /\ proc.id = started + 1
  BY <1>2, ProcessTypes
<1>4. NumbersGrow' /\ MatchingAreSuspects' /\ EntriesAreKnown' /\ KillIsFounded'
  <2>1. /\ procs' = [procs EXCEPT ![pid] = proc] /\ ~Alive(pid)
        /\ suspects \subseteq suspects'
        /\ ~IsEmpty(db.hash_tree) /\ Matches(proc, db) => Identity(pid, proc) \in suspects'
        /\ started' = started + 1
        /\ UNCHANGED <<pc, db, processes, i, culprit>>
    BY DEF Spawn, Becomes, daemon
  <2> HIDE DEF proc
  <2>2. started' >= started
    BY <1>2, <2>1
  <2>3. proc # NoProcess =>
          /\ proc.id <= started'
          /\ IF Alive(pid) THEN proc.id = procs[pid].id ELSE proc.id > started
          /\ ~IsEmpty(db.hash_tree) /\ Matches(proc, db) => Identity(pid, proc) \in suspects'
    BY <1>2, <1>3, <2>1
  <2> QED
    BY <1>1, <1>3, <2>1, <2>2, <2>3, ProcessChanges
<1> QED
  BY <1>1, <1>4 DEF IInv, Spawn, daemon

LEMMA ExecKeepsIInv ==
  ASSUME IInv, NEW pid \in Pids, NEW image \in Images, Exec(pid, image)
  PROVE  IInv'
<1>1. IType'
  BY ExecKeepsIType DEF IInv
<1>2. procs[pid].id \in 1 .. MaxProcesses /\ procs[pid].id <= started
      /\ started \in Nat
  BY ProcsTypes, ValordAssumption DEF IInv, IType, TypeOK, Exec, NumbersGrow
<1> DEFINE proc == Process(procs[pid].id, image)
<1>3. proc \in Processes /\ proc.id = procs[pid].id
  BY <1>2, ProcessTypes
<1>4. NumbersGrow' /\ MatchingAreSuspects' /\ EntriesAreKnown' /\ KillIsFounded'
  <2>1. /\ procs' = [procs EXCEPT ![pid] = proc] /\ Alive(pid)
        /\ suspects \subseteq suspects'
        /\ ~IsEmpty(db.hash_tree) /\ Matches(proc, db) => Identity(pid, proc) \in suspects'
        /\ UNCHANGED <<started, pc, db, processes, i, culprit>>
    BY DEF Exec, Becomes, daemon
  <2> HIDE DEF proc
  <2>2. started' >= started
    BY <1>2, <2>1
  <2>3. proc # NoProcess =>
          /\ proc.id <= started'
          /\ IF Alive(pid) THEN proc.id = procs[pid].id ELSE proc.id > started
          /\ ~IsEmpty(db.hash_tree) /\ Matches(proc, db) => Identity(pid, proc) \in suspects'
    BY <1>2, <1>3, <2>1
  <2> QED
    BY <1>1, <1>3, <2>1, <2>2, <2>3, ProcessChanges
<1> QED
  BY <1>1, <1>4 DEF IInv, Exec, daemon

LEMMA ExitKeepsIInv ==
  ASSUME IInv, NEW pid \in Pids, Exit(pid)
  PROVE  IInv'
<1>1. IType'
  BY ExitKeepsIType DEF IInv
<1>2. started \in Nat
  BY ValordAssumption DEF IInv, IType, TypeOK
<1>3. NumbersGrow' /\ MatchingAreSuspects' /\ EntriesAreKnown' /\ KillIsFounded'
  <2>1. /\ procs' = [procs EXCEPT ![pid] = NoProcess]
        /\ UNCHANGED <<started, pc, db, processes, i, culprit, suspects>>
    BY DEF Exit, daemon
  <2>2. started' >= started
    BY <1>2, <2>1
  <2> QED
    BY <1>1, <2>1, <2>2, ProcessChanges
<1> QED
  BY <1>1, <1>3 DEF IInv, Exit, daemon

LEMMA KillKeepsIInv ==
  ASSUME IInv, IType', Kill
  PROVE  IInv'
<1>1. pc = "kill" /\ Victim \in Pids /\ started \in Nat
  BY CurrentEntry, ValordAssumption DEF IInv, IType, TypeOK, Kill, Victim
<1>2. NumbersGrow' /\ MatchingAreSuspects' /\ EntriesAreKnown'
  <2>1. CASE Killable(Victim)
    <3>1. /\ procs' = [procs EXCEPT ![Victim] = NoProcess]
          /\ UNCHANGED <<started, db, processes, suspects>>
      BY <2>1 DEF Kill
    <3>2. started' >= started
      BY <1>1, <3>1
    <3> QED
      BY <1>1, <3>1, <3>2, ProcessChanges
  <2>2. CASE ~Killable(Victim)
    BY <2>2, WorldUnchanged DEF Kill, kernel
  <2> QED
    BY <2>1, <2>2
<1>3. pc' \in {"killed", "judge"} /\ UNCHANGED <<db, processes>>
  BY DEF Kill
<1> QED
  BY <1>1, <1>2, <1>3 DEF IInv, KillIsFounded, Busy

LEMMA StartKeepsIInv ==
  ASSUME IInv, IType', Start
  PROVE  IInv'
<1>1. /\ pc = "start" /\ pc' = "loop" /\ processes = <<>> /\ processes' = <<>>
      /\ UNCHANGED kernel /\ ~IsEmpty(db'.hash_tree)
  BY ValordAssumption DEF IInv, Start
<1>2. NumbersGrow'
  BY <1>1 DEF IInv, NumbersGrow, kernel
<1>3. MatchingAreSuspects'
  <2>1. \A pid \in Pids :
          Alive(pid) /\ Matches(procs[pid], db') => Identity(pid, procs[pid]) \in suspects'
    BY DEF Start
  <2> QED
    BY <1>1, <2>1 DEF MatchingAreSuspects, Matches, NameMatches, HashMatches,
                     Score, Alive, kernel
<1>4. EntriesAreKnown'
  <2>1. DOMAIN processes' = {}
    BY <1>1
  <2> QED
    BY <2>1 DEF EntriesAreKnown
<1> QED
  BY <1>1, <1>2, <1>3, <1>4 DEF IInv, KillIsFounded

LEMMA LoopKeepsIInv ==
  ASSUME IInv, IType', Loop
  PROVE  IInv'
<1>1. /\ pc = "loop" /\ pc' \in {"stopped", "readdir"} /\ processes' = <<>>
      /\ UNCHANGED <<kernel, db, suspects>>
  BY DEF Loop
<1>2. NumbersGrow' /\ MatchingAreSuspects'
  BY <1>1 DEF IInv, NumbersGrow, MatchingAreSuspects, Matches, NameMatches,
              HashMatches, Score, Alive, kernel
<1>3. EntriesAreKnown'
  <2>1. DOMAIN processes' = {}
    BY <1>1
  <2> QED
    BY <2>1 DEF EntriesAreKnown
<1> QED
  BY <1>1, <1>2, <1>3 DEF IInv, KillIsFounded, Busy

LEMMA EndScanKeepsIInv ==
  ASSUME IInv, IType', EndScan
  PROVE  IInv'
<1>1. /\ pc = "judge" /\ pc' = "sleep" /\ processes' = <<>>
      /\ UNCHANGED <<kernel, db, suspects>>
  BY DEF EndScan, history
<1>2. NumbersGrow' /\ MatchingAreSuspects'
  BY <1>1 DEF IInv, NumbersGrow, MatchingAreSuspects, Matches, NameMatches,
              HashMatches, Score, Alive, kernel
<1>3. EntriesAreKnown'
  <2>1. DOMAIN processes' = {}
    BY <1>1
  <2> QED
    BY <2>1 DEF EntriesAreKnown
<1> QED
  BY <1>1, <1>2, <1>3 DEF IInv, KillIsFounded, Busy

\* The entry that is made of a process whose name matches is of a suspect.
LEMMA GetProcessKeepsIInv ==
  ASSUME IInv, IType', GetProcess
  PROVE  IInv'
<1>1. /\ pc = "get_process" /\ pc' = "readdir" /\ cursor \in Pids
      /\ UNCHANGED <<kernel, db, suspects>> /\ ~IsEmpty(db.hash_tree)
  BY DEF IInv, IType, GetProcess, history, Busy
<1>2. NumbersGrow' /\ MatchingAreSuspects'
  BY <1>1 DEF IInv, NumbersGrow, MatchingAreSuspects, Matches, NameMatches,
              HashMatches, Score, Alive, kernel
<1>3. EntriesAreKnown'
  <2> DEFINE entry == [pid  |-> cursor,
                       comm |-> get_process_comm(procs[cursor].cmdline),
                       id   |-> procs[cursor].id]
  <2>1. CASE Alive(cursor) /\ procs[cursor].cmdline # <<>>
    <3>1. processes \in Seq(Entries) /\ processes' = Append(processes, entry)
      BY <2>1 DEF IInv, IType, TypeOK, GetProcess
    <3>2. /\ entry.pid = cursor /\ entry.id = procs[cursor].id
          /\ entry.comm = get_process_comm(procs[cursor].cmdline)
      OBVIOUS
    <3>3. entry.id <= started /\ procs[cursor].id \in Nat
      BY <1>1, <3>2, ProcsTypes DEF IInv, IType, NumbersGrow
    <3>4. db.modulo # 0 /\ stringset_check(db.name_set, entry.comm)
            => <<entry.pid, entry.id>> \in suspects
      BY <1>1, <2>1, <3>2 DEF IInv, MatchingAreSuspects, Matches, NameMatches, Identity
    <3> HIDE DEF entry
    <3>5. ASSUME NEW k \in DOMAIN processes'
          PROVE  IF k = Len(processes) + 1 THEN processes'[k] = entry
                 ELSE k \in DOMAIN processes /\ processes'[k] = processes[k]
      BY <3>1, <3>5
    <3>6. ASSUME NEW k \in DOMAIN processes'
          PROVE  /\ processes'[k].id <= started
                 /\ db.modulo # 0 /\ stringset_check(db.name_set, processes'[k].comm)
                      => <<processes'[k].pid, processes'[k].id>> \in suspects
                 /\ Alive(processes'[k].pid)
                      => processes'[k].id <= procs[processes'[k].pid].id
      <4>1. CASE k = Len(processes) + 1
        BY <3>2, <3>3, <3>4, <3>5, <4>1
      <4>2. CASE k # Len(processes) + 1
        BY <3>5, <4>2 DEF IInv, EntriesAreKnown
      <4> QED
        BY <4>1, <4>2
    <3> QED
      BY <1>1, <3>6 DEF EntriesAreKnown, Alive, kernel
  <2>2. CASE ~(Alive(cursor) /\ procs[cursor].cmdline # <<>>)
    <3>1. processes' = processes
      BY <2>2 DEF GetProcess
    <3> QED
      BY <1>1, <3>1, WorldUnchanged
  <2> QED
    BY <2>1, <2>2
<1> QED
  BY <1>1, <1>2, <1>3 DEF IInv, KillIsFounded, Busy

LEMMA JudgeKeepsIInv ==
  ASSUME IInv, IType', Judge
  PROVE  IInv'
<1>1. /\ pc = "judge" /\ UNCHANGED <<kernel, db, processes, suspects, i>>
      /\ pc' \in {"lost", "kill", "hash"}
  BY DEF Judge
<1>2. i \in DOMAIN processes
  BY CurrentEntry DEF IInv, IType, Judge
<1>3. KillIsFounded'
  <2>1. SUFFICES ASSUME pc' = "kill" PROVE KillIsFounded'
    BY DEF KillIsFounded
  <2>2. /\ db.modulo # 0 /\ stringset_check(db.name_set, processes[i].comm)
        /\ culprit' = <<processes[i].pid, processes[i].id>>
    BY <2>1 DEF Judge, LookupGetsLost
  <2> QED
    BY <1>1, <1>2, <2>2
    DEF IInv, EntriesAreKnown, KillIsFounded, Victim, Alive, kernel
<1> QED
  BY <1>1, <1>3, WorldUnchanged DEF IInv, Busy

LEMMA HashExeKeepsIInv ==
  ASSUME IInv, IType', HashExe
  PROVE  IInv'
<1>1. /\ pc = "hash" /\ UNCHANGED <<kernel, db, processes, suspects>>
      /\ pc' \in {"kill", "judge"}
  BY DEF HashExe
<1> DEFINE pid == processes[i].pid
<1>2. pid \in Pids
  BY CurrentEntry DEF IInv, IType, HashExe
<1>3. KillIsFounded'
  <2>1. SUFFICES ASSUME pc' = "kill" PROVE KillIsFounded'
    BY DEF KillIsFounded
  <2>2. HashMatches(procs[pid], db) /\ culprit' = Identity(pid, procs[pid]) /\ i' = i
    BY <2>1 DEF HashExe
  <2>3. Alive(pid)
    BY <2>2, ValordAssumption DEF HashMatches, Alive, NoProcess
  <2>4. Identity(pid, procs[pid]) \in suspects
    BY <1>1, <1>2, <2>2, <2>3 DEF IInv, MatchingAreSuspects, Matches, Busy
  <2>5. procs[pid].id \in Nat /\ procs[pid].id <= started
    BY <1>2, ProcsTypes DEF IInv, IType, NumbersGrow
  <2> QED
    BY <1>1, <2>2, <2>4, <2>5 DEF KillIsFounded, Victim, Identity, kernel
<1> QED
  BY <1>1, <1>3, WorldUnchanged DEF IInv, Busy

LEMMA NextKeepsIInv == IInv /\ [Next]_vars => IInv'
<1> SUFFICES ASSUME IInv, [Next]_vars PROVE IInv'
  OBVIOUS
<1>0. IType'
  BY NextKeepsIType DEF IInv
<1>1. CASE Readdir
  <2>1. pc = "readdir" /\ pc' \in {"get_process", "judge"}
        /\ UNCHANGED <<kernel, db, processes, suspects>>
    BY <1>1 DEF Readdir, history
  <2> QED
    BY <1>0, <2>1, WorldUnchanged DEF IInv, KillIsFounded, Busy
<1>2. CASE Wake
  <2>1. pc = "sleep" /\ pc' = "loop" /\ UNCHANGED <<kernel, db, processes, suspects>>
    BY <1>2 DEF Wake, history
  <2> QED
    BY <1>0, <2>1, WorldUnchanged DEF IInv, KillIsFounded, Busy
<1>3. CASE StartFails \/ OpendirFails
  <2>1. pc' = "failed" /\ UNCHANGED <<kernel, db, processes, suspects>>
    BY <1>3 DEF StartFails, OpendirFails, history
  <2> QED
    BY <1>0, <2>1, WorldUnchanged DEF IInv, KillIsFounded, Busy
<1>4. CASE Sigterm
  <2>1. /\ UNCHANGED <<kernel, db, processes, suspects, i, culprit>>
        /\ pc' = IF pc = "sleep" THEN "loop" ELSE pc
    BY <1>4 DEF Sigterm
  <2>2. KillIsFounded'
    BY <2>1 DEF IInv, KillIsFounded, Victim, Alive, kernel
  <2> QED
    BY <1>0, <2>1, <2>2, WorldUnchanged DEF IInv, Busy
<1>5. CASE UNCHANGED vars
  <2>1. /\ UNCHANGED <<kernel, db, processes, suspects, i, culprit, pc>>
    BY <1>5 DEF vars, kernel
  <2>2. KillIsFounded'
    BY <2>1 DEF IInv, KillIsFounded, Victim, Alive, kernel
  <2> QED
    BY <1>0, <2>1, <2>2, WorldUnchanged DEF IInv, Busy
<1> QED
  BY <1>0, <1>1, <1>2, <1>3, <1>4, <1>5, SpawnKeepsIInv, ExecKeepsIInv,
     ExitKeepsIInv, KillKeepsIInv, StartKeepsIInv, LoopKeepsIInv,
     EndScanKeepsIInv, GetProcessKeepsIInv, JudgeKeepsIInv, HashExeKeepsIInv
  DEF Next, Daemon

-----------------------------------------------------------------------------
\* The invariant holds in every run of the daemon.
THEOREM IInvHolds == Spec => []IInv
<1>1. Init => IInv
  BY InitIInv
<1>2. IInv /\ [Next]_vars => IInv'
  BY NextKeepsIInv
<1> QED
  BY <1>1, <1>2, PTL DEF Spec

\* The state of the daemon and of the processes has its type, for any number of
\* them (valor.c:19-95, process.c:89-138).
THEOREM TypeCorrect == Spec => []TypeOK
<1>1. IInv => TypeOK
  BY DEF IInv, IType
<1> QED
  BY <1>1, IInvHolds, PTL

\* Nobody who never matched is killed but in the place of an earlier process that
\* did and had the same PID (valor.c:63-88).
THEOREM InnocentsAreSafe == Spec => InnocentKilledOnlyByReuse
<1> DEFINE Founded ==
             [pc = "kill" =>
                \A pid \in Pids :
                  (Alive(pid) /\ procs'[pid] = NoProcess /\ i' # i) =>
                    \/ Identity(pid, procs[pid]) \in suspects
                    \/ /\ culprit \in suspects
                       /\ culprit[1] = pid
                       /\ culprit[2] < procs[pid].id]_vars
<1>1. IInv /\ [Next]_vars => Founded
  <2> SUFFICES ASSUME IInv, [Next]_vars, pc = "kill", NEW pid \in Pids,
                      Alive(pid), procs'[pid] = NoProcess, i' # i
               PROVE  \/ Identity(pid, procs[pid]) \in suspects
                      \/ /\ culprit \in suspects
                         /\ culprit[1] = pid
                         /\ culprit[2] < procs[pid].id
    OBVIOUS
  <2>1. Kill
    BY DEF Next, Daemon, Start, Loop, Readdir, GetProcess, Judge, HashExe, EndScan,
           Wake, StartFails, OpendirFails, Sigterm, Spawn, Exec, Exit, daemon, vars
  <2>2. pid = Victim
    BY <2>1 DEF Kill, Alive, IInv, IType, TypeOK
  <2>3. culprit \in suspects /\ culprit[1] = pid /\ culprit[2] <= procs[pid].id
    BY <2>2 DEF IInv, KillIsFounded
  <2>4. culprit = <<culprit[1], culprit[2]>> /\ culprit[2] \in Nat
    BY <2>3, ValordAssumption DEF IInv, IType, TypeOK, Identities
  <2>5. procs[pid].id \in Nat
    BY ProcsTypes, ValordAssumption DEF IInv, IType, TypeOK
  <2> QED
    BY <2>3, <2>4, <2>5 DEF Identity
<1> QED
  BY <1>1, IInvHolds, PTL DEF Spec, InnocentKilledOnlyByReuse

-----------------------------------------------------------------------------
(***************************************************************************)
(* A scan misses no threat                                                 *)
(***************************************************************************)

\* The k-th entry was made of the process that pid stands for, as it is.
IsEntryOf(k, pid) ==
  /\ k \in DOMAIN processes
  /\ processes[k].pid = pid
  /\ processes[k].comm = get_process_comm(procs[pid].cmdline)

\* While the list is made, whoever was there all along and was passed is on it.
PassedAreListed ==
  \A pid \in present :
    /\ procs[pid].cmdline # <<>>
    /\ \/ pc = "readdir" /\ pid <= cursor
       \/ pc = "get_process" /\ pid < cursor
    => \E k \in DOMAIN processes : IsEntryOf(k, pid)

\* While the list is judged, a threat that was there all along is still ahead.
ThreatsAreAhead ==
  pc \in {"judge", "hash", "kill"} =>
    \A pid \in present \ Protected :
      Detectable(procs[pid]) =>
        \E k \in DOMAIN processes : k >= i /\ IsEntryOf(k, pid)

ScanInv ==
  /\ IType
  /\ \A pid \in present : Alive(pid)
  /\ PassedAreListed
  /\ ThreatsAreAhead
  /\ pc = "hash" => ~stringset_check(db.name_set, processes[i].comm)
  /\ ScanMissesNoThreat

\* A process that changes is no longer one that was there all along.
LEMMA ChangedIsNotPresent ==
  ASSUME ScanInv, IType', NEW pid \in Pids, NEW proc,
         procs' = [procs EXCEPT ![pid] = proc],
         present' = present \ {pid},
         UNCHANGED <<pc, db, cursor, processes, i>>
  PROVE  ScanInv'
<1>1. \A other \in present' :
        other \in present /\ other \in Pids /\ procs'[other] = procs[other]
  BY DEF ScanInv, IType, TypeOK
<1>2. \A other \in present' : Alive(other)'
  BY <1>1 DEF ScanInv, Alive
<1>3. PassedAreListed'
  BY <1>1 DEF ScanInv, PassedAreListed, IsEntryOf
<1>4. ThreatsAreAhead'
  BY <1>1 DEF ScanInv, ThreatsAreAhead, IsEntryOf, Detectable, Matches,
              NameMatches, HashMatches, Score
<1>5. ScanMissesNoThreat'
  BY <1>1 DEF ScanInv, ScanMissesNoThreat, Detectable, Matches, NameMatches,
              HashMatches, Score
<1> QED
  BY <1>2, <1>3, <1>4, <1>5 DEF ScanInv

\* The next entry of the directory is the least PID after the cursor, and at the
\* end there is none after it.
LEMMA ReaddirKeepsScanInv ==
  ASSUME ScanInv, IType', Readdir
  PROVE  ScanInv'
<1>1. /\ pc = "readdir" /\ UNCHANGED <<procs, present, db, processes>>
      /\ pc' \in {"get_process", "judge"}
  BY DEF Readdir, kernel, history
<1>2. \A pid \in present : pid \in Pids /\ pid \in Nat /\ Alive(pid)
  BY ValordAssumption DEF ScanInv, IType, TypeOK
<1>3. cursor \in Nat
  BY ValordAssumption DEF ScanInv, IType, TypeOK
<1>4. CASE pc' = "get_process"
  <2>1. cursor' \in Pids /\ cursor' \in Nat /\ IsNextEntry(cursor')
    BY <1>4, ValordAssumption DEF Readdir
  <2>2. \A pid \in present : pid < cursor' => pid <= cursor
    BY <1>2, <1>3, <2>1 DEF IsNextEntry
  <2>3. PassedAreListed'
    BY <1>1, <1>4, <2>2 DEF ScanInv, PassedAreListed, IsEntryOf
  <2> QED
    BY <1>1, <1>4, <2>3 DEF ScanInv, ThreatsAreAhead, ScanMissesNoThreat, Alive
<1>5. CASE pc' = "judge"
  <2>1. \A pid \in present : pid <= cursor
    BY <1>2, <1>5 DEF Readdir
  <2>2. i' = 1
    BY <1>5 DEF Readdir
  <2>3. ASSUME NEW pid \in present, Detectable(procs[pid])
        PROVE  \E k \in DOMAIN processes : k >= 1 /\ IsEntryOf(k, pid)
    <3>1. procs[pid].cmdline # <<>>
      BY <2>3 DEF Detectable
    <3>2. PICK k \in DOMAIN processes : IsEntryOf(k, pid)
      BY <1>1, <2>1, <3>1 DEF ScanInv, PassedAreListed
    <3>3. k >= 1
      BY <3>2 DEF ScanInv, IType, TypeOK
    <3> QED
      BY <3>2, <3>3
  <2>4. ThreatsAreAhead'
    BY <1>1, <2>2, <2>3 DEF ThreatsAreAhead, IsEntryOf, Detectable, Matches,
                            NameMatches, HashMatches, Score
  <2> QED
    BY <1>1, <1>5, <2>4 DEF ScanInv, PassedAreListed, ScanMissesNoThreat, Alive
<1> QED
  BY <1>1, <1>4, <1>5

LEMMA GetProcessKeepsScanInv ==
  ASSUME ScanInv, IType', GetProcess
  PROVE  ScanInv'
<1>1. /\ pc = "get_process" /\ pc' = "readdir" /\ cursor \in Pids
      /\ cursor \in Nat /\ processes \in Seq(Entries)
      /\ UNCHANGED <<procs, present, db, cursor>>
  BY ValordAssumption DEF ScanInv, IType, TypeOK, GetProcess, kernel, history
<1>2. \A pid \in present : pid \in Nat /\ Alive(pid)
  BY ValordAssumption DEF ScanInv, IType, TypeOK
<1>3. ASSUME NEW k \in DOMAIN processes
      PROVE  k \in DOMAIN processes' /\ processes'[k] = processes[k]
  BY <1>1, <1>3 DEF GetProcess
<1>4. ASSUME NEW pid \in present, procs[pid].cmdline # <<>>, pid <= cursor
      PROVE  \E k \in DOMAIN processes' :
               /\ processes'[k].pid = pid
               /\ processes'[k].comm = get_process_comm(procs[pid].cmdline)
  <2>1. CASE pid = cursor
    <3> DEFINE entry == [pid  |-> cursor,
                         comm |-> get_process_comm(procs[cursor].cmdline),
                         id   |-> procs[cursor].id]
    <3>1. processes' = Append(processes, entry)
      BY <1>2, <1>4, <2>1 DEF GetProcess
    <3>2. Len(processes) + 1 \in DOMAIN processes'
          /\ processes'[Len(processes) + 1] = entry
      BY <1>1, <3>1
    <3> QED
      BY <2>1, <3>2
  <2>2. CASE pid # cursor
    <3>1. pid < cursor
      BY <1>1, <1>2, <1>4, <2>2
    <3>2. PICK k \in DOMAIN processes : IsEntryOf(k, pid)
      BY <1>1, <1>4, <3>1 DEF ScanInv, PassedAreListed
    <3> QED
      BY <1>3, <3>2 DEF IsEntryOf
  <2> QED
    BY <2>1, <2>2
<1>5. PassedAreListed'
  BY <1>1, <1>4 DEF PassedAreListed, IsEntryOf
<1> QED
  BY <1>1, <1>5 DEF ScanInv, ThreatsAreAhead, ScanMissesNoThreat, Alive

\* What is not killed after it was judged by name and digest is no threat.
LEMMA HashExeKeepsScanInv ==
  ASSUME ScanInv, IType', HashExe
  PROVE  ScanInv'
<1>1. /\ pc = "hash" /\ UNCHANGED <<procs, present, db, processes>>
      /\ pc' \in {"kill", "judge"} /\ i \in Nat
  BY DEF HashExe, kernel, ScanInv, IType, TypeOK
<1>2. ASSUME NEW pid \in present \ Protected, Detectable(procs[pid])
      PROVE  \E k \in DOMAIN processes : k >= i' /\ IsEntryOf(k, pid)
  <2>1. PICK k \in DOMAIN processes : k >= i /\ IsEntryOf(k, pid)
    BY <1>1, <1>2 DEF ScanInv, ThreatsAreAhead
  <2>2. k \in Nat
    BY <2>1 DEF ScanInv, IType, TypeOK
  <2>3. CASE pc' = "kill"
    BY <1>1, <2>1, <2>3 DEF HashExe
  <2>4. CASE pc' = "judge"
    <3>1. i' = i + 1 /\ ~HashMatches(procs[processes[i].pid], db)
      BY <2>4 DEF HashExe
    <3>2. k # i
      BY <1>1, <1>2, <2>1, <3>1
      DEF ScanInv, IsEntryOf, Detectable, Matches, NameMatches
    <3> QED
      BY <1>1, <2>1, <2>2, <3>1, <3>2
  <2> QED
    BY <1>1, <2>3, <2>4
<1>3. ThreatsAreAhead'
  BY <1>1, <1>2 DEF ThreatsAreAhead, IsEntryOf, Detectable, Matches, NameMatches,
                    HashMatches, Score
<1> QED
  BY <1>1, <1>3 DEF ScanInv, PassedAreListed, ScanMissesNoThreat, Alive

LEMMA KillKeepsScanInv ==
  ASSUME ScanInv, IType', Kill
  PROVE  ScanInv'
<1>1. /\ pc = "kill" /\ pc' \in {"killed", "judge"} /\ i' = i + 1 /\ i \in Nat
      /\ UNCHANGED <<db, processes>>
  BY DEF Kill, ScanInv, IType, TypeOK
\* Those that are still there have not changed, and the victim is not one that
\* can be killed.
<1>2. ASSUME NEW pid \in present'
      PROVE  /\ pid \in present /\ procs'[pid] = procs[pid]
             /\ pid \notin Protected => pid # Victim
  <2>1. CASE Killable(Victim)
    BY <1>2, <2>1 DEF Kill, ScanInv, IType, TypeOK
  <2>2. CASE ~Killable(Victim)
    BY <1>2, <2>2 DEF Kill, Killable, ScanInv
  <2> QED
    BY <2>1, <2>2
<1>3. ASSUME NEW pid \in present' \ Protected, Detectable(procs[pid])
      PROVE  \E k \in DOMAIN processes : k >= i + 1 /\ IsEntryOf(k, pid)
  <2>1. PICK k \in DOMAIN processes : k >= i /\ IsEntryOf(k, pid)
    BY <1>1, <1>2, <1>3 DEF ScanInv, ThreatsAreAhead
  <2>2. k \in Nat
    BY <2>1 DEF ScanInv, IType, TypeOK
  <2>3. k # i
    BY <1>2, <1>3, <2>1 DEF IsEntryOf, Victim
  <2> QED
    BY <1>1, <2>1, <2>2, <2>3
<1>4. ThreatsAreAhead'
  BY <1>1, <1>2, <1>3 DEF ThreatsAreAhead, IsEntryOf, Detectable, Matches,
                          NameMatches, HashMatches, Score
<1>5. \A pid \in present' : Alive(pid)'
  BY <1>2 DEF ScanInv, Alive
<1> QED
  BY <1>1, <1>4, <1>5 DEF ScanInv, PassedAreListed, ScanMissesNoThreat

LEMMA JudgeKeepsScanInv ==
  ASSUME ScanInv, IType', Judge
  PROVE  ScanInv'
<1>1. /\ pc = "judge" /\ UNCHANGED <<procs, present, db, processes, i>>
      /\ pc' \in {"lost", "kill", "hash"}
      /\ pc' = "hash" => ~stringset_check(db.name_set, processes[i].comm)
  BY DEF Judge, kernel
<1>2. ThreatsAreAhead'
  BY <1>1 DEF ScanInv, ThreatsAreAhead, IsEntryOf, Detectable, Matches,
              NameMatches, HashMatches, Score
<1> QED
  BY <1>1, <1>2 DEF ScanInv, PassedAreListed, ScanMissesNoThreat, Alive

LEMMA EndScanKeepsScanInv ==
  ASSUME ScanInv, IType', EndScan
  PROVE  ScanInv'
<1>1. /\ pc = "judge" /\ pc' = "sleep" /\ i > Len(processes)
      /\ i \in Nat /\ processes \in Seq(Entries)
      /\ UNCHANGED <<procs, present, db>>
  BY DEF EndScan, kernel, history, ScanInv, IType, TypeOK
<1>2. ~ \E k \in DOMAIN processes : k >= i
  BY <1>1
<1>3. ScanMissesNoThreat'
  BY <1>1, <1>2 DEF ScanInv, ThreatsAreAhead, ScanMissesNoThreat, Detectable,
                    Matches, NameMatches, HashMatches, Score
<1> QED
  BY <1>1, <1>3 DEF ScanInv, PassedAreListed, ThreatsAreAhead, Alive

LEMMA NextKeepsScanInv == ScanInv /\ [Next]_vars => ScanInv'
<1> SUFFICES ASSUME ScanInv, [Next]_vars PROVE ScanInv'
  OBVIOUS
<1>0. IType'
  BY NextKeepsIType DEF ScanInv
<1>1. ASSUME NEW pid \in Pids, NEW image \in Images, Spawn(pid, image)
      PROVE  ScanInv'
  BY <1>0, <1>1, ChangedIsNotPresent DEF Spawn, Becomes, daemon
<1>2. ASSUME NEW pid \in Pids, NEW image \in Images, Exec(pid, image)
      PROVE  ScanInv'
  BY <1>0, <1>2, ChangedIsNotPresent DEF Exec, Becomes, daemon
<1>3. ASSUME NEW pid \in Pids, Exit(pid)
      PROVE  ScanInv'
  BY <1>0, <1>3, ChangedIsNotPresent DEF Exit, daemon
<1>4. CASE Start \/ Wake \/ StartFails \/ OpendirFails
  <2>1. pc' \in {"loop", "failed"} /\ UNCHANGED <<procs, present>>
    BY <1>4 DEF Start, Wake, StartFails, OpendirFails, kernel, history
  <2> QED
    BY <1>0, <2>1 DEF ScanInv, PassedAreListed, ThreatsAreAhead, ScanMissesNoThreat,
                      Alive
<1>5. CASE Loop
  <2>1. /\ pc' \in {"stopped", "readdir"} /\ cursor' = 0 /\ UNCHANGED procs
        /\ present' = { pid \in Pids : Alive(pid) }
    BY <1>5 DEF Loop, kernel
  <2>2. \A pid \in Pids : ~(pid <= 0)
    BY ValordAssumption
  <2>3. PassedAreListed'
    BY <2>1, <2>2 DEF PassedAreListed
  <2> QED
    BY <1>0, <2>1, <2>3 DEF ScanInv, ThreatsAreAhead, ScanMissesNoThreat, Alive
<1>6. CASE Sigterm \/ UNCHANGED vars
  <2>1. /\ UNCHANGED <<procs, present, db, cursor, processes, i>>
        /\ pc' = pc \/ pc' = "loop"
    BY <1>6 DEF Sigterm, vars, kernel
  <2>2. PassedAreListed' /\ ThreatsAreAhead' /\ ScanMissesNoThreat'
    BY <2>1 DEF ScanInv, PassedAreListed, ThreatsAreAhead, ScanMissesNoThreat,
                IsEntryOf, Detectable, Matches, NameMatches, HashMatches, Score
  <2> QED
    BY <1>0, <2>1, <2>2 DEF ScanInv, Alive
<1> QED
  BY <1>0, <1>1, <1>2, <1>3, <1>4, <1>5, <1>6, ReaddirKeepsScanInv,
     GetProcessKeepsScanInv, HashExeKeepsScanInv, KillKeepsScanInv,
     JudgeKeepsScanInv, EndScanKeepsScanInv
  DEF Next, Daemon

\* However processes come and go, whoever matches the database from before a scan
\* to its end is dead at its end, or cannot be killed (valor.c:62-88,
\* process.c:112-138).
THEOREM ScansMissNoThreat == Spec => []ScanMissesNoThreat
<1>1. Init => ScanInv
  <2> SUFFICES ASSUME Init PROVE ScanInv
    OBVIOUS
  <2>1. IType
    BY InitIInv DEF IInv
  <2> QED
    BY <2>1 DEF Init, ScanInv, PassedAreListed, ThreatsAreAhead, ScanMissesNoThreat
<1>2. ScanInv /\ [Next]_vars => ScanInv'
  BY NextKeepsScanInv
<1>3. ScanInv => ScanMissesNoThreat
  BY DEF ScanInv
<1> QED
  BY <1>1, <1>2, <1>3, PTL DEF Spec

=============================================================================
