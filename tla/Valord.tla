------------------------------- MODULE Valord -------------------------------
(***************************************************************************)
(* The daemon valord (valord/src/valor.c, process.c) beside the processes  *)
(* it watches.  Each scan of /proc is many steps: processes start, end and *)
(* change their image between any two of them, and a PID may pass to       *)
(* another process between the moment it is read, judged and killed.       *)
(***************************************************************************)
EXTENDS Database

CONSTANTS
  Pids,             \* process identifiers, in the order /proc lists them
  Self,             \* the daemon's own
  Protected,        \* PIDs that kill(pid, 9) does not end: init, or EPERM
  Images,           \* what processes run: cmdline, the bytes at the head of
                    \* /proc/PID/cmdline, and exe, what /proc/PID/exe leads to
  CommMax,          \* bytes fgets reads at most: 255
  Newline,
  Digest,           \* Digest[exe]: the fuzzy digest, if exe can be read
  LoadedDatabases,  \* what database_read may yield
  MATCH_THRESHOLD,
  MaxProcesses      \* bound on the processes that ever start

VARIABLES
  procs,          \* the process each PID stands for, or NoProcess
  started,        \* number of processes started so far
  pc,             \* what the daemon does next
  db,             \* its database
  need_shutdown,
  cursor,         \* the directory entry readdir returned last
  processes,      \* the array get_processes fills
  i,              \* index into it
  sigterm,        \* history: SIGTERM was received
  present,        \* history: PIDs whose process has been there, with the same
                  \* image, since the scan began
  suspects,       \* history: the processes that ever matched the database
  culprit         \* history: the process whose name or digest leads to the
                  \* kill that is due, or Nobody

kernel == <<procs, started>>
daemon == <<pc, db, need_shutdown, cursor, processes, i>>
history == <<sigterm, present, suspects, culprit>>
vars == <<procs, started, pc, db, need_shutdown, cursor, processes, i,
          sigterm, present, suspects, culprit>>

-----------------------------------------------------------------------------
\* A process is told from another that had its PID by its number.
NoProcess == [id |-> 0, cmdline |-> <<>>, exe |-> "none"]

Process(id, image) ==
  [id |-> id, cmdline |-> image.cmdline, exe |-> image.exe]

Processes == { Process(id, image) : id \in 1 .. MaxProcesses, image \in Images }

Alive(pid) == procs[pid] # NoProcess

\* history: who proc is, as the process of pid.
Identity(pid, proc) == <<pid, proc.id>>

Nobody == <<0, 0>>

Identities == Pids \X (1 .. MaxProcesses)

\* get_process_comm: of the at most CommMax bytes that fgets reads, those
\* before a newline or a NUL.  A command line may begin with one.
get_process_comm(cmdline) ==
  LET Fits(n) ==
        n <= CommMax /\ \A k \in 1 .. n : cmdline[k] \notin {Newline, 0}
      n == CHOOSE n \in 0 .. Len(cmdline) :
             Fits(n) /\ \A m \in n + 1 .. Len(cmdline) : ~Fits(m)
  IN  SubSeq(cmdline, 1, n)

ASSUME ValordAssumption ==
  /\ Pids \subseteq Nat \ {0}
  /\ Self \in Pids
  /\ Protected \subseteq Pids
  /\ CommMax \in Nat \ {0}
  /\ \A image \in Images :
       image.cmdline # <<>> => get_process_comm(image.cmdline) \in Strings
  /\ "none" \notin DOMAIN Digest
  /\ \A exe \in DOMAIN Digest : Digest[exe] \in Buffers
  /\ \A loaded \in LoadedDatabases : ~IsEmpty(loaded.hash_tree)
  /\ MATCH_THRESHOLD \in Nat
  /\ MaxProcesses \in Nat \ {0}

\* No name is found without capacity: the lookup does not come back.
NameMatches(proc, aDb) ==
  /\ proc.cmdline # <<>>
  /\ aDb.modulo # 0
  /\ stringset_check(aDb.name_set, get_process_comm(proc.cmdline))

Score(exe, aDb) ==
  edt_get_distance_to_existing(aDb.hash_tree, pad_hash_digest(Digest[exe]))

HashMatches(proc, aDb) ==
  proc.exe \in DOMAIN Digest /\ Score(proc.exe, aDb) < MATCH_THRESHOLD

Matches(proc, aDb) == NameMatches(proc, aDb) \/ HashMatches(proc, aDb)

Init ==
  /\ \E image \in Images :
       procs = [pid \in Pids |->
                  IF pid = Self THEN Process(1, image) ELSE NoProcess]
  /\ started = 1
  /\ pc = "start"
  /\ db = create_database(0)
  /\ need_shutdown = FALSE
  /\ cursor = 0
  /\ processes = <<>>
  /\ i = 1
  /\ sigterm = FALSE
  /\ present = {}
  /\ suspects = {}
  /\ culprit = Nobody

-----------------------------------------------------------------------------
(***************************************************************************)
(* The rest of the system, for as long as there is a daemon                *)
(***************************************************************************)

Ended == pc \in {"failed", "lost", "killed", "stopped"}

Running == pc # "start" /\ ~Ended

\* history: proc is the process of pid from now on.
Becomes(pid, proc) ==
  /\ procs' = [procs EXCEPT ![pid] = proc]
  /\ present' = present \ {pid}
  /\ suspects' = IF ~IsEmpty(db.hash_tree) /\ Matches(proc, db)
                 THEN suspects \cup {Identity(pid, proc)} ELSE suspects

Spawn(pid, image) ==
  /\ ~Ended
  /\ ~Alive(pid)
  /\ started < MaxProcesses
  /\ started' = started + 1
  /\ Becomes(pid, Process(started + 1, image))
  /\ UNCHANGED <<daemon, sigterm, culprit>>

Exec(pid, image) ==
  /\ ~Ended
  /\ Alive(pid)
  /\ pid # Self
  /\ Becomes(pid, Process(procs[pid].id, image))
  /\ UNCHANGED <<started, daemon, sigterm, culprit>>

Exit(pid) ==
  /\ ~Ended
  /\ Alive(pid)
  /\ pid # Self
  /\ procs' = [procs EXCEPT ![pid] = NoProcess]
  /\ present' = present \ {pid}
  /\ UNCHANGED <<started, daemon, sigterm, suspects, culprit>>

-----------------------------------------------------------------------------
(***************************************************************************)
(* The daemon                                                              *)
(***************************************************************************)

\* sigterm_handler(signum), registered for SIGTERM alone.  It cuts sleep short.
Sigterm ==
  LET signum == "SIGTERM" IN
  /\ Running
  /\ need_shutdown' = IF signum # "SIGTERM" THEN TRUE ELSE need_shutdown
  /\ pc' = IF pc = "sleep" THEN "loop" ELSE pc
  /\ sigterm' = TRUE
  /\ UNCHANGED <<kernel, db, cursor, processes, i, present, suspects, culprit>>

\* Registering the handler or opening the database fails.
StartFails ==
  /\ pc = "start"
  /\ pc' = "failed"
  /\ UNCHANGED <<kernel, db, need_shutdown, cursor, processes, i, history>>

Start ==
  /\ pc = "start"
  /\ pc' = "loop"
  /\ db' \in LoadedDatabases
  /\ suspects' = { Identity(pid, procs[pid]) : pid \in
                     { pid \in Pids : Alive(pid) /\ Matches(procs[pid], db') } }
  /\ UNCHANGED <<kernel, need_shutdown, cursor, processes, i,
                 sigterm, present, culprit>>

\* The head of the loop and the beginning of get_processes.
Loop ==
  /\ pc = "loop"
  /\ pc' = IF need_shutdown THEN "stopped" ELSE "readdir"
  /\ cursor' = 0
  /\ processes' = <<>>
  /\ present' = { pid \in Pids : Alive(pid) }
  /\ UNCHANGED <<kernel, db, need_shutdown, i, sigterm, suspects, culprit>>

OpendirFails ==
  /\ pc = "loop"
  /\ ~need_shutdown
  /\ pc' = "failed"
  /\ UNCHANGED <<kernel, db, need_shutdown, cursor, processes, i, history>>

IsNextEntryAny(pid) ==
  /\ Alive(pid)
  /\ pid > cursor

IsNextEntry(pid) ==
  /\ Alive(pid)
  /\ pid > cursor
  /\ \A other \in Pids : Alive(other) /\ other > cursor => pid <= other

ReaddirThenFromZero ==
  /\ pc = "readdir"
  /\ \/ \E pid \in Pids :
          /\ IsNextEntry(pid)
          /\ cursor' = pid
          /\ pc' = "get_process"
          /\ UNCHANGED i
     \/ /\ \A pid \in Pids : Alive(pid) => pid <= cursor
        /\ pc' = "judge"
        /\ i' = 0
        /\ cursor' = 0
  /\ UNCHANGED <<kernel, db, need_shutdown, processes, history>>

\* readdir: the next PID that stands for a process now, or the end.
Readdir ==
  /\ pc = "readdir"
  /\ \/ \E pid \in Pids :
          /\ IsNextEntry(pid)
          /\ cursor' = pid
          /\ pc' = "get_process"
          /\ UNCHANGED i
     \/ /\ \A pid \in Pids : Alive(pid) => pid <= cursor
        /\ pc' = "judge"
        /\ i' = 1
        /\ cursor' = 0
  /\ UNCHANGED <<kernel, db, need_shutdown, processes, history>>

\* get_process: skips a process that is gone or of whose command line fgets
\* reads nothing.
GetProcess ==
  /\ pc = "get_process"
  /\ pc' = "readdir"
  /\ processes' =
       IF Alive(cursor) /\ procs[cursor].cmdline # <<>>
       THEN Append(processes,
                   [pid  |-> cursor,
                    comm |-> get_process_comm(procs[cursor].cmdline),
                    id   |-> procs[cursor].id])
       ELSE processes
  /\ UNCHANGED <<kernel, db, need_shutdown, cursor, i, history>>

\* database_check_name does not come back: it divides by a capacity of 0 or
\* follows the wild pointer of a node.
LookupGetsLost(comm) ==
  db.modulo # 0 => CheckGetsLost(db.name_set, comm)

\* The check by name of the i-th process.
Judge ==
  /\ pc = "judge"
  /\ i <= Len(processes)
  /\ LET proc == processes[i] IN
     \/ /\ LookupGetsLost(proc.comm)
        /\ pc' = "lost"
        /\ UNCHANGED culprit
     \/ /\ ~LookupGetsLost(proc.comm)
        /\ stringset_check(db.name_set, proc.comm)
        /\ pc' = "kill"
        /\ culprit' = <<proc.pid, proc.id>>
     \/ /\ ~LookupGetsLost(proc.comm)
        /\ ~stringset_check(db.name_set, proc.comm)
        /\ pc' = "hash"
        /\ UNCHANGED culprit
  /\ UNCHANGED <<kernel, db, need_shutdown, cursor, processes, i,
                 sigterm, present, suspects>>

HashExeUnchecked ==
  /\ pc = "hash"
  /\ LET pid  == processes[i].pid
         proc == procs[pid] IN
     IF proc.exe \notin DOMAIN Digest \/ HashMatches(proc, db)
     THEN pc' = "kill" /\ culprit' = Identity(pid, proc) /\ UNCHANGED i
     ELSE pc' = "judge" /\ i' = i + 1 /\ UNCHANGED culprit
  /\ UNCHANGED <<kernel, db, need_shutdown, cursor, processes,
                 sigterm, present, suspects>>

HashExeAgain ==
  /\ pc = "hash"
  /\ LET pid  == processes[i].pid
         proc == procs[pid] IN
     IF HashMatches(proc, db)
     THEN pc' = "kill" /\ culprit' = Identity(pid, proc) /\ UNCHANGED i
     ELSE pc' = "judge" /\ UNCHANGED <<i, culprit>>
  /\ UNCHANGED <<kernel, db, need_shutdown, cursor, processes,
                 sigterm, present, suspects>>

\* The check by digest, of the executable the PID leads to now.
HashExe ==
  /\ pc = "hash"
  /\ LET pid  == processes[i].pid
         proc == procs[pid] IN
     IF HashMatches(proc, db)
     THEN pc' = "kill" /\ culprit' = Identity(pid, proc) /\ UNCHANGED i
     ELSE pc' = "judge" /\ i' = i + 1 /\ UNCHANGED culprit
  /\ UNCHANGED <<kernel, db, need_shutdown, cursor, processes,
                 sigterm, present, suspects>>

Victim == processes[i].pid

Killable(pid) == Alive(pid) /\ pid \notin Protected

\* kill(proc.pid, 9), on whatever process the PID stands for now.
Kill ==
  /\ pc = "kill"
  /\ IF Killable(Victim)
     THEN /\ procs' = [procs EXCEPT ![Victim] = NoProcess]
          /\ present' = present \ {Victim}
          /\ pc' = IF Victim = Self THEN "killed" ELSE "judge"
     ELSE /\ UNCHANGED <<procs, present>>
          /\ pc' = "judge"
  /\ i' = i + 1
  /\ culprit' = Nobody
  /\ UNCHANGED <<started, db, need_shutdown, cursor, processes,
                 sigterm, suspects>>

\* The end of the for loop, free_process_array and the beginning of sleep.
EndScan ==
  /\ pc = "judge"
  /\ i > Len(processes)
  /\ pc' = "sleep"
  /\ processes' = <<>>
  /\ UNCHANGED <<kernel, db, need_shutdown, cursor, i, history>>

Wake ==
  /\ pc = "sleep"
  /\ pc' = "loop"
  /\ UNCHANGED <<kernel, db, need_shutdown, cursor, processes, i, history>>

Daemon ==
  \/ Start \/ Loop \/ Readdir \/ GetProcess
  \/ Judge \/ HashExe \/ Kill \/ EndScan \/ Wake

Next ==
  \/ Daemon
  \/ StartFails \/ OpendirFails \/ Sigterm
  \/ \E pid \in Pids, image \in Images : Spawn(pid, image) \/ Exec(pid, image)
  \/ \E pid \in Pids : Exit(pid)

\* The daemon is scheduled, its calls and its sleep come back.
Fairness == WF_vars(Daemon)

Spec == Init /\ [][Next]_vars /\ Fairness

-----------------------------------------------------------------------------
(***************************************************************************)
(* Properties                                                              *)
(***************************************************************************)

Entries == [pid : Pids, comm : Strings, id : 1 .. MaxProcesses]

TypeOK ==
  /\ procs \in [Pids -> Processes \cup {NoProcess}]
  /\ started \in 1 .. MaxProcesses
  /\ pc \in {"start", "loop", "readdir", "get_process", "judge", "hash",
             "kill", "sleep", "failed", "lost", "killed", "stopped"}
  /\ need_shutdown \in BOOLEAN
  /\ cursor \in Pids \cup {0}
  /\ processes \in Seq(Entries)
  /\ i \in Nat \ {0}
  /\ sigterm \in BOOLEAN
  /\ present \subseteq Pids
  /\ suspects \subseteq Identities
  /\ culprit \in Identities \cup {Nobody}

\* A process that never matched the database is killed only when it has the PID
\* of an earlier process that did and was judged (valor.c:63-88).
InnocentKilledOnlyByReuse ==
  [][pc = "kill" =>
       \A pid \in Pids :
         (Alive(pid) /\ procs'[pid] = NoProcess /\ i' # i) =>
           \/ Identity(pid, procs[pid]) \in suspects
           \/ /\ culprit \in suspects
              /\ culprit[1] = pid
              /\ culprit[2] < procs[pid].id]_vars

\* What the daemon can recognise: it reads no executable where there is no
\* command line.
Detectable(proc) == proc.cmdline # <<>> /\ Matches(proc, db)

\* A process that matches the database from before a scan to its end, however
\* others come and go around it, is dead at its end, unless kill cannot end it
\* (valor.c:62-88, process.c:112-138).
ScanMissesNoThreat ==
  pc = "sleep" => \A pid \in present \ Protected : ~Detectable(procs[pid])

HasName(pid, id) ==
  Running /\ procs[pid].id = id /\ NameMatches(procs[pid], db)

HasExe(pid, id) ==
  /\ Running
  /\ procs[pid].id = id
  /\ procs[pid].cmdline # <<>>
  /\ HashMatches(procs[pid], db)

\* While the daemon runs, no process keeps a name or an executable that matches
\* (valor.c:58-91).  One that goes back and forth between the two may stay.
ThreatsEnd ==
  \A pid \in Pids \ Protected, id \in 1 .. MaxProcesses :
    /\ HasName(pid, id) ~> ~HasName(pid, id)
    /\ HasExe(pid, id) ~> ~HasExe(pid, id)

\* What the comment on need_shutdown says: SIGTERM sets it, and then the loop
\* ends (valor.c:24).
SigtermStops == sigterm ~> ~Running

=============================================================================
