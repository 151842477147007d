------------------------------- MODULE Daemon -------------------------------
(***************************************************************************)
(* start, stop and restart of the background connector (daemon.py): a lock *)
(* that serializes the commands, a PID file with a fingerprint of the      *)
(* process, and processes whose pid the system may give away again.  A     *)
(* command may be killed at any step and then releases the lock.           *)
(*                                                                         *)
(* A process is a number, unique for its lifetime: it stands for the       *)
(* fingerprint (start time and command line) that ps shows.  A pid is not  *)
(* given to another process between ps and the kill that follows it.       *)
(***************************************************************************)
EXTENDS Naturals, FiniteSets

CONSTANTS Commands,      \* command invocations
          Pids,          \* pids
          MaxProcesses,  \* bound on processes
          Legacy         \* the PID file may be of a version without fingerprints

None      == "none"
Processes == 1..MaxProcesses
Kinds     == {"daemon", "foreground", "other"}
Ops       == {"start", "stop", "restart"}
NoFile    == [pid |-> None, identity |-> 0]
Any       == MaxProcesses + 1    \* the identity of a file without a fingerprint
Files     == {NoFile} \cup [pid : Pids, identity : Processes \cup {Any}]
Places    == {"new", "start", "stop", "starting", "spawn", "check", "stopping", "waiting", "done"}
NewCommand == [at |-> "new", op |-> None, file |-> NoFile]

ASSUME DaemonConstants == None \notin Pids \cup Commands /\ MaxProcesses \in Nat /\ Legacy \in BOOLEAN

VARIABLES
  command,    \* per command: where it is, what it does, the PID file it read
  lock,       \* the command that holds connector-lifecycle.lock
  pidFile,    \* the PID file
  who,        \* per pid: its process, or 0
  kind,       \* per process: what it is
  stopping,   \* processes that got SIGTERM
  signalled,  \* processes that got a signal, with the fingerprint that was looked for
  orphans     \* daemons whose start was killed before it wrote the PID file

vars == <<command, lock, pidFile, who, kind, stopping, signalled, orphans>>

Init ==
  /\ command = [c \in Commands |-> NewCommand] /\ lock = None
  /\ pidFile \in {NoFile} \cup (IF Legacy THEN [pid : Pids, identity : {Any}] ELSE {})
  /\ who = [p \in Pids |-> 0] /\ kind = [k \in Processes |-> None]
  /\ stopping = {} /\ signalled = {} /\ orphans = {}

Alive(k) == \E p \in Pids : who[p] = k

\* _process_identity: nothing for what is no connector.
Identity(p) ==
  IF p \in Pids /\ who[p] # 0 /\ kind[who[p]] \in {"daemon", "foreground"} THEN who[p] ELSE 0

\* Variant: a live connector under the pid is enough.
MatchesPid(file) == Identity(file.pid) # 0

\* _matches_process: the fingerprint is that of the file, if it has one.
Matches(file) == Identity(file.pid) # 0 /\ file.identity \in {Any, Identity(file.pid)}

At(c, place) == command[c].at = place
Go(c, place) == command' = [command EXCEPT ![c].at = place]
Done(c) == Go(c, "done") /\ lock' = None

Spawned(p, k, as) ==
  /\ who[p] = 0 /\ kind[k] = None /\ \A j \in 1..(k - 1) : kind[j] # None
  /\ who' = [who EXCEPT ![p] = k] /\ kind' = [kind EXCEPT ![k] = as]
------------------------------------------------------------------------------
Invoke(c, op) ==
  /\ At(c, "new")
  /\ command' = [command EXCEPT ![c].at = IF op = "start" THEN "start" ELSE "stop", ![c].op = op]
  /\ UNCHANGED <<lock, pidFile, who, kind, stopping, signalled, orphans>>

\* flock, which blocks.
Lock(c, from, to) == At(c, from) /\ lock = None /\ lock' = c /\ Go(c, to)

Acquire(c) ==
  /\ Lock(c, "start", "starting") \/ Lock(c, "stop", "stopping")
  /\ UNCHANGED <<pidFile, who, kind, stopping, signalled, orphans>>

\* Variant: the PID file is not looked at.
StartAnyway(c) ==
  /\ At(c, "starting") /\ pidFile' = NoFile /\ Go(c, "spawn")
  /\ UNCHANGED <<lock, who, kind, stopping, signalled, orphans>>

\* _daemon_start: refused while the daemon of the PID file runs; a stale file is removed.
Start(c) ==
  /\ At(c, "starting")
  /\ \/ Matches(pidFile) /\ Done(c) /\ UNCHANGED pidFile
     \/ ~Matches(pidFile) /\ pidFile' = NoFile /\ Go(c, "spawn") /\ UNCHANGED lock
  /\ UNCHANGED <<who, kind, stopping, signalled, orphans>>

\* The configuration is refused, or the child is spawned.
Spawn(c) ==
  /\ At(c, "spawn")
  /\ \/ Done(c) /\ UNCHANGED <<who, kind>>
     \/ \E p \in Pids, k \in Processes :
          /\ Spawned(p, k, "daemon")
          /\ command' = [command EXCEPT ![c].at = "check", ![c].file = [pid |-> p, identity |-> k]]
          /\ UNCHANGED lock
  /\ UNCHANGED <<pidFile, stopping, signalled, orphans>>

\* After a pause: the child has ended, or its pid and fingerprint are written.
Check(c) ==
  /\ At(c, "check")
  /\ pidFile' = IF who[command[c].file.pid] = command[c].file.identity
                THEN command[c].file ELSE pidFile
  /\ Done(c)
  /\ UNCHANGED <<who, kind, stopping, signalled, orphans>>
------------------------------------------------------------------------------
\* restart goes on with start whatever stop did; the lock is free in between.
Stopped(c) ==
  \/ command[c].op = "stop" /\ Done(c)
  \/ command[c].op = "restart" /\ Go(c, "start") /\ lock' = None

Signal(file) == signalled' = signalled \cup {<<who[file.pid], file.identity>>}

\* _daemon_stop: no PID file; a file of no live daemon, which is removed; or SIGTERM.
Stop(c) ==
  /\ At(c, "stopping")
  /\ \/ pidFile = NoFile /\ Stopped(c) /\ UNCHANGED <<pidFile, stopping, signalled>>
     \/ /\ pidFile # NoFile /\ ~Matches(pidFile)
        /\ pidFile' = NoFile /\ Stopped(c) /\ UNCHANGED <<stopping, signalled>>
     \/ /\ Matches(pidFile)
        /\ stopping' = stopping \cup {who[pidFile.pid]} /\ Signal(pidFile)
        /\ command' = [command EXCEPT ![c].at = "waiting", ![c].file = pidFile]
        /\ UNCHANGED <<lock, pidFile>>
  /\ UNCHANGED <<who, kind, orphans>>

\* A poll finds the process gone.
Gone(c) ==
  /\ At(c, "waiting") /\ ~Matches(command[c].file)
  /\ pidFile' = NoFile /\ Stopped(c)
  /\ UNCHANGED <<who, kind, stopping, signalled, orphans>>

\* Variant: the wait has no end and no SIGKILL.
WaitOn(c) == At(c, "waiting") /\ Matches(command[c].file) /\ UNCHANGED vars

\* It is still there when the time is over: SIGKILL.
Kill(c) ==
  /\ At(c, "waiting") /\ Matches(command[c].file)
  /\ who' = [who EXCEPT ![command[c].file.pid] = 0] /\ Signal(command[c].file)
  /\ pidFile' = NoFile /\ Stopped(c)
  /\ UNCHANGED <<kind, stopping, orphans>>
------------------------------------------------------------------------------
(* The system                                                              *)

\* A command is killed; the kernel releases its lock.
Killed(c) ==
  /\ command[c].at \notin {"new", "done"} /\ Go(c, "done")
  /\ lock' = IF lock = c THEN None ELSE lock
  /\ orphans' = orphans \cup {k \in Processes : At(c, "check") /\ command[c].file.identity = k}
  /\ UNCHANGED <<pidFile, who, kind, stopping, signalled>>

\* A process ends, by itself or on SIGTERM.
Ends(p) ==
  /\ who[p] # 0 /\ who' = [who EXCEPT ![p] = 0]
  /\ UNCHANGED <<command, lock, pidFile, kind, stopping, signalled, orphans>>

\* A pid goes to some other process, perhaps a connector in the foreground.
Other(p) ==
  /\ \E k \in Processes, as \in {"foreground", "other"} : Spawned(p, k, as)
  /\ UNCHANGED <<command, lock, pidFile, stopping, signalled, orphans>>

Command(c) ==
  Acquire(c) \/ Start(c) \/ Spawn(c) \/ Check(c) \/ Stop(c) \/ Gone(c) \/ Kill(c)

Next ==
  \/ \E c \in Commands, op \in Ops : Invoke(c, op)
  \/ \E c \in Commands : Command(c) \/ Killed(c)
  \/ \E p \in Pids : Ends(p) \/ Other(p)

Spec == Init /\ [][Next]_vars

\* A command that runs goes on, and a free lock is given to those that wait for it.
LiveSpec == Spec /\ \A c \in Commands : WF_vars(Command(c)) /\ SF_vars(Acquire(c))
------------------------------------------------------------------------------
(* Properties                                                              *)

\* One command at a time is past the lock, and processes have one pid each.
TypeOK ==
  /\ lock \in Commands \cup {None}
  /\ \A c \in Commands :
       (lock = c) = (command[c].at \in {"starting", "spawn", "check", "stopping", "waiting"})
  /\ command \in [Commands -> [at : Places, op : Ops \cup {None}, file : Files]]
  /\ pidFile \in Files
  /\ who \in [Pids -> Processes \cup {0}] /\ kind \in [Processes -> Kinds \cup {None}]
  /\ \A p, q \in Pids : who[p] = who[q] /\ who[p] # 0 => p = q
  /\ \A p \in Pids : who[p] # 0 => kind[who[p]] \in Kinds

\* There is one daemon at most, and stop finds it: every live daemon is that of the PID
\* file or of a start that still watches it, unless the start was killed before it wrote
\* the file (daemon.py:190-212).  A stop that removes the file leaves none.
Tracked(k) == \/ pidFile.identity = k /\ who[pidFile.pid] = k
              \/ \E c \in Commands : At(c, "check") /\ command[c].file.identity = k
OneDaemon ==
  /\ \A k \in Processes : kind[k] = "daemon" /\ Alive(k) /\ k \notin orphans => Tracked(k)
  /\ \A j, k \in Processes : Alive(j) /\ Alive(k) /\ Tracked(j) /\ Tracked(k) => j = k

\* Only the daemon that start recorded is signalled, whoever has its pid by now; a file
\* without a fingerprint may lead to a connector in the foreground (README.md:270-271).
OnlyDaemonSignalled ==
  \A s \in signalled : \/ kind[s[1]] = "daemon"
                       \/ s[2] = Any /\ kind[s[1]] = "foreground"

\* Every command comes to an end, though others hold the lock and daemons ignore SIGTERM.
CommandsEnd == \A c \in Commands : ~At(c, "new") ~> At(c, "done")
==============================================================================
