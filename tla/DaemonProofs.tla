----------------------------- MODULE DaemonProofs -----------------------------
(***************************************************************************)
(* One daemon at a time, and only it is signalled, for any number of       *)
(* commands, pids and processes: commands may be killed at any step and    *)
(* pids given away again.                                                  *)
(***************************************************************************)
EXTENDS Daemon, TLAPS

\* What the PID file and the command that holds the lock say of the processes.
FileTrue ==
  /\ pidFile.identity \in Processes => kind[pidFile.identity] = "daemon"
  /\ pidFile.identity = Any => \A k \in Processes : kind[k] # "daemon"
HolderTrue ==
  \A c \in Commands :
    /\ command[c].at \in {"spawn", "check"} => pidFile = NoFile
    /\ At(c, "check") =>
         LET f == command[c].file
         IN /\ f.pid \in Pids /\ f.identity \in Processes /\ kind[f.identity] = "daemon"
            /\ Alive(f.identity) => who[f.pid] = f.identity
    /\ At(c, "waiting") => command[c].file = pidFile /\ pidFile # NoFile
DaemonsTracked ==
  \A k \in Processes : kind[k] = "daemon" /\ Alive(k) /\ k \notin orphans => Tracked(k)
Signals == OnlyDaemonSignalled /\ \A s \in signalled : s[1] \in Processes
DaemonInv == TypeOK /\ FileTrue /\ HolderTrue /\ DaemonsTracked /\ Signals

Inside == {"starting", "spawn", "check", "stopping", "waiting"}

LEMMA FileTypes ==
  /\ NoFile \in Files /\ \A p \in Pids, k \in Processes : [pid |-> p, identity |-> k] \in Files
  /\ \A f \in Files : /\ f # NoFile => f.pid \in Pids /\ f.identity \in Processes \cup {Any}
                      /\ f.identity \in Processes \cup {Any} => f # NoFile
  /\ Any \notin Processes /\ 0 \notin Processes /\ Any # 0
  BY DaemonConstants DEF NoFile, Files, Any, Processes

\* A file that matches names a connector that runs; one that does not names no daemon.
LEMMA Matched ==
  ASSUME TypeOK, FileTrue
  PROVE  /\ Matches(pidFile) => /\ pidFile # NoFile /\ who[pidFile.pid] \in Processes
                                /\ kind[who[pidFile.pid]] \in {"daemon", "foreground"}
                                /\ pidFile.identity \in {Any, who[pidFile.pid]}
         /\ ~Matches(pidFile) /\ pidFile.identity \in Processes => who[pidFile.pid] # pidFile.identity
<1> USE DaemonConstants, FileTypes
<1>1. ASSUME Matches(pidFile)
      PROVE  /\ pidFile # NoFile /\ who[pidFile.pid] \in Processes
             /\ kind[who[pidFile.pid]] \in {"daemon", "foreground"}
             /\ pidFile.identity \in {Any, who[pidFile.pid]}
  BY <1>1 DEF Matches, Identity, TypeOK, NoFile
<1>2. ASSUME ~Matches(pidFile), pidFile.identity \in Processes, who[pidFile.pid] = pidFile.identity
      PROVE  FALSE
  BY <1>2 DEF Matches, Identity, TypeOK, FileTrue
<1>3. QED
  BY <1>1, <1>2

\* A step that leaves the processes alone and does not touch the file, or removes a
\* file that no longer matches, keeps what the daemons rely on.
LEMMA FileLeft ==
  ASSUME TypeOK, FileTrue, DaemonsTracked,
         UNCHANGED <<who, kind, orphans>>,
         pidFile' = pidFile \/ (pidFile' = NoFile /\ ~Matches(pidFile)),
         \A c \in Commands : At(c, "check") => At(c, "check")' /\ command'[c].file = command[c].file
  PROVE  FileTrue' /\ DaemonsTracked'
<1>1. FileTrue'
  BY FileTypes DEF FileTrue, NoFile
<1>2. ASSUME NEW k \in Processes, kind'[k] = "daemon", Alive(k)', k \notin orphans' PROVE Tracked(k)'
  <2>1. Alive(k) /\ Tracked(k)
    BY <1>2 DEF Alive, DaemonsTracked
  <2>2. CASE \E c \in Commands : At(c, "check") /\ command[c].file.identity = k
    BY <2>2 DEF Tracked
  <2>3. CASE pidFile.identity = k /\ who[pidFile.pid] = k
    BY <2>3, Matched DEF Tracked
  <2>4. QED
    BY <2>1, <2>2, <2>3 DEF Tracked
<1>3. QED
  BY <1>1, <1>2 DEF DaemonsTracked

\* While a command holds the lock, the others are outside.
LEMMA Alone ==
  ASSUME TypeOK, NEW c \in Commands, command[c].at \in Inside \/ lock = None
  PROVE  \A d \in Commands \ {c} : command[d].at \notin Inside
  BY DaemonConstants DEF TypeOK, Inside

\* A command moves to a place, and keeps the lock or its absence, takes it, or releases it.
MovesTo(c, at) ==
  /\ command' \in [Commands -> [at : Places, op : Ops \cup {None}, file : Files]]
  /\ command'[c].at = at /\ \A d \in Commands \ {c} : command'[d] = command[d]
Locked == lock' \in Commands \cup {None} /\ \A d \in Commands : lock' = d <=> command'[d].at \in Inside

LEMMA KeepsLock ==
  ASSUME TypeOK, NEW c \in Commands, NEW at, MovesTo(c, at),
         \/ lock' = lock /\ (command[c].at \in Inside <=> at \in Inside)
         \/ lock = None /\ lock' = c /\ at \in Inside
         \/ lock = c /\ lock' = None /\ at \notin Inside
  PROVE  Locked
<1>1. lock \in Commands \cup {None} /\ \A d \in Commands : lock = d <=> command[d].at \in Inside
  BY DEF TypeOK, Inside
<1>2. QED
  BY <1>1, DaemonConstants DEF MovesTo, Locked

LEMMA Moves ==
  ASSUME TypeOK, NEW c \in Commands, NEW place \in Places, Go(c, place)
  PROVE  MovesTo(c, place) /\ command'[c].file = command[c].file
  BY DEF TypeOK, Go, MovesTo

LEMMA MovesWith ==
  ASSUME TypeOK, NEW c \in Commands, NEW place \in Places, NEW op \in Ops, NEW file \in Files,
         \/ command' = [command EXCEPT ![c].at = place, ![c].op = op]
         \/ command' = [command EXCEPT ![c].at = place, ![c].file = file]
  PROVE  /\ MovesTo(c, place)
         /\ command' = [command EXCEPT ![c].at = place, ![c].file = file] => command'[c].file = file
<1> DEFINE half == [command EXCEPT ![c].at = place]
<1>1. /\ half \in [Commands -> [at : Places, op : Ops \cup {None}, file : Files]] /\ half[c].at = place
      /\ \A d \in Commands \ {c} : half[d] = command[d]
  BY DEF TypeOK
<1>2. command' = [half EXCEPT ![c].op = op] \/ command' = [half EXCEPT ![c].file = file]
  OBVIOUS
<1>3. command' = [command EXCEPT ![c].at = place, ![c].file = file] => command' = [half EXCEPT ![c].file = file]
  OBVIOUS
<1> HIDE DEF half
<1>4. QED
  BY <1>1, <1>2, <1>3 DEF MovesTo

\* stop and the first half of restart release the lock, and so does a command that is done.
LEMMA Leaves ==
  ASSUME TypeOK, NEW c \in Commands, lock = c, Done(c) \/ Stopped(c)
  PROVE  \E at \in Places \ Inside : MovesTo(c, at) /\ lock' = None
<1>1. \E at \in Places \ Inside : Go(c, at) /\ lock' = None
  BY DEF Done, Stopped, Places, Inside
<1>2. QED
  BY <1>1, Moves

\* The steps of a command that neither spawn nor end a process.
QuietStep(c) ==
  Acquire(c) \/ Start(c) \/ Check(c) \/ Stop(c) \/ Gone(c) \/ Killed(c) \/ \E op \in Ops : Invoke(c, op)

LEMMA QuietMoves ==
  ASSUME TypeOK, HolderTrue, NEW c \in Commands, QuietStep(c)
  PROVE  Locked /\ pidFile' \in Files /\ \E at \in Places : MovesTo(c, at)
<1> USE DaemonConstants, FileTypes DEF At
<1>a. command[c] \in [at : Places, op : Ops \cup {None}, file : Files] /\ pidFile \in Files
  BY DEF TypeOK
<1>b. lock = c <=> command[c].at \in Inside
  BY DEF TypeOK, Inside
<1>1. CASE \E op \in Ops : Invoke(c, op)
  <2>1. PICK op \in Ops : Invoke(c, op)
    BY <1>1
  <2>2. PICK at \in {"start", "stop"} : command' = [command EXCEPT ![c].at = at, ![c].op = op]
    BY <2>1 DEF Invoke
  <2>3. MovesTo(c, at)
    <3>1. op \in Ops /\ at \in Places
      BY <2>1, <2>2 DEF Places
    <3>2. QED
      BY <1>a, <2>2, <3>1, MovesWith
  <2>4. lock' = lock /\ pidFile' = pidFile /\ command[c].at = "new"
    BY <2>1 DEF Invoke
  <2>5. QED
    BY <1>a, <2>2, <2>3, <2>4, KeepsLock DEF Inside, Places
<1>2. CASE Acquire(c)
  <2>1. PICK at \in {"starting", "stopping"} : Go(c, at) /\ lock = None /\ lock' = c /\ pidFile' = pidFile
    BY <1>2 DEF Acquire, Lock
  <2>2. MovesTo(c, at)
    BY <2>1, Moves DEF Places
  <2>3. QED
    BY <1>a, <2>1, <2>2, KeepsLock DEF Inside, Places
<1>3. CASE Start(c) \/ Check(c) \/ Stop(c) \/ Gone(c)
  <2>1. lock = c /\ pidFile' \in Files
    BY <1>3, <1>a, <1>b DEF Start, Check, Stop, Gone, Inside
  <2>2. CASE Done(c) \/ Stopped(c)
    BY <2>1, <2>2, Leaves, KeepsLock
  <2>3. CASE Start(c) /\ Go(c, "spawn") /\ lock' = lock
    <3>1. MovesTo(c, "spawn")
      BY <2>3, Moves DEF Places
    <3>2. QED
      BY <1>b, <2>1, <2>3, <3>1, KeepsLock DEF Inside, Places
  <2>4. CASE lock' = lock /\ command' = [command EXCEPT ![c].at = "waiting", ![c].file = pidFile]
    <3>1. MovesTo(c, "waiting")
      <4>1. "start" \in Ops /\ "waiting" \in Places
        BY DEF Ops, Places
      <4>2. QED
        BY <1>a, <2>4, <4>1, MovesWith
    <3>2. QED
      BY <1>b, <2>1, <2>4, <3>1, KeepsLock DEF Inside, Places
  <2>5. QED
    BY <1>3, <2>2, <2>3, <2>4 DEF Start, Check, Stop, Gone
<1>4. CASE Killed(c)
  <2>1. MovesTo(c, "done") /\ pidFile' = pidFile /\ lock' = IF lock = c THEN None ELSE lock
    BY <1>4, Moves DEF Killed, Places
  <2>2. Locked
    <3>1. CASE lock = c
      BY <2>1, <3>1, KeepsLock DEF Inside
    <3>2. CASE lock # c
      BY <1>b, <2>1, <3>2, KeepsLock DEF Inside
    <3>3. QED
      BY <3>1, <3>2
  <2>3. QED
    BY <1>a, <2>1, <2>2 DEF Places
<1>5. QED
  BY <1>1, <1>2, <1>3, <1>4 DEF QuietStep

LEMMA QuietTypes ==
  ASSUME TypeOK, HolderTrue, NEW c \in Commands, QuietStep(c)
  PROVE  TypeOK'
<1>1. UNCHANGED <<who, kind>>
  BY DEF QuietStep, Acquire, Start, Check, Stop, Gone, Killed, Invoke
<1>2. Locked /\ pidFile' \in Files /\ command' \in [Commands -> [at : Places, op : Ops \cup {None}, file : Files]]
  BY QuietMoves DEF MovesTo
<1>3. \A d \in Commands : (lock' = d) = (command'[d].at \in Inside)
  BY <1>2 DEF Locked
<1>4. QED
  BY <1>1, <1>2, <1>3 DEF TypeOK, Locked, Inside

LEMMA QuietKeeps ==
  ASSUME DaemonInv, NEW c \in Commands, QuietStep(c)
  PROVE  DaemonInv'
<1> USE DaemonConstants, FileTypes DEF At
<1>1. TypeOK /\ FileTrue /\ HolderTrue /\ DaemonsTracked /\ Signals /\ TypeOK'
  BY QuietTypes DEF DaemonInv
<1>2. /\ \A d \in Commands \ {c} : command'[d] = command[d]
      /\ UNCHANGED <<who, kind>>
      /\ lock = c <=> command[c].at \in Inside
  BY <1>1, QuietMoves DEF MovesTo, QuietStep, Acquire, Start, Check, Stop, Gone, Killed, Invoke, TypeOK, Inside
<1>3. CASE Start(c) \/ Stop(c) \/ Gone(c)
  <2>1. UNCHANGED orphans /\ command[c].at \in Inside \ {"check"}
    BY <1>3 DEF Start, Stop, Gone, Inside
  <2>2. pidFile' = pidFile \/ (pidFile' = NoFile /\ ~Matches(pidFile))
    BY <1>1, <1>3 DEF Start, Stop, Gone, HolderTrue
  <2>3. FileTrue' /\ DaemonsTracked'
    BY <1>1, <1>2, <2>1, <2>2, FileLeft
  <2>4. \A d \in Commands \ {c} : command[d].at \notin Inside
    BY <1>1, <2>1, Alone
  <2>5. /\ command'[c].at # "check"
        /\ command'[c].at = "spawn" => pidFile' = NoFile
        /\ command'[c].at = "waiting" => command'[c].file = pidFile' /\ pidFile' # NoFile
    BY <1>1, <1>3, Matched DEF Start, Stop, Gone, Done, Stopped, Go, TypeOK
  <2>6. HolderTrue'
    BY <1>2, <2>4, <2>5 DEF HolderTrue, Inside
  <2>7. Signals'
    <3>1. CASE signalled' = signalled
      BY <1>1, <1>2, <3>1 DEF Signals, OnlyDaemonSignalled
    <3>2. CASE Matches(pidFile) /\ signalled' = signalled \cup {<<who[pidFile.pid], pidFile.identity>>}
      BY <1>1, <1>2, <3>2, Matched DEF Signals, OnlyDaemonSignalled, FileTrue
    <3>3. QED
      BY <1>3, <3>1, <3>2 DEF Start, Stop, Gone, Signal
  <2>8. QED
    BY <1>1, <2>3, <2>6, <2>7 DEF DaemonInv
<1>4. CASE Check(c)
  <2>1. \A d \in Commands \ {c} : command[d].at \notin Inside
    BY <1>1, <1>4, Alone DEF Check, Inside
  <2>2. /\ command'[c].at = "done" /\ UNCHANGED <<signalled, orphans>>
        /\ pidFile = NoFile
        /\ pidFile' = IF who[command[c].file.pid] = command[c].file.identity THEN command[c].file ELSE pidFile
    BY <1>1, <1>4 DEF Check, Done, Go, TypeOK, HolderTrue
  <2>3. /\ command[c].file.pid \in Pids /\ command[c].file.identity \in Processes
        /\ kind[command[c].file.identity] = "daemon"
        /\ Alive(command[c].file.identity) => who[command[c].file.pid] = command[c].file.identity
    BY <1>1, <1>4 DEF Check, HolderTrue
  <2>4. FileTrue'
    BY <1>1, <1>2, <2>2, <2>3 DEF FileTrue, NoFile
  <2>5. HolderTrue'
    BY <1>2, <2>1, <2>2 DEF HolderTrue, Inside
  <2>6. DaemonsTracked'
    <3>1. ASSUME NEW k \in Processes, kind'[k] = "daemon", Alive(k)', k \notin orphans' PROVE Tracked(k)'
      <4>1. Alive(k) /\ kind[k] = "daemon" /\ k \notin orphans
        BY <1>2, <2>2, <3>1 DEF Alive
      <4>2. Tracked(k) /\ pidFile.identity # k
        BY <1>1, <2>2, <4>1 DEF DaemonsTracked, NoFile
      <4>3. command[c].file.identity = k
        BY <2>1, <4>2 DEF Tracked, Inside
      <4>4. QED
        BY <1>2, <2>2, <2>3, <4>1, <4>3 DEF Tracked
    <3>2. QED
      BY <3>1 DEF DaemonsTracked
  <2>7. Signals'
    BY <1>1, <1>2, <2>2 DEF Signals, OnlyDaemonSignalled
  <2>8. QED
    BY <1>1, <2>4, <2>5, <2>6, <2>7 DEF DaemonInv
<1>5. CASE Killed(c)
  <2>1. /\ command'[c].at = "done" /\ UNCHANGED <<pidFile, signalled>>
        /\ orphans' = orphans \cup {k \in Processes : At(c, "check") /\ command[c].file.identity = k}
    BY <1>1, <1>5 DEF Killed, Go, TypeOK
  <2>2. FileTrue' /\ HolderTrue' /\ Signals'
    BY <1>1, <1>2, <2>1 DEF FileTrue, HolderTrue, Signals, OnlyDaemonSignalled, Alive
  <2>3. DaemonsTracked'
    <3>1. ASSUME NEW k \in Processes, kind'[k] = "daemon", Alive(k)', k \notin orphans' PROVE Tracked(k)'
      <4>1. Tracked(k) /\ ~(At(c, "check") /\ command[c].file.identity = k)
        BY <1>1, <1>2, <2>1, <3>1 DEF DaemonsTracked, Alive
      <4>2. QED
        BY <1>2, <2>1, <4>1 DEF Tracked
    <3>2. QED
      BY <3>1 DEF DaemonsTracked
  <2>4. QED
    BY <1>1, <2>2, <2>3 DEF DaemonInv
<1>6. CASE Acquire(c) \/ \E op \in Ops : Invoke(c, op)
  <2>1. /\ UNCHANGED <<pidFile, orphans, signalled>>
        /\ command[c].at \notin Inside /\ command'[c].at \in {"start", "stop", "starting", "stopping"}
    <3>1. CASE Acquire(c)
      BY <1>1, <3>1 DEF Acquire, Lock, Go, TypeOK, Inside
    <3>2. CASE \E op \in Ops : Invoke(c, op)
      <4>1. PICK op \in Ops, at \in {"start", "stop"} :
              Invoke(c, op) /\ command' = [command EXCEPT ![c].at = at, ![c].op = op]
        BY <3>2 DEF Invoke
      <4>2. command'[c].at = at
        BY <1>1, <4>1, MovesWith DEF Places, MovesTo
      <4>3. QED
        BY <4>1, <4>2 DEF Invoke, Inside
    <3>3. QED
      BY <1>6, <3>1, <3>2
  <2>2. FileTrue' /\ DaemonsTracked'
    BY <1>1, <1>2, <2>1, FileLeft DEF Inside
  <2>3. HolderTrue' /\ Signals'
    BY <1>1, <1>2, <2>1 DEF HolderTrue, Signals, OnlyDaemonSignalled, Alive
  <2>4. QED
    BY <1>1, <2>2, <2>3 DEF DaemonInv
<1>7. QED
  BY <1>3, <1>4, <1>5, <1>6 DEF QuietStep

\* The steps by which processes come and go.
LEMMA SpawnKeeps ==
  ASSUME DaemonInv, NEW c \in Commands, Spawn(c)
  PROVE  DaemonInv'
<1> USE DaemonConstants, FileTypes DEF At
<1>1. TypeOK /\ FileTrue /\ HolderTrue /\ DaemonsTracked /\ Signals
  BY DEF DaemonInv
<1>2. /\ command[c].at = "spawn" /\ lock = c /\ pidFile = NoFile /\ UNCHANGED <<pidFile, signalled, orphans>>
      /\ \A d \in Commands \ {c} : command[d].at \notin Inside
  BY <1>1, Alone DEF Spawn, HolderTrue, TypeOK, Inside
<1>3. \A k \in Processes : kind[k] = "daemon" => ~Alive(k) \/ k \in orphans
  <2>1. ASSUME NEW k \in Processes, Tracked(k) PROVE FALSE
    BY <1>2, <2>1 DEF Tracked, Inside, NoFile
  <2>2. QED
    BY <1>1, <2>1 DEF DaemonsTracked
<1>4. CASE Done(c) /\ UNCHANGED <<who, kind>>
  <2>1. MovesTo(c, "done") /\ lock' = None
    BY <1>1, <1>4, Moves DEF Done, Places
  <2>2. Locked
    BY <1>1, <1>2, <2>1, KeepsLock DEF Inside
  <2>3. TypeOK'
    <3>1. \A d \in Commands : (lock' = d) = (command'[d].at \in Inside)
      BY <2>2 DEF Locked
    <3>2. QED
      BY <1>1, <1>2, <1>4, <2>1, <2>2, <3>1 DEF TypeOK, Locked, MovesTo, Inside
  <2>4. FileTrue' /\ HolderTrue' /\ Signals'
    BY <1>1, <1>2, <1>4, <2>1 DEF FileTrue, HolderTrue, Signals, OnlyDaemonSignalled, MovesTo, Alive, Inside
  <2>5. DaemonsTracked'
    BY <1>2, <1>3, <1>4 DEF DaemonsTracked, Alive
  <2>6. QED
    BY <2>3, <2>4, <2>5 DEF DaemonInv
<1>5. CASE \E p \in Pids, k \in Processes :
             /\ Spawned(p, k, "daemon") /\ UNCHANGED lock
             /\ command' = [command EXCEPT ![c].at = "check", ![c].file = [pid |-> p, identity |-> k]]
  <2>1. PICK p \in Pids, k \in Processes :
             /\ Spawned(p, k, "daemon") /\ UNCHANGED lock
             /\ command' = [command EXCEPT ![c].at = "check", ![c].file = [pid |-> p, identity |-> k]]
    BY <1>5
  <2>2. /\ who[p] = 0 /\ kind[k] = None /\ who' = [who EXCEPT ![p] = k] /\ kind' = [kind EXCEPT ![k] = "daemon"]
    BY <2>1 DEF Spawned
  <2>3. /\ MovesTo(c, "check") /\ command'[c].file = [pid |-> p, identity |-> k]
    <3>1. "start" \in Ops /\ "check" \in Places /\ [pid |-> p, identity |-> k] \in Files
      BY DEF Ops, Places
    <3>2. QED
      BY <1>1, <2>1, <3>1, MovesWith
  <2>4. \A q \in Pids : who[q] # k
    BY <1>1, <2>2 DEF TypeOK, Kinds, None
  <2>5. TypeOK'
    <3>1. Locked
      BY <1>1, <1>2, <2>1, <2>3, KeepsLock DEF Inside
    <3>2. \A d \in Commands : (lock' = d) = (command'[d].at \in Inside)
      BY <3>1 DEF Locked
    <3>3. /\ who' \in [Pids -> Processes \cup {0}] /\ kind' \in [Processes -> Kinds \cup {None}]
          /\ \A x, y \in Pids : who'[x] = who'[y] /\ who'[x] # 0 => x = y
          /\ \A x \in Pids : who'[x] # 0 => kind'[who'[x]] \in Kinds
      BY <1>1, <2>2, <2>4 DEF TypeOK, Kinds
    <3>4. QED
      BY <1>1, <1>2, <2>3, <3>1, <3>2, <3>3 DEF TypeOK, Locked, MovesTo, Inside
  <2>6. FileTrue'
    BY <1>2 DEF FileTrue, NoFile
  <2>7. HolderTrue'
    BY <1>1, <1>2, <2>2, <2>3 DEF HolderTrue, MovesTo, Alive, TypeOK, Inside
  <2>8. DaemonsTracked'
    <3>1. ASSUME NEW j \in Processes, kind'[j] = "daemon", Alive(j)', j \notin orphans' PROVE Tracked(j)'
      <4>1. CASE j = k
        BY <2>3, <4>1 DEF Tracked, MovesTo
      <4>2. CASE j # k
        BY <1>1, <1>2, <1>3, <2>2, <3>1, <4>2 DEF Alive, TypeOK
      <4>3. QED
        BY <4>1, <4>2
    <3>2. QED
      BY <3>1 DEF DaemonsTracked
  <2>9. Signals'
    BY <1>1, <1>2, <2>2 DEF Signals, OnlyDaemonSignalled, TypeOK
  <2>10. QED
    BY <2>5, <2>6, <2>7, <2>8, <2>9 DEF DaemonInv
<1>6. QED
  BY <1>4, <1>5 DEF Spawn

LEMMA KillKeeps ==
  ASSUME DaemonInv, NEW c \in Commands, Kill(c)
  PROVE  DaemonInv'
<1> USE DaemonConstants, FileTypes DEF At
<1>1. TypeOK /\ FileTrue /\ HolderTrue /\ DaemonsTracked /\ Signals
  BY DEF DaemonInv
<1>2. /\ command[c].at = "waiting" /\ lock = c /\ command[c].file = pidFile /\ Matches(pidFile)
      /\ pidFile' = NoFile /\ who' = [who EXCEPT ![pidFile.pid] = 0] /\ UNCHANGED <<kind, orphans>>
      /\ signalled' = signalled \cup {<<who[pidFile.pid], pidFile.identity>>}
      /\ \A d \in Commands \ {c} : command[d].at \notin Inside
  BY <1>1, Alone DEF Kill, Signal, HolderTrue, TypeOK, Inside
<1>3. PICK at \in Places \ Inside : MovesTo(c, at) /\ lock' = None
  BY <1>1, <1>2, Leaves DEF Kill
<1>4. TypeOK'
  <2>1. Locked
    BY <1>1, <1>2, <1>3, KeepsLock
  <2>2. \A d \in Commands : (lock' = d) = (command'[d].at \in Inside)
    BY <2>1 DEF Locked
  <2>3. pidFile.pid \in Pids
    BY <1>1, <1>2, Matched DEF TypeOK
  <2>4. /\ who' \in [Pids -> Processes \cup {0}]
        /\ \A x, y \in Pids : who'[x] = who'[y] /\ who'[x] # 0 => x = y
        /\ \A x \in Pids : who'[x] # 0 => kind[who'[x]] \in Kinds
    BY <1>1, <1>2, <2>3 DEF TypeOK
  <2>5. QED
    BY <1>1, <1>2, <1>3, <2>1, <2>2, <2>4 DEF TypeOK, Locked, MovesTo, Inside
<1>5. FileTrue' /\ HolderTrue'
  BY <1>2, <1>3 DEF FileTrue, HolderTrue, NoFile, MovesTo, Inside
<1>6. DaemonsTracked'
  <2>1. ASSUME NEW k \in Processes, kind'[k] = "daemon", Alive(k)', k \notin orphans' PROVE FALSE
    <3>1. Alive(k) /\ Tracked(k) /\ ~(pidFile.identity = k /\ who[pidFile.pid] = k)
      <4>1. PICK p \in Pids : who'[p] = k
        BY <2>1 DEF Alive
      <4>2. p # pidFile.pid /\ who[p] = k
        BY <1>1, <1>2, <4>1 DEF TypeOK
      <4>3. pidFile.pid \in Pids
        BY <1>1, <1>2, Matched DEF TypeOK
      <4>4. QED
        BY <1>1, <1>2, <2>1, <4>2, <4>3 DEF Alive, DaemonsTracked, TypeOK
    <3>2. QED
      BY <1>2, <3>1 DEF Tracked, Inside
  <2>2. QED
    BY <2>1 DEF DaemonsTracked
<1>7. Signals'
  BY <1>1, <1>2, Matched DEF Signals, OnlyDaemonSignalled, FileTrue
<1>8. QED
  BY <1>4, <1>5, <1>6, <1>7 DEF DaemonInv

LEMMA SystemKeeps ==
  ASSUME DaemonInv, NEW p \in Pids, Ends(p) \/ Other(p)
  PROVE  DaemonInv'
<1> USE DaemonConstants, FileTypes DEF At
<1>1. TypeOK /\ FileTrue /\ HolderTrue /\ DaemonsTracked /\ Signals
  BY DEF DaemonInv
<1>2. UNCHANGED <<command, lock, pidFile, signalled, orphans>>
  BY DEF Ends, Other
<1>3. PICK j \in Processes \cup {0} :
        /\ who' = [who EXCEPT ![p] = j]
        /\ \/ j = 0 /\ kind' = kind
           \/ /\ j # 0 /\ who[p] = 0 /\ kind[j] = None
              /\ \E as \in {"foreground", "other"} : kind' = [kind EXCEPT ![j] = as]
  BY DEF Ends, Other, Spawned
<1>4. /\ \A k \in Processes : kind'[k] = "daemon" <=> kind[k] = "daemon"
      /\ \A k \in Processes : kind[k] # None => kind'[k] = kind[k]
      /\ kind' \in [Processes -> Kinds \cup {None}]
  BY <1>1, <1>3 DEF TypeOK, Kinds, None
<1>5. \A k \in Processes, q \in Pids : kind[k] # None => (who'[q] = k <=> who[q] = k /\ (q # p \/ j # 0))
  BY <1>1, <1>3 DEF TypeOK
<1>6. \A q \in Pids : who[q] # 0 => who[q] # j
  BY <1>1, <1>3 DEF TypeOK, Kinds, None
<1>7. TypeOK'
  BY <1>1, <1>2, <1>3, <1>4, <1>6 DEF TypeOK, Kinds
<1>8. FileTrue'
  BY <1>1, <1>2, <1>4 DEF FileTrue
<1>9. \A k \in Processes, q \in Pids : kind[k] = "daemon" /\ Alive(k)' /\ who[q] = k => who'[q] = k
  <2>1. ASSUME NEW k \in Processes, NEW q \in Pids, kind[k] = "daemon", Alive(k)', who[q] = k PROVE who'[q] = k
    <3>1. PICK x \in Pids : who'[x] = k
      BY <2>1 DEF Alive
    <3>2. who[x] = k
      BY <1>5, <2>1, <3>1 DEF None
    <3>3. x = q
      BY <1>1, <2>1, <3>2 DEF TypeOK
    <3>4. QED
      BY <3>1, <3>3
  <2>2. QED
    BY <2>1
<1>10. \A k \in Processes : kind[k] = "daemon" /\ Alive(k)' => Alive(k)
  BY <1>5 DEF Alive, None
<1>11. HolderTrue'
  BY <1>1, <1>2, <1>4, <1>9, <1>10 DEF HolderTrue
<1>12. DaemonsTracked'
  <2>1. ASSUME NEW k \in Processes, kind'[k] = "daemon", Alive(k)', k \notin orphans' PROVE Tracked(k)'
    <3>1. Tracked(k)
      BY <1>1, <1>2, <1>4, <1>10, <2>1 DEF DaemonsTracked
    <3>2. pidFile.identity = k => pidFile.pid \in Pids
      BY <1>1 DEF TypeOK
    <3>3. QED
      BY <1>2, <1>4, <1>9, <2>1, <3>1, <3>2 DEF Tracked
  <2>2. QED
    BY <2>1 DEF DaemonsTracked
<1>13. Signals'
  <2>1. ASSUME NEW s \in signalled PROVE kind'[s[1]] = kind[s[1]]
    BY <1>1, <1>3, <2>1 DEF Signals, OnlyDaemonSignalled, TypeOK, None
  <2>2. QED
    BY <1>1, <1>2, <2>1 DEF Signals, OnlyDaemonSignalled
<1>14. QED
  BY <1>7, <1>8, <1>11, <1>12, <1>13 DEF DaemonInv

LEMMA DaemonInit == ASSUME Init PROVE DaemonInv
<1> USE DaemonConstants, FileTypes DEF Init, NewCommand
<1>1. TypeOK
  <2>1. /\ pidFile \in Files /\ command \in [Commands -> [at : Places, op : Ops \cup {None}, file : Files]]
        /\ who \in [Pids -> Processes \cup {0}] /\ kind \in [Processes -> Kinds \cup {None}]
    BY DEF Files, Places
  <2>2. \A c \in Commands : (lock = c) = FALSE /\ (command[c].at \in Inside) = FALSE
    BY DEF Inside
  <2>3. QED
    BY <2>1, <2>2 DEF TypeOK, Inside
<1>2. FileTrue /\ DaemonsTracked /\ Signals
  BY DEF FileTrue, DaemonsTracked, Signals, OnlyDaemonSignalled, None, Any, Files, NoFile, Alive
<1>3. HolderTrue
  BY DEF HolderTrue, At
<1>4. QED
  BY <1>1, <1>2, <1>3 DEF DaemonInv

LEMMA DaemonStep == DaemonInv /\ [Next]_vars => DaemonInv'
<1>1. ASSUME DaemonInv, UNCHANGED vars PROVE DaemonInv'
  BY <1>1 DEF vars, DaemonInv, TypeOK, FileTrue, HolderTrue, DaemonsTracked, Signals, OnlyDaemonSignalled, Tracked, Alive, At
<1>2. ASSUME DaemonInv, Next PROVE DaemonInv'
  BY <1>2, QuietKeeps, SpawnKeeps, KillKeeps, SystemKeeps DEF Next, Command, QuietStep
<1>3. QED
  BY <1>1, <1>2

LEMMA OneAtATime == DaemonInv => OneDaemon
<1> SUFFICES ASSUME DaemonInv PROVE OneDaemon
  OBVIOUS
<1>1. TypeOK /\ HolderTrue /\ DaemonsTracked
  BY DEF DaemonInv
<1>2. ASSUME NEW j \in Processes, NEW k \in Processes, Tracked(j), Tracked(k) PROVE j = k
  <2>1. \A c, d \in Commands : At(c, "check") /\ At(d, "check") => c = d
    BY <1>1, Alone DEF At, Inside
  <2>2. \A c \in Commands : At(c, "check") => pidFile.identity \notin Processes
    BY <1>1, FileTypes DEF At, HolderTrue, NoFile
  <2>3. QED
    BY <1>2, <2>1, <2>2 DEF Tracked
<1>3. QED
  BY <1>1, <1>2 DEF OneDaemon, DaemonsTracked

\* At most one daemon runs and the PID file, or the start that still watches it, leads
\* to it, unless a start was killed before it wrote the file (daemon.py:190-212).
THEOREM OneDaemonRuns == Spec => []OneDaemon
  BY DaemonInit, DaemonStep, OneAtATime, PTL DEF Spec

\* SIGTERM and SIGKILL go only to the process that start recorded, or for a file without
\* a fingerprint to a connector, whoever has its pid by now (daemon.py:214-262).
THEOREM SignalsReachDaemon == Spec => []OnlyDaemonSignalled
<1>1. DaemonInv => OnlyDaemonSignalled
  BY DEF DaemonInv, Signals
<1>2. QED
  BY <1>1, DaemonInit, DaemonStep, PTL DEF Spec
==============================================================================
