---------------------------- MODULE Installation -----------------------------
(***************************************************************************)
(* Managed installations (install.py): install and rollback, serialised by *)
(* a file lock, move the symlinks current and previous between             *)
(* environments, and an install ends by removing what is no longer used.   *)
(* Any of these commands may die at any point, connectors start from       *)
(* current and stop at any time.                                           *)
(*                                                                         *)
(* An environment is free (no directory), being built, or ready: verified, *)
(* with the record botsdock-install.json.  Both links are replaced by      *)
(* atomic renames.                                                         *)
(***************************************************************************)
EXTENDS Naturals

CONSTANTS Commands,       \* processes that install or roll back
          Envs,           \* environments, reused once free
          HomeIsLink,     \* the home directory is reached through a symlink
          LateInterrupt   \* an interrupt may come between the switch and the end of the try block

None == "none"

ASSUME InstallConstants ==
  /\ None \notin Commands \cup Envs /\ HomeIsLink \in BOOLEAN /\ LateInterrupt \in BOOLEAN

VARIABLES
  envs,      \* per environment: "free", "building" or "ready"
  current,   \* target of the symlink current
  previous,  \* target of the symlink previous
  lock,      \* holder of install.lock
  pc,        \* per command: how far it is
  env,       \* per command: the environment it installs or rolls back to
  seen,      \* per command: the environments in the output of ps
  running    \* environments that connectors run from

links == <<current, previous>>
local == <<pc, env, seen>>
vars  == <<envs, links, lock, local, running>>

Ready == {e \in Envs : envs[e] = "ready"}

Init ==
  /\ envs = [e \in Envs |-> "free"] /\ current = None /\ previous = None /\ lock = None
  /\ pc = [c \in Commands |-> "idle"] /\ env = [c \in Commands |-> None]
  /\ seen = [c \in Commands |-> {}] /\ running = {}
------------------------------------------------------------------------------
(* install()                                                               *)

\* A second command is refused, it does not wait.
Acquire(c) == pc[c] = "idle" /\ lock = None /\ lock' = c

\* The command ends, by itself or because it died: the lock goes with the process.
Release(c) ==
  /\ lock' = IF lock = c THEN None ELSE lock
  /\ pc' = [pc EXCEPT ![c] = "idle"] /\ env' = [env EXCEPT ![c] = None]
  /\ seen' = [seen EXCEPT ![c] = {}]

BeginInstall(c) ==
  /\ Acquire(c)
  /\ \E e \in Envs :
       /\ envs[e] = "free" /\ envs' = [envs EXCEPT ![e] = "building"]
       /\ env' = [env EXCEPT ![c] = e]
  /\ pc' = [pc EXCEPT ![c] = "building"]
  /\ UNCHANGED <<links, seen, running>>

\* venv, pip and verify succeed and the record is written.
Build(c) ==
  /\ pc[c] = "building"
  /\ envs' = [envs EXCEPT ![env[c]] = "ready"]
  /\ pc' = [pc EXCEPT ![c] = "built"]
  /\ UNCHANGED <<links, lock, env, seen, running>>

SetPrevious(c) ==
  /\ pc[c] = "built"
  /\ previous' = IF current # None THEN current ELSE previous
  /\ pc' = [pc EXCEPT ![c] = "linking"]
  /\ UNCHANGED <<envs, current, lock, env, seen, running>>

\* Variant: current is switched before previous is.
SetCurrentFirst(c) ==
  /\ pc[c] \in {"built", "linking"}
  /\ current' = env[c]
  /\ pc' = [pc EXCEPT ![c] = "switched"]
  /\ UNCHANGED <<envs, previous, lock, env, seen, running>>

SetCurrent(c) ==
  /\ pc[c] = "linking"
  /\ current' = env[c]
  /\ pc' = [pc EXCEPT ![c] = "switched"]
  /\ UNCHANGED <<envs, previous, lock, env, seen, running>>

\* Any exception, an interrupt included, removes the new environment.
Fails(c) ==
  /\ pc[c] \in {"building", "built", "linking"} \/ (pc[c] = "switched" /\ LateInterrupt)
  /\ envs' = [envs EXCEPT ![env[c]] = "free"]
  /\ Release(c)
  /\ UNCHANGED <<links, running>>
------------------------------------------------------------------------------
(* cleanup_environments()                                                  *)

\* Variant: only the current environment is kept.
KeptCurrent == IF HomeIsLink THEN {} ELSE {current}

\* The paths that glob yields go through the home directory as it is written; those
\* of the links are resolved, and differ when the home directory is a symlink.
Kept == IF HomeIsLink THEN {} ELSE {current, previous}

\* Variant: the environments in use are not looked for.
ReadProcessesNot(c) ==
  /\ pc[c] = "switched"
  /\ pc' = [pc EXCEPT ![c] = "cleaning"] /\ seen' = [seen EXCEPT ![c] = {}]
  /\ UNCHANGED <<envs, links, lock, env, running>>

ReadProcesses(c) ==
  /\ pc[c] = "switched"
  /\ pc' = [pc EXCEPT ![c] = "cleaning"] /\ seen' = [seen EXCEPT ![c] = running]
  /\ UNCHANGED <<envs, links, lock, env, running>>

Unused(c) == {e \in Ready : e \notin Kept \cup seen[c]}

Remove(c) ==
  /\ pc[c] = "cleaning"
  /\ \E e \in Unused(c) : envs' = [envs EXCEPT ![e] = "free"]
  /\ UNCHANGED <<links, lock, local, running>>

\* The command ends; without the output of ps nothing is removed, and what cannot be
\* removed is left.
Finish(c) ==
  /\ pc[c] \in {"switched", "cleaning"}
  /\ Release(c)
  /\ UNCHANGED <<envs, links, running>>
------------------------------------------------------------------------------
(* rollback(), and everything else that happens                            *)

BeginRollback(c) ==
  /\ previous \in Envs /\ envs[previous] # "free"
  /\ Acquire(c)
  /\ env' = [env EXCEPT ![c] = previous]
  /\ pc' = [pc EXCEPT ![c] = "checking"]
  /\ UNCHANGED <<envs, links, seen, running>>

\* verify passes only an environment that works; otherwise the command fails.
RollBack(c) ==
  /\ pc[c] = "checking"
  /\ current' = IF envs[env[c]] = "ready" THEN env[c] ELSE current
  /\ Release(c)
  /\ UNCHANGED <<envs, previous, running>>

Dies(c) ==
  /\ pc[c] # "idle"
  /\ Release(c)
  /\ UNCHANGED <<envs, links, running>>

StartConnector ==
  /\ current \in Ready
  /\ running' = running \cup {current}
  /\ UNCHANGED <<envs, links, lock, local>>

StopConnector ==
  /\ \E e \in running : running' = running \ {e}
  /\ UNCHANGED <<envs, links, lock, local>>
------------------------------------------------------------------------------
Install(c) == BeginInstall(c) \/ Build(c) \/ SetPrevious(c) \/ SetCurrent(c) \/ Fails(c)
Cleanup(c) == ReadProcesses(c) \/ Remove(c) \/ Finish(c)
Other(c)   == BeginRollback(c) \/ RollBack(c) \/ Dies(c)

Next == StartConnector \/ StopConnector \/ \E c \in Commands : Install(c) \/ Cleanup(c) \/ Other(c)

Spec == Init /\ [][Next]_vars
------------------------------------------------------------------------------
(* Properties                                                              *)

\* The values the variables take; a command under way holds the lock and has an environment.
TypeOK ==
  /\ \A c \in Commands : pc[c] # "idle" => lock = c /\ env[c] \in Envs
  /\ envs \in [Envs -> {"free", "building", "ready"}]
  /\ current \in Envs \cup {None} /\ previous \in Envs \cup {None}
  /\ lock \in Commands \cup {None}
  /\ pc \in [Commands -> {"idle", "building", "built", "linking", "switched", "cleaning", "checking"}]
  /\ env \in [Commands -> Envs \cup {None}]
  /\ seen \in [Commands -> SUBSET Envs] /\ running \subseteq Envs

\* Whatever dies or fails, and whenever, the links lead to environments that work
\* (README: a failure leaves the old entry untouched, the previous one is retained).
LinksUsable == {current, previous} \subseteq Ready \cup {None}

\* Environments that connectors run from are never removed (README: managed upgrades
\* keep current, previous and still-running environments).
RunningKept == running \subseteq Ready

\* Whoever is switched away from an environment can go back to it, or has just gone back.
WayBack == [][current' # current /\ current # None => previous' \in {current, current'}]_links

\* README.md:270-273: "Managed upgrades keep current, previous and still-running
\* environments; unused older environments are removed after a successful upgrade."
CurrentKept == current # None => current \in Ready
==============================================================================
