------------------------------ MODULE HomeProofs ------------------------------
(***************************************************************************)
(* What the connector keeps in its home directory, for any number of       *)
(* commands and environments, of processes, machines, tokens and faults.   *)
(* Installations and running connectors survive every failure, provided    *)
(* the directory is no symlink and no interrupt comes after the switch;    *)
(* and, without these assumptions, whoever is switched away from an        *)
(* environment can go back.  A token that was saved stays saved, and the   *)
(* file can be read whenever a process dies, as long as no two saves       *)
(* overlap.                                                                *)
(***************************************************************************)
EXTENDS Installation, TokenStore, TLAPS

------------------------------------------------------------------------------
(* Installations                                                           *)

\* An environment that is not switched to yet is nobody else's; while a command
\* cleans up, connectors can only have started from current, which is kept.
OwnEnv ==
  \A c \in Commands :
    /\ pc[c] = "building" => envs[env[c]] = "building"
    /\ pc[c] \in {"built", "linking"} => /\ envs[env[c]] = "ready"
                                         /\ env[c] \notin {current, previous} \cup running
SeenEnough ==
  \A c \in Commands : pc[c] = "cleaning" => running \subseteq seen[c] \cup {current, previous}
InstallInv == TypeOK /\ LinksUsable /\ RunningKept /\ OwnEnv /\ SeenEnough

LEMMA Alone ==
  ASSUME TypeOK, NEW c \in Commands, lock = c \/ lock = None
  PROVE  \A d \in Commands \ {c} : pc[d] = "idle"
  BY InstallConstants DEF TypeOK

LEMMA ReleaseTypes ==
  ASSUME TypeOK, NEW c \in Commands, Release(c)
  PROVE  /\ pc' \in [Commands -> {"idle", "building", "built", "linking", "switched", "cleaning", "checking"}]
         /\ env' \in [Commands -> Envs \cup {None}] /\ seen' \in [Commands -> SUBSET Envs]
         /\ lock' \in Commands \cup {None}
         /\ \A d \in Commands : pc'[d] # "idle" => lock' = d /\ env'[d] \in Envs
         /\ pc'[c] = "idle" /\ \A d \in Commands \ {c} : pc'[d] = pc[d] /\ env'[d] = env[d] /\ seen'[d] = seen[d]
  BY InstallConstants DEF TypeOK, Release

LEMMA InstallStep ==
  ASSUME InstallInv, NEW c \in Commands, Install(c), ~LateInterrupt
  PROVE  InstallInv'
<1> USE InstallConstants DEF InstallInv
<1>1. CASE BeginInstall(c)
  <2>1. \A d \in Commands \ {c} : pc[d] = "idle"
    BY <1>1, Alone DEF BeginInstall, Acquire
  <2>2. PICK e \in Envs : /\ envs[e] = "free" /\ envs' = [envs EXCEPT ![e] = "building"]
                          /\ env' = [env EXCEPT ![c] = e]
    BY <1>1 DEF BeginInstall
  <2>3. /\ pc' = [pc EXCEPT ![c] = "building"] /\ lock' = c
        /\ UNCHANGED <<current, previous, seen, running>>
    BY <1>1 DEF BeginInstall, Acquire, links
  <2>4. TypeOK'
    BY <2>1, <2>2, <2>3 DEF TypeOK
  <2>5. LinksUsable' /\ RunningKept'
    BY <2>2, <2>3 DEF LinksUsable, RunningKept, Ready, TypeOK
  <2>6. OwnEnv' /\ SeenEnough'
    BY <2>1, <2>2, <2>3 DEF OwnEnv, SeenEnough, TypeOK
  <2>7. QED
    BY <2>4, <2>5, <2>6
<1>2. CASE Build(c)
  <2>1. \A d \in Commands \ {c} : pc[d] = "idle"
    BY <1>2, Alone DEF Build, TypeOK
  <2>2. /\ envs' = [envs EXCEPT ![env[c]] = "ready"] /\ pc' = [pc EXCEPT ![c] = "built"]
        /\ env[c] \in Envs /\ envs[env[c]] = "building"
        /\ UNCHANGED <<current, previous, lock, env, seen, running>>
    BY <1>2 DEF Build, links, TypeOK, OwnEnv
  <2>3. env[c] \notin {current, previous} \cup running
    BY <2>2 DEF LinksUsable, RunningKept, Ready, TypeOK
  <2>4. TypeOK'
    BY <1>2, <2>2 DEF Build, TypeOK
  <2>5. LinksUsable' /\ RunningKept'
    BY <2>2 DEF LinksUsable, RunningKept, Ready, TypeOK
  <2>6. OwnEnv' /\ SeenEnough'
    BY <2>1, <2>2, <2>3 DEF OwnEnv, SeenEnough, TypeOK
  <2>7. QED
    BY <2>4, <2>5, <2>6
<1>3. CASE SetPrevious(c) \/ SetCurrent(c)
  <2>1. \A d \in Commands \ {c} : pc[d] = "idle"
    BY <1>3, Alone DEF SetPrevious, SetCurrent, TypeOK
  <2>2. /\ env[c] \in Envs /\ envs[env[c]] = "ready" /\ env[c] \notin {current, previous} \cup running
        /\ UNCHANGED <<envs, lock, env, seen, running>>
    BY <1>3 DEF SetPrevious, SetCurrent, TypeOK, OwnEnv
  <2>3. \/ /\ pc' = [pc EXCEPT ![c] = "linking"] /\ current' = current /\ previous' \in {current, previous}
        \/ /\ pc' = [pc EXCEPT ![c] = "switched"] /\ current' = env[c] /\ previous' = previous
    BY <1>3 DEF SetPrevious, SetCurrent
  <2>4. TypeOK'
    BY <1>3, <2>2, <2>3 DEF SetPrevious, SetCurrent, TypeOK
  <2>5. LinksUsable' /\ RunningKept'
    BY <2>2, <2>3 DEF LinksUsable, RunningKept, Ready
  <2>6. OwnEnv' /\ SeenEnough'
    BY <2>1, <2>2, <2>3 DEF OwnEnv, SeenEnough, TypeOK
  <2>7. QED
    BY <2>4, <2>5, <2>6
<1>4. CASE Fails(c)
  <2>1. \A d \in Commands \ {c} : pc[d] = "idle"
    BY <1>4, Alone DEF Fails, TypeOK
  <2>2. /\ env[c] \in Envs /\ env[c] \notin {current, previous} \cup running
        /\ envs' = [envs EXCEPT ![env[c]] = "free"] /\ Release(c)
        /\ UNCHANGED <<current, previous, running>>
    BY <1>4 DEF Fails, TypeOK, OwnEnv, LinksUsable, RunningKept, Ready, links
  <2>3. TypeOK'
    BY <2>2, ReleaseTypes DEF TypeOK
  <2>4. LinksUsable' /\ RunningKept'
    BY <2>2 DEF LinksUsable, RunningKept, Ready, TypeOK
  <2>5. OwnEnv' /\ SeenEnough'
    BY <2>1, <2>2, ReleaseTypes DEF OwnEnv, SeenEnough
  <2>6. QED
    BY <2>3, <2>4, <2>5
<1>5. QED
  BY <1>1, <1>2, <1>3, <1>4 DEF Install

LEMMA CleanupStep ==
  ASSUME InstallInv, NEW c \in Commands, Cleanup(c), ~HomeIsLink
  PROVE  InstallInv'
<1> USE InstallConstants DEF InstallInv
<1>0. \A d \in Commands \ {c} : pc[d] = "idle"
  BY Alone DEF Cleanup, ReadProcesses, Remove, Finish, TypeOK
<1>1. CASE ReadProcesses(c)
  <2>1. /\ pc' = [pc EXCEPT ![c] = "cleaning"] /\ seen' = [seen EXCEPT ![c] = running]
        /\ UNCHANGED <<envs, current, previous, lock, env, running>>
    BY <1>1 DEF ReadProcesses, links
  <2>2. TypeOK'
    BY <1>1, <2>1 DEF ReadProcesses, TypeOK
  <2>3. QED
    BY <1>0, <2>1, <2>2 DEF LinksUsable, RunningKept, Ready, OwnEnv, SeenEnough, TypeOK
<1>2. CASE Remove(c)
  <2>1. PICK e \in Ready : /\ e \notin {current, previous} \cup seen[c]
                           /\ envs' = [envs EXCEPT ![e] = "free"]
    BY <1>2 DEF Remove, Unused, Kept
  <2>2. pc[c] = "cleaning" /\ UNCHANGED <<current, previous, lock, pc, env, seen, running>>
    BY <1>2 DEF Remove, links, local
  <2>3. e \notin running /\ e \in Envs
    BY <2>1, <2>2 DEF SeenEnough, Ready
  <2>4. TypeOK'
    BY <2>1, <2>2, <2>3 DEF TypeOK
  <2>5. LinksUsable' /\ RunningKept'
    BY <2>1, <2>2, <2>3 DEF LinksUsable, RunningKept, Ready, TypeOK
  <2>6. OwnEnv' /\ SeenEnough'
    BY <1>0, <2>1, <2>2 DEF OwnEnv, SeenEnough
  <2>7. QED
    BY <2>4, <2>5, <2>6
<1>3. CASE Finish(c)
  <2>1. Release(c) /\ UNCHANGED <<envs, current, previous, running>>
    BY <1>3 DEF Finish, links
  <2>2. TypeOK'
    BY <2>1, ReleaseTypes DEF TypeOK
  <2>3. QED
    BY <1>0, <2>1, <2>2, ReleaseTypes DEF LinksUsable, RunningKept, Ready, OwnEnv, SeenEnough
<1>4. QED
  BY <1>1, <1>2, <1>3 DEF Cleanup

LEMMA OtherStep ==
  ASSUME InstallInv, NEW c \in Commands, Other(c)
  PROVE  InstallInv'
<1> USE InstallConstants DEF InstallInv
<1>1. CASE BeginRollback(c)
  <2>1. \A d \in Commands \ {c} : pc[d] = "idle"
    BY <1>1, Alone DEF BeginRollback, Acquire
  <2>2. /\ pc' = [pc EXCEPT ![c] = "checking"] /\ lock' = c /\ env' = [env EXCEPT ![c] = previous]
        /\ previous \in Envs /\ UNCHANGED <<envs, current, previous, seen, running>>
    BY <1>1 DEF BeginRollback, Acquire, links
  <2>3. TypeOK'
    BY <2>1, <2>2 DEF TypeOK
  <2>4. QED
    BY <2>1, <2>2, <2>3 DEF LinksUsable, RunningKept, Ready, OwnEnv, SeenEnough, TypeOK
<1>2. CASE RollBack(c) \/ Dies(c)
  <2>1. \A d \in Commands \ {c} : pc[d] = "idle"
    BY <1>2, Alone DEF RollBack, Dies, TypeOK
  <2>2. /\ Release(c) /\ current' \in Ready \cup {current} /\ UNCHANGED <<envs, previous, running>>
    BY <1>2 DEF RollBack, Dies, links, Ready, TypeOK
  <2>3. TypeOK'
    BY <2>2, ReleaseTypes DEF TypeOK, Ready
  <2>4. LinksUsable' /\ RunningKept'
    BY <2>2 DEF LinksUsable, RunningKept, Ready
  <2>5. OwnEnv' /\ SeenEnough'
    BY <2>1, <2>2, ReleaseTypes DEF OwnEnv, SeenEnough
  <2>6. QED
    BY <2>3, <2>4, <2>5
<1>3. QED
  BY <1>1, <1>2 DEF Other

LEMMA InstallInvariant ==
  ASSUME ~HomeIsLink, ~LateInterrupt
  PROVE  Spec => []InstallInv
<1>1. Init => InstallInv
  BY InstallConstants DEF Init, InstallInv, TypeOK, LinksUsable, RunningKept, OwnEnv, SeenEnough, Ready
<1>2. InstallInv /\ [Next]_vars => InstallInv'
  <2> SUFFICES ASSUME InstallInv, [Next]_vars PROVE InstallInv'
    OBVIOUS
  <2>1. CASE StartConnector
    BY <2>1 DEF StartConnector, InstallInv, TypeOK, LinksUsable, RunningKept, OwnEnv, SeenEnough,
                Ready, links, local
  <2>2. CASE StopConnector
    BY <2>2 DEF StopConnector, InstallInv, TypeOK, LinksUsable, RunningKept, OwnEnv, SeenEnough,
                Ready, links, local
  <2>3. CASE UNCHANGED vars
    BY <2>3 DEF vars, InstallInv, TypeOK, LinksUsable, RunningKept, OwnEnv, SeenEnough, Ready, links, local
  <2>4. QED
    BY <2>1, <2>2, <2>3, InstallStep, CleanupStep, OtherStep DEF Next
<1>3. QED
  BY <1>1, <1>2, PTL DEF Spec

\* Whatever command fails or dies, and whenever, current and previous lead to working
\* environments (install.py _install, _rollback, cleanup_environments).
THEOREM InstallationsSurvive ==
  ASSUME ~HomeIsLink, ~LateInterrupt
  PROVE  Spec => []LinksUsable
<1>1. InstallInv => LinksUsable
  BY DEF InstallInv
<1>2. QED
  BY <1>1, InstallInvariant, PTL

\* No connector loses the environment it runs from, though commands remove others while
\* connectors start and stop (install.py:63-88).
THEOREM RunningSurvives ==
  ASSUME ~HomeIsLink, ~LateInterrupt
  PROVE  Spec => []RunningKept
<1>1. InstallInv => RunningKept
  BY DEF InstallInv
<1>2. QED
  BY <1>1, InstallInvariant, PTL
\* Types do not depend on the two assumptions.
LEMMA InstallTypes == TypeOK /\ [Next]_vars => TypeOK'
<1> SUFFICES ASSUME TypeOK, [Next]_vars PROVE TypeOK'
  OBVIOUS
<1>1. ASSUME NEW c \in Commands, BeginInstall(c) \/ BeginRollback(c) PROVE TypeOK'
  <2>1. \A d \in Commands \ {c} : pc[d] = "idle"
    BY <1>1, Alone DEF BeginInstall, BeginRollback, Acquire
  <2>2. QED
    BY <1>1, <2>1 DEF BeginInstall, BeginRollback, Acquire, TypeOK, links
<1>2. ASSUME NEW c \in Commands, Build(c) \/ SetPrevious(c) \/ SetCurrent(c) \/ ReadProcesses(c) \/ Remove(c)
      PROVE  TypeOK'
  BY <1>2 DEF Build, SetPrevious, SetCurrent, ReadProcesses, Remove, Unused, Ready, TypeOK, links, local
<1>3. ASSUME NEW c \in Commands, Fails(c) \/ Finish(c) \/ RollBack(c) \/ Dies(c) PROVE TypeOK'
  <2>1. /\ Release(c) /\ current' \in Envs \cup {None} /\ UNCHANGED <<previous, running>>
        /\ envs' \in [Envs -> {"free", "building", "ready"}]
    BY <1>3 DEF Fails, Finish, RollBack, Dies, TypeOK, links
  <2>2. QED
    BY <2>1, ReleaseTypes DEF TypeOK
<1>4. CASE StartConnector \/ StopConnector \/ UNCHANGED vars
  BY <1>4 DEF StartConnector, StopConnector, TypeOK, Ready, vars, links, local
<1>5. QED
  BY <1>1, <1>2, <1>3, <1>4 DEF Next, Install, Cleanup, Other

\* A command that is about to switch has noted what it switches away from.
Noted ==
  \A c \in Commands : /\ pc[c] = "linking" /\ current # None => previous = current
                      /\ pc[c] = "checking" => env[c] = previous

LEMMA NotedStep == TypeOK /\ Noted /\ [Next]_vars => Noted'
<1> SUFFICES ASSUME TypeOK, Noted, [Next]_vars PROVE Noted'
  OBVIOUS
<1>1. ASSUME NEW c \in Commands, Install(c) \/ Cleanup(c) \/ Other(c) PROVE Noted'
  <2>1. \A d \in Commands \ {c} : pc[d] = "idle"
    BY <1>1, Alone DEF Install, Cleanup, Other, BeginInstall, BeginRollback, Acquire, Build, SetPrevious, SetCurrent,
                       Fails, ReadProcesses, Remove, Finish, RollBack, Dies, TypeOK
  <2>2. \A d \in Commands \ {c} : pc'[d] = pc[d]
    BY <1>1 DEF Install, Cleanup, Other, BeginInstall, BeginRollback, Build, SetPrevious, SetCurrent,
                Fails, ReadProcesses, Remove, Finish, RollBack, Dies, Release, local, TypeOK
  <2>3. CASE Fails(c) \/ Finish(c) \/ RollBack(c) \/ Dies(c)
    <3>1. pc'[c] = "idle"
      BY <2>3, ReleaseTypes DEF Fails, Finish, RollBack, Dies
    <3>2. QED
      BY <2>1, <2>2, <3>1 DEF Noted
  <2>4. CASE BeginInstall(c) \/ Build(c) \/ SetCurrent(c) \/ ReadProcesses(c)
    <3>1. pc'[c] \in {"building", "built", "switched", "cleaning"}
      BY <2>4 DEF BeginInstall, Build, SetCurrent, ReadProcesses, TypeOK
    <3>2. QED
      BY <2>1, <2>2, <3>1 DEF Noted
  <2>5. CASE SetPrevious(c)
    <3>1. pc'[c] = "linking" /\ current' = current /\ (current # None => previous' = current)
      BY <2>5 DEF SetPrevious, TypeOK
    <3>2. QED
      BY <2>1, <2>2, <3>1 DEF Noted
  <2>6. CASE Remove(c)
    BY <2>6 DEF Remove, Noted, links, local
  <2>7. CASE BeginRollback(c)
    <3>1. pc'[c] = "checking" /\ env'[c] = previous /\ previous' = previous
      BY <2>7 DEF BeginRollback, TypeOK, links
    <3>2. QED
      BY <2>1, <2>2, <3>1 DEF Noted
  <2>8. QED
    BY <1>1, <2>3, <2>4, <2>5, <2>6, <2>7 DEF Install, Cleanup, Other
<1>2. CASE StartConnector \/ StopConnector \/ UNCHANGED vars
  BY <1>2 DEF StartConnector, StopConnector, Noted, vars, links, local
<1>3. QED
  BY <1>1, <1>2 DEF Next

\* Whatever fails or dies, and whichever commands run, the switch away from an environment
\* leaves previous leading to it, or was the way back (install.py _install, _rollback).
THEOREM SwitchesHaveWayBack == Spec => WayBack
<1>1. Init => TypeOK /\ Noted
  BY InstallConstants DEF Init, TypeOK, Noted
<1>2. TypeOK /\ Noted /\ [Next]_vars
        => [current' # current /\ current # None => previous' \in {current, current'}]_links
  <2> SUFFICES ASSUME TypeOK, Noted, [Next]_vars, current' # current, current # None
               PROVE  previous' \in {current, current'}
    BY DEF links
  <2>1. PICK c \in Commands : SetCurrent(c) \/ RollBack(c)
    BY DEF Next, Install, Cleanup, Other, StartConnector, StopConnector, BeginInstall, Build, SetPrevious, Fails,
           ReadProcesses, Remove, Finish, BeginRollback, Dies, vars, links
  <2>2. CASE SetCurrent(c)
    BY <2>2 DEF SetCurrent, Noted
  <2>3. CASE RollBack(c)
    BY <2>3 DEF RollBack, Noted
  <2>4. QED
    BY <2>1, <2>2, <2>3
<1>3. QED
  BY <1>1, <1>2, InstallTypes, NotedStep, PTL DEF Spec, WayBack

------------------------------------------------------------------------------
(* Tokens                                                                  *)

\* Without an overlap one process saves at a time: the file is still what it loaded,
\* and the temporary file is its own.
OneSaves == \A p, q \in Procs : Saving(p) /\ Saving(q) => p = q
OwnFiles ==
  \A p \in Procs :
    /\ Saving(p) => data[p] = [Loaded EXCEPT ![machine[p]] = token[p]]
    /\ fd[p] = IF step[p] = "write" THEN "tmp" ELSE "none"
    /\ step[p] = "write" => tmp = Torn
    /\ step[p] = "replace" => tmp = data[p]
AloneInv == OneSaves /\ OwnFiles /\ store # Torn /\ RegisteredSaved
TokenInv == TokenTypes /\ (~overlapped => AloneInv)

\* What the two steps that only wait for the server, and the two that begin a save, change.
LEMMA CommandTypes ==
  ASSUME TokenTypes, NEW p \in Procs, Register(p) \/ Confirm(p) \/ Poll(p) \/ PollTimeout(p) \/ Accepted(p)
  PROVE  TokenTypes'
<1> USE TokenConstants DEF TokenTypes, Stores, Tokens, NoToken, Goto, Saving, files, server
<1>1. CASE Register(p)
  BY <1>1 DEF Register
<1>2. CASE Confirm(p)
  <2>1. issued[machine[p]] + 1 \in Tokens \ {NoToken}
    BY <1>2 DEF Confirm
  <2>2. QED
    BY <1>2, <2>1 DEF Confirm
<1>3. CASE Poll(p)
  BY <1>3 DEF Poll
<1>4. CASE PollTimeout(p)
  BY <1>4 DEF PollTimeout
<1>5. CASE Accepted(p)
  <2>1. PICK m \in Machines : /\ issued[m] < MaxTokens
                              /\ issued' = [issued EXCEPT ![m] = @ + 1]
                              /\ machine' = [machine EXCEPT ![p] = m]
                              /\ token' = [token EXCEPT ![p] = issued'[m]]
    BY <1>5 DEF Accepted
  <2>2. issued[m] + 1 \in Tokens \ {NoToken} /\ issued'[m] = issued[m] + 1
    BY <2>1
  <2>3. QED
    BY <1>5, <2>1, <2>2 DEF Accepted
<1>6. QED
  BY <1>1, <1>2, <1>3, <1>4, <1>5

LEMMA SaveTypes ==
  ASSUME TokenTypes, NEW p \in Procs, Load(p) \/ Open(p) \/ Write(p) \/ Replace(p) \/ Fault(p)
  PROVE  TokenTypes'
<1> USE TokenConstants DEF TokenTypes, Goto, Saving, files, server
<1>1. CASE Load(p)
  <2>1. Loaded \in Stores \/ store = Torn
    BY DEF Loaded, NoStore, Stores, Tokens, NoToken
  <2>2. [Loaded EXCEPT ![machine[p]] = token[p]] \in Stores \/ store = Torn
    BY <2>1 DEF Stores
  <2>3. data' \in [Procs -> Stores]
    BY <1>1, <2>2 DEF Load
  <2>4. overlapped' \in BOOLEAN
    BY <1>1, Zenon DEF Load
  <2>5. QED
    BY <1>1, <2>3, <2>4 DEF Load
<1>2. CASE Open(p)
  BY <1>2 DEF Open
<1>3. CASE Write(p)
  <2>1. \A file : Overwritten(p, file) \subseteq Stores \cup {Torn}
    BY DEF Overwritten
  <2>2. QED
    BY <1>3, <2>1 DEF Write
<1>4. CASE Replace(p)
  <2>1. told' \in Stores
    BY <1>4 DEF Replace, Stores
  <2>2. fd' \in [Procs -> {"none", "tmp", "store", "gone"}]
    BY <1>4 DEF Replace
  <2>3. QED
    BY <1>4, <2>1, <2>2 DEF Replace
<1>5. CASE Fault(p)
  BY <1>5 DEF Fault
<1>6. QED
  BY <1>1, <1>2, <1>3, <1>4, <1>5

\* A step of a process that does not save leaves the files to the one that does.
LEMMA OthersLeaveFiles ==
  ASSUME TokenTypes, AloneInv, NEW p \in Procs, ~Saving(p),
         UNCHANGED <<files, data, told>>,
         \A q \in Procs \ {p} : step'[q] = step[q] /\ machine'[q] = machine[q] /\ token'[q] = token[q],
         step'[p] \in {"idle", "poll", "load"}
  PROVE  AloneInv'
<1> USE DEF Saving, files
<1>1. OneSaves'
  BY DEF AloneInv, OneSaves
<1>2. Loaded' = Loaded
  BY DEF Loaded
<1>3. OwnFiles'
  BY <1>2 DEF AloneInv, OwnFiles
<1>4. store' # Torn /\ RegisteredSaved'
  BY DEF AloneInv, RegisteredSaved
<1>5. QED
  BY <1>1, <1>3, <1>4 DEF AloneInv

LEMMA TokenInvStep ==
  ASSUME TokenInv, NEW p \in Procs,
         \/ Register(p) \/ Confirm(p) \/ Poll(p) \/ PollTimeout(p) \/ Accepted(p)
         \/ Load(p) \/ Open(p) \/ Write(p) \/ Replace(p) \/ Fault(p)
  PROVE  TokenInv'
<1>1. TokenTypes'
  BY CommandTypes, SaveTypes DEF TokenInv
<1>2. ASSUME ~overlapped' PROVE AloneInv'
  <2>1. ~overlapped /\ TokenTypes /\ AloneInv
    BY <1>2 DEF TokenInv, TokenTypes, Register, Confirm, Poll, PollTimeout, Accepted, Load, Open, Write, Replace, Fault
  <2>2. CASE Register(p) \/ Confirm(p) \/ Poll(p) \/ PollTimeout(p) \/ Accepted(p)
    <3>1. ~Saving(p) /\ UNCHANGED <<files, data, told>> /\ step'[p] \in {"idle", "poll", "load"}
      BY <2>1, <2>2 DEF Register, Confirm, Poll, PollTimeout, Accepted, Saving, Goto, TokenTypes
    <3>2. \A q \in Procs \ {p} : step'[q] = step[q] /\ machine'[q] = machine[q] /\ token'[q] = token[q]
      BY <2>1, <2>2 DEF Register, Confirm, Poll, PollTimeout, Accepted, Goto, TokenTypes
    <3>3. QED
      BY <2>1, <3>1, <3>2, OthersLeaveFiles
  <2>3. CASE Load(p)
    <3>1. CASE store = Torn
      BY <2>1, <3>1 DEF AloneInv
    <3>2. CASE store # Torn
      <4>1. /\ \A q \in Procs : ~Saving(q)
            /\ data' = [data EXCEPT ![p] = [Loaded EXCEPT ![machine[p]] = token[p]]]
            /\ step' = [step EXCEPT ![p] = "open"] /\ step[p] = "load"
            /\ UNCHANGED <<store, tmp, fd, machine, token, told>>
        BY <1>2, <2>3, <3>2 DEF Load, Goto, files
      <4>2. OneSaves' /\ Loaded' = Loaded
        BY <2>1, <4>1 DEF OneSaves, Saving, TokenTypes, Loaded
      <4>3. OwnFiles'
        BY <2>1, <4>1, <4>2 DEF AloneInv, OwnFiles, Saving, TokenTypes
      <4>4. QED
        BY <2>1, <4>1, <4>2, <4>3 DEF AloneInv, RegisteredSaved
    <3>3. QED
      BY <3>1, <3>2
  <2>4. CASE Open(p) \/ Write(p)
    <3>1. /\ Saving(p) /\ \A q \in Procs \ {p} : ~Saving(q)
          /\ data[p] = [Loaded EXCEPT ![machine[p]] = token[p]]
      BY <2>1, <2>4 DEF Open, Write, Saving, AloneInv, OneSaves, OwnFiles
    <3>2. UNCHANGED <<store, machine, token, data, told>>
      BY <2>1, <2>4 DEF Open, Write, AloneInv, OwnFiles
    <3>3. \/ step' = [step EXCEPT ![p] = "write"] /\ fd' = [fd EXCEPT ![p] = "tmp"] /\ tmp' = Torn
          \/ step' = [step EXCEPT ![p] = "replace"] /\ fd' = [fd EXCEPT ![p] = "none"] /\ tmp' = data[p]
      BY <2>1, <2>4 DEF Open, Write, Goto, AloneInv, OwnFiles, Overwritten
    <3>4. OneSaves' /\ Loaded' = Loaded
      BY <2>1, <3>1, <3>2, <3>3 DEF OneSaves, Saving, TokenTypes, Loaded
    <3>5. OwnFiles'
      BY <2>1, <3>1, <3>2, <3>3, <3>4 DEF AloneInv, OwnFiles, Saving, TokenTypes
    <3>6. QED
      BY <2>1, <3>2, <3>4, <3>5 DEF AloneInv, RegisteredSaved
  <2>5. CASE Replace(p)
    <3>1. /\ \A q \in Procs \ {p} : ~Saving(q) /\ fd[q] = "none"
          /\ tmp = data[p] /\ data[p] = [Loaded EXCEPT ![machine[p]] = token[p]] /\ fd[p] = "none"
      BY <2>1, <2>5 DEF Replace, Saving, AloneInv, OneSaves, OwnFiles
    <3>2. tmp \in Stores /\ Loaded \in Stores
      BY <2>1, <3>1, TokenConstants DEF TokenTypes, AloneInv, Loaded, NoStore, Stores, Tokens, NoToken
    <3>3. /\ store' = data[p] /\ tmp' = Missing /\ fd' = fd
          /\ told' = [told EXCEPT ![machine[p]] = token[p]] /\ step' = [step EXCEPT ![p] = "idle"]
          /\ UNCHANGED <<machine, token, data>>
      <4>1. tmp # Missing
        BY <3>2, TokenConstants
      <4>2. fd' = [q \in Procs |-> fd[q]]
        BY <2>5, <3>1, <4>1 DEF Replace, files
      <4>3. fd = [q \in Procs |-> fd[q]]
        BY <2>1 DEF TokenTypes
      <4>4. QED
        BY <2>5, <3>1, <4>1, <4>2, <4>3 DEF Replace, Goto
    <3>4. OneSaves' /\ OwnFiles'
      BY <2>1, <3>1, <3>3 DEF OneSaves, AloneInv, OwnFiles, Saving, TokenTypes
    <3>5. store' # Torn
      BY <3>1, <3>2, <3>3, TokenConstants
    <3>6. RegisteredSaved'
      <4>1. ASSUME NEW m \in Machines, told'[m] # NoToken PROVE store'[m] = told'[m]
        <5>1. CASE m = machine[p]
          BY <2>1, <3>1, <3>2, <3>3, <5>1 DEF TokenTypes, Stores
        <5>2. CASE m # machine[p]
          <6>1. told[m] # NoToken /\ told'[m] = told[m]
            BY <2>1, <3>3, <4>1, <5>2 DEF TokenTypes, Stores
          <6>2. store[m] = told[m] /\ store = Loaded
            BY <2>1, <6>1, TokenConstants DEF AloneInv, RegisteredSaved, Loaded
          <6>3. QED
            BY <3>1, <3>2, <3>3, <5>2, <6>1, <6>2 DEF Stores
        <5>3. QED
          BY <5>1, <5>2
      <4>2. QED
        BY <3>1, <3>2, <3>3, <4>1 DEF RegisteredSaved
    <3>7. QED
      BY <3>4, <3>5, <3>6 DEF AloneInv
  <2>6. CASE Fault(p)
    <3>1. /\ step' = [step EXCEPT ![p] = "idle"] /\ fd' = [fd EXCEPT ![p] = "none"]
          /\ UNCHANGED <<store, tmp, machine, token, data, told>>
      BY <2>6 DEF Fault, Goto
    <3>2. OneSaves' /\ Loaded' = Loaded
      BY <2>1, <3>1 DEF AloneInv, OneSaves, Saving, TokenTypes, Loaded
    <3>3. OwnFiles'
      BY <2>1, <3>1, <3>2 DEF AloneInv, OwnFiles, Saving, TokenTypes
    <3>4. QED
      BY <2>1, <3>1, <3>2, <3>3 DEF AloneInv, RegisteredSaved
  <2>7. QED
    BY <2>2, <2>3, <2>4, <2>5, <2>6
<1>3. QED
  BY <1>1, <1>2 DEF TokenInv

LEMMA TokenInvInit == ASSUME TokenInit PROVE TokenInv
<1> USE TokenConstants DEF TokenInit
<1>1. NoStore \in Stores /\ NoToken \in Tokens
  BY DEF NoStore, Stores, Tokens, NoToken
<1>2. \A p \in Procs : token[p] = NoToken /\ ~Saving(p) /\ step[p] # "load"
  BY DEF Saving
<1>3. TokenTypes
  <2>1. /\ token \in [Procs -> Tokens] /\ code \in [Procs -> Tokens] /\ data \in [Procs -> Stores]
        /\ step \in [Procs -> {"idle", "poll", "load", "open", "write", "replace"}]
        /\ fd \in [Procs -> {"none", "tmp", "store", "gone"}]
    BY <1>1
  <2>2. issued \in Stores /\ told \in Stores /\ faults \in 0..MaxFaults
    BY <1>1
  <2>3. store \in {Missing} /\ tmp \in {Missing} /\ machine \in [Procs -> Machines]
    OBVIOUS
  <2>4. overlapped \in BOOLEAN
    OBVIOUS
  <2>5. QED
    BY <1>2, <2>1, <2>2, <2>3, <2>4 DEF TokenTypes
<1>4. AloneInv
  BY DEF AloneInv, OneSaves, OwnFiles, RegisteredSaved, Saving, NoStore
<1>5. QED
  BY <1>3, <1>4 DEF TokenInv

LEMMA TokenIdle == ASSUME TokenInv, UNCHANGED tokenVars PROVE TokenInv'
<1> USE DEF tokenVars, files, server, Saving, Loaded
<1>1. TokenTypes'
  BY DEF TokenInv, TokenTypes
<1>2. AloneInv = AloneInv' /\ overlapped' = overlapped
  BY DEF AloneInv, OneSaves, OwnFiles, RegisteredSaved
<1>3. QED
  BY <1>1, <1>2 DEF TokenInv

\* A token whose save returned stays in the file, which can be read, until the next save
\* of its machine returns: whatever fails or is killed, unless two saves overlap
\* (token_store.py:176-207).
THEOREM SavedTokensKept == TokenSpec => []SavedKept
<1>1. TokenInv /\ [TokenNext]_tokenVars => TokenInv'
  BY TokenInvStep, TokenIdle DEF TokenNext
<1>2. TokenInv => SavedKept
  BY DEF TokenInv, AloneInv, SavedKept
<1>3. QED
  BY <1>1, <1>2, TokenInvInit, PTL DEF TokenSpec
===============================================================================
