---------------------------- MODULE SessionsProofs ----------------------------
(***************************************************************************)
(* Sessions leave nothing behind, no task outlives its outbox, and the end *)
(* of one connection does not end another, for any number of connections   *)
(* and faults.                                                             *)
(***************************************************************************)
EXTENDS Sessions, TLAPS

\* Sessions are numbered, so that a new one owns nothing yet; the tasks of a session start
\* after its setup, and its child is gone before its writer is cancelled.
Numbered ==
  \A c \in Conns : /\ \A n \in abandoned[c] : n <= session[c]
                   /\ pc[c] \in {"hello", "sync"} => \A t \in tasks[c] : t[1] # session[c]
                   /\ pc[c] \in {"drain", "gather"} => session[c] \notin children[c]
OwnedInv == TypeOK /\ Numbered /\ NothingLeft /\ OutboxOutlivesTasks

\* Of a connection: what the steps of others leave alone.
SameFor(c) ==
  /\ pc'[c] = pc[c] /\ session'[c] = session[c] /\ children'[c] = children[c]
  /\ outboxes'[c] = outboxes[c] /\ tasks'[c] = tasks[c] /\ abandoned'[c] = abandoned[c]
OwnedBy(c) ==
  /\ \A n \in abandoned[c] : n <= session[c]
  /\ pc[c] \in {"hello", "sync"} => \A t \in tasks[c] : t[1] # session[c]
  /\ pc[c] \in {"drain", "gather"} => session[c] \notin children[c]
  /\ \A n \in children[c] \cup outboxes[c] \cup {t[1] : t \in tasks[c]} :
       n \in abandoned[c] \/ (pc[c] \in Open /\ n = session[c])
  /\ \A t \in tasks[c] : t[1] \in outboxes[c]

LEMMA ByConnection == OwnedInv <=> TypeOK /\ \A c \in Conns : OwnedBy(c)
  BY DEF OwnedInv, OwnedBy, Numbered, NothingLeft, OutboxOutlivesTasks

LEMMA OthersSame ==
  ASSUME TypeOK, NEW c \in Conns, NEW d \in Conns \ {c}, Step(c) \/ TasksEnd(c)
  PROVE  SameFor(d)
  BY DEF TypeOK, SameFor, Step, Wake, Connect, Bootstrapped, Accepted, Synced, Stop, Drain, Gather,
         Cancelled, CancelledAtClose, TasksEnd, KeepWriter, Leave, Goto, Reject, With, Without, resources

LEMMA AfterEnds ==
  \A result : After(result) \in {"cancelled", "sleep", "stopped", "raised"}
  BY DEF After

LEMMA StepTypes ==
  ASSUME TypeOK, NEW c \in Conns, Step(c) \/ TasksEnd(c)
  PROVE  TypeOK'
<1> USE DEF TypeOK, Goto, Open, Ended, Final, mode, resources, process
<1>0. \A result : After(result) \in {"cancelled", "sleep", "stopped", "raised"}
  BY AfterEnds
<1>1. CASE Wake(c) \/ Stop(c) \/ Drain(c)
  BY <1>0, <1>1 DEF Wake, Stop, Drain, Leave, With, Without
<1>2. CASE Connect(c)
  BY <1>0, <1>2 DEF Connect, Leave
<1>3. CASE Bootstrapped(c)
  <2>1. session' \in [Conns -> Nat] /\ \A d \in Conns : pc'[d] \in Open => session'[d] \in outboxes'[d]
    BY <1>0, <1>3 DEF Bootstrapped, Leave, Reject
  <2>2. outboxes' \in [Conns -> SUBSET Nat] /\ children' \in [Conns -> SUBSET Nat] /\ abandoned' \in [Conns -> SUBSET Nat]
    BY <1>3, <2>1 DEF Bootstrapped
  <2>3. pc' \in [Conns -> {"down", "boot", "sleep"} \cup Open \cup Ended] /\ rejected' \subseteq Conns
    BY <1>0, <1>3 DEF Bootstrapped, Leave, Reject
  <2>4. QED
    BY <1>3, <2>1, <2>2, <2>3 DEF Bootstrapped
<1>4. CASE Accepted(c)
  <2>1. pc' \in [Conns -> {"down", "boot", "sleep"} \cup Open \cup Ended] /\ rejected' \subseteq Conns
    BY <1>0, <1>4 DEF Accepted, Leave, Reject
  <2>2. outboxes' \in [Conns -> SUBSET Nat] /\ children' \in [Conns -> SUBSET Nat] /\ abandoned' \in [Conns -> SUBSET Nat]
    BY <1>4 DEF Accepted, With, Without
  <2>3. \A d \in Conns : pc'[d] \in Open => session'[d] \in outboxes'[d]
    BY <1>0, <1>4 DEF Accepted, Leave, Reject, Without
  <2>4. QED
    BY <1>4, <2>1, <2>2, <2>3 DEF Accepted
<1>5. CASE Synced(c)
  <2>1. tasks' \in [Conns -> SUBSET (Nat \X Tasks)]
    BY <1>5 DEF Synced
  <2>2. QED
    BY <1>0, <1>5, <2>1 DEF Synced, Leave, With
<1>6. CASE Gather(c)
  BY <1>0, <1>6 DEF Gather, Leave, Without
<1>7. CASE TasksEnd(c)
  BY <1>7 DEF TasksEnd, KeepWriter
<1>8. CASE Cancelled(c)
  BY <1>8 DEF Cancelled, KeepWriter, With
<1>9. CASE CancelledAtClose(c)
  BY <1>9 DEF CancelledAtClose
<1>10. QED
  BY <1>1, <1>2, <1>3, <1>4, <1>5, <1>6, <1>7, <1>8, <1>9 DEF Step

LEMMA StepOwns ==
  ASSUME TypeOK, NEW c \in Conns, OwnedBy(c), Step(c) \/ TasksEnd(c)
  PROVE  OwnedBy(c)'
<1> USE DEF TypeOK, OwnedBy, Goto, Open, Final, mode, resources, process
<1>0. \A result : After(result) \notin {"down", "boot"} \cup Open
  BY AfterEnds
<1>1. CASE Wake(c) \/ Connect(c)
  BY <1>0, <1>1 DEF Wake, Connect, Leave
<1>2. CASE Bootstrapped(c)
  BY <1>0, <1>2 DEF Bootstrapped, Leave, Reject
<1>3. CASE Accepted(c)
  BY <1>0, <1>3 DEF Accepted, Leave, Reject, With, Without
<1>4. CASE Synced(c)
  BY <1>0, <1>4 DEF Synced, Leave, With
<1>5. CASE Stop(c) \/ Drain(c)
  BY <1>0, <1>5 DEF Stop, Drain, Leave, With, Without
<1>6. CASE Gather(c)
  BY <1>0, <1>6 DEF Gather, Leave, Without
<1>7. CASE TasksEnd(c)
  BY <1>7 DEF TasksEnd, KeepWriter
<1>8. CASE Cancelled(c)
  BY <1>8 DEF Cancelled, KeepWriter, With
<1>9. CASE CancelledAtClose(c)
  BY <1>9 DEF CancelledAtClose
<1>10. QED
  BY <1>1, <1>2, <1>3, <1>4, <1>5, <1>6, <1>7, <1>8, <1>9 DEF Step

LEMMA OwnedStep == OwnedInv /\ [Next]_vars => OwnedInv'
<1> SUFFICES ASSUME OwnedInv, [Next]_vars PROVE TypeOK' /\ \A d \in Conns : OwnedBy(d)'
  BY ByConnection DEF OwnedInv, OwnedBy, Numbered, NothingLeft, OutboxOutlivesTasks
<1>0. TypeOK /\ \A d \in Conns : OwnedBy(d)
  BY ByConnection
<1>1. ASSUME NEW c \in Conns, Step(c) \/ TasksEnd(c) PROVE TypeOK' /\ \A d \in Conns : OwnedBy(d)'
  <2>1. TypeOK' /\ OwnedBy(c)'
    BY <1>0, <1>1, StepTypes, StepOwns
  <2>2. \A d \in Conns \ {c} : OwnedBy(d)'
    <3>1. ASSUME NEW d \in Conns \ {c} PROVE OwnedBy(d)'
      <4>1. SameFor(d)
        BY <1>0, <1>1, OthersSame
      <4>2. QED
        BY <1>0, <4>1 DEF SameFor, OwnedBy
    <3>2. QED
      BY <3>1
  <2>3. QED
    BY <2>1, <2>2
<1>2. CASE SupervisorFails \/ Signal \/ Exit \/ UNCHANGED vars
  <2>1. UNCHANGED <<mode, pc, outcome, session, resources, abandoned, rejected>>
    BY <1>2 DEF SupervisorFails, Signal, Exit, vars
  <2>2. \A d \in Conns : OwnedBy(d)'
    BY <1>0, <2>1 DEF OwnedBy, resources
  <2>3. TypeOK'
    BY <1>0, <1>2, <2>1 DEF TypeOK, SupervisorFails, Signal, Exit, vars, mode, resources, process, Alive
  <2>4. QED
    BY <2>2, <2>3
<1>3. QED
  BY <1>1, <1>2 DEF Next

LEMMA OwnedInit == Init => OwnedInv
<1> SUFFICES ASSUME Init PROVE OwnedInv
  OBVIOUS
<1>1. pc \in [Conns -> {"down", "stopped"}]
  BY DEF Init
<1>2. QED
  BY <1>1 DEF Init, None, OwnedInv, TypeOK, Numbered, NothingLeft, OutboxOutlivesTasks, Open, Ended, Final

LEMMA SessionsOwned == Spec => []OwnedInv
  BY OwnedInit, OwnedStep, PTL DEF Spec

\* Whatever ends a session, and whenever, its child, outbox and tasks are gone after it,
\* unless it failed before its tasks ran or its teardown was cut short (cli.py:1255-1272).
THEOREM SessionsLeaveNothing == Spec => []NothingLeft
<1>1. OwnedInv => NothingLeft
  BY DEF OwnedInv
<1>2. QED
  BY <1>1, SessionsOwned, PTL

\* No task of a session runs on with its outbox closed (cli.py:1262-1272).
THEOREM TasksHaveOutbox == Spec => []OutboxOutlivesTasks
<1>1. OwnedInv => OutboxOutlivesTasks
  BY DEF OwnedInv
<1>2. QED
  BY <1>1, SessionsOwned, PTL
------------------------------------------------------------------------------
\* While several connections reconnect none raises, so that nothing but a signal cancels
\* one; a registration runs by itself.
Untouched(c) == /\ pc[c] # "cancelled" /\ outcome[c] # "cancelled"
                /\ ~registering => pc[c] # "raised"
Several == reconnect /\ Cardinality(Conns) > 1 /\ ~signalled
OneRegisters == registering => \E c \in Conns : \A d \in Conns \ {c} : pc[d] = "stopped"
GoOnInv == /\ OneRegisters /\ cancelling \subseteq Alive
           /\ Several => cancelling = {} /\ \A c \in Conns : Untouched(c)

LEMMA GoOnStep == TypeOK /\ GoOnInv /\ [Next]_vars => GoOnInv'
<1> SUFFICES ASSUME TypeOK, GoOnInv, [Next]_vars PROVE GoOnInv'
  OBVIOUS
<1> USE DEF mode, resources, process
<1>1. ASSUME NEW c \in Conns, Step(c) \/ TasksEnd(c) PROVE GoOnInv'
  <2>1. /\ \A d \in Conns \ {c} : pc'[d] = pc[d] /\ outcome'[d] = outcome[d]
        /\ UNCHANGED <<reconnect, registering, signalled>>
        /\ \/ c \notin cancelling /\ cancelling' = cancelling
           \/ c \in cancelling /\ cancelling' = cancelling \ {c}
    BY <1>1 DEF TypeOK, Step, Wake, Connect, Bootstrapped, Accepted, Synced, Stop, Drain, Gather,
                Cancelled, CancelledAtClose, TasksEnd, Leave, Goto, Reject, Running
  <2>2. OneRegisters' /\ cancelling' \subseteq Alive'
    <3>1. pc[c] # "stopped"
      BY <1>1 DEF Step, Wake, Connect, Bootstrapped, Accepted, Synced, Stop, Drain, Gather, Cancelled,
                  CancelledAtClose, TasksEnd, TypeOK, GoOnInv, Alive, Open, Ended, Final
    <3>2. QED
      BY <2>1, <3>1 DEF GoOnInv, OneRegisters, Alive
  <2>3. ASSUME Several' PROVE Untouched(c)'
    <3>1. Several /\ cancelling = {} /\ Untouched(c)
      BY <2>1, <2>3 DEF Several, GoOnInv
    <3>2. \A result : result # "cancelled" => /\ After(result) # "cancelled"
                                              /\ ~registering => After(result) # "raised"
      BY <3>1 DEF After, Several
    <3>3. QED
      BY <1>1, <2>1, <3>1, <3>2 DEF TypeOK, Untouched, Step, Wake, Connect, Bootstrapped, Accepted, Synced,
          Stop, Drain, Gather, Cancelled, CancelledAtClose, TasksEnd, Leave, Goto, Reject
  <2>4. ASSUME Several' PROVE cancelling' = {} /\ \A d \in Conns \ {c} : Untouched(d)'
    BY <2>1, <2>4 DEF Several, GoOnInv, Untouched
  <2>5. QED
    BY <2>2, <2>3, <2>4 DEF GoOnInv
<1>2. CASE SupervisorFails
  <2>1. /\ UNCHANGED <<reconnect, registering, signalled, pc, outcome>>
        /\ cancelling' = Alive /\ \E c \in Conns : pc[c] \in {"raised", "cancelled"}
    BY <1>2 DEF SupervisorFails
  <2>2. Several => Alive = {}
    <3>1. ASSUME Several PROVE registering
      BY <2>1, <3>1 DEF GoOnInv, Untouched, TypeOK
    <3>2. ASSUME registering PROVE Alive = {}
      BY <2>1, <3>2 DEF GoOnInv, OneRegisters, Alive, Ended
    <3>3. QED
      BY <3>1, <3>2
  <2>3. QED
    BY <2>1, <2>2 DEF GoOnInv, OneRegisters, Several, Untouched, Alive
<1>3. CASE Signal
  BY <1>3 DEF Signal, GoOnInv, OneRegisters, Several, Alive
<1>4. CASE Exit \/ UNCHANGED vars
  BY <1>4 DEF Exit, vars, GoOnInv, OneRegisters, Several, Untouched, Alive
<1>5. QED
  BY <1>1, <1>2, <1>3, <1>4 DEF Next

\* A connection that ends, rejected or not, ends no other: as long as several reconnect,
\* only a signal cancels one (cli.py:1320-1374).
THEOREM ConnectionsIndependent == Spec => []OthersGoOn
<1>1. Init => GoOnInv
  <2> SUFFICES ASSUME Init PROVE GoOnInv
    OBVIOUS
  <2>1. cancelling = {} /\ \A c \in Conns : Untouched(c)
    BY DEF Init, Untouched
  <2>2. OneRegisters
    BY DEF Init, OneRegisters
  <2>3. QED
    BY <2>1, <2>2 DEF GoOnInv, Init
<1>2. GoOnInv => OthersGoOn
  BY DEF GoOnInv, OthersGoOn, Several, Untouched
<1>3. OwnedInv => TypeOK
  BY DEF OwnedInv
<1>4. QED
  BY <1>1, <1>2, <1>3, GoOnStep, SessionsOwned, PTL DEF Spec
==============================================================================
