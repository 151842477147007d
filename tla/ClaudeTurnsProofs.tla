--------------------------- MODULE ClaudeTurnsProofs ---------------------------
(***************************************************************************)
(* Turns of the claude_code provider, for any number of tasks, approvals,  *)
(* cancels and tools: registered clients are running, stop() ends the      *)
(* turns, approvals are resolved and remembered only by an answer that was *)
(* in time, and a turn that ends by itself has told its end once.          *)
(***************************************************************************)
EXTENDS ClaudeTurns, TLAPS

Items == {Request(p) : p \in Approvals} \cup {Terminal(k) : k \in Terminals} \cup {Ended}

LEMMA ItemsAppended ==
  ASSUME NEW s \in Seq(Items)
  PROVE  /\ \A p \in Approvals : Append(s, Request(p)) \in Seq(Items)
         /\ \A k \in Terminals : Append(s, Terminal(k)) \in Seq(Items)
         /\ s \o <<>> \o <<Ended>> \in Seq(Items)
         /\ \A k \in Terminals : s \o <<Terminal(k)>> \o <<Ended>> \in Seq(Items)
         /\ \A k \in Terminals : s \o <<Terminal(k), Ended>> \in Seq(Items)
         /\ s # <<>> => Tail(s) \in Seq(Items)
<1>1. \A p \in Approvals : Request(p) \in Items
  BY DEF Items
<1>2. \A k \in Terminals : Terminal(k) \in Items
  BY DEF Items
<1>3. Ended \in Items
  BY DEF Items
<1> HIDE DEF Items
<1> QED
  BY <1>1, <1>2, <1>3

\* The types that involve neither sequences nor the events sent.
FlatTypes ==
  /\ turn \in [Tasks -> Turns \cup {None}]
  /\ pc \in [Tasks -> {None, "created", "opening", "consuming", "closing", "done", "gone"}]
  /\ sdk \in [Tasks -> {None, "created", "connect", "stream", "exit", "over"}]
  /\ error \in [Tasks -> BOOLEAN] /\ killed \in [Tasks -> BOOLEAN]
  /\ faulty \in [Tasks -> BOOLEAN] /\ cancelSet \in [Tasks -> BOOLEAN]
  /\ turnTasks \in [Turns -> Tasks \cup {0}] /\ cancelEvents \in [Turns -> Tasks \cup {0}]
  /\ clients \in [Turns -> Tasks \cup {0}]
  /\ handler \in Turns \cup {None} /\ cancels \in 0..MaxCancels
  /\ phase \in {"running", "stopping", "stopped", "abandoned"} /\ toStop \subseteq Tasks
  /\ asker \in [Approvals -> Tasks \cup {0}] /\ tool \in [Approvals -> Tools \cup {None}]
  /\ future \in [Approvals -> {None, "pending", "set", "cancelled", "over"}]
  /\ answer \in [Approvals -> Decisions \cup {None}]
  /\ late \in [Approvals -> BOOLEAN]
  /\ fate \in [Approvals -> {None, "answered", "expired", "aborted", "granted"}]
  /\ opened \subseteq Approvals /\ pending \subseteq Approvals
  /\ granted \subseteq Threads \X Tools
SequenceTypes == /\ queue \in [Tasks -> Seq(Items)] /\ reported \in [Tasks -> Seq(Terminals)]
ToldTypes == lastTold \in [Turns -> Terminals \cup {None}] /\ acks \in [Approvals -> Nat]

LEMMA TypesSplit == TypeOK <=> FlatTypes /\ SequenceTypes /\ ToldTypes
  BY DEF TypeOK, FlatTypes, SequenceTypes, ToldTypes, Items

\* How far a task is: what it has not reached yet is still empty.
Progress(i) ==
  /\ pc[i] = None <=> turn[i] = None
  /\ pc[i] \in {None, "created", "opening"} => sdk[i] = None
  /\ pc[i] = "consuming" => sdk[i] # None
  /\ killed[i] => sdk[i] # None
\* An approval belongs to a task, and its future says what has happened to it.
Asked(p) ==
  /\ asker[p] = 0 <=> future[p] = None
  /\ asker[p] # 0 => turn[asker[p]] # None /\ tool[p] # None
  /\ fate[p] # None <=> future[p] = "over"
  /\ future[p] \in {None, "pending", "cancelled"} => answer[p] = None
  /\ acks[p] # 0 => answer[p] # None
  /\ fate[p] = "expired" /\ answer[p] # None => late[p]
  /\ fate[p] = "granted" => answer[p] = None
\* What is remembered was answered.
Remembered(g) ==
  \E q \in Approvals : /\ answer[q] = "acceptForSession" /\ tool[q] \notin Questions
                       /\ asker[q] # 0 /\ g = Key(asker[q], tool[q])
\* stop() waits for every task that runs, but for those whose turn_id was started again.
Repeated(i) == \E j \in Tasks \ {i} : turn[j] = turn[i]
Stoppable(i) ==
  /\ pc[i] \in {None, "gone"} \/ turnTasks[turn[i]] = i \/ Repeated(i)
  /\ phase # "running" => pc[i] \in {None, "done", "gone"} \/ i \in toStop \/ Repeated(i)
  /\ phase = "stopped" /\ i \in toStop => pc[i] \in {"done", "gone"}

\* A registered client belongs to a run_sdk of its turn that has not ended, so that a
\* cancel interrupts and stop() disconnects only what is running, even when a repeated
\* turn_id makes two tasks share the table entries.
ClientsAlive ==
  \A t \in Turns : clients[t] # 0 => /\ turn[clients[t]] = t
                                     /\ sdk[clients[t]] \in {"connect", "stream", "exit"}

TurnsInv ==
  /\ FlatTypes
  /\ \A i \in Tasks : Progress(i)
  /\ ClientsAlive
LEMMA FlatInit == Init => FlatTypes
  BY ClaudeConstants DEF Init, FlatTypes, Tasks, Approvals, None

LEMMA RequestTypes ==
  ASSUME FlatTypes, NEW t \in Turns, TurnStart(t) \/ Cancel(t) \/ CancelReported \/ Stop \/ Stopped \/ StopTimesOut
  PROVE  FlatTypes'
<1> USE ClaudeConstants DEF FlatTypes, tasks, streams, tables, control, requests, waits
<1>1. CASE TurnStart(t)
  BY <1>1 DEF TurnStart
<1>2. CASE Cancel(t)
  <2>1. cancelSet' \in [Tasks -> BOOLEAN]
    BY <1>2 DEF Cancel
  <2>2. cancels' \in 0..MaxCancels
    BY <1>2 DEF Cancel
  <2>3. QED
    BY <1>2, <2>1, <2>2 DEF Cancel
<1>3. CASE CancelReported
  BY <1>3 DEF CancelReported
<1>4. CASE Stop
  BY <1>4 DEF Stop
<1>5. CASE Stopped
  BY <1>5 DEF Stopped
<1>6. CASE StopTimesOut
  BY <1>6 DEF StopTimesOut
<1>7. QED
  BY <1>1, <1>2, <1>3, <1>4, <1>5, <1>6

LEMMA TaskTypes ==
  ASSUME FlatTypes, TurnsInv, NEW i \in Tasks, TaskStep(i)
  PROVE  FlatTypes'
<1> USE DEF FlatTypes, tasks, streams, tables, control, requests, waits
<1>0. pc[i] # None => turn[i] \in Turns
  BY DEF TurnsInv, Progress
<1>1. CASE RunTurn(i)
  BY <1>0, <1>1 DEF RunTurn, Tell, None
<1>2. CASE StartSdkTask(i)
  BY <1>2 DEF StartSdkTask
<1>3. CASE Forward(i)
  BY <1>3 DEF Forward, Tell
<1>4. CASE DoneCallback(i)
  BY <1>0, <1>4 DEF DoneCallback, None
<1>5. CASE TaskCancelled(i)
  <2>1. \E at \in {"closing", "done"} : pc' = [pc EXCEPT ![i] = at]
    BY <1>5 DEF TaskCancelled
  <2>2. \E b \in BOOLEAN : killed' = killed \/ killed' = [killed EXCEPT ![i] = b]
    BY <1>5 DEF TaskCancelled
  <2>3. UNCHANGED <<turn, toStop, sdk, error, faulty, cancelSet, turnTasks, tables, control, requests, waits, granted>>
    BY <1>5 DEF TaskCancelled
  <2>4. QED
    BY <2>1, <2>2, <2>3
<1>6. CASE TaskClosed(i)
  BY <1>6 DEF TaskClosed
<1>7. QED
  BY <1>1, <1>2, <1>3, <1>4, <1>5, <1>6 DEF TaskStep

LEMMA FinishTypes ==
  ASSUME FlatTypes, NEW i \in Tasks, NEW items, Finish(i, items)
  PROVE  /\ sdk' \in [Tasks -> {None, "created", "connect", "stream", "exit", "over"}]
         /\ clients' \in [Turns -> Tasks \cup {0}] /\ cancelEvents' \in [Turns -> Tasks \cup {0}]
         /\ future' \in [Approvals -> {None, "pending", "set", "cancelled", "over"}]
         /\ fate' \in [Approvals -> {None, "answered", "expired", "aborted", "granted"}]
         /\ pending' \subseteq Approvals
  BY DEF FlatTypes, Finish

LEMMA SdkTypes ==
  ASSUME FlatTypes, TurnsInv, NEW i \in Tasks, SdkStep(i) \/ StreamBreaks(i) \/ \E o \in Tools : Ask(i, o)
  PROVE  FlatTypes'
<1> USE DEF FlatTypes, tasks, streams, tables, control, requests, waits
<1>0. sdk[i] # None => turn[i] \in Turns
  BY DEF TurnsInv, Progress
<1>1. CASE CreateClient(i)
  BY <1>0, <1>1 DEF CreateClient, None
<1>2. CASE Connect(i)
  BY <1>2, FinishTypes DEF Connect
<1>3. ASSUME NEW kind, Result(i, kind) PROVE FlatTypes'
  BY <1>3 DEF Result
<1>4. CASE Break(i)
  BY <1>4 DEF Break
<1>5. CASE StreamBreaks(i)
  BY <1>5 DEF StreamBreaks
<1>6. CASE Exit(i)
  BY <1>6, FinishTypes DEF Exit
<1>7. CASE SdkCancelled(i)
  BY <1>7, FinishTypes DEF SdkCancelled
<1>8. ASSUME NEW o \in Tools, Ask(i, o) PROVE FlatTypes'
  BY <1>8 DEF Ask
<1>9. QED
  BY <1>1, <1>2, <1>3, <1>4, <1>5, <1>6, <1>7, <1>8 DEF SdkStep

LEMMA ApprovalTypes ==
  ASSUME FlatTypes, \A q \in Approvals : Asked(q), NEW p \in Approvals,
         Expiry(p) \/ \E d \in Decisions : Respond(p, d)
  PROVE  FlatTypes'
<1> USE DEF FlatTypes, tasks, streams, tables, control, requests, waits
<1>1. ASSUME NEW d \in Decisions, Respond(p, d) PROVE FlatTypes'
  BY <1>1 DEF Respond
<1>2. CASE Timeout(p)
  BY <1>2 DEF Timeout
<1>3. CASE Wake(p)
  <2>1. Key(asker[p], tool[p]) \in Threads \X Tools
    BY <1>3, ClaudeConstants DEF Wake, Asked, Key, Tasks, None
  <2>2. granted' \subseteq Threads \X Tools
    BY <1>3, <2>1 DEF Wake, Grant
  <2>3. QED
    BY <1>3, <2>2 DEF Wake
<1>4. QED
  BY <1>1, <1>2, <1>3 DEF Expiry
------------------------------------------------------------------------------
\* Only run_sdk of the task itself ends what its client is registered for.
LEMMA FinishKeepsClients ==
  ASSUME TurnsInv, NEW i \in Tasks, NEW items, Finish(i, items), turn' = turn, turn[i] \in Turns
  PROVE  ClientsAlive'
  BY DEF TurnsInv, FlatTypes, ClientsAlive, Finish

LEMMA TurnsStep ==
  ASSUME TurnsInv, [Next]_vars
  PROVE  /\ \A i \in Tasks : Progress(i)'
         /\ ClientsAlive'
<1> DEFINE Goal == (\A i \in Tasks : Progress(i)') /\ ClientsAlive'
<1> USE DEF TurnsInv, FlatTypes, tasks, streams, tables, control, requests, waits
<1>1. ASSUME NEW t \in Turns, TurnStart(t) PROVE Goal
  <2>1. PICK i \in Tasks : /\ turn[i] = None /\ turn' = [turn EXCEPT ![i] = t]
                           /\ pc' = [pc EXCEPT ![i] = "created"]
    BY <1>1 DEF TurnStart
  <2>2. t # None /\ sdk[i] = None
    BY <2>1, ClaudeConstants DEF Progress
  <2>3. \A j \in Tasks : Progress(j)'
    BY <1>1, <2>1, <2>2 DEF TurnStart, Progress, None
  <2>4. ClientsAlive'
    BY <1>1, <2>1, <2>2 DEF TurnStart, ClientsAlive, None
  <2>5. QED
    BY <2>3, <2>4
<1>2. CASE \/ \E t \in Turns : Cancel(t)
           \/ CancelReported \/ Stop \/ Stopped \/ StopTimesOut
           \/ \E p \in Approvals : Expiry(p) \/ \E d \in Decisions : Respond(p, d)
           \/ UNCHANGED vars
  <2>1. turn' = turn /\ pc' = pc /\ sdk' = sdk /\ killed' = killed
    BY <1>2 DEF Cancel, CancelReported, Stop, Stopped, StopTimesOut, Expiry, Timeout, Wake, Respond, vars
  <2>2. clients' = clients \/ clients' = [t \in Turns |-> 0]
    BY <1>2 DEF Cancel, CancelReported, Stop, Stopped, StopTimesOut, Expiry, Timeout, Wake, Respond, vars
  <2>3. QED
    BY <2>1, <2>2 DEF Progress, ClientsAlive
<1>3. ASSUME NEW i \in Tasks, TaskStep(i) PROVE Goal
  <2>1. clients' = clients /\ turn' = turn
    BY <1>3 DEF TaskStep, RunTurn, Tell, StartSdkTask, Forward, DoneCallback, TaskCancelled, TaskClosed
  <2>2. \A j \in Tasks : Progress(j)'
    BY <1>3, <2>1 DEF TaskStep, RunTurn, Tell, StartSdkTask, Forward, DoneCallback, TaskCancelled, TaskClosed, Progress, None
  <2>3. sdk' = sdk \/ (sdk[i] = None /\ sdk' = [sdk EXCEPT ![i] = "created"])
    BY <1>3 DEF TaskStep, RunTurn, Tell, StartSdkTask, Forward, DoneCallback, TaskCancelled, TaskClosed, Progress, None
  <2>4. ClientsAlive'
    BY <2>1, <2>3 DEF ClientsAlive, None
  <2>5. QED
    BY <2>2, <2>4
<1>4. ASSUME NEW i \in Tasks, SdkStep(i) \/ StreamBreaks(i) \/ \E o \in Tools : Ask(i, o) PROVE Goal
  <2>1. turn' = turn /\ pc' = pc
    BY <1>4 DEF SdkStep, StreamBreaks, Ask, CreateClient, Connect, Result, Break, Exit, SdkCancelled
  <2>2. sdk[i] # None
    BY <1>4 DEF SdkStep, StreamBreaks, Ask, CreateClient, Connect, Result, Break, Exit, SdkCancelled, Alive, Progress, None
  <2>3. sdk[i] # None /\ turn[i] \in Turns
    <3>1. pc[i] # None
      BY <2>2 DEF Progress
    <3>2. QED
      BY <2>2, <3>1 DEF Progress
  <2>4. killed' = killed /\ sdk'[i] # None /\ \A j \in Tasks : j # i => sdk'[j] = sdk[j]
    <3>1. \A items : Finish(i, items) => \E at \in {"over"} : sdk' = [sdk EXCEPT ![i] = at]
      BY DEF Finish
    <3>2. /\ killed' = killed
          /\ sdk' = sdk \/ \E at \in {"connect", "stream", "exit", "over"} : sdk' = [sdk EXCEPT ![i] = at]
      <4>1. CASE CreateClient(i) \/ Connect(i) \/ Break(i) \/ \E kind \in {"completed", "failed"} : Result(i, kind)
        BY <3>1, <4>1 DEF CreateClient, Connect, Break, Result
      <4>2. CASE Exit(i)
        BY <3>1, <4>2 DEF Exit
      <4>3. CASE SdkCancelled(i)
        BY <3>1, <4>3 DEF SdkCancelled
      <4>4. CASE StreamBreaks(i) \/ \E o \in Tools : Ask(i, o)
        BY <4>4 DEF StreamBreaks, Ask, streams
      <4>5. QED
        BY <1>4, <4>1, <4>2, <4>3, <4>4 DEF SdkStep
    <3>3. sdk \in [Tasks -> {None, "created", "connect", "stream", "exit", "over"}] /\ \A at \in {"connect", "stream", "exit", "over"} : at # None
      BY DEF TurnsInv, FlatTypes, None
    <3>4. QED
      BY <2>2, <3>2, <3>3
  <2>5. \A j \in Tasks : Progress(j)'
    BY <2>1, <2>3, <2>4 DEF Progress
  <2>6. /\ clients \in [Turns -> Tasks \cup {0}]
        /\ \A t \in Turns : clients[t] # 0 => turn[clients[t]] = t /\ sdk[clients[t]] \in {"connect", "stream", "exit"}
    BY DEF ClientsAlive
  <2> HIDE DEF TurnsInv, FlatTypes
  <2>7. ASSUME NEW items, Finish(i, items) PROVE ClientsAlive'
    BY <2>1, <2>3, <2>7, FinishKeepsClients
  <2>8. ASSUME clients' = clients /\ (sdk'[i] \in {"connect", "stream", "exit"} \/ sdk[i] = "created")
        PROVE  ClientsAlive'
    BY <2>1, <2>4, <2>6, <2>8 DEF ClientsAlive
  <2>9. ASSUME clients' = [clients EXCEPT ![turn[i]] = i] /\ sdk'[i] = "connect"
        PROVE  ClientsAlive'
    BY <2>1, <2>3, <2>4, <2>6, <2>9 DEF ClientsAlive
  <2>10. \/ \E items : Finish(i, items)
         \/ clients' = clients /\ (sdk'[i] \in {"connect", "stream", "exit"} \/ sdk[i] = "created")
         \/ clients' = [clients EXCEPT ![turn[i]] = i] /\ sdk'[i] = "connect"
    BY <1>4 DEF SdkStep, StreamBreaks, Ask, CreateClient, Connect, Result, Break, Exit, SdkCancelled, Alive, FlatTypes, TurnsInv
  <2>11. QED
    BY <2>5, <2>7, <2>8, <2>9, <2>10
<1>5. QED
  BY <1>1, <1>2, <1>3, <1>4 DEF Next, Server
------------------------------------------------------------------------------
(* Approvals *)

\* The rest of the state of approvals, and the turns of their tasks.
ApprovalsAlone ==
  /\ UNCHANGED <<asker, tool, answer, acks, late, future, fate, granted>>
  /\ \A i \in Tasks : turn[i] # None => turn'[i] = turn[i]

LEMMA OthersLeaveApprovals ==
  ASSUME TurnsInv,
         \/ \E t \in Turns : TurnStart(t) \/ Cancel(t)
         \/ CancelReported \/ Stop \/ StopTimesOut
         \/ \E i \in Tasks : \/ TaskStep(i) \/ StreamBreaks(i) \/ Break(i)
                             \/ \E kind \in {"completed", "failed"} : Result(i, kind)
         \/ UNCHANGED vars
  PROVE  ApprovalsAlone
<1> USE DEF ApprovalsAlone, tasks, streams, tables, control, requests, waits
<1>1. ASSUME NEW t \in Turns, TurnStart(t) PROVE ApprovalsAlone
  BY <1>1 DEF TurnStart, TurnsInv, FlatTypes
<1>2. ASSUME NEW t \in Turns, Cancel(t) PROVE ApprovalsAlone
  BY <1>2 DEF Cancel
<1>3. CASE CancelReported \/ Stop \/ StopTimesOut \/ UNCHANGED vars
  BY <1>3 DEF CancelReported, Stop, StopTimesOut, vars
<1>4. ASSUME NEW i \in Tasks, TaskStep(i) PROVE ApprovalsAlone
  BY <1>4 DEF TaskStep, RunTurn, Tell, StartSdkTask, Forward, DoneCallback, TaskCancelled, TaskClosed
<1>5. ASSUME NEW i \in Tasks, StreamBreaks(i) \/ Break(i) \/ \E kind \in {"completed", "failed"} : Result(i, kind)
      PROVE  ApprovalsAlone
  BY <1>5 DEF StreamBreaks, Break, Result
<1>6. QED
  BY <1>1, <1>2, <1>3, <1>4, <1>5

\* Closing a client ends the callbacks of its task and leaves the answers alone.
Closed(i) ==
  /\ UNCHANGED <<asker, tool, answer, acks, late, granted, turn>>
  /\ future' = [p \in Approvals |-> IF asker[p] = i /\ future[p] # None THEN "over" ELSE future[p]]
  /\ fate' = [p \in Approvals |-> IF asker[p] = i /\ future[p] # "over" THEN "aborted" ELSE fate[p]]

LEMMA ClosingApprovals ==
  ASSUME NEW i \in Tasks, CreateClient(i) \/ Connect(i) \/ Exit(i) \/ SdkCancelled(i)
  PROVE  Closed(i) \/ (UNCHANGED <<asker, tool, answer, acks, late, future, fate, granted, turn>>)
  BY DEF CreateClient, Connect, Exit, SdkCancelled, Finish, Closed, tasks, streams, tables, control,
         requests, waits

LEMMA AskedStep ==
  ASSUME TurnsInv, \A p \in Approvals : Asked(p), [Next]_vars
  PROVE  \A p \in Approvals : Asked(p)'
<1> SUFFICES ASSUME NEW p \in Approvals PROVE Asked(p)'
  OBVIOUS
<1>0. FlatTypes /\ \A q \in Approvals : Asked(q)
  BY DEF TurnsInv
<1>1. ASSUME ApprovalsAlone PROVE Asked(p)'
  BY <1>0, <1>1 DEF Asked, ApprovalsAlone, FlatTypes, None
<1>2. CASE Stopped
  BY <1>0, <1>2 DEF Stopped, Asked, tasks, streams, requests
<1>3. ASSUME NEW i \in Tasks, CreateClient(i) \/ Connect(i) \/ Exit(i) \/ SdkCancelled(i) PROVE Asked(p)'
  <2>1. Closed(i) \/ (UNCHANGED <<asker, tool, answer, acks, late, future, fate, granted, turn>>)
    BY <1>3, ClosingApprovals
  <2>2. CASE Closed(i)
    BY <1>0, <2>2 DEF Closed, Asked, FlatTypes, Tasks, None
  <2>3. CASE UNCHANGED <<asker, tool, answer, acks, late, future, fate, granted, turn>>
    BY <1>0, <2>3 DEF Asked
  <2>4. QED
    BY <2>1, <2>2, <2>3
<1>4. ASSUME NEW i \in Tasks, NEW o \in Tools, Ask(i, o) PROVE Asked(p)'
  <2>1. turn[i] # None /\ o # None /\ i # 0 /\ turn' = turn
    BY <1>4, ClaudeConstants DEF Ask, Alive, TurnsInv, FlatTypes, Progress, Tasks, None, tasks
  <2>2. QED
    BY <1>0, <1>4, <2>1 DEF Ask, Asked, FlatTypes, None, requests, tasks
<1>5. ASSUME NEW q \in Approvals, NEW d \in Decisions, Respond(q, d) PROVE Asked(p)'
  BY <1>0, <1>5 DEF Respond, Asked, FlatTypes, Decisions, None, tasks
<1>6. ASSUME NEW q \in Approvals, Timeout(q) PROVE Asked(p)'
  BY <1>0, <1>6 DEF Timeout, Asked, FlatTypes, None, tasks
<1>7. ASSUME NEW q \in Approvals, Wake(q) PROVE Asked(p)'
  BY <1>0, <1>7 DEF Wake, Grant, Asked, FlatTypes, None, tasks, requests
<1>8. QED
  BY <1>1, <1>2, <1>3, <1>4, <1>5, <1>6, <1>7, OthersLeaveApprovals DEF Next, Server, SdkStep, Expiry

\* What is remembered stays backed by its answer, whatever happens to the approvals.
LEMMA RememberedStep ==
  ASSUME TurnsInv, \A p \in Approvals : Asked(p), [Next]_vars,
         \A g \in granted : Remembered(g), GrantedByAnswer
  PROVE  (\A g \in granted' : Remembered(g)') /\ GrantedByAnswer'
<1> DEFINE Goal == (\A g \in granted' : Remembered(g)') /\ GrantedByAnswer'
<1>0. /\ FlatTypes /\ \A q \in Approvals : Asked(q)
      /\ \A g \in granted : Remembered(g)
  BY DEF TurnsInv
\* Answers once given to a task, and the turn of the task, never change.
<1>1. ASSUME granted' \subseteq granted, \A q \in Approvals : answer[q] # None =>
               /\ answer'[q] = answer[q] /\ tool'[q] = tool[q] /\ asker'[q] = asker[q],
             \A i \in Tasks : turn[i] # None => turn'[i] = turn[i]
      PROVE  \A g \in granted' : Remembered(g)'
  <2>1. SUFFICES ASSUME NEW g \in granted' PROVE Remembered(g)'
    OBVIOUS
  <2>2. PICK q \in Approvals : /\ answer[q] = "acceptForSession" /\ tool[q] \notin Questions
                               /\ asker[q] # 0 /\ g = Key(asker[q], tool[q])
    BY <1>0, <1>1 DEF Remembered
  <2>3. answer[q] # None /\ asker[q] \in Tasks /\ turn[asker[q]] # None
    BY <1>0, <2>2 DEF Asked, FlatTypes, None
  <2>4. QED
    BY <1>1, <2>2, <2>3 DEF Remembered, Key
<1>2. ASSUME ApprovalsAlone PROVE Goal
  <2>1. \A g \in granted' : Remembered(g)'
    BY <1>2, <1>1 DEF ApprovalsAlone
  <2>2. GrantedByAnswer'
    BY <1>0, <1>2 DEF ApprovalsAlone, GrantedByAnswer, Asked, FlatTypes, None
  <2>3. QED
    BY <2>1, <2>2
<1>3. CASE Stopped
  BY <1>0, <1>3, <1>1 DEF Stopped, GrantedByAnswer, tasks, streams, requests
<1>4. ASSUME NEW i \in Tasks, CreateClient(i) \/ Connect(i) \/ Exit(i) \/ SdkCancelled(i) PROVE Goal
  <2>1. Closed(i) \/ (UNCHANGED <<asker, tool, answer, acks, late, future, fate, granted, turn>>)
    BY <1>4, ClosingApprovals
  <2>2. \A p \in Approvals : fate'[p] = "granted" => fate[p] = "granted"
    BY <1>0, <2>1 DEF Closed, FlatTypes
  <2>3. /\ UNCHANGED <<asker, tool, answer, granted, turn>>
    BY <2>1 DEF Closed
  <2>4. \A g \in granted' : Remembered(g)'
    BY <2>3, <1>1
  <2>5. QED
    BY <2>2, <2>3, <2>4 DEF GrantedByAnswer
<1>5. ASSUME NEW i \in Tasks, NEW o \in Tools, Ask(i, o) PROVE Goal
  <2>1. PICK p \in Approvals :
          /\ asker[p] = 0
          /\ asker' = [asker EXCEPT ![p] = i] /\ tool' = [tool EXCEPT ![p] = o]
          /\ \/ /\ CanRemember(o) /\ Key(i, o) \in granted
                /\ fate' = [fate EXCEPT ![p] = "granted"]
             \/ fate' = fate
    BY <1>5 DEF Ask
  <2>2. /\ turn' = turn /\ answer' = answer /\ granted' = granted /\ answer[p] = None
        /\ fate[p] # "granted"
    BY <1>0, <1>5, <2>1 DEF Ask, Asked, tasks, None
  <2>3. \A g \in granted' : Remembered(g)'
    BY <1>0, <1>1, <2>1, <2>2 DEF FlatTypes
  <2>4. ASSUME NEW r \in Approvals, fate'[r] = "granted"
        PROVE  /\ tool'[r] \notin Questions
               /\ \E q \in Approvals \ {r} : /\ answer'[q] = "acceptForSession" /\ tool'[q] = tool'[r]
                                             /\ ThreadOf[turn'[asker'[q]]] = ThreadOf[turn'[asker'[r]]]
    <3>1. CASE r = p
      <4>1. CanRemember(o) /\ Key(i, o) \in granted
        BY <1>0, <2>1, <2>2, <2>4, <3>1 DEF FlatTypes
      <4>2. PICK q \in Approvals : /\ answer[q] = "acceptForSession" /\ tool[q] \notin Questions
                                   /\ asker[q] # 0 /\ Key(i, o) = Key(asker[q], tool[q])
        BY <1>0, <4>1 DEF Remembered
      <4>3. q # p
        BY <2>1, <4>2
      <4>4. tool[q] = o /\ ThreadOf[turn[asker[q]]] = ThreadOf[turn[i]]
        BY <4>2 DEF Key
      <4>5. QED
        BY <1>0, <2>1, <2>2, <3>1, <4>1, <4>2, <4>3, <4>4 DEF FlatTypes, CanRemember
    <3>2. CASE r # p
      <4>1. fate[r] = "granted"
        BY <1>0, <2>1, <2>4, <3>2 DEF FlatTypes
      <4>2. PICK q \in Approvals \ {r} : /\ answer[q] = "acceptForSession" /\ tool[q] = tool[r]
                                         /\ ThreadOf[turn[asker[q]]] = ThreadOf[turn[asker[r]]]
        BY <4>1 DEF GrantedByAnswer
      <4>3. q # p /\ tool[r] \notin Questions
        BY <2>2, <4>1, <4>2 DEF GrantedByAnswer, None
      <4>4. QED
        BY <1>0, <2>1, <2>2, <3>2, <4>2, <4>3 DEF FlatTypes
    <3>3. QED
      BY <3>1, <3>2
  <2>5. QED
    BY <2>3, <2>4 DEF GrantedByAnswer
<1>6. ASSUME NEW r \in Approvals, NEW d \in Decisions, Respond(r, d) PROVE Goal
  <2>1. /\ UNCHANGED <<asker, tool, turn, fate, granted>> /\ answer[r] = None
        /\ \A q \in Approvals \ {r} : answer'[q] = answer[q]
    BY <1>0, <1>6 DEF Respond, Asked, FlatTypes, tasks
  <2>2. \A g \in granted' : Remembered(g)'
    BY <1>1, <2>1
  <2>3. GrantedByAnswer'
    BY <2>1 DEF GrantedByAnswer, None
  <2>4. QED
    BY <2>2, <2>3
<1>7. ASSUME NEW r \in Approvals, Timeout(r) PROVE Goal
  <2>1. UNCHANGED <<asker, tool, turn, fate, granted, answer>>
    BY <1>7 DEF Timeout, tasks
  <2>2. QED
    BY <2>1, <1>1 DEF GrantedByAnswer
<1>8. ASSUME NEW r \in Approvals, Wake(r) PROVE Goal
  <2>1. UNCHANGED <<asker, tool, turn, answer>>
    BY <1>8 DEF Wake, tasks, requests
  <2>2. \A p \in Approvals : fate'[p] = "granted" => fate[p] = "granted"
    BY <1>0, <1>8 DEF Wake, FlatTypes
  <2>3. asker[r] # 0
    BY <1>0, <1>8 DEF Wake, Asked, None
  <2>4. \A g \in granted' : g \in granted \/ Remembered(g)
    BY <1>8, <2>3 DEF Wake, Grant, Remembered, CanRemember
  <2>5. \A g \in granted' : Remembered(g)'
    BY <1>0, <2>1, <2>4 DEF Remembered, Key
  <2>6. QED
    BY <2>1, <2>2, <2>5 DEF GrantedByAnswer
<1>9. QED
  BY <1>2, <1>3, <1>4, <1>5, <1>6, <1>7, <1>8, OthersLeaveApprovals DEF Next, Server, SdkStep, Expiry
------------------------------------------------------------------------------
(* stop() *)

StopInv == \A i \in Tasks : Stoppable(i)

LEMMA StopStep ==
  ASSUME TurnsInv, StopInv, [Next]_vars
  PROVE  StopInv'
<1> SUFFICES ASSUME NEW i \in Tasks PROVE Stoppable(i)'
  BY DEF StopInv
<1>0. FlatTypes /\ Stoppable(i) /\ (pc[i] = None <=> turn[i] = None)
  BY DEF TurnsInv, StopInv, Progress
<1>1. \A j \in Tasks : turn[j] # None => turn'[j] = turn[j]
  <2>1. ASSUME NEW t \in Turns, TurnStart(t) PROVE \A j \in Tasks : turn[j] # None => turn'[j] = turn[j]
    BY <1>0, <2>1 DEF TurnStart, FlatTypes
  <2>2. CASE ~\E t \in Turns : TurnStart(t)
    <3>1. turn' = turn
      <4>1. CASE Server \/ CancelReported \/ Stop \/ Stopped \/ StopTimesOut
        BY <2>2, <4>1 DEF Server, Cancel, Respond, CancelReported, Stop, Stopped, StopTimesOut, tasks
      <4>2. ASSUME NEW j \in Tasks, TaskStep(j) PROVE turn' = turn
        BY <4>2 DEF TaskStep, RunTurn, Tell, StartSdkTask, Forward, DoneCallback, TaskCancelled, TaskClosed, tasks
      <4>3. ASSUME NEW j \in Tasks, SdkStep(j) \/ StreamBreaks(j) \/ \E o \in Tools : Ask(j, o) PROVE turn' = turn
        BY <4>3 DEF SdkStep, CreateClient, Connect, Result, Break, Exit, SdkCancelled, StreamBreaks, Ask, tasks
      <4>4. ASSUME NEW p \in Approvals, Expiry(p) PROVE turn' = turn
        BY <4>4 DEF Expiry, Timeout, Wake, tasks
      <4>5. QED
        BY <4>1, <4>2, <4>3, <4>4 DEF Next, vars, tasks
    <3>2. QED
      BY <3>1
  <2>3. QED
    BY <2>1, <2>2
<1>2. turn[i] # None => turn'[i] = turn[i] /\ (Repeated(i) => Repeated(i)')
  <2>1. ASSUME turn[i] # None, Repeated(i) PROVE Repeated(i)'
    <3>1. PICK j \in Tasks \ {i} : turn[j] = turn[i]
      BY <2>1 DEF Repeated
    <3>2. turn'[j] = turn[j] /\ turn'[i] = turn[i]
      BY <1>1, <2>1, <3>1
    <3>3. QED
      BY <3>1, <3>2 DEF Repeated
  <2>2. QED
    BY <1>1, <2>1
<1>3. ASSUME NEW t \in Turns, TurnStart(t) PROVE Stoppable(i)'
  <2>1. PICK k \in Tasks : /\ turn[k] = None /\ turn' = [turn EXCEPT ![k] = t]
                           /\ pc' = [pc EXCEPT ![k] = "created"]
                           /\ turnTasks' = [turnTasks EXCEPT ![t] = k] /\ phase' = phase /\ phase = "running"
    BY <1>3 DEF TurnStart, Handling, control
  <2>2. CASE i = k
    BY <1>0, <2>1, <2>2 DEF Stoppable, FlatTypes
  <2>3. CASE i # k /\ turn[i] = t
    BY <1>0, <2>1, <2>3 DEF Stoppable, Repeated, FlatTypes
  <2>4. CASE i # k /\ turn[i] # t
    <3>1. pc'[i] = pc[i] /\ turn'[i] = turn[i]
      BY <1>0, <2>1, <2>4 DEF FlatTypes
    <3>2. pc[i] \in {None, "gone"} \/ turn[i] \in Turns
      BY <1>0 DEF FlatTypes
    <3>3. turn[i] \in Turns => turnTasks'[turn[i]] = turnTasks[turn[i]]
      BY <1>0, <2>1, <2>4 DEF FlatTypes
    <3>4. pc[i] \in {None, "gone"} \/ turn[i] # None
      BY <1>0
    <3>5. QED
      BY <1>0, <1>2, <2>1, <3>1, <3>2, <3>3, <3>4 DEF Stoppable
  <2>5. QED
    BY <2>2, <2>3, <2>4
<1>4. ASSUME NEW j \in Tasks, DoneCallback(j) PROVE Stoppable(i)'
  <2>1. /\ pc[j] = "done" /\ pc' = [pc EXCEPT ![j] = "gone"] /\ turn' = turn /\ phase' = phase /\ toStop' = toStop
        /\ turnTasks' = [turnTasks EXCEPT ![turn[j]] = 0] /\ turn[j] # None
    BY <1>4 DEF DoneCallback, TurnsInv, Progress, None, control
  <2>2. CASE i = j
    BY <1>0, <2>1, <2>2 DEF Stoppable, FlatTypes
  <2>3. CASE i # j /\ turn[i] = turn[j]
    BY <1>0, <2>1, <2>3 DEF Stoppable, Repeated, FlatTypes
  <2>4. CASE i # j /\ turn[i] # turn[j]
    BY <1>0, <2>1, <2>4 DEF Stoppable, Repeated, FlatTypes
  <2>5. QED
    BY <2>2, <2>3, <2>4
<1>5. ASSUME NEW j \in Tasks, RunTurn(j) \/ StartSdkTask(j) \/ Forward(j) \/ TaskCancelled(j) \/ TaskClosed(j)
      PROVE  Stoppable(i)'
  <2>1. turn' = turn /\ turnTasks' = turnTasks /\ phase' = phase /\ toStop' = toStop
    BY <1>5 DEF RunTurn, Tell, StartSdkTask, Forward, TaskCancelled, TaskClosed, control
  <2>2. pc[j] \notin {None, "done", "gone"}
    BY <1>5 DEF RunTurn, Tell, StartSdkTask, Forward, TaskCancelled, TaskClosed, None
  <2>3. \A k \in Tasks : k # j => pc'[k] = pc[k]
    BY <1>0, <1>5 DEF RunTurn, Tell, StartSdkTask, Forward, TaskCancelled, TaskClosed, FlatTypes
  <2>4. CASE i # j
    BY <1>0, <2>1, <2>3, <2>4 DEF Stoppable, Repeated
  <2>5. CASE i = j
    <3>1. turn[i] # None /\ (turnTasks[turn[i]] = i \/ Repeated(i)) /\ (phase # "running" => i \in toStop \/ Repeated(i))
      BY <1>0, <2>2, <2>5 DEF Stoppable
    <3>2. ~(phase = "stopped" /\ i \in toStop)
      BY <1>0, <2>2, <2>5 DEF Stoppable
    <3>3. Repeated(i) => Repeated(i)'
      BY <1>2, <3>1
    <3>4. QED
      BY <2>1, <3>1, <3>2, <3>3 DEF Stoppable
  <2>6. QED
    BY <2>4, <2>5
<1>6. CASE Stop
  <2>1. UNCHANGED <<turn, pc, turnTasks>> /\ phase' = "stopping" /\ toStop' = {turnTasks[t] : t \in Turns} \ {0}
    BY <1>6 DEF Stop
  <2>2. i # 0 /\ (pc[i] = None \/ turn[i] \in Turns)
    BY <1>0 DEF FlatTypes, Tasks
  <2>3. QED
    BY <1>0, <2>1, <2>2 DEF Stoppable, Repeated
<1>7. CASE Stopped
  BY <1>0, <1>7 DEF Stopped, Stoppable, Repeated, tasks
<1>8. CASE StopTimesOut
  BY <1>0, <1>8 DEF StopTimesOut, Stoppable, Repeated, tasks
<1>9. ASSUME UNCHANGED <<tasks, turnTasks, phase>> PROVE Stoppable(i)'
  BY <1>0, <1>9 DEF Stoppable, Repeated, tasks
<1>10. ASSUME \/ CancelReported \/ UNCHANGED vars
              \/ \E t \in Turns : Cancel(t)
              \/ \E j \in Tasks : SdkStep(j) \/ StreamBreaks(j) \/ \E o \in Tools : Ask(j, o)
              \/ \E p \in Approvals : Expiry(p) \/ \E d \in Decisions : Respond(p, d)
       PROVE  UNCHANGED <<tasks, turnTasks, phase>>
  BY <1>10 DEF CancelReported, Cancel, SdkStep, CreateClient, Connect, Result, Break, Exit, SdkCancelled, StreamBreaks,
          Ask, Expiry, Respond, Timeout, Wake, control, tasks, vars
<1>11. QED
  BY <1>3, <1>4, <1>5, <1>6, <1>7, <1>8, <1>9, <1>10 DEF Next, Server, TaskStep
------------------------------------------------------------------------------
(* The theorems *)

ClaudeInv ==
  /\ TurnsInv /\ StopInv /\ \A p \in Approvals : Asked(p)
  /\ \A g \in granted : Remembered(g)
  /\ GrantedByAnswer

LEMMA TypesStep ==
  ASSUME TurnsInv, \A p \in Approvals : Asked(p), [Next]_vars
  PROVE  FlatTypes'
<1>0. FlatTypes
  BY DEF TurnsInv
<1>1. ASSUME NEW t \in Turns, TurnStart(t) \/ Cancel(t) PROVE FlatTypes'
  BY <1>0, <1>1, RequestTypes
<1>2. CASE CancelReported \/ Stop \/ Stopped \/ StopTimesOut
  <2> USE <1>0 DEF FlatTypes, tasks, streams, tables, control, requests, waits
  <2>1. CASE CancelReported
    BY <2>1 DEF CancelReported
  <2>2. CASE Stop
    BY <2>2 DEF Stop
  <2>3. CASE Stopped
    BY <2>3 DEF Stopped
  <2>4. CASE StopTimesOut
    BY <2>4 DEF StopTimesOut
  <2>5. QED
    BY <1>2, <2>1, <2>2, <2>3, <2>4
<1>3. ASSUME NEW i \in Tasks, TaskStep(i) \/ SdkStep(i) \/ StreamBreaks(i) \/ \E o \in Tools : Ask(i, o) PROVE FlatTypes'
  BY <1>0, <1>3, TaskTypes, SdkTypes
<1>4. ASSUME NEW p \in Approvals, Expiry(p) \/ \E d \in Decisions : Respond(p, d) PROVE FlatTypes'
  BY <1>0, <1>4, ApprovalTypes
<1>5. CASE UNCHANGED vars
  BY <1>0, <1>5 DEF FlatTypes, vars, tasks, streams, tables, control, requests, waits
<1>6. QED
  BY <1>1, <1>2, <1>3, <1>4, <1>5 DEF Next, Server

LEMMA SequencesStep ==
  ASSUME FlatTypes, SequenceTypes, [Next]_vars
  PROVE  SequenceTypes'
<1>0. /\ queue \in [Tasks -> Seq(Items)] /\ reported \in [Tasks -> Seq(Terminals)]
      /\ {"completed", "failed", "cancelled"} = Terminals
  BY DEF SequenceTypes, Terminals
<1>1. ASSUME NEW i \in Tasks, RunTurn(i) PROVE SequenceTypes'
  <2>1. Append(reported[i], "failed") \in Seq(Terminals)
    BY <1>0
  <2>2. QED
    BY <1>0, <1>1, <2>1 DEF RunTurn, Tell, SequenceTypes
<1>2. ASSUME NEW i \in Tasks, Forward(i) PROVE SequenceTypes'
  <2>1. Tail(queue[i]) \in Seq(Items)
    BY <1>0, <1>2, ItemsAppended DEF Forward, Tell
  <2>2. \A k \in Terminals : Append(reported[i], k) \in Seq(Terminals)
    BY <1>0
  <2>3. QED
    BY <1>0, <1>2, <2>1, <2>2 DEF Forward, Tell, SequenceTypes
<1>3. ASSUME NEW i \in Tasks, NEW items \in {<<>>} \cup {<<Terminal(k)>> : k \in Terminals}, Finish(i, items)
      PROVE  queue' \in [Tasks -> Seq(Items)]
  <2>1. queue[i] \o items \o <<Ended>> \in Seq(Items)
    BY <1>0, <1>3, ItemsAppended
  <2>2. QED
    BY <1>0, <1>3, <2>1 DEF Finish
<1>4. ASSUME NEW i \in Tasks, CreateClient(i) \/ Connect(i) \/ Exit(i) \/ SdkCancelled(i) PROVE SequenceTypes'
  <2>1. reported' = reported
    BY <1>4 DEF CreateClient, Connect, Exit, SdkCancelled
  <2>2. queue[i] \o <<Terminal("failed"), Ended>> \in Seq(Items)
    BY <1>0, ItemsAppended
  <2>3. \/ queue' = queue
        \/ queue' = [queue EXCEPT ![i] = @ \o <<Terminal("failed"), Ended>>]
        \/ \E items \in {<<>>} \cup {<<Terminal(k)>> : k \in Terminals} : Finish(i, items)
    <3>1. {<<>>, <<Terminal("failed")>>, <<Terminal("cancelled")>>} \subseteq {<<>>} \cup {<<Terminal(k)>> : k \in Terminals}
      BY <1>0
    <3>2. QED
      BY <1>4, <3>1 DEF CreateClient, Connect, Exit, SdkCancelled
  <2>4. QED
    BY <1>0, <1>3, <2>1, <2>2, <2>3 DEF SequenceTypes
<1>5. ASSUME NEW i \in Tasks, NEW kind \in {"completed", "failed"}, Result(i, kind) PROVE SequenceTypes'
  <2>1. \A k \in Terminals : Append(queue[i], Terminal(k)) \in Seq(Items)
    BY <1>0, ItemsAppended
  <2>2. PICK k \in Terminals : queue' = [queue EXCEPT ![i] = Append(@, Terminal(k))]
    BY <1>0, <1>5 DEF Result
  <2>3. QED
    BY <1>0, <1>5, <2>1, <2>2 DEF Result, SequenceTypes
<1>6. ASSUME NEW i \in Tasks, NEW o \in Tools, Ask(i, o) PROVE SequenceTypes'
  <2>1. \A p \in Approvals : Append(queue[i], Request(p)) \in Seq(Items)
    BY <1>0, ItemsAppended
  <2>2. \/ queue' = queue
        \/ \E p \in Approvals : queue' = [queue EXCEPT ![i] = Append(queue[i], Request(p))]
    BY <1>6 DEF Ask
  <2>3. queue' = queue \/ \E q \in Seq(Items) : queue' = [queue EXCEPT ![i] = q]
    BY <2>1, <2>2
  <2>4. queue' \in [Tasks -> Seq(Items)]
    BY <1>0, <2>3
  <2>5. reported' = reported
    BY <1>6 DEF Ask
  <2>6. QED
    BY <1>0, <2>4, <2>5 DEF SequenceTypes
<1>7. ASSUME NEW i \in Tasks,
             StartSdkTask(i) \/ DoneCallback(i) \/ TaskCancelled(i) \/ TaskClosed(i) \/ Break(i) \/ StreamBreaks(i)
      PROVE  SequenceTypes'
  BY <1>0, <1>7 DEF StartSdkTask, DoneCallback, TaskCancelled, TaskClosed, Break, StreamBreaks, SequenceTypes
<1>8. CASE \/ CancelReported \/ Stop \/ Stopped \/ StopTimesOut \/ UNCHANGED vars
           \/ \E t \in Turns : TurnStart(t) \/ Cancel(t)
           \/ \E p \in Approvals : Expiry(p) \/ \E d \in Decisions : Respond(p, d)
  BY <1>0, <1>8 DEF CancelReported, Stop, Stopped, StopTimesOut, vars, TurnStart, Cancel, Expiry, Timeout, Wake,
                    Respond, SequenceTypes
<1>9. QED
  BY <1>1, <1>2, <1>4, <1>5, <1>6, <1>7, <1>8 DEF Next, Server, TaskStep, SdkStep

LEMMA ClaudeInit == Init => ClaudeInv
<1> SUFFICES ASSUME Init PROVE ClaudeInv
  OBVIOUS
<1>1. FlatTypes
  BY FlatInit
<1>2. TurnsInv
  BY <1>1 DEF Init, TurnsInv, Progress, ClientsAlive, None
<1>3. StopInv
  BY DEF Init, StopInv, Stoppable, None
<1>4. \A p \in Approvals : Asked(p)
  BY DEF Init, Asked, None
<1>5. granted = {} /\ GrantedByAnswer
  BY DEF Init, GrantedByAnswer, None
<1>6. QED
  BY <1>2, <1>3, <1>4, <1>5 DEF ClaudeInv

LEMMA ClaudeStep == ClaudeInv /\ [Next]_vars => ClaudeInv'
<1> SUFFICES ASSUME ClaudeInv, [Next]_vars PROVE ClaudeInv'
  OBVIOUS
<1>0. /\ TurnsInv /\ StopInv /\ \A p \in Approvals : Asked(p)
      /\ \A g \in granted : Remembered(g)
      /\ GrantedByAnswer
  BY DEF ClaudeInv
<1>1. FlatTypes'
  BY <1>0, TypesStep
<1>2. TurnsInv'
  BY <1>0, <1>1, TurnsStep DEF TurnsInv
<1>3. StopInv'
  BY <1>0, StopStep
<1>4. \A p \in Approvals : Asked(p)'
  BY <1>0, AskedStep
<1>5. (\A g \in granted' : Remembered(g)') /\ GrantedByAnswer'
  BY <1>0, RememberedStep
<1>6. QED
  BY <1>2, <1>3, <1>4, <1>5 DEF ClaudeInv

LEMMA TurnsTracked == Spec => []ClaudeInv
  BY ClaudeInit, ClaudeStep, PTL DEF Spec

\* A cancel and stop() find under a turn_id only a client whose run_sdk is going on, with
\* any number of tasks that share turn_ids (claude_agent_sdk.py, _active_clients).
THEOREM ClientsRun == Spec => []ClientsAlive
<1>1. ClaudeInv => ClientsAlive
  BY DEF ClaudeInv, TurnsInv
<1>2. QED
  BY TurnsTracked, <1>1, PTL

\* When stop() has come to its end no turn goes on but those whose turn_id was started
\* twice (cli.py, ClaudeCodeConnector.stop).
THEOREM StopEnds == Spec => []StopEndsTurns
<1>1. ClaudeInv => StopEndsTurns
  BY DEF ClaudeInv, StopInv, Stoppable, Repeated, StopEndsTurns, TurnsInv, FlatTypes
<1>2. QED
  BY TurnsTracked, <1>1, PTL

\* A callback waits only while run_sdk of its turn streams or closes its client.
Waiting(p) == future[p] \in {"pending", "set", "cancelled"} => sdk[asker[p]] \in {"stream", "exit"}

LEMMA WaitingStep ==
  ASSUME TurnsInv, \A q \in Approvals : Asked(q) /\ Waiting(q), [Next]_vars
  PROVE  \A q \in Approvals : Waiting(q)'
<1> SUFFICES ASSUME NEW p \in Approvals PROVE Waiting(p)'
  OBVIOUS
<1>0. /\ Waiting(p) /\ (asker[p] = 0 <=> future[p] = None)
      /\ asker \in [Approvals -> Tasks \cup {0}]
      /\ sdk \in [Tasks -> {None, "created", "connect", "stream", "exit", "over"}]
      /\ future \in [Approvals -> {None, "pending", "set", "cancelled", "over"}]
  BY DEF TurnsInv, FlatTypes, Asked
\* Other tasks, and other steps of its own, leave the callback where it is.
<1>1. ASSUME asker' = asker, future' = future, NEW i \in Tasks,
             \A j \in Tasks : j # i => sdk'[j] = sdk[j],
             sdk'[i] \in {"stream", "exit"} \/ sdk[i] \notin {"stream", "exit"} \/ sdk' = sdk
      PROVE  Waiting(p)'
  BY <1>0, <1>1 DEF Waiting, None
<1>2. ASSUME asker' = asker, sdk' = sdk,
             future'[p] \in {"pending", "set", "cancelled"} => future[p] \in {"pending", "set", "cancelled"}
      PROVE  Waiting(p)'
  BY <1>0, <1>2 DEF Waiting
<1>3. CASE \/ Server \/ CancelReported \/ Stop \/ Stopped \/ StopTimesOut \/ UNCHANGED vars
           \/ \E q \in Approvals : Expiry(q)
  <2>1. asker' = asker /\ sdk' = sdk
    BY <1>3 DEF Server, TurnStart, Cancel, Respond, CancelReported, Stop, Stopped, StopTimesOut, Expiry, Timeout, Wake,
                vars, tasks, streams, requests
  <2>2. future' = future \/ \E q \in Approvals, at \in {"set", "cancelled", "over"} :
          future[q] \in {"pending", "set", "cancelled"} /\ future' = [future EXCEPT ![q] = at]
    BY <1>3 DEF Server, TurnStart, Cancel, Respond, CancelReported, Stop, Stopped, StopTimesOut, Expiry, Timeout, Wake,
                vars, waits
  <2>3. QED
    BY <1>0, <1>2, <2>1, <2>2
<1>4. ASSUME NEW i \in Tasks, TaskStep(i) PROVE Waiting(p)'
  <2>1. asker' = asker /\ future' = future
    BY <1>4 DEF TaskStep, RunTurn, StartSdkTask, Forward, DoneCallback, TaskCancelled, TaskClosed, requests, waits
  <2>2. sdk' = sdk \/ (sdk[i] = None /\ sdk' = [sdk EXCEPT ![i] = "created"])
    BY <1>4 DEF TaskStep, RunTurn, StartSdkTask, Forward, DoneCallback, TaskCancelled, TaskClosed, streams,
                TurnsInv, Progress, None
  <2>3. QED
    BY <1>0, <1>1, <2>1, <2>2 DEF None
<1>5. ASSUME NEW i \in Tasks, NEW items, Finish(i, items), asker' = asker PROVE Waiting(p)'
  BY <1>0, <1>5 DEF Finish, Waiting, Tasks
<1>6. ASSUME NEW i \in Tasks, NEW o \in Tools, Ask(i, o) PROVE Waiting(p)'
  <2>1. PICK q \in Approvals : /\ asker[q] = 0 /\ asker' = [asker EXCEPT ![q] = i]
                               /\ \E at \in {"pending", "over"} : future' = [future EXCEPT ![q] = at]
    BY <1>6 DEF Ask
  <2>2. sdk[i] = "stream" /\ sdk' = sdk
    BY <1>6 DEF Ask, streams
  <2>3. QED
    BY <1>0, <2>1, <2>2 DEF Waiting
<1>7. ASSUME NEW i \in Tasks, SdkStep(i) \/ StreamBreaks(i) PROVE Waiting(p)'
  <2>1. \/ \E items : Finish(i, items) /\ asker' = asker
        \/ /\ asker' = asker /\ future' = future
           /\ \/ sdk[i] \in {"created", "connect"} /\ \E at \in {"connect", "stream", "over"} : sdk' = [sdk EXCEPT ![i] = at]
              \/ sdk[i] = "stream" /\ sdk' = [sdk EXCEPT ![i] = "exit"]
    BY <1>7 DEF SdkStep, CreateClient, Connect, Result, Break, Exit, SdkCancelled, StreamBreaks, requests, waits
  <2>2. QED
    BY <1>0, <1>1, <1>5, <2>1
<1>8. QED
  BY <1>3, <1>4, <1>6, <1>7 DEF Next

\* Only an answer is acknowledged.
LEMMA AcksByRespond ==
  ASSUME [Next]_vars
  PROVE  acks' = acks \/ \E p \in Approvals, d \in Decisions : Respond(p, d)
<1>1. CASE (\E t \in Turns : TurnStart(t) \/ Cancel(t)) \/ CancelReported \/ Stop \/ Stopped \/ StopTimesOut \/ UNCHANGED vars
  BY <1>1 DEF TurnStart, Cancel, CancelReported, Stop, Stopped, StopTimesOut, vars, requests
<1>2. ASSUME NEW i \in Tasks, TaskStep(i) PROVE acks' = acks
  BY <1>2 DEF TaskStep, RunTurn, StartSdkTask, Forward, DoneCallback, TaskCancelled, TaskClosed, requests
<1>3. ASSUME NEW i \in Tasks, SdkStep(i) \/ StreamBreaks(i) \/ \E o \in Tools : Ask(i, o) PROVE acks' = acks
  BY <1>3 DEF SdkStep, CreateClient, Connect, Result, Break, Exit, SdkCancelled, StreamBreaks, Ask, requests
<1>4. ASSUME NEW p \in Approvals, Expiry(p) PROVE acks' = acks
  BY <1>4 DEF Expiry, Timeout, Wake, requests
<1>5. QED
  BY <1>1, <1>2, <1>3, <1>4 DEF Next, Server

LEMMA ToldInit == Init => ToldTypes
  BY DEF Init, ToldTypes

LEMMA ToldStep ==
  ASSUME TurnsInv, ToldTypes, [Next]_vars
  PROVE  ToldTypes'
<1>1. acks' \in [Approvals -> Nat]
  BY AcksByRespond DEF Respond, ToldTypes
<1>2. ASSUME NEW t, NEW k \in Terminals, lastTold' = [lastTold EXCEPT ![t] = k]
      PROVE  lastTold' \in [Turns -> Terminals \cup {None}]
  BY <1>2 DEF ToldTypes
<1>3. lastTold' = lastTold \/ \E t : \E k \in Terminals : lastTold' = [lastTold EXCEPT ![t] = k]
  <2>1. CASE \/ Server \/ Stop \/ Stopped \/ StopTimesOut \/ UNCHANGED vars
             \/ \E p \in Approvals : Expiry(p)
    BY <2>1 DEF Server, TurnStart, Cancel, Respond, Stop, Stopped, StopTimesOut, Expiry, Timeout, Wake, vars
  <2>2. CASE CancelReported
    BY <2>2 DEF CancelReported, Terminals
  <2>3. ASSUME NEW i \in Tasks, SdkStep(i) \/ StreamBreaks(i) \/ \E o \in Tools : Ask(i, o) PROVE lastTold' = lastTold
    BY <2>3 DEF SdkStep, CreateClient, Connect, Result, Break, Exit, SdkCancelled, StreamBreaks, Ask
  <2>4. ASSUME NEW i \in Tasks, TaskStep(i)
        PROVE  lastTold' = lastTold \/ \E t : \E k \in Terminals : lastTold' = [lastTold EXCEPT ![t] = k]
    BY <2>4 DEF TaskStep, RunTurn, StartSdkTask, Forward, Tell, DoneCallback, TaskCancelled, TaskClosed, Terminals
  <2>5. QED
    BY <2>1, <2>2, <2>3, <2>4 DEF Next
<1>4. QED
  BY <1>1, <1>2, <1>3 DEF ToldTypes

\* The tables, tasks, queues and approvals keep their types (ClaudeTurns.TypeOK).
THEOREM ClaudeTypeCorrect == Spec => []TypeOK
<1>1. Init => SequenceTypes /\ ToldTypes
  BY ToldInit DEF Init, SequenceTypes
<1>2. ClaudeInv /\ SequenceTypes /\ ToldTypes /\ [Next]_vars => SequenceTypes' /\ ToldTypes'
  BY SequencesStep, ToldStep DEF ClaudeInv, TurnsInv
<1>3. ClaudeInv /\ SequenceTypes /\ ToldTypes => TypeOK
  BY TypesSplit DEF ClaudeInv, TurnsInv
<1>4. QED
  BY TurnsTracked, <1>1, <1>2, <1>3, PTL DEF Spec

\* An answer is acknowledged as resolved at most once for an approval, and only while its
\* callback waits in a run_sdk that has not ended: neither after the timeout, nor after the
\* callback went on, nor after the end of the turn (resolve_approval, can_use_tool, run_sdk).
THEOREM LateAnswersRejected == Spec => StaleRejected
<1> DEFINE Step == \A p \in Approvals : acks'[p] # acks[p] =>
                     /\ acks[p] = 0 /\ acks'[p] = 1
                     /\ future[p] # "cancelled" /\ fate[p] = None
                     /\ sdk[asker[p]] \in {"stream", "exit"}
<1> DEFINE AllWait == ToldTypes /\ \A p \in Approvals : Waiting(p)
<1>1. Init => AllWait
  BY ToldInit DEF Init, Waiting, None
<1>2. ClaudeInv /\ AllWait /\ [Next]_vars => AllWait'
  BY WaitingStep, ToldStep DEF ClaudeInv, TurnsInv
<1>3. ASSUME ClaudeInv, AllWait, [Next]_vars PROVE Step
  <2>1. SUFFICES ASSUME NEW p \in Approvals, acks'[p] # acks[p]
                 PROVE  /\ acks[p] = 0 /\ acks'[p] = 1
                        /\ future[p] # "cancelled" /\ fate[p] = None
                        /\ sdk[asker[p]] \in {"stream", "exit"}
    OBVIOUS
  <2>2. PICK q \in Approvals : /\ future[q] = "pending" /\ acks' = [acks EXCEPT ![q] = @ + 1]
    BY <1>3, <2>1, AcksByRespond DEF Respond
  <2>3. acks \in [Approvals -> Nat] /\ Asked(q) /\ Waiting(q)
    BY <1>3 DEF ClaudeInv, ToldTypes
  <2>4. q = p
    BY <2>1, <2>2, <2>3
  <2>5. acks[p] = 0 /\ fate[p] = None /\ sdk[asker[p]] \in {"stream", "exit"}
    BY <2>2, <2>3, <2>4 DEF Asked, Waiting
  <2>6. QED
    BY <2>2, <2>3, <2>4, <2>5
<1>4. QED
  <2>1. Spec => [](ClaudeInv /\ AllWait)
    BY TurnsTracked, <1>1, <1>2, PTL DEF Spec
  <2>2. ClaudeInv /\ AllWait /\ [Next]_vars => [Step]_vars
    BY <1>3
  <2>3. QED
    BY <2>1, <2>2, PTL DEF Spec, StaleRejected

\* A permission is given without asking only after an answer for the session to the same
\* operation on the same thread, and never to a question (can_use_tool).
THEOREM GrantsAnswered == Spec => []GrantedByAnswer
<1>1. ClaudeInv => GrantedByAnswer
  BY DEF ClaudeInv
<1>2. QED
  BY TurnsTracked, <1>1, PTL
------------------------------------------------------------------------------
(* The events that end a turn                                              *)

\* A queue, of whose terminal events told were already sent, still holds the rest of
\* said behind some approval requests, and the sentinel if closed is 1.
InTransit(q, told, said, closed) ==
  \E n \in Nat :
    /\ Len(told) <= Len(said) /\ Len(q) = n + (Len(said) - Len(told)) + closed
    /\ \A j \in 1..Len(told) : told[j] = said[j]
    /\ \A j \in 1..n : \E p \in Approvals : q[j] = Request(p)
    /\ \A j \in (Len(told) + 1)..Len(said) : q[n + j - Len(told)] = Terminal(said[j])
    /\ closed = 1 => q[Len(q)] = Ended

\* No cancel has reached the task, and none can: its event is not registered any more.
\* So it is when a result was mapped to "cancelled", which only the event of another task
\* does that had taken the place of its own, and when "completed" is all it has to say.
OutOfReach(i) == ~cancelSet[i] /\ \A t \in Turns : cancelEvents[t] # i

Outcomes(i) == {<<k>> : k \in {k \in Terminals : k = "completed" => OutOfReach(i)}}
                 \cup {<<k, "cancelled">> : k \in {k \in {"completed", "failed"} : cancelSet[i]}}

Tells(i) ==
  /\ pc[i] \in {None, "created", "opening", "consuming"} /\ sdk[i] \notin {"exit", "over"} =>
       InTransit(queue[i], reported[i], <<>>, 0)
  /\ sdk[i] = "exit" =>
       \/ (error[i] \/ cancelSet[i]) /\ InTransit(queue[i], reported[i], <<>>, 0)
       \/ /\ ~error[i]
          /\ \E k \in Terminals : /\ InTransit(queue[i], reported[i], <<k>>, 0)
                                  /\ k = "cancelled" => OutOfReach(i)
  /\ sdk[i] = "over" /\ pc[i] = "consuming" =>
       \E said \in Outcomes(i) : InTransit(queue[i], reported[i], said, 1)
  /\ pc[i] \in {"done", "gone"} => sdk[i] \in {None, "over"} /\ reported[i] \in Outcomes(i)

\* The event registered under a turn_id is that of a task of this turn that has begun.
OwnEvent(t) == cancelEvents[t] # 0 => /\ turn[cancelEvents[t]] = t
                                      /\ pc[cancelEvents[t]] \notin {None, "created"}
Uncancelled(i) == i \notin toStop => pc[i] # "closing" /\ ~killed[i]
FlagsInv ==
  /\ phase = "running" => toStop = {}
  /\ \A t \in Turns : OwnEvent(t)
  /\ \A i \in Tasks : (error[i] => sdk[i] \in {"exit", "over"}) /\ Uncancelled(i)
TerminalInv == FlagsInv /\ \A i \in Tasks : i \notin toStop /\ ~faulty[i] => Tells(i)

LEMMA ItemsDiffer ==
  /\ \A p, k : Request(p) # Terminal(k)
  /\ \A p : Request(p) # Ended
  /\ \A k : Terminal(k) # Ended
  /\ \A k, l : Terminal(k) = Terminal(l) => k = l
  BY DEF Request, Terminal, Ended

\* What run_sdk puts into the queue.
LEMMA TransitRequest ==
  ASSUME NEW q \in Seq(Items), NEW told \in Seq(Terminals), InTransit(q, told, <<>>, 0),
         NEW p \in Approvals
  PROVE  InTransit(Append(q, Request(p)), told, <<>>, 0)
<1>1. PICK n \in Nat : /\ Len(told) <= 0 /\ Len(q) = n + (0 - Len(told)) + 0
                       /\ \A j \in 1..n : \E r \in Approvals : q[j] = Request(r)
  BY DEF InTransit
<1> DEFINE x == Append(q, Request(p))
<1>2. Len(x) = Len(q) + 1 /\ x[Len(q) + 1] = Request(p) /\ \A j \in 1..Len(q) : x[j] = q[j]
  BY DEF Items
<1> HIDE DEF x
<1>3. Len(told) = 0 /\ Len(<<>>) = 0
  BY <1>1
<1>4. \A j \in 1..(n + 1) : \E r \in Approvals : x[j] = Request(r)
  BY <1>1, <1>2, <1>3
<1>5. n + 1 \in Nat /\ Len(x) = (n + 1) + (0 - Len(told)) + 0
  BY <1>1, <1>2, <1>3
<1>6. InTransit(x, told, <<>>, 0)
  BY <1>3, <1>4, <1>5 DEF InTransit
<1>7. QED
  BY <1>6 DEF x

LEMMA TransitTerminal ==
  ASSUME NEW q \in Seq(Items), NEW told \in Seq(Terminals), NEW said \in Seq(Terminals),
         InTransit(q, told, said, 0), NEW k \in Terminals
  PROVE  InTransit(Append(q, Terminal(k)), told, Append(said, k), 0)
<1>1. PICK n \in Nat :
        /\ Len(told) <= Len(said) /\ Len(q) = n + (Len(said) - Len(told)) + 0
        /\ \A j \in 1..Len(told) : told[j] = said[j]
        /\ \A j \in 1..n : \E r \in Approvals : q[j] = Request(r)
        /\ \A j \in (Len(told) + 1)..Len(said) : q[n + j - Len(told)] = Terminal(said[j])
  BY DEF InTransit
<1> DEFINE x == Append(q, Terminal(k))  s == Append(said, k)
<1>2. Len(x) = Len(q) + 1 /\ x[Len(q) + 1] = Terminal(k) /\ \A j \in 1..Len(q) : x[j] = q[j]
  BY DEF Items
<1>3. Len(s) = Len(said) + 1 /\ s[Len(said) + 1] = k /\ \A j \in 1..Len(said) : s[j] = said[j]
  OBVIOUS
<1>4. Len(told) \in Nat /\ Len(said) \in Nat /\ Len(q) \in Nat
  OBVIOUS
<1> HIDE DEF x, s
<1>5. Len(told) <= Len(s) /\ Len(x) = n + (Len(s) - Len(told)) + 0
  BY <1>1, <1>2, <1>3, <1>4
<1>6. \A j \in 1..Len(told) : told[j] = s[j]
  BY <1>1, <1>3, <1>4
<1>7. \A j \in 1..n : \E r \in Approvals : x[j] = Request(r)
  <2>1. \A j \in 1..n : j \in 1..Len(q)
    BY <1>1, <1>4
  <2>2. QED
    BY <1>1, <1>2, <2>1
<1>8. ASSUME NEW j \in (Len(told) + 1)..Len(s) PROVE x[n + j - Len(told)] = Terminal(s[j])
  <2>1. CASE j = Len(s)
    BY <1>1, <1>2, <1>3, <1>4, <2>1
  <2>2. CASE j # Len(s)
    <3>1. j \in (Len(told) + 1)..Len(said) /\ n + j - Len(told) \in 1..Len(q) /\ j \in 1..Len(said)
      BY <1>1, <1>3, <1>4, <1>8, <2>2
    <3>2. QED
      BY <1>1, <1>2, <1>3, <3>1
  <2>3. QED
    BY <2>1, <2>2
<1>9. \A j \in (Len(told) + 1)..Len(s) : x[n + j - Len(told)] = Terminal(s[j])
  BY <1>8
<1>10. InTransit(x, told, s, 0)
  <2>1. 0 # 1
    OBVIOUS
  <2>2. QED
    BY <1>5, <1>6, <1>7, <1>9, <2>1, Zenon DEF InTransit
<1>11. QED
  BY <1>10 DEF x, s

LEMMA TransitEnded ==
  ASSUME NEW q \in Seq(Items), NEW told \in Seq(Terminals), NEW said \in Seq(Terminals),
         InTransit(q, told, said, 0)
  PROVE  InTransit(Append(q, Ended), told, said, 1)
<1>1. PICK n \in Nat :
        /\ Len(told) <= Len(said) /\ Len(q) = n + (Len(said) - Len(told)) + 0
        /\ \A j \in 1..Len(told) : told[j] = said[j]
        /\ \A j \in 1..n : \E r \in Approvals : q[j] = Request(r)
        /\ \A j \in (Len(told) + 1)..Len(said) : q[n + j - Len(told)] = Terminal(said[j])
  BY DEF InTransit
<1> DEFINE x == Append(q, Ended)
<1>2. Len(x) = Len(q) + 1 /\ x[Len(q) + 1] = Ended /\ \A j \in 1..Len(q) : x[j] = q[j]
  BY DEF Items
<1>3. Len(told) \in Nat /\ Len(said) \in Nat /\ Len(q) \in Nat
  OBVIOUS
<1> HIDE DEF x
<1>4. \A j \in 1..n : \E r \in Approvals : x[j] = Request(r)
  <2>1. \A j \in 1..n : j \in 1..Len(q)
    BY <1>1, <1>3
  <2>2. QED
    BY <1>1, <1>2, <2>1
<1>5. \A j \in (Len(told) + 1)..Len(said) : n + j - Len(told) \in 1..Len(q)
  BY <1>1, <1>3
<1>6. \A j \in (Len(told) + 1)..Len(said) : x[n + j - Len(told)] = Terminal(said[j])
  BY <1>1, <1>2, <1>5
<1>7. Len(x) = n + (Len(said) - Len(told)) + 1
  BY <1>1, <1>2, <1>3
<1>8. InTransit(x, told, said, 1)
  BY <1>1, <1>2, <1>4, <1>6, <1>7 DEF InTransit
<1>9. QED
  BY <1>8 DEF x

\* What start_turn takes out of it.
LEMMA TransitForward ==
  ASSUME NEW q \in Seq(Items), NEW told \in Seq(Terminals), NEW said \in Seq(Terminals),
         NEW closed \in {0, 1}, InTransit(q, told, said, closed), q # <<>>
  PROVE  /\ \A p \in Approvals : Head(q) = Request(p) => InTransit(Tail(q), told, said, closed)
         /\ \A k \in Terminals : Head(q) = Terminal(k) => InTransit(Tail(q), Append(told, k), said, closed)
         /\ Head(q) = Ended => closed = 1 /\ told = said
<1>1. PICK n \in Nat :
        /\ Len(told) <= Len(said) /\ Len(q) = n + (Len(said) - Len(told)) + closed
        /\ \A j \in 1..Len(told) : told[j] = said[j]
        /\ \A j \in 1..n : \E r \in Approvals : q[j] = Request(r)
        /\ \A j \in (Len(told) + 1)..Len(said) : q[n + j - Len(told)] = Terminal(said[j])
        /\ closed = 1 => q[Len(q)] = Ended
  BY DEF InTransit
<1> DEFINE x == Tail(q)
<1>2. /\ Len(x) = Len(q) - 1 /\ Head(q) = q[1] /\ Len(q) >= 1
      /\ \A j \in 1..Len(x) : x[j] = q[j + 1]
  BY DEF Items
<1>3. Len(told) \in Nat /\ Len(said) \in Nat /\ Len(q) \in Nat
  OBVIOUS
<1> HIDE DEF x
<1>4. ASSUME n > 0 PROVE InTransit(x, told, said, closed) /\ \E r \in Approvals : q[1] = Request(r)
  <2>1. n - 1 \in Nat /\ 1 \in 1..n /\ Len(x) = (n - 1) + (Len(said) - Len(told)) + closed
    BY <1>1, <1>2, <1>3, <1>4
  <2>2. \A j \in 1..(n - 1) : j + 1 \in 1..n /\ j \in 1..Len(x)
    BY <1>1, <1>2, <1>3, <1>4
  <2>3. \A j \in 1..(n - 1) : \E r \in Approvals : x[j] = Request(r)
    BY <1>1, <1>2, <2>2
  <2>4. ASSUME NEW j \in (Len(told) + 1)..Len(said) PROVE x[(n - 1) + j - Len(told)] = Terminal(said[j])
    <3>1. (n - 1) + j - Len(told) \in 1..Len(x) /\ ((n - 1) + j - Len(told)) + 1 = n + j - Len(told)
      BY <1>1, <1>2, <1>3, <1>4, <2>4
    <3>2. QED
      BY <1>1, <1>2, <2>4, <3>1
  <2>5. closed = 1 => x[Len(x)] = Ended
    <3>1. closed = 1 => Len(x) \in 1..Len(x) /\ Len(x) + 1 = Len(q)
      BY <1>1, <1>2, <1>3, <1>4
    <3>2. QED
      BY <1>1, <1>2, <3>1
  <2>6. InTransit(x, told, said, closed)
    BY <1>1, <2>1, <2>3, <2>4, <2>5 DEF InTransit
  <2>7. QED
    BY <1>1, <2>1, <2>6
<1>5. ASSUME n = 0, Len(told) < Len(said)
      PROVE  q[1] = Terminal(said[Len(told) + 1]) /\ InTransit(x, Append(told, said[Len(told) + 1]), said, closed)
  <2> DEFINE m == Len(told) + 1
  <2>1. m \in (Len(told) + 1)..Len(said) /\ n + m - Len(told) = 1 /\ m \in 1..Len(said)
    BY <1>3, <1>5
  <2>2. q[1] = Terminal(said[m])
    BY <1>1, <2>1
  <2>3. PICK y \in Seq(Terminals) : y = Append(told, said[m])
    <3>1. PICK k \in Terminals : k = said[m]
      BY <2>1
    <3>2. Append(told, k) \in Seq(Terminals)
      OBVIOUS
    <3>3. QED
      BY <3>1, <3>2
  <2>4. Len(y) = m /\ y[m] = said[m] /\ \A j \in 1..Len(told) : y[j] = told[j]
    BY <2>1, <2>3
  <2>5. m <= Len(said) /\ Len(x) = 0 + (Len(said) - m) + closed /\ m \in Nat
    BY <1>1, <1>2, <1>3, <1>5
  <2>6. \A j \in 1..m : y[j] = said[j]
    <3>1. \A j \in 1..m : j = m \/ j \in 1..Len(told)
      BY <1>3
    <3>2. QED
      BY <1>1, <2>4, <3>1
  <2>7. ASSUME NEW j \in (m + 1)..Len(said) PROVE x[0 + j - m] = Terminal(said[j])
    <3>1. j \in (Len(told) + 1)..Len(said) /\ 0 + j - m \in 1..Len(x) /\ (0 + j - m) + 1 = n + j - Len(told)
      BY <1>3, <1>5, <2>5, <2>7
    <3>2. QED
      BY <1>1, <1>2, <3>1
  <2>8. closed = 1 => x[Len(x)] = Ended
    <3>1. closed = 1 => Len(x) \in 1..Len(x) /\ Len(x) + 1 = Len(q)
      BY <1>1, <1>2, <1>3, <1>5
    <3>2. QED
      BY <1>1, <1>2, <3>1
  <2>9. \A j \in 1..0 : \E r \in Approvals : x[j] = Request(r)
    OBVIOUS
  <2> HIDE DEF m
  <2>10. InTransit(x, y, said, closed)
    BY <2>4, <2>5, <2>6, <2>7, <2>8, <2>9 DEF InTransit
  <2>11. QED
    BY <2>2, <2>3, <2>10 DEF m
<1>6. ASSUME n = 0, Len(told) = Len(said) PROVE closed = 1 /\ q[1] = Ended /\ told = said
  <2>1. closed = 1 /\ Len(q) = 1
    BY <1>1, <1>2, <1>3, <1>6
  <2>2. told = said
    BY <1>1, <1>6
  <2>3. QED
    BY <1>1, <2>1, <2>2
<1>7. n > 0 \/ (n = 0 /\ Len(told) < Len(said)) \/ (n = 0 /\ Len(told) = Len(said))
  BY <1>1, <1>3
<1>8. QED
  BY <1>2, <1>4, <1>5, <1>6, <1>7, ItemsDiffer DEF x

LEMMA FlagsStep ==
  ASSUME TurnsInv, FlagsInv, [Next]_vars
  PROVE  FlagsInv'
<1> USE DEF TurnsInv, FlatTypes, tasks, streams, tables, control, requests, waits
<1>1. ASSUME NEW t \in Turns, TurnStart(t) PROVE FlagsInv'
  <2>1. PICK i \in Tasks : /\ turn[i] = None /\ turn' = [turn EXCEPT ![i] = t]
                           /\ pc' = [pc EXCEPT ![i] = "created"]
    BY <1>1 DEF TurnStart
  <2>2. pc[i] = None
    BY <2>1 DEF Progress
  <2>3. UNCHANGED <<cancelEvents, phase, toStop, error, sdk, killed>>
    BY <1>1 DEF TurnStart
  <2>4. \A s \in Turns : OwnEvent(s)'
    BY <2>1, <2>2, <2>3 DEF FlagsInv, OwnEvent
  <2>5. \A j \in Tasks : Uncancelled(j)'
    BY <2>1, <2>2, <2>3 DEF FlagsInv, Uncancelled
  <2>6. QED
    BY <2>3, <2>4, <2>5 DEF FlagsInv
<1>2. CASE \/ \E t \in Turns : Cancel(t)
           \/ CancelReported \/ StopTimesOut
           \/ \E p \in Approvals : Expiry(p) \/ \E d \in Decisions : Respond(p, d)
           \/ UNCHANGED vars
  <2>1. UNCHANGED <<turn, pc, cancelEvents, toStop, error, sdk, killed>> /\ phase' \in {phase, "abandoned"}
    BY <1>2 DEF Cancel, CancelReported, StopTimesOut, Expiry, Timeout, Wake, Respond, vars
  <2>2. QED
    BY <2>1 DEF FlagsInv, OwnEvent, Uncancelled
<1>3. CASE Stop
  <2>1. toStop = {} /\ phase' = "stopping" /\ UNCHANGED <<turn, pc, cancelEvents, error, sdk, killed>>
    BY <1>3 DEF Stop, FlagsInv
  <2>2. QED
    BY <2>1 DEF FlagsInv, OwnEvent, Uncancelled
<1>4. CASE Stopped
  <2>1. /\ phase' = "stopped" /\ cancelEvents' = [t \in Turns |-> 0]
        /\ UNCHANGED <<turn, pc, toStop, error, sdk, killed>>
    BY <1>4 DEF Stopped
  <2>2. QED
    BY <2>1 DEF FlagsInv, OwnEvent, Uncancelled
<1>5. ASSUME NEW i \in Tasks, RunTurn(i) PROVE FlagsInv'
  <2>1. /\ pc[i] = "created" /\ UNCHANGED <<turn, toStop, error, sdk, killed, phase>>
        /\ pc' = [pc EXCEPT ![i] = "done"] \/ pc' = [pc EXCEPT ![i] = "opening"]
        /\ \E e \in {0, i, cancelEvents[turn[i]]} : cancelEvents' = [cancelEvents EXCEPT ![turn[i]] = e]
    BY <1>5 DEF RunTurn, Tell
  <2>2. turn[i] \in Turns
    BY <2>1 DEF Progress, None
  <2>3. PICK e \in {0, i, cancelEvents[turn[i]]} : cancelEvents' = [cancelEvents EXCEPT ![turn[i]] = e]
    BY <2>1
  <2>4. \A s \in Turns : OwnEvent(s)'
    BY <2>1, <2>2, <2>3 DEF FlagsInv, OwnEvent, None
  <2>5. QED
    BY <2>1, <2>4 DEF FlagsInv, Uncancelled
<1>6. ASSUME NEW i \in Tasks, StartSdkTask(i) \/ Forward(i) \/ DoneCallback(i) \/ TaskCancelled(i) \/ TaskClosed(i)
      PROVE  FlagsInv'
  <2>1. UNCHANGED <<turn, toStop, error, cancelEvents, phase>>
    BY <1>6 DEF StartSdkTask, Forward, Tell, DoneCallback, TaskCancelled, TaskClosed
  <2>2. /\ pc[i] \notin {None, "created"} \/ i \in toStop
        /\ \A j \in Tasks : j # i => pc'[j] = pc[j] /\ killed'[j] = killed[j] /\ sdk'[j] = sdk[j]
    BY <1>6 DEF StartSdkTask, Forward, Tell, DoneCallback, TaskCancelled, TaskClosed, None
  <2>3. pc[i] # "created" \/ pc'[i] = "done"
    BY <1>6 DEF StartSdkTask, Forward, Tell, DoneCallback, TaskCancelled, TaskClosed
  <2>4. pc'[i] \notin {None, "created"}
    BY <1>6 DEF StartSdkTask, Forward, Tell, DoneCallback, TaskCancelled, TaskClosed, None
  <2>5. \A s \in Turns : OwnEvent(s)'
    BY <2>1, <2>2, <2>4 DEF FlagsInv, OwnEvent
  <2>6. error[i] => sdk'[i] \in {"exit", "over"}
    BY <1>6 DEF StartSdkTask, Forward, Tell, DoneCallback, TaskCancelled, TaskClosed, FlagsInv, Progress, None
  <2>7. i \notin toStop => pc'[i] # "closing" /\ ~killed'[i]
    BY <1>6 DEF StartSdkTask, Forward, Tell, DoneCallback, TaskCancelled, TaskClosed, FlagsInv, Uncancelled
  <2>8. QED
    BY <2>1, <2>2, <2>5, <2>6, <2>7 DEF FlagsInv, Uncancelled
<1>7. ASSUME NEW i \in Tasks, NEW items, Finish(i, items), UNCHANGED <<turn, pc, toStop, error, killed, phase>>
      PROVE  FlagsInv'
  <2>1. sdk' = [sdk EXCEPT ![i] = "over"] /\ cancelEvents' = [cancelEvents EXCEPT ![turn[i]] = 0]
    BY <1>7 DEF Finish
  <2>2. QED
    BY <1>7, <2>1 DEF FlagsInv, OwnEvent, Uncancelled
<1>8. ASSUME NEW i \in Tasks, NEW at \in {"connect", "stream", "exit", "over"}, sdk' = [sdk EXCEPT ![i] = at],
             sdk[i] \notin {"exit", "over"}, cancelEvents' = cancelEvents \/ cancelEvents' = [cancelEvents EXCEPT ![turn[i]] = 0],
             UNCHANGED <<turn, pc, toStop, error, killed, phase>>
      PROVE  FlagsInv'
  BY <1>8 DEF FlagsInv, OwnEvent, Uncancelled
<1>9. ASSUME NEW i \in Tasks, CreateClient(i) PROVE FlagsInv'
  <2>1. sdk[i] = "created" /\ UNCHANGED <<turn, pc, toStop, error, killed, phase>>
    BY <1>9 DEF CreateClient
  <2>2. /\ \E at \in {"connect", "over"} : sdk' = [sdk EXCEPT ![i] = at]
        /\ cancelEvents' = cancelEvents \/ cancelEvents' = [cancelEvents EXCEPT ![turn[i]] = 0]
    BY <1>9 DEF CreateClient
  <2>3. QED
    BY <1>8, <2>1, <2>2
<1>10. ASSUME NEW i \in Tasks, Connect(i) PROVE FlagsInv'
  BY <1>7, <1>8, <1>10 DEF Connect
<1>11. ASSUME NEW i \in Tasks, Break(i) \/ \E kind \in {"completed", "failed"} : Result(i, kind) PROVE FlagsInv'
  <2>1. /\ sdk[i] = "stream" /\ sdk' = [sdk EXCEPT ![i] = "exit"]
        /\ UNCHANGED <<turn, pc, toStop, error, killed, phase, cancelEvents>>
    BY <1>11 DEF Break, Result
  <2>2. QED
    BY <1>8, <2>1
<1>12. ASSUME NEW i \in Tasks, StreamBreaks(i) PROVE FlagsInv'
  <2>1. /\ sdk' = [sdk EXCEPT ![i] = "exit"]
        /\ error' = [error EXCEPT ![i] = TRUE] \/ error' = error
        /\ UNCHANGED <<turn, pc, toStop, killed, phase, cancelEvents>>
    BY <1>12 DEF StreamBreaks
  <2>2. \A j \in Tasks : error'[j] => sdk'[j] \in {"exit", "over"}
    <3>1. \A j \in Tasks : (j = i => sdk'[j] = "exit") /\ (j # i => sdk'[j] = sdk[j] /\ error'[j] = error[j])
      BY <2>1
    <3>2. QED
      BY <3>1 DEF FlagsInv
  <2>3. QED
    BY <2>1, <2>2 DEF FlagsInv, OwnEvent, Uncancelled
<1>13. ASSUME NEW i \in Tasks, Exit(i) PROVE FlagsInv'
  <2>1. (\E items : Finish(i, items)) /\ UNCHANGED <<turn, pc, toStop, error, killed, phase>>
    BY <1>13 DEF Exit
  <2>2. QED
    BY <1>7, <2>1
<1>14. ASSUME NEW i \in Tasks, SdkCancelled(i) PROVE FlagsInv'
  BY <1>7, <1>8, <1>14 DEF SdkCancelled
<1>15. ASSUME NEW i \in Tasks, NEW o \in Tools, Ask(i, o) PROVE FlagsInv'
  <2>1. UNCHANGED <<turn, pc, toStop, error, killed, phase, cancelEvents, sdk>>
    BY <1>15 DEF Ask
  <2>2. QED
    BY <2>1 DEF FlagsInv, OwnEvent, Uncancelled
<1>16. QED
  BY <1>1, <1>2, <1>3, <1>4, <1>5, <1>6, <1>9, <1>10, <1>11, <1>12, <1>13, <1>14, <1>15 DEF Next, Server, TaskStep, SdkStep

\* A task tells the same as long as its own part of the state stays, its event is not
\* registered anew, and it is cancelled, if at all, through its own event.
LEMMA TellsKept ==
  ASSUME NEW i \in Tasks, Tells(i), pc'[i] = pc[i], sdk'[i] = sdk[i], error'[i] = error[i],
         queue'[i] = queue[i], reported'[i] = reported[i], cancelSet[i] => cancelSet'[i],
         OutOfReach(i) => OutOfReach(i)'
  PROVE  Tells(i)'
<1>1. \A said \in Outcomes(i) : said \in Outcomes(i)'
  BY DEF Outcomes
<1>2. QED
  BY <1>1 DEF Tells

\* What one task does leaves the other tasks alone.
LEMMA OthersTell ==
  ASSUME TurnsInv, TerminalInv, NEW i \in Tasks, toStop' = toStop, cancelSet' = cancelSet,
         \A j \in Tasks : j # i => /\ pc'[j] = pc[j] /\ sdk'[j] = sdk[j] /\ error'[j] = error[j]
                                   /\ queue'[j] = queue[j] /\ reported'[j] = reported[j] /\ faulty'[j] = faulty[j],
         \A t \in Turns : cancelEvents'[t] \in {cancelEvents[t], 0, i},
         FlagsInv', i \notin toStop /\ ~faulty'[i] => Tells(i)'
  PROVE  TerminalInv'
<1>1. ASSUME NEW j \in Tasks, j # i, j \notin toStop, ~faulty[j] PROVE Tells(j)'
  <2>1. OutOfReach(j) => OutOfReach(j)'
    BY <1>1 DEF OutOfReach, Tasks
  <2>2. Tells(j)
    BY <1>1 DEF TerminalInv
  <2>3. QED
    BY <1>1, <2>1, <2>2, TellsKept
<1>2. QED
  BY <1>1 DEF TerminalInv

\* The queue and what was sent are sequences; the outcomes are.
LEMMA TellsTypes ==
  ASSUME SequenceTypes, NEW i \in Tasks
  PROVE  /\ queue[i] \in Seq(Items) /\ reported[i] \in Seq(Terminals)
         /\ <<>> \in Seq(Terminals) /\ (\A k \in Terminals : <<k>> \in Seq(Terminals))
         /\ Outcomes(i) \subseteq Seq(Terminals)
         /\ \A closed : InTransit(queue[i], reported[i], <<>>, closed) => reported[i] = <<>>
<1>1. queue[i] \in Seq(Items) /\ reported[i] \in Seq(Terminals)
  BY DEF SequenceTypes
<1>2. \A k \in Terminals : <<k>> \in Seq(Terminals) /\ <<k, "cancelled">> \in Seq(Terminals)
  BY DEF Terminals
<1>3. Outcomes(i) \subseteq Seq(Terminals)
  <2>1. \A k \in {"completed", "failed"} : k \in Terminals
    BY DEF Terminals
  <2>2. \A said \in Outcomes(i) : (\E k \in Terminals : said = <<k>>) \/ \E k \in Terminals : said = <<k, "cancelled">>
    BY <2>1 DEF Outcomes
  <2>3. QED
    BY <1>2, <2>2
<1>4. \A closed : InTransit(queue[i], reported[i], <<>>, closed) => Len(reported[i]) <= 0
  BY DEF InTransit
<1>5. Len(reported[i]) <= 0 => reported[i] = <<>>
  BY <1>1
<1>6. QED
  BY <1>1, <1>2, <1>3, <1>4, <1>5

LEMMA AppendedTwice ==
  ASSUME NEW S, NEW q \in Seq(S), NEW x \in S, NEW y \in S
  PROVE  q \o <<x>> \o <<y>> = Append(Append(q, x), y) /\ q \o <<x, y>> = Append(Append(q, x), y)
<1>1. q \o <<x>> = Append(q, x)
  OBVIOUS
<1>2. Append(q, x) \o <<y>> = Append(Append(q, x), y)
  OBVIOUS
<1>3. q \o <<x, y>> = Append(Append(q, x), y)
  OBVIOUS
<1>4. QED
  BY <1>1, <1>2, <1>3

LEMMA TwoTerminals ==
  ASSUME NEW S, NEW k \in S, NEW l \in S
  PROVE  Append(<<k>>, l) = <<k, l>>
<1>1. <<k>> \in Seq(S) /\ <<k, l>> \in Seq(S)
  OBVIOUS
<1>2. Len(<<k>>) = 1 /\ <<k>>[1] = k /\ Len(<<k, l>>) = 2 /\ <<k, l>>[1] = k /\ <<k, l>>[2] = l
  OBVIOUS
<1>3. PICK a \in Seq(S) : a = <<k>>
  BY <1>1
<1>4. PICK b \in Seq(S) : b = <<k, l>>
  BY <1>1
<1>5. Len(a) = 1 /\ a[1] = k /\ Len(b) = 2 /\ b[1] = k /\ b[2] = l
  BY <1>2, <1>3, <1>4
<1>6. /\ Append(a, l) \in Seq(S) /\ Len(Append(a, l)) = Len(a) + 1 /\ Append(a, l)[Len(a) + 1] = l
      /\ \A j \in 1..Len(a) : Append(a, l)[j] = a[j]
  OBVIOUS
<1>7. PICK c \in Seq(S) : c = Append(a, l)
  BY <1>6
<1>8. Len(c) = 2 /\ c[1] = k /\ c[2] = l
  <2>1. Len(c) = Len(a) + 1 /\ c[Len(a) + 1] = l /\ \A j \in 1..Len(a) : c[j] = a[j]
    BY <1>6, <1>7
  <2>2. QED
    BY <1>5, <2>1
<1>9. c = b
  <2>1. \A j \in 1..2 : c[j] = b[j]
    BY <1>5, <1>8
  <2>2. QED
    BY <1>5, <1>8, <2>1
<1>10. QED
  BY <1>3, <1>4, <1>7, <1>9

\* run_sdk ends: what it still has to say and the sentinel follow.
LEMMA TransitFinish ==
  ASSUME NEW q \in Seq(Items), NEW told \in Seq(Terminals), NEW said \in Seq(Terminals),
         InTransit(q, told, said, 0)
  PROVE  /\ InTransit(q \o <<>> \o <<Ended>>, told, said, 1)
         /\ \A k \in Terminals : /\ InTransit(q \o <<Terminal(k)>> \o <<Ended>>, told, Append(said, k), 1)
                                 /\ InTransit(q \o <<Terminal(k), Ended>>, told, Append(said, k), 1)
<1>1. InTransit(Append(q, Ended), told, said, 1)
  BY TransitEnded
<1>2. q \o <<>> \o <<Ended>> = Append(q, Ended)
  BY DEF Items
<1>3. ASSUME NEW k \in Terminals
      PROVE  /\ InTransit(q \o <<Terminal(k)>> \o <<Ended>>, told, Append(said, k), 1)
             /\ InTransit(q \o <<Terminal(k), Ended>>, told, Append(said, k), 1)
  <2>1. InTransit(Append(q, Terminal(k)), told, Append(said, k), 0)
    BY TransitTerminal
  <2>2. Append(q, Terminal(k)) \in Seq(Items) /\ Append(said, k) \in Seq(Terminals)
    BY ItemsAppended
  <2>3. InTransit(Append(Append(q, Terminal(k)), Ended), told, Append(said, k), 1)
    BY <2>1, <2>2, TransitEnded
  <2>4. /\ q \o <<Terminal(k)>> \o <<Ended>> = Append(Append(q, Terminal(k)), Ended)
        /\ q \o <<Terminal(k), Ended>> = Append(Append(q, Terminal(k)), Ended)
    <3>1. Terminal(k) \in Items /\ Ended \in Items
      BY DEF Items
    <3>2. QED
      BY <3>1, AppendedTwice
  <2>5. QED
    BY <2>3, <2>4
<1>4. QED
  BY <1>1, <1>2, <1>3

\* A step of a run_sdk that goes on as before, by the event that ends its turn.
LEMMA TellsFinish ==
  ASSUME TurnsInv, TerminalInv, SequenceTypes, NEW i \in Tasks, NEW items, Finish(i, items),
         UNCHANGED <<turn, pc, toStop, error, reported, cancelSet>>, FlagsInv',
         \A j \in Tasks : j # i => faulty'[j] = faulty[j],
         i \notin toStop /\ ~faulty'[i] =>
           \/ pc[i] \in {"done", "gone"} /\ Tells(i)
           \/ pc[i] = "consuming" /\ \E said \in Outcomes(i)' : InTransit(queue[i] \o items \o <<Ended>>, reported[i], said, 1)
  PROVE  TerminalInv'
<1>1. /\ sdk' = [sdk EXCEPT ![i] = "over"] /\ cancelEvents' = [cancelEvents EXCEPT ![turn[i]] = 0]
      /\ queue' = [queue EXCEPT ![i] = @ \o items \o <<Ended>>]
  BY DEF Finish
<1>2. /\ \A j \in Tasks : j # i => sdk'[j] = sdk[j] /\ queue'[j] = queue[j]
      /\ sdk'[i] = "over" /\ queue'[i] = queue[i] \o items \o <<Ended>>
      /\ \A t \in Turns : cancelEvents'[t] \in {cancelEvents[t], 0, i}
  BY <1>1 DEF TurnsInv, FlatTypes, SequenceTypes
<1>3. Outcomes(i) \subseteq Outcomes(i)'
  <2>1. OutOfReach(i) => OutOfReach(i)'
    <3>1. \A t \in Turns : cancelEvents'[t] = i => cancelEvents[t] = i
      BY <1>1 DEF TurnsInv, FlatTypes, Tasks
    <3>2. QED
      BY <3>1 DEF OutOfReach
  <2>2. QED
    BY <2>1 DEF Outcomes
<1>4. i \notin toStop /\ ~faulty'[i] => Tells(i)'
  BY <1>2, <1>3 DEF Tells
<1>5. QED
  BY <1>2, <1>4, OthersTell

\* Where a task is that runs undisturbed.
LEMMA Undisturbed ==
  ASSUME TurnsInv, TerminalInv, NEW i \in Tasks, i \notin toStop
  PROVE  /\ pc[i] \in {None, "created", "opening", "consuming", "done", "gone"} /\ ~killed[i]
         /\ pc[i] \in {None, "created", "opening"} => sdk[i] = None
         /\ ~faulty[i] => Tells(i) /\ (pc[i] \in {"done", "gone"} => sdk[i] \in {None, "over"})
  BY DEF TurnsInv, FlatTypes, Progress, TerminalInv, FlagsInv, Uncancelled, Tells

LEMMA TellsConsumer ==
  ASSUME TurnsInv, TerminalInv, SequenceTypes, FlagsInv', NEW i \in Tasks, TaskStep(i)
  PROVE  TerminalInv'
<1> USE DEF TurnsInv, FlatTypes
<1>0. queue[i] \in Seq(Items) /\ reported[i] \in Seq(Terminals)
  BY TellsTypes
<1>1. CASE RunTurn(i)
  <2>1. /\ pc[i] = "created" /\ i \notin toStop /\ UNCHANGED <<turn, toStop, sdk, error, faulty, queue, cancelSet>>
        /\ \E e \in {0, i, cancelEvents[turn[i]]} : cancelEvents' = [cancelEvents EXCEPT ![turn[i]] = e]
    BY <1>1 DEF RunTurn, Tell, streams
  <2>2. \A t \in Turns : cancelEvents'[t] \in {cancelEvents[t], 0, i}
    BY <2>1
  <2>3. \A j \in Tasks : j # i => pc'[j] = pc[j] /\ reported'[j] = reported[j]
    BY <1>1 DEF RunTurn, Tell, SequenceTypes
  <2>4. ASSUME ~faulty[i] PROVE Tells(i)'
    <3>1. sdk[i] = None /\ InTransit(queue[i], reported[i], <<>>, 0)
      BY <2>1, <2>4, Undisturbed DEF Tells, None
    <3>2. CASE pc'[i] = "opening" /\ reported' = reported
      BY <2>1, <3>1, <3>2 DEF Tells, None
    <3>3. CASE pc'[i] = "done" /\ reported'[i] = Append(reported[i], "failed")
      <4>1. reported[i] = <<>>
        BY <3>1, TellsTypes
      <4>2. reported'[i] = <<"failed">>
        BY <3>3, <4>1
      <4>3. reported'[i] \in Outcomes(i)'
        BY <4>2 DEF Outcomes, Terminals
      <4>4. QED
        BY <2>1, <3>1, <3>3, <4>3 DEF Tells, None
    <3>4. QED
      BY <1>1, <3>2, <3>3 DEF RunTurn, Tell, SequenceTypes
  <2>5. QED
    BY <2>1, <2>2, <2>3, <2>4, OthersTell
<1>2. CASE StartSdkTask(i)
  <2>1. /\ pc[i] = "opening" /\ i \notin toStop /\ pc'[i] = "consuming" /\ sdk'[i] = "created"
        /\ UNCHANGED <<toStop, error, faulty, queue, cancelSet, cancelEvents, reported>>
        /\ \A j \in Tasks : j # i => pc'[j] = pc[j] /\ sdk'[j] = sdk[j]
    BY <1>2 DEF StartSdkTask, tables
  <2>2. ~faulty[i] => Tells(i)'
    BY <2>1, Undisturbed DEF Tells, None
  <2>3. QED
    BY <2>1, <2>2, OthersTell
<1>3. CASE Forward(i)
  <2>1. /\ pc[i] = "consuming" /\ i \notin toStop /\ queue[i] # <<>> /\ queue'[i] = Tail(queue[i])
        /\ UNCHANGED <<toStop, sdk, error, faulty, cancelSet, cancelEvents>>
        /\ \A j \in Tasks : j # i => pc'[j] = pc[j] /\ queue'[j] = queue[j] /\ reported'[j] = reported[j]
    BY <1>3 DEF Forward, Tell, streams, tables, SequenceTypes
  <2>2. \/ Head(queue[i]) = Ended /\ pc'[i] = "done" /\ reported'[i] = reported[i]
        \/ \E k \in Terminals : Head(queue[i]) = Terminal(k) /\ reported'[i] = Append(reported[i], k) /\ pc'[i] = pc[i]
        \/ \E p \in Approvals : Head(queue[i]) = Request(p) /\ reported'[i] = reported[i] /\ pc'[i] = pc[i]
    BY <1>3 DEF Forward, Tell, SequenceTypes
  <2>3. ASSUME NEW said \in Seq(Terminals), NEW closed \in {0, 1}, InTransit(queue[i], reported[i], said, closed)
        PROVE  \/ pc'[i] = pc[i] /\ InTransit(queue'[i], reported'[i], said, closed)
               \/ pc'[i] = "done" /\ closed = 1 /\ reported'[i] = said
    <3>1. /\ \A p \in Approvals : Head(queue[i]) = Request(p) => InTransit(queue'[i], reported[i], said, closed)
          /\ \A k \in Terminals : Head(queue[i]) = Terminal(k) => InTransit(queue'[i], Append(reported[i], k), said, closed)
          /\ Head(queue[i]) = Ended => closed = 1 /\ reported[i] = said
      BY <1>0, <2>1, <2>3, TransitForward
    <3>2. QED
      BY <2>2, <3>1
  <2>4. Outcomes(i)' = Outcomes(i) /\ (OutOfReach(i) => OutOfReach(i)')
    BY <2>1 DEF Outcomes, OutOfReach
  <2>5. ASSUME ~faulty[i] PROVE Tells(i)'
    <3>1. Tells(i)
      BY <2>1, <2>5, Undisturbed
    <3>2. CASE sdk[i] \notin {"exit", "over"}
      <4>1. pc'[i] = pc[i] /\ InTransit(queue'[i], reported'[i], <<>>, 0)
        <5>1. InTransit(queue[i], reported[i], <<>>, 0) /\ <<>> \in Seq(Terminals)
          BY <2>1, <3>1, <3>2 DEF Tells
        <5>2. PICK none \in Seq(Terminals) : none = <<>>
          BY <5>1
        <5>3. pc'[i] = pc[i] /\ InTransit(queue'[i], reported'[i], none, 0)
          <6>1. \A said \in Seq(Terminals) : InTransit(queue[i], reported[i], said, 0) =>
                  pc'[i] = pc[i] /\ InTransit(queue'[i], reported'[i], said, 0)
            BY <2>3
          <6>2. QED
            BY <5>1, <5>2, <6>1
        <5>4. QED
          BY <5>2, <5>3
      <4>2. QED
        BY <2>1, <3>2, <4>1 DEF Tells
    <3>3. CASE sdk[i] = "exit"
      <4>1. \A said \in Seq(Terminals) : InTransit(queue[i], reported[i], said, 0) =>
              pc'[i] = pc[i] /\ InTransit(queue'[i], reported'[i], said, 0)
        BY <2>3
      <4>2. /\ pc'[i] = pc[i]
            /\ \/ (error[i] \/ cancelSet[i]) /\ InTransit(queue'[i], reported'[i], <<>>, 0)
               \/ ~error[i] /\ \E k \in Terminals : InTransit(queue'[i], reported'[i], <<k>>, 0) /\ (k = "cancelled" => OutOfReach(i))
        BY <3>1, <3>3, <4>1, TellsTypes DEF Tells
      <4>3. QED
        BY <2>1, <2>4, <3>3, <4>2 DEF Tells
    <3>4. CASE sdk[i] = "over"
      <4>1. PICK said \in Outcomes(i) : InTransit(queue[i], reported[i], said, 1)
        BY <2>1, <3>1, <3>4 DEF Tells
      <4>2. \/ pc'[i] = pc[i] /\ InTransit(queue'[i], reported'[i], said, 1)
            \/ pc'[i] = "done" /\ reported'[i] = said
        BY <2>3, <4>1, TellsTypes
      <4>3. QED
        BY <2>1, <2>4, <3>4, <4>1, <4>2 DEF Tells
    <3>5. QED
      BY <3>2, <3>3, <3>4
  <2>6. QED
    BY <2>1, <2>5, OthersTell
<1>4. CASE DoneCallback(i) \/ TaskCancelled(i) \/ TaskClosed(i)
  <2>1. /\ UNCHANGED <<toStop, sdk, error, faulty, queue, cancelSet, cancelEvents, reported>>
        /\ \A j \in Tasks : j # i => pc'[j] = pc[j]
        /\ i \in toStop \/ pc[i] = "closing" \/ (pc[i] = "done" /\ pc'[i] = "gone")
    BY <1>4 DEF DoneCallback, TaskCancelled, TaskClosed, streams, tables
  <2>2. i \notin toStop /\ ~faulty[i] => Tells(i)'
    BY <2>1, Undisturbed DEF Tells, None, Outcomes, OutOfReach
  <2>3. QED
    BY <2>1, <2>2, OthersTell
<1>5. QED
  BY <1>1, <1>2, <1>3, <1>4 DEF TaskStep

LEMMA TellsRuntime ==
  ASSUME TurnsInv, TerminalInv, SequenceTypes, FlagsInv', NEW i \in Tasks,
         SdkStep(i) \/ StreamBreaks(i) \/ \E o \in Tools : Ask(i, o)
  PROVE  TerminalInv'
<1> USE DEF TurnsInv, FlatTypes
<1>0. queue[i] \in Seq(Items) /\ reported[i] \in Seq(Terminals) /\ <<>> \in Seq(Terminals)
  BY TellsTypes
<1>1. ASSUME Alive(i) \/ sdk[i] = "created", i \notin toStop, ~faulty[i]
      PROVE  Tells(i) /\ pc[i] = "consuming"
  BY <1>1, Undisturbed DEF Alive, None
<1>2. ASSUME i \notin toStop, ~faulty[i], InTransit(queue[i], reported[i], <<>>, 0), NEW k \in Terminals
      PROVE  /\ k # "completed" => <<k>> \in Outcomes(i) /\ <<k>> \in Outcomes(i)'
             /\ InTransit(queue[i] \o <<Terminal(k)>> \o <<Ended>>, reported[i], <<k>>, 1)
             /\ InTransit(queue[i] \o <<Terminal(k), Ended>>, reported[i], <<k>>, 1)
             /\ InTransit(Append(queue[i], Terminal(k)), reported[i], <<k>>, 0)
  <2>1. PICK s \in Seq(Terminals), none \in Seq(Terminals) : s = <<k>> /\ s = Append(none, k) /\ none = <<>>
    <3>1. <<k>> \in Seq(Terminals) /\ <<k>> = Append(<<>>, k)
      OBVIOUS
    <3>2. QED
      BY <1>0, <3>1
  <2>2. /\ InTransit(queue[i] \o <<Terminal(k)>> \o <<Ended>>, reported[i], s, 1)
        /\ InTransit(queue[i] \o <<Terminal(k), Ended>>, reported[i], s, 1)
        /\ InTransit(Append(queue[i], Terminal(k)), reported[i], s, 0)
    <3>1. InTransit(queue[i], reported[i], none, 0)
      BY <1>2, <2>1
    <3>2. QED
      BY <1>0, <2>1, <3>1, TransitFinish, TransitTerminal
  <2>3. QED
    BY <2>1, <2>2 DEF Outcomes
<1>4. CASE CreateClient(i)
  <2>1. /\ sdk[i] = "created" /\ UNCHANGED <<toStop, turn, pc, error, faulty, cancelSet, reported>>
        /\ \A j \in Tasks : j # i => sdk'[j] = sdk[j] /\ queue'[j] = queue[j]
        /\ \A t \in Turns : cancelEvents'[t] \in {cancelEvents[t], 0, i}
        /\ \/ sdk'[i] = "connect" /\ queue'[i] = queue[i]
           \/ sdk'[i] = "over" /\ queue'[i] = queue[i] \o <<Terminal("failed"), Ended>>
    BY <1>4 DEF CreateClient, tasks, SequenceTypes
  <2>2. ASSUME i \notin toStop, ~faulty[i] PROVE Tells(i)'
    <3>1. InTransit(queue[i], reported[i], <<>>, 0) /\ pc[i] = "consuming"
      BY <1>1, <2>1, <2>2 DEF Tells
    <3>2. <<"failed">> \in Outcomes(i)' /\ InTransit(queue[i] \o <<Terminal("failed"), Ended>>, reported[i], <<"failed">>, 1)
      BY <1>2, <2>2, <3>1 DEF Terminals
    <3>3. QED
      BY <2>1, <3>1, <3>2 DEF Tells
  <2>3. QED
    BY <2>1, <2>2, OthersTell
<1>5. ASSUME NEW k \in Terminals, k # "completed", Finish(i, <<Terminal(k)>>), Alive(i), UNCHANGED <<tasks, error, reported, cancelSet>>,
             \A j \in Tasks : j # i => faulty'[j] = faulty[j],
             i \notin toStop /\ ~faulty'[i] => ~faulty[i] /\ InTransit(queue[i], reported[i], <<>>, 0)
      PROVE  TerminalInv'
  <2>1. i \notin toStop /\ ~faulty'[i] => pc[i] = "consuming" /\ \E said \in Outcomes(i)' :
          InTransit(queue[i] \o <<Terminal(k)>> \o <<Ended>>, reported[i], said, 1)
    BY <1>1, <1>2, <1>5
  <2>2. UNCHANGED <<turn, pc, toStop, error, reported, cancelSet>>
    BY <1>5 DEF tasks
  <2>3. QED
    BY <1>5, <2>1, <2>2, TellsFinish
<1>6. CASE Connect(i)
  <2>1. CASE sdk' = [sdk EXCEPT ![i] = "stream"] /\ UNCHANGED <<tables, queue, waits>>
    <3>1. /\ sdk[i] = "connect" /\ Alive(i) /\ UNCHANGED <<toStop, turn, pc, error, faulty, cancelSet, reported, queue, cancelEvents>>
          /\ \A j \in Tasks : j # i => sdk'[j] = sdk[j]
          /\ sdk'[i] = "stream"
      BY <1>6, <2>1 DEF Connect, tasks, tables
    <3>2. i \notin toStop /\ ~faulty[i] => Tells(i)'
      BY <1>1, <3>1 DEF Tells
    <3>3. QED
      BY <3>1, <3>2, OthersTell
  <2>2. CASE Finish(i, <<Terminal("failed")>>)
    <3>1. Alive(i) /\ sdk[i] = "connect" /\ UNCHANGED <<tasks, error, reported, cancelSet, faulty>>
      BY <1>6 DEF Connect
    <3>2. i \notin toStop /\ ~faulty'[i] => ~faulty[i] /\ InTransit(queue[i], reported[i], <<>>, 0)
      BY <1>1, <3>1 DEF Tells
    <3>3. QED
      BY <1>5, <2>2, <3>1, <3>2 DEF Terminals
  <2>3. QED
    BY <1>6, <2>1, <2>2 DEF Connect
<1>7. ASSUME NEW kind \in {"completed", "failed"}, Result(i, kind) PROVE TerminalInv'
  <2>1. /\ sdk[i] = "stream" /\ Alive(i) /\ ~cancelSet[i] /\ sdk'[i] = "exit"
        /\ UNCHANGED <<toStop, turn, pc, error, faulty, cancelSet, reported, cancelEvents>>
        /\ \A j \in Tasks : j # i => sdk'[j] = sdk[j] /\ queue'[j] = queue[j]
    BY <1>7 DEF Result, tasks, tables, SequenceTypes
  <2>2. PICK k \in Terminals : /\ queue'[i] = Append(queue[i], Terminal(k))
                               /\ k = "cancelled" => /\ cancelEvents[turn[i]] # 0
                                                     /\ cancelSet[cancelEvents[turn[i]]]
    <3>1. PICK k \in Terminals : /\ queue' = [queue EXCEPT ![i] = Append(@, Terminal(k))]
                                 /\ k = "cancelled" => /\ cancelEvents[turn[i]] # 0
                                                       /\ cancelSet[cancelEvents[turn[i]]]
      BY <1>7 DEF Result, Terminals
    <3>2. QED
      BY <3>1 DEF SequenceTypes
  <2>3. k = "cancelled" => OutOfReach(i)
    <3>1. \A t \in Turns : cancelEvents[t] = i => turn[i] = t
      BY DEF TerminalInv, FlagsInv, OwnEvent, Tasks
    <3>2. k = "cancelled" => cancelEvents[turn[i]] # i
      BY <2>1, <2>2
    <3>3. QED
      BY <2>1, <3>1, <3>2 DEF OutOfReach
  <2>4. ASSUME i \notin toStop, ~faulty[i] PROVE Tells(i)'
    <3>1. InTransit(queue[i], reported[i], <<>>, 0) /\ pc[i] = "consuming" /\ ~error[i]
      BY <1>1, <2>1, <2>4 DEF Tells, TerminalInv, FlagsInv
    <3>2. InTransit(queue'[i], reported[i], <<k>>, 0)
      BY <1>2, <2>2, <2>4, <3>1
    <3>3. OutOfReach(i)' <=> OutOfReach(i)
      BY <2>1 DEF OutOfReach
    <3>4. QED
      BY <2>1, <2>3, <3>1, <3>2, <3>3 DEF Tells
  <2>5. QED
    BY <2>1, <2>4, OthersTell
<1>8. CASE Break(i) \/ StreamBreaks(i)
  <2>1. /\ sdk[i] = "stream" /\ Alive(i) /\ sdk'[i] = "exit"
        /\ UNCHANGED <<toStop, turn, pc, cancelSet, reported, cancelEvents, queue>>
        /\ \A j \in Tasks : j # i => sdk'[j] = sdk[j] /\ error'[j] = error[j] /\ faulty'[j] = faulty[j]
        /\ ~faulty'[i] => ~faulty[i] /\ (error'[i] \/ cancelSet[i])
    BY <1>8 DEF Break, StreamBreaks, tasks, tables
  <2>2. i \notin toStop /\ ~faulty'[i] => Tells(i)'
    BY <1>1, <2>1 DEF Tells
  <2>3. QED
    BY <2>1, <2>2, OthersTell
<1>9. CASE Exit(i)
  <2>1. Alive(i) /\ sdk[i] = "exit" /\ UNCHANGED <<tasks, error, reported, cancelSet>>
    BY <1>9 DEF Exit
  <2>2. CASE error[i] /\ Finish(i, <<Terminal("failed")>>) /\ UNCHANGED faulty
    <3>1. i \notin toStop /\ ~faulty'[i] => ~faulty[i] /\ InTransit(queue[i], reported[i], <<>>, 0)
      BY <1>1, <2>1, <2>2 DEF Tells
    <3>2. QED
      BY <1>5, <2>1, <2>2, <3>1 DEF Terminals
  <2>3. CASE Finish(i, <<Terminal("failed")>>) /\ faulty' = [faulty EXCEPT ![i] = TRUE]
    BY <1>5, <2>1, <2>3 DEF Terminals
  <2>4. CASE ~error[i] /\ cancelSet[i] /\ Finish(i, <<Terminal("cancelled")>>) /\ UNCHANGED faulty
    <3>1. ASSUME i \notin toStop, ~faulty[i]
          PROVE  \E said \in Outcomes(i)' : InTransit(queue[i] \o <<Terminal("cancelled")>> \o <<Ended>>, reported[i], said, 1)
      <4>1. CASE InTransit(queue[i], reported[i], <<>>, 0)
        BY <1>2, <3>1, <4>1 DEF Terminals
      <4>2. ASSUME NEW k \in Terminals, InTransit(queue[i], reported[i], <<k>>, 0), k # "cancelled"
            PROVE  \E said \in Outcomes(i)' : InTransit(queue[i] \o <<Terminal("cancelled")>> \o <<Ended>>, reported[i], said, 1)
        <5>1. PICK s \in Seq(Terminals) : s = <<k>>
          BY TellsTypes
        <5>2. "cancelled" \in Terminals
          BY DEF Terminals
        <5>3. InTransit(queue[i] \o <<Terminal("cancelled")>> \o <<Ended>>, reported[i], Append(s, "cancelled"), 1)
          BY <1>0, <4>2, <5>1, <5>2, TransitFinish
        <5>4. Append(s, "cancelled") = <<k, "cancelled">>
          BY <5>1, <5>2, TwoTerminals
        <5>5. <<k, "cancelled">> \in Outcomes(i)'
          BY <2>1, <2>4, <4>2 DEF Outcomes, Terminals
        <5>6. QED
          BY <5>3, <5>4, <5>5
      <4>3. InTransit(queue[i], reported[i], <<>>, 0) \/ \E k \in Terminals : InTransit(queue[i], reported[i], <<k>>, 0) /\ k # "cancelled"
        BY <1>1, <2>1, <2>4, <3>1 DEF Tells, OutOfReach
      <4>4. QED
        BY <4>1, <4>2, <4>3
    <3>2. UNCHANGED <<turn, pc, toStop, error, reported, cancelSet, faulty>>
      BY <2>1, <2>4 DEF tasks
    <3>3. QED
      BY <1>1, <2>1, <2>4, <3>1, <3>2, TellsFinish
  <2>5. CASE ~error[i] /\ ~cancelSet[i] /\ Finish(i, <<>>) /\ UNCHANGED faulty
    <3>1. ASSUME i \notin toStop, ~faulty[i]
          PROVE  \E said \in Outcomes(i)' : InTransit(queue[i] \o <<>> \o <<Ended>>, reported[i], said, 1)
      <4>1. PICK k \in Terminals : InTransit(queue[i], reported[i], <<k>>, 0)
        BY <1>1, <2>1, <2>5, <3>1 DEF Tells
      <4>2. OutOfReach(i)'
        <5>1. cancelEvents' = [cancelEvents EXCEPT ![turn[i]] = 0]
          BY <2>5 DEF Finish
        <5>2. \A t \in Turns : cancelEvents[t] = i => turn[i] = t
          BY DEF TerminalInv, FlagsInv, OwnEvent, Tasks
        <5>3. QED
          BY <2>1, <2>5, <5>1, <5>2 DEF OutOfReach, Tasks
      <4>4. PICK s \in Seq(Terminals) : s = <<k>> /\ s \in Outcomes(i)'
        <5>1. <<k>> \in Outcomes(i)'
          BY <4>2 DEF Outcomes
        <5>2. QED
          BY <5>1, TellsTypes
      <4>5. QED
        BY <1>0, <4>1, <4>4, TransitFinish
    <3>2. UNCHANGED <<turn, pc, toStop, error, reported, cancelSet, faulty>>
      BY <2>1, <2>5 DEF tasks
    <3>3. QED
      BY <1>1, <2>1, <2>5, <3>1, <3>2, TellsFinish
  <2>6. QED
    BY <1>9, <2>2, <2>3, <2>4, <2>5 DEF Exit
<1>10. CASE SdkCancelled(i)
  <2>1. killed[i] /\ i \in toStop
    BY <1>10 DEF SdkCancelled, TerminalInv, FlagsInv, Uncancelled
  <2>2. CASE sdk' = [sdk EXCEPT ![i] = "over"] /\ UNCHANGED <<tables, queue, waits>>
    <3>1. /\ UNCHANGED <<toStop, turn, pc, error, faulty, cancelSet, reported, cancelEvents, queue>>
          /\ \A j \in Tasks : j # i => sdk'[j] = sdk[j]
      BY <1>10, <2>2 DEF SdkCancelled, tasks, tables
    <3>2. QED
      BY <2>1, <3>1, OthersTell
  <2>3. CASE Finish(i, <<>>)
    <3>1. UNCHANGED <<toStop, turn, pc, error, faulty, cancelSet, reported>>
      BY <1>10 DEF SdkCancelled, tasks
    <3>2. QED
      BY <2>1, <2>3, <3>1, TellsFinish
  <2>4. QED
    BY <1>10, <2>2, <2>3 DEF SdkCancelled
<1>11. ASSUME NEW o \in Tools, Ask(i, o) PROVE TerminalInv'
  <2>1. /\ sdk[i] = "stream" /\ Alive(i)
        /\ UNCHANGED <<toStop, turn, pc, sdk, error, faulty, cancelSet, reported, cancelEvents>>
        /\ \A j \in Tasks : j # i => queue'[j] = queue[j]
        /\ queue'[i] = queue[i] \/ \E p \in Approvals : queue'[i] = Append(queue[i], Request(p))
    BY <1>11 DEF Ask, tasks, streams, tables, SequenceTypes
  <2>2. ASSUME i \notin toStop, ~faulty[i] PROVE Tells(i)'
    <3>1. InTransit(queue[i], reported[i], <<>>, 0) /\ pc[i] = "consuming"
      BY <1>1, <2>1, <2>2 DEF Tells
    <3>2. InTransit(queue'[i], reported[i], <<>>, 0)
      BY <1>0, <2>1, <3>1, TransitRequest
    <3>3. QED
      BY <2>1, <3>1, <3>2 DEF Tells
  <2>3. QED
    BY <2>1, <2>2, OthersTell
<1>12. QED
  BY <1>4, <1>6, <1>7, <1>8, <1>9, <1>10, <1>11 DEF SdkStep

LEMMA TerminalStep ==
  ASSUME TurnsInv, TerminalInv, SequenceTypes, [Next]_vars
  PROVE  TerminalInv'
<1>0. FlagsInv'
  BY FlagsStep DEF TerminalInv
<1>1. ASSUME NEW t \in Turns, TurnStart(t) PROVE TerminalInv'
  <2>1. PICK i \in Tasks : turn[i] = None /\ pc' = [pc EXCEPT ![i] = "created"]
    BY <1>1 DEF TurnStart
  <2>2. pc[i] = None /\ sdk[i] = None /\ pc'[i] = "created" /\ \A j \in Tasks : j # i => pc'[j] = pc[j]
    BY <2>1 DEF TurnsInv, Progress, FlatTypes
  <2>3. UNCHANGED <<toStop, sdk, error, faulty, queue, cancelSet, cancelEvents, reported>>
    BY <1>1 DEF TurnStart, streams, tables
  <2>4. i \notin toStop /\ ~faulty[i] => Tells(i)'
    BY <2>2, <2>3 DEF TerminalInv, Tells, None
  <2>5. QED
    BY <1>0, <2>2, <2>3, <2>4, OthersTell
<1>2. ASSUME UNCHANGED <<pc, sdk, error, queue, reported, faulty>>, toStop' = toStop \/ toStop = {},
             \A i \in Tasks : cancelSet[i] => cancelSet'[i], \A i \in Tasks : OutOfReach(i) => OutOfReach(i)'
      PROVE  TerminalInv'
  <2>1. ASSUME NEW i \in Tasks, i \notin toStop', ~faulty'[i] PROVE Tells(i)'
    <3>1. Tells(i)
      BY <1>2, <2>1 DEF TerminalInv
    <3>2. QED
      BY <1>2, <3>1, TellsKept
  <2>2. QED
    BY <1>0, <2>1 DEF TerminalInv
<1>3. ASSUME NEW t \in Turns, Cancel(t) PROVE TerminalInv'
  <2>1. /\ UNCHANGED <<pc, sdk, error, queue, reported, faulty, toStop, cancelEvents>>
        /\ cancelSet' = [i \in Tasks |-> cancelSet[i] \/ i = cancelEvents[t]]
    BY <1>3 DEF Cancel, tasks, streams, tables
  <2>2. QED
    BY <1>2, <2>1 DEF OutOfReach
<1>4. CASE \/ CancelReported \/ StopTimesOut \/ UNCHANGED vars
           \/ \E p \in Approvals : Expiry(p) \/ \E d \in Decisions : Respond(p, d)
  <2>1. UNCHANGED <<pc, sdk, error, queue, reported, faulty, toStop, cancelEvents, cancelSet>>
    BY <1>4 DEF CancelReported, StopTimesOut, Expiry, Timeout, Wake, Respond, vars, tasks, streams, tables
  <2>2. QED
    BY <1>2, <2>1 DEF OutOfReach
<1>5. CASE Stop
  <2>1. UNCHANGED <<pc, sdk, error, queue, reported, faulty, cancelEvents, cancelSet>> /\ toStop = {}
    BY <1>5 DEF Stop, streams, tables, TerminalInv, FlagsInv
  <2>2. QED
    BY <1>2, <2>1 DEF OutOfReach
<1>6. CASE Stopped
  <2>1. /\ UNCHANGED <<pc, sdk, error, queue, reported, faulty, toStop, cancelSet>>
        /\ cancelEvents' = [t \in Turns |-> 0]
    BY <1>6 DEF Stopped, streams, tasks
  <2>2. QED
    BY <1>2, <2>1 DEF OutOfReach, Tasks
<1>7. QED
  BY <1>0, <1>1, <1>3, <1>4, <1>5, <1>6, TellsConsumer, TellsRuntime DEF Next, Server

\* The events that end a turn, as they are queued and sent, stay within its outcomes.
LEMMA TerminalsTracked == Spec => [](ClaudeInv /\ SequenceTypes /\ TerminalInv)
<1>1. Init => SequenceTypes /\ TerminalInv
  <2> SUFFICES ASSUME Init PROVE SequenceTypes /\ TerminalInv
    OBVIOUS
  <2>1. SequenceTypes
    BY DEF Init, SequenceTypes
  <2>2. FlagsInv
    BY DEF Init, FlagsInv, OwnEvent, Uncancelled, None
  <2>3. ASSUME NEW i \in Tasks PROVE Tells(i)
    <3>1. queue[i] = <<>> /\ reported[i] = <<>> /\ pc[i] = None /\ sdk[i] = None
      BY DEF Init
    <3>2. InTransit(<<>>, <<>>, <<>>, 0)
      <4>1. Len(<<>>) = 0 /\ 0 \in Nat
        OBVIOUS
      <4>2. QED
        BY <4>1 DEF InTransit
    <3>3. QED
      BY <3>1, <3>2 DEF Tells, None
  <2>4. QED
    BY <2>1, <2>2, <2>3 DEF TerminalInv
<1>2. ClaudeInv /\ SequenceTypes /\ TerminalInv /\ [Next]_vars => SequenceTypes' /\ TerminalInv'
  BY SequencesStep, TerminalStep DEF ClaudeInv, TurnsInv
<1>3. QED
  BY TurnsTracked, <1>1, <1>2, PTL DEF Spec

\* A turn that ends by itself has been told once by its task, with turn.completed only if
\* no cancel reached it, but for turn.cancelled after a result that a cancel came too late
\* for (_run_turn, start_turn and run_sdk, also with tasks that share a turn_id and so
\* each other's cancel event).
THEOREM TurnEndsOnce == Spec => []OneTerminal
<1>1. TerminalInv => OneTerminal
  <2> SUFFICES ASSUME TerminalInv, NEW i \in Tasks, pc[i] \in {"done", "gone"}, i \notin toStop, ~faulty[i]
               PROVE  \/ \E kind \in Terminals : reported[i] = <<kind>> /\ (kind = "completed" => ~cancelSet[i])
                      \/ cancelSet[i] /\ reported[i] \in {<<kind, "cancelled">> : kind \in {"completed", "failed"}}
    BY Zenon DEF OneTerminal, EndedByItself
  <2>1. reported[i] \in Outcomes(i)
    BY DEF TerminalInv, Tells
  <2>2. QED
    BY <2>1 DEF Outcomes, OutOfReach
<1>2. QED
  BY TerminalsTracked, <1>1, PTL
------------------------------------------------------------------------------
(* What the server was told last                                           *)

\* The last that a task has sent is that its turn completed.
ToldCompleted(j) == reported[j] # <<>> /\ reported[j][Len(reported[j])] = "completed"
WordInv == \A t \in Turns : lastTold[t] = "completed" => \E j \in Tasks : turn[j] = t /\ ToldCompleted(j)

LEMMA LastAppended ==
  ASSUME NEW S, NEW s \in Seq(S), NEW k \in S
  PROVE  Append(s, k) # <<>> /\ Append(s, k)[Len(Append(s, k))] = k
  OBVIOUS

LEMMA WordStep ==
  ASSUME TurnsInv, SequenceTypes, ToldTypes, WordInv, [Next]_vars
  PROVE  WordInv'
<1>0. /\ turn \in [Tasks -> Turns \cup {None}] /\ reported \in [Tasks -> Seq(Terminals)]
      /\ lastTold \in [Turns -> Terminals \cup {None}] /\ None \notin Turns
      /\ \A i \in Tasks : pc[i] # None => turn[i] \in Turns
  BY ClaudeConstants DEF TurnsInv, FlatTypes, Progress, SequenceTypes, ToldTypes
<1>1. ASSUME NEW i \in Tasks, NEW k \in Terminals, Tell(i, k), turn' = turn, turn[i] \in Turns
      PROVE  WordInv'
  <2>1. /\ lastTold'[turn[i]] = k /\ reported'[i] = Append(reported[i], k)
        /\ \A t \in Turns : t # turn[i] => lastTold'[t] = lastTold[t]
        /\ \A j \in Tasks : j # i => reported'[j] = reported[j]
    BY <1>0, <1>1 DEF Tell
  <2>2. k = "completed" => ToldCompleted(i)'
    BY <1>0, <2>1, LastAppended DEF ToldCompleted
  <2>3. \A j \in Tasks : turn[j] # turn[i] /\ ToldCompleted(j) => ToldCompleted(j)'
    BY <2>1 DEF ToldCompleted
  <2>4. QED
    BY <1>1, <2>1, <2>2, <2>3 DEF WordInv
<1>2. ASSUME reported' = reported, \A t \in Turns : lastTold'[t] = "completed" => lastTold[t] = "completed",
             \A j \in Tasks : turn[j] # None => turn'[j] = turn[j]
      PROVE  WordInv'
  BY <1>0, <1>2 DEF WordInv, ToldCompleted
<1>3. CASE CancelReported
  <2>1. reported' = reported /\ turn' = turn /\ lastTold' = [lastTold EXCEPT ![handler] = "cancelled"]
    BY <1>3 DEF CancelReported, tasks
  <2>2. QED
    BY <1>0, <1>2, <2>1
<1>4. ASSUME NEW t \in Turns, TurnStart(t) PROVE WordInv'
  <2>1. reported' = reported /\ lastTold' = lastTold /\ \A j \in Tasks : turn[j] # None => turn'[j] = turn[j]
    BY <1>0, <1>4 DEF TurnStart
  <2>2. QED
    BY <1>2, <2>1
<1>5. CASE \/ Stop \/ Stopped \/ StopTimesOut \/ UNCHANGED vars \/ \E t \in Turns : Cancel(t)
           \/ \E p \in Approvals : Expiry(p) \/ \E d \in Decisions : Respond(p, d)
           \/ \E i \in Tasks : SdkStep(i) \/ StreamBreaks(i) \/ \E o \in Tools : Ask(i, o)
  <2>1. reported' = reported /\ lastTold' = lastTold /\ turn' = turn
    BY <1>5 DEF Stop, Stopped, StopTimesOut, vars, Cancel, Expiry, Timeout, Wake, Respond, SdkStep, CreateClient, Connect,
                Result, Break, Exit, SdkCancelled, StreamBreaks, Ask, tasks
  <2>2. QED
    BY <1>2, <2>1
<1>6. ASSUME NEW i \in Tasks, TaskStep(i) PROVE WordInv'
  <2>1. /\ turn' = turn
        /\ \/ reported' = reported /\ lastTold' = lastTold
           \/ pc[i] # None /\ \E k \in Terminals : Tell(i, k)
    BY <1>6 DEF TaskStep, RunTurn, StartSdkTask, Forward, DoneCallback, TaskCancelled, TaskClosed, tasks, Terminals, None
  <2>2. QED
    BY <1>0, <1>1, <1>2, <2>1
<1>7. QED
  BY <1>3, <1>4, <1>5, <1>6 DEF Next, Server

\* When a cancel has reached a turn that ended by itself, the last the server was told of
\* it, by the task or by the handler of a turn_cancel, is not that it completed, whatever
\* the order in which the two put their events (cli.py, handle_backend_message and
\* _run_turn), unless another task of the same turn_id has spoken.
THEOREM CancelKeepsLastWord == Spec => []CancelIsLastWord
<1>1. Init => ToldTypes /\ WordInv
  BY ToldInit DEF Init, WordInv, None
<1>2. ClaudeInv /\ SequenceTypes /\ ToldTypes /\ WordInv /\ [Next]_vars => ToldTypes' /\ WordInv'
  BY ToldStep, WordStep DEF ClaudeInv
<1>3. ClaudeInv /\ SequenceTypes /\ TerminalInv /\ WordInv => CancelIsLastWord
  <2> SUFFICES ASSUME ClaudeInv, TerminalInv, WordInv, NEW i \in Tasks, pc[i] \in {"done", "gone"}, i \notin toStop,
                      ~faulty[i], cancelSet[i], lastTold[turn[i]] = "completed"
               PROVE  \E j \in Tasks \ {i} : turn[j] = turn[i]
    BY Zenon DEF CancelIsLastWord, EndedByItself
  <2>1. turn[i] \in Turns
    BY DEF ClaudeInv, TurnsInv, FlatTypes, Progress, None
  <2>2. PICK j \in Tasks : turn[j] = turn[i] /\ ToldCompleted(j)
    BY <2>1 DEF WordInv
  <2>3. ~ToldCompleted(i)
    <3>1. PICK said \in Outcomes(i) : said = reported[i]
      BY DEF TerminalInv, Tells
    <3>2. CASE \E k \in Terminals : said = <<k>> /\ (k = "completed" => OutOfReach(i))
      <4>1. PICK k \in Terminals : said = <<k>> /\ (k = "completed" => OutOfReach(i))
        BY <3>2
      <4>2. Len(said) = 1 /\ said[1] = k
        BY <4>1
      <4>3. k # "completed"
        BY <4>1 DEF OutOfReach
      <4>4. QED
        BY <3>1, <4>2, <4>3 DEF ToldCompleted
    <3>3. CASE \E k \in {"completed", "failed"} : said = <<k, "cancelled">>
      <4>1. Len(said) = 2 /\ said[2] = "cancelled"
        BY <3>3
      <4>2. QED
        BY <3>1, <4>1 DEF ToldCompleted
    <3>4. QED
      BY <3>1, <3>2, <3>3, Zenon DEF Outcomes
  <2>4. QED
    BY <2>2, <2>3
<1>4. QED
  BY TerminalsTracked, <1>1, <1>2, <1>3, PTL DEF Spec
================================================================================
