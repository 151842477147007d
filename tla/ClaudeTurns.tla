----------------------------- MODULE ClaudeTurns -----------------------------
(***************************************************************************)
(* Turns of the claude_code provider: ClaudeCodeConnector (cli.py) starts  *)
(* a task per turn_start, which consumes ClaudeAgentSdkProvider.start_turn *)
(* (claude_agent_sdk.py); that runs the SDK in a second task, with a queue *)
(* between the two.  Permission callbacks wait for the answer of the       *)
(* server or a timeout.  All of it runs on one event loop: an action is    *)
(* what runs between two awaits.  Backend messages are handled one at a    *)
(* time, but a cancel waits for the SDK's interrupt in between.            *)
(*                                                                         *)
(* Tasks are numbered in the order of their turn_start.  Tables are keyed  *)
(* by turn_id, and a turn_start may repeat a turn_id.  What the SDK yields *)
(* and when it fails is external; of the events of a turn only those that  *)
(* end it and the approval requests are kept.                              *)
(***************************************************************************)
EXTENDS Naturals, Sequences, FiniteSets

CONSTANTS Turns,         \* turn ids
          Threads,       \* thread ids (with the working directory)
          ThreadOf,      \* the thread of a turn
          Tools,         \* operations (tool and input) that need an approval
          Questions,     \* those of AskUserQuestion
          MaxTasks,      \* bound on turn_start requests
          MaxApprovals,  \* bound on permission callbacks
          MaxCancels,    \* bound on turn_cancel requests
          SdkFails,      \* the runtime may fail or end early
          MaxStops       \* 1 or 0: the session may end or not

None      == "none"
Tasks     == 1..MaxTasks
Approvals == 1..MaxApprovals
Decisions == {"accept", "acceptForSession", "decline"}
Terminals == {"completed", "failed", "cancelled"}
Request(p) == <<"approval", p>>
Terminal(kind) == <<"terminal", kind>>
Ended == <<"end">>

ASSUME ClaudeConstants ==
  /\ None \notin Turns \cup Threads \cup Tools
  /\ ThreadOf \in [Turns -> Threads] /\ Questions \subseteq Tools
  /\ MaxTasks \in Nat /\ MaxApprovals \in Nat /\ MaxCancels \in Nat
  /\ MaxStops \in {0, 1} /\ SdkFails \in BOOLEAN

VARIABLES
  turn,          \* per task: the turn_id of its request
  pc,            \* per task: where _run_turn is
  sdk,           \* per task: where run_sdk is
  error,         \* per task: run_sdk is leaving its client because of an exception
  killed,        \* per task: run_sdk was cancelled with the consumer
  queue,         \* per task: the queue between run_sdk and start_turn
  cancelSet,     \* per task: its cancel event is set
  faulty,        \* per task: the SDK ended without a result, or failed while closing
  turnTasks,     \* _turn_tasks: turn_id -> task
  cancelEvents,  \* _cancel_events: turn_id -> the task whose event it is
  clients,       \* _active_clients: turn_id -> the task whose client it is
  handler,       \* the turn whose turn_cancel waits for the interrupt
  cancels,       \* turn_cancel requests so far
  reported,      \* per task: the events that end a turn, as sent by the task
  lastTold,      \* per turn_id: the last such event the server was sent, by whomever
  phase,         \* "running", "stopping", "stopped" or "abandoned"
  toStop,        \* tasks that stop() waits for
  asker, tool,   \* per approval: the task and the operation
  future,        \* per approval: "none", "pending", "set", "cancelled" or "over"
  answer,        \* per approval: the decision that was acknowledged
  acks,          \* per approval: how often the server was sent approval.resolved
  late,          \* per approval: the timer fired between answer and wakeup
  opened,        \* approvals the server has been told of
  pending,       \* _pending_approvals
  fate,          \* per approval: "none", "answered", "expired", "aborted" or "granted"
  granted        \* _session_tool_approvals

tasks    == <<turn, pc, toStop>>
streams  == <<sdk, error, killed, faulty>>
tables   == <<cancelEvents, clients>>
control  == <<handler, cancels, phase>>
requests == <<asker, tool, answer, acks, late, opened>>
waits    == <<future, pending, fate>>
vars     == <<tasks, streams, queue, cancelSet, turnTasks, tables, control, reported, lastTold,
              requests, waits, granted>>

Init ==
  /\ turn = [i \in Tasks |-> None] /\ pc = [i \in Tasks |-> None]
  /\ sdk = [i \in Tasks |-> None] /\ error = [i \in Tasks |-> FALSE]
  /\ killed = [i \in Tasks |-> FALSE] /\ faulty = [i \in Tasks |-> FALSE]
  /\ queue = [i \in Tasks |-> <<>>] /\ cancelSet = [i \in Tasks |-> FALSE]
  /\ turnTasks = [t \in Turns |-> 0] /\ cancelEvents = [t \in Turns |-> 0]
  /\ clients = [t \in Turns |-> 0]
  /\ handler = None /\ cancels = 0 /\ phase = "running" /\ toStop = {}
  /\ reported = [i \in Tasks |-> <<>>] /\ lastTold = [t \in Turns |-> None]
  /\ asker = [p \in Approvals |-> 0] /\ tool = [p \in Approvals |-> None]
  /\ future = [p \in Approvals |-> None] /\ answer = [p \in Approvals |-> None]
  /\ acks = [p \in Approvals |-> 0] /\ late = [p \in Approvals |-> FALSE]
  /\ fate = [p \in Approvals |-> None]
  /\ opened = {} /\ pending = {} /\ granted = {}
------------------------------------------------------------------------------
(* Requests of the server (ClaudeCodeConnector.handle_backend_message)     *)

Handling == phase = "running" /\ handler = None

\* turn_start: nothing looks whether the turn_id already has a task.
TurnStart(t) ==
  /\ Handling
  /\ \E i \in Tasks :
       /\ turn[i] = None /\ \A j \in 1..(i - 1) : turn[j] # None
       /\ turn' = [turn EXCEPT ![i] = t] /\ pc' = [pc EXCEPT ![i] = "created"]
       /\ turnTasks' = [turnTasks EXCEPT ![t] = i]
  /\ UNCHANGED <<toStop, streams, queue, cancelSet, tables, control, reported, lastTold, requests,
                 waits, granted>>

\* cancel_turn up to the interrupt of the client.
Cancel(t) ==
  /\ Handling /\ cancels < MaxCancels
  /\ cancels' = cancels + 1 /\ handler' = t
  /\ cancelSet' = [i \in Tasks |-> cancelSet[i] \/ i = cancelEvents[t]]
  /\ UNCHANGED <<tasks, streams, queue, turnTasks, tables, phase, reported, lastTold, requests, waits,
                 granted>>

\* The handler itself sends turn.cancelled, whatever the interrupt did and whether or not
\* the turn is still there; the request is answered.
CancelReported ==
  /\ phase = "running" /\ handler # None
  /\ handler' = None /\ lastTold' = [lastTold EXCEPT ![handler] = "cancelled"]
  /\ UNCHANGED <<tasks, streams, queue, cancelSet, turnTasks, tables, cancels, phase, reported,
                 requests, waits, granted>>
------------------------------------------------------------------------------
(* _run_turn and the consuming half of start_turn                          *)

\* The task sends an event that ends the turn.
Tell(i, kind) ==
  /\ reported' = [reported EXCEPT ![i] = Append(@, kind)]
  /\ lastTold' = [lastTold EXCEPT ![turn[i]] = kind]

RunTurn(i) ==
  /\ pc[i] = "created" /\ i \notin toStop
  /\ \/ \* the SDK cannot be loaded, there is no prompt, or _build_options refuses
        /\ Tell(i, "failed")
        /\ pc' = [pc EXCEPT ![i] = "done"]
        /\ \E popped \in {cancelEvents[turn[i]], 0} :
             cancelEvents' = [cancelEvents EXCEPT ![turn[i]] = popped]
     \/ \* _cwd_for_request refuses: the event stays registered
        /\ Tell(i, "failed")
        /\ pc' = [pc EXCEPT ![i] = "done"]
        /\ cancelEvents' = [cancelEvents EXCEPT ![turn[i]] = i]
     \/ \* turn.started is being sent
        /\ pc' = [pc EXCEPT ![i] = "opening"]
        /\ cancelEvents' = [cancelEvents EXCEPT ![turn[i]] = i]
        /\ UNCHANGED <<reported, lastTold>>
  /\ UNCHANGED <<turn, toStop, streams, queue, cancelSet, turnTasks, clients, control, requests,
                 waits, granted>>

StartSdkTask(i) ==
  /\ pc[i] = "opening" /\ i \notin toStop
  /\ pc' = [pc EXCEPT ![i] = "consuming"] /\ sdk' = [sdk EXCEPT ![i] = "created"]
  /\ UNCHANGED <<turn, toStop, error, killed, faulty, queue, cancelSet, turnTasks, tables,
                 control, reported, lastTold, requests, waits, granted>>

\* The next item of the queue goes to the server; after the sentinel the task ends.
Forward(i) ==
  /\ pc[i] = "consuming" /\ i \notin toStop /\ queue[i] # <<>>
  /\ queue' = [queue EXCEPT ![i] = Tail(@)]
  /\ opened' = opened \cup {p \in Approvals : Head(queue[i]) = Request(p)}
  /\ \/ Head(queue[i]) = Ended /\ pc' = [pc EXCEPT ![i] = "done"]
        /\ UNCHANGED <<reported, lastTold>>
     \/ /\ \E kind \in Terminals : Head(queue[i]) = Terminal(kind) /\ Tell(i, kind)
        /\ UNCHANGED pc
     \/ /\ \E p \in Approvals : Head(queue[i]) = Request(p)
        /\ UNCHANGED <<pc, reported, lastTold>>
  /\ UNCHANGED <<turn, toStop, streams, cancelSet, turnTasks, tables, control, asker, tool,
                 answer, acks, late, waits, granted>>

\* The done callback pops the turn_id, whichever task is registered by now.
DoneCallback(i) ==
  /\ pc[i] = "done"
  /\ pc' = [pc EXCEPT ![i] = "gone"]
  /\ turnTasks' = [turnTasks EXCEPT ![turn[i]] = 0]
  /\ UNCHANGED <<turn, toStop, streams, queue, cancelSet, tables, control, reported, lastTold, requests,
                 waits, granted>>
------------------------------------------------------------------------------
(* run_sdk                                                                 *)

\* Variant: no sentinel.
FinishSilently(i, items) ==
  /\ sdk' = [sdk EXCEPT ![i] = "over"]
  /\ clients' = [clients EXCEPT ![turn[i]] = 0]
  /\ cancelEvents' = [cancelEvents EXCEPT ![turn[i]] = 0]
  /\ queue' = [queue EXCEPT ![i] = @ \o items]
  /\ future' = [p \in Approvals |-> IF asker[p] = i /\ future[p] # None THEN "over" ELSE future[p]]
  /\ fate' = [p \in Approvals |-> IF asker[p] = i /\ future[p] # "over" THEN "aborted" ELSE fate[p]]
  /\ pending' = {p \in pending : asker[p] # i}

\* The client is closed, which cancels its permission callbacks, and run_sdk ends:
\* the entries of its turn_id are popped and the sentinel follows the last items.
Finish(i, items) ==
  /\ sdk' = [sdk EXCEPT ![i] = "over"]
  /\ clients' = [clients EXCEPT ![turn[i]] = 0]
  /\ cancelEvents' = [cancelEvents EXCEPT ![turn[i]] = 0]
  /\ queue' = [queue EXCEPT ![i] = @ \o items \o <<Ended>>]
  /\ future' = [p \in Approvals |-> IF asker[p] = i /\ future[p] # None THEN "over" ELSE future[p]]
  /\ fate' = [p \in Approvals |-> IF asker[p] = i /\ future[p] # "over" THEN "aborted" ELSE fate[p]]
  /\ pending' = {p \in pending : asker[p] # i}

Alive(i) == sdk[i] \in {"connect", "stream", "exit"} /\ ~killed[i]

CreateClient(i) ==
  /\ sdk[i] = "created" /\ ~killed[i]
  /\ \/ /\ sdk' = [sdk EXCEPT ![i] = "connect"]
        /\ clients' = [clients EXCEPT ![turn[i]] = i]
        /\ UNCHANGED <<cancelEvents, queue, waits>>
     \/ /\ SdkFails /\ sdk' = [sdk EXCEPT ![i] = "over"]
        /\ cancelEvents' = [cancelEvents EXCEPT ![turn[i]] = 0]
        /\ queue' = [queue EXCEPT ![i] = @ \o <<Terminal("failed"), Ended>>]
        /\ UNCHANGED <<clients, waits>>
  /\ UNCHANGED <<tasks, error, killed, faulty, cancelSet, turnTasks, control, reported, lastTold, requests,
                 granted>>

Connect(i) ==
  /\ Alive(i) /\ sdk[i] = "connect"
  /\ \/ /\ sdk' = [sdk EXCEPT ![i] = "stream"]
        /\ UNCHANGED <<tables, queue, waits>>
     \/ SdkFails /\ Finish(i, <<Terminal("failed")>>)
  /\ UNCHANGED <<tasks, error, killed, faulty, cancelSet, turnTasks, control, reported, lastTold, requests,
                 granted>>

\* Variant: the loop does not look at the event before it maps a message.
ResultUnchecked(i, kind) ==
  /\ Alive(i) /\ sdk[i] = "stream"
  /\ \A p \in Approvals : asker[p] = i => future[p] \in {None, "over"}
  /\ LET event == cancelEvents[turn[i]]
         cancelled == event # 0 /\ cancelSet[event]
     IN queue' = [queue EXCEPT ![i] = Append(@, Terminal(IF cancelled THEN "cancelled" ELSE kind))]
  /\ sdk' = [sdk EXCEPT ![i] = "exit"]
  /\ UNCHANGED <<tasks, error, killed, faulty, cancelSet, turnTasks, tables, control, reported, lastTold,
                 requests, waits, granted>>

\* The result ends the stream.  It is mapped by the event found under the turn_id.
\* The runtime gives no result while it waits for a permission.
Result(i, kind) ==
  /\ Alive(i) /\ sdk[i] = "stream" /\ ~cancelSet[i]
  /\ \A p \in Approvals : asker[p] = i => future[p] \in {None, "over"}
  /\ LET event == cancelEvents[turn[i]]
         cancelled == event # 0 /\ cancelSet[event]
     IN queue' = [queue EXCEPT ![i] = Append(@, Terminal(IF cancelled THEN "cancelled" ELSE kind))]
  /\ sdk' = [sdk EXCEPT ![i] = "exit"]
  /\ UNCHANGED <<tasks, error, killed, faulty, cancelSet, turnTasks, tables, control, reported, lastTold,
                 requests, waits, granted>>

\* A message arrives when the event is set: the loop is left.
Break(i) ==
  /\ Alive(i) /\ sdk[i] = "stream" /\ cancelSet[i]
  /\ sdk' = [sdk EXCEPT ![i] = "exit"]
  /\ UNCHANGED <<tasks, error, killed, faulty, queue, cancelSet, turnTasks, tables, control,
                 reported, lastTold, requests, waits, granted>>

\* The query or the stream raises, or ends without a result.
StreamBreaks(i) ==
  /\ SdkFails /\ Alive(i) /\ sdk[i] = "stream"
  /\ sdk' = [sdk EXCEPT ![i] = "exit"]
  /\ \/ error' = [error EXCEPT ![i] = TRUE] /\ UNCHANGED faulty
     \/ faulty' = [faulty EXCEPT ![i] = TRUE] /\ UNCHANGED error
  /\ UNCHANGED <<tasks, killed, queue, cancelSet, turnTasks, tables, control, reported, lastTold, requests,
                 waits, granted>>

\* Variant: the event is not looked at again after the client is closed.
ExitUnchecked(i) ==
  /\ Alive(i) /\ sdk[i] = "exit"
  /\ \/ error[i] /\ Finish(i, <<Terminal("failed")>>) /\ UNCHANGED faulty
     \/ SdkFails /\ ~error[i] /\ Finish(i, <<Terminal("failed")>>) /\ faulty' = [faulty EXCEPT ![i] = TRUE]
     \/ ~error[i] /\ Finish(i, <<>>) /\ UNCHANGED faulty
  /\ UNCHANGED <<tasks, error, killed, cancelSet, turnTasks, control, reported, lastTold, requests, granted>>

\* The client is closed, which may fail as well.
Exit(i) ==
  /\ Alive(i) /\ sdk[i] = "exit"
  /\ \/ error[i] /\ Finish(i, <<Terminal("failed")>>) /\ UNCHANGED faulty
     \/ SdkFails /\ ~error[i] /\ Finish(i, <<Terminal("failed")>>) /\ faulty' = [faulty EXCEPT ![i] = TRUE]
     \/ ~error[i] /\ cancelSet[i] /\ Finish(i, <<Terminal("cancelled")>>) /\ UNCHANGED faulty
     \/ ~error[i] /\ ~cancelSet[i] /\ Finish(i, <<>>) /\ UNCHANGED faulty
  /\ UNCHANGED <<tasks, error, killed, cancelSet, turnTasks, control, reported, lastTold, requests, granted>>
------------------------------------------------------------------------------
(* can_use_tool and resolve_approval                                       *)

CanRemember(o) == o \notin Questions

\* Variant: the key leaves out the operation.
KeyOfThread(i, o) == <<ThreadOf[turn[i]]>>

Key(i, o) == <<ThreadOf[turn[i]], o>>

Ask(i, o) ==
  /\ Alive(i) /\ sdk[i] = "stream"
  /\ \E p \in Approvals :
       /\ asker[p] = 0 /\ \A q \in 1..(p - 1) : asker[q] # 0
       /\ asker' = [asker EXCEPT ![p] = i] /\ tool' = [tool EXCEPT ![p] = o]
       /\ \/ /\ CanRemember(o) /\ Key(i, o) \in granted
             /\ future' = [future EXCEPT ![p] = "over"] /\ fate' = [fate EXCEPT ![p] = "granted"]
             /\ UNCHANGED <<pending, queue>>
          \/ /\ ~(CanRemember(o) /\ Key(i, o) \in granted)
             /\ future' = [future EXCEPT ![p] = "pending"] /\ pending' = pending \cup {p}
             /\ queue' = [queue EXCEPT ![i] = Append(@, Request(p))]
             /\ UNCHANGED fate
  /\ UNCHANGED <<tasks, streams, cancelSet, turnTasks, tables, control, reported, lastTold, answer, acks, late,
                 opened, granted>>

\* Variant: only the table is consulted, not whether the future is done.
RespondWhenListed(p, d) ==
  /\ Handling /\ p \in opened
  /\ p \in pending
  /\ future' = [future EXCEPT ![p] = IF @ = "pending" THEN "set" ELSE @]
  /\ answer' = [answer EXCEPT ![p] = d] /\ acks' = [acks EXCEPT ![p] = @ + 1]
  /\ UNCHANGED <<tasks, streams, queue, cancelSet, turnTasks, tables, control, reported, lastTold, asker,
                 tool, late, opened, pending, fate, granted>>

\* approval_respond is acknowledged as resolved only for a future that is not done.
\* Anything else, and a question accepted without all its answers, is refused.
Respond(p, d) ==
  /\ Handling /\ p \in opened
  /\ p \in pending /\ future[p] = "pending"
  /\ future' = [future EXCEPT ![p] = "set"]
  /\ answer' = [answer EXCEPT ![p] = d] /\ acks' = [acks EXCEPT ![p] = @ + 1]
  /\ UNCHANGED <<tasks, streams, queue, cancelSet, turnTasks, tables, control, reported, lastTold, asker,
                 tool, late, opened, pending, fate, granted>>

\* wait_for gives up: the future is cancelled, unless it was set just before.
Timeout(p) ==
  /\ \/ future[p] = "pending" /\ future' = [future EXCEPT ![p] = "cancelled"] /\ UNCHANGED late
     \/ future[p] = "set" /\ ~late[p] /\ late' = [late EXCEPT ![p] = TRUE] /\ UNCHANGED future
  /\ UNCHANGED <<tasks, streams, queue, cancelSet, turnTasks, tables, control, reported, lastTold, asker,
                 tool, answer, acks, opened, pending, fate, granted>>

\* Variant: every accepting answer is remembered.
GrantAlways(p) ==
  granted' = granted \cup (IF answer[p] \in {"accept", "acceptForSession"}
                           THEN {Key(asker[p], tool[p])} ELSE {})

Grant(p) ==
  granted' = granted \cup (IF answer[p] = "acceptForSession" /\ CanRemember(tool[p])
                           THEN {Key(asker[p], tool[p])} ELSE {})

\* The callback runs again.  From Python 3.12 on, wait_for prefers a timeout that
\* came between the answer and the wakeup; before, the answer.
Wake(p) ==
  /\ future[p] \in {"set", "cancelled"}
  /\ future' = [future EXCEPT ![p] = "over"] /\ pending' = pending \ {p}
  /\ \/ /\ future[p] = "set"
        /\ fate' = [fate EXCEPT ![p] = "answered"] /\ Grant(p)
     \/ /\ future[p] = "cancelled" \/ late[p]
        /\ fate' = [fate EXCEPT ![p] = "expired"] /\ UNCHANGED granted
  /\ UNCHANGED <<tasks, streams, queue, cancelSet, turnTasks, tables, control, reported, lastTold, requests>>
------------------------------------------------------------------------------
(* stop(), when the session ends: the message loop is already cancelled    *)

Stop ==
  /\ phase = "running" /\ MaxStops = 1
  /\ phase' = "stopping" /\ handler' = None
  /\ toStop' = {turnTasks[t] : t \in Turns} \ {0}
  /\ UNCHANGED <<turn, pc, streams, queue, cancelSet, turnTasks, tables, cancels, reported, lastTold,
                 requests, waits, granted>>

\* A cancelled task takes its run_sdk with it: it waits for it, or, cancelled while
\* it was sending, leaves that to the finalizer of the generator.
TaskCancelled(i) ==
  /\ i \in toStop /\ pc[i] \in {"created", "opening", "consuming"}
  /\ \/ /\ pc[i] # "consuming" /\ pc' = [pc EXCEPT ![i] = "done"] /\ UNCHANGED killed
     \/ /\ pc[i] = "consuming" /\ killed' = [killed EXCEPT ![i] = (sdk[i] # "over")]
        /\ \E at \in {"closing", "done"} : pc' = [pc EXCEPT ![i] = at]
  /\ UNCHANGED <<turn, toStop, sdk, error, faulty, queue, cancelSet, turnTasks, tables, control,
                 reported, lastTold, requests, waits, granted>>

TaskClosed(i) ==
  /\ pc[i] = "closing" /\ sdk[i] = "over"
  /\ pc' = [pc EXCEPT ![i] = "done"]
  /\ UNCHANGED <<turn, toStop, streams, queue, cancelSet, turnTasks, tables, control, reported, lastTold,
                 requests, waits, granted>>

\* A run_sdk that had not started never runs; otherwise its client is closed.
SdkCancelled(i) ==
  /\ killed[i] /\ sdk[i] # "over"
  /\ \/ /\ sdk[i] = "created" /\ sdk' = [sdk EXCEPT ![i] = "over"]
        /\ UNCHANGED <<tables, queue, waits>>
     \/ sdk[i] # "created" /\ Finish(i, <<>>)
  /\ UNCHANGED <<tasks, error, killed, faulty, cancelSet, turnTasks, control, reported, lastTold, requests,
                 granted>>

\* Variant: the tasks are cancelled but not waited for.
StoppedAtOnce ==
  /\ phase = "stopping"
  /\ phase' = "stopped"
  /\ cancelEvents' = [t \in Turns |-> 0] /\ clients' = [t \in Turns |-> 0]
  /\ pending' = {} /\ granted' = {}
  /\ UNCHANGED <<tasks, streams, queue, cancelSet, turnTasks, handler, cancels, reported, lastTold,
                 requests, future, fate>>

\* provider.stop() follows when the tasks are done; five seconds bound all of it.
Stopped ==
  /\ phase = "stopping" /\ \A i \in toStop : pc[i] \in {"done", "gone"}
  /\ phase' = "stopped"
  /\ cancelEvents' = [t \in Turns |-> 0] /\ clients' = [t \in Turns |-> 0]
  /\ pending' = {} /\ granted' = {}
  /\ UNCHANGED <<tasks, streams, queue, cancelSet, turnTasks, handler, cancels, reported, lastTold,
                 requests, future, fate>>

StopTimesOut ==
  /\ phase = "stopping" /\ phase' = "abandoned"
  /\ UNCHANGED <<tasks, streams, queue, cancelSet, turnTasks, tables, handler, cancels, reported, lastTold,
                 requests, waits, granted>>
------------------------------------------------------------------------------
TaskStep(i) == RunTurn(i) \/ StartSdkTask(i) \/ Forward(i) \/ DoneCallback(i)
                 \/ TaskCancelled(i) \/ TaskClosed(i)
SdkStep(i) == CreateClient(i) \/ Connect(i) \/ (\E kind \in {"completed", "failed"} : Result(i, kind))
                \/ Break(i) \/ Exit(i) \/ SdkCancelled(i)
Expiry(p) == Timeout(p) \/ Wake(p)
Server == \/ \E t \in Turns : TurnStart(t) \/ Cancel(t)
          \/ \E p \in Approvals, d \in Decisions : Respond(p, d)

Next == \/ Server \/ CancelReported \/ Stop \/ Stopped \/ StopTimesOut
        \/ \E i \in Tasks : TaskStep(i) \/ SdkStep(i) \/ StreamBreaks(i) \/ \E o \in Tools : Ask(i, o)
        \/ \E p \in Approvals : Expiry(p)

Spec == Init /\ [][Next]_vars

\* The loop runs what is ready, timers fire, and a runtime that waits for nothing
\* gives its result in the end.
FairSpec == /\ Spec /\ \A i \in Tasks : WF_vars(TaskStep(i)) /\ WF_vars(SdkStep(i))
            /\ \A p \in Approvals : WF_vars(Expiry(p))
            /\ WF_vars(Stopped)
------------------------------------------------------------------------------
(* Properties                                                              *)

\* The values the variables take.
TypeOK ==
  /\ turn \in [Tasks -> Turns \cup {None}]
  /\ pc \in [Tasks -> {None, "created", "opening", "consuming", "closing", "done", "gone"}]
  /\ sdk \in [Tasks -> {None, "created", "connect", "stream", "exit", "over"}]
  /\ error \in [Tasks -> BOOLEAN] /\ killed \in [Tasks -> BOOLEAN]
  /\ faulty \in [Tasks -> BOOLEAN] /\ cancelSet \in [Tasks -> BOOLEAN]
  /\ queue \in [Tasks -> Seq({Request(p) : p \in Approvals} \cup {Terminal(k) : k \in Terminals}
                               \cup {Ended})]
  /\ turnTasks \in [Turns -> Tasks \cup {0}] /\ cancelEvents \in [Turns -> Tasks \cup {0}]
  /\ clients \in [Turns -> Tasks \cup {0}]
  /\ handler \in Turns \cup {None} /\ cancels \in 0..MaxCancels
  /\ phase \in {"running", "stopping", "stopped", "abandoned"} /\ toStop \subseteq Tasks
  /\ reported \in [Tasks -> Seq(Terminals)] /\ lastTold \in [Turns -> Terminals \cup {None}]
  /\ asker \in [Approvals -> Tasks \cup {0}] /\ tool \in [Approvals -> Tools \cup {None}]
  /\ future \in [Approvals -> {None, "pending", "set", "cancelled", "over"}]
  /\ answer \in [Approvals -> Decisions \cup {None}] /\ acks \in [Approvals -> Nat]
  /\ late \in [Approvals -> BOOLEAN]
  /\ fate \in [Approvals -> {None, "answered", "expired", "aborted", "granted"}]
  /\ opened \subseteq Approvals /\ pending \subseteq Approvals
  /\ granted \subseteq Threads \X Tools

\* A task that ends by itself (neither cancelled by stop() nor left by a runtime that ended
\* without a result or failed while it was closed) has sent one event that ends the turn.
\* A cancel that reaches the turn after its result adds turn.cancelled; if the cancel came
\* before, no result is sent as turn.completed.  The handler of turn_cancel sends one more
\* turn.cancelled for each request: see CancelIsLastWord.
EndedByItself(i) == pc[i] \in {"done", "gone"} /\ i \notin toStop /\ ~faulty[i]

OneTerminal ==
  \A i \in Tasks : EndedByItself(i) =>
     \/ \E kind \in Terminals : reported[i] = <<kind>> /\ (kind = "completed" => ~cancelSet[i])
     \/ cancelSet[i] /\ reported[i] \in {<<kind, "cancelled">> : kind \in {"completed", "failed"}}

\* When a cancel has reached a turn (its event was set) and the turn has ended by itself,
\* the last the server was told of it, by its task or by the handler of a turn_cancel, is
\* that it was cancelled or failed, never that it was completed: the handler's event may
\* overtake a result that waits in the queue, but then turn.cancelled follows the result.
\* Only another task of the same turn_id may speak of its own completion later.
CancelIsLastWord ==
  \A i \in Tasks : EndedByItself(i) /\ cancelSet[i] /\ lastTold[turn[i]] = "completed" =>
     \E j \in Tasks \ {i} : turn[j] = turn[i]

\* approval.resolved is sent at most once for an approval, and never after it expired, after
\* its callback went on, or after run_sdk of its turn ended.
StaleRejected ==
  [][\A p \in Approvals : acks'[p] # acks[p] =>
       /\ acks[p] = 0 /\ acks'[p] = 1
       /\ future[p] # "cancelled" /\ fate[p] = None
       /\ sdk[asker[p]] \in {"stream", "exit"}]_vars

\* A permission is granted without asking only for the thread, directory and operation
\* for which the server had answered acceptForSession, and never for a question.
GrantedByAnswer ==
  \A p \in Approvals : fate[p] = "granted" =>
     /\ tool[p] \notin Questions
     /\ \E q \in Approvals \ {p} : /\ answer[q] = "acceptForSession" /\ tool[q] = tool[p]
                                   /\ ThreadOf[turn[asker[q]]] = ThreadOf[turn[asker[p]]]

\* When stop() comes to its end no turn goes on, unless its turn_id was started twice.
StopEndsTurns ==
  phase = "stopped" => \A i \in Tasks :
     \/ pc[i] \in {None, "done", "gone"}
     \/ \E j \in Tasks \ {i} : turn[j] = turn[i]

\* Every turn ends, though nobody answers its approvals.
TurnsEnd == \A i \in Tasks : pc[i] = "created" ~> pc[i] = "gone"
==============================================================================
