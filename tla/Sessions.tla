------------------------------- MODULE Sessions -------------------------------
(***************************************************************************)
(* The connections of one connector process (cli.py): each runs sessions   *)
(* one after another and all share one event loop; a supervisor ends them  *)
(* when one raises, and SIGTERM cancels them.  A session starts an         *)
(* app-server child and opens an outbox, is accepted, runs three tasks     *)
(* until the first one ends, and tears down in a finally block, every      *)
(* await of which a cancellation can cut short.                            *)
(*                                                                         *)
(* The server answers or a fault happens: the connection is lost or        *)
(* closed, a runtime does not answer, a write fails.  What the tasks do is *)
(* the subject of EventDelivery; delays between attempts are left out.     *)
(***************************************************************************)
EXTENDS Naturals, FiniteSets

CONSTANTS Conns,     \* saved connections
          MaxFaults  \* bound on faults, so on sessions

ASSUME SessionConstants == IsFiniteSet(Conns) /\ MaxFaults \in Nat

Tasks == {"writer", "heartbeat", "receiver"}
Ended == {"stopped", "raised", "cancelled"}
Final == {"stop", "drain", "gather"}
Open  == {"hello", "sync", "up"} \cup Final

VARIABLES
  reconnect,     \* unless --no-reconnect
  registering,   \* --token: exchange it and exit
  ownTask,       \* asyncio.wait_for runs what it waits for in a task of its own
  pc,            \* per connection: "down", "boot", "sleep", or one of the above
  outcome,       \* per connection: how the session being torn down ended
  session,       \* per connection: number of the session
  children,      \* per connection: the sessions whose app-server child runs
  outboxes,      \* per connection: the sessions whose outbox is open
  tasks,         \* per connection: the running tasks, <<session, name>>
  abandoned,     \* per connection: the sessions left without a whole teardown
  rejected,      \* connections the server has rejected
  cancelling,    \* connections with a cancellation not delivered yet
  supervisor,    \* "running", "failed" when one raised, "exited"
  signalled,     \* SIGTERM has arrived
  faults

mode      == <<reconnect, registering, ownTask>>
resources == <<children, outboxes, tasks>>
process   == <<cancelling, supervisor, signalled>>
vars == <<mode, pc, outcome, session, resources, abandoned, rejected, process, faults>>

None == [c \in Conns |-> {}]

\* With --token one connection runs, by itself.
Init ==
  /\ reconnect \in BOOLEAN /\ registering \in BOOLEAN /\ ownTask \in BOOLEAN
  /\ IF registering THEN \E c \in Conns : pc = [d \in Conns |-> IF d = c THEN "down" ELSE "stopped"]
                    ELSE pc = [c \in Conns |-> "down"]
  /\ outcome = [c \in Conns |-> "none"] /\ session = [c \in Conns |-> 0]
  /\ children = None /\ outboxes = None /\ tasks = None /\ abandoned = None
  /\ rejected = {} /\ cancelling = {} /\ supervisor = "running" /\ signalled = FALSE
  /\ faults = 0

Fault == faults < MaxFaults /\ faults' = faults + 1
Without(f, c) == [f EXCEPT ![c] = @ \ {session[c]}]
With(f, c) == [f EXCEPT ![c] = @ \cup {session[c]}]
Running(c) == c \notin cancelling
------------------------------------------------------------------------------
(* run_connection: what follows an attempt that ended with a result        *)

\* Variant: one connection that is rejected fails the supervisor.
AfterUnsupervised(result) ==
  CASE result = "cancelled" -> "cancelled"
    [] reconnect /\ ~registering /\ result # "rejected" -> "sleep"
    [] result = "orderly" -> "stopped"
    [] OTHER -> "raised"

\* Variant: every ConnectorError is taken for a rejection.
AfterAnyError(result) ==
  CASE result = "cancelled" -> "cancelled"
    [] reconnect /\ ~registering /\ result = "orderly" -> "sleep"
    [] result = "orderly" \/ (reconnect /\ Cardinality(Conns) > 1) -> "stopped"
    [] OTHER -> "raised"

\* A rejection is not retried; it ends one of several connections quietly.
After(result) ==
  CASE result = "cancelled" -> "cancelled"
    [] reconnect /\ ~registering /\ result # "rejected" -> "sleep"
    [] result = "orderly" \/ (reconnect /\ ~registering /\ Cardinality(Conns) > 1) -> "stopped"
    [] OTHER -> "raised"

Goto(c, label) == pc' = [pc EXCEPT ![c] = label]
Leave(c, result) == Goto(c, After(result))

\* Backoff is over: connect again.
Wake(c) ==
  /\ pc[c] = "sleep" /\ Running(c)
  /\ Goto(c, "down")
  /\ UNCHANGED <<mode, outcome, session, resources, abandoned, rejected, process, faults>>

\* run_connector_once_for_spec connects and sends the bootstrap.
Connect(c) ==
  /\ pc[c] = "down" /\ Running(c)
  /\ \/ Goto(c, "boot") /\ UNCHANGED faults
     \/ Fault /\ Leave(c, "error")
  /\ UNCHANGED <<mode, outcome, session, resources, abandoned, rejected, process>>
------------------------------------------------------------------------------
(* run_agent_provider_session, up to the start of the tasks                *)

Reject(c) == rejected' = rejected \cup {c} /\ Leave(c, "rejected") /\ UNCHANGED faults

\* The bootstrap is answered; the runtimes start, without an await, and the hello
\* is sent.  A codex runtime that fails is closed; with neither runtime the
\* session raises, and its outbox stays open.
Bootstrapped(c) ==
  /\ pc[c] = "boot" /\ Running(c)
  /\ \/ /\ session' = [session EXCEPT ![c] = @ + 1]
        /\ outboxes' = [outboxes EXCEPT ![c] = @ \cup {session'[c]}]
        /\ \/ /\ Goto(c, "hello") /\ UNCHANGED <<faults, abandoned>>
              /\ children' \in {children, [children EXCEPT ![c] = @ \cup {session'[c]}]}
           \/ /\ Fault /\ Leave(c, "error") /\ UNCHANGED children
              /\ abandoned' = [abandoned EXCEPT ![c] = @ \cup {session'[c]}]
        /\ UNCHANGED rejected
     \/ /\ Reject(c) \/ (Fault /\ Leave(c, "error") /\ UNCHANGED rejected)
        /\ UNCHANGED <<session, outboxes, children, abandoned>>
  /\ UNCHANGED <<mode, outcome, tasks, process>>

\* The hello is answered and a new token saved.  A registration is over then; a
\* rejection, a lost connection or a failed save leaves the session as it stands.
Accepted(c) ==
  /\ pc[c] = "hello" /\ Running(c)
  /\ \/ /\ ~registering /\ Goto(c, "sync")
        /\ UNCHANGED <<children, outboxes, abandoned, rejected, faults>>
     \/ /\ registering /\ Leave(c, "orderly")
        /\ children' = Without(children, c) /\ outboxes' = Without(outboxes, c)
        /\ UNCHANGED <<abandoned, rejected, faults>>
     \/ /\ Reject(c) \/ (Fault /\ Leave(c, "error") /\ UNCHANGED rejected)
        /\ abandoned' = With(abandoned, c) /\ UNCHANGED <<children, outboxes>>
  /\ UNCHANGED <<mode, outcome, session, tasks, process>>

\* _send_initial_runtime_sync; then the tasks are created.
Synced(c) ==
  /\ pc[c] = "sync" /\ Running(c)
  /\ \/ /\ Goto(c, "up") /\ UNCHANGED <<faults, abandoned>>
        /\ tasks' = [tasks EXCEPT ![c] = @ \cup ({session[c]} \X Tasks)]
     \/ /\ Fault /\ Leave(c, "error") /\ UNCHANGED tasks
        /\ abandoned' = With(abandoned, c)
  /\ UNCHANGED <<mode, outcome, session, children, outboxes, rejected, process>>
------------------------------------------------------------------------------
(* Its finally block                                                       *)

\* The heartbeat and the receiver are cancelled, the writer works on.
KeepWriter(c, ended) ==
  tasks' = [tasks EXCEPT ![c] = @ \ ({session[c]} \X (ended \cup {"heartbeat", "receiver"}))]

\* Some tasks end; only the receiver does so without an error.
TasksEnd(c) ==
  /\ pc[c] = "up" /\ Running(c) /\ Fault
  /\ \E ended \in SUBSET Tasks \ {{}} :
       /\ \/ ended = {"receiver"} /\ outcome' = [outcome EXCEPT ![c] = "orderly"]
          \/ outcome' = [outcome EXCEPT ![c] = "error"]
       /\ KeepWriter(c, ended)
  /\ Goto(c, "stop")
  /\ UNCHANGED <<mode, session, children, outboxes, abandoned, rejected, process>>

\* Variant: the connectors are stopped and the app-server is not.
StopConnectorsOnly(c) ==
  /\ pc[c] = "stop" /\ Running(c)
  /\ Goto(c, "drain")
  /\ UNCHANGED <<mode, outcome, session, resources, abandoned, rejected, process, faults>>

\* mux.stop
Stop(c) ==
  /\ pc[c] = "stop" /\ Running(c)
  /\ children' = Without(children, c)
  /\ Goto(c, "drain")
  /\ UNCHANGED <<mode, outcome, session, outboxes, tasks, abandoned, rejected, process, faults>>

\* The sender is closed and drained; a put that fails, of those it waits for,
\* ends the block here.
Drain(c) ==
  /\ pc[c] = "drain" /\ Running(c)
  /\ \/ Goto(c, "gather") /\ UNCHANGED <<abandoned, faults>>
     \/ Fault /\ Leave(c, "error") /\ abandoned' = With(abandoned, c)
  /\ UNCHANGED <<mode, outcome, session, resources, rejected, process>>

\* Variant: the writer is not cancelled.
GatherOthers(c) ==
  /\ pc[c] = "gather" /\ Running(c)
  /\ outboxes' = Without(outboxes, c)
  /\ Leave(c, outcome[c])
  /\ UNCHANGED <<mode, outcome, session, children, tasks, abandoned, rejected, process, faults>>

\* The writer is cancelled and waited for, and the outbox closed.
Gather(c) ==
  /\ pc[c] = "gather" /\ Running(c)
  /\ tasks' = [tasks EXCEPT ![c] = @ \ ({session[c]} \X Tasks)]
  /\ outboxes' = Without(outboxes, c)
  /\ Leave(c, outcome[c])
  /\ UNCHANGED <<mode, outcome, session, children, abandoned, rejected, process, faults>>
------------------------------------------------------------------------------
(* Cancellation                                                            *)

\* It is delivered at the await.  In the task group of a session that is up it
\* starts the teardown; in the teardown it ends it, unless wait_for runs the
\* connector's stop in the cancelled task: waiting for a turn there swallows it.
Cancelled(c) ==
  /\ c \in cancelling /\ cancelling' = cancelling \ {c}
  /\ \/ /\ pc[c] = "up" /\ Goto(c, "stop") /\ KeepWriter(c, {})
        /\ outcome' = [outcome EXCEPT ![c] = "cancelled"] /\ UNCHANGED abandoned
     \/ /\ pc[c] = "stop" /\ ~ownTask /\ UNCHANGED <<pc, outcome, tasks, abandoned>>
     \/ /\ pc[c] # "up" /\ Goto(c, "cancelled") /\ UNCHANGED <<outcome, tasks>>
        /\ abandoned' = IF pc[c] \in Open THEN With(abandoned, c) ELSE abandoned
  /\ UNCHANGED <<mode, session, children, outboxes, rejected, supervisor, signalled, faults>>

\* The cancellation arrives while a codex runtime that failed is closed in a thread: the
\* child is closed all the same, the outbox stays open.
CancelledAtClose(c) ==
  /\ c \in cancelling /\ pc[c] = "boot"
  /\ cancelling' = cancelling \ {c} /\ Goto(c, "cancelled")
  /\ session' = [session EXCEPT ![c] = @ + 1]
  /\ outboxes' = [outboxes EXCEPT ![c] = @ \cup {session'[c]}]
  /\ abandoned' = [abandoned EXCEPT ![c] = @ \cup {session'[c]}]
  /\ UNCHANGED <<mode, outcome, children, tasks, rejected, supervisor, signalled, faults>>

Alive == {c \in Conns : pc[c] \notin Ended}

\* run_supervisor: gather raises as soon as a connection has raised or was cancelled, and
\* the rest is cancelled: after a signal for the second time, in the midst of its teardown.
SupervisorFails ==
  /\ supervisor = "running" /\ \E c \in Conns : pc[c] \in {"raised", "cancelled"}
  /\ supervisor' = "failed" /\ cancelling' = Alive
  /\ UNCHANGED <<mode, pc, outcome, session, resources, abandoned, rejected, signalled, faults>>

\* SIGTERM raises KeyboardInterrupt in the loop: asyncio.run cancels every task.
Signal ==
  /\ supervisor # "exited" /\ ~signalled
  /\ signalled' = TRUE /\ cancelling' = Alive
  /\ UNCHANGED <<mode, pc, outcome, session, resources, abandoned, rejected, supervisor, faults>>

Exit ==
  /\ supervisor # "exited" /\ Alive = {}
  /\ supervisor' = "exited"
  /\ UNCHANGED <<mode, pc, outcome, session, resources, abandoned, rejected, cancelling, signalled, faults>>
------------------------------------------------------------------------------
Step(c) == \/ Wake(c) \/ Connect(c) \/ Bootstrapped(c) \/ Accepted(c) \/ Synced(c)
           \/ Stop(c) \/ Drain(c) \/ Gather(c) \/ Cancelled(c) \/ CancelledAtClose(c)

Next == (\E c \in Conns : Step(c) \/ TasksEnd(c)) \/ SupervisorFails \/ Signal \/ Exit

Spec == Init /\ [][Next]_vars

\* The loop runs every connection, the server answers or the connection is lost.
FairSpec == /\ Spec /\ \A c \in Conns : WF_vars(Step(c))
            /\ WF_vars(SupervisorFails) /\ WF_vars(Exit)
------------------------------------------------------------------------------
(* Properties                                                              *)

\* The values the variables take; a session in progress has its outbox.
TypeOK ==
  /\ reconnect \in BOOLEAN /\ registering \in BOOLEAN /\ ownTask \in BOOLEAN
  /\ pc \in [Conns -> {"down", "boot", "sleep"} \cup Open \cup Ended]
  /\ outcome \in [Conns -> {"none", "orderly", "error", "cancelled"}]
  /\ session \in [Conns -> Nat] /\ tasks \in [Conns -> SUBSET (Nat \X Tasks)]
  /\ children \in [Conns -> SUBSET Nat] /\ outboxes \in [Conns -> SUBSET Nat]
  /\ abandoned \in [Conns -> SUBSET Nat]
  /\ rejected \subseteq Conns /\ cancelling \subseteq Conns
  /\ supervisor \in {"running", "failed", "exited"} /\ signalled \in BOOLEAN
  /\ \A c \in Conns : pc[c] \in Open => session[c] \in outboxes[c]

\* Whatever ends a session, it leaves no child, outbox or task behind, unless it
\* ended before its tasks ran or its teardown was cut short: only there does the
\* code have nothing that releases them.
NothingLeft ==
  \A c \in Conns :
    LET owned == abandoned[c] \cup (IF pc[c] \in Open THEN {session[c]} ELSE {})
    IN children[c] \cup outboxes[c] \cup {t[1] : t \in tasks[c]} \subseteq owned

\* No task runs on with an outbox that is closed, in a teardown or after it.
OutboxOutlivesTasks == \A c \in Conns : \A t \in tasks[c] : t[1] \in outboxes[c]

\* One connection that ends, rejected or not, does not end another: as long as
\* connections reconnect only a signal cancels them.
OthersGoOn ==
  reconnect /\ Cardinality(Conns) > 1 /\ ~signalled => \A c \in Conns : pc[c] # "cancelled"

\* A connection that waits to reconnect gets up again, however the attempt before
\* ended, unless the server rejects it, it is cancelled, or another one raised.
ComesBack ==
  \A c \in Conns : pc[c] = "sleep" ~> pc[c] \in {"up", "cancelled"} \/ c \in rejected
==============================================================================
