---------------------------- MODULE EventDelivery ----------------------------
(***************************************************************************)
(* event_outbox.py and the three tasks of session.py that share it: the    *)
(* outbound writer, the message loop and whoever puts messages, over one   *)
(* connection to the server that can be lost at any time, in a process     *)
(* that can crash at any time.  The sqlite table survives both.            *)
(*                                                                         *)
(* A durable event (message type "connector.event") is its id, a number in *)
(* the order of production.  Every other message is transient.  The server *)
(* and asyncio.Queue are external: the first acknowledges what it has read *)
(* and reads independently of sending, the second wakes one waiting putter *)
(* per get, and a woken putter can find the queue full again.              *)
(***************************************************************************)
EXTENDS Naturals, SequencesExt

CONSTANTS NumEvents,    \* durable events the producers ever create
          Transients,   \* the other messages they create
          QueueSize,    \* maxsize of the in-memory queue (1000 in the code)
          WireSize,     \* bytes in flight before websocket.send blocks, in messages
          InboxSize,    \* the same, in the other direction
          MaxFaults,    \* bound on losses, failed setups and crashes
          MaxExtras     \* bound on requests of the server and events put again, together

ASSUME DeliveryConstants ==
  /\ NumEvents \in Nat /\ Transients \cap Nat = {}
  /\ QueueSize \in Nat \ {0} /\ WireSize \in Nat \ {0} /\ InboxSize \in Nat \ {0}
  /\ MaxFaults \in Nat /\ MaxExtras \in Nat

Events   == 1..NumEvents
Messages == Events \cup Transients
Nothing  == 0                  \* no message, and no row in the table
Request  == 0                  \* in the inbox: a request, not an acknowledgement
Response == 0                  \* on the wire: the response to a request

VARIABLES
  rows,       \* the sqlite table: event id -> rowid, Nothing when absent
  queue,      \* the asyncio queue
  putters,    \* transient messages whose put waits for room, in waiting order
  woken,      \* those whose future is resolved but which have not run yet
  phase,      \* of run_agent_provider_session
  socket,     \* the connection is open
  pc,         \* of outbound_writer
  replayDue,  \* loop.time() >= replay_at
  snapshot,   \* what the current pass over pending() has still to send
  held,       \* the message taken from the queue and not sent yet
  wire,       \* messages on their way to the server
  inbox,      \* acknowledgements and requests on their way to message_loop
  handling,   \* message_loop awaits the handler of a request
  handlerPut, \* the message that handler is putting, or Nothing
  received,   \* everything the server has read
  owed,       \* acknowledgements the server has still to send
  produced,   \* durable events created so far
  offered,    \* transient messages put so far
  overflowed, \* some durable event met a full queue
  faults, rePuts, requests

session == <<phase, socket, faults>>
writer  == <<pc, replayDue, snapshot, held>>
loop    == <<inbox, handling, handlerPut, requests>>
memory  == <<queue, putters, woken>>
server  == <<received, owed>>
history == <<produced, offered, overflowed, rePuts>>
vars    == <<rows, memory, session, writer, wire, loop, server, history>>

Empty == [e \in Events |-> Nothing]
Stored == {e \in Events : rows[e] # Nothing}
Pending == {e \in Events : snapshot[e] # Nothing}
Running == phase \in {"setup", "up", "teardown"}
Full == Len(queue) >= QueueSize
Waiting(t) == t \in woken \/ \E i \in 1..Len(putters) : putters[i] = t

Init ==
  /\ rows = Empty /\ queue = <<>> /\ putters = <<>> /\ woken = {}
  /\ phase = "down" /\ socket = FALSE /\ faults = 0
  /\ pc = "top" /\ replayDue = TRUE /\ snapshot = Empty /\ held = Nothing
  /\ wire = <<>> /\ inbox = <<>> /\ handling = FALSE /\ handlerPut = Nothing
  /\ received = {} /\ owed = {} /\ requests = 0
  /\ produced = 0 /\ offered = {} /\ overflowed = FALSE /\ rePuts = 0
------------------------------------------------------------------------------
(* Putting messages                                                        *)

\* Variant: INSERT OR REPLACE, which gives a known id a new rowid.
InsertOrReplace(e) ==
  \E top \in {rows[d] : d \in Events} :
    (\A d \in Events : rows[d] <= top) /\ rows' = [rows EXCEPT ![e] = top + 1]

\* INSERT OR IGNORE: a known id keeps its row, a new one gets the largest rowid.
Insert(e) ==
  \/ rows[e] # Nothing /\ UNCHANGED rows
  \/ /\ rows[e] = Nothing
     /\ \E top \in {rows[d] : d \in Events} :
          (\A d \in Events : rows[d] <= top) /\ rows' = [rows EXCEPT ![e] = top + 1]

PutDurable(e) ==
  /\ Running
  /\ Insert(e)
  /\ queue' = IF Full THEN queue ELSE Append(queue, e)
  /\ overflowed' = (overflowed \/ Full)
  /\ UNCHANGED <<putters, woken, session, writer, wire, loop, server, offered>>

Produce == /\ produced < NumEvents
           /\ PutDurable(produced + 1)
           /\ produced' = produced + 1
           /\ UNCHANGED rePuts

\* put_nowait with the event_id of an event that was put before.
RePut == /\ rePuts + requests < MaxExtras
         /\ \E e \in 1..produced : PutDurable(e)
         /\ rePuts' = rePuts + 1
         /\ UNCHANGED produced

\* asyncio.Queue.put: at once when there is room, else the caller waits.
PutTransient(t) ==
  /\ Running /\ t \notin offered
  /\ offered' = offered \cup {t}
  /\ \/ ~Full /\ queue' = Append(queue, t) /\ UNCHANGED putters
     \/ Full /\ putters' = Append(putters, t) /\ UNCHANGED queue
  /\ UNCHANGED <<rows, woken, session, writer, wire, server, produced, overflowed, rePuts>>

Put == \E t \in Transients : PutTransient(t) /\ UNCHANGED loop

\* A woken putter runs; another put may have taken the room in between.
Resume(t) ==
  /\ Running /\ t \in woken
  /\ woken' = woken \ {t}
  /\ \/ ~Full /\ queue' = Append(queue, t) /\ UNCHANGED putters
     \/ Full /\ putters' = Append(putters, t) /\ UNCHANGED queue
  /\ UNCHANGED <<rows, session, writer, wire, loop, server, history>>
------------------------------------------------------------------------------
(* outbound_writer                                                         *)

\* The writer runs until it is cancelled after the drain; a send on a lost
\* connection raises and ends it.
Writing(at) == phase \in {"up", "teardown"} /\ socket /\ pc = at

WriterTop ==
  /\ Writing("top")
  /\ \/ replayDue /\ snapshot' = rows /\ pc' = "replay"
     \/ ~replayDue /\ pc' = "get" /\ UNCHANGED snapshot
  /\ UNCHANGED <<rows, memory, session, replayDue, held, wire, loop, server, history>>

\* ORDER BY rowid
ReplaySend ==
  /\ Writing("replay") /\ Len(wire) < WireSize
  /\ \E e \in Pending :
       /\ \A d \in Pending : snapshot[e] <= snapshot[d]
       /\ wire' = Append(wire, e)
       /\ snapshot' = [snapshot EXCEPT ![e] = Nothing]
  /\ UNCHANGED <<rows, memory, session, pc, replayDue, held, loop, server, history>>

\* Variant: the pass is repeated until everything is acknowledged.
ReplayDoneWhenEmpty ==
  /\ Writing("replay") /\ Pending = {}
  /\ replayDue' = (Stored # {}) /\ pc' = IF Stored = {} THEN "get" ELSE "top"
  /\ UNCHANGED <<rows, memory, session, snapshot, held, wire, loop, server, history>>

ReplayDone ==
  /\ Writing("replay") /\ Pending = {}
  /\ replayDue' = FALSE /\ pc' = "get"
  /\ UNCHANGED <<rows, memory, session, snapshot, held, wire, loop, server, history>>

\* get() wakes the first putter that still waits.
Get ==
  /\ Writing("get") /\ queue # <<>>
  /\ held' = Head(queue) /\ queue' = Tail(queue) /\ pc' = "send"
  /\ \/ putters = <<>> /\ UNCHANGED <<putters, woken>>
     \/ /\ putters # <<>>
        /\ putters' = Tail(putters) /\ woken' = woken \cup {Head(putters)}
  /\ UNCHANGED <<rows, session, replayDue, snapshot, wire, loop, server, history>>

GetTimeout ==
  /\ Writing("get") /\ queue = <<>>
  /\ pc' = "top"
  /\ UNCHANGED <<rows, memory, session, replayDue, snapshot, held, wire, loop, server, history>>

\* Variant: the row is deleted once the event is written to the socket.
SendForgets ==
  /\ Writing("send") /\ Len(wire) < WireSize
  /\ wire' = Append(wire, held) /\ held' = Nothing /\ pc' = "top"
  /\ rows' = [e \in Events |-> IF e = held THEN Nothing ELSE rows[e]]
  /\ UNCHANGED <<memory, session, replayDue, snapshot, loop, server, history>>

Send ==
  /\ Writing("send") /\ Len(wire) < WireSize
  /\ wire' = Append(wire, held) /\ held' = Nothing /\ pc' = "top"
  /\ UNCHANGED <<rows, memory, session, replayDue, snapshot, loop, server, history>>

\* Variant: nothing is replayed before the next connection.
ReplayTimerUnused == phase = "up" /\ pc # "replay" /\ ~replayDue /\ UNCHANGED vars

\* Fifteen seconds have passed since the last replay.
ReplayTimer ==
  /\ phase = "up" /\ pc # "replay" /\ ~replayDue
  /\ replayDue' = TRUE
  /\ UNCHANGED <<rows, memory, session, pc, snapshot, held, wire, loop, server, history>>
------------------------------------------------------------------------------
(* message_loop                                                            *)

\* One message at a time: nothing is read while a handler runs.
Reading == phase = "up" /\ socket /\ ~handling /\ inbox # <<>>

\* Variant: an acknowledgement covers the older events as well.
ReceiveCumulativeAck ==
  /\ Reading /\ Head(inbox) # Request
  /\ rows' = [e \in Events |-> IF rows[e] <= rows[Head(inbox)] THEN Nothing ELSE rows[e]]
  /\ inbox' = Tail(inbox)
  /\ UNCHANGED <<memory, session, writer, wire, handling, handlerPut, requests, server, history>>

\* connector.event_ack: the row goes before the handler sees the message,
\* and every handler ignores it.
ReceiveAck ==
  /\ Reading /\ Head(inbox) # Request
  /\ rows' = [rows EXCEPT ![Head(inbox)] = Nothing]
  /\ inbox' = Tail(inbox)
  /\ UNCHANGED <<memory, session, writer, wire, handling, handlerPut, requests, server, history>>

ReceiveRequest ==
  /\ Reading /\ Head(inbox) = Request
  /\ inbox' = Tail(inbox) /\ handling' = TRUE
  /\ UNCHANGED <<rows, memory, session, writer, wire, handlerPut, requests, server, history>>

\* turn_cancel and approval_respond of Claude await outbound.put in the handler.
HandlerPut ==
  /\ handling /\ phase = "up" /\ handlerPut = Nothing
  /\ \E t \in Transients : PutTransient(t) /\ handlerPut' = t
  /\ UNCHANGED <<inbox, handling, requests>>

\* The handler is done and its response sent, as soon as the wire has room.  On a lost
\* connection the send raises, which ends the session: LossNoticed.
HandlerReturn ==
  /\ handling /\ phase = "up" /\ ~Waiting(handlerPut)
  /\ socket /\ Len(wire) < WireSize /\ wire' = Append(wire, Response)
  /\ handling' = FALSE /\ handlerPut' = Nothing
  /\ UNCHANGED <<rows, memory, session, writer, inbox, requests, server, history>>
------------------------------------------------------------------------------
(* The server (external)                                                   *)

ServerRead ==
  /\ wire # <<>>
  /\ wire' = Tail(wire)
  /\ received' = received \cup {Head(wire)}
  /\ owed' = owed \cup ({Head(wire)} \cap Events)
  /\ UNCHANGED <<rows, memory, session, writer, loop, history>>

ServerAck ==
  /\ socket /\ Len(inbox) < InboxSize
  /\ \E e \in owed : inbox' = Append(inbox, e) /\ owed' = owed \ {e}
  /\ UNCHANGED <<rows, memory, session, writer, wire, handling, handlerPut, requests,
                 received, history>>

ServerRequest ==
  /\ socket /\ Len(inbox) < InboxSize /\ rePuts + requests < MaxExtras
  /\ inbox' = Append(inbox, Request) /\ requests' = requests + 1
  /\ UNCHANGED <<rows, memory, session, writer, wire, handling, handlerPut, server, history>>
------------------------------------------------------------------------------
(* Sessions, losses and crashes                                            *)

\* A session starts with a new, empty queue over the same table.
Connect ==
  /\ phase = "down" /\ phase' = "setup" /\ socket' = TRUE
  /\ UNCHANGED <<rows, memory, faults, writer, wire, loop, server, history>>

\* hello is accepted and the three tasks start; replay_at is 0.
Start ==
  /\ phase = "setup" /\ socket /\ phase' = "up"
  /\ UNCHANGED <<rows, memory, socket, faults, writer, wire, loop, server, history>>

\* What is in flight either way goes with the connection.
ConnectionLost ==
  /\ socket /\ faults < MaxFaults
  /\ socket' = FALSE /\ wire' = <<>> /\ inbox' = <<>> /\ owed' = {}
  /\ faults' = faults + 1
  /\ UNCHANGED <<rows, memory, phase, writer, handling, handlerPut, requests, received, history>>

\* A cancelled put leaves the waiters; a wakeup it had got goes to the next.
CancelHandlerPut ==
  \/ /\ \E i \in 1..Len(putters) : putters[i] = handlerPut /\ putters' = RemoveAt(putters, i)
     /\ UNCHANGED woken
  \/ /\ handlerPut \in woken
     /\ \/ ~Full /\ putters # <<>> /\ putters' = Tail(putters)
           /\ woken' = (woken \ {handlerPut}) \cup {Head(putters)}
        \/ (Full \/ putters = <<>>) /\ woken' = woken \ {handlerPut} /\ UNCHANGED putters
  \/ ~Waiting(handlerPut) /\ UNCHANGED <<putters, woken>>

\* The first task to fail ends asyncio.wait; the receiver is cancelled.
Teardown ==
  /\ phase = "up" /\ phase' = "teardown"
  /\ CancelHandlerPut
  /\ handling' = FALSE /\ handlerPut' = Nothing
  /\ UNCHANGED <<rows, queue, socket, writer, wire, inbox, requests, server, history>>

\* A handler raises: the session ends although the connection is open.
HandlerRaises ==
  /\ handling /\ ~Waiting(handlerPut)
  /\ faults < MaxFaults /\ faults' = faults + 1 /\ Teardown

\* A read or a send on the lost connection raises.
LossNoticed == ~socket /\ Teardown /\ UNCHANGED faults

\* Everything but the table is gone; the queue's content is discarded.
Vanish ==
  /\ phase' = "down" /\ socket' = FALSE
  /\ queue' = <<>> /\ putters' = <<>> /\ woken' = {}
  /\ pc' = "top" /\ replayDue' = TRUE /\ snapshot' = Empty /\ held' = Nothing
  /\ wire' = <<>> /\ inbox' = <<>> /\ handling' = FALSE /\ handlerPut' = Nothing
  /\ owed' = {}
  /\ UNCHANGED <<rows, received, requests, history>>

\* drain gives up after five seconds, so nothing delays the close.
Close == phase = "teardown" /\ Vanish /\ UNCHANGED faults

SetupFails == phase = "setup" /\ ~socket /\ Vanish /\ UNCHANGED faults

Crash == Running /\ faults < MaxFaults /\ faults' = faults + 1 /\ Vanish
------------------------------------------------------------------------------
WriterStep  == WriterTop \/ ReplaySend \/ ReplayDone \/ Get \/ GetTimeout \/ Send
ReceiveStep == ReceiveAck \/ ReceiveRequest
ServerStep  == ServerRead \/ ServerAck \/ ServerRequest
PutStep     == Produce \/ RePut \/ Put \/ HandlerPut \/ \E t \in Transients : Resume(t)
SessionStep == Connect \/ Start \/ ConnectionLost \/ HandlerRaises \/ LossNoticed
                 \/ Close \/ SetupFails \/ Crash

Next == PutStep \/ WriterStep \/ ReplayTimer \/ ReceiveStep \/ HandlerReturn
          \/ ServerStep \/ SessionStep

Spec == Init /\ [][Next]_vars

\* The event loop runs every ready task, timers fire, run_connection always
\* reconnects, requests of handlers time out, and the server answers.  When the wire
\* has room again all sends that wait for it go on, also one beside the writer's.
Fairness ==
  /\ WF_vars(WriterStep) /\ WF_vars(ReplayTimer)
  /\ WF_vars(ReceiveStep) /\ SF_vars(HandlerReturn)
  /\ WF_vars(ServerRead) /\ WF_vars(ServerAck)
  /\ WF_vars(Connect) /\ WF_vars(Start) /\ WF_vars(LossNoticed)
  /\ WF_vars(Close) /\ WF_vars(SetupFails)
  /\ \A t \in Transients : WF_vars(Resume(t))

FairSpec == Spec /\ Fairness
------------------------------------------------------------------------------
(* Properties                                                              *)

\* The values the variables take.
TypeOK ==
  /\ rows \in [Events -> Nat] /\ snapshot \in [Events -> Nat]
  /\ queue \in Seq(Messages) /\ wire \in Seq(Messages \cup {Response}) /\ Len(queue) <= QueueSize
  /\ putters \in Seq(Transients) /\ woken \subseteq Transients
  /\ phase \in {"down", "setup", "up", "teardown"} /\ socket \in BOOLEAN
  /\ pc \in {"top", "replay", "get", "send"} /\ replayDue \in BOOLEAN
  /\ held \in Messages \cup {Nothing} /\ (pc = "send" => held # Nothing)
  /\ inbox \in Seq(Events \cup {Request}) /\ handling \in BOOLEAN
  /\ handlerPut \in Transients \cup {Nothing}
  /\ received \subseteq Messages \cup {Response} /\ owed \subseteq Events
  /\ produced \in 0..NumEvents /\ offered \subseteq Transients /\ overflowed \in BOOLEAN
  /\ faults \in Nat /\ rePuts \in Nat /\ requests \in Nat

\* No durable event is lost: from the moment it is put it is in the table or
\* the server has it, across queue overflow, lost connections and crashes.
NoDurableLost == \A e \in 1..produced : rows[e] # Nothing \/ e \in received

\* As long as no durable event met a full queue, the server learns of durable
\* events in the order of production: the replay before the first get, ordered
\* by rowid, never lets a newer event overtake an unacknowledged older one.
NoGaps == ~overflowed => \A e \in received \cap Events : 1..e \subseteq received

\* Every durable event reaches the server and then leaves the table, whatever
\* was lost on the way, once the faults stop.
EventuallyAcknowledged ==
  \A e \in Events : e <= produced ~> e \in received /\ rows[e] = Nothing

\* A put that waits for room ends: with the message in the queue, or with the
\* session.  A handler of message_loop in such a put therefore returns.
PutEnds == \A t \in Transients : Waiting(t) ~> ~Waiting(t)

\* The outbox implements at-least-once delivery.
Abstract == INSTANCE AtLeastOnce WITH stored <- Stored, known <- received \cap Events
ImplementsAtLeastOnce == Abstract!AOSpec
==============================================================================
