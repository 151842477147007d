------------------------- MODULE EventDeliveryProofs -------------------------
(***************************************************************************)
(* Type correctness of EventDelivery, that no durable event is ever lost,  *)
(* that the outbox implements at-least-once delivery, and that the events  *)
(* reach the server in order, for any number of events and any sizes of    *)
(* the queue and of the connection.                                        *)
(***************************************************************************)
EXTENDS EventDelivery, TLAPS

\* The part of TypeOK that the arguments below rest on.
DeliveryTypes ==
  /\ rows \in [Events -> Nat] /\ snapshot \in [Events -> Nat]
  /\ queue \in Seq(Messages) /\ wire \in Seq(Messages \cup {Response})
  /\ held \in Messages \cup {Nothing} /\ (pc = "send" => held # Nothing)
  /\ inbox \in Seq(Events \cup {Request})
  /\ received \subseteq Messages \cup {Response} /\ owed \subseteq Events
  /\ produced \in 0..NumEvents

\* Whatever copy of an event is under way, the event was produced.
Sent(m) == m \in Events => m \in 1..produced
CopiesProduced ==
  /\ \A i \in 1..Len(queue) : Sent(queue[i])
  /\ \A i \in 1..Len(wire) : Sent(wire[i])
  /\ Sent(held)
  /\ \A e \in Events : snapshot[e] # Nothing \/ rows[e] # Nothing => Sent(e)

\* An acknowledgement under way is of an event the server has.
AcksReceived ==
  /\ owed \subseteq received
  /\ \A i \in 1..Len(inbox) : inbox[i] \in Events => inbox[i] \in received

DeliveryInv == DeliveryTypes /\ CopiesProduced /\ AcksReceived /\ NoDurableLost


\* Appending to a sequence adds one element at its end.
LEMMA Appended ==
  ASSUME NEW S, NEW q \in Seq(S), NEW m \in S
  PROVE  /\ Append(q, m) \in Seq(S)
         /\ \A i \in 1..Len(Append(q, m)) :
              Append(q, m)[i] = m \/ (i \in 1..Len(q) /\ Append(q, m)[i] = q[i])
  OBVIOUS

LEMMA DeliveryInit == Init => DeliveryInv
  BY DeliveryConstants DEF Init, DeliveryInv, DeliveryTypes, CopiesProduced, AcksReceived,
     NoDurableLost, Sent, Empty, Nothing, Events, Messages

\* Putting a durable event stores it, and changes nothing but rows and queue.
LEMMA PutStores ==
  ASSUME DeliveryInv, NEW e \in Events, PutDurable(e),
         produced' \in 0..NumEvents, 1..produced' = (1..produced) \cup {e}
  PROVE  DeliveryInv'
<1> USE DEF DeliveryInv, Messages
<1>0. e + 0 \in Nat /\ \A n \in Nat : n + 1 # Nothing
  BY DeliveryConstants DEF Events, Nothing
<1>1. /\ rows' \in [Events -> Nat] /\ rows'[e] # Nothing
      /\ \A d \in Events : d # e => rows'[d] = rows[d]
  <2>1. rows \in [Events -> Nat]
    BY DEF DeliveryTypes
  <2>2. CASE rows[e] # Nothing /\ UNCHANGED rows
    BY <2>1, <2>2
  <2>3. ASSUME NEW f \in Events, rows' = [rows EXCEPT ![e] = rows[f] + 1]
        PROVE  <1>1!1 /\ <1>1!2
    BY <1>0, <2>1, <2>3
  <2>4. QED
    BY <2>1, <2>2, <2>3 DEF PutDurable, Insert
<1>2. queue' \in Seq(Messages) /\ \A i \in 1..Len(queue') : queue'[i] = e \/ (i \in 1..Len(queue) /\ queue'[i] = queue[i])
  BY DEF PutDurable, DeliveryTypes
<1>3. UNCHANGED <<snapshot, wire, held, pc, inbox, received, owed>>
  BY DEF PutDurable, writer, loop, server
<1>4. DeliveryTypes'
  BY <1>1, <1>2, <1>3 DEF DeliveryTypes
<1>5. CopiesProduced'
  <2>1. (\A i \in 1..Len(queue) : Sent(queue[i]))'
    BY <1>2 DEF CopiesProduced, Sent
  <2>2. (\A i \in 1..Len(wire) : Sent(wire[i]))' /\ Sent(held)'
    BY <1>3 DEF CopiesProduced, Sent
  <2>3. (\A d \in Events : snapshot[d] # Nothing \/ rows[d] # Nothing => Sent(d))'
    BY <1>1, <1>3 DEF CopiesProduced, Sent
  <2>4. QED
    BY <2>1, <2>2, <2>3 DEF CopiesProduced
<1>6. AcksReceived' /\ NoDurableLost'
  <2>1. \A d \in 1..produced : d \in Events
    BY DeliveryConstants DEF DeliveryTypes, Events
  <2>2. QED
    BY <1>1, <1>3, <2>1 DEF AcksReceived, NoDurableLost
<1>7. QED
  BY <1>4, <1>5, <1>6

\* Putting a transient message adds nothing durable to the queue.
LEMMA TransientKeeps ==
  ASSUME DeliveryInv, NEW t \in Transients,
         queue' = queue \/ queue' = Append(queue, t),
         UNCHANGED <<rows, snapshot, wire, held, pc, inbox, received, owed, produced>>
  PROVE  DeliveryInv'
<1> USE DeliveryConstants DEF DeliveryInv, Events, Messages, Nothing
<1>1. queue' \in Seq(Messages) /\ \A i \in 1..Len(queue') : queue'[i] = t \/ (i \in 1..Len(queue) /\ queue'[i] = queue[i])
  <2>1. t \in Messages /\ queue \in Seq(Messages)
    BY DEF DeliveryTypes
  <2>2. CASE queue' = queue
    BY <2>1, <2>2
  <2>3. CASE queue' = Append(queue, t)
    BY ONLY <2>1, <2>3, Appended
  <2>4. QED
    BY <2>2, <2>3
<1>2. DeliveryTypes'
  BY <1>1 DEF DeliveryTypes
<1>3. CopiesProduced'
  BY <1>1 DEF DeliveryTypes, CopiesProduced, Sent
<1>4. QED
  BY <1>2, <1>3 DEF AcksReceived, NoDurableLost

\* Nothing the invariant speaks of changes, or it is emptied by a crash.
LEMMA VanishKeeps == DeliveryInv /\ Vanish => DeliveryInv'
  BY DeliveryConstants DEF DeliveryInv, DeliveryTypes, CopiesProduced, AcksReceived, NoDurableLost,
     Sent, Vanish, Empty, history, Events, Messages, Nothing

LEMMA WriterKeeps == DeliveryInv /\ (WriterStep \/ ReplayTimer) => DeliveryInv'
<1> SUFFICES ASSUME DeliveryInv, WriterStep \/ ReplayTimer PROVE DeliveryInv'
  OBVIOUS
<1> USE DeliveryConstants DEF DeliveryInv, Events, Messages, Nothing, memory, session, loop, server, history
<1>1. CASE WriterTop
  BY <1>1 DEF WriterTop, Writing, DeliveryTypes, CopiesProduced, AcksReceived, NoDurableLost, Sent
<1>2. CASE ReplaySend
  <2>1. PICK e \in Pending : /\ wire' = Append(wire, e)
                             /\ snapshot' = [snapshot EXCEPT ![e] = Nothing]
    BY <1>2 DEF ReplaySend
  <2>2. e \in Events /\ Sent(e)
    BY DEF Pending, CopiesProduced
  <2>3. wire' \in Seq(Messages \cup {Response}) /\ \A i \in 1..Len(wire') : wire'[i] = e \/ (i \in 1..Len(wire) /\ wire'[i] = wire[i])
    <3>1. e \in Messages \cup {Response} /\ wire \in Seq(Messages \cup {Response})
      BY <2>2 DEF DeliveryTypes
    <3>2. QED
      BY ONLY <2>1, <3>1, Appended
  <2>4. /\ snapshot' \in [Events -> Nat]
        /\ \A d \in Events : snapshot'[d] # Nothing => snapshot[d] # Nothing
    BY <2>1, <2>2 DEF DeliveryTypes
  <2>5. UNCHANGED <<rows, queue, held, pc, inbox, received, owed, produced>>
    BY <1>2 DEF ReplaySend
  <2>6. DeliveryTypes'
    BY <2>3, <2>4, <2>5 DEF DeliveryTypes
  <2>7. CopiesProduced'
    BY <2>2, <2>3, <2>4, <2>5 DEF CopiesProduced, Sent
  <2>8. QED
    BY <2>5, <2>6, <2>7 DEF AcksReceived, NoDurableLost
<1>3. CASE ReplayDone
  BY <1>3 DEF ReplayDone, Writing, DeliveryTypes, CopiesProduced, AcksReceived, NoDurableLost, Sent
<1>4. CASE Get
  <2>1. /\ held' = queue[1] /\ queue[1] \in Messages /\ Sent(held')
        /\ queue' \in Seq(Messages)
        /\ \A i \in 1..Len(queue') : i + 1 \in 1..Len(queue) /\ queue'[i] = queue[i + 1]
    BY <1>4 DEF Get, DeliveryTypes, CopiesProduced, Sent
  <2>2. UNCHANGED <<rows, snapshot, wire, inbox, received, owed, produced>>
    BY <1>4 DEF Get
  <2>3. held' # Nothing
    BY <2>1
  <2>4. DeliveryTypes'
    BY <2>1, <2>2, <2>3 DEF DeliveryTypes
  <2>5. CopiesProduced'
    BY <2>1, <2>2 DEF CopiesProduced, Sent
  <2>6. QED
    BY <2>2, <2>4, <2>5 DEF AcksReceived, NoDurableLost
<1>5. CASE GetTimeout
  BY <1>5 DEF GetTimeout, Writing, DeliveryTypes, CopiesProduced, AcksReceived, NoDurableLost, Sent
<1>6. CASE Send
  <2>1. held \in Messages /\ Sent(held) /\ wire' = Append(wire, held) /\ held' = Nothing
    BY <1>6 DEF Send, Writing, DeliveryTypes, CopiesProduced
  <2>2. wire' \in Seq(Messages \cup {Response}) /\ \A i \in 1..Len(wire') : wire'[i] = held \/ (i \in 1..Len(wire) /\ wire'[i] = wire[i])
    BY <2>1 DEF DeliveryTypes
  <2>3. UNCHANGED <<rows, queue, snapshot, inbox, received, owed, produced>> /\ pc' = "top"
    BY <1>6 DEF Send
  <2>4. DeliveryTypes'
    BY <2>1, <2>2, <2>3 DEF DeliveryTypes
  <2>5. CopiesProduced'
    BY <2>1, <2>2, <2>3 DEF CopiesProduced, Sent
  <2>6. QED
    BY <2>3, <2>4, <2>5 DEF AcksReceived, NoDurableLost
<1>7. CASE ReplayTimer
  BY <1>7 DEF ReplayTimer, DeliveryTypes, CopiesProduced, AcksReceived, NoDurableLost, Sent
<1>8. QED
  BY <1>1, <1>2, <1>3, <1>4, <1>5, <1>6, <1>7 DEF WriterStep

LEMMA ReceiveKeeps == DeliveryInv /\ (ReceiveStep \/ HandlerReturn) => DeliveryInv'
<1> SUFFICES ASSUME DeliveryInv, ReceiveStep \/ HandlerReturn PROVE DeliveryInv'
  OBVIOUS
<1> USE DeliveryConstants DEF DeliveryInv, Events, Messages, Nothing, Request, memory, session, writer, server, history
<1>1. CASE HandlerReturn
  <2>1. wire' = Append(wire, Response) /\ wire \in Seq(Messages \cup {Response}) /\ Response \notin Events
    BY <1>1 DEF HandlerReturn, DeliveryTypes, Response
  <2>2. /\ wire' \in Seq(Messages \cup {Response})
        /\ \A i \in 1..Len(wire') : wire'[i] = Response \/ (i \in 1..Len(wire) /\ wire'[i] = wire[i])
    BY ONLY <2>1, Appended
  <2>3. UNCHANGED <<rows, queue, snapshot, held, pc, inbox, received, owed, produced>>
    BY <1>1 DEF HandlerReturn
  <2>4. DeliveryTypes'
    BY <2>2, <2>3 DEF DeliveryTypes
  <2>5. CopiesProduced'
    BY <2>1, <2>2, <2>3 DEF CopiesProduced, Sent
  <2>6. QED
    BY <2>3, <2>4, <2>5 DEF AcksReceived, NoDurableLost
<1>2. CASE ReceiveStep
  <2>1. /\ inbox # <<>> /\ inbox' \in Seq(Events \cup {Request})
        /\ inbox[1] \in Events \cup {Request} /\ Head(inbox) = inbox[1]
        /\ \A i \in 1..Len(inbox') : i + 1 \in 1..Len(inbox) /\ inbox'[i] = inbox[i + 1]
    <3>1. inbox # <<>> /\ inbox' = Tail(inbox)
      BY <1>2 DEF ReceiveStep, ReceiveAck, ReceiveRequest, Reading
    <3>2. inbox \in Seq(Events \cup {Request})
      BY DEF DeliveryTypes
    <3>3. QED
      BY <3>1, <3>2
  <2>2. UNCHANGED <<queue, snapshot, wire, held, pc, received, owed, produced>>
    BY <1>2 DEF ReceiveStep, ReceiveAck, ReceiveRequest
  <2>3. AcksReceived'
    BY <2>1, <2>2 DEF AcksReceived
  <2>4. /\ rows' \in [Events -> Nat]
        /\ \A d \in Events : rows'[d] = rows[d] \/ (rows'[d] = 0 /\ d \in received)
    <3>1. CASE ReceiveAck
      <4>1. inbox[1] \in Events /\ inbox[1] \in received
        BY <2>1, <3>1 DEF ReceiveAck, AcksReceived
      <4>2. rows \in [Events -> Nat] /\ rows' = [rows EXCEPT ![inbox[1]] = 0]
        BY <2>1, <3>1 DEF ReceiveAck, DeliveryTypes
      <4>3. QED
        BY <4>1, <4>2
    <3>2. CASE ReceiveRequest
      BY <3>2 DEF ReceiveRequest, DeliveryTypes
    <3>3. QED
      BY <1>2, <3>1, <3>2 DEF ReceiveStep
  <2>5. DeliveryTypes' /\ NoDurableLost'
    <3>1. DeliveryTypes'
      BY <2>1, <2>2, <2>4 DEF DeliveryTypes
    <3>2. \A d \in 1..produced : d \in Events
      BY DEF DeliveryTypes
    <3>3. QED
      BY <2>2, <2>4, <3>1, <3>2 DEF NoDurableLost
  <2>6. CopiesProduced'
    BY <2>2, <2>4 DEF CopiesProduced, Sent
  <2>7. QED
    BY <2>3, <2>5, <2>6
<1>3. QED
  BY <1>1, <1>2

LEMMA ServerKeeps == DeliveryInv /\ ServerStep => DeliveryInv'
<1> SUFFICES ASSUME DeliveryInv, ServerStep PROVE DeliveryInv'
  OBVIOUS
<1> USE DeliveryConstants DEF DeliveryInv, Events, Messages, Nothing, Request, memory, session, writer, loop, history
<1>1. CASE ServerRead
  <2>1. /\ wire[1] \in Messages \cup {Response} /\ Sent(wire[1]) /\ Head(wire) = wire[1]
        /\ wire' \in Seq(Messages \cup {Response})
        /\ \A i \in 1..Len(wire') : i + 1 \in 1..Len(wire) /\ wire'[i] = wire[i + 1]
    BY <1>1 DEF ServerRead, DeliveryTypes, CopiesProduced
  <2>2. /\ received' = received \cup {wire[1]} /\ owed' = owed \cup ({wire[1]} \cap Events)
        /\ UNCHANGED <<rows, queue, snapshot, held, pc, inbox, produced>>
    BY <1>1, <2>1 DEF ServerRead
  <2>3. DeliveryTypes'
    BY <2>1, <2>2 DEF DeliveryTypes
  <2>4. CopiesProduced'
    BY <2>1, <2>2 DEF CopiesProduced, Sent
  <2>5. QED
    BY <2>2, <2>3, <2>4 DEF AcksReceived, NoDurableLost
<1>2. CASE ServerAck \/ ServerRequest
  <2>1. PICK m \in owed \cup {Request} : inbox' = Append(inbox, m)
    BY <1>2 DEF ServerAck, ServerRequest
  <2>2. /\ m \in Events \cup {Request}
        /\ inbox' \in Seq(Events \cup {Request})
        /\ \A i \in 1..Len(inbox') : inbox'[i] = m \/ (i \in 1..Len(inbox) /\ inbox'[i] = inbox[i])
    <3>1. owed \subseteq Events /\ inbox \in Seq(Events \cup {Request})
      BY DEF DeliveryTypes
    <3>2. m \in Events \cup {Request}
      BY <3>1
    <3>3. QED
      BY <2>1, <3>1, <3>2
  <2>3. /\ owed' \subseteq owed
        /\ UNCHANGED <<rows, queue, snapshot, wire, held, pc, received, produced>>
    BY <1>2 DEF ServerAck, ServerRequest, server
  <2>4. m \in Events => m \in received
    BY <2>1 DEF AcksReceived
  <2>5. DeliveryTypes'
    BY <2>2, <2>3 DEF DeliveryTypes
  <2>6. AcksReceived'
    BY <2>2, <2>3, <2>4 DEF AcksReceived
  <2>7. QED
    BY <2>3, <2>5, <2>6 DEF CopiesProduced, NoDurableLost, Sent
<1>3. QED
  BY <1>1, <1>2 DEF ServerStep

LEMMA PutKeeps == DeliveryInv /\ PutStep => DeliveryInv'
<1> SUFFICES ASSUME DeliveryInv, PutStep PROVE DeliveryInv'
  OBVIOUS
<1>1. CASE Produce
  <2>1. /\ produced + 1 \in Events /\ produced' \in 0..NumEvents
        /\ 1..produced' = (1..produced) \cup {produced + 1}
    BY <1>1, DeliveryConstants DEF Produce, DeliveryInv, DeliveryTypes, Events
  <2>2. PutDurable(produced + 1)
    BY <1>1 DEF Produce
  <2>3. QED
    BY <2>1, <2>2, PutStores
<1>2. CASE RePut
  <2>1. PICK e \in 1..produced : PutDurable(e)
    BY <1>2 DEF RePut
  <2>2. /\ e \in Events /\ produced' \in 0..NumEvents
        /\ 1..produced' = (1..produced) \cup {e}
    BY <1>2, DeliveryConstants DEF RePut, DeliveryInv, DeliveryTypes, Events
  <2>3. QED
    BY <2>1, <2>2, PutStores
<1>3. CASE Put \/ HandlerPut
  <2>1. PICK t \in Transients : PutTransient(t)
    BY <1>3 DEF Put, HandlerPut
  <2>2. queue' = queue \/ queue' = Append(queue, t)
    BY <2>1 DEF PutTransient
  <2>3. UNCHANGED <<rows, snapshot, wire, held, pc, received, owed, produced>>
    BY <2>1 DEF PutTransient, writer, server
  <2>4. UNCHANGED inbox
    BY <1>3 DEF Put, HandlerPut, loop
  <2>5. QED
    BY <2>2, <2>3, <2>4, TransientKeeps
<1>4. ASSUME NEW t \in Transients, Resume(t) PROVE DeliveryInv'
  <2>1. /\ queue' = queue \/ queue' = Append(queue, t)
        /\ UNCHANGED <<rows, snapshot, wire, held, pc, inbox, received, owed, produced>>
    BY <1>4 DEF Resume, writer, server, loop, history
  <2>2. QED
    BY <2>1, TransientKeeps
<1>5. QED
  BY <1>1, <1>2, <1>3, <1>4 DEF PutStep

LEMMA SessionKeeps == DeliveryInv /\ SessionStep => DeliveryInv'
<1> SUFFICES ASSUME DeliveryInv, SessionStep PROVE DeliveryInv'
  OBVIOUS
<1>1. CASE Connect \/ Start \/ LossNoticed \/ HandlerRaises
  <2>1. UNCHANGED <<rows, queue, snapshot, wire, held, pc, inbox, received, owed, produced>>
    BY <1>1 DEF Connect, Start, LossNoticed, HandlerRaises, Teardown, memory, writer, loop, server, history
  <2>2. QED
    BY <2>1 DEF DeliveryInv, DeliveryTypes, CopiesProduced, AcksReceived, NoDurableLost, Sent
<1>2. CASE ConnectionLost
  BY <1>2 DEF ConnectionLost, memory, writer, history, DeliveryInv, DeliveryTypes, CopiesProduced,
     AcksReceived, NoDurableLost, Sent
<1>3. CASE Close \/ SetupFails \/ Crash
  BY <1>3, VanishKeeps DEF Close, SetupFails, Crash
<1>4. QED
  BY <1>1, <1>2, <1>3 DEF SessionStep

LEMMA StutterKeeps == DeliveryInv /\ UNCHANGED vars => DeliveryInv'
  BY DEF vars, memory, writer, loop, server, history, DeliveryInv, DeliveryTypes, CopiesProduced,
     AcksReceived, NoDurableLost, Sent

LEMMA DeliveryStep == DeliveryInv /\ [Next]_vars => DeliveryInv'
  BY WriterKeeps, ReceiveKeeps, ServerKeeps, PutKeeps, SessionKeeps, StutterKeeps DEF Next

LEMMA DeliveryInvariance == Spec => []DeliveryInv
<1>1. QED
  BY DeliveryInit, DeliveryStep, PTL DEF Spec

\* No durable event is lost, whatever fails and whenever (event_outbox.py put_nowait and
\* acknowledge, session.py message_loop): the row outlives the connection and the process,
\* and only an acknowledgement of something the server has read deletes it.
THEOREM DurableEventsKept == Spec => []NoDurableLost
<1>1. DeliveryInv => NoDurableLost
  BY DEF DeliveryInv
<1>2. QED
  BY <1>1, DeliveryInvariance, PTL

\* Every step of the outbox and its session stores, delivers or forgets an event the way
\* AtLeastOnce allows, or is invisible to it.
LEMMA AbstractStep ==
  DeliveryInv /\ DeliveryInv' /\ [Next]_vars => [Abstract!AONext]_<<Stored, received \cap Events>>
<1> SUFFICES ASSUME DeliveryInv, DeliveryInv', [Next]_vars
             PROVE  Abstract!AONext \/ UNCHANGED <<Stored, received \cap Events>>
  OBVIOUS
<1> USE DEF Abstract!AONext, Abstract!Store, Abstract!Arrive, Abstract!Forget
<1>1. CASE UNCHANGED <<rows, received>>
  BY <1>1 DEF Stored
<1>2. ASSUME NEW e \in Events, PutDurable(e) PROVE Abstract!Store(e)
  <2>1. UNCHANGED received
    BY <1>2 DEF PutDurable, server
  <2>2. rows \in [Events -> Nat] /\ rows' \in [Events -> Nat]
    BY DEF DeliveryInv, DeliveryTypes
  <2>3. rows'[e] # Nothing /\ \A d \in Events : d # e => rows'[d] = rows[d]
    <3>1. CASE rows[e] # Nothing /\ UNCHANGED rows
      BY <3>1
    <3>2. ASSUME NEW f \in Events, rows' = [rows EXCEPT ![e] = rows[f] + 1]
          PROVE  <2>3!1 /\ <2>3!2
      BY <2>2, <3>2 DEF Nothing
    <3>3. QED
      BY <1>2, <3>1, <3>2 DEF PutDurable, Insert
  <2>4. QED
    BY <2>1, <2>3 DEF Stored
<1>3. CASE Produce \/ RePut
  <2>1. \E e \in Events : PutDurable(e)
    <3>1. CASE Produce
      BY <3>1, DeliveryConstants DEF Produce, DeliveryInv, DeliveryTypes, Events
    <3>2. CASE RePut
      BY <3>2, DeliveryConstants DEF RePut, DeliveryInv, DeliveryTypes, Events
    <3>3. QED
      BY <1>3, <3>1, <3>2
  <2>2. QED
    BY <2>1, <1>2
<1>4. CASE ReceiveAck
  <2>1. /\ inbox # <<>> /\ inbox \in Seq(Events \cup {Request}) /\ Head(inbox) # Request
        /\ rows' = [rows EXCEPT ![Head(inbox)] = Nothing]
        /\ rows \in [Events -> Nat]
    BY <1>4 DEF ReceiveAck, Reading, DeliveryInv, DeliveryTypes
  <2>2. PICK e \in Events : e = Head(inbox) /\ e = inbox[1]
    BY <2>1
  <2>3. e \in received /\ UNCHANGED received
    BY <1>4, <2>1, <2>2 DEF ReceiveAck, server, DeliveryInv, AcksReceived
  <2>4. Abstract!Forget(e)
    BY <2>1, <2>2, <2>3 DEF Stored
  <2>5. QED
    BY <2>4
<1>5. CASE ServerRead
  <2>1. UNCHANGED rows /\ received' = received \cup {Head(wire)}
    BY <1>5 DEF ServerRead
  <2>2. CASE Head(wire) \in Events
    <3>1. wire # <<>> /\ wire \in Seq(Messages \cup {Response}) /\ Head(wire) = wire[1] /\ 1 \in 1..Len(wire)
      BY <1>5 DEF ServerRead, DeliveryInv, DeliveryTypes
    <3>2. Head(wire) \in 1..produced
      BY <2>2, <3>1 DEF DeliveryInv, CopiesProduced, Sent
    <3>3. Head(wire) \in Stored \cup (received \cap Events)
      BY <2>2, <3>2 DEF DeliveryInv, NoDurableLost, Stored
    <3>4. Abstract!Arrive(Head(wire))
      BY <2>1, <2>2, <3>3 DEF Stored
    <3>5. QED
      BY <2>2, <3>4
  <2>3. CASE Head(wire) \notin Events
    BY <2>1, <2>3 DEF Stored
  <2>4. QED
    BY <2>2, <2>3
<1>6. CASE WriterStep \/ ReplayTimer \/ ReceiveRequest \/ HandlerReturn
  BY <1>1, <1>6 DEF WriterStep, WriterTop, ReplaySend, ReplayDone, Get, GetTimeout, Send,
     ReplayTimer, ReceiveRequest, HandlerReturn, server
<1>7. CASE ServerAck \/ ServerRequest \/ SessionStep
  BY <1>1, <1>7 DEF ServerAck, ServerRequest, SessionStep, Connect, Start, ConnectionLost,
     HandlerRaises, Teardown, LossNoticed, Close, SetupFails, Crash, Vanish, server
<1>8. CASE Put \/ HandlerPut \/ \E t \in Transients : Resume(t)
  BY <1>1, <1>8 DEF Put, HandlerPut, PutTransient, Resume, server
<1>9. CASE UNCHANGED vars
  BY <1>1, <1>9 DEF vars, server
<1>10. QED
  BY <1>3, <1>4, <1>5, <1>6, <1>7, <1>8, <1>9 DEF Next, PutStep, ReceiveStep, ServerStep

\* The outbox with its writer, message loop, losses and crashes implements at-least-once
\* delivery: what a putter may rely on is AtLeastOnce, for every instance.
THEOREM OutboxImplementsAtLeastOnce == Spec => ImplementsAtLeastOnce
<1>1. Init => Abstract!AOInit
  BY DEF Init, Abstract!AOInit, Stored, Empty
<1>2. DeliveryInv /\ DeliveryInv' /\ [Next]_vars => [Abstract!AONext]_(Abstract!aoVars)
  BY AbstractStep DEF Abstract!aoVars
<1>3. QED
  BY <1>1, <1>2, DeliveryInvariance, PTL DEF Spec, ImplementsAtLeastOnce, Abstract!AOSpec

------------------------------------------------------------------------------
\* What TypeOK says beyond DeliveryTypes.
ControlTypes ==
  /\ Len(queue) <= QueueSize
  /\ putters \in Seq(Transients) /\ woken \subseteq Transients
  /\ phase \in {"down", "setup", "up", "teardown"} /\ socket \in BOOLEAN
  /\ pc \in {"top", "replay", "get", "send"} /\ replayDue \in BOOLEAN
  /\ handling \in BOOLEAN /\ handlerPut \in Transients \cup {Nothing}
  /\ offered \subseteq Transients /\ overflowed \in BOOLEAN
  /\ faults \in Nat /\ rePuts \in Nat /\ requests \in Nat

\* Putting, waiting for room or resuming keeps the queue within its size.
LEMMA PutTypes ==
  ASSUME DeliveryInv, ControlTypes, NEW t \in Transients,
         \/ ~Full /\ queue' = Append(queue, t) /\ UNCHANGED putters
         \/ Full /\ putters' = Append(putters, t) /\ UNCHANGED queue
  PROVE  Len(queue') <= QueueSize /\ putters' \in Seq(Transients)
<1>1. queue \in Seq(Messages) /\ t \in Messages /\ QueueSize \in Nat
  BY DeliveryConstants DEF DeliveryInv, DeliveryTypes, Messages
<1>2. QED
  BY <1>1 DEF ControlTypes, Full

LEMMA ControlStep == DeliveryInv /\ ControlTypes /\ [Next]_vars => ControlTypes'
<1> SUFFICES ASSUME DeliveryInv, ControlTypes, [Next]_vars PROVE ControlTypes'
  OBVIOUS
<1> USE DEF memory, session, writer, loop, server, history
<1>1. queue \in Seq(Messages) /\ QueueSize \in Nat
  BY DeliveryConstants DEF DeliveryInv, DeliveryTypes
<1>2. ASSUME NEW e \in Events, PutDurable(e), rePuts' \in Nat PROVE ControlTypes'
  <2>1. e \in Messages
    BY DEF Messages
  <2>2. Len(queue') <= QueueSize
    <3>1. CASE Full
      BY <1>2, <3>1 DEF PutDurable, ControlTypes
    <3>2. CASE ~Full
      BY <1>1, <1>2, <2>1, <3>2 DEF PutDurable, ControlTypes, Full
    <3>3. QED
      BY <3>1, <3>2
  <2>3. overflowed' \in BOOLEAN
    <3>1. Full \in BOOLEAN
      BY DEF Full
    <3>2. overflowed \in BOOLEAN
      BY DEF ControlTypes
    <3>3. overflowed' = (overflowed \/ Full)
      BY <1>2 DEF PutDurable
    <3>4. QED
      BY ONLY <3>1, <3>2, <3>3, Zenon
  <2>4. UNCHANGED <<putters, woken, phase, socket, faults, pc, replayDue, handling, handlerPut,
                    requests, offered>>
    BY <1>2 DEF PutDurable
  <2>5. QED
    BY <1>2, <2>2, <2>3, <2>4 DEF ControlTypes
<1>3. CASE Produce \/ RePut
  <2>1. \A n \in 1..produced : n \in Events
    BY DeliveryConstants DEF DeliveryInv, DeliveryTypes, Events
  <2>2. produced < NumEvents => produced + 1 \in Events
    BY DeliveryConstants DEF DeliveryInv, DeliveryTypes, Events
  <2>3. (\E e \in Events : PutDurable(e)) /\ rePuts' \in Nat
    BY <1>3, <2>1, <2>2 DEF Produce, RePut, ControlTypes
  <2>4. QED
    BY <1>2, <2>3
<1>4. ASSUME NEW t \in Transients, PutTransient(t), handling' \in BOOLEAN,
             handlerPut' \in Transients \cup {Nothing}, requests' \in Nat
      PROVE  ControlTypes'
  <2>1. Len(queue') <= QueueSize /\ putters' \in Seq(Transients)
    BY <1>4, PutTypes DEF PutTransient
  <2>2. QED
    BY <1>4, <2>1 DEF PutTransient, ControlTypes
<1>5. CASE Put \/ HandlerPut
  BY <1>4, <1>5 DEF Put, HandlerPut, ControlTypes
<1>6. ASSUME NEW t \in Transients, Resume(t) PROVE ControlTypes'
  <2>1. Len(queue') <= QueueSize /\ putters' \in Seq(Transients)
    BY <1>6, PutTypes DEF Resume
  <2>2. QED
    BY <1>6, <2>1 DEF Resume, ControlTypes
<1>7. CASE Get
  <2>1. Len(queue') <= QueueSize
    BY <1>1, <1>7 DEF Get, ControlTypes
  <2>2. putters' \in Seq(Transients) /\ woken' \subseteq Transients
    <3>1. putters \in Seq(Transients) /\ woken \subseteq Transients
      BY DEF ControlTypes
    <3>2. CASE putters = <<>>
      BY <1>7, <3>1, <3>2 DEF Get
    <3>3. CASE putters # <<>>
      <4>1. Tail(putters) \in Seq(Transients) /\ Head(putters) \in Transients
        BY <3>1, <3>3
      <4>2. QED
        BY <1>7, <3>1, <3>3, <4>1 DEF Get
    <3>4. QED
      BY <3>2, <3>3
  <2>3. QED
    BY <1>7, <2>1, <2>2 DEF Get, ControlTypes
<1>8. CASE WriterTop \/ ReplaySend \/ ReplayDone \/ GetTimeout \/ Send \/ ReplayTimer
  <2>1. /\ UNCHANGED <<memory, session, loop, server, history>>
        /\ pc' \in {pc, "replay", "get", "top"} /\ replayDue' \in {replayDue, TRUE, FALSE}
    <3>1. CASE WriterTop \/ ReplayDone \/ GetTimeout
      BY <3>1 DEF WriterTop, ReplayDone, GetTimeout
    <3>2. CASE ReplaySend \/ Send \/ ReplayTimer
      BY <3>2 DEF ReplaySend, Send, ReplayTimer
    <3>3. QED
      BY <1>8, <3>1, <3>2
  <2>2. pc' \in {"top", "replay", "get", "send"} /\ replayDue' \in BOOLEAN
    BY <2>1 DEF ControlTypes
  <2>3. UNCHANGED <<queue, putters, woken, phase, socket, faults, handling, handlerPut, requests, offered, overflowed, rePuts>>
    BY <2>1 DEF memory, session, loop, history
  <2>4. QED
    BY <2>2, <2>3 DEF ControlTypes
<1>9. CASE ReceiveStep \/ HandlerReturn \/ ServerStep
  <2>1. CASE ReceiveStep
    BY <2>1 DEF ReceiveStep, ReceiveAck, ReceiveRequest, ControlTypes
  <2>2. CASE HandlerReturn
    BY <2>2 DEF HandlerReturn, ControlTypes
  <2>3. CASE ServerStep
    BY <2>3 DEF ServerStep, ServerRead, ServerAck, ServerRequest, ControlTypes
  <2>4. QED
    BY <1>9, <2>1, <2>2, <2>3
<1>10. CASE Connect \/ Start \/ ConnectionLost
  <2>1. CASE Connect
    BY <2>1 DEF Connect, ControlTypes
  <2>2. CASE Start
    BY <2>2 DEF Start, ControlTypes
  <2>3. CASE ConnectionLost
    <3>1. faults' \in Nat
      BY <2>3 DEF ConnectionLost, ControlTypes
    <3>2. socket' \in BOOLEAN
      BY <2>3, Zenon DEF ConnectionLost
    <3>3. QED
      BY <2>3, <3>1, <3>2 DEF ConnectionLost, ControlTypes
  <2>4. QED
    BY <1>10, <2>1, <2>2, <2>3
<1>11. ASSUME Teardown, faults' \in Nat PROVE ControlTypes'
  <2>1. putters' \in Seq(Transients) /\ woken' \subseteq Transients
    <3>1. putters \in Seq(Transients) /\ woken \subseteq Transients
      BY DEF ControlTypes
    <3>2. ASSUME NEW i \in 1..Len(putters), putters' = RemoveAt(putters, i)
          PROVE  putters' \in Seq(Transients)
      BY <3>1, <3>2 DEF RemoveAt
    <3>3. QED
      BY <1>11, <3>1, <3>2 DEF Teardown, CancelHandlerPut
  <2>2. QED
    BY <1>11, <2>1 DEF Teardown, ControlTypes
<1>12. CASE LossNoticed \/ HandlerRaises
  BY <1>11, <1>12 DEF LossNoticed, HandlerRaises, ControlTypes
<1>13. CASE Close \/ SetupFails \/ Crash
  <2>1. Len(<<>>) <= QueueSize /\ <<>> \in Seq(Transients)
    BY <1>1
  <2>2. Vanish /\ faults' \in Nat
    BY <1>13 DEF Close, SetupFails, Crash, ControlTypes
  <2>3. QED
    BY <2>1, <2>2 DEF Vanish, ControlTypes
<1>14. CASE UNCHANGED vars
  BY <1>14 DEF vars, ControlTypes
<1>15. QED
  BY <1>3, <1>5, <1>6, <1>7, <1>8, <1>9, <1>10, <1>12, <1>13, <1>14
     DEF Next, PutStep, WriterStep, SessionStep

\* The state of the outbox, the writer and the message loop is well typed; in particular
\* the queue never exceeds its size, whichever of the putters runs when.
THEOREM DeliveryTypeCorrect == Spec => []TypeOK
<1>1. Init => ControlTypes
  <2>1. Len(<<>>) <= QueueSize /\ <<>> \in Seq(Transients)
    BY DeliveryConstants
  <2>2. ASSUME Init PROVE ControlTypes
    BY <2>1, <2>2 DEF Init, ControlTypes
  <2>3. QED
    BY <2>2
<1>2. DeliveryInv /\ ControlTypes => TypeOK
  BY DEF DeliveryInv, DeliveryTypes, ControlTypes, TypeOK
<1>3. QED
  BY <1>1, <1>2, ControlStep, DeliveryInvariance, PTL DEF Spec
------------------------------------------------------------------------------
(* The order in which durable events reach the server *)

Older(e) == 1..(e - 1)
Written  == {wire[i] : i \in 1..Len(wire)}
\* The next thing the writer does is to take a snapshot of the table.
ReplayNext == pc = "top" /\ replayDue
\* What reaches the server before anything that is written from now on, and before
\* anything that is taken from the queue from now on.
Behind(d) == d \in received \cup Written
Ahead(d)  == Behind(d) \/ d = held \/ d \in Pending

\* As long as nothing overflowed and the connection is open, no event on its way is
\* without its predecessors; unless a snapshot is due, which has them.
WireOrdered  == \A i \in 1..Len(wire) : \A e \in Events : wire[i] = e =>
                  \A d \in Older(e) : d \in received \/ \E j \in 1..(i - 1) : wire[j] = d
HeldOrdered  == \A e \in Events : held = e => \A d \in Older(e) : Behind(d)
PassOrdered  == \A e \in Pending : \A d \in Older(e) :
                  Behind(d) \/ (d \in Pending /\ snapshot[d] < snapshot[e])
QueueOrdered == \A i \in 1..Len(queue) : \A e \in Events : queue[i] = e =>
                  \A d \in Older(e) : Ahead(d) \/ \E j \in 1..(i - 1) : queue[j] = d
AllUnderWay  == \A d \in 1..produced : Ahead(d) \/ \E j \in 1..Len(queue) : queue[j] = d
Ordered == /\ WireOrdered /\ HeldOrdered /\ PassOrdered
           /\ ReplayNext \/ (QueueOrdered /\ AllUnderWay)

\* A row put again after its acknowledgement may come late in the table; the server has
\* that event.
RowsOrdered == \A e \in Stored : \A d \in Older(e) \cap Stored : d \in received \/ rows[d] < rows[e]

\* What is empty when.
AtRest == /\ (pc # "replay" => Pending = {}) /\ (pc # "send" => held = Nothing)
          /\ (~socket => wire = <<>>)
          /\ phase = "down" => ReplayNext /\ queue = <<>> /\ wire = <<>>

OrderInv == AtRest /\ RowsOrdered /\ NoGaps /\ (socket /\ ~overflowed => Ordered)

LEMMA AtBack ==
  ASSUME NEW S, NEW q \in Seq(S), NEW m \in S
  PROVE  /\ Append(q, m) \in Seq(S) /\ Len(Append(q, m)) = Len(q) + 1 /\ Len(q) \in Nat
         /\ \A i \in 1..Len(q) : Append(q, m)[i] = q[i]
         /\ Append(q, m)[Len(q) + 1] = m
  OBVIOUS

LEMMA AtFront ==
  ASSUME NEW S, NEW q \in Seq(S), q # <<>>
  PROVE  /\ Head(q) = q[1] /\ Tail(q) \in Seq(S) /\ Len(Tail(q)) = Len(q) - 1 /\ Len(q) \in Nat /\ Len(q) >= 1
         /\ \A i \in 1..Len(Tail(q)) : Tail(q)[i] = q[i + 1]
  OBVIOUS

LEMMA OrderTypes ==
  ASSUME DeliveryInv
  PROVE  /\ \A e \in Events : e \in Nat /\ e # 0 /\ Older(e) \subseteq Events /\ \A d \in Older(e) : d < e
         /\ queue \in Seq(Messages) /\ wire \in Seq(Messages \cup {Response}) /\ produced \in Nat /\ 1..produced \subseteq Events
         /\ rows \in [Events -> Nat] /\ snapshot \in [Events -> Nat]
         /\ Written \subseteq Messages \cup {Response} /\ Pending \subseteq Events /\ Stored \subseteq Events
         /\ \A e \in Stored \cup Pending : e \in 1..produced /\ Older(e) \subseteq 1..produced
         /\ \A t \in Transients : t \notin Events
<1>1. queue \in Seq(Messages) /\ wire \in Seq(Messages \cup {Response}) /\ produced \in 0..NumEvents
  BY DEF DeliveryInv, DeliveryTypes
<1>2. /\ produced \in Nat /\ 1..produced \subseteq Events /\ \A t \in Transients : t \notin Events
      /\ \A e \in Events : e \in Nat /\ e # 0 /\ Older(e) \subseteq Events /\ \A d \in Older(e) : d < e
  BY <1>1, DeliveryConstants DEF Events, Older
<1>3. rows \in [Events -> Nat] /\ snapshot \in [Events -> Nat]
  BY DEF DeliveryInv, DeliveryTypes
<1>4. Written \subseteq Messages \cup {Response}
  BY <1>1 DEF Written
<1>5. \A e \in Stored \cup Pending : e \in 1..produced /\ Older(e) \subseteq 1..produced
  <2>1. \A e \in Stored \cup Pending : e \in Events /\ e \in 1..produced
    BY DEF DeliveryInv, CopiesProduced, Sent, Stored, Pending, Nothing
  <2>2. \A e \in 1..produced : Older(e) \subseteq 1..produced
    BY <1>2 DEF Older
  <2>3. QED
    BY <2>1, <2>2
<1>6. QED
  BY <1>1, <1>2, <1>3, <1>4, <1>5 DEF Pending, Stored

\* Rows only go, nothing moves, and what is due stays due.
LEMMA OrderQuiet ==
  ASSUME DeliveryInv, OrderInv, AtRest', UNCHANGED <<queue, wire, received, produced, held, snapshot, overflowed>>,
         rows' \in [Events -> Nat], \A e \in Events : rows'[e] \in {0, rows[e]},
         ReplayNext => ReplayNext', socket' => socket
  PROVE  OrderInv'
<1>1. RowsOrdered'
  BY DEF OrderInv, RowsOrdered, Stored, Nothing
<1>2. NoGaps'
  BY DEF OrderInv, NoGaps
<1>3. ASSUME Ordered PROVE Ordered'
  <2>1. Written' = Written /\ Pending' = Pending
    BY DEF Written, Pending
  <2>2. (\A d : Behind(d)' <=> Behind(d)) /\ \A d : Ahead(d)' <=> Ahead(d)
    BY <2>1 DEF Behind, Ahead
  <2>3. WireOrdered' /\ HeldOrdered' /\ PassOrdered'
    BY <1>3, <2>1, <2>2 DEF Ordered, WireOrdered, HeldOrdered, PassOrdered
  <2>4. ReplayNext' \/ (QueueOrdered' /\ AllUnderWay')
    BY <1>3, <2>2 DEF Ordered, QueueOrdered, AllUnderWay
  <2>5. QED
    BY <2>3, <2>4 DEF Ordered
<1>4. QED
  BY <1>1, <1>2, <1>3 DEF OrderInv

LEMMA OrderSnapshot ==
  ASSUME DeliveryInv, OrderInv, WriterTop, replayDue
  PROVE  OrderInv'
<1>1. /\ socket /\ pc = "top" /\ snapshot' = rows /\ pc' = "replay"
      /\ UNCHANGED <<rows, queue, wire, received, produced, held, overflowed, replayDue, socket, phase>>
  BY DEF WriterTop, Writing, memory, session, server, history
<1>2. AtRest'
  BY <1>1 DEF OrderInv, AtRest, WriterTop, Writing
<1>3. Pending' = Stored /\ Written' = Written
  BY <1>1 DEF Pending, Stored, Written
<1>4. RowsOrdered' /\ NoGaps'
  BY <1>1 DEF OrderInv, RowsOrdered, NoGaps, Stored
<1>5. held' = Nothing
  BY <1>1 DEF OrderInv, AtRest
<1>6. \A d \in 1..produced : Behind(d)' \/ d \in Pending'
  BY <1>1, <1>3, OrderTypes DEF DeliveryInv, NoDurableLost, Stored, Behind
<1>7. ASSUME Ordered PROVE Ordered'
  <2>1. WireOrdered'
    BY <1>1, <1>7 DEF Ordered, WireOrdered
  <2>2. HeldOrdered'
    BY <1>5, OrderTypes DEF HeldOrdered, Nothing
  <2>3. PassOrdered'
    <3>1. ASSUME NEW e \in Stored, NEW d \in Older(e)
          PROVE  Behind(d)' \/ (d \in Stored /\ rows[d] < rows[e])
      <4>1. d \in 1..produced
        BY OrderTypes
      <4>2. d \in received => Behind(d)'
        BY <1>1 DEF Behind
      <4>3. QED
        BY <1>3, <1>6, <4>1, <4>2 DEF OrderInv, RowsOrdered
    <3>2. QED
      BY <1>1, <1>3, <3>1 DEF PassOrdered
  <2>4. QueueOrdered'
    <3>1. ASSUME NEW i \in 1..Len(queue), NEW e \in Events, queue[i] = e, NEW d \in Older(e)
          PROVE  Ahead(d)'
      <4>1. e \in 1..produced
        BY <3>1 DEF DeliveryInv, CopiesProduced, Sent
      <4>2. d \in 1..produced
        BY <4>1, OrderTypes DEF Older
      <4>3. QED
        BY <1>6, <4>2 DEF Ahead
    <3>2. QED
      BY <1>1, <3>1 DEF QueueOrdered
  <2>5. AllUnderWay'
    BY <1>1, <1>6 DEF AllUnderWay, Ahead
  <2>6. QED
    BY <2>1, <2>2, <2>3, <2>4, <2>5 DEF Ordered
<1>8. QED
  BY <1>1, <1>2, <1>4, <1>7 DEF OrderInv

\* What is written next has all its predecessors ahead of it.
LEMMA OrderWritten ==
  ASSUME DeliveryInv, WireOrdered, NEW m \in Messages \cup {Response}, wire' = Append(wire, m), received' = received,
         m \in Events => \A d \in Older(m) : Behind(d)
  PROVE  WireOrdered' /\ Written' = Written \cup {m} /\ \A d : Behind(d)' <=> Behind(d) \/ d = m
<1>1. /\ Len(wire') = Len(wire) + 1 /\ Len(wire) \in Nat /\ wire'[Len(wire) + 1] = m
      /\ \A i \in 1..Len(wire) : wire'[i] = wire[i]
  BY AtBack DEF DeliveryInv, DeliveryTypes
<1>2. Written' = Written \cup {m}
  <2>1. \A i \in 1..Len(wire') : i \in 1..Len(wire) \/ i = Len(wire) + 1
    BY <1>1
  <2>2. \A i \in 1..Len(wire) : i \in 1..Len(wire')
    BY <1>1
  <2>3. Len(wire) + 1 \in 1..Len(wire')
    BY <1>1
  <2>4. QED
    BY <1>1, <2>1, <2>2, <2>3 DEF Written
<1>3. WireOrdered'
  <2>1. ASSUME NEW i \in 1..Len(wire'), NEW e \in Events, wire'[i] = e, NEW d \in Older(e)
        PROVE  d \in received \/ \E j \in 1..(i - 1) : wire'[j] = d
    <3>1. CASE i \in 1..Len(wire)
      <4>1. wire[i] = e
        BY <1>1, <2>1, <3>1
      <4>2. d \in received \/ \E j \in 1..(i - 1) : wire[j] = d
        BY <2>1, <3>1, <4>1 DEF WireOrdered
      <4>3. \A j \in 1..(i - 1) : wire'[j] = wire[j]
        BY <1>1, <3>1
      <4>4. QED
        BY <4>2, <4>3
    <3>2. CASE i = Len(wire) + 1
      <4>1. d \in received \/ \E j \in 1..Len(wire) : wire[j] = d
        BY <1>1, <2>1, <3>2 DEF Behind, Written
      <4>2. \A j \in 1..Len(wire) : j \in 1..(i - 1) /\ wire'[j] = wire[j]
        BY <1>1, <3>2
      <4>3. QED
        BY <4>1, <4>2
    <3>3. QED
      BY <1>1, <3>1, <3>2
  <2>2. QED
    BY <2>1 DEF WireOrdered
<1>4. QED
  BY <1>2, <1>3 DEF Behind

LEMMA OrderReplaySend ==
  ASSUME DeliveryInv, OrderInv, ReplaySend
  PROVE  OrderInv'
<1>1. PICK e \in Pending : /\ \A d \in Pending : snapshot[e] <= snapshot[d]
                           /\ wire' = Append(wire, e) /\ snapshot' = [snapshot EXCEPT ![e] = Nothing]
  BY DEF ReplaySend
<1>2. /\ socket /\ pc = "replay" /\ phase \in {"up", "teardown"}
      /\ UNCHANGED <<rows, queue, received, produced, held, overflowed, pc, replayDue, socket, phase>>
  BY DEF ReplaySend, Writing, memory, session, server, history
<1>3. e \in Events /\ e \in Messages /\ e # 0
  BY OrderTypes DEF Messages
<1>4. Pending' = Pending \ {e} /\ \A d \in Pending' : snapshot'[d] = snapshot[d]
  BY <1>1, <1>3, OrderTypes DEF Pending, Nothing
<1>5. AtRest'
  BY <1>2, <1>4 DEF OrderInv, AtRest
<1>6. RowsOrdered' /\ NoGaps'
  BY <1>2 DEF OrderInv, RowsOrdered, NoGaps, Stored
<1>7. ASSUME Ordered PROVE Ordered'
  <2>1. \A d \in Older(e) : Behind(d)
    <3>1. ASSUME NEW d \in Older(e), d \in Pending, snapshot[d] < snapshot[e] PROVE FALSE
      BY <1>1, <3>1, OrderTypes
    <3>2. QED
      BY <1>7, <3>1 DEF Ordered, PassOrdered
  <2>2. WireOrdered' /\ \A d : Behind(d)' <=> Behind(d) \/ d = e
    BY <1>1, <1>2, <1>3, <1>7, <2>1, OrderWritten DEF Ordered
  <2>3. \A d : Ahead(d)' <=> Ahead(d)
    BY <1>1, <1>2, <1>4, <2>2 DEF Ahead
  <2>4. HeldOrdered'
    BY <1>2, <1>7, <2>2 DEF Ordered, HeldOrdered
  <2>5. PassOrdered'
    BY <1>4, <1>7, <2>2 DEF Ordered, PassOrdered
  <2>6. QueueOrdered' /\ AllUnderWay'
    BY <1>2, <1>7, <2>3 DEF Ordered, QueueOrdered, AllUnderWay, ReplayNext
  <2>7. QED
    BY <2>2, <2>4, <2>5, <2>6 DEF Ordered
<1>8. QED
  BY <1>2, <1>5, <1>6, <1>7 DEF OrderInv

LEMMA OrderSend ==
  ASSUME DeliveryInv, OrderInv, Send
  PROVE  OrderInv'
<1>1. /\ socket /\ pc = "send" /\ phase \in {"up", "teardown"} /\ wire' = Append(wire, held) /\ held' = Nothing /\ pc' = "top"
      /\ UNCHANGED <<rows, queue, received, produced, snapshot, overflowed, replayDue, socket, phase>>
  BY DEF Send, Writing, memory, session, server, history
<1>2. held \in Messages
  BY <1>1 DEF DeliveryInv, DeliveryTypes
<1>3. Pending' = Pending /\ Pending = {}
  BY <1>1 DEF OrderInv, AtRest, Pending
<1>4. AtRest'
  BY <1>1, <1>3 DEF OrderInv, AtRest
<1>5. RowsOrdered' /\ NoGaps'
  BY <1>1 DEF OrderInv, RowsOrdered, NoGaps, Stored
<1>6. ASSUME Ordered PROVE Ordered'
  <2>1. held \in Events => \A d \in Older(held) : Behind(d)
    BY <1>6 DEF Ordered, HeldOrdered
  <2>2. WireOrdered' /\ \A d : Behind(d)' <=> Behind(d) \/ d = held
    BY <1>1, <1>2, <1>6, <2>1, OrderWritten DEF Ordered
  <2>3. \A d : Ahead(d) => Ahead(d)'
    BY <1>3, <2>2 DEF Ahead
  <2>4. HeldOrdered' /\ PassOrdered'
    BY <1>1, <1>3, OrderTypes DEF HeldOrdered, PassOrdered, Nothing
  <2>5. QueueOrdered' /\ AllUnderWay'
    BY <1>1, <1>6, <2>3 DEF Ordered, QueueOrdered, AllUnderWay, ReplayNext
  <2>6. QED
    BY <2>2, <2>4, <2>5 DEF Ordered
<1>7. QED
  BY <1>1, <1>4, <1>5, <1>6 DEF OrderInv

\* A response is no event.
LEMMA OrderReturn ==
  ASSUME DeliveryInv, OrderInv, HandlerReturn
  PROVE  OrderInv'
<1>1. /\ socket /\ phase = "up" /\ wire' = Append(wire, Response)
      /\ UNCHANGED <<rows, queue, received, produced, held, snapshot, overflowed, pc, replayDue, socket, phase>>
  BY DEF HandlerReturn, memory, session, writer, server, history
<1>2. Response \notin Events
  BY DEF Response, Events
<1>3. Pending' = Pending /\ Stored' = Stored
  BY <1>1 DEF Pending, Stored
<1>4. AtRest' /\ RowsOrdered' /\ NoGaps'
  BY <1>1, <1>3 DEF OrderInv, AtRest, RowsOrdered, NoGaps
<1>5. ASSUME Ordered PROVE Ordered'
  <2>1. WireOrdered' /\ \A d : Behind(d) => Behind(d)'
    BY <1>1, <1>2, <1>5, OrderWritten DEF Ordered
  <2>2. \A d : Ahead(d) => Ahead(d)'
    BY <1>1, <1>3, <2>1 DEF Ahead
  <2>3. HeldOrdered' /\ PassOrdered'
    BY <1>1, <1>3, <1>5, <2>1 DEF Ordered, HeldOrdered, PassOrdered
  <2>4. ReplayNext' \/ (QueueOrdered' /\ AllUnderWay')
    BY <1>1, <1>5, <2>2 DEF Ordered, QueueOrdered, AllUnderWay, ReplayNext
  <2>5. QED
    BY <2>1, <2>3, <2>4 DEF Ordered
<1>6. QED
  BY <1>1, <1>4, <1>5 DEF OrderInv

LEMMA OrderGet ==
  ASSUME DeliveryInv, OrderInv, Get
  PROVE  OrderInv'
<1>1. /\ socket /\ pc = "get" /\ phase \in {"up", "teardown"} /\ queue # <<>> /\ held' = Head(queue) /\ queue' = Tail(queue) /\ pc' = "send"
      /\ UNCHANGED <<rows, wire, received, produced, snapshot, overflowed, replayDue, socket, phase>>
  BY DEF Get, Writing, session, server, history
<1>2. /\ held' = queue[1] /\ Len(queue') = Len(queue) - 1 /\ Len(queue) \in Nat /\ Len(queue) >= 1
      /\ \A i \in 1..Len(queue') : queue'[i] = queue[i + 1]
  BY <1>1, AtFront DEF DeliveryInv, DeliveryTypes
<1>3. Pending' = Pending /\ Pending = {} /\ held = Nothing
  BY <1>1 DEF OrderInv, AtRest, Pending
<1>4. AtRest'
  BY <1>1, <1>3 DEF OrderInv, AtRest
<1>5. RowsOrdered' /\ NoGaps'
  BY <1>1 DEF OrderInv, RowsOrdered, NoGaps, Stored
<1>6. ASSUME Ordered PROVE Ordered'
  <2>1. QueueOrdered /\ AllUnderWay
    BY <1>1, <1>6 DEF Ordered, ReplayNext
  <2>2. Written' = Written /\ \A d : Behind(d)' <=> Behind(d)
    BY <1>1 DEF Written, Behind
  <2>3. \A d \in Events : Ahead(d) => Behind(d)
    BY <1>3, OrderTypes DEF Ahead, Nothing
  <2>4. \A d : Ahead(d)' <=> Behind(d) \/ d = queue[1]
    BY <1>2, <1>3, <2>2 DEF Ahead
  <2>5. HeldOrdered'
    <3>1. ASSUME NEW e \in Events, queue[1] = e, NEW d \in Older(e) PROVE Behind(d)
      <4>1. 1 \in 1..Len(queue) /\ 1..(1 - 1) = {} /\ d \in Events
        BY <1>2, OrderTypes
      <4>2. QED
        BY <2>1, <2>3, <3>1, <4>1 DEF QueueOrdered
    <3>2. QED
      BY <1>2, <2>2, <3>1 DEF HeldOrdered
  <2>6. \A n \in 1..Len(queue) : n = 1 \/ (n - 1 \in 1..Len(queue') /\ queue'[n - 1] = queue[n])
    BY <1>2
  <2>7. QueueOrdered'
    <3>1. ASSUME NEW i \in 1..Len(queue'), NEW e \in Events, queue'[i] = e, NEW d \in Older(e)
          PROVE  Ahead(d)' \/ \E j \in 1..(i - 1) : queue'[j] = d
      <4>1. i + 1 \in 1..Len(queue) /\ queue[i + 1] = e
        BY <1>2, <3>1
      <4>2. Ahead(d) \/ \E j \in 1..i : queue[j] = d
        BY <2>1, <3>1, <4>1 DEF QueueOrdered
      <4>3. \A j \in 1..i : j \in 1..Len(queue) /\ (j = 1 \/ j - 1 \in 1..(i - 1))
        BY <1>2
      <4>4. d \in Events
        BY <3>1, OrderTypes
      <4>5. QED
        BY <2>3, <2>4, <2>6, <4>2, <4>3, <4>4
    <3>2. QED
      BY <3>1 DEF QueueOrdered
  <2>8. AllUnderWay'
    <3>1. ASSUME NEW d \in 1..produced PROVE Ahead(d)' \/ \E j \in 1..Len(queue') : queue'[j] = d
      <4>1. d \in Events
        BY OrderTypes
      <4>2. CASE Ahead(d)
        BY <2>3, <2>4, <4>1, <4>2
      <4>3. ASSUME NEW j \in 1..Len(queue), queue[j] = d PROVE Ahead(d)' \/ \E k \in 1..Len(queue') : queue'[k] = d
        BY <2>4, <2>6, <4>3
      <4>4. QED
        BY <2>1, <4>2, <4>3 DEF AllUnderWay
    <3>2. QED
      BY <1>1, <3>1 DEF AllUnderWay
  <2>9. WireOrdered' /\ PassOrdered'
    BY <1>1, <1>3, <1>6 DEF Ordered, WireOrdered, PassOrdered
  <2>10. QED
    BY <2>5, <2>7, <2>8, <2>9 DEF Ordered
<1>7. QED
  BY <1>1, <1>4, <1>5, <1>6 DEF OrderInv

LEMMA OrderServerRead ==
  ASSUME DeliveryInv, OrderInv, ServerRead
  PROVE  OrderInv'
<1>1. /\ wire # <<>> /\ wire' = Tail(wire) /\ received' = received \cup {Head(wire)}
      /\ UNCHANGED <<rows, queue, produced, held, snapshot, overflowed, pc, replayDue, socket, phase>>
  BY DEF ServerRead, memory, session, writer, history
<1>2. /\ Head(wire) = wire[1] /\ Len(wire') = Len(wire) - 1 /\ Len(wire) \in Nat /\ Len(wire) >= 1
      /\ \A i \in 1..Len(wire') : wire'[i] = wire[i + 1]
  BY <1>1, AtFront DEF DeliveryInv, DeliveryTypes
<1>3. Pending' = Pending /\ Stored' = Stored
  BY <1>1 DEF Pending, Stored
<1>4. AtRest' /\ socket
  BY <1>1, <1>3 DEF OrderInv, AtRest
<1>5. RowsOrdered'
  BY <1>1, <1>3 DEF OrderInv, RowsOrdered
<1>6. ASSUME Ordered PROVE Ordered'
  <2>1. \A n \in 1..Len(wire) : n = 1 \/ (n - 1 \in 1..Len(wire') /\ wire'[n - 1] = wire[n])
    BY <1>2
  <2>2. \A n \in 1..Len(wire') : n + 1 \in 1..Len(wire) /\ wire'[n] = wire[n + 1]
    BY <1>2
  <2>3. \A d : Behind(d) => Behind(d)'
    <3>1. ASSUME NEW d, NEW n \in 1..Len(wire), wire[n] = d PROVE Behind(d)'
      <4>1. n = 1 => d \in received'
        BY <1>1, <1>2, <3>1
      <4>2. (\E k \in 1..Len(wire') : wire'[k] = d) => d \in Written'
        BY DEF Written
      <4>3. QED
        BY <2>1, <3>1, <4>1, <4>2 DEF Behind
    <3>2. QED
      BY <1>1, <3>1 DEF Behind, Written
  <2>4. \A d : Ahead(d) => Ahead(d)'
    BY <1>1, <1>3, <2>3 DEF Ahead
  <2>5. WireOrdered'
    <3>1. ASSUME NEW i \in 1..Len(wire'), NEW e \in Events, wire'[i] = e, NEW d \in Older(e)
          PROVE  d \in received' \/ \E j \in 1..(i - 1) : wire'[j] = d
      <4>1. d \in received \/ \E j \in 1..i : wire[j] = d
        <5>1. i + 1 \in 1..Len(wire) /\ wire[i + 1] = e /\ (i + 1) - 1 = i
          BY <1>2, <3>1
        <5>2. QED
          BY <1>6, <3>1, <5>1 DEF Ordered, WireOrdered
      <4>2. ASSUME NEW j \in 1..i, wire[j] = d PROVE d \in received' \/ \E k \in 1..(i - 1) : wire'[k] = d
        <5>1. CASE j = 1
          BY <1>1, <1>2, <4>2, <5>1
        <5>2. CASE j # 1
          <6>1. j - 1 \in 1..(i - 1) /\ j \in 1..Len(wire)
            BY <1>2, <5>2
          <6>2. QED
            BY <2>1, <4>2, <5>2, <6>1
        <5>3. QED
          BY <5>1, <5>2
      <4>3. QED
        BY <1>1, <4>1, <4>2
    <3>2. QED
      BY <3>1 DEF WireOrdered
  <2>6. HeldOrdered' /\ PassOrdered'
    BY <1>1, <1>3, <1>6, <2>3 DEF Ordered, HeldOrdered, PassOrdered
  <2>7. ReplayNext' \/ (QueueOrdered' /\ AllUnderWay')
    BY <1>1, <1>6, <2>4 DEF Ordered, QueueOrdered, AllUnderWay, ReplayNext
  <2>8. QED
    BY <2>5, <2>6, <2>7 DEF Ordered
<1>7. NoGaps'
  <2>1. ASSUME ~overflowed, NEW e \in received' \cap Events, NEW d \in 1..e PROVE d \in received'
    <3>1. CASE e \in received
      BY <1>1, <2>1, <3>1 DEF OrderInv, NoGaps
    <3>2. CASE e = wire[1]
      <4>1. 1 \in 1..Len(wire) /\ 1..(1 - 1) = {}
        BY <1>2
      <4>2. \A c \in Older(e) : c \in received
        BY <1>4, <2>1, <3>2, <4>1 DEF OrderInv, Ordered, WireOrdered
      <4>3. d = e \/ d \in Older(e)
        BY <2>1, OrderTypes DEF Older
      <4>4. QED
        BY <1>1, <2>1, <4>2, <4>3
    <3>3. QED
      BY <1>1, <1>2, <2>1, <3>1, <3>2
  <2>2. QED
    BY <1>1, <2>1 DEF NoGaps
<1>8. QED
  BY <1>1, <1>4, <1>5, <1>6, <1>7 DEF OrderInv

\* A durable event enters the queue behind all its predecessors.
LEMMA OrderPut ==
  ASSUME DeliveryInv, OrderInv, NEW e \in Events, PutDurable(e), produced' \in Nat,
         (e = produced + 1 /\ produced' = e) \/ (e \in 1..produced /\ produced' = produced)
  PROVE  OrderInv'
<1>1. /\ phase # "down" /\ Insert(e) /\ queue' = (IF Full THEN queue ELSE Append(queue, e)) /\ overflowed' = (overflowed \/ Full)
      /\ UNCHANGED <<wire, received, held, snapshot, pc, replayDue, socket, phase>>
  BY DEF PutDurable, Running, session, writer, server
<1>2. Pending' = Pending /\ \A d : Ahead(d)' <=> Ahead(d)
  BY <1>1 DEF Pending, Ahead, Behind, Written
<1>3. AtRest'
  BY <1>1, <1>2 DEF OrderInv, AtRest
<1>4. RowsOrdered'
  <2>1. CASE rows' = rows
    BY <1>1, <2>1 DEF OrderInv, RowsOrdered, Stored
  <2>2. CASE rows[e] = Nothing /\ InsertOrReplace(e)
    <3>1. PICK top \in {rows[d] : d \in Events} : (\A d \in Events : rows[d] <= top) /\ rows' = [rows EXCEPT ![e] = top + 1]
      BY <2>2 DEF InsertOrReplace
    <3>2. top \in Nat /\ rows'[e] = top + 1 /\ \A d \in Events : rows[d] \in Nat /\ (d # e => rows'[d] = rows[d])
      BY <3>1, OrderTypes
    <3>3. ASSUME NEW d \in Stored', NEW c \in Older(d) \cap Stored' PROVE c \in received \/ rows'[c] < rows'[d]
      <4>0. c \in Events /\ d \in Events /\ rows'[c] # 0 /\ rows'[d] # 0 /\ c < d
        BY <3>3, OrderTypes DEF Stored, Nothing
      <4>1. CASE d = e
        BY <3>1, <3>2, <4>0, <4>1
      <4>2. CASE d # e /\ c = e
        <5>1. d \in Stored
          BY <3>2, <4>0, <4>2 DEF Stored, Nothing
        <5>2. c \in 1..produced /\ rows[c] = Nothing
          BY <2>2, <4>2, <5>1, <3>3, OrderTypes
        <5>3. QED
          BY <5>2 DEF DeliveryInv, NoDurableLost
      <4>3. CASE d # e /\ c # e
        <5>1. d \in Stored /\ c \in Stored
          BY <3>2, <4>0, <4>3 DEF Stored, Nothing
        <5>2. QED
          BY <3>2, <3>3, <4>0, <4>3, <5>1 DEF OrderInv, RowsOrdered
      <4>4. QED
        BY <4>1, <4>2, <4>3
    <3>4. QED
      BY <1>1, <3>3 DEF RowsOrdered
  <2>3. QED
    BY <1>1, <2>1, <2>2 DEF Insert, InsertOrReplace
<1>5. NoGaps'
  BY <1>1 DEF OrderInv, NoGaps
<1>6. ASSUME Ordered, ~overflowed' PROVE Ordered'
  <2>1. WireOrdered' /\ HeldOrdered' /\ PassOrdered'
    BY <1>1, <1>2, <1>6 DEF Ordered, WireOrdered, HeldOrdered, PassOrdered, Behind, Written
  <2>2. queue' = Append(queue, e) /\ e \in Messages
    BY <1>1, <1>6 DEF Messages
  <2>3. /\ Len(queue') = Len(queue) + 1 /\ Len(queue) \in Nat /\ queue'[Len(queue) + 1] = e
        /\ \A i \in 1..Len(queue) : queue'[i] = queue[i]
    BY <2>2, AtBack DEF DeliveryInv, DeliveryTypes
  <2>4. CASE ReplayNext
    BY <1>1, <2>1, <2>4 DEF Ordered, ReplayNext
  <2>5. CASE QueueOrdered /\ AllUnderWay
    <3>1. QueueOrdered'
      <4>1. ASSUME NEW i \in 1..Len(queue'), NEW c \in Events, queue'[i] = c, NEW d \in Older(c)
            PROVE  Ahead(d) \/ \E j \in 1..(i - 1) : queue'[j] = d
        <5>1. CASE i \in 1..Len(queue)
          <6>1. Ahead(d) \/ \E j \in 1..(i - 1) : queue[j] = d
            BY <2>3, <2>5, <4>1, <5>1 DEF QueueOrdered
          <6>2. \A j \in 1..(i - 1) : queue'[j] = queue[j]
            BY <2>3, <5>1
          <6>3. QED
            BY <6>1, <6>2
        <5>2. CASE i = Len(queue) + 1
          <6>1. d \in 1..produced
            BY <2>3, <4>1, <5>2, OrderTypes DEF Older
          <6>2. Ahead(d) \/ \E j \in 1..Len(queue) : queue[j] = d
            BY <2>5, <6>1 DEF AllUnderWay
          <6>3. \A j \in 1..Len(queue) : j \in 1..(i - 1) /\ queue'[j] = queue[j]
            BY <2>3, <5>2
          <6>4. QED
            BY <6>2, <6>3
        <5>3. QED
          BY <2>3, <4>1, <5>1, <5>2
      <4>2. QED
        BY <1>2, <4>1 DEF QueueOrdered
    <3>2. AllUnderWay'
      <4>1. \A d \in 1..produced' : d \in 1..produced \/ d = e
        BY OrderTypes
      <4>2. \A j \in 1..Len(queue) : j \in 1..Len(queue') /\ queue'[j] = queue[j]
        BY <2>3
      <4>3. Len(queue) + 1 \in 1..Len(queue')
        BY <2>3
      <4>4. QED
        BY <1>2, <2>3, <2>5, <4>1, <4>2, <4>3 DEF AllUnderWay
    <3>3. QED
      BY <2>1, <3>1, <3>2 DEF Ordered
  <2>6. QED
    BY <1>6, <2>4, <2>5 DEF Ordered
<1>7. QED
  BY <1>1, <1>3, <1>4, <1>5, <1>6 DEF OrderInv

\* A transient message enters the queue; it precedes nothing.
LEMMA OrderPutTransient ==
  ASSUME DeliveryInv, OrderInv, AtRest', NEW t \in Transients, queue' = queue \/ queue' = Append(queue, t),
         UNCHANGED <<rows, wire, received, produced, held, snapshot, overflowed, pc, replayDue, socket>>
  PROVE  OrderInv'
<1>1. Stored' = Stored /\ Pending' = Pending /\ Written' = Written
  BY DEF Stored, Pending, Written
<1>2. (\A d : Behind(d)' <=> Behind(d)) /\ \A d : Ahead(d)' <=> Ahead(d)
  BY <1>1 DEF Behind, Ahead
<1>3. RowsOrdered' /\ NoGaps'
  BY <1>1 DEF OrderInv, RowsOrdered, NoGaps
<1>4. ASSUME Ordered PROVE Ordered'
  <2>1. WireOrdered' /\ HeldOrdered' /\ PassOrdered'
    BY <1>1, <1>2, <1>4 DEF Ordered, WireOrdered, HeldOrdered, PassOrdered
  <2>2. ASSUME queue' = Append(queue, t), QueueOrdered, AllUnderWay PROVE QueueOrdered' /\ AllUnderWay'
    <3>1. /\ Len(queue') = Len(queue) + 1 /\ Len(queue) \in Nat /\ queue'[Len(queue) + 1] = t /\ t \notin Events
          /\ \A i \in 1..Len(queue) : queue'[i] = queue[i]
      BY <2>2, AtBack, OrderTypes DEF DeliveryInv, DeliveryTypes, Messages
    <3>2. QueueOrdered'
      <4>1. ASSUME NEW i \in 1..Len(queue'), NEW c \in Events, queue'[i] = c, NEW d \in Older(c)
            PROVE  Ahead(d) \/ \E j \in 1..(i - 1) : queue'[j] = d
        <5>1. i \in 1..Len(queue)
          BY <3>1, <4>1
        <5>2. Ahead(d) \/ \E j \in 1..(i - 1) : queue[j] = d
          BY <2>2, <3>1, <4>1, <5>1 DEF QueueOrdered
        <5>3. \A j \in 1..(i - 1) : queue'[j] = queue[j]
          BY <3>1, <5>1
        <5>4. QED
          BY <5>2, <5>3
      <4>2. QED
        BY <1>2, <4>1 DEF QueueOrdered
    <3>3. AllUnderWay'
      <4>1. \A j \in 1..Len(queue) : j \in 1..Len(queue') /\ queue'[j] = queue[j]
        BY <3>1
      <4>2. QED
        BY <1>2, <2>2, <4>1 DEF AllUnderWay
    <3>4. QED
      BY <3>2, <3>3
  <2>3. ReplayNext' \/ (QueueOrdered' /\ AllUnderWay')
    BY <1>2, <1>4, <2>2 DEF Ordered, QueueOrdered, AllUnderWay, ReplayNext
  <2>4. QED
    BY <2>1, <2>3 DEF Ordered
<1>5. QED
  BY <1>3, <1>4 DEF OrderInv

\* Whoever puts a message keeps the order.
LEMMA OrderPutStep ==
  ASSUME DeliveryInv, OrderInv, PutStep
  PROVE  OrderInv'
<1>1. ASSUME UNCHANGED <<wire, held, snapshot, pc, replayDue, socket, phase>>, phase # "down" PROVE AtRest'
  BY <1>1 DEF OrderInv, AtRest, Pending
<1>2. CASE Produce
  <2>1. produced + 1 \in Events /\ produced' = produced + 1 /\ PutDurable(produced + 1) /\ produced' \in Nat
    BY <1>2, DeliveryConstants DEF Produce, Events, DeliveryInv, DeliveryTypes
  <2>2. PICK e \in Events : e = produced + 1
    BY <2>1
  <2>3. QED
    BY <2>1, <2>2, OrderPut
<1>3. CASE RePut
  <2>1. PICK e \in 1..produced : PutDurable(e)
    BY <1>3 DEF RePut
  <2>2. e \in Events /\ produced' = produced /\ produced \in Nat
    BY <1>3, OrderTypes DEF RePut
  <2>3. QED
    BY <2>1, <2>2, OrderPut
<1>4. ASSUME NEW t \in Transients, PutTransient(t) PROVE OrderInv'
  <2>1. /\ phase # "down" /\ UNCHANGED <<rows, wire, received, produced, held, snapshot, overflowed, pc, replayDue, socket, phase>>
        /\ queue' = queue \/ queue' = Append(queue, t)
    BY <1>4 DEF PutTransient, Running, session, writer, server
  <2>2. QED
    BY <1>1, <2>1, OrderPutTransient
<1>5. ASSUME NEW t \in Transients, Resume(t) PROVE OrderInv'
  <2>1. /\ phase # "down" /\ UNCHANGED <<rows, wire, received, produced, held, snapshot, overflowed, pc, replayDue, socket, phase>>
        /\ queue' = queue \/ queue' = Append(queue, t)
    BY <1>5 DEF Resume, Running, session, writer, server, history
  <2>2. QED
    BY <1>1, <2>1, OrderPutTransient
<1>6. QED
  BY <1>2, <1>3, <1>4, <1>5 DEF PutStep, Put, HandlerPut

\* A pass that is done and an empty queue leave nothing behind.
LEMMA OrderWriterStep ==
  ASSUME DeliveryInv, OrderInv, WriterStep
  PROVE  OrderInv'
<1>1. ASSUME Writing(pc), UNCHANGED <<rows, memory, session, snapshot, held, wire, loop, server, history>>,
             pc' \in {"top", "get"}, pc # "send", Pending = {}, ReplayNext => ReplayNext'
      PROVE  OrderInv'
  <2>1. /\ phase \in {"up", "teardown"} /\ Pending' = Pending
        /\ UNCHANGED <<rows, queue, wire, received, produced, held, snapshot, overflowed, socket, phase>>
    BY <1>1 DEF Writing, memory, session, server, history, Pending
  <2>2. AtRest'
    BY <1>1, <2>1 DEF OrderInv, AtRest
  <2>3. rows' \in [Events -> Nat] /\ \A e \in Events : rows'[e] \in {0, rows[e]}
    BY <2>1, OrderTypes
  <2>4. QED
    BY <1>1, <2>1, <2>2, <2>3, OrderQuiet
<1>2. CASE WriterTop /\ replayDue
  BY <1>2, OrderSnapshot
<1>3. CASE WriterTop /\ ~replayDue
  <2>1. Pending = {} /\ ~ReplayNext
    BY <1>3 DEF WriterTop, Writing, OrderInv, AtRest, ReplayNext
  <2>2. QED
    BY <1>1, <1>3, <2>1 DEF WriterTop, Writing
<1>4. CASE ReplayDone
  BY <1>1, <1>4 DEF ReplayDone, Writing, ReplayNext
<1>5. CASE GetTimeout
  <2>1. Pending = {} /\ ~ReplayNext
    BY <1>5 DEF GetTimeout, Writing, OrderInv, AtRest, ReplayNext
  <2>2. QED
    BY <1>1, <1>5, <2>1 DEF GetTimeout, Writing
<1>6. QED
  BY <1>2, <1>3, <1>4, <1>5, OrderReplaySend, OrderGet, OrderSend DEF WriterStep

\* With the connection go the messages in flight, with the session the queue.
LEMMA OrderSessionStep ==
  ASSUME DeliveryInv, OrderInv, SessionStep
  PROVE  OrderInv'
<1>1. ASSUME UNCHANGED <<rows, received, overflowed>> PROVE RowsOrdered' /\ NoGaps'
  BY <1>1 DEF OrderInv, RowsOrdered, NoGaps, Stored
<1>2. CASE Connect
  <2>1. /\ phase = "down" /\ phase' = "setup"
        /\ UNCHANGED <<rows, queue, wire, received, held, snapshot, overflowed, pc, replayDue>>
    BY <1>2 DEF Connect, memory, writer, server, history
  <2>2. ReplayNext /\ wire = <<>> /\ Pending = {} /\ held = Nothing
    BY <2>1 DEF OrderInv, AtRest, ReplayNext
  <2>3. ReplayNext' /\ Pending' = {}
    BY <2>1, <2>2 DEF ReplayNext, Pending
  <2>4. Ordered'
    BY <2>1, <2>2, <2>3, OrderTypes DEF Ordered, WireOrdered, HeldOrdered, PassOrdered, Nothing
  <2>5. AtRest'
    BY <2>1, <2>2, <2>3 DEF AtRest
  <2>6. QED
    BY <1>1, <2>1, <2>4, <2>5 DEF OrderInv
<1>3. ASSUME UNCHANGED <<rows, queue, socket, writer, wire, server, history>>, phase' # "down"
      PROVE  OrderInv'
  <2>1. UNCHANGED <<rows, queue, wire, received, produced, held, snapshot, overflowed, pc, replayDue, socket>>
    BY <1>3 DEF writer, server, history
  <2>2. AtRest'
    BY <1>3, <2>1 DEF OrderInv, AtRest, Pending
  <2>3. rows' \in [Events -> Nat] /\ \A e \in Events : rows'[e] \in {0, rows[e]}
    BY <2>1, OrderTypes
  <2>4. ReplayNext => ReplayNext'
    BY <2>1 DEF ReplayNext
  <2>5. QED
    BY <2>1, <2>2, <2>3, <2>4, OrderQuiet
<1>4. CASE Start
  BY <1>3, <1>4 DEF Start, memory
<1>5. ASSUME Teardown PROVE OrderInv'
  BY <1>3, <1>5 DEF Teardown
<1>6. CASE ConnectionLost
  <2>1. /\ ~socket' /\ wire' = <<>> /\ UNCHANGED <<rows, queue, received, held, snapshot, overflowed, pc, replayDue, phase>>
    BY <1>6 DEF ConnectionLost, memory, writer, history
  <2>2. AtRest'
    BY <2>1 DEF OrderInv, AtRest, Pending, ReplayNext
  <2>3. QED
    BY <1>1, <2>1, <2>2 DEF OrderInv
<1>7. ASSUME Vanish PROVE OrderInv'
  <2>1. Pending' = {}
    BY <1>7 DEF Vanish, Pending, Empty
  <2>2. AtRest'
    BY <1>7, <2>1 DEF Vanish, AtRest, ReplayNext
  <2>3. QED
    BY <1>1, <1>7, <2>2 DEF OrderInv, Vanish, history
<1>8. QED
  BY <1>2, <1>4, <1>5, <1>6, <1>7 DEF SessionStep, HandlerRaises, LossNoticed, Close, SetupFails, Crash

LEMMA OrderStep == DeliveryInv /\ OrderInv /\ [Next]_vars => OrderInv'
<1> SUFFICES ASSUME DeliveryInv, OrderInv, [Next]_vars PROVE OrderInv'
  OBVIOUS
<1>1. ASSUME UNCHANGED <<queue, wire, received, produced, held, snapshot, overflowed, pc, socket, phase>>,
             rows' \in [Events -> Nat], \A e \in Events : rows'[e] \in {0, rows[e]}, replayDue => replayDue'
      PROVE  OrderInv'
  <2>1. AtRest'
    BY <1>1 DEF OrderInv, AtRest, Pending, ReplayNext
  <2>2. QED
    BY <1>1, <2>1, OrderQuiet DEF ReplayNext
<1>2. rows \in [Events -> Nat]
  BY OrderTypes
<1>3. CASE ReplayTimer
  BY <1>1, <1>2, <1>3 DEF ReplayTimer, memory, session, server, history
<1>4. CASE ReceiveAck
  <2>1. rows' \in [Events -> Nat] /\ \A e \in Events : rows'[e] \in {0, rows[e]}
    BY <1>2, <1>4 DEF ReceiveAck, Nothing
  <2>2. QED
    BY <1>1, <1>4, <2>1 DEF ReceiveAck, memory, session, writer, server, history
<1>5. CASE ReceiveRequest
  BY <1>1, <1>2, <1>5 DEF ReceiveRequest, memory, session, writer, server, history
<1>6. CASE ServerAck \/ ServerRequest
  BY <1>1, <1>2, <1>6 DEF ServerAck, ServerRequest, memory, session, writer, server, history
<1>7. CASE UNCHANGED vars
  BY <1>1, <1>2, <1>7 DEF vars, memory, session, writer, server, history
<1>8. QED
  BY <1>3, <1>4, <1>5, <1>6, <1>7, OrderPutStep, OrderWriterStep, OrderReturn, OrderServerRead,
     OrderSessionStep DEF Next, ReceiveStep, ServerStep

\* As long as no durable event met a full queue, the server has every predecessor of a
\* durable event it has: pending() replays ORDER BY rowid before the writer of session.py
\* takes anything from the queue of the new session, however often connections are lost,
\* the process crashes or an acknowledged event is put again.
THEOREM EventsInOrder == Spec => []NoGaps
<1>1. Init => OrderInv
  <2> SUFFICES ASSUME Init PROVE OrderInv
    OBVIOUS
  <2>1. Pending = {} /\ Stored = {}
    BY DEF Init, Pending, Stored, Empty
  <2>2. QED
    BY <2>1 DEF Init, OrderInv, AtRest, RowsOrdered, NoGaps, ReplayNext
<1>2. OrderInv => NoGaps
  BY DEF OrderInv
<1>3. QED
  BY <1>1, <1>2, OrderStep, DeliveryInvariance, PTL DEF Spec
==============================================================================
