----------------------------- MODULE DeltaBuffer -----------------------------
(***************************************************************************)
(* BufferedBackendSender (providers/delta_buffer.py): streamed fragments   *)
(* are coalesced per key and handed to the event loop as one message, when *)
(* a buffer is large enough, when another message is sent, when the flush  *)
(* timer fires, or on close.  send() is called by the app-server's stdout  *)
(* reader and by handler threads, the timer and close run on the loop.     *)
(* Only the buffers are locked; handing over happens after the lock.       *)
(*                                                                         *)
(* An item is a fragment of some key or, with key Barrier, a message that  *)
(* is not coalesced; items are numbered as the lock admits them.  A text   *)
(* fragment is one character long.  The outbound queue has room here: its  *)
(* bound is the subject of EventDelivery.                                  *)
(***************************************************************************)
EXTENDS Naturals, SequencesExt

CONSTANTS Senders,    \* threads that call send()
          TextKeys,   \* coalescing keys of assistant.delta and the like
          FileKeys,   \* those of file.changed, merged without a size limit
          MaxChars,   \* max_chars
          MaxSends    \* bound on calls of send()

Loop     == "loop"
Barrier  == "barrier"
NoSend   == "none"
Threads  == Senders \cup {Loop}
Keys     == TextKeys \cup FileKeys

ASSUME BufferConstants ==
  /\ Loop \notin Senders /\ TextKeys \cap FileKeys = {}
  /\ {Barrier, NoSend} \cap Keys = {} /\ MaxChars \in Nat \ {0} /\ MaxSends \in Nat

VARIABLES
  buffers,    \* _buffers: per key, the items coalesced so far
  scheduled,  \* _flush_scheduled
  closed,     \* _closed
  pc,         \* per thread: "idle", "lock" (before the locked part), "put" (after it)
  sending,    \* per thread: the key or Barrier of the running send()
  hand,       \* per thread: entries taken under the lock and not yet handed over
  ready,      \* callbacks the loop has still to run: puts and timer requests
  timers,     \* armed call_later timers
  outbound,   \* entries put into the outbound queue
  closing,    \* of close(): "no", "running", "done"
  drain,      \* of drain(): "no", "waiting", "done" or "timeout"
  awaited,    \* the puts drain() waits for
  count,      \* items admitted so far
  sends,      \* calls of send() so far
  raced,      \* some thread took the lock while another held entries in its hand
  closeTook   \* the entries that close() flushed

locked == <<buffers, scheduled, count>>
threads == <<pc, sending, hand>>
ending == <<closing, drain, awaited, closeTook>>
vars == <<locked, closed, threads, ready, timers, outbound, ending, sends, raced>>

Schedule == [op |-> "schedule", items |-> <<>>]
PutCall(e) == [op |-> "put", items |-> e]
Item(k) == [n |-> count + 1, key |-> k]
Buffered == {buffers[k] : k \in {l \in Keys : buffers[l] # <<>>}}
OthersHold(t) == \E u \in Threads \ {t} : hand[u] # {}

Init ==
  /\ buffers = [k \in Keys |-> <<>>] /\ scheduled = FALSE /\ count = 0
  /\ closed = FALSE /\ ready = <<>> /\ timers = 0 /\ outbound = <<>>
  /\ pc = [t \in Threads |-> "idle"] /\ sending = [t \in Threads |-> NoSend]
  /\ hand = [t \in Threads |-> {}]
  /\ closing = "no" /\ drain = "no" /\ awaited = {} /\ closeTook = {}
  /\ sends = 0 /\ raced = FALSE
------------------------------------------------------------------------------
(* send()                                                                  *)

\* A closed sender drops the message; the check is not under the lock.
Call(t) ==
  /\ pc[t] = "idle" /\ sends < MaxSends /\ ~closed
  /\ sends' = sends + 1
  /\ pc' = [pc EXCEPT ![t] = "lock"]
  /\ \E k \in Keys \cup {Barrier} : sending' = [sending EXCEPT ![t] = k]
  /\ UNCHANGED <<locked, closed, hand, ready, timers, outbound, ending, raced>>

\* The first fragment of a buffer asks the loop for a flush, unless one is due.
ScheduleFlush(k) ==
  \/ /\ buffers[k] = <<>> /\ ~scheduled
     /\ scheduled' = TRUE /\ ready' = Append(ready, Schedule)
  \/ (buffers[k] # <<>> \/ scheduled) /\ UNCHANGED <<scheduled, ready>>

\* The locked part of send() for a fragment: a full text buffer is popped.
AddFragment(t) ==
  /\ pc[t] = "lock" /\ sending[t] \in Keys
  /\ LET k == sending[t]
         entry == Append(buffers[k], Item(k))
     IN /\ ScheduleFlush(k)
        /\ \/ /\ k \in TextKeys /\ Len(entry) >= MaxChars
              /\ buffers' = [buffers EXCEPT ![k] = <<>>]
              /\ hand' = [hand EXCEPT ![t] = {entry}]
              /\ pc' = [pc EXCEPT ![t] = "put"]
           \/ /\ k \in FileKeys \/ Len(entry) < MaxChars
              /\ buffers' = [buffers EXCEPT ![k] = entry]
              /\ pc' = [pc EXCEPT ![t] = "idle"] /\ UNCHANGED hand
  /\ count' = count + 1
  /\ sending' = [sending EXCEPT ![t] = NoSend]
  /\ raced' = (raced \/ OthersHold(t))
  /\ UNCHANGED <<closed, timers, outbound, ending, sends>>
------------------------------------------------------------------------------
(* flush_all() and what follows it                                         *)

\* Variant: the flag is left standing, as if the timer were still due.
EmptyBuffersOnly ==
  buffers' = [k \in Keys |-> <<>>] /\ UNCHANGED scheduled

EmptyBuffers ==
  buffers' = [k \in Keys |-> <<>>] /\ scheduled' = FALSE

\* The locked part of flush_all, for a message that is not coalesced (it
\* follows the flushed entries), for the timer and for close().
FlushAll(t) ==
  /\ pc[t] = "lock" /\ sending[t] \in {Barrier, NoSend}
  /\ EmptyBuffers
  /\ \/ /\ sending[t] = Barrier /\ count' = count + 1
        /\ hand' = [hand EXCEPT ![t] = Buffered \cup {<<Item(Barrier)>>}]
     \/ /\ sending[t] = NoSend /\ UNCHANGED count
        /\ hand' = [hand EXCEPT ![t] = Buffered]
  /\ closeTook' = IF t = Loop /\ closing = "running" THEN Buffered ELSE closeTook
  /\ pc' = [pc EXCEPT ![t] = "put"]
  /\ sending' = [sending EXCEPT ![t] = NoSend]
  /\ raced' = (raced \/ OthersHold(t))
  /\ UNCHANGED <<closed, ready, timers, outbound, closing, drain, awaited, sends>>

\* Variant: the message goes out before what was buffered ahead of it.
PutLastFirst(t) ==
  /\ pc[t] = "put"
  /\ \E e \in hand[t] :
       /\ \A d \in hand[t] : e[1].n >= d[1].n
       /\ hand' = [hand EXCEPT ![t] = hand[t] \ {e}]
       /\ ready' = IF closed THEN ready ELSE Append(ready, PutCall(e))
  /\ UNCHANGED <<locked, closed, pc, sending, timers, outbound, ending, sends, raced>>

\* Variant: only the first entry is handed over.
PutFirstOnly(t) ==
  /\ pc[t] = "put"
  /\ \E e \in hand[t] :
       /\ \A d \in hand[t] : e[1].n <= d[1].n
       /\ hand' = [hand EXCEPT ![t] = {}]
       /\ ready' = IF closed THEN ready ELSE Append(ready, PutCall(e))
  /\ UNCHANGED <<locked, closed, pc, sending, timers, outbound, ending, sends, raced>>

\* _put: entries go to the loop oldest first, and are dropped once closed.
PutNext(t) ==
  /\ pc[t] = "put"
  /\ \E e \in hand[t] :
       /\ \A d \in hand[t] : e[1].n <= d[1].n
       /\ hand' = [hand EXCEPT ![t] = hand[t] \ {e}]
       /\ ready' = IF closed THEN ready ELSE Append(ready, PutCall(e))
  /\ UNCHANGED <<locked, closed, pc, sending, timers, outbound, ending, sends, raced>>

\* The call returns; close() marks the sender closed after its flush.
PutsDone(t) ==
  /\ pc[t] = "put" /\ hand[t] = {}
  /\ pc' = [pc EXCEPT ![t] = "idle"]
  /\ \/ /\ t = Loop /\ closing = "running" /\ closed' = TRUE /\ closing' = "done"
     \/ (t # Loop \/ closing # "running") /\ UNCHANGED <<closed, closing>>
  /\ UNCHANGED <<locked, sending, hand, ready, timers, outbound, drain, awaited, closeTook,
                 sends, raced>>
------------------------------------------------------------------------------
(* The event loop: one callback, timer or coroutine step at a time         *)

RunCallback ==
  /\ pc[Loop] = "idle" /\ ready # <<>>
  /\ ready' = Tail(ready)
  /\ \/ /\ Head(ready).op = "put" /\ outbound' = Append(outbound, Head(ready).items)
        /\ awaited' = awaited \ {Head(ready).items} /\ UNCHANGED timers
     \/ /\ Head(ready).op = "schedule" /\ timers' = IF closed THEN timers ELSE timers + 1
        /\ UNCHANGED <<outbound, awaited>>
  /\ UNCHANGED <<locked, closed, threads, closing, drain, closeTook, sends, raced>>

\* Variant: the timer is armed again as long as fragments are buffered.
TimerArmedAgain ==
  /\ pc[Loop] = "idle" /\ timers > 0
  /\ \/ (\E k \in Keys : buffers[k] # <<>>) /\ UNCHANGED vars
     \/ /\ \A k \in Keys : buffers[k] = <<>>
        /\ timers' = timers - 1 /\ pc' = [pc EXCEPT ![Loop] = "lock"]
        /\ UNCHANGED <<locked, closed, sending, hand, ready, outbound, ending, sends, raced>>

TimerFires ==
  /\ pc[Loop] = "idle" /\ timers > 0
  /\ timers' = timers - 1
  /\ pc' = [pc EXCEPT ![Loop] = "lock"]
  /\ UNCHANGED <<locked, closed, sending, hand, ready, outbound, ending, sends, raced>>

Close ==
  /\ pc[Loop] = "idle" /\ closing = "no"
  /\ closing' = "running" /\ pc' = [pc EXCEPT ![Loop] = "lock"]
  /\ UNCHANGED <<locked, closed, sending, hand, ready, timers, outbound, drain, awaited,
                 closeTook, sends, raced>>

\* drain() follows close(): it waits for the puts under way, five seconds at most.
Drain ==
  /\ pc[Loop] = "idle" /\ closing = "done" /\ drain = "no"
  /\ drain' = "waiting"
  /\ awaited' = {ready[i].items : i \in {j \in 1..Len(ready) : ready[j].op = "put"}}
  /\ UNCHANGED <<locked, closed, threads, ready, timers, outbound, closing, closeTook, sends, raced>>

DrainEnds ==
  /\ pc[Loop] = "idle" /\ drain = "waiting"
  /\ \/ awaited = {} /\ drain' = "done"
     \/ awaited # {} /\ drain' = "timeout"
  /\ UNCHANGED <<locked, closed, threads, ready, timers, outbound, closing, awaited,
                 closeTook, sends, raced>>
------------------------------------------------------------------------------
Step(t) == AddFragment(t) \/ FlushAll(t) \/ PutNext(t) \/ PutsDone(t)

Next == (\E t \in Senders : Call(t)) \/ (\E t \in Threads : Step(t))
          \/ RunCallback \/ TimerFires \/ Close \/ Drain \/ DrainEnds

Spec == Init /\ [][Next]_vars

\* Threads are scheduled, the loop runs its callbacks and timers fire.
FairSpec == /\ Spec /\ \A t \in Threads : WF_vars(Step(t))
            /\ WF_vars(RunCallback) /\ SF_vars(TimerFires)
------------------------------------------------------------------------------
(* Properties                                                              *)

Items == [n : Nat \ {0}, key : Keys \cup {Barrier}]
Entries == Seq(Items)

\* The values the variables take.
TypeOK ==
  /\ buffers \in [Keys -> Entries] /\ \A k \in TextKeys : Len(buffers[k]) < MaxChars
  /\ scheduled \in BOOLEAN /\ closed \in BOOLEAN
  /\ pc \in [Threads -> {"idle", "lock", "put"}]
  /\ sending \in [Threads -> Keys \cup {Barrier, NoSend}]
  /\ hand \in [Threads -> SUBSET Entries]
  /\ ready \in Seq([op : {"put", "schedule"}, items : Entries])
  /\ timers \in Nat /\ outbound \in Seq(Entries) /\ awaited \subseteq Entries
  /\ closing \in {"no", "running", "done"} /\ drain \in {"no", "waiting", "done", "timeout"}
  /\ count \in Nat /\ sends \in Nat /\ raced \in BOOLEAN
  /\ closeTook \subseteq Entries

\* Nothing waits in a buffer without a flush on its way: as long as the sender is
\* open, a timer is armed, the loop is about to arm one, or it is about to flush.
FlushArmed ==
  ~closed /\ (\E k \in Keys : buffers[k] # <<>>) =>
    \/ timers > 0 \/ pc[Loop] = "lock"
    \/ \E i \in 1..Len(ready) : ready[i].op = "schedule"

\* Where item number n is: its positions in the buffers, in the hands, in the
\* callbacks and in the outbound queue.
In(n, entry) == \E i \in 1..Len(entry) : entry[i].n = n
Places(n) ==
  {p \in {"buffer"} \X Keys \X (1..count) : p[3] <= Len(buffers[p[2]]) /\ buffers[p[2]][p[3]].n = n}
  \cup (UNION {{<<"hand", t, e>> : e \in {h \in hand[t] : In(n, h)}} : t \in Threads})
  \cup {p \in {"ready"} \X (1..Len(ready)) : In(n, ready[p[2]].items)}
  \cup {p \in {"outbound"} \X (1..Len(outbound)) : In(n, outbound[p[2]])}

\* Until the sender is closed every admitted item is in exactly one place: flushes by
\* several threads neither lose nor duplicate a fragment.  When drain() returns without
\* having timed out, everything that close() flushed is in the outbound queue
\* (delta_buffer.py:102-147).
ExactlyOnce ==
  /\ \A n \in 1..count : IF closed THEN Cardinality(Places(n)) <= 1
                                    ELSE Cardinality(Places(n)) = 1
  /\ drain = "done" => \A e \in closeTook : Contains(outbound, e)

\* Items leave in the order they were admitted, per key and around every message
\* that is not coalesced, unless some thread took the lock while another had
\* entries in its hand (which the lock does not prevent).
Related(x, y) == x.key = y.key \/ Barrier \in {x.key, y.key}
OrderUnlessRaced ==
  ~raced => \A p, q \in 1..Len(outbound) :
              \A i \in 1..Len(outbound[p]), j \in 1..Len(outbound[q]) :
                (p < q \/ (p = q /\ i < j)) /\ Related(outbound[p][i], outbound[q][j])
                  => outbound[p][i].n < outbound[q][j].n

\* Every admitted fragment reaches the outbound queue, unless the sender is closed.
EventuallyOut ==
  \A n \in 1..MaxSends :
    n <= count ~> closed \/ \E i \in 1..Len(outbound) : \E h \in 1..Len(outbound[i]) : outbound[i][h].n = n
==============================================================================
