-------------------------- MODULE DeltaBufferProofs --------------------------
(***************************************************************************)
(* Type correctness of DeltaBuffer; that no fragment can be left in a      *)
(* buffer without a flush on its way; that no fragment is lost or          *)
(* duplicated, by following every item number through buffers, hands,      *)
(* callbacks and the outbound queue; and that related items leave in the   *)
(* order in which they were admitted as long as no thread took the lock    *)
(* while another had entries in its hand.  All of it for any threads,      *)
(* keys and limits.                                                        *)
(***************************************************************************)
EXTENDS DeltaBuffer, TLAPS, FiniteSetTheorems

\* The loop never calls send(), a non-empty buffer has the flag set, and the flag
\* stands for a flush that is on its way.
FlushInv ==
  /\ sending[Loop] = NoSend
  /\ \A k \in Keys : buffers[k] # <<>> => scheduled
  /\ scheduled => \/ closed \/ timers > 0 \/ pc[Loop] = "lock"
                  \/ \E i \in 1..Len(ready) : ready[i].op = "schedule"

LEMMA Appended ==
  ASSUME NEW S, NEW q \in Seq(S), NEW m \in S
  PROVE  /\ Append(q, m) \in Seq(S) /\ Len(Append(q, m)) = Len(q) + 1 /\ Append(q, m) # <<>>
         /\ Append(q, m)[Len(q) + 1] = m /\ \A i \in 1..Len(q) : Append(q, m)[i] = q[i]
  OBVIOUS

LEMMA Elements ==
  ASSUME NEW S, NEW q \in Seq(S)
  PROVE  (\A j \in 1..Len(q) : q[j] \in S) /\ (q # <<>> => Head(q) \in S /\ Tail(q) \in Seq(S))
  OBVIOUS

LEMMA ItemEntry == TypeOK => \A k \in Keys \cup {Barrier} : Item(k) \in Items /\ <<Item(k)>> \in Entries
  BY DEF TypeOK, Item, Items, Entries

LEMMA CallableTypes ==
  TypeOK => /\ Schedule \in [op : {"put", "schedule"}, items : Entries]
            /\ \A e \in Entries : PutCall(e) \in [op : {"put", "schedule"}, items : Entries]
  BY DEF Schedule, PutCall, Entries

LEMMA AddFragmentTypes == ASSUME TypeOK, NEW t \in Threads, AddFragment(t) PROVE TypeOK'
<1> DEFINE k == sending[t]
           entry == Append(buffers[k], Item(k))
<1>1. k \in Keys /\ Item(k) \in Items /\ buffers[k] \in Entries
  BY ItemEntry DEF AddFragment, TypeOK
<1>2. entry \in Entries /\ Len(entry) = Len(buffers[k]) + 1
  BY <1>1, Appended DEF Entries
<1>3. scheduled' \in BOOLEAN /\ ready' \in Seq([op : {"put", "schedule"}, items : Entries])
  <2>1. /\ ready \in Seq([op : {"put", "schedule"}, items : Entries]) /\ scheduled \in BOOLEAN
        /\ Schedule \in [op : {"put", "schedule"}, items : Entries]
    BY CallableTypes DEF TypeOK
  <2>2. Append(ready, Schedule) \in Seq([op : {"put", "schedule"}, items : Entries])
    BY <2>1, Appended
  <2>3. ScheduleFlush(k)
    BY DEF AddFragment
  <2>4. QED
    BY <2>1, <2>2, <2>3 DEF ScheduleFlush
<1>4. /\ buffers' \in [Keys -> Entries] /\ \A l \in TextKeys : Len(buffers'[l]) < MaxChars
      /\ hand' \in [Threads -> SUBSET Entries] /\ pc' \in [Threads -> {"idle", "lock", "put"}]
  <2> HIDE DEF entry
  <2>0. k \notin TextKeys => k \in FileKeys
    BY <1>1 DEF Keys
  <2>1. CASE /\ buffers' = [buffers EXCEPT ![k] = <<>>]
             /\ hand' = [hand EXCEPT ![t] = {entry}]
             /\ pc' = [pc EXCEPT ![t] = "put"]
    BY <1>1, <1>2, <2>1, BufferConstants DEF TypeOK, Entries, Keys
  <2>2. CASE /\ k \in FileKeys \/ Len(entry) < MaxChars
             /\ buffers' = [buffers EXCEPT ![k] = entry]
             /\ pc' = [pc EXCEPT ![t] = "idle"] /\ UNCHANGED hand
    BY <1>1, <1>2, <2>2, BufferConstants DEF TypeOK, Keys
  <2>3. QED
    BY <2>1, <2>2 DEF AddFragment, entry
<1>5. /\ count' \in Nat /\ sending' \in [Threads -> Keys \cup {Barrier, NoSend}]
  BY DEF AddFragment, TypeOK
<1>6. raced' \in BOOLEAN
  <2>1. raced' = (raced \/ OthersHold(t)) /\ OthersHold(t) \in BOOLEAN /\ raced \in BOOLEAN
    BY DEF AddFragment, OthersHold, TypeOK
  <2>2. QED
    BY ONLY <2>1, Zenon
<1>7. UNCHANGED <<closed, timers, outbound, ending, sends>>
  BY DEF AddFragment
<1>8. QED
  BY <1>3, <1>4, <1>5, <1>6, <1>7 DEF TypeOK, ending

LEMMA FlushAllTypes == ASSUME TypeOK, NEW t \in Threads, FlushAll(t) PROVE TypeOK'
<1>1. Buffered \subseteq Entries /\ <<Item(Barrier)>> \in Entries
  BY ItemEntry DEF Buffered, TypeOK
<1>2. buffers' \in [Keys -> Entries] /\ \A l \in TextKeys : Len(buffers'[l]) < MaxChars
  <2>1. <<>> \in Entries /\ Len(<<>>) < MaxChars
    BY BufferConstants DEF Entries
  <2>2. buffers' = [k \in Keys |-> <<>>]
    BY DEF FlushAll, EmptyBuffers
  <2>3. QED
    BY <2>1, <2>2 DEF Keys
<1>3. scheduled' \in BOOLEAN
  BY DEF FlushAll, EmptyBuffers
<1>4. hand' \in [Threads -> SUBSET Entries] /\ count' \in Nat
  <2>1. hand \in [Threads -> SUBSET Entries] /\ count \in Nat
    BY DEF TypeOK
  <2>2. Buffered \cup {<<Item(Barrier)>>} \subseteq Entries
    BY <1>1
  <2>3. PICK taken \in SUBSET Entries : hand' = [hand EXCEPT ![t] = taken]
    BY <1>1, <2>2 DEF FlushAll
  <2>4. count' = count + 1 \/ count' = count
    BY DEF FlushAll
  <2>5. QED
    BY <2>1, <2>3, <2>4
<1>5. closeTook' \subseteq Entries
  BY <1>1 DEF FlushAll, TypeOK
<1>6. pc' \in [Threads -> {"idle", "lock", "put"}] /\ sending' \in [Threads -> Keys \cup {Barrier, NoSend}]
  BY DEF FlushAll, TypeOK
<1>7. raced' \in BOOLEAN
  <2>1. raced' = (raced \/ OthersHold(t)) /\ OthersHold(t) \in BOOLEAN /\ raced \in BOOLEAN
    BY DEF FlushAll, OthersHold, TypeOK
  <2>2. QED
    BY ONLY <2>1, Zenon
<1>8. UNCHANGED <<closed, ready, timers, outbound, closing, drain, awaited, sends>>
  BY DEF FlushAll
<1>9. QED
  BY <1>2, <1>3, <1>4, <1>5, <1>6, <1>7, <1>8 DEF TypeOK

LEMMA PutTypes == ASSUME TypeOK, NEW t \in Threads, PutNext(t) \/ PutsDone(t) PROVE TypeOK'
<1>1. CASE PutNext(t)
  <2>1. PICK e \in hand[t] : /\ hand' = [hand EXCEPT ![t] = hand[t] \ {e}]
                             /\ ready' = IF closed THEN ready ELSE Append(ready, PutCall(e))
    BY <1>1 DEF PutNext
  <2>2. e \in Entries
    BY DEF TypeOK
  <2>3. ready' \in Seq([op : {"put", "schedule"}, items : Entries])
    BY <2>1, <2>2, CallableTypes, Appended DEF TypeOK
  <2>4. QED
    BY <1>1, <2>1, <2>3 DEF PutNext, TypeOK, locked, ending
<1>2. CASE PutsDone(t)
  BY <1>2 DEF PutsDone, TypeOK, locked
<1>3. QED
  BY <1>1, <1>2

LEMMA LoopTypes ==
  ASSUME TypeOK, RunCallback \/ TimerFires \/ Close \/ Drain \/ DrainEnds PROVE TypeOK'
<1>0. Loop \in Threads
  BY DEF Threads
<1>1. CASE RunCallback
  <2>0. /\ ready \in Seq([op : {"put", "schedule"}, items : Entries]) /\ ready # <<>>
        /\ ready' = Tail(ready) /\ outbound \in Seq(Entries) /\ awaited \subseteq Entries
    BY <1>1 DEF RunCallback, TypeOK
  <2>a. Head(ready) \in [op : {"put", "schedule"}, items : Entries]
    BY ONLY <2>0, Elements
  <2>1. /\ ready' \in Seq([op : {"put", "schedule"}, items : Entries])
        /\ Head(ready).items \in Entries
    BY <2>0, <2>a
  <2>b. Append(outbound, Head(ready).items) \in Seq(Entries)
    BY <2>0, <2>1, Appended
  <2>2. outbound' \in Seq(Entries) /\ awaited' \subseteq Entries
    BY <1>1, <2>0, <2>b DEF RunCallback
  <2>3. timers' \in Nat
    BY <1>1 DEF RunCallback, TypeOK
  <2>4. QED
    BY <1>1, <2>1, <2>2, <2>3 DEF RunCallback, TypeOK, locked, threads
<1>2. CASE TimerFires
  BY <1>0, <1>2 DEF TimerFires, TypeOK, locked, ending
<1>3. CASE Close
  BY <1>0, <1>3 DEF Close, TypeOK, locked
<1>4. CASE Drain
  <2>0. ready \in Seq([op : {"put", "schedule"}, items : Entries])
    BY DEF TypeOK
  <2>a. \A j \in 1..Len(ready) : ready[j] \in [op : {"put", "schedule"}, items : Entries]
    BY ONLY <2>0, Elements
  <2>1. \A j \in 1..Len(ready) : ready[j].items \in Entries
    BY <2>a
  <2>2. QED
    BY <1>4, <2>1 DEF Drain, TypeOK, locked, threads
<1>5. CASE DrainEnds
  BY <1>5 DEF DrainEnds, TypeOK, locked, threads
<1>6. QED
  BY <1>1, <1>2, <1>3, <1>4, <1>5

LEMMA CallTypes == ASSUME TypeOK, NEW t \in Senders, Call(t) PROVE TypeOK'
  BY DEF Call, TypeOK, Threads, locked, ending

\* The state of the sender is well typed; in particular a text buffer never reaches
\* the size at which it must be handed over (delta_buffer.py send).
THEOREM BufferTypeCorrect == Spec => []TypeOK
<1>1. Init => TypeOK
  <2>1. <<>> \in Entries /\ Len(<<>>) < MaxChars /\ <<>> \in Seq(Entries)
        /\ <<>> \in Seq([op : {"put", "schedule"}, items : Entries])
    BY BufferConstants DEF Entries
  <2>2. ASSUME Init PROVE TypeOK
    BY <2>1, <2>2, BufferConstants DEF Init, TypeOK, Keys
  <2>3. QED
    BY <2>2
<1>2. TypeOK /\ [Next]_vars => TypeOK'
  <2> SUFFICES ASSUME TypeOK, [Next]_vars PROVE TypeOK'
    OBVIOUS
  <2>1. CASE UNCHANGED vars
    BY <2>1 DEF vars, locked, threads, ending, TypeOK
  <2>2. QED
    BY <2>1, AddFragmentTypes, FlushAllTypes, PutTypes, LoopTypes, CallTypes DEF Next, Step
<1>3. QED
  BY <1>1, <1>2, PTL DEF Spec

LEMMA FlushStep == TypeOK /\ FlushInv /\ [Next]_vars => FlushInv'
<1> SUFFICES ASSUME TypeOK, FlushInv, [Next]_vars PROVE FlushInv'
  OBVIOUS
<1>0. Loop \in Threads /\ Loop \notin Senders /\ NoSend \notin Keys
  BY BufferConstants DEF Threads
<1>1. ASSUME NEW t \in Senders, Call(t) PROVE FlushInv'
  BY <1>0, <1>1 DEF Call, FlushInv, TypeOK, Threads, locked
<1>2. ASSUME NEW t \in Threads, AddFragment(t) PROVE FlushInv'
  <2>1. t # Loop /\ sending[t] \in Keys
    BY <1>0, <1>2 DEF AddFragment, FlushInv
  <2>2. sending'[Loop] = NoSend /\ pc'[Loop] = pc[Loop] /\ UNCHANGED <<closed, timers>>
    BY <1>0, <1>2, <2>1 DEF AddFragment, FlushInv, TypeOK
  <2>3. \A k \in Keys : k # sending[t] => buffers'[k] = buffers[k]
    BY <1>2 DEF AddFragment, TypeOK
  <2>4. CASE scheduled' = TRUE /\ ready' = Append(ready, Schedule)
    <3>1. /\ ready \in Seq([op : {"put", "schedule"}, items : Entries])
          /\ Schedule \in [op : {"put", "schedule"}, items : Entries]
      BY CallableTypes DEF TypeOK
    <3>2. Len(ready') = Len(ready) + 1 /\ ready'[Len(ready) + 1] = Schedule /\ Len(ready) \in Nat
      BY <2>4, <3>1, Appended
    <3>3. \E i \in 1..Len(ready') : ready'[i].op = "schedule"
      BY <3>2 DEF Schedule
    <3>4. QED
      BY <2>2, <2>4, <3>3 DEF FlushInv
  <2>5. CASE (buffers[sending[t]] # <<>> \/ scheduled) /\ UNCHANGED <<scheduled, ready>>
    BY <2>1, <2>2, <2>3, <2>5 DEF FlushInv
  <2>6. QED
    BY <1>2, <2>4, <2>5 DEF AddFragment, ScheduleFlush
<1>3. ASSUME NEW t \in Threads, FlushAll(t) PROVE FlushInv'
  BY <1>0, <1>3 DEF FlushAll, EmptyBuffers, FlushInv, TypeOK
<1>4. ASSUME NEW t \in Threads, PutNext(t) PROVE FlushInv'
  <2>1. PICK e \in hand[t] : ready' = IF closed THEN ready ELSE Append(ready, PutCall(e))
    BY <1>4 DEF PutNext
  <2>2. /\ ready \in Seq([op : {"put", "schedule"}, items : Entries])
        /\ PutCall(e) \in [op : {"put", "schedule"}, items : Entries]
    BY CallableTypes DEF TypeOK
  <2>3. ready' = ready \/ (Len(ready') = Len(ready) + 1 /\ \A i \in 1..Len(ready) : ready'[i] = ready[i])
    BY <2>1, <2>2, Appended
  <2>4. Len(ready) \in Nat
    BY <2>2
  <2>5. (\E i \in 1..Len(ready) : ready[i].op = "schedule")
          => \E i \in 1..Len(ready') : ready'[i].op = "schedule"
    BY <2>3, <2>4
  <2>6. UNCHANGED <<buffers, scheduled, sending, closed, timers, pc>>
    BY <1>4 DEF PutNext, locked
  <2>7. QED
    BY <2>5, <2>6 DEF FlushInv
<1>5. ASSUME NEW t \in Threads, PutsDone(t) PROVE FlushInv'
  <2>1. pc[Loop] = "lock" => pc'[Loop] = "lock"
    BY <1>0, <1>5 DEF PutsDone, TypeOK
  <2>2. closed => closed'
    BY <1>5 DEF PutsDone
  <2>3. UNCHANGED <<buffers, scheduled, sending, timers, ready>>
    BY <1>5 DEF PutsDone, locked
  <2>4. QED
    BY <2>1, <2>2, <2>3 DEF FlushInv
<1>6. CASE RunCallback
  <2>1. /\ ready \in Seq([op : {"put", "schedule"}, items : Entries]) /\ ready # <<>>
        /\ ready' = Tail(ready) /\ timers \in Nat
    BY <1>6 DEF RunCallback, TypeOK
  <2>2. UNCHANGED <<buffers, scheduled, sending, closed, pc>>
    BY <1>6 DEF RunCallback, locked, threads
  <2>3. CASE ready[1].op = "schedule"
    BY <1>6, <2>1, <2>2, <2>3 DEF RunCallback, FlushInv
  <2>4. CASE ready[1].op # "schedule"
    <3>1. UNCHANGED timers
      BY <1>6, <2>1, <2>4 DEF RunCallback
    <3>2. \A i \in 1..Len(ready) : ready[i].op = "schedule" => i - 1 \in 1..Len(ready') /\ ready'[i - 1] = ready[i]
      BY <2>1, <2>4
    <3>3. QED
      BY <2>2, <3>1, <3>2 DEF FlushInv
  <2>5. QED
    BY <2>3, <2>4
<1>7. CASE TimerFires \/ Close
  BY <1>0, <1>7 DEF TimerFires, Close, FlushInv, TypeOK, locked
<1>8. CASE Drain \/ DrainEnds \/ UNCHANGED vars
  BY <1>8 DEF Drain, DrainEnds, vars, FlushInv, locked, threads
<1>9. QED
  BY <1>1, <1>2, <1>3, <1>4, <1>5, <1>6, <1>7, <1>8 DEF Next, Step

\* No fragment is stranded: as long as the sender is open, a fragment in a buffer has a
\* flush on its way (delta_buffer.py _schedule_flush_locked, flush_all), whatever the
\* threads that send do.
THEOREM BufferedIsFlushed == Spec => []FlushArmed
<1>1. Init => FlushInv
  BY DEF Init, FlushInv, Threads
<1>2. FlushInv => FlushArmed
  BY DEF FlushInv, FlushArmed
<1>3. QED
  BY <1>1, <1>2, FlushStep, BufferTypeCorrect, PTL DEF Spec

------------------------------------------------------------------------------
(* Where an item is                                                        *)

Buffering(n) == \E k \in Keys : In(n, buffers[k])
Handed(n)    == \E t \in Threads : \E e \in hand[t] : In(n, e)
Due(n)       == \E i \in 1..Len(ready) : In(n, ready[i].items)
Out(n)       == \E i \in 1..Len(outbound) : In(n, outbound[i])
Somewhere(n) == Buffering(n) \/ Handed(n) \/ Due(n) \/ Out(n)

\* At no two positions of one kind, and not at positions of two kinds.
OneBuffer(n) == \A k, l \in Keys : In(n, buffers[k]) /\ In(n, buffers[l]) => k = l
OneHand(n)   == \A t, u \in Threads : \A e \in hand[t], d \in hand[u] :
                  In(n, e) /\ In(n, d) => t = u /\ e = d
OneDue(n)    == \A i, j \in 1..Len(ready) : In(n, ready[i].items) /\ In(n, ready[j].items) => i = j
OneOut(n)    == \A i, j \in 1..Len(outbound) : In(n, outbound[i]) /\ In(n, outbound[j]) => i = j
OneKind(n)   == /\ (Buffering(n) => ~Handed(n) /\ ~Due(n) /\ ~Out(n))
                /\ (Handed(n) => ~Due(n) /\ ~Out(n))
                /\ (Due(n) => ~Out(n))
OnePlace(n)  == OneBuffer(n) /\ OneHand(n) /\ OneDue(n) /\ OneOut(n) /\ OneKind(n)
Placed(n)    == /\ OnePlace(n)
                /\ (n \notin 1..count => ~Somewhere(n))
                /\ (n \in 1..count /\ ~closed => Somewhere(n))

\* A buffer holds items of its key, in the order of their numbers.
BufferSorted(k) == /\ Len(buffers[k]) <= count
                   /\ \A i \in 1..Len(buffers[k]) : buffers[k][i].key = k
                   /\ \A i, j \in 1..Len(buffers[k]) : i < j => buffers[k][i].n < buffers[k][j].n

PlacesInv ==
  /\ \A n \in Nat : Placed(n)
  /\ \A k \in Keys : BufferSorted(k)
  /\ \A t \in Threads : pc[t] # "put" => hand[t] = {}
  /\ \A i \in 1..Len(ready) : ready[i].op = "schedule" => ready[i].items = <<>>

\* What close() flushed is in the hand of the loop, until close() is done, or further on;
\* drain() waits for those entries that are not out yet.
IsDue(e) == \E i \in 1..Len(ready) : ready[i].op = "put" /\ ready[i].items = e
IsOut(e) == \E i \in 1..Len(outbound) : outbound[i] = e
CloseInv ==
  /\ closing = "no" => ~closed /\ closeTook = {} /\ drain = "no"
  /\ closing = "running" => ~closed /\ pc[Loop] # "idle" /\ (pc[Loop] = "lock" => closeTook = {}) /\ drain = "no"
  /\ \A e \in closeTook : (closing = "running" /\ e \in hand[Loop]) \/ IsDue(e) \/ IsOut(e)
  /\ drain = "waiting" => \A e \in closeTook : e \in awaited \/ IsOut(e)
  /\ drain = "done" => \A e \in closeTook : IsOut(e)

LEMMA InAppended ==
  ASSUME NEW e \in Entries, NEW x \in Items
  PROVE  /\ Append(e, x) \in Entries /\ Append(e, x) # <<>>
         /\ (\A n : In(n, Append(e, x)) <=> In(n, e) \/ n = x.n)
<1>1. /\ Append(e, x) \in Entries /\ Append(e, x) # <<>> /\ Len(Append(e, x)) = Len(e) + 1 /\ Len(e) \in Nat
      /\ Append(e, x)[Len(e) + 1] = x /\ \A i \in 1..Len(e) : Append(e, x)[i] = e[i]
  BY DEF Entries
<1>2. \A n : In(n, e) => In(n, Append(e, x))
  BY <1>1 DEF In
<1>3. In(x.n, Append(e, x))
  <2>1. Len(e) + 1 \in 1..Len(Append(e, x))
    BY <1>1
  <2>2. QED
    BY <1>1, <2>1 DEF In
<1>4. ASSUME NEW n, In(n, Append(e, x)) PROVE In(n, e) \/ n = x.n
  <2>1. PICK i \in 1..Len(Append(e, x)) : Append(e, x)[i].n = n
    BY <1>4 DEF In
  <2>2. i \in 1..Len(e) \/ i = Len(e) + 1
    BY <1>1
  <2>3. QED
    BY <1>1, <2>1, <2>2 DEF In
<1>5. QED
  BY <1>1, <1>2, <1>3, <1>4

LEMMA InNothing == \A n : ~In(n, <<>>)
  BY DEF In

\* A timer request carries no item.
LEMMA DueSame ==
  ASSUME TypeOK, ready' = ready \/ ready' = Append(ready, Schedule)
  PROVE  /\ \A n : Due(n)' <=> Due(n)
         /\ \A n : OneDue(n) => OneDue(n)'
<1>1. /\ ready \in Seq([op : {"put", "schedule"}, items : Entries])
      /\ Schedule \in [op : {"put", "schedule"}, items : Entries] /\ Schedule.items = <<>>
  BY CallableTypes DEF TypeOK, Schedule
<1>2. CASE ready' = ready
  BY <1>2 DEF Due, OneDue
<1>3. CASE ready' = Append(ready, Schedule)
  <2>1. /\ Len(ready') = Len(ready) + 1 /\ ready'[Len(ready) + 1] = Schedule /\ Len(ready) \in Nat
        /\ \A i \in 1..Len(ready) : ready'[i] = ready[i]
    BY <1>1, <1>3, Appended
  <2>2. \A n : \A i \in 1..Len(ready') : In(n, ready'[i].items) => i \in 1..Len(ready) /\ In(n, ready[i].items)
    BY <1>1, <2>1, InNothing
  <2>3. \A i \in 1..Len(ready) : i \in 1..Len(ready')
    BY <2>1
  <2>4. QED
    BY <2>1, <2>2, <2>3 DEF Due, OneDue
<1>4. QED
  BY <1>2, <1>3

LEMMA PlacesAdd ==
  ASSUME TypeOK, PlacesInv, NEW t \in Threads, AddFragment(t)
  PROVE  PlacesInv'
<1>0. PICK k \in Keys : k = sending[t]
  BY DEF AddFragment
<1> DEFINE new == Item(k)
           entry == Append(buffers[k], new)
<1>1. /\ k \in Keys /\ new \in Items /\ buffers[k] \in Entries /\ new.n = count + 1 /\ new.key = k
      /\ pc[t] = "lock" /\ count \in Nat /\ count' = count + 1 /\ ScheduleFlush(k) /\ UNCHANGED <<closed, outbound>>
  BY <1>0, ItemEntry DEF AddFragment, TypeOK, Item
<1>2. entry \in Entries /\ \A n : In(n, entry) <=> In(n, buffers[k]) \/ n = count + 1
  BY <1>1, InAppended
<1>3. \/ /\ buffers' = [buffers EXCEPT ![k] = <<>>] /\ hand' = [hand EXCEPT ![t] = {entry}]
         /\ pc' = [pc EXCEPT ![t] = "put"]
      \/ /\ buffers' = [buffers EXCEPT ![k] = entry]
         /\ pc' = [pc EXCEPT ![t] = "idle"] /\ UNCHANGED hand
  BY <1>0 DEF AddFragment
<1>4. ready' = ready \/ ready' = Append(ready, Schedule)
  BY <1>1 DEF ScheduleFlush
<1>5. hand[t] = {}
  BY <1>1 DEF PlacesInv
<1>6. /\ Len(entry) = Len(buffers[k]) + 1 /\ Len(buffers[k]) \in Nat /\ entry[Len(buffers[k]) + 1] = new
      /\ \A i \in 1..Len(buffers[k]) : entry[i] = buffers[k][i] /\ buffers[k][i] \in Items
  BY <1>1, Appended, Elements DEF Entries
<1>7. \A n : (Due(n)' <=> Due(n)) /\ (OneDue(n) => OneDue(n)') /\ (Out(n)' <=> Out(n)) /\ (OneOut(n) => OneOut(n)')
  BY <1>1, <1>4, DueSame DEF Out, OneOut
<1>8. /\ count + 1 \in Nat /\ ~Somewhere(count + 1) /\ \A n \in Nat : Placed(n)
      /\ \A n \in Nat : n \in 1..(count + 1) <=> n \in 1..count \/ n = count + 1
  <2>1. /\ count + 1 \in Nat /\ count + 1 \notin 1..count
        /\ \A n \in Nat : n \in 1..(count + 1) <=> n \in 1..count \/ n = count + 1
    BY <1>1
  <2>2. QED
    BY <2>1 DEF PlacesInv, Placed
<1> HIDE DEF entry, new
<1>9. /\ \A u \in Threads : pc'[u] # "put" => hand'[u] = {}
      /\ \A i \in 1..Len(ready') : ready'[i].op = "schedule" => ready'[i].items = <<>>
  <2>1. \A u \in Threads : pc'[u] # "put" => hand'[u] = {}
    BY <1>1, <1>3, <1>5 DEF PlacesInv, TypeOK
  <2>2. /\ ready \in Seq([op : {"put", "schedule"}, items : Entries])
        /\ Schedule \in [op : {"put", "schedule"}, items : Entries]
    BY CallableTypes DEF TypeOK
  <2>3. CASE ready' = Append(ready, Schedule)
    <3>1. /\ Len(ready') = Len(ready) + 1 /\ ready'[Len(ready) + 1] = Schedule /\ Len(ready) \in Nat
          /\ \A i \in 1..Len(ready) : ready'[i] = ready[i]
      BY <2>2, <2>3, Appended
    <3>2. Schedule.items = <<>>
      BY DEF Schedule
    <3>3. QED
      BY <2>1, <3>1, <3>2 DEF PlacesInv
  <2>4. QED
    BY <1>4, <2>1, <2>3 DEF PlacesInv
<1>10. CASE /\ buffers' = [buffers EXCEPT ![k] = <<>>] /\ hand' = [hand EXCEPT ![t] = {entry}]
  <2>1. \A l \in Keys : buffers'[l] = IF l = k THEN <<>> ELSE buffers[l]
    BY <1>1, <1>10 DEF TypeOK
  <2>2. \A u \in Threads : hand'[u] = IF u = t THEN {entry} ELSE hand[u]
    BY <1>10 DEF TypeOK
  <2>3. \A n : Buffering(n)' <=> \E l \in Keys : l # k /\ In(n, buffers[l])
    BY <2>1, InNothing DEF Buffering
  <2>4. \A n : Handed(n)' <=> Handed(n) \/ In(n, buffers[k]) \/ n = count + 1
    BY <1>2, <1>5, <2>2 DEF Handed
  <2>5. ASSUME NEW n \in Nat PROVE Placed(n)'
    <3>1. OneBuffer(n)'
      BY <1>8, <2>1, InNothing DEF Placed, OnePlace, OneBuffer
    <3>2. OneHand(n)'
      BY <1>1, <1>2, <1>5, <1>8, <2>2 DEF Placed, OnePlace, OneHand, OneKind, Handed, Buffering, Somewhere
    <3>3. OneKind(n)'
      BY <1>1, <1>7, <1>8, <2>3, <2>4 DEF Placed, OnePlace, OneKind, OneBuffer, Buffering, Somewhere
    <3>4. /\ n \notin 1..count' => ~Somewhere(n)'
          /\ n \in 1..count' /\ ~closed' => Somewhere(n)'
      BY <1>1, <1>7, <1>8, <2>3, <2>4 DEF Placed, Buffering, Somewhere
    <3>5. QED
      BY <1>7, <1>8, <3>1, <3>2, <3>3, <3>4 DEF Placed, OnePlace
  <2>6. \A l \in Keys : BufferSorted(l)'
    <3>1. Len(<<>>) = 0 /\ \A l \in Keys : Len(buffers[l]) \in Nat
      BY DEF TypeOK, Entries
    <3>2. QED
      BY <1>1, <2>1, <3>1 DEF PlacesInv, BufferSorted
  <2>7. QED
    BY <1>9, <2>5, <2>6 DEF PlacesInv
<1>11. CASE buffers' = [buffers EXCEPT ![k] = entry] /\ UNCHANGED hand
  <2>1. \A l \in Keys : buffers'[l] = IF l = k THEN entry ELSE buffers[l]
    BY <1>1, <1>11 DEF TypeOK
  <2>2. \A n : Buffering(n)' <=> Buffering(n) \/ n = count + 1
    BY <1>1, <1>2, <2>1 DEF Buffering
  <2>3. \A n : (Handed(n)' <=> Handed(n)) /\ (OneHand(n) => OneHand(n)')
    BY <1>11 DEF Handed, OneHand
  <2>4. ASSUME NEW n \in Nat PROVE Placed(n)'
    <3>1. OneBuffer(n)'
      BY <1>2, <1>8, <2>1 DEF Placed, OnePlace, OneBuffer, Buffering, Somewhere
    <3>2. OneKind(n)'
      BY <1>7, <1>8, <2>2, <2>3 DEF Placed, OnePlace, OneKind, Somewhere
    <3>3. /\ n \notin 1..count' => ~Somewhere(n)'
          /\ n \in 1..count' /\ ~closed' => Somewhere(n)'
      BY <1>1, <1>7, <1>8, <2>2, <2>3 DEF Placed, Somewhere
    <3>4. QED
      BY <1>7, <1>8, <2>3, <3>1, <3>2, <3>3 DEF Placed, OnePlace
  <2>5. \A i \in 1..Len(buffers[k]) : buffers[k][i].n \in 1..count
    <3>1. \A i \in 1..Len(buffers[k]) : Somewhere(buffers[k][i].n) /\ buffers[k][i].n \in Nat
      BY <1>1, <1>6 DEF Somewhere, Buffering, In, Items
    <3>2. QED
      BY <1>8, <3>1 DEF Placed
  <2>6. BufferSorted(k)'
    <3>1. \A i \in 1..Len(entry) : i \in 1..Len(buffers[k]) \/ i = Len(buffers[k]) + 1
      BY <1>6
    <3>2. BufferSorted(k)
      BY <1>1 DEF PlacesInv
    <3>3. \A i \in 1..Len(entry) : entry[i].key = k
      BY <1>1, <1>6, <3>1, <3>2 DEF BufferSorted
    <3>4. ASSUME NEW i \in 1..Len(entry), NEW j \in 1..Len(entry), i < j PROVE entry[i].n < entry[j].n
      <4>1. i \in 1..Len(buffers[k]) /\ entry[i] = buffers[k][i]
        BY <1>6, <3>1, <3>4
      <4>2. CASE j \in 1..Len(buffers[k])
        BY <1>6, <3>2, <3>4, <4>1, <4>2 DEF BufferSorted
      <4>3. CASE j = Len(buffers[k]) + 1
        BY <1>1, <1>6, <2>5, <4>1, <4>3
      <4>4. QED
        BY <3>1, <4>2, <4>3
    <3>5. Len(entry) <= count + 1
      BY <1>1, <1>6, <3>2 DEF BufferSorted
    <3>6. QED
      BY <1>1, <2>1, <3>3, <3>4, <3>5 DEF BufferSorted
  <2>7. ASSUME NEW l \in Keys, l # k PROVE BufferSorted(l)'
    <3>1. Len(buffers[l]) \in Nat /\ buffers'[l] = buffers[l] /\ BufferSorted(l)
      BY <2>1, <2>7 DEF TypeOK, Entries, PlacesInv
    <3>2. Len(buffers[l]) <= count'
      BY <1>1, <3>1 DEF BufferSorted
    <3>3. QED
      BY <3>1, <3>2 DEF BufferSorted
  <2>8. QED
    BY <1>9, <2>4, <2>6, <2>7 DEF PlacesInv
<1>12. QED
  BY <1>3, <1>10, <1>11

LEMMA PlacesFlush ==
  ASSUME TypeOK, FlushInv, PlacesInv, NEW t \in Threads, FlushAll(t)
  PROVE  PlacesInv'
<1>1. /\ pc[t] = "lock" /\ hand[t] = {} /\ pc' = [pc EXCEPT ![t] = "put"] /\ count \in Nat
      /\ buffers' = [k \in Keys |-> <<>>] /\ UNCHANGED <<closed, ready, outbound>>
  BY DEF FlushAll, EmptyBuffers, PlacesInv, TypeOK
<1>2. PICK barrier \in SUBSET {<<Item(Barrier)>>} :
        /\ \A u \in Threads : hand'[u] = IF u = t THEN Buffered \cup barrier ELSE hand[u]
        /\ count' = IF barrier = {} THEN count ELSE count + 1
        /\ barrier = {} \/ barrier = {<<Item(Barrier)>>}
  <2>1. CASE count' = count + 1 /\ hand' = [hand EXCEPT ![t] = Buffered \cup {<<Item(Barrier)>>}]
    BY <2>1 DEF TypeOK
  <2>2. CASE count' = count /\ hand' = [hand EXCEPT ![t] = Buffered]
    BY <2>2 DEF TypeOK
  <2>3. QED
    BY <2>1, <2>2 DEF FlushAll
<1>3. \A b \in barrier : \A n : In(n, b) <=> n = count + 1
  <2>1. Len(<<Item(Barrier)>>) = 1 /\ <<Item(Barrier)>>[1] = Item(Barrier) /\ Item(Barrier).n = count + 1
    BY DEF Item
  <2>2. QED
    BY <2>1 DEF In
<1>4. \A n : (\E b \in Buffered : In(n, b)) <=> Buffering(n)
  BY InNothing DEF Buffered, Buffering
<1>5. \A n : (Due(n)' <=> Due(n)) /\ (OneDue(n) => OneDue(n)') /\ (Out(n)' <=> Out(n)) /\ (OneOut(n) => OneOut(n)')
  BY <1>1 DEF Due, OneDue, Out, OneOut
<1>6. \A n : ~Buffering(n)' /\ OneBuffer(n)'
  BY <1>1, InNothing DEF Buffering, OneBuffer
<1>7. \A n : Handed(n)' <=> Handed(n) \/ Buffering(n) \/ (barrier # {} /\ n = count + 1)
  <2>1. \A n : Handed(n)' <=> (\E b \in Buffered \cup barrier : In(n, b)) \/ Handed(n)
    BY <1>1, <1>2 DEF Handed
  <2>2. QED
    BY <1>3, <1>4, <2>1
<1>8. /\ count + 1 \in Nat /\ ~Somewhere(count + 1) /\ \A n \in Nat : Placed(n)
      /\ \A n \in Nat : n \in 1..(count + 1) <=> n \in 1..count \/ n = count + 1
  <2>1. /\ count + 1 \in Nat /\ count + 1 \notin 1..count
        /\ \A n \in Nat : n \in 1..(count + 1) <=> n \in 1..count \/ n = count + 1
    BY <1>1
  <2>2. QED
    BY <2>1 DEF PlacesInv, Placed
<1>9. ASSUME NEW n \in Nat PROVE Placed(n)'
  <2>1. \A b, d \in Buffered \cup barrier : In(n, b) /\ In(n, d) => b = d
    <3>1. \A b, d \in Buffered : In(n, b) /\ In(n, d) => b = d
      BY <1>8 DEF Buffered, Placed, OnePlace, OneBuffer
    <3>2. \A b \in Buffered : ~In(count + 1, b)
      BY <1>4, <1>8 DEF Somewhere
    <3>3. QED
      BY <1>2, <1>3, <3>1, <3>2
  <2>2. (\E b \in Buffered \cup barrier : In(n, b)) => ~Handed(n)
    BY <1>3, <1>4, <1>8 DEF Placed, OnePlace, OneKind, Somewhere
  <2>3. OneHand(n)
    BY <1>8 DEF Placed, OnePlace
  <2>4. OneHand(n)'
    BY <1>1, <1>2, <2>1, <2>2, <2>3 DEF OneHand, Handed
  <2>5. OneKind(n)'
    BY <1>5, <1>6, <1>7, <1>8 DEF Placed, OnePlace, OneKind, Somewhere
  <2>6. (n \notin 1..count' => ~Somewhere(n)') /\ (n \in 1..count' /\ ~closed' => Somewhere(n)')
    BY <1>1, <1>2, <1>5, <1>6, <1>7, <1>8 DEF Placed, Somewhere
  <2>7. QED
    BY <1>5, <1>6, <1>8, <2>4, <2>5, <2>6 DEF Placed, OnePlace
<1>10. \A k \in Keys : BufferSorted(k)'
  <2>1. Len(<<>>) = 0 /\ count' \in Nat
    BY <1>1, <1>2
  <2>2. QED
    BY <1>1, <2>1 DEF BufferSorted
<1>11. /\ \A u \in Threads : pc'[u] # "put" => hand'[u] = {}
       /\ \A i \in 1..Len(ready') : ready'[i].op = "schedule" => ready'[i].items = <<>>
  BY <1>1, <1>2 DEF PlacesInv, TypeOK
<1>12. QED
  BY <1>9, <1>10, <1>11 DEF PlacesInv

LEMMA PlacesPut ==
  ASSUME TypeOK, PlacesInv, NEW t \in Threads, PutNext(t)
  PROVE  PlacesInv'
<1>1. PICK e \in hand[t] : /\ hand' = [hand EXCEPT ![t] = hand[t] \ {e}]
                           /\ ready' = IF closed THEN ready ELSE Append(ready, PutCall(e))
  BY DEF PutNext
<1>2. /\ pc[t] = "put" /\ UNCHANGED <<buffers, count, closed, pc, outbound>>
      /\ \A u \in Threads : hand'[u] = IF u = t THEN hand[t] \ {e} ELSE hand[u]
  BY <1>1 DEF PutNext, locked, TypeOK
<1>3. e \in Entries
  BY DEF TypeOK
<1>4. \A n \in Nat : Placed(n)
  BY DEF PlacesInv
<1>5. \A n : /\ (Buffering(n)' <=> Buffering(n)) /\ (OneBuffer(n) => OneBuffer(n)')
             /\ (Out(n)' <=> Out(n)) /\ (OneOut(n) => OneOut(n)')
             /\ (OneHand(n) => OneHand(n)') /\ (Handed(n)' => Handed(n))
             /\ (Handed(n) <=> Handed(n)' \/ In(n, e))
  BY <1>2 DEF Buffering, OneBuffer, Out, OneOut, OneHand, Handed
<1>6. ASSUME NEW n \in Nat PROVE In(n, e) /\ Handed(n)' => FALSE
  BY <1>2, <1>4 DEF Placed, OnePlace, OneHand, Handed
<1>7. (\A k \in Keys : BufferSorted(k)') /\ \A u \in Threads : pc'[u] # "put" => hand'[u] = {}
  BY <1>2 DEF PlacesInv, BufferSorted
<1>8. CASE closed
  <2>1. \A n : (Due(n)' <=> Due(n)) /\ (OneDue(n) => OneDue(n)')
    BY <1>1, <1>8 DEF Due, OneDue
  <2>2. ASSUME NEW n \in Nat PROVE Placed(n)'
    BY <1>2, <1>4, <1>5, <1>8, <2>1 DEF Placed, OnePlace, OneKind, Somewhere
  <2>3. QED
    BY <1>1, <1>7, <1>8, <2>2 DEF PlacesInv
<1>9. CASE ~closed
  <2>0. /\ ready \in Seq([op : {"put", "schedule"}, items : Entries])
        /\ PutCall(e) \in [op : {"put", "schedule"}, items : Entries] /\ PutCall(e).items = e /\ PutCall(e).op = "put"
    BY <1>3, CallableTypes DEF TypeOK, PutCall
  <2>1. /\ Len(ready') = Len(ready) + 1 /\ ready'[Len(ready) + 1].items = e /\ ready'[Len(ready) + 1].op = "put"
        /\ Len(ready) \in Nat /\ \A i \in 1..Len(ready) : ready'[i] = ready[i]
    BY <1>1, <1>9, <2>0, Appended
  <2>2. \A i \in 1..Len(ready') : i \in 1..Len(ready) \/ i = Len(ready) + 1
    BY <2>1
  <2>3. Len(ready) + 1 \in 1..Len(ready') /\ \A i \in 1..Len(ready) : i \in 1..Len(ready')
    BY <2>1
  <2>4. \A n : Due(n)' <=> Due(n) \/ In(n, e)
    BY <2>1, <2>2, <2>3 DEF Due
  <2>5. ASSUME NEW n \in Nat PROVE Placed(n)'
    <3>1. In(n, e) => ~Due(n) /\ ~Out(n) /\ ~Buffering(n)
      BY <1>4 DEF Placed, OnePlace, OneKind, Handed
    <3>2. OneDue(n)'
      BY <1>4, <2>1, <2>2, <3>1 DEF Placed, OnePlace, OneDue, Due
    <3>3. OneKind(n)'
      BY <1>4, <1>5, <1>6, <2>4, <3>1 DEF Placed, OnePlace, OneKind
    <3>4. QED
      BY <1>2, <1>4, <1>5, <2>4, <3>2, <3>3 DEF Placed, OnePlace, Somewhere
  <2>6. \A i \in 1..Len(ready') : ready'[i].op = "schedule" => ready'[i].items = <<>>
    BY <2>1, <2>2 DEF PlacesInv
  <2>7. QED
    BY <1>7, <2>5, <2>6 DEF PlacesInv
<1>10. QED
  BY <1>8, <1>9

LEMMA PlacesCallback ==
  ASSUME TypeOK, PlacesInv, RunCallback
  PROVE  PlacesInv'
<1>1. /\ ready # <<>> /\ ready' = Tail(ready) /\ UNCHANGED <<buffers, count, closed, pc, hand>>
  BY DEF RunCallback, locked, threads
<1>2. /\ ready \in Seq([op : {"put", "schedule"}, items : Entries]) /\ outbound \in Seq(Entries)
      /\ ready[1] = Head(ready) /\ Len(ready') = Len(ready) - 1 /\ Len(ready) \in Nat /\ Len(ready) >= 1
      /\ \A i \in 1..Len(ready') : ready'[i] = ready[i + 1]
  BY <1>1 DEF TypeOK
<1>3. \A i \in 1..Len(ready') : i + 1 \in 1..Len(ready) /\ ready'[i] = ready[i + 1] /\ i + 1 # 1
  BY <1>2
<1>4. 1 \in 1..Len(ready) /\ \A i \in 1..Len(ready) : i = 1 \/ (i - 1 \in 1..Len(ready') /\ ready'[i - 1] = ready[i])
  BY <1>2
<1>5. \A n \in Nat : Placed(n)
  BY DEF PlacesInv
<1>6. \A n : /\ (Buffering(n)' <=> Buffering(n)) /\ (OneBuffer(n) => OneBuffer(n)') /\ (Handed(n)' <=> Handed(n))
             /\ (OneHand(n) => OneHand(n)')
  BY <1>1 DEF Buffering, OneBuffer, OneHand, Handed
<1>7. \A n : (Due(n) <=> Due(n)' \/ In(n, ready[1].items)) /\ (OneDue(n) => OneDue(n)' /\ ~(Due(n)' /\ In(n, ready[1].items)))
  <2>1. ASSUME NEW n PROVE Due(n) <=> Due(n)' \/ In(n, ready[1].items)
    <3>1. Due(n) => Due(n)' \/ In(n, ready[1].items)
      BY <1>4 DEF Due
    <3>2. Due(n)' => Due(n)
      BY <1>3 DEF Due
    <3>3. In(n, ready[1].items) => Due(n)
      BY <1>4 DEF Due
    <3>4. QED
      BY <3>1, <3>2, <3>3
  <2>2. ASSUME NEW n, OneDue(n) PROVE OneDue(n)' /\ ~(Due(n)' /\ In(n, ready[1].items))
    <3>1. ASSUME NEW i \in 1..Len(ready'), NEW j \in 1..Len(ready'), In(n, ready'[i].items), In(n, ready'[j].items)
          PROVE  i = j
      <4>1. i + 1 = j + 1
        BY <1>3, <2>2, <3>1 DEF OneDue
      <4>2. QED
        BY <4>1
    <3>2. ASSUME NEW i \in 1..Len(ready'), In(n, ready'[i].items), In(n, ready[1].items) PROVE FALSE
      BY <1>3, <1>4, <2>2, <3>2 DEF OneDue
    <3>3. QED
      BY <3>1, <3>2 DEF OneDue, Due
  <2>3. QED
    BY <2>1, <2>2
<1>8. /\ \A k \in Keys : BufferSorted(k)'
      /\ \A u \in Threads : pc'[u] # "put" => hand'[u] = {}
      /\ \A i \in 1..Len(ready') : ready'[i].op = "schedule" => ready'[i].items = <<>>
  BY <1>1, <1>3 DEF PlacesInv, BufferSorted
<1>9. CASE Head(ready).op = "put" /\ outbound' = Append(outbound, Head(ready).items)
  <2>1. ready[1].items \in Entries /\ outbound' = Append(outbound, ready[1].items)
    <3>1. ready[1] \in [op : {"put", "schedule"}, items : Entries]
      BY <1>2, <1>4, Elements
    <3>2. QED
      BY <1>2, <1>9, <3>1
  <2>2. /\ Len(outbound') = Len(outbound) + 1 /\ outbound'[Len(outbound) + 1] = ready[1].items
        /\ Len(outbound) \in Nat /\ \A i \in 1..Len(outbound) : outbound'[i] = outbound[i]
    BY <1>2, <2>1, Appended
  <2>3. \A i \in 1..Len(outbound') : i \in 1..Len(outbound) \/ i = Len(outbound) + 1
    BY <2>2
  <2>4. Len(outbound) + 1 \in 1..Len(outbound') /\ \A i \in 1..Len(outbound) : i \in 1..Len(outbound')
    BY <2>2
  <2>5. \A n : Out(n)' <=> Out(n) \/ In(n, ready[1].items)
    BY <2>2, <2>3, <2>4 DEF Out
  <2>6. ASSUME NEW n \in Nat PROVE Placed(n)'
    <3>1. In(n, ready[1].items) => ~Handed(n) /\ ~Out(n) /\ ~Buffering(n) /\ ~Due(n)'
      BY <1>5, <1>7 DEF Placed, OnePlace, OneKind
    <3>2. OneOut(n)'
      BY <1>5, <2>2, <2>3, <3>1 DEF Placed, OnePlace, OneOut, Out
    <3>3. OneKind(n)'
      BY <1>5, <1>6, <1>7, <2>5, <3>1 DEF Placed, OnePlace, OneKind
    <3>4. QED
      BY <1>1, <1>5, <1>6, <1>7, <2>5, <3>2, <3>3 DEF Placed, OnePlace, Somewhere
  <2>7. QED
    BY <1>8, <2>6 DEF PlacesInv
<1>10. CASE Head(ready).op = "schedule" /\ UNCHANGED outbound
  <2>1. \A n : ~In(n, ready[1].items)
    BY <1>2, <1>4, <1>10, InNothing DEF PlacesInv
  <2>2. \A n : (Out(n)' <=> Out(n)) /\ (OneOut(n) => OneOut(n)')
    BY <1>10 DEF Out, OneOut
  <2>3. ASSUME NEW n \in Nat PROVE Placed(n)'
    BY <1>1, <1>5, <1>6, <1>7, <2>1, <2>2 DEF Placed, OnePlace, OneKind, Somewhere
  <2>4. QED
    BY <1>8, <2>3 DEF PlacesInv
<1>11. QED
  BY <1>9, <1>10 DEF RunCallback

LEMMA PlacesStep == TypeOK /\ FlushInv /\ PlacesInv /\ [Next]_vars => PlacesInv'
<1> SUFFICES ASSUME TypeOK, FlushInv, PlacesInv, [Next]_vars PROVE PlacesInv'
  OBVIOUS
<1>1. ASSUME UNCHANGED <<buffers, count, hand, ready, outbound>>, closed => closed',
             \A u \in Threads : pc'[u] # "put" => hand[u] = {}
      PROVE  PlacesInv'
  <2>1. \A n : /\ (Buffering(n)' <=> Buffering(n)) /\ (Handed(n)' <=> Handed(n)) /\ (Due(n)' <=> Due(n)) /\ (Out(n)' <=> Out(n))
    BY <1>1 DEF Buffering, Handed, Due, Out
  <2>2. \A n : OnePlace(n) => OnePlace(n)'
    BY <1>1, <2>1 DEF OnePlace, OneBuffer, OneHand, OneDue, OneOut, OneKind
  <2>3. \A n \in Nat : Placed(n)'
    BY <1>1, <2>1, <2>2 DEF PlacesInv, Placed, Somewhere
  <2>4. QED
    BY <1>1, <2>3 DEF PlacesInv, BufferSorted
<1>2. ASSUME NEW t \in Senders, Call(t) PROVE PlacesInv'
  <2>1. /\ UNCHANGED <<buffers, count, hand, ready, outbound, closed>> /\ pc[t] = "idle"
        /\ \A u \in Threads : u # t => pc'[u] = pc[u]
    BY <1>2 DEF Call, locked, TypeOK
  <2>2. QED
    BY <1>1, <2>1 DEF PlacesInv
<1>3. ASSUME NEW t \in Threads, PutsDone(t) PROVE PlacesInv'
  <2>1. /\ UNCHANGED <<buffers, count, hand, ready, outbound>> /\ hand[t] = {} /\ (closed => closed')
        /\ \A u \in Threads : u # t => pc'[u] = pc[u]
    BY <1>3 DEF PutsDone, locked, TypeOK
  <2>2. QED
    BY <1>1, <2>1 DEF PlacesInv
<1>4. CASE TimerFires \/ Close
  <2>1. /\ UNCHANGED <<buffers, count, hand, ready, outbound, closed>> /\ pc[Loop] = "idle"
        /\ \A u \in Threads : u # Loop => pc'[u] = pc[u]
    BY <1>4 DEF TimerFires, Close, locked, TypeOK
  <2>2. QED
    BY <1>1, <2>1 DEF PlacesInv, Threads
<1>5. CASE Drain \/ DrainEnds \/ UNCHANGED vars
  BY <1>1, <1>5 DEF Drain, DrainEnds, vars, locked, threads, PlacesInv
<1>6. QED
  BY <1>2, <1>3, <1>4, <1>5, PlacesAdd, PlacesFlush, PlacesPut, PlacesCallback DEF Next, Step

\* Items in places are counted by their places.
LEMMA PlacesCounted ==
  ASSUME TypeOK, PlacesInv, NEW n \in 1..count
  PROVE  Cardinality(Places(n)) <= 1 /\ (~closed => Cardinality(Places(n)) = 1)
<1> DEFINE PB == {p \in {"buffer"} \X Keys \X (1..count) : p[3] <= Len(buffers[p[2]]) /\ buffers[p[2]][p[3]].n = n}
           PH == UNION {{<<"hand", t, e>> : e \in {h \in hand[t] : In(n, h)}} : t \in Threads}
           PR == {p \in {"ready"} \X (1..Len(ready)) : In(n, ready[p[2]].items)}
           PO == {p \in {"outbound"} \X (1..Len(outbound)) : In(n, outbound[p[2]])}
<1>1. Places(n) = PB \cup PH \cup PR \cup PO
  BY DEF Places
<1>2. n \in Nat /\ Placed(n) /\ count \in Nat /\ \A k \in Keys : BufferSorted(k) /\ Len(buffers[k]) \in Nat
  BY DEF PlacesInv, TypeOK, Entries
<1>3. \A p \in PB : \E k \in Keys : \E i \in 1..Len(buffers[k]) : p = <<"buffer", k, i>> /\ buffers[k][i].n = n
  <2>1. ASSUME NEW p \in PB PROVE \E k \in Keys : \E i \in 1..Len(buffers[k]) : p = <<"buffer", k, i>> /\ buffers[k][i].n = n
    <3>1. PICK k \in Keys, i \in 1..count : p = <<"buffer", k, i>>
      OBVIOUS
    <3>2. i <= Len(buffers[k]) /\ buffers[k][i].n = n
      BY <3>1
    <3>3. i \in 1..Len(buffers[k])
      BY <1>2, <3>2
    <3>4. QED
      BY <3>1, <3>2, <3>3
  <2>2. QED
    BY <2>1
<1>4. \A p \in PH : \E t \in Threads : \E e \in hand[t] : p = <<"hand", t, e>> /\ In(n, e)
  OBVIOUS
<1>5. \A p \in PR : \E i \in 1..Len(ready) : p = <<"ready", i>> /\ In(n, ready[i].items)
  OBVIOUS
<1>6. \A p \in PO : \E i \in 1..Len(outbound) : p = <<"outbound", i>> /\ In(n, outbound[i])
  OBVIOUS
<1>7. Buffering(n) => PB # {}
  <2>1. ASSUME NEW k \in Keys, In(n, buffers[k]) PROVE PB # {}
    <3>1. PICK i \in 1..Len(buffers[k]) : buffers[k][i].n = n
      BY <2>1 DEF In
    <3>2. i \in 1..count /\ i <= Len(buffers[k])
      BY <1>2, <3>1 DEF BufferSorted
    <3>3. <<"buffer", k, i>> \in PB
      BY <3>1, <3>2
    <3>4. QED
      BY <3>3
  <2>2. QED
    BY <2>1 DEF Buffering
<1>8. Handed(n) => PH # {}
  <2>1. ASSUME NEW t \in Threads, NEW e \in hand[t], In(n, e) PROVE <<"hand", t, e>> \in PH
    BY <2>1
  <2>2. QED
    BY <2>1 DEF Handed
<1>9. Due(n) => PR # {}
  <2>1. ASSUME NEW i \in 1..Len(ready), In(n, ready[i].items) PROVE <<"ready", i>> \in PR
    BY <2>1
  <2>2. QED
    BY <2>1 DEF Due
<1>10. Out(n) => PO # {}
  <2>1. ASSUME NEW i \in 1..Len(outbound), In(n, outbound[i]) PROVE <<"outbound", i>> \in PO
    BY <2>1
  <2>2. QED
    BY <2>1 DEF Out
<1>11. (PB # {} => Buffering(n)) /\ (PH # {} => Handed(n)) /\ (PR # {} => Due(n)) /\ (PO # {} => Out(n))
  BY <1>3, <1>4, <1>5, <1>6 DEF Buffering, Handed, Due, Out, In
<1>12. \A p, q \in PB : p = q
  <2>1. ASSUME NEW k \in Keys, NEW l \in Keys, NEW i \in 1..Len(buffers[k]), NEW j \in 1..Len(buffers[l]),
               buffers[k][i].n = n, buffers[l][j].n = n
        PROVE  k = l /\ i = j
    <3>1. k = l
      BY <1>2, <2>1 DEF Placed, OnePlace, OneBuffer, In
    <3>2. ~(i < j) /\ ~(j < i)
      BY <1>2, <2>1, <3>1 DEF BufferSorted
    <3>3. QED
      BY <1>2, <3>1, <3>2
  <2>2. QED
    BY <1>3, <2>1
<1> HIDE DEF PB, PH, PR, PO
<1>13. \A p, q \in PH : p = q
  BY <1>2, <1>4 DEF Placed, OnePlace, OneHand
<1>14. (\A p, q \in PR : p = q) /\ \A p, q \in PO : p = q
  BY <1>2, <1>5, <1>6 DEF Placed, OnePlace, OneDue, OneOut
<1>15. \A p, q \in Places(n) : p = q
  BY <1>1, <1>2, <1>11, <1>12, <1>13, <1>14 DEF Placed, OnePlace, OneKind
<1>16. ~closed => Places(n) # {}
  BY <1>1, <1>2, <1>7, <1>8, <1>9, <1>10 DEF Placed, Somewhere
<1>17. CASE Places(n) = {}
  <2>1. Cardinality(Places(n)) = 0
    BY <1>17, FS_EmptySet
  <2>2. QED
    BY <1>16, <1>17, <2>1
<1>18. CASE Places(n) # {}
  <2>1. PICK p \in Places(n) : Places(n) = {p}
    BY <1>15, <1>18
  <2>2. Cardinality(Places(n)) = 1
    BY <2>1, FS_Singleton
  <2>3. QED
    BY <2>2
<1>19. QED
  BY <1>17, <1>18

\* close() flushes once, before it marks the sender closed, and drain() looks only then.
LEMMA CloseStep == TypeOK /\ FlushInv /\ CloseInv /\ PlacesInv /\ [Next]_vars => CloseInv'
<1> SUFFICES ASSUME TypeOK, FlushInv, CloseInv, PlacesInv, [Next]_vars PROVE CloseInv'
  OBVIOUS
<1>0. Loop \in Threads /\ Loop \notin Senders /\ NoSend \notin Keys
  BY BufferConstants DEF Threads
<1>1. ASSUME UNCHANGED ready \/ (Len(ready') = Len(ready) + 1 /\ Len(ready) \in Nat /\ \A i \in 1..Len(ready) : ready'[i] = ready[i])
      PROVE  \A e : IsDue(e) => IsDue(e)'
  <2>1. \A i \in 1..Len(ready) : i \in 1..Len(ready') /\ ready'[i] = ready[i]
    BY <1>1
  <2>2. QED
    BY <2>1 DEF IsDue
<1>2. ASSUME pc'[Loop] = pc[Loop], hand'[Loop] = hand[Loop], UNCHANGED <<closed, ending, outbound>>,
             \A e : IsDue(e) => IsDue(e)'
      PROVE  CloseInv'
  BY <1>2 DEF CloseInv, ending, IsOut
<1>3. ASSUME NEW t \in Senders, Call(t) PROVE CloseInv'
  BY <1>0, <1>1, <1>2, <1>3 DEF Call, TypeOK
<1>4. ASSUME NEW t \in Threads, AddFragment(t) PROVE CloseInv'
  <2>1. t # Loop
    BY <1>0, <1>4 DEF AddFragment, FlushInv
  <2>2. pc'[Loop] = pc[Loop] /\ hand'[Loop] = hand[Loop] /\ UNCHANGED <<closed, ending, outbound>>
    BY <1>0, <1>4, <2>1 DEF AddFragment, TypeOK
  <2>3. ready' = ready \/ ready' = Append(ready, Schedule)
    BY <1>4 DEF AddFragment, ScheduleFlush
  <2>4. UNCHANGED ready \/ (Len(ready') = Len(ready) + 1 /\ Len(ready) \in Nat /\ \A i \in 1..Len(ready) : ready'[i] = ready[i])
    <3>1. /\ ready \in Seq([op : {"put", "schedule"}, items : Entries])
          /\ Schedule \in [op : {"put", "schedule"}, items : Entries]
      BY CallableTypes DEF TypeOK
    <3>2. CASE ready' = Append(ready, Schedule)
      BY <3>1, <3>2, Appended
    <3>3. QED
      BY <2>3, <3>2
  <2>5. QED
    BY <1>1, <1>2, <2>2, <2>4
<1>5. ASSUME NEW t \in Threads, FlushAll(t) PROVE CloseInv'
  <2>1. UNCHANGED <<closed, ready, outbound, closing, drain, awaited>>
    BY <1>5 DEF FlushAll
  <2>2. \A e : IsDue(e) => IsDue(e)'
    BY <1>1, <2>1
  <2>3. CASE t # Loop
    <3>1. pc'[Loop] = pc[Loop] /\ hand'[Loop] = hand[Loop] /\ closeTook' = closeTook
      BY <1>0, <1>5, <2>3 DEF FlushAll, TypeOK
    <3>2. QED
      BY <1>2, <2>1, <2>2, <3>1 DEF ending
  <2>4. CASE t = Loop
    <3>0. sending[Loop] = NoSend /\ NoSend # Barrier
      BY DEF FlushInv, NoSend, Barrier
    <3>a. pc[Loop] = "lock" /\ pc' = [pc EXCEPT ![Loop] = "put"] /\ hand' = [hand EXCEPT ![Loop] = Buffered]
      BY <1>5, <2>4, <3>0 DEF FlushAll
    <3>1. pc[Loop] = "lock" /\ pc'[Loop] = "put" /\ hand[Loop] = {} /\ hand'[Loop] = Buffered
      BY <1>0, <3>a DEF TypeOK, PlacesInv
    <3>2. closeTook' = IF closing = "running" THEN Buffered ELSE closeTook
      BY <1>5, <2>4 DEF FlushAll
    <3>3. \A e : IsOut(e)' <=> IsOut(e)
      BY <2>1 DEF IsOut
    <3>4. QED
      BY <2>1, <2>2, <3>1, <3>2, <3>3 DEF CloseInv
  <2>5. QED
    BY <2>3, <2>4
<1>6. ASSUME NEW t \in Threads, PutNext(t) PROVE CloseInv'
  <2>1. PICK e \in hand[t] : /\ hand' = [hand EXCEPT ![t] = hand[t] \ {e}]
                             /\ ready' = IF closed THEN ready ELSE Append(ready, PutCall(e))
    BY <1>6 DEF PutNext
  <2>2. pc[t] = "put" /\ UNCHANGED <<closed, pc, ending, outbound>> /\ e \in Entries
    BY <1>6 DEF PutNext, TypeOK
  <2>3. ~closed => /\ Len(ready') = Len(ready) + 1 /\ Len(ready) \in Nat /\ \A i \in 1..Len(ready) : ready'[i] = ready[i]
                   /\ ready'[Len(ready) + 1] = PutCall(e)
    BY <2>1, <2>2, CallableTypes, Appended DEF TypeOK
  <2>4. \A d : IsDue(d) => IsDue(d)'
    BY <1>1, <2>1, <2>3
  <2>5. ~closed => IsDue(e)'
    <3>1. ~closed => Len(ready) + 1 \in 1..Len(ready')
      BY <2>3
    <3>2. QED
      BY <2>3, <3>1 DEF IsDue, PutCall
  <2>6. \A d \in hand[Loop] : d \in hand'[Loop] \/ d = e
    BY <1>0, <2>1 DEF TypeOK
  <2>7. \A d : IsOut(d)' <=> IsOut(d)
    BY <2>2 DEF IsOut
  <2>8. QED
    BY <2>2, <2>4, <2>5, <2>6, <2>7 DEF CloseInv, ending
<1>7. ASSUME NEW t \in Threads, PutsDone(t) PROVE CloseInv'
  <2>1. pc[t] = "put" /\ hand[t] = {} /\ UNCHANGED <<hand, ready, outbound, drain, awaited, closeTook>>
    BY <1>7 DEF PutsDone
  <2>2. \A d : (IsDue(d)' <=> IsDue(d)) /\ (IsOut(d)' <=> IsOut(d))
    BY <2>1 DEF IsDue, IsOut
  <2>3. CASE t = Loop /\ closing = "running" /\ closed' = TRUE /\ closing' = "done"
    BY <2>1, <2>2, <2>3 DEF CloseInv
  <2>4. CASE (t # Loop \/ closing # "running") /\ UNCHANGED <<closed, closing>>
    <3>1. closing = "running" => pc'[Loop] = pc[Loop]
      BY <1>0, <1>7, <2>4 DEF PutsDone, TypeOK
    <3>2. QED
      BY <2>1, <2>2, <2>4, <3>1 DEF CloseInv
  <2>5. QED
    BY <1>7, <2>3, <2>4 DEF PutsDone
<1>8. CASE RunCallback
  <2>1. /\ pc[Loop] = "idle" /\ ready # <<>> /\ ready' = Tail(ready)
        /\ UNCHANGED <<closed, pc, hand, closing, drain, closeTook>>
    BY <1>8 DEF RunCallback, threads
  <2>2. /\ ready \in Seq([op : {"put", "schedule"}, items : Entries]) /\ outbound \in Seq(Entries)
        /\ ready[1] = Head(ready) /\ Len(ready') = Len(ready) - 1 /\ Len(ready) \in Nat /\ Len(ready) >= 1
        /\ \A i \in 1..Len(ready') : ready'[i] = ready[i + 1]
    BY <2>1 DEF TypeOK
  <2>3. \A i \in 1..Len(ready) : i = 1 \/ (i - 1 \in 1..Len(ready') /\ ready'[i - 1] = ready[i])
    BY <2>2
  <2>4. PICK first : first = ready[1].items
    OBVIOUS
  <2>a. \A d : IsDue(d) => IsDue(d)' \/ (ready[1].op = "put" /\ d = first)
    BY <2>3, <2>4 DEF IsDue
  <2>5. CASE ready[1].op = "put" /\ outbound' = Append(outbound, ready[1].items) /\ awaited' = awaited \ {ready[1].items}
    <3>1. first \in Entries
      <4>1. 1 \in 1..Len(ready)
        BY <2>2
      <4>2. ready[1] \in [op : {"put", "schedule"}, items : Entries]
        BY <2>2, <4>1, Elements
      <4>3. QED
        BY <2>4, <4>2
    <3>2. /\ Len(outbound') = Len(outbound) + 1 /\ outbound'[Len(outbound) + 1] = first
          /\ Len(outbound) \in Nat /\ \A i \in 1..Len(outbound) : outbound'[i] = outbound[i]
      BY <2>2, <2>4, <2>5, <3>1, Appended
    <3>3. Len(outbound) + 1 \in 1..Len(outbound') /\ \A i \in 1..Len(outbound) : i \in 1..Len(outbound')
      BY <3>2
    <3>4. IsOut(first)' /\ \A d : IsOut(d) => IsOut(d)'
      BY <3>2, <3>3 DEF IsOut
    <3>5. awaited' = awaited \ {first}
      BY <2>4, <2>5
    <3>6. QED
      BY <2>1, <2>a, <3>4, <3>5 DEF CloseInv
  <2>6. CASE ready[1].op = "schedule" /\ UNCHANGED <<outbound, awaited>>
    <3>1. \A d : IsOut(d)' <=> IsOut(d)
      BY <2>6 DEF IsOut
    <3>2. QED
      BY <2>1, <2>a, <2>6, <3>1 DEF CloseInv
  <2>7. QED
    BY <1>8, <2>2, <2>5, <2>6 DEF RunCallback
<1>9. CASE TimerFires
  <2>1. UNCHANGED <<closed, hand, ready, outbound, ending>> /\ pc[Loop] = "idle"
    BY <1>9 DEF TimerFires
  <2>2. \A d : (IsDue(d)' <=> IsDue(d)) /\ (IsOut(d)' <=> IsOut(d))
    BY <2>1 DEF IsDue, IsOut
  <2>3. QED
    BY <2>1, <2>2 DEF CloseInv, ending
<1>10. CASE Close
  <2>1. /\ UNCHANGED <<closed, hand, ready, outbound, drain, awaited, closeTook>>
        /\ closing = "no" /\ closing' = "running" /\ pc'[Loop] = "lock"
    BY <1>0, <1>10 DEF Close, TypeOK
  <2>2. QED
    BY <2>1 DEF CloseInv
<1>11. CASE Drain
  <2>1. /\ UNCHANGED <<closed, pc, hand, ready, outbound, closing, closeTook>>
        /\ drain' = "waiting" /\ closing = "done"
        /\ awaited' = {ready[i].items : i \in {j \in 1..Len(ready) : ready[j].op = "put"}}
    BY <1>11 DEF Drain, threads
  <2>2. \A d : (IsDue(d)' <=> IsDue(d)) /\ (IsOut(d)' <=> IsOut(d)) /\ (IsDue(d) => d \in awaited')
    BY <2>1 DEF IsDue, IsOut
  <2>3. QED
    BY <2>1, <2>2 DEF CloseInv
<1>12. CASE DrainEnds
  <2>1. /\ UNCHANGED <<closed, pc, hand, ready, outbound, closing, closeTook, awaited>>
        /\ drain = "waiting" /\ (drain' = "timeout" \/ (drain' = "done" /\ awaited = {}))
    BY <1>12 DEF DrainEnds, threads
  <2>2. \A d : (IsDue(d)' <=> IsDue(d)) /\ (IsOut(d)' <=> IsOut(d))
    BY <2>1 DEF IsDue, IsOut
  <2>3. QED
    BY <2>1, <2>2 DEF CloseInv
<1>13. CASE UNCHANGED vars
  BY <1>1, <1>2, <1>13 DEF vars, threads
<1>14. QED
  BY <1>3, <1>4, <1>5, <1>6, <1>7, <1>8, <1>9, <1>10, <1>11, <1>12, <1>13 DEF Next, Step

LEMMA InitPlaces == Init => FlushInv /\ PlacesInv /\ CloseInv
<1> SUFFICES ASSUME Init PROVE FlushInv /\ PlacesInv /\ CloseInv
  OBVIOUS
<1>1. FlushInv /\ CloseInv
  BY DEF Init, FlushInv, Threads, CloseInv
<1>2. Len(<<>>) = 0 /\ (\A i : i \notin 1..0) /\ \A k \in Keys : buffers[k] = <<>>
  BY DEF Init
<1>3. \A n : ~Somewhere(n) /\ OnePlace(n)
  BY <1>2, InNothing DEF Init, Somewhere, Buffering, Handed, Due, Out, OnePlace, OneBuffer, OneHand, OneDue, OneOut, OneKind
<1>4. PlacesInv
  BY <1>2, <1>3 DEF Init, PlacesInv, Placed, BufferSorted
<1>5. QED
  BY <1>1, <1>4

\* Flushes by several threads neither lose nor duplicate a fragment: every item that
\* the lock admitted is in one place until the sender is closed, and what close() flushed
\* is in the outbound queue when drain() has not timed out (delta_buffer.py).
THEOREM FragmentsOnce == Spec => []ExactlyOnce
<1>1. Init => FlushInv /\ PlacesInv /\ CloseInv
  BY InitPlaces
<1>2. TypeOK /\ PlacesInv /\ CloseInv => ExactlyOnce
  <2> SUFFICES ASSUME TypeOK, PlacesInv, CloseInv PROVE ExactlyOnce
    OBVIOUS
  <2>1. drain = "done" => \A e \in closeTook : Contains(outbound, e)
    BY DEF CloseInv, IsOut, Contains
  <2>2. QED
    BY <2>1, PlacesCounted DEF ExactlyOnce
<1>3. QED
  BY <1>1, <1>2, FlushStep, PlacesStep, CloseStep, BufferTypeCorrect, PTL DEF Spec

------------------------------------------------------------------------------
(* The order in which items leave                                          *)

\* No item of the first entry is overtaken by a related one of the second.
Before(e, d) == \A i \in 1..Len(e), j \in 1..Len(d) : Related(e[i], d[j]) => e[i].n < d[j].n
\* The items of an entry that is under way are in order.
Sorted(e) == \A i, j \in 1..Len(e) : i < j => e[i].n < e[j].n

\* Its items have been admitted.
Admitted(e) == \A i \in 1..Len(e) : e[i].n \in 1..count

SortedInv ==
  /\ \A t \in Threads : \A e \in hand[t] : Sorted(e) /\ e # <<>>
  /\ \A i \in 1..Len(ready) : Sorted(ready[i].items)
  /\ \A i \in 1..Len(outbound) : Sorted(outbound[i])
\* Only one thread has entries in its hand, and it puts the least first.
HandsOrdered ==
  /\ \A t, u \in Threads : hand[t] # {} /\ hand[u] # {} => t = u
  /\ \A t \in Threads : \A e, d \in hand[t] : e # d /\ e[1].n <= d[1].n => Before(e, d)
  /\ \A t \in Threads : \A e \in hand[t] :
       /\ \A i \in 1..Len(ready) : Before(ready[i].items, e)
       /\ \A i \in 1..Len(outbound) : Before(outbound[i], e)
BuffersOrdered ==
  \A k \in Keys :
    /\ \A t \in Threads : \A e \in hand[t] : Before(e, buffers[k])
    /\ \A i \in 1..Len(ready) : Before(ready[i].items, buffers[k])
    /\ \A i \in 1..Len(outbound) : Before(outbound[i], buffers[k])
QueueOrdered ==
  /\ \A i, j \in 1..Len(ready) : i < j => Before(ready[i].items, ready[j].items)
  /\ \A i \in 1..Len(outbound), j \in 1..Len(ready) : Before(outbound[i], ready[j].items)
  /\ \A i, j \in 1..Len(outbound) : i < j => Before(outbound[i], outbound[j])
OrderInv == SortedInv /\ (~raced => HandsOrdered /\ BuffersOrdered /\ QueueOrdered)

LEMMA OrderNothing == Sorted(<<>>) /\ \A e : Before(e, <<>>) /\ Before(<<>>, e)
<1>1. Len(<<>>) = 0 /\ \A i : i \notin 1..0
  OBVIOUS
<1>2. QED
  BY <1>1 DEF Sorted, Before

\* No item has a number that the lock has not given out.
LEMMA AllAdmitted ==
  ASSUME TypeOK, PlacesInv
  PROVE  /\ \A k \in Keys : Admitted(buffers[k])
         /\ \A t \in Threads : \A e \in hand[t] : Admitted(e)
         /\ \A i \in 1..Len(ready) : Admitted(ready[i].items)
         /\ \A i \in 1..Len(outbound) : Admitted(outbound[i])
<1>1. ASSUME NEW e \in Entries, \A n \in Nat : In(n, e) => Somewhere(n) PROVE Admitted(e)
  <2>1. \A i \in 1..Len(e) : e[i] \in Items
    BY Elements DEF Entries
  <2>2. \A i \in 1..Len(e) : e[i].n \in Nat /\ In(e[i].n, e)
    BY <2>1 DEF In, Items
  <2>3. QED
    BY <1>1, <2>2 DEF PlacesInv, Placed, Admitted
<1>2. \A k \in Keys : Admitted(buffers[k])
  BY <1>1 DEF TypeOK, Somewhere, Buffering
<1>3. \A t \in Threads : \A e \in hand[t] : Admitted(e)
  BY <1>1 DEF TypeOK, Somewhere, Handed
<1>4. \A i \in 1..Len(ready) : Admitted(ready[i].items)
  <2>1. ready \in Seq([op : {"put", "schedule"}, items : Entries])
    BY DEF TypeOK
  <2>2. \A i \in 1..Len(ready) : ready[i] \in [op : {"put", "schedule"}, items : Entries]
    BY ONLY <2>1, Elements
  <2>3. \A i \in 1..Len(ready) : ready[i].items \in Entries
    BY <2>2
  <2>4. QED
    BY <1>1, <2>3 DEF Somewhere, Due
<1>5. \A i \in 1..Len(outbound) : Admitted(outbound[i])
  <2>1. \A i \in 1..Len(outbound) : outbound[i] \in Entries
    BY Elements DEF TypeOK
  <2>2. QED
    BY <1>1, <2>1 DEF Somewhere, Out
<1>6. QED
  BY <1>2, <1>3, <1>4, <1>5

\* A new item follows all others.
LEMMA BeforeNew ==
  ASSUME TypeOK, NEW e, Admitted(e), NEW b \in Entries, Before(e, b), NEW x \in Items, x.n = count + 1
  PROVE  Before(e, Append(b, x))
<1>1. /\ Len(Append(b, x)) = Len(b) + 1 /\ Len(b) \in Nat /\ Append(b, x)[Len(b) + 1] = x
      /\ \A i \in 1..Len(b) : Append(b, x)[i] = b[i]
  BY Appended DEF Entries
<1>2. \A j \in 1..Len(Append(b, x)) : j \in 1..Len(b) \/ j = Len(b) + 1
  BY <1>1
<1>3. \A i \in 1..Len(e) : e[i].n < count + 1
  BY DEF Admitted, TypeOK
<1>4. QED
  BY <1>1, <1>2, <1>3 DEF Before

LEMMA SortedNew ==
  ASSUME TypeOK, NEW b \in Entries, Admitted(b), Sorted(b), NEW x \in Items, x.n = count + 1
  PROVE  Sorted(Append(b, x))
<1>1. /\ Len(Append(b, x)) = Len(b) + 1 /\ Len(b) \in Nat /\ Append(b, x)[Len(b) + 1] = x
      /\ \A i \in 1..Len(b) : Append(b, x)[i] = b[i]
  BY Appended DEF Entries
<1>2. \A j \in 1..Len(Append(b, x)) : j \in 1..Len(b) \/ j = Len(b) + 1
  BY <1>1
<1>3. \A i \in 1..Len(b) : b[i].n < count + 1
  BY DEF Admitted, TypeOK
<1>4. ASSUME NEW i \in 1..Len(Append(b, x)), NEW j \in 1..Len(Append(b, x)), i < j
      PROVE  Append(b, x)[i].n < Append(b, x)[j].n
  <2>1. i \in 1..Len(b)
    BY <1>1, <1>2, <1>4
  <2>2. QED
    BY <1>1, <1>2, <1>3, <1>4, <2>1 DEF Sorted
<1>5. QED
  BY <1>4 DEF Sorted

\* Fragments of different keys are not related.
LEMMA Unrelated ==
  ASSUME NEW k \in Keys, NEW l \in Keys, k # l, NEW e, NEW d,
         \A i \in 1..Len(e) : e[i].key = k, \A j \in 1..Len(d) : d[j].key = l
  PROVE  Before(e, d)
<1>1. k # Barrier /\ l # Barrier
  BY BufferConstants
<1>2. QED
  BY <1>1 DEF Before, Related

\* What the callbacks carry after a timer request may have been added.
LEMMA Scheduled ==
  ASSUME TypeOK, ready' = ready \/ ready' = Append(ready, Schedule)
  PROVE  /\ \A i \in 1..Len(ready') : ready'[i].items = <<>> \/ (i \in 1..Len(ready) /\ ready'[i] = ready[i])
         /\ OrderInv => /\ \A i \in 1..Len(ready') : Sorted(ready'[i].items)
                        /\ ~raced => /\ \A i, j \in 1..Len(ready') : i < j => Before(ready'[i].items, ready'[j].items)
                                     /\ \A i \in 1..Len(outbound), j \in 1..Len(ready') : Before(outbound[i], ready'[j].items)
<1>1. /\ ready \in Seq([op : {"put", "schedule"}, items : Entries])
      /\ Schedule \in [op : {"put", "schedule"}, items : Entries] /\ Schedule.items = <<>>
  BY CallableTypes DEF TypeOK, Schedule
<1>2. \A i \in 1..Len(ready') : ready'[i].items = <<>> \/ (i \in 1..Len(ready) /\ ready'[i] = ready[i])
  <2>1. CASE ready' = Append(ready, Schedule)
    <3>1. /\ Len(ready') = Len(ready) + 1 /\ ready'[Len(ready) + 1] = Schedule /\ Len(ready) \in Nat
          /\ \A i \in 1..Len(ready) : ready'[i] = ready[i]
      BY <1>1, <2>1, Appended
    <3>2. QED
      BY <1>1, <3>1
  <2>2. QED
    BY <2>1
<1>3. QED
  BY <1>2, OrderNothing DEF OrderInv, SortedInv, QueueOrdered

LEMMA OrderAdd ==
  ASSUME TypeOK, PlacesInv, OrderInv, NEW t \in Threads, AddFragment(t)
  PROVE  OrderInv'
<1>0. PICK k \in Keys : k = sending[t]
  BY DEF AddFragment
<1> DEFINE new == Item(k)
<1>1. /\ new \in Items /\ buffers[k] \in Entries /\ new.n = count + 1 /\ new.key = k /\ UNCHANGED outbound
      /\ pc[t] = "lock" /\ ScheduleFlush(k) /\ raced' = (raced \/ OthersHold(t))
  BY <1>0, ItemEntry DEF AddFragment, TypeOK, Item
<1>2. PICK entry \in Entries : entry = Append(buffers[k], new)
  BY <1>1, InAppended
<1>3. \/ buffers' = [buffers EXCEPT ![k] = <<>>] /\ hand' = [hand EXCEPT ![t] = {entry}]
      \/ buffers' = [buffers EXCEPT ![k] = entry] /\ UNCHANGED hand
  BY <1>0, <1>2 DEF AddFragment
<1>4. ready' = ready \/ ready' = Append(ready, Schedule)
  BY <1>1 DEF ScheduleFlush
<1>5. hand[t] = {}
  BY <1>1 DEF PlacesInv
<1>6. ~raced' => ~raced /\ \A u \in Threads : hand[u] = {}
  BY <1>1, <1>5 DEF OthersHold
<1>7. /\ \A i \in 1..Len(ready') : ready'[i].items = <<>> \/ (i \in 1..Len(ready) /\ ready'[i] = ready[i])
      /\ \A i \in 1..Len(ready') : Sorted(ready'[i].items)
      /\ ~raced => /\ \A i, j \in 1..Len(ready') : i < j => Before(ready'[i].items, ready'[j].items)
                   /\ \A i \in 1..Len(outbound), j \in 1..Len(ready') : Before(outbound[i], ready'[j].items)
  BY <1>4, Scheduled
<1>8. ~raced' => QueueOrdered'
  BY <1>1, <1>6, <1>7 DEF QueueOrdered, OrderInv
<1>9. Sorted(entry) /\ entry # <<>>
  <2>1. Sorted(buffers[k]) /\ Admitted(buffers[k])
    BY AllAdmitted DEF PlacesInv, BufferSorted, Sorted
  <2>2. QED
    BY <1>1, <1>2, <2>1, SortedNew, InAppended
<1>10. ~raced => /\ \A i \in 1..Len(ready') : Before(ready'[i].items, entry)
                 /\ \A i \in 1..Len(outbound) : Before(outbound[i], entry)
                 /\ \A l \in Keys : \A i \in 1..Len(ready') : Before(ready'[i].items, buffers[l])
                 /\ \A l \in Keys : \A i \in 1..Len(outbound) : Before(outbound[i], buffers[l])
  <2>1. ~raced => /\ \A l \in Keys : \A i \in 1..Len(ready) : Before(ready[i].items, buffers[l])
                  /\ \A l \in Keys : \A i \in 1..Len(outbound) : Before(outbound[i], buffers[l])
    BY DEF OrderInv, BuffersOrdered
  <2>2. ~raced => \A i \in 1..Len(ready) : Before(ready[i].items, entry)
    BY <1>1, <1>2, <2>1, AllAdmitted, BeforeNew
  <2>3. ~raced => \A i \in 1..Len(outbound) : Before(outbound[i], entry)
    BY <1>1, <1>2, <2>1, AllAdmitted, BeforeNew
  <2>4. QED
    BY <1>7, <2>1, <2>2, <2>3, OrderNothing
<1>11. \A l \in Keys : l # k => Before(entry, buffers[l])
  <2>1. /\ Len(entry) = Len(buffers[k]) + 1 /\ Len(buffers[k]) \in Nat /\ entry[Len(buffers[k]) + 1] = new
        /\ \A i \in 1..Len(buffers[k]) : entry[i] = buffers[k][i]
    BY <1>1, <1>2, Appended DEF Entries
  <2>2. \A i \in 1..Len(entry) : i \in 1..Len(buffers[k]) \/ i = Len(buffers[k]) + 1
    BY <2>1
  <2>3. \A i \in 1..Len(entry) : entry[i].key = k
    BY <1>1, <2>1, <2>2 DEF PlacesInv, BufferSorted
  <2>4. \A l \in Keys : \A i \in 1..Len(buffers[l]) : buffers[l][i].key = l
    BY DEF PlacesInv, BufferSorted
  <2>5. QED
    BY <2>3, <2>4, Unrelated
<1> HIDE DEF new
<1>12. CASE buffers' = [buffers EXCEPT ![k] = <<>>] /\ hand' = [hand EXCEPT ![t] = {entry}]
  <2>1. \A l \in Keys : buffers'[l] = IF l = k THEN <<>> ELSE buffers[l]
    BY <1>12 DEF TypeOK
  <2>2. \A u \in Threads : hand'[u] = IF u = t THEN {entry} ELSE hand[u]
    BY <1>12 DEF TypeOK
  <2>3. SortedInv'
    BY <1>1, <1>7, <1>9, <2>2 DEF OrderInv, SortedInv
  <2>4. ASSUME ~raced' PROVE HandsOrdered' /\ BuffersOrdered'
    <3>1. ~raced /\ \A u \in Threads : hand'[u] = IF u = t THEN {entry} ELSE {}
      BY <1>6, <2>2, <2>4
    <3>2. HandsOrdered'
      BY <1>1, <1>10, <3>1 DEF HandsOrdered
    <3>3. \A l \in Keys : Before(entry, buffers'[l])
      BY <1>11, <2>1, OrderNothing
    <3>4. \A l \in Keys : /\ \A i \in 1..Len(ready') : Before(ready'[i].items, buffers'[l])
                          /\ \A i \in 1..Len(outbound) : Before(outbound[i], buffers'[l])
      BY <1>10, <2>1, <3>1, OrderNothing
    <3>5. BuffersOrdered'
      BY <1>1, <3>1, <3>3, <3>4 DEF BuffersOrdered
    <3>6. QED
      BY <3>2, <3>5
  <2>5. QED
    BY <1>8, <2>3, <2>4 DEF OrderInv
<1>13. CASE buffers' = [buffers EXCEPT ![k] = entry] /\ UNCHANGED hand
  <2>1. \A l \in Keys : buffers'[l] = IF l = k THEN entry ELSE buffers[l]
    BY <1>13 DEF TypeOK
  <2>2. SortedInv'
    BY <1>1, <1>7, <1>13 DEF OrderInv, SortedInv
  <2>3. ASSUME ~raced' PROVE HandsOrdered' /\ BuffersOrdered'
    <3>1. ~raced /\ \A u \in Threads : hand'[u] = {}
      BY <1>6, <1>13, <2>3
    <3>2. HandsOrdered'
      BY <3>1 DEF HandsOrdered
    <3>3. \A l \in Keys : /\ \A i \in 1..Len(ready') : Before(ready'[i].items, buffers'[l])
                          /\ \A i \in 1..Len(outbound) : Before(outbound[i], buffers'[l])
      BY <1>10, <2>1, <3>1
    <3>4. BuffersOrdered'
      BY <1>1, <3>1, <3>3 DEF BuffersOrdered
    <3>5. QED
      BY <3>2, <3>4
  <2>4. QED
    BY <1>8, <2>2, <2>3 DEF OrderInv
<1>14. QED
  BY <1>3, <1>12, <1>13

LEMMA OrderFlush ==
  ASSUME TypeOK, PlacesInv, OrderInv, NEW t \in Threads, FlushAll(t)
  PROVE  OrderInv'
<1>1. /\ hand[t] = {} /\ raced' = (raced \/ OthersHold(t)) /\ count \in Nat
      /\ buffers' = [k \in Keys |-> <<>>] /\ UNCHANGED <<ready, outbound>>
  BY DEF FlushAll, EmptyBuffers, PlacesInv, TypeOK
<1>2. PICK message : message = <<Item(Barrier)>>
  OBVIOUS
<1>3. PICK taken : /\ taken \subseteq Buffered \cup {message}
                   /\ \A u \in Threads : hand'[u] = IF u = t THEN taken ELSE hand[u]
  BY <1>2 DEF FlushAll, TypeOK
<1>4. /\ Len(message) = 1 /\ message[1].n = count + 1 /\ message # <<>>
      /\ \A i : i \in 1..Len(message) => i = 1
  BY <1>2 DEF Item
<1>5. ~raced' => ~raced /\ \A u \in Threads : hand'[u] = IF u = t THEN taken ELSE {}
  BY <1>1, <1>3 DEF OthersHold
<1>6. \A e \in Buffered : /\ Sorted(e) /\ e # <<>> /\ Admitted(e) /\ 1 \in 1..Len(e)
                          /\ \E k \in Keys : e = buffers[k]
  <2>1. ASSUME NEW k \in Keys, buffers[k] # <<>> PROVE 1 \in 1..Len(buffers[k])
    BY <2>1 DEF TypeOK, Entries
  <2>2. QED
    BY <2>1, AllAdmitted DEF Buffered, PlacesInv, BufferSorted, Sorted
<1>7. Sorted(message)
  BY <1>4 DEF Sorted
<1>8. SortedInv'
  BY <1>1, <1>3, <1>4, <1>6, <1>7 DEF OrderInv, SortedInv
<1>9. \A k \in Keys : buffers'[k] = <<>>
  BY <1>1
<1>10. BuffersOrdered'
  BY <1>9, OrderNothing DEF BuffersOrdered
<1>11. \A e : Admitted(e) => Before(e, message)
  BY <1>1, <1>4 DEF Admitted, Before
<1>12. ASSUME NEW e \in taken, NEW d \in taken, e # d, e[1].n <= d[1].n PROVE Before(e, d)
  <2>1. CASE d = message
    BY <1>3, <1>6, <1>11, <1>12, <2>1
  <2>2. CASE d # message
    <3>1. d \in Buffered
      BY <1>3, <2>2
    <3>2. d[1].n \in 1..count
      BY <1>6, <3>1 DEF Admitted
    <3>3. e # message
      BY <1>1, <1>4, <1>12, <3>2
    <3>4. PICK k \in Keys, l \in Keys : e = buffers[k] /\ d = buffers[l]
      BY <1>3, <1>6, <3>1, <3>3
    <3>5. k # l
      BY <1>12, <3>4
    <3>6. (\A i \in 1..Len(e) : e[i].key = k) /\ \A i \in 1..Len(d) : d[i].key = l
      BY <3>4 DEF PlacesInv, BufferSorted
    <3>7. QED
      BY <3>5, <3>6, Unrelated
  <2>3. QED
    BY <2>1, <2>2
<1>13. ASSUME ~raced PROVE \A e \in taken : /\ \A i \in 1..Len(ready) : Before(ready[i].items, e)
                                            /\ \A i \in 1..Len(outbound) : Before(outbound[i], e)
  BY <1>3, <1>6, <1>11, <1>13, AllAdmitted DEF OrderInv, BuffersOrdered
<1>14. ~raced' => HandsOrdered'
  BY <1>1, <1>5, <1>12, <1>13 DEF HandsOrdered
<1>15. ~raced' => QueueOrdered'
  BY <1>1, <1>5 DEF OrderInv, QueueOrdered
<1>16. QED
  BY <1>8, <1>10, <1>14, <1>15 DEF OrderInv

LEMMA OrderPut ==
  ASSUME TypeOK, OrderInv, NEW t \in Threads, PutNext(t)
  PROVE  OrderInv'
<1>1. PICK e \in hand[t] : /\ \A d \in hand[t] : e[1].n <= d[1].n
                           /\ hand' = [hand EXCEPT ![t] = hand[t] \ {e}]
                           /\ ready' = IF closed THEN ready ELSE Append(ready, PutCall(e))
  BY DEF PutNext
<1>2. /\ UNCHANGED <<buffers, outbound, raced>> /\ e \in Entries
      /\ \A u \in Threads : hand'[u] = IF u = t THEN hand[t] \ {e} ELSE hand[u]
  BY <1>1 DEF PutNext, locked, TypeOK
<1>3. \A u \in Threads : hand'[u] \subseteq hand[u]
  BY <1>2
<1>4. \A i \in 1..Len(ready') : \/ i \in 1..Len(ready) /\ ready'[i] = ready[i]
                                \/ ready'[i].items = e /\ \A j \in 1..Len(ready') : ~(i < j)
  <2>1. /\ ready \in Seq([op : {"put", "schedule"}, items : Entries])
        /\ PutCall(e) \in [op : {"put", "schedule"}, items : Entries] /\ PutCall(e).items = e
    BY <1>2, CallableTypes DEF TypeOK, PutCall
  <2>2. CASE ready' = Append(ready, PutCall(e))
    <3>1. /\ Len(ready') = Len(ready) + 1 /\ ready'[Len(ready) + 1] = PutCall(e) /\ Len(ready) \in Nat
          /\ \A i \in 1..Len(ready) : ready'[i] = ready[i]
      BY <2>1, <2>2, Appended
    <3>2. QED
      BY <2>1, <3>1
  <2>3. QED
    BY <1>1, <2>2
<1>5. SortedInv'
  BY <1>2, <1>3, <1>4 DEF OrderInv, SortedInv
<1>6. ASSUME ~raced PROVE HandsOrdered'
  <2>1. HandsOrdered
    BY <1>6 DEF OrderInv
  <2>2. \A u \in Threads : \A d \in hand'[u] : Before(e, d)
    BY <1>1, <1>2, <2>1 DEF HandsOrdered
  <2>3. \A u, v \in Threads : hand'[u] # {} /\ hand'[v] # {} => u = v
    BY <1>3, <2>1 DEF HandsOrdered
  <2>4. \A u \in Threads : \A c, d \in hand'[u] : c # d /\ c[1].n <= d[1].n => Before(c, d)
    BY <1>3, <2>1 DEF HandsOrdered
  <2>5. \A u \in Threads : \A d \in hand'[u] : /\ \A i \in 1..Len(ready') : Before(ready'[i].items, d)
                                              /\ \A i \in 1..Len(outbound) : Before(outbound[i], d)
    BY <1>3, <1>4, <2>1, <2>2 DEF HandsOrdered
  <2>6. QED
    BY <1>2, <2>3, <2>4, <2>5 DEF HandsOrdered
<1>7. ASSUME ~raced PROVE BuffersOrdered'
  BY <1>2, <1>3, <1>4, <1>7 DEF OrderInv, BuffersOrdered
<1>8. ASSUME ~raced PROVE QueueOrdered'
  <2>1. HandsOrdered /\ QueueOrdered
    BY <1>8 DEF OrderInv
  <2>2. ASSUME NEW i \in 1..Len(ready'), NEW j \in 1..Len(ready'), i < j PROVE Before(ready'[i].items, ready'[j].items)
    BY <1>4, <2>1, <2>2 DEF HandsOrdered, QueueOrdered
  <2>3. \A i \in 1..Len(outbound), j \in 1..Len(ready') : Before(outbound[i], ready'[j].items)
    BY <1>4, <2>1 DEF HandsOrdered, QueueOrdered
  <2>4. QED
    BY <1>2, <2>1, <2>2, <2>3 DEF QueueOrdered
<1>9. QED
  BY <1>2, <1>5, <1>6, <1>7, <1>8 DEF OrderInv

LEMMA OrderCallback ==
  ASSUME TypeOK, OrderInv, RunCallback
  PROVE  OrderInv'
<1>1. /\ ready # <<>> /\ ready' = Tail(ready) /\ UNCHANGED <<buffers, hand, raced>>
      /\ outbound' = outbound \/ outbound' = Append(outbound, Head(ready).items)
  BY DEF RunCallback, locked, threads
<1>2. /\ ready \in Seq([op : {"put", "schedule"}, items : Entries]) /\ outbound \in Seq(Entries)
      /\ ready[1] = Head(ready) /\ Len(ready') = Len(ready) - 1 /\ Len(ready) \in Nat /\ Len(ready) >= 1
      /\ \A i \in 1..Len(ready') : ready'[i] = ready[i + 1]
  BY <1>1 DEF TypeOK
<1>3. \A i \in 1..Len(ready') : i + 1 \in 1..Len(ready) /\ 1 < i + 1 /\ ready'[i] = ready[i + 1]
  BY <1>2
<1>4. \A i, j \in 1..Len(ready') : i < j => i + 1 < j + 1
  OBVIOUS
<1>5. PICK first \in Entries : first = ready[1].items
  <2>1. 1 \in 1..Len(ready)
    BY <1>2
  <2>2. ready[1] \in [op : {"put", "schedule"}, items : Entries]
    BY <1>2, <2>1, Elements
  <2>3. QED
    BY <2>2
<1>6. \A i \in 1..Len(outbound') : \/ i \in 1..Len(outbound) /\ outbound'[i] = outbound[i]
                                   \/ outbound'[i] = first /\ \A j \in 1..Len(outbound') : ~(i < j)
  <2>1. CASE outbound' = Append(outbound, first)
    <3>1. /\ Len(outbound') = Len(outbound) + 1 /\ outbound'[Len(outbound) + 1] = first /\ Len(outbound) \in Nat
          /\ \A i \in 1..Len(outbound) : outbound'[i] = outbound[i]
      BY <1>2, <1>5, <2>1, Appended
    <3>2. QED
      BY <3>1
  <2>2. QED
    BY <1>1, <1>2, <1>5, <2>1
<1>7. 1 \in 1..Len(ready)
  BY <1>2
<1>8. SortedInv'
  BY <1>1, <1>3, <1>5, <1>6, <1>7 DEF OrderInv, SortedInv
<1>9. ASSUME ~raced PROVE HandsOrdered'
  <2>1. HandsOrdered
    BY <1>9 DEF OrderInv
  <2>2. \A u \in Threads : \A d \in hand[u] : /\ \A i \in 1..Len(ready') : Before(ready'[i].items, d)
                                             /\ \A i \in 1..Len(outbound') : Before(outbound'[i], d)
    BY <1>3, <1>5, <1>6, <1>7, <2>1 DEF HandsOrdered
  <2>3. QED
    BY <1>1, <2>1, <2>2 DEF HandsOrdered
<1>10. ASSUME ~raced PROVE BuffersOrdered'
  <2>1. BuffersOrdered
    BY <1>10 DEF OrderInv
  <2>2. \A k \in Keys : /\ \A i \in 1..Len(ready') : Before(ready'[i].items, buffers[k])
                        /\ \A i \in 1..Len(outbound') : Before(outbound'[i], buffers[k])
    BY <1>3, <1>5, <1>6, <1>7, <2>1 DEF BuffersOrdered
  <2>3. QED
    BY <1>1, <2>1, <2>2 DEF BuffersOrdered
<1>11. ASSUME ~raced PROVE QueueOrdered'
  <2>1. QueueOrdered
    BY <1>11 DEF OrderInv
  <2>2. \A i, j \in 1..Len(ready') : i < j => Before(ready'[i].items, ready'[j].items)
    BY <1>3, <1>4, <2>1 DEF QueueOrdered
  <2>3. \A j \in 1..Len(ready') : Before(first, ready'[j].items)
    BY <1>3, <1>5, <1>7, <2>1 DEF QueueOrdered
  <2>4. \A i \in 1..Len(outbound'), j \in 1..Len(ready') : Before(outbound'[i], ready'[j].items)
    BY <1>3, <1>6, <2>1, <2>3 DEF QueueOrdered
  <2>5. \A i \in 1..Len(outbound) : Before(outbound[i], first)
    BY <1>5, <1>7, <2>1 DEF QueueOrdered
  <2>6. \A i, j \in 1..Len(outbound') : i < j => Before(outbound'[i], outbound'[j])
    BY <1>6, <2>1, <2>5 DEF QueueOrdered
  <2>7. QED
    BY <2>2, <2>4, <2>6 DEF QueueOrdered
<1>12. QED
  BY <1>1, <1>8, <1>9, <1>10, <1>11 DEF OrderInv

LEMMA OrderStep == TypeOK /\ PlacesInv /\ OrderInv /\ [Next]_vars => OrderInv'
<1> SUFFICES ASSUME TypeOK, PlacesInv, OrderInv, [Next]_vars PROVE OrderInv'
  OBVIOUS
<1>1. ASSUME UNCHANGED <<buffers, hand, ready, outbound, raced>> PROVE OrderInv'
  BY <1>1 DEF OrderInv, SortedInv, HandsOrdered, BuffersOrdered, QueueOrdered
<1>2. ASSUME NEW t \in Senders, Call(t) PROVE OrderInv'
  BY <1>1, <1>2 DEF Call, locked
<1>3. ASSUME NEW t \in Threads, PutsDone(t) PROVE OrderInv'
  BY <1>1, <1>3 DEF PutsDone, locked
<1>4. CASE TimerFires \/ Close \/ Drain \/ DrainEnds \/ UNCHANGED vars
  BY <1>1, <1>4 DEF TimerFires, Close, Drain, DrainEnds, vars, locked, threads
<1>5. QED
  BY <1>2, <1>3, <1>4, OrderAdd, OrderFlush, OrderPut, OrderCallback DEF Next, Step

\* As long as no thread takes the lock while another one still has entries to hand over,
\* items leave in the order in which the lock admitted them, per key and around every
\* message that is not coalesced (delta_buffer.py send, flush_all, _put).
THEOREM FragmentsInOrder == Spec => []OrderUnlessRaced
<1>1. Init => FlushInv /\ PlacesInv /\ OrderInv
  <2> SUFFICES ASSUME Init PROVE FlushInv /\ PlacesInv /\ OrderInv
    OBVIOUS
  <2>1. FlushInv /\ PlacesInv
    BY InitPlaces
  <2>2. Len(<<>>) = 0 /\ (\A i : i \notin 1..0) /\ \A k \in Keys : buffers[k] = <<>>
    BY DEF Init
  <2>3. OrderInv
    BY <2>2 DEF Init, OrderInv, SortedInv, HandsOrdered, BuffersOrdered, QueueOrdered
  <2>4. QED
    BY <2>1, <2>3
<1>2. OrderInv => OrderUnlessRaced
  <2> SUFFICES ASSUME OrderInv, ~raced,
                      NEW p \in 1..Len(outbound), NEW q \in 1..Len(outbound),
                      NEW i \in 1..Len(outbound[p]), NEW j \in 1..Len(outbound[q]),
                      p < q \/ (p = q /\ i < j), Related(outbound[p][i], outbound[q][j])
               PROVE  outbound[p][i].n < outbound[q][j].n
    BY DEF OrderUnlessRaced
  <2>1. CASE p < q
    BY <2>1 DEF OrderInv, QueueOrdered, Before
  <2>2. CASE p = q /\ i < j
    BY <2>2 DEF OrderInv, SortedInv, Sorted
  <2>3. QED
    BY <2>1, <2>2
<1>3. QED
  BY <1>1, <1>2, FlushStep, PlacesStep, OrderStep, BufferTypeCorrect, PTL DEF Spec
==============================================================================
