------------------------------ MODULE CodexProofs ------------------------------
(***************************************************************************)
(* Ids, approvals and events of the Codex connector, the events that are   *)
(* not dropped and the messages that are put together, for any number of   *)
(* threads, turns, requests and messages.                                  *)
(***************************************************************************)
EXTENDS CodexConnector, TLAPS

Methods == {"thread/start", "turn/start", "turn/steer", "turn/interrupt", "thread/resume",
            "thread/archive", "thread/unarchive"}
OfTurns == {"turn_start", "turn_steer", "turn_cancel"}
Handlers == [at : Methods \cup {"idle", "mapping", "unmapping", "answering", "answered"},
             op : OfTurns \cup {None, "thread_resume", "archive", "unarchive", "respond"},
             thread : Threads \cup {None}, turn : Turns \cup {None}, app : AppThreads \cup {0},
             appTurn : AppTurns \cup {0}, retried : BOOLEAN, ask : Asks \cup {0}, reply : Decisions \cup {None}]
Replies == ({"ok"} \X Nat) \cup {<<"error">>, <<"not found">>}
Requests == Methods \X Nat \X (AppThreads \cup {0}) \X (Turns \cup {None}) \X (AppTurns \cup {0})
Inputs  == Requests \cup ({"answer"} \X (Asks \cup {0}))
Outputs == ({"response"} \X Nat \X Replies) \cup ({"ask", "resolved"} \X Asks)
             \cup ({"turn"} \X AppTurns) \cup ({"closed"} \X AppThreads)
             \cup ({"delta"} \X Items \X Nat) \cup ({"message"} \X Items \X BOOLEAN)

LEMMA MembersOf == \A S : \A q \in Seq(S) : ToSet(q) = {q[k] : k \in 1..Len(q)}
  BY DEF ToSet

LEMMA MembersAppended ==
  ASSUME NEW S, NEW q \in Seq(S), NEW m \in S
  PROVE  Append(q, m) \in Seq(S) /\ ToSet(Append(q, m)) = ToSet(q) \cup {m}
<1> DEFINE a == Append(q, m)
<1>1. a \in Seq(S) /\ Len(a) = Len(q) + 1 /\ a[Len(q) + 1] = m /\ \A k \in 1..Len(q) : a[k] = q[k]
  OBVIOUS
<1>2. Len(q) \in Nat
  OBVIOUS
<1> HIDE DEF a
<1>3. ToSet(a) = {a[k] : k \in 1..Len(a)} /\ ToSet(q) = {q[k] : k \in 1..Len(q)}
  BY <1>1, MembersOf
<1>4. ASSUME NEW x \in ToSet(a) PROVE x \in ToSet(q) \cup {m}
  <2>1. PICK k \in 1..Len(a) : x = a[k]
    BY <1>3, <1>4
  <2>2. k \in 1..Len(q) \/ k = Len(q) + 1
    BY <1>1, <1>2, <2>1
  <2>3. QED
    BY <1>1, <1>3, <2>1, <2>2
<1>5. ASSUME NEW x \in ToSet(q) \cup {m} PROVE x \in ToSet(a)
  <2>1. CASE x = m
    <3>1. Len(q) + 1 \in 1..Len(a)
      BY <1>1, <1>2
    <3>2. QED
      BY <1>1, <1>3, <2>1, <3>1
  <2>2. CASE x \in ToSet(q)
    <3>1. PICK k \in 1..Len(q) : x = q[k]
      BY <1>3, <2>2
    <3>2. k \in 1..Len(a) /\ a[k] = x
      BY <1>1, <1>2, <3>1
    <3>3. QED
      BY <1>3, <3>2
  <2>3. QED
    BY <1>5, <2>1, <2>2
<1>6. ToSet(a) = ToSet(q) \cup {m}
  BY <1>4, <1>5
<1>7. QED
  BY <1>1, <1>6 DEF a

LEMMA MembersJoined ==
  ASSUME NEW S, NEW q \in Seq(S), NEW r \in Seq(S)
  PROVE  q \o r \in Seq(S) /\ ToSet(q \o r) = ToSet(q) \cup ToSet(r)
<1> DEFINE c == q \o r
<1>1. /\ c \in Seq(S) /\ Len(c) = Len(q) + Len(r) /\ Len(q) \in Nat /\ Len(r) \in Nat
      /\ \A k \in 1..Len(q) : c[k] = q[k]
      /\ \A k \in 1..Len(c) : k > Len(q) => c[k] = r[k - Len(q)]
  OBVIOUS
<1> HIDE DEF c
<1>2. ToSet(c) = {c[k] : k \in 1..Len(c)} /\ ToSet(q) = {q[k] : k \in 1..Len(q)} /\ ToSet(r) = {r[k] : k \in 1..Len(r)}
  BY <1>1, MembersOf
<1>3. ASSUME NEW x \in ToSet(c) PROVE x \in ToSet(q) \cup ToSet(r)
  <2>1. PICK k \in 1..Len(c) : x = c[k]
    BY <1>2, <1>3
  <2>2. CASE k \in 1..Len(q)
    BY <1>1, <1>2, <2>1, <2>2
  <2>3. CASE k > Len(q)
    <3>1. k - Len(q) \in 1..Len(r) /\ x = r[k - Len(q)]
      BY <1>1, <2>1, <2>3
    <3>2. QED
      BY <1>2, <3>1
  <2>4. QED
    BY <1>1, <2>1, <2>2, <2>3
<1>4. ASSUME NEW x \in ToSet(q) PROVE x \in ToSet(c)
  <2>1. PICK k \in 1..Len(q) : x = q[k]
    BY <1>2, <1>4
  <2>2. k \in 1..Len(c) /\ c[k] = x
    BY <1>1, <2>1
  <2>3. QED
    BY <1>2, <2>2
<1>5. ASSUME NEW x \in ToSet(r) PROVE x \in ToSet(c)
  <2>1. PICK k \in 1..Len(r) : x = r[k]
    BY <1>2, <1>5
  <2>2. Len(q) + k \in 1..Len(c) /\ Len(q) + k > Len(q) /\ (Len(q) + k) - Len(q) = k
    BY <1>1, <2>1
  <2>3. c[Len(q) + k] = x
    BY <1>1, <2>1, <2>2
  <2>4. QED
    BY <1>2, <2>2, <2>3
<1>6. ToSet(c) = ToSet(q) \cup ToSet(r)
  BY <1>3, <1>4, <1>5
<1>7. QED
  BY <1>1, <1>6 DEF c

LEMMA MembersLeft ==
  ASSUME NEW S, NEW q \in Seq(S), q # <<>>
  PROVE  /\ Head(q) \in ToSet(q) /\ Head(q) \in S /\ Tail(q) \in Seq(S) /\ ToSet(Tail(q)) \subseteq ToSet(q)
<1>1. Len(q) \in Nat \ {0} /\ Head(q) = q[1] /\ Head(q) \in S /\ Tail(q) \in Seq(S)
  OBVIOUS
<1>2. \A k \in 1..Len(Tail(q)) : Tail(q)[k] = q[k + 1] /\ k + 1 \in 1..Len(q)
  OBVIOUS
<1>3. ToSet(q) = {q[k] : k \in 1..Len(q)} /\ ToSet(Tail(q)) = {Tail(q)[k] : k \in 1..Len(Tail(q))}
  BY <1>1, MembersOf
<1>4. QED
  BY <1>1, <1>2, <1>3

LEMMA Singles ==
  ASSUME NEW S, NEW m \in S
  PROVE  /\ <<m>> \in Seq(S) /\ ToSet(<<m>>) = {m}
         /\ ToSet(<<>>) = {} /\ <<>> \in Seq(S)
<1>1. <<m>> \in Seq(S) /\ Len(<<m>>) = 1 /\ <<m>>[1] = m
  OBVIOUS
<1>2. QED
  BY <1>1 DEF ToSet
------------------------------------------------------------------------------
(* The wire: requests, their responses and the handler that waits *)

HandlerOk(h) ==
  /\ h \in Handlers
  /\ h.op \in OfTurns => h.turn \in Turns /\ h.thread = ThreadOf[h.turn]
  /\ h.at \in Methods \cup {"mapping", "unmapping"} => h.thread \in Threads
  /\ h.at \in {"thread/start", "turn/start"} => h.op = "turn_start"
  /\ h.at \in (Methods \ {"thread/start"}) \cup {"mapping"} => h.app # 0
  /\ h.at = "mapping" => h.op \in {"turn_start", "turn_steer", "thread_resume"}

LEMMA Going ==
  ASSUME NEW h \in Handlers, h.thread \in Threads, NEW at \in Methods \cup {"mapping", "unmapping"},
         h.op \in OfTurns => h.turn \in Turns /\ h.thread = ThreadOf[h.turn],
         at \in {"thread/start", "turn/start"} => h.op = "turn_start",
         at \notin {"thread/start", "unmapping"} => h.app # 0,
         at = "mapping" => h.op \in {"turn_start", "turn_steer", "thread_resume"}
  PROVE  HandlerOk([h EXCEPT !.at = at]) /\ [h EXCEPT !.at = at].at = at
<1> DEFINE g == [h EXCEPT !.at = at]
<1>1. g \in Handlers /\ g.at = at /\ g.op = h.op /\ g.thread = h.thread /\ g.turn = h.turn /\ g.app = h.app
  BY DEF Handlers
<1>2. at \in (Methods \ {"thread/start"}) \cup {"mapping"} => at \notin {"thread/start", "unmapping"}
  BY DEF Methods
<1> HIDE DEF g
<1>3. HandlerOk(g)
  BY <1>1, <1>2 DEF HandlerOk
<1>4. QED
  BY <1>1, <1>3 DEF g

LEMMA IdleOk == HandlerOk(Idle) /\ Idle.at = "idle" /\ "idle" \notin Methods /\ Idle.at \notin Methods
  BY DEF HandlerOk, Idle, Handlers, Methods, OfTurns, None

LEMMA FailedOk ==
  ASSUME NEW h \in Handlers, h.op = "archive" => h.thread \in Threads
  PROVE  HandlerOk(Failed(h)) /\ Failed(h).at \in {"idle", "unmapping"}
<1>1. CASE h.op = "archive"
  <2>1. HandlerOk([h EXCEPT !.at = "unmapping"]) /\ [h EXCEPT !.at = "unmapping"].at = "unmapping"
    BY <1>1, Going DEF OfTurns
  <2>2. QED
    BY <1>1, <2>1 DEF Failed
<1>2. CASE h.op # "archive"
  BY <1>2, IdleOk DEF Failed
<1>3. QED
  BY <1>1, <1>2

\* What a response says of a request that the handler waits for.
ReplyOk(h, r) ==
  r[1] = "ok" => /\ h.at = "thread/start" => r[2] \in made
                 /\ h.at = "turn/start" => r[2] \in AppTurns /\ owner[r[2]] = h.turn
RequestOk(m) ==
  /\ m[2] \in 1..(nextId - 1)
  /\ m[5] # 0 => m[4] \in Turns /\ owner[m[5]] = m[4]
  /\ m[1] = "turn/start" => m[4] \in Turns /\ m[3] # 0
  /\ m[1] = "thread/resume" => m[3] # 0
  /\ m[2] = call.id => m[1] = handler.at /\ m[4] = handler.turn
ResponseOk(o) ==
  o[2] \in 1..(nextId - 1) /\ (o[2] = call.id => ReplyOk(handler, o[3]))

RpcInv ==
  /\ HandlerOk(handler)
  /\ call \in [id : Nat, reply : Replies \cup {<<>>}] /\ nextId \in Nat \ {0} /\ call.id < nextId
  /\ call.id # 0 <=> handler.at \in Methods
  /\ call.reply # <<>> => call.id # 0 /\ ReplyOk(handler, call.reply)
PipesInv ==
  /\ stdin \in Seq(Inputs) /\ stdout \in Seq(Outputs)
  /\ \A m \in ToSet(stdin) : m[1] # "answer" => RequestOk(m)
  /\ \A o \in ToSet(stdout) : o[1] = "response" => ResponseOk(o)
OwnersInv ==
  /\ home \in [AppTurns -> AppThreads \cup {0}] /\ owner \in [AppTurns -> Turns \cup {None}]
  /\ made \subseteq AppThreads /\ loaded \subseteq AppThreads /\ running \subseteq AppTurns
  /\ openAsks \subseteq Asks
  /\ \A u \in AppTurns : home[u] = 0 <=> owner[u] = None
WireInv == RpcInv /\ PipesInv /\ OwnersInv

\* A request goes out under an id that nothing on the pipes carries.
LEMMA Calling ==
  ASSUME RpcInv, PipesInv, NEW h \in Handlers, NEW method \in Methods, NEW u \in AppTurns \cup {0},
         HandlerOk([h EXCEPT !.at = method]), h.op = "archive" => h.thread \in Threads,
         u # 0 => h.turn \in Turns /\ owner[u] = h.turn,
         Call(h, method, u), UNCHANGED <<stdout, owner, made>>
  PROVE  RpcInv' /\ PipesInv'
<1>0. HandlerOk(Failed(h)) /\ Failed(h).at \notin Methods
  BY FailedOk DEF Methods
<1>1. CASE ~alive
  <2>1. handler' = Failed(h) /\ call' = NoCall /\ nextId' = nextId /\ stdin' = stdin
    BY <1>1 DEF Call
  <2>2. RpcInv'
    BY <1>0, <2>1 DEF RpcInv, HandlerOk, NoCall
  <2>3. PipesInv'
    BY <2>1 DEF PipesInv, RequestOk, ResponseOk, NoCall
  <2>4. QED
    BY <2>2, <2>3
<1>2. CASE alive
  <2>0. PICK m : m = <<method, nextId, h.app, h.turn, u>>
    OBVIOUS
  <2>1. /\ handler' = [h EXCEPT !.at = method] /\ call' = [id |-> nextId, reply |-> <<>>]
        /\ nextId' = nextId + 1 /\ stdin' = Append(stdin, m)
    BY <1>2, <2>0 DEF Call
  <2>2. RpcInv'
    <3>1. handler'.at = method
      BY <2>1 DEF Handlers
    <3>2. QED
      BY <2>1, <3>1 DEF RpcInv, HandlerOk
  <2>3. m \in Inputs
    BY <2>0 DEF Inputs, Requests, Handlers, RpcInv
  <2>4. stdin' \in Seq(Inputs) /\ ToSet(stdin') = ToSet(stdin) \cup {m}
    <3>1. stdin \in Seq(Inputs)
      BY DEF PipesInv
    <3>2. QED
      BY <2>1, <2>3, <3>1, MembersAppended
  <2>5. RequestOk(m)'
    <3>1. m[1] = method /\ m[2] = nextId /\ m[3] = h.app /\ m[4] = h.turn /\ m[5] = u
      BY <2>0
    <3>2. handler'.at = method /\ handler'.turn = h.turn /\ handler'.app = h.app
      BY <2>1 DEF Handlers
    <3>3. method = "turn/start" => h.turn \in Turns
      BY DEF HandlerOk, Handlers, OfTurns
    <3>4. method \in {"turn/start", "thread/resume"} => h.app # 0
      BY DEF HandlerOk, Handlers, Methods
    <3>5. nextId \in 1..(nextId' - 1)
      BY <2>1 DEF RpcInv
    <3>6. QED
      BY <3>1, <3>2, <3>3, <3>4, <3>5 DEF RequestOk
  <2>6. ASSUME NEW n \in ToSet(stdin), n[1] # "answer" PROVE RequestOk(n)'
    BY <2>1, <2>6 DEF PipesInv, RequestOk, RpcInv
  <2>7. ASSUME NEW o \in ToSet(stdout), o[1] = "response" PROVE ResponseOk(o)'
    BY <2>1, <2>7 DEF PipesInv, ResponseOk, RpcInv
  <2>8. PipesInv'
    BY <2>4, <2>5, <2>6, <2>7 DEF PipesInv
  <2>9. QED
    BY <2>2, <2>8
<1>3. QED
  BY <1>1, <1>2 DEF Call

\* A handler that waits for nothing; an answer to the app-server may go out.
LEMMA Resting ==
  ASSUME RpcInv, PipesInv, HandlerOk(handler'), handler'.at \notin Methods,
         call' = NoCall \/ (call' = call /\ call.id = 0),
         UNCHANGED <<nextId, stdout, owner, made>>,
         stdin' = stdin \/ \E i \in Asks \cup {0} : stdin' = Append(stdin, <<"answer", i>>)
  PROVE  RpcInv' /\ PipesInv'
<1>1. call'.id = 0 /\ call'.reply = <<>>
  BY DEF NoCall, RpcInv
<1>2. RpcInv'
  BY <1>1 DEF RpcInv, NoCall, HandlerOk
<1>3. stdin' \in Seq(Inputs) /\ \A n \in ToSet(stdin') : n \in ToSet(stdin) \/ n[1] = "answer"
  <2>1. CASE stdin' = stdin
    BY <2>1 DEF PipesInv
  <2>2. ASSUME NEW i \in Asks \cup {0}, stdin' = Append(stdin, <<"answer", i>>) 
        PROVE  stdin' \in Seq(Inputs) /\ \A n \in ToSet(stdin') : n \in ToSet(stdin) \/ n[1] = "answer"
    <3>1. <<"answer", i>> \in Inputs
      BY DEF Inputs
    <3>2. stdin \in Seq(Inputs)
      BY DEF PipesInv
    <3>3. stdin' \in Seq(Inputs) /\ ToSet(stdin') = ToSet(stdin) \cup {<<"answer", i>>}
      BY <2>2, <3>1, <3>2, MembersAppended
    <3>4. QED
      BY <3>3
  <2>3. QED
    BY <2>1, <2>2
<1>4. PipesInv'
  BY <1>1, <1>3 DEF PipesInv, RequestOk, ResponseOk
<1>5. QED
  BY <1>2, <1>4

\* Steps that neither make a request nor answer one.
LEMMA Passing ==
  ASSUME RpcInv, PipesInv, UNCHANGED <<handler, call, nextId, owner, made>>,
         stdin' \in Seq(Inputs), \A m \in ToSet(stdin') : m \in ToSet(stdin) \/ m[1] = "answer",
         stdout' \in Seq(Outputs), \A o \in ToSet(stdout') : o \in ToSet(stdout) \/ o[1] # "response"
  PROVE  RpcInv' /\ PipesInv'
<1>1. RpcInv'
  BY DEF RpcInv, HandlerOk, ReplyOk
<1>2. PipesInv'
  BY DEF PipesInv, RequestOk, ResponseOk, ReplyOk
<1>3. QED
  BY <1>1, <1>2
------------------------------------------------------------------------------
\* What turn_steer holds until it binds it, and what the server knows of earlier sessions.
SteerOk == handler.at = "mapping" /\ handler.op = "turn_steer" =>
             handler.appTurn \in AppTurns /\ owner[handler.appTurn] = handler.turn
EarlierOk == \A t \in Turns : KnownTurn[t] # 0 => owner[KnownTurn[t]] = t

TablesOk ==
  /\ threadMap \in [Threads -> AppThreads \cup {0}] /\ reverseMap \in [AppThreads -> Threads \cup {None}]
  /\ turnMap \in [Turns -> AppTurns \cup {0}] /\ reverseTurn \in [AppTurns -> Turns \cup {None}]
  /\ bound \in [Threads -> AppThreads \cup {0}]
  /\ \A t \in Turns : turnMap[t] # 0 => owner[turnMap[t]] = t
  /\ \A u \in AppTurns : reverseTurn[u] # None => owner[u] = reverseTurn[u]
  /\ SteerOk /\ EarlierOk

\* A turn that the server names was started for the turn it is named for.
LEMMA Told ==
  ASSUME TablesOk, NEW t \in Turns, NEW named \in ToldTurns(t) \cup {0}
  PROVE  /\ named \in AppTurns \cup {0} /\ AppTurn(t, named) \in AppTurns \cup {0}
         /\ AppTurn(t, named) # 0 => owner[AppTurn(t, named)] = t
<1>1. KnownTurn[t] \in AppTurns \cup {0} /\ t # None
  BY CodexConstants
<1>2. named \in AppTurns \cup {0} /\ (named # 0 => owner[named] = t)
  BY <1>1 DEF ToldTurns, TablesOk, EarlierOk
<1>3. QED
  BY <1>2 DEF AppTurn, TablesOk

\* The handler of turn_steer, with the turn it binds.
LEMMA Steered ==
  ASSUME NEW h \in Handlers, NEW u \in AppTurns \cup {0}, NEW g, g = [h EXCEPT !.appTurn = u]
  PROVE  /\ g \in Handlers /\ g.at = h.at /\ g.op = h.op /\ g.thread = h.thread /\ g.turn = h.turn
         /\ g.app = h.app /\ g.retried = h.retried /\ g.ask = h.ask /\ g.appTurn = u
  BY DEF Handlers

LEMMA Begun ==
  ASSUME TablesOk, NEW op \in OfTurns \cup {"thread_resume", "archive", "unarchive"}, NEW x \in Threads,
         NEW t \in Turns \cup {None}, NEW given \in AppThreads \cup {0},
         NEW h, h = Request(op, x, t, given)
  PROVE  /\ h \in Handlers /\ h.op = op /\ h.thread = x /\ h.turn = t /\ ~h.retried /\ h.at = "idle" /\ h.ask = 0
         /\ h.app \in {given, threadMap[x]} /\ h.app \in AppThreads \cup {0}
<1>1. h = [at |-> "idle", op |-> op, thread |-> x, turn |-> t,
           app |-> IF given # 0 THEN given ELSE threadMap[x], appTurn |-> 0, retried |-> FALSE, ask |-> 0, reply |-> None]
  BY DEF Request, Idle
<1>2. threadMap[x] \in AppThreads \cup {0}
  BY DEF TablesOk
<1>3. QED
  BY <1>1, <1>2 DEF Handlers, OfTurns

LEMMA Starting ==
  ASSUME RpcInv, PipesInv, TablesOk, NEW t \in Turns, NEW given \in AppThreads \cup {0},
         NEW named \in ToldTurns(t) \cup {0},
         TurnStart(t, given) \/ TurnSteer(t, given, named) \/ TurnCancel(t, given, named)
  PROVE  RpcInv' /\ PipesInv'
<1>0. ThreadOf[t] \in Threads /\ handler = Idle /\ UNCHANGED <<stdout, owner, made>>
  BY CodexConstants DEF TurnStart, TurnSteer, TurnCancel, Begins, pipes, server, process
<1>1. call.id = 0
  BY <1>0 DEF RpcInv, Idle, Methods
<1>2. ASSUME NEW h \in Handlers, h.op \in {"turn_start", "turn_steer"}, h.thread = ThreadOf[t], h.turn = t, h.app # 0,
             MapThread(h), UNCHANGED <<call, nextId, stdin>>
      PROVE  RpcInv' /\ PipesInv'
  <2>1. HandlerOk([h EXCEPT !.at = "mapping"]) /\ h \in Handlers
    BY <1>0, <1>2, Going
  <2>2. handler' = [h EXCEPT !.at = "mapping"] /\ handler'.at = "mapping"
    BY <1>2, <2>1 DEF MapThread, Handlers
  <2>3. QED
    BY <1>0, <1>1, <1>2, <2>1, <2>2, Resting DEF Methods
<1>3. CASE TurnStart(t, given)
  <2>0. PICK h : h = Request("turn_start", ThreadOf[t], t, given)
    OBVIOUS
  <2>1. h \in Handlers /\ h.op = "turn_start" /\ h.thread = ThreadOf[t] /\ h.turn = t
    BY <1>0, <2>0, Begun DEF OfTurns
  <2>2. /\ h \in Handlers /\ h.op = "turn_start" /\ HandlerOk([h EXCEPT !.at = "thread/start"])
    BY <1>0, <2>1, Going DEF Methods
  <2>3. CASE Call(h, "thread/start", 0)
    BY <1>0, <2>2, <2>3, Calling DEF Methods
  <2>4. CASE h.app # 0 /\ MapThread(h) /\ UNCHANGED <<call, nextId, stdin>>
    BY <1>2, <2>1, <2>4
  <2>5. QED
    BY <1>3, <2>0, <2>3, <2>4 DEF TurnStart
<1>4. CASE TurnSteer(t, given, named)
  <2>0. PICK h, u, g : h = Request("turn_steer", ThreadOf[t], t, given) /\ u = AppTurn(t, named) /\ g = [h EXCEPT !.appTurn = u]
    OBVIOUS
  <2>1. h \in Handlers /\ h.op = "turn_steer" /\ h.thread = ThreadOf[t] /\ h.turn = t
    BY <1>0, <2>0, Begun DEF OfTurns
  <2>2. h.app # 0 /\ MapThread(g) /\ UNCHANGED <<call, nextId, stdin>>
    BY <1>4, <2>0 DEF TurnSteer, pipes
  <2>3. /\ g \in Handlers /\ g.op = "turn_steer" /\ g.thread = ThreadOf[t] /\ g.turn = t /\ g.app # 0
    BY <2>0, <2>1, <2>2, Told, Steered
  <2>4. QED
    BY <1>2, <2>2, <2>3
<1>5. CASE TurnCancel(t, given, named)
  <2>0. PICK h, u : h = Request("turn_cancel", ThreadOf[t], t, given) /\ u = AppTurn(t, named)
    OBVIOUS
  <2>1. h.app # 0 /\ u # 0 /\ Call(h, "turn/interrupt", u)
    BY <1>5, <2>0 DEF TurnCancel
  <2>2. h \in Handlers /\ h.op = "turn_cancel" /\ h.thread = ThreadOf[t] /\ h.turn = t
    BY <1>0, <2>0, Begun DEF OfTurns
  <2>3. h \in Handlers /\ h.op = "turn_cancel" /\ h.turn = t /\ HandlerOk([h EXCEPT !.at = "turn/interrupt"])
    BY <1>0, <2>1, <2>2, Going DEF Methods
  <2>4. u \in AppTurns /\ owner[u] = t
    BY <2>0, <2>1, Told
  <2>5. QED
    BY <1>0, <2>1, <2>3, <2>4, Calling DEF Methods
<1>6. QED
  BY <1>3, <1>4, <1>5

LEMMA Managing ==
  ASSUME RpcInv, PipesInv, TablesOk, NEW x \in Threads, NEW given \in AppThreads \cup {0},
         ThreadResume(x, given) \/ ThreadArchive(x, given) \/ ThreadUnarchive(x, given)
  PROVE  RpcInv' /\ PipesInv'
<1>0. handler = Idle /\ UNCHANGED <<stdout, owner, made>>
  BY DEF ThreadResume, ThreadArchive, ThreadUnarchive, Begins, pipes, server, process
<1>1. call.id = 0
  BY <1>0 DEF RpcInv, Idle, Methods
<1>2. CASE ThreadResume(x, given)
  <2>0. PICK h : h = Request("thread_resume", x, None, given)
    OBVIOUS
  <2>1. h.app # 0 /\ MapThread(h) /\ UNCHANGED <<call, nextId, stdin>>
    BY <1>2, <2>0 DEF ThreadResume, pipes
  <2>2. h \in Handlers /\ h.op = "thread_resume" /\ h.thread = x
    BY <1>0, <2>0, Begun DEF OfTurns
  <2>3. HandlerOk([h EXCEPT !.at = "mapping"]) /\ h \in Handlers
    BY <2>1, <2>2, Going DEF OfTurns
  <2>4. handler' = [h EXCEPT !.at = "mapping"] /\ handler'.at = "mapping"
    BY <2>1, <2>3 DEF MapThread, Handlers
  <2>5. QED
    BY <1>0, <1>1, <2>1, <2>3, <2>4, Resting DEF Methods
<1>3. CASE ThreadArchive(x, given)
  <2>0. PICK h : h = Request("archive", x, None, given)
    OBVIOUS
  <2>1. \/ h.app # 0 /\ Call(h, "thread/archive", 0)
        \/ h.app = 0 /\ handler' = Failed(h) /\ UNCHANGED <<call, nextId, stdin>>
    BY <1>3, <2>0 DEF ThreadArchive
  <2>2. /\ h \in Handlers /\ h.op = "archive" /\ h.thread = x
        /\ HandlerOk(Failed(h)) /\ Failed(h).at \in {"idle", "unmapping"}
        /\ h.app # 0 => HandlerOk([h EXCEPT !.at = "thread/archive"])
    <3>1. h \in Handlers /\ h.op = "archive" /\ h.thread = x
      BY <1>0, <2>0, Begun DEF OfTurns
    <3>2. h.app # 0 => HandlerOk([h EXCEPT !.at = "thread/archive"])
      BY <3>1, Going DEF OfTurns, Methods
    <3>3. QED
      BY <3>1, <3>2, FailedOk
  <2>3. CASE h.app # 0 /\ Call(h, "thread/archive", 0)
    BY <1>0, <2>2, <2>3, Calling DEF Methods
  <2>4. CASE h.app = 0 /\ handler' = Failed(h) /\ UNCHANGED <<call, nextId, stdin>>
    BY <1>0, <1>1, <2>2, <2>4, Resting DEF Methods
  <2>5. QED
    BY <2>1, <2>3, <2>4
<1>4. CASE ThreadUnarchive(x, given)
  <2>0. PICK h : h = Request("unarchive", x, None, given)
    OBVIOUS
  <2>1. h.app # 0 /\ Call(h, "thread/unarchive", 0)
    BY <1>4, <2>0 DEF ThreadUnarchive
  <2>2. h \in Handlers /\ h.op = "unarchive" /\ h.thread = x
    BY <1>0, <2>0, Begun DEF OfTurns
  <2>3. h \in Handlers /\ h.op = "unarchive" /\ HandlerOk([h EXCEPT !.at = "thread/unarchive"])
    BY <2>1, <2>2, Going DEF OfTurns, Methods
  <2>4. QED
    BY <1>0, <2>1, <2>3, Calling DEF Methods
<1>5. QED
  BY <1>2, <1>3, <1>4

\* What the handler holds while it waits or binds a thread.
LEMMA Underway ==
  ASSUME RpcInv, handler.at \in Methods \cup {"mapping", "unmapping"}
  PROVE  /\ handler \in Handlers /\ handler.thread \in Threads
         /\ handler.op \in OfTurns => handler.turn \in Turns /\ handler.thread = ThreadOf[handler.turn]
         /\ handler.at \notin {"thread/start", "unmapping"} => handler.app # 0
         /\ handler.at \in {"thread/start", "turn/start"} => handler.op = "turn_start"
         /\ handler.at = "mapping" => handler.op \in {"turn_start", "turn_steer", "thread_resume"}
  BY DEF RpcInv, HandlerOk

LEMMA Waiting ==
  ASSUME RpcInv, NEW method, Returned(method), method \in Methods
  PROVE  /\ handler.at = method /\ ReplyOk(handler, call.reply)
         /\ call.reply \in Replies
  BY DEF RpcInv, Returned

LEMMA MappedWire ==
  ASSUME RpcInv, PipesInv, TablesOk, Mapped
  PROVE  RpcInv' /\ PipesInv'
<1>0. handler.at = "mapping" /\ UNCHANGED <<stdout, owner, made>>
  BY DEF Mapped, server, process
<1>1. /\ handler \in Handlers /\ handler.thread \in Threads /\ handler.app # 0
      /\ handler.op \in OfTurns => handler.turn \in Turns /\ handler.thread = ThreadOf[handler.turn]
      /\ handler.op \in {"turn_start", "turn_steer", "thread_resume"}
  BY <1>0, Underway
<1>2. CASE handler.op = "turn_start" /\ Call(handler, "turn/start", 0)
  <2>1. HandlerOk([handler EXCEPT !.at = "turn/start"])
    BY <1>1, <1>2, Going DEF Methods
  <2>2. QED
    BY <1>0, <1>1, <1>2, <2>1, Calling DEF Methods
<1>3. CASE handler.op = "turn_steer" /\ Call(handler, "turn/steer", handler.appTurn)
  <2>1. HandlerOk([handler EXCEPT !.at = "turn/steer"])
    BY <1>1, <1>3, Going DEF Methods
  <2>2. handler.turn \in Turns
    BY <1>1, <1>3 DEF OfTurns
  <2>3. handler.appTurn \in AppTurns /\ owner[handler.appTurn] = handler.turn
    BY <1>0, <1>3 DEF TablesOk, SteerOk
  <2>4. QED
    BY <1>0, <1>1, <1>3, <2>1, <2>2, <2>3, Calling DEF Methods
<1>4. CASE Call(handler, "thread/resume", 0)
  <2>1. HandlerOk([handler EXCEPT !.at = "thread/resume"])
    BY <1>1, Going DEF Methods
  <2>2. QED
    BY <1>0, <1>1, <1>4, <2>1, Calling DEF Methods
<1>5. QED
  BY <1>2, <1>3, <1>4 DEF Mapped

LEMMA ThreadStartedWire ==
  ASSUME RpcInv, PipesInv, OwnersInv, ThreadStarted
  PROVE  RpcInv' /\ PipesInv'
<1>0. Returned("thread/start") /\ UNCHANGED <<stdout, owner, made>>
  BY DEF ThreadStarted, server, process
<1>1. /\ handler.at = "thread/start" /\ ReplyOk(handler, call.reply) /\ call.reply \in Replies
      /\ handler \in Handlers /\ handler.thread \in Threads /\ handler.op = "turn_start"
      /\ handler.turn \in Turns /\ handler.thread = ThreadOf[handler.turn]
  BY <1>0, Waiting, Underway DEF Methods, OfTurns
<1>2. CASE Ok /\ Call([handler EXCEPT !.app = call.reply[2]], "turn/start", 0)
  <2>1. call.reply[2] \in AppThreads /\ call.reply[2] # 0
    BY <1>1, <1>2 DEF Ok, ReplyOk, OwnersInv, AppThreads
  <2>2. PICK h : h = [handler EXCEPT !.app = call.reply[2]]
    OBVIOUS
  <2>3. /\ h \in Handlers /\ h.thread = handler.thread /\ h.op = "turn_start" /\ h.app # 0
        /\ h.turn = handler.turn
    BY <1>1, <2>1, <2>2 DEF Handlers
  <2>4. HandlerOk([h EXCEPT !.at = "turn/start"])
    BY <1>1, <2>3, Going DEF Methods
  <2>5. QED
    BY <1>0, <1>2, <2>2, <2>3, <2>4, Calling DEF Methods
<1>3. CASE handler' = Idle /\ call' = NoCall /\ UNCHANGED <<nextId, stdin>>
  BY <1>0, <1>3, IdleOk, Resting
<1>4. QED
  BY <1>2, <1>3 DEF ThreadStarted

LEMMA TurnStartedWire ==
  ASSUME RpcInv, PipesInv, TurnStarted
  PROVE  RpcInv' /\ PipesInv'
<1>0. Returned("turn/start") /\ call' = NoCall /\ UNCHANGED <<stdout, owner, made, nextId, stdin>>
  BY DEF TurnStarted, server, process, pipes
<1>1. /\ handler.at = "turn/start" /\ handler \in Handlers /\ handler.thread \in Threads
      /\ handler.op = "turn_start" /\ handler.app # 0
      /\ handler.turn \in Turns /\ handler.thread = ThreadOf[handler.turn]
  BY <1>0, Waiting, Underway DEF Methods, OfTurns
<1>2. CASE handler' = Idle
  BY <1>0, <1>2, IdleOk, Resting
<1>3. CASE MapThread([handler EXCEPT !.retried = TRUE])
  <2>1. PICK h : h = [handler EXCEPT !.retried = TRUE]
    OBVIOUS
  <2>2. /\ h \in Handlers /\ h.thread = handler.thread /\ h.op = "turn_start" /\ h.app # 0
        /\ h.turn = handler.turn
    BY <1>1, <2>1 DEF Handlers
  <2>3. HandlerOk([h EXCEPT !.at = "mapping"]) /\ [h EXCEPT !.at = "mapping"].at = "mapping"
    BY <1>1, <2>2, Going
  <2>4. handler' = [h EXCEPT !.at = "mapping"]
    BY <1>3, <2>1 DEF MapThread
  <2>5. QED
    BY <1>0, <2>3, <2>4, Resting DEF Methods
<1>4. QED
  BY <1>2, <1>3 DEF TurnStarted

LEMMA ResumedWire ==
  ASSUME RpcInv, PipesInv, Resumed
  PROVE  RpcInv' /\ PipesInv'
<1>0. Returned("thread/resume") /\ UNCHANGED <<stdout, owner, made>>
  BY DEF Resumed, server, process
<1>1. /\ handler.at = "thread/resume" /\ handler \in Handlers /\ handler.thread \in Threads /\ handler.app # 0
      /\ handler.op \in OfTurns => handler.turn \in Turns /\ handler.thread = ThreadOf[handler.turn]
  BY <1>0, Waiting, Underway DEF Methods
<1>2. CASE handler.op = "turn_start" /\ Call(handler, "turn/start", 0)
  <2>1. HandlerOk([handler EXCEPT !.at = "turn/start"])
    BY <1>1, <1>2, Going DEF Methods
  <2>2. QED
    BY <1>0, <1>1, <1>2, <2>1, Calling DEF Methods
<1>3. CASE handler' = Idle /\ call' = NoCall /\ UNCHANGED <<nextId, stdin>>
  BY <1>0, <1>3, IdleOk, Resting
<1>4. QED
  BY <1>2, <1>3 DEF Resumed

LEMMA RestingSteps ==
  ASSUME RpcInv, PipesInv,
         \/ TimesOut \/ Answered \/ Archived \/ SendAnswer \/ Remember
         \/ \E i \in Asks, d \in Decisions : Respond(i, d)
  PROVE  RpcInv' /\ PipesInv'
<1>1. CASE TimesOut
  <2>1. /\ handler' = Failed(handler) /\ call' = NoCall
        /\ UNCHANGED <<nextId, stdout, stdin, owner, made>> /\ handler.at \in Methods
    BY <1>1 DEF TimesOut, RpcInv, pipes, server, process
  <2>2. HandlerOk(Failed(handler)) /\ Failed(handler).at \notin Methods
    BY <2>1, Underway, FailedOk DEF Methods
  <2>3. QED
    BY <2>1, <2>2, Resting
<1>2. CASE Answered \/ Archived
  <2>1. handler' = Idle /\ call' = NoCall /\ UNCHANGED <<nextId, stdout, stdin, owner, made>>
    BY <1>2 DEF Answered, Archived, pipes, server, process
  <2>2. QED
    BY <2>1, IdleOk, Resting
<1>3. CASE SendAnswer
  <2>1. handler.at = "answering" /\ UNCHANGED <<call, nextId, stdout, owner, made>> /\ call.id = 0
    BY <1>3 DEF SendAnswer, server, process, RpcInv, Methods
  <2>2. CASE alive
    <3>1. handler' = [handler EXCEPT !.at = "answered"] /\ handler \in Handlers
      BY <1>3, <2>2 DEF SendAnswer, RpcInv, HandlerOk
    <3>2. HandlerOk(handler') /\ handler'.at \notin Methods
      <4>1. handler' \in Handlers /\ handler'.at = "answered" /\ handler'.op = handler.op /\ handler'.turn = handler.turn
            /\ handler'.thread = handler.thread
        BY <3>1 DEF Handlers
      <4>2. QED
        BY <4>1 DEF HandlerOk, RpcInv, Methods
    <3>3. stdin' = Append(stdin, <<"answer", handler.ask>>) /\ handler.ask \in Asks \cup {0}
      BY <1>3, <2>2, <3>1 DEF SendAnswer, Handlers
    <3>4. QED
      BY <2>1, <3>2, <3>3, Resting
  <2>3. CASE ~alive
    BY <1>3, <2>1, <2>3, IdleOk, Resting DEF SendAnswer
  <2>4. QED
    BY <2>2, <2>3
<1>4. CASE Remember
  <2>1. /\ handler' = Idle /\ UNCHANGED <<call, nextId, stdout, stdin, owner, made>> /\ call.id = 0
    BY <1>4 DEF Remember, pipes, server, process, RpcInv, Methods
  <2>2. QED
    BY <2>1, IdleOk, Resting
<1>5. ASSUME NEW i \in Asks, NEW d \in Decisions, Respond(i, d) PROVE RpcInv' /\ PipesInv'
  <2>1. /\ handler = Idle /\ UNCHANGED <<call, nextId, stdout, stdin, owner, made>>
        /\ handler' = [Idle EXCEPT !.at = "answering", !.op = "respond", !.ask = i, !.reply = d]
    BY <1>5 DEF Respond, pipes, server, process
  <2>2. call.id = 0
    BY <2>1, IdleOk DEF RpcInv
  <2>3. handler' = [at |-> "answering", op |-> "respond", thread |-> None, turn |-> None, app |-> 0,
                    appTurn |-> 0, retried |-> FALSE, ask |-> i, reply |-> d]
    BY <2>1 DEF Idle
  <2>4. HandlerOk(handler') /\ handler'.at \notin Methods
    BY <2>3 DEF HandlerOk, Handlers, Methods, OfTurns
  <2>5. QED
    BY <2>1, <2>2, <2>4, Resting
<1>6. QED
  BY <1>1, <1>2, <1>3, <1>4, <1>5

\* What may be written to the app-server's output, by kind.
LEMMA OutputKinds ==
  /\ \A i \in Asks : <<"ask", i>> \in Outputs /\ <<"resolved", i>> \in Outputs
  /\ \A u \in AppTurns : <<"turn", u>> \in Outputs
  /\ \A a \in AppThreads : <<"closed", a>> \in Outputs
  /\ \A i \in Items, n \in 1..MaxFragments : <<"delta", i, n>> \in Outputs
  /\ \A i \in Items, given \in BOOLEAN : <<"message", i, given>> \in Outputs
  /\ \A n \in Nat, r \in Replies : <<"response", n, r>> \in Outputs
<1>1. \A i \in Items, n \in 1..MaxFragments : <<"delta", i, n>> \in Outputs
  BY CodexConstants DEF Outputs
<1>2. QED
  BY <1>1 DEF Outputs

LEMMA ReaderWire ==
  ASSUME RpcInv, PipesInv, Reader
  PROVE  RpcInv' /\ PipesInv'
<1>0. stdin \in Seq(Inputs) /\ stdout \in Seq(Outputs)
  BY DEF PipesInv
<1>1. CASE ReadResponse
  <2>1. stdout # <<>> /\ Head(stdout)[1] = "response" /\ stdout' = Tail(stdout)
    BY <1>1 DEF ReadResponse, Reads
  <2>2. PICK o \in ToSet(stdout) : o = Head(stdout) /\ o \in Outputs
    BY <1>0, <2>1, MembersLeft
  <2>3. o[1] = "response" /\ o[3] \in Replies
    BY <2>1, <2>2 DEF Outputs
  <2>4. ResponseOk(o)
    BY <2>2, <2>3 DEF PipesInv
  <2>5. /\ UNCHANGED <<handler, nextId, stdin, owner, made>>
        /\ call' = IF call.id = o[2] THEN [call EXCEPT !.reply = o[3]] ELSE call
    BY <1>1, <2>2 DEF ReadResponse, server, process
  <2>6. call'.id = call.id /\ (call'.reply = call.reply \/ (call.id = o[2] /\ call'.reply = o[3]))
        /\ call' \in [id : Nat, reply : Replies \cup {<<>>}]
    BY <2>3, <2>5 DEF RpcInv
  <2>7. call.id = o[2] => call.id # 0 /\ ReplyOk(handler, o[3])
    BY <2>4 DEF ResponseOk, RpcInv
  <2>8. RpcInv'
    BY <2>5, <2>6, <2>7 DEF RpcInv, HandlerOk, ReplyOk
  <2>9. PipesInv'
    <3>1. stdout' \in Seq(Outputs) /\ ToSet(stdout') \subseteq ToSet(stdout)
      BY <1>0, <2>1, MembersLeft
    <3>2. QED
      BY <2>5, <2>6, <3>1 DEF PipesInv, RequestOk, ResponseOk, ReplyOk
  <2>10. QED
    BY <2>8, <2>9
<1>2. CASE ReadTurn \/ ReadDelta \/ ReadMessage \/ ReadAsk \/ ReadResolved \/ ReadClosed
  <2>1. stdout # <<>> /\ stdout' = Tail(stdout)
    BY <1>2 DEF ReadTurn, ReadDelta, ReadMessage, ReadAsk, ReadResolved, ReadClosed, Reads
  <2>2. stdout' \in Seq(Outputs) /\ ToSet(stdout') \subseteq ToSet(stdout)
    BY <1>0, <2>1, MembersLeft
  <2>3. UNCHANGED <<handler, call, nextId, owner, made>>
    BY <1>2 DEF ReadTurn, ReadDelta, ReadMessage, ReadAsk, ReadResolved, ReadClosed, rpc, server, process
  <2>4. stdin' = stdin \/ \E i \in Asks : stdin' = Append(stdin, <<"answer", i>>)
    <3>1. CASE ReadAsk
      <4>1. Head(stdout) \in Outputs /\ Head(stdout)[1] = "ask"
        BY <1>0, <3>1, <2>1, MembersLeft DEF ReadAsk, Reads
      <4>2. Head(stdout)[2] \in Asks
        BY <4>1 DEF Outputs
      <4>3. QED
        BY <3>1, <4>2 DEF ReadAsk
    <3>2. QED
      BY <1>2, <3>1 DEF ReadTurn, ReadDelta, ReadMessage, ReadResolved, ReadClosed
  <2>5. stdin' \in Seq(Inputs) /\ \A m \in ToSet(stdin') : m \in ToSet(stdin) \/ m[1] = "answer"
    <3>1. ASSUME NEW i \in Asks, stdin' = Append(stdin, <<"answer", i>>)
          PROVE  stdin' \in Seq(Inputs) /\ ToSet(stdin') = ToSet(stdin) \cup {<<"answer", i>>}
      <4>1. <<"answer", i>> \in Inputs
        BY DEF Inputs
      <4>2. QED
        BY <1>0, <3>1, <4>1, MembersAppended
    <3>2. QED
      BY <1>0, <2>4, <3>1
  <2>6. QED
    BY <2>2, <2>3, <2>5, Passing
<1>3. CASE Emit
  <2>1. UNCHANGED <<handler, call, nextId, stdin, stdout, owner, made>>
    BY <1>3 DEF Emit, rpc, pipes, server, process
  <2>2. QED
    BY <1>0, <2>1, Passing
<1>4. QED
  BY <1>1, <1>2, <1>3 DEF Reader

LEMMA EndsOutput ==
  ASSUME OwnersInv, NEW u \in AppTurns
  PROVE  /\ Ends(u) \in Seq(Outputs)
         /\ \A o \in ToSet(Ends(u)) : \/ o = <<"turn", u>>
                                      \/ \E i \in openAsks : asks[i][2] = u /\ o = <<"resolved", i>>
<1> DEFINE open == {i \in openAsks : asks[i][2] = u}
<1>1. <<"turn", u>> \in Outputs /\ <<<<"turn", u>>>> \in Seq(Outputs) /\ ToSet(<<<<"turn", u>>>>) = {<<"turn", u>>}
  BY OutputKinds, Singles
<1>2. Resolution(u) \in Seq(Outputs) /\ \A o \in ToSet(Resolution(u)) : \E i \in open : o = <<"resolved", i>>
  <2>1. CASE open = {}
    BY <1>1, <2>1, Singles DEF Resolution
  <2>2. CASE open # {}
    <3>1. PICK i \in open : Resolution(u) = <<<<"resolved", i>>>>
      BY <2>2 DEF Resolution
    <3>2. <<"resolved", i>> \in Outputs
      BY OutputKinds DEF OwnersInv
    <3>3. QED
      BY <3>1, <3>2, Singles
  <2>3. QED
    BY <2>1, <2>2
<1>3. Ends(u) = Resolution(u) \o <<<<"turn", u>>>>
  BY DEF Ends
<1>4. Ends(u) \in Seq(Outputs) /\ ToSet(Ends(u)) = ToSet(Resolution(u)) \cup {<<"turn", u>>}
  <2>1. PICK w \in Seq(Outputs) : w = <<<<"turn", u>>>> /\ ToSet(w) = {<<"turn", u>>}
    BY <1>1
  <2>2. Resolution(u) \o w \in Seq(Outputs) /\ ToSet(Resolution(u) \o w) = ToSet(Resolution(u)) \cup ToSet(w)
    BY <1>2, MembersJoined
  <2>3. QED
    BY <1>3, <2>1, <2>2
<1>5. QED
  BY <1>2, <1>4

OwnersGrow ==
  /\ \A u \in AppTurns : owner[u] # None => owner'[u] = owner[u]
  /\ made \subseteq made'

LEMMA Serving ==
  ASSUME RpcInv, PipesInv, OwnersGrow, UNCHANGED rpc,
         stdin # <<>>, stdin' = Tail(stdin), NEW n \in Nat, n \in 1..(nextId - 1),
         NEW r \in Replies, n = call.id => ReplyOk(handler, r)',
         NEW s \in Seq(Outputs), \A o \in ToSet(s) : o[1] # "response",
         stdout' = stdout \o Reply(n, r) \/ stdout' = stdout \o Reply(n, r) \o s
  PROVE  RpcInv' /\ PipesInv'
<1>0. stdin \in Seq(Inputs) /\ stdout \in Seq(Outputs)
  BY DEF PipesInv
<1>1. PICK o : o = <<"response", n, r>>
  OBVIOUS
<1>2. o \in Outputs /\ o[1] = "response" /\ o[2] = n /\ o[3] = r
  BY <1>1, OutputKinds
<1>3. PICK w \in Seq(Outputs) : w = <<o>> /\ ToSet(w) = {o} /\ Reply(n, r) = w
  BY <1>1, <1>2, Singles DEF Reply
<1>4. stdout \o w \in Seq(Outputs) /\ ToSet(stdout \o w) = ToSet(stdout) \cup ToSet(w)
  BY <1>0, MembersJoined
<1>5. PICK q \in Seq(Outputs) : q = stdout \o w /\ ToSet(q) = ToSet(stdout) \cup {o}
  BY <1>3, <1>4
<1>6. q \in Seq(Outputs)
  BY <1>5
<1>7. q \o s \in Seq(Outputs) /\ ToSet(q \o s) = ToSet(q) \cup ToSet(s)
  BY <1>6, MembersJoined
<1>8. stdout' \in Seq(Outputs) /\ \A p \in ToSet(stdout') : p \in ToSet(stdout) \/ p = o \/ p[1] # "response"
  BY <1>3, <1>5, <1>7
<1>9. /\ UNCHANGED <<handler, call, nextId>>
      /\ \A t \in Turns : t # None
  BY CodexConstants DEF rpc
<1>10. \A x : ReplyOk(handler, x) => ReplyOk(handler, x)'
  <2>1. handler.at = "turn/start" => handler.turn \in Turns
    BY DEF RpcInv, HandlerOk, OfTurns
  <2>2. QED
    BY <1>9, <2>1 DEF ReplyOk, OwnersGrow
<1>11. RpcInv'
  BY <1>9, <1>10 DEF RpcInv, HandlerOk
<1>12. stdin' \in Seq(Inputs) /\ ToSet(stdin') \subseteq ToSet(stdin)
  BY <1>0, MembersLeft
<1>13. ASSUME NEW m \in ToSet(stdin'), m[1] # "answer" PROVE RequestOk(m)'
  <2>1. m \in Inputs /\ RequestOk(m)
    BY <1>0, <1>12, <1>13, MembersOf DEF PipesInv
  <2>2. m \in Requests
    BY <1>13, <2>1 DEF Inputs
  <2>3. m[5] \in AppTurns \cup {0}
    BY <2>2 DEF Requests
  <2>4. QED
    BY <1>9, <2>1, <2>3 DEF RequestOk, OwnersGrow
<1>14. ResponseOk(o)'
  BY <1>2, <1>9 DEF ResponseOk
<1>15. ASSUME NEW p \in ToSet(stdout), p[1] = "response" PROVE ResponseOk(p)'
  BY <1>9, <1>10, <1>15 DEF PipesInv, ResponseOk
<1>16. PipesInv'
  BY <1>8, <1>12, <1>13, <1>14, <1>15 DEF PipesInv
<1>17. QED
  BY <1>11, <1>16

LEMMA Served ==
  ASSUME RpcInv, PipesInv, OwnersInv, Serve
  PROVE  /\ Head(stdin) \in ToSet(stdin) /\ Head(stdin) \in Requests /\ RequestOk(Head(stdin))
         /\ stdin # <<>> /\ stdin' = Tail(stdin) /\ UNCHANGED rpc
<1>0. stdin \in Seq(Inputs)
  BY DEF PipesInv
<1>1. stdin # <<>> /\ Head(stdin)[1] # "answer" /\ stdin' = Tail(stdin) /\ UNCHANGED rpc
  BY DEF Serve
<1>2. Head(stdin) \in ToSet(stdin) /\ Head(stdin) \in Inputs
  BY <1>0, <1>1, MembersLeft
<1>3. QED
  BY <1>1, <1>2 DEF PipesInv, Inputs

\* Only turn/start gives a turn an owner, and only one that had none.
LEMMA ServeGrows ==
  ASSUME RpcInv, PipesInv, OwnersInv, Serve
  PROVE  OwnersGrow /\ OwnersInv'
<1>1. /\ Head(stdin) \in Requests /\ RequestOk(Head(stdin))
  BY Served
<1>2. PICK m \in Requests : m = Head(stdin) /\ RequestOk(m)
  BY <1>1
<1>3. m[3] \in AppThreads \cup {0} /\ m[4] \in Turns \cup {None}
  BY <1>2 DEF Requests
<1>4. openAsks' \subseteq Asks /\ running' \subseteq AppTurns
  BY <1>2 DEF Serve, OwnersInv
<1>5. CASE UNCHANGED <<made, home, owner>> /\ loaded' \subseteq loaded \cup {m[3]} /\ (loaded' \subseteq loaded \/ m[3] # 0)
  <2>1. loaded' \subseteq AppThreads
    BY <1>3, <1>5 DEF OwnersInv
  <2>2. QED
    BY <1>4, <1>5, <2>1 DEF OwnersInv, OwnersGrow
<1>6. ASSUME NEW b \in AppThreads, made' = made \cup {b}, loaded' = loaded \cup {b}, UNCHANGED <<home, owner>>
      PROVE  OwnersGrow /\ OwnersInv'
  BY <1>4, <1>6 DEF OwnersInv, OwnersGrow
<1>7. ASSUME NEW v \in AppTurns, home[v] = 0, home' = [home EXCEPT ![v] = m[3]], owner' = [owner EXCEPT ![v] = m[4]],
             m[1] = "turn/start", UNCHANGED <<loaded, made>>
      PROVE  OwnersGrow /\ OwnersInv'
  <2>1. m[4] \in Turns /\ m[4] # None /\ m[3] # 0 /\ owner[v] = None
    BY <1>2, <1>7, CodexConstants DEF RequestOk, OwnersInv
  <2>2. home' \in [AppTurns -> AppThreads \cup {0}] /\ owner' \in [AppTurns -> Turns \cup {None}]
    BY <1>3, <1>7 DEF OwnersInv
  <2>3. \A u \in AppTurns : home'[u] = 0 <=> owner'[u] = None
    BY <1>7, <2>1 DEF OwnersInv
  <2>4. QED
    BY <1>4, <1>7, <2>1, <2>2, <2>3 DEF OwnersInv, OwnersGrow
<1>8. QED
  <2>1. \/ UNCHANGED <<made, home, owner, loaded>>
        \/ UNCHANGED <<made, home, owner>> /\ loaded' = loaded \cup {m[3]} /\ m[1] = "thread/resume"
        \/ UNCHANGED <<made, home, owner>> /\ loaded' = loaded \ {m[3]}
        \/ \E b \in AppThreads : made' = made \cup {b} /\ loaded' = loaded \cup {b} /\ UNCHANGED <<home, owner>>
        \/ \E v \in AppTurns : /\ home[v] = 0 /\ home' = [home EXCEPT ![v] = m[3]]
                               /\ owner' = [owner EXCEPT ![v] = m[4]]
                               /\ m[1] = "turn/start" /\ UNCHANGED <<loaded, made>>
    BY <1>2 DEF Serve
  <2>2. m[1] = "thread/resume" => m[3] # 0
    BY <1>2 DEF RequestOk
  <2>3. QED
    BY <1>5, <1>6, <1>7, <2>1, <2>2

LEMMA ServeWire ==
  ASSUME RpcInv, PipesInv, OwnersInv, Serve
  PROVE  RpcInv' /\ PipesInv'
<1>1. PICK m \in Requests : m = Head(stdin) /\ RequestOk(m)
  BY Served
<1>2. stdin # <<>> /\ stdin' = Tail(stdin) /\ UNCHANGED rpc /\ OwnersGrow
  BY Served, ServeGrows
<1>3. /\ m[1] \in Methods /\ m[2] \in Nat /\ m[2] \in 1..(nextId - 1)
      /\ m[2] = call.id => m[1] = handler.at /\ m[4] = handler.turn
  BY <1>1 DEF RequestOk, Requests
<1>4. UNCHANGED <<handler, call>>
  BY <1>2 DEF rpc
<1>5. <<>> \in Seq(Outputs) /\ ToSet(<<>>) = {}
  BY DEF ToSet
<1>6. {<<"error">>, <<"not found">>} \subseteq Replies /\ \A n \in Nat : \E r \in Replies : r = <<"ok", n>>
  BY DEF Replies
<1>7. \A r \in {<<"error">>, <<"not found">>} : r[1] # "ok"
  <2>1. <<"error">>[1] # "ok" /\ <<"not found">>[1] # "ok"
    OBVIOUS
  <2>2. QED
    BY <2>1, Zenon
<1>8. ASSUME NEW r \in {<<"error">>, <<"not found">>}, stdout' = stdout \o Reply(m[2], r)
      PROVE  RpcInv' /\ PipesInv'
  <2>1. r[1] # "ok" /\ r \in Replies
    BY <1>6, <1>8, <1>7
  <2>2. QED
    BY <1>2, <1>3, <1>5, <1>8, <2>1, Serving DEF ReplyOk
<1>9. ASSUME NEW b \in AppThreads, m[1] = "thread/start", b \in made', stdout' = stdout \o Reply(m[2], <<"ok", b>>)
      PROVE  RpcInv' /\ PipesInv'
  <2>1. PICK r \in Replies : r = <<"ok", b>>
    <3>1. b \in Nat
      BY <1>9 DEF AppThreads
    <3>2. QED
      BY <1>6, <3>1
  <2>2. m[2] = call.id => ReplyOk(handler, r)'
    BY <1>3, <1>4, <1>9, <2>1 DEF ReplyOk
  <2>3. QED
    BY <1>2, <1>3, <1>5, <1>9, <2>1, <2>2, Serving
<1>10. ASSUME NEW v \in AppTurns, m[1] = "turn/start", owner' = [owner EXCEPT ![v] = m[4]],
              stdout' = stdout \o Reply(m[2], <<"ok", v>>)
       PROVE  RpcInv' /\ PipesInv'
  <2>1. PICK r \in Replies : r = <<"ok", v>>
    <3>1. v \in Nat
      BY <1>10 DEF AppTurns
    <3>2. QED
      BY <1>6, <3>1
  <2>2. m[2] = call.id => ReplyOk(handler, r)'
    BY <1>3, <1>4, <1>10, <2>1 DEF ReplyOk, OwnersInv
  <2>3. QED
    BY <1>2, <1>3, <1>5, <1>10, <2>1, <2>2, Serving
<1>11. ASSUME NEW s \in Seq(Outputs), \A o \in ToSet(s) : o[1] # "response",
              m[1] \notin {"thread/start", "turn/start"},
              stdout' = stdout \o Reply(m[2], <<"ok", 0>>) \/ stdout' = stdout \o Reply(m[2], <<"ok", 0>>) \o s
       PROVE  RpcInv' /\ PipesInv'
  <2>1. PICK r \in Replies : r = <<"ok", 0>>
    BY <1>6
  <2>2. m[2] = call.id => ReplyOk(handler, r)'
    BY <1>3, <1>4, <1>11, <2>1 DEF ReplyOk
  <2>3. QED
    BY <1>2, <1>3, <1>11, <2>1, <2>2, Serving
<1>12. ASSUME NEW u \in AppTurns PROVE Ends(u) \in Seq(Outputs) /\ \A o \in ToSet(Ends(u)) : o[1] # "response"
  BY EndsOutput
<1>13. \/ \E r \in {<<"error">>, <<"not found">>} : stdout' = stdout \o Reply(m[2], r)
       \/ \E b \in AppThreads : m[1] = "thread/start" /\ b \in made' /\ stdout' = stdout \o Reply(m[2], <<"ok", b>>)
       \/ \E v \in AppTurns : /\ m[1] = "turn/start" /\ owner' = [owner EXCEPT ![v] = m[4]]
                              /\ stdout' = stdout \o Reply(m[2], <<"ok", v>>)
       \/ m[1] \notin {"thread/start", "turn/start"} /\ stdout' = stdout \o Reply(m[2], <<"ok", 0>>)
       \/ /\ m[1] = "turn/interrupt" /\ m[5] \in running
          /\ stdout' = stdout \o Reply(m[2], <<"ok", 0>>) \o Ends(m[5])
       \/ /\ m[1] = "thread/archive"
          /\ stdout' = stdout \o Reply(m[2], <<"ok", 0>>)
                        \o (IF RunningIn(m[3]) = {} THEN <<>> ELSE Ends(CHOOSE v \in RunningIn(m[3]) : TRUE))
  BY <1>1 DEF Serve
<1>14. RunningIn(m[3]) # {} => (CHOOSE v \in RunningIn(m[3]) : TRUE) \in AppTurns
  <2>1. RunningIn(m[3]) \subseteq AppTurns
    BY DEF RunningIn, OwnersInv
  <2>2. QED
    BY <2>1
<1>15. running \subseteq AppTurns
  BY DEF OwnersInv
<1>16. CASE /\ m[1] = "turn/interrupt" /\ m[5] \in running
            /\ stdout' = stdout \o Reply(m[2], <<"ok", 0>>) \o Ends(m[5])
  BY <1>11, <1>12, <1>15, <1>16
<1>17. CASE /\ m[1] = "thread/archive"
            /\ stdout' = stdout \o Reply(m[2], <<"ok", 0>>)
                          \o (IF RunningIn(m[3]) = {} THEN <<>> ELSE Ends(CHOOSE v \in RunningIn(m[3]) : TRUE))
  <2>1. PICK s : s = IF RunningIn(m[3]) = {} THEN <<>> ELSE Ends(CHOOSE v \in RunningIn(m[3]) : TRUE)
    OBVIOUS
  <2>2. s \in Seq(Outputs) /\ \A o \in ToSet(s) : o[1] # "response"
    BY <1>5, <1>12, <1>14, <2>1
  <2>3. QED
    BY <1>11, <1>17, <2>1, <2>2
<1>18. CASE m[1] \notin {"thread/start", "turn/start"} /\ stdout' = stdout \o Reply(m[2], <<"ok", 0>>)
  BY <1>5, <1>11, <1>18
<1>19. QED
  BY <1>8, <1>9, <1>10, <1>13, <1>16, <1>17, <1>18

\* The app-server adds notifications and requests to its output.
Notifies ==
  /\ \/ stdout' = stdout
     \/ \E u \in AppTurns : stdout' = stdout \o Ends(u)
     \/ \E o \in Outputs : o[1] # "response" /\ stdout' = Append(stdout, o)
  /\ stdin' = stdin \/ (stdin # <<>> /\ stdin' = Tail(stdin))

LEMMA AppServerNotifies ==
  ASSUME RpcInv, PipesInv, OwnersInv, (AppServer /\ ~Serve) \/ Close \/ UNCHANGED vars
  PROVE  Notifies /\ OwnersInv' /\ UNCHANGED <<handler, call, nextId, maps, owner, made, home, bound, directed, event, heard>>
<1> USE OutputKinds
<1>1. CASE ReadAnswer
  <2>1. stdin \in Seq(Inputs) /\ stdin # <<>> /\ Head(stdin)[1] = "answer"
    BY <1>1 DEF ReadAnswer, PipesInv
  <2>2. Head(stdin) \in Inputs
    BY <2>1, MembersLeft
  <2>3. stdout' = stdout \/ (Head(stdin)[2] \in openAsks /\ stdout' = Append(stdout, <<"resolved", Head(stdin)[2]>>))
    BY <1>1 DEF ReadAnswer
  <2>4. Notifies
    BY <1>1, <2>3 DEF ReadAnswer, Notifies, OwnersInv
  <2>5. OwnersInv'
    BY <1>1 DEF ReadAnswer, OwnersInv
  <2>6. QED
    BY <1>1, <2>4, <2>5 DEF ReadAnswer, told, rpc
<1>2. ASSUME NEW u \in AppTurns, EndTurn(u)
      PROVE  Notifies /\ OwnersInv' /\ UNCHANGED <<handler, call, nextId, maps, owner, made, home, bound, directed, event, heard>>
  <2>1. Notifies
    BY <1>2 DEF EndTurn, Notifies
  <2>2. OwnersInv'
    BY <1>2 DEF EndTurn, OwnersInv
  <2>3. QED
    BY <1>2, <2>1, <2>2 DEF EndTurn, told, rpc
<1>3. ASSUME NEW u \in AppTurns, NEW kind, NEW c, NEW offer, Ask(u, kind, c, offer)
      PROVE  Notifies /\ OwnersInv' /\ UNCHANGED <<handler, call, nextId, maps, owner, made, home, bound, directed, event, heard>>
  <2>1. Notifies
    BY <1>3 DEF Ask, Notifies
  <2>2. OwnersInv'
    BY <1>3 DEF Ask, OwnersInv
  <2>3. QED
    BY <1>3, <2>1, <2>2 DEF Ask, told, rpc
<1>4. ASSUME NEW u \in AppTurns, Speak(u) \/ EndMessage(u)
      PROVE  Notifies /\ OwnersInv' /\ UNCHANGED <<handler, call, nextId, maps, owner, made, home, bound, directed, event, heard>>
  <2>1. ASSUME Speak(u)  PROVE Notifies
    <3>1. PICK i \in Items, n \in 1..MaxFragments : stdout' = Append(stdout, <<"delta", i, n>>)
      BY <2>1 DEF Speak
    <3>2. PICK o \in Outputs : o = <<"delta", i, n>> /\ o[1] # "response"
      BY <3>1
    <3>3. stdin' = stdin
      BY <2>1 DEF Speak
    <3>4. stdout' = Append(stdout, o)
      BY <3>1, <3>2
    <3>5. QED
      BY <3>2, <3>3, <3>4 DEF Notifies
  <2>2. ASSUME EndMessage(u)  PROVE Notifies
    <3>1. PICK i \in Items, given \in BOOLEAN : stdout' = Append(stdout, <<"message", i, given>>)
      BY <2>2 DEF EndMessage
    <3>2. PICK o \in Outputs : o = <<"message", i, given>> /\ o[1] # "response"
      BY <3>1
    <3>3. stdin' = stdin
      BY <2>2 DEF EndMessage
    <3>4. stdout' = Append(stdout, o)
      BY <3>1, <3>2
    <3>5. QED
      BY <3>2, <3>3, <3>4 DEF Notifies
  <2>3. Notifies
    BY <1>4, <2>1, <2>2
  <2>4. OwnersInv'
    BY <1>4 DEF Speak, EndMessage, OwnersInv, process
  <2>5. QED
    BY <1>4, <2>3, <2>4 DEF Speak, EndMessage, told, process, rpc
<1>5. ASSUME NEW a \in AppThreads, CloseThread(a)
      PROVE  Notifies /\ OwnersInv' /\ UNCHANGED <<handler, call, nextId, maps, owner, made, home, bound, directed, event, heard>>
  <2>1. Notifies
    BY <1>5 DEF CloseThread, Notifies
  <2>2. OwnersInv'
    BY <1>5 DEF CloseThread, OwnersInv
  <2>3. QED
    BY <1>5, <2>1, <2>2 DEF CloseThread, told, rpc
<1>6. CASE Exit \/ Close \/ UNCHANGED vars
  <2>1. Notifies
    BY <1>6 DEF Exit, Close, vars, pipes, Notifies
  <2>2. OwnersInv'
    BY <1>6 DEF Exit, Close, vars, server, process, OwnersInv
  <2>3. QED
    BY <1>6, <2>1, <2>2 DEF Exit, Close, vars, rpc, told, server, process
<1>7. QED
  BY <1>1, <1>2, <1>3, <1>4, <1>5, <1>6 DEF AppServer

LEMMA Notifying ==
  ASSUME RpcInv, PipesInv, OwnersInv, Notifies, UNCHANGED <<handler, call, nextId, owner, made>>
  PROVE  RpcInv' /\ PipesInv'
<1>0. stdin \in Seq(Inputs) /\ stdout \in Seq(Outputs)
  BY DEF PipesInv
<1>1. stdin' \in Seq(Inputs) /\ ToSet(stdin') \subseteq ToSet(stdin)
  BY <1>0, MembersLeft DEF Notifies
<1>2. stdout' \in Seq(Outputs) /\ \A o \in ToSet(stdout') : o \in ToSet(stdout) \/ o[1] # "response"
  <2>1. ASSUME NEW u \in AppTurns, stdout' = stdout \o Ends(u)
        PROVE  stdout' \in Seq(Outputs) /\ \A o \in ToSet(stdout') : o \in ToSet(stdout) \/ o[1] # "response"
    <3>1. Ends(u) \in Seq(Outputs) /\ \A o \in ToSet(Ends(u)) : o[1] # "response"
      BY EndsOutput
    <3>2. stdout \o Ends(u) \in Seq(Outputs) /\ ToSet(stdout \o Ends(u)) = ToSet(stdout) \cup ToSet(Ends(u))
      BY <1>0, <3>1, MembersJoined
    <3>3. QED
      BY <2>1, <3>1, <3>2
  <2>2. ASSUME NEW o \in Outputs, o[1] # "response", stdout' = Append(stdout, o)
        PROVE  stdout' \in Seq(Outputs) /\ \A p \in ToSet(stdout') : p \in ToSet(stdout) \/ p[1] # "response"
    <3>1. Append(stdout, o) \in Seq(Outputs) /\ ToSet(Append(stdout, o)) = ToSet(stdout) \cup {o}
      BY <1>0, MembersAppended
    <3>2. QED
      BY <2>2, <3>1
  <2>3. QED
    BY <1>0, <2>1, <2>2 DEF Notifies
<1>3. QED
  BY <1>1, <1>2, Passing
------------------------------------------------------------------------------
(* The tables and what was directed by them *)

DirectedInv ==
  /\ directed \subseteq Turns \X AppTurns
  /\ DirectedAtOwnTurn

OwnedInv == WireInv /\ TablesOk /\ DirectedInv

LEMMA Bound ==
  ASSUME TablesOk, OwnersInv, NEW x \in Threads, NEW a \in AppThreads
  PROVE  /\ [threadMap EXCEPT ![x] = a] \in [Threads -> AppThreads \cup {0}]
         /\ [threadMap EXCEPT ![x] = 0] \in [Threads -> AppThreads \cup {0}]
         /\ [reverseMap EXCEPT ![a] = x] \in [AppThreads -> Threads \cup {None}]
         /\ [bound EXCEPT ![x] = a] \in [Threads -> AppThreads \cup {0}]
  BY DEF TablesOk

\* TurnStarted and turn_steer write the tables of turns.
LEMMA TurnTables ==
  ASSUME WireInv, TablesOk, TurnStarted, SteerOk', EarlierOk'
  PROVE  TablesOk'
<1>1. Returned("turn/start")
  BY DEF TurnStarted
<1>2. /\ handler.at = "turn/start" /\ ReplyOk(handler, call.reply) /\ handler.turn \in Turns
      /\ handler.thread \in Threads /\ handler.app \in AppThreads
      /\ \A t \in Turns : t # None
  BY <1>1, Waiting, Underway, CodexConstants DEF WireInv, Methods, OfTurns, Handlers
<1>3. CASE Ok /\ turnMap' = [turnMap EXCEPT ![handler.turn] = call.reply[2]]
              /\ reverseTurn' = [reverseTurn EXCEPT ![call.reply[2]] = handler.turn] /\ threadMap' = threadMap
  <2>1. call.reply[2] \in AppTurns /\ owner[call.reply[2]] = handler.turn
    BY <1>2, <1>3 DEF Ok, ReplyOk
  <2>2. UNCHANGED <<reverseMap, bound, owner>>
    BY DEF TurnStarted, told, server, process
  <2>3. QED
    BY <1>2, <1>3, <2>1, <2>2 DEF TablesOk
<1>4. CASE MapThread([handler EXCEPT !.retried = TRUE]) /\ UNCHANGED <<turnMap, reverseTurn>>
  <2>1. UNCHANGED <<reverseMap, bound, owner>>
    BY DEF TurnStarted, told, server, process
  <2>2. threadMap' = [threadMap EXCEPT ![handler.thread] = handler.app]
    BY <1>2, <1>4 DEF MapThread, WireInv, RpcInv, HandlerOk, Handlers
  <2>3. QED
    BY <1>2, <1>4, <2>1, <2>2 DEF TablesOk
<1>5. CASE UNCHANGED <<threadMap, turnMap, reverseTurn>>
  BY <1>5 DEF TablesOk, TurnStarted, told, server, process
<1>6. QED
  BY <1>3, <1>4, <1>5 DEF TurnStarted

LEMMA OtherTables ==
  ASSUME WireInv, TablesOk, [Next]_vars, ~TurnStarted
  PROVE  /\ threadMap' \in [Threads -> AppThreads \cup {0}]
         /\ reverseMap' \in [AppThreads -> Threads \cup {None}]
         /\ bound' \in [Threads -> AppThreads \cup {0}]
         /\ Mapped \/ UNCHANGED <<turnMap, reverseTurn>>
<1> DEFINE Goal == /\ threadMap' \in [Threads -> AppThreads \cup {0}]
                   /\ reverseMap' \in [AppThreads -> Threads \cup {None}]
                   /\ bound' \in [Threads -> AppThreads \cup {0}]
                   /\ Mapped \/ UNCHANGED <<turnMap, reverseTurn>>
<1>0. /\ threadMap \in [Threads -> AppThreads \cup {0}] /\ reverseMap \in [AppThreads -> Threads \cup {None}]
      /\ bound \in [Threads -> AppThreads \cup {0}] /\ RpcInv
  BY DEF TablesOk, WireInv
<1>1. ASSUME NEW t \in Turns, NEW given \in AppThreads \cup {0}, NEW named \in ToldTurns(t) \cup {0},
             TurnStart(t, given) \/ TurnSteer(t, given, named) \/ TurnCancel(t, given, named)
      PROVE  Goal
  <2>0. ThreadOf[t] \in Threads
    BY CodexConstants
  <2>1. CASE TurnStart(t, given)
    <3>1. PICK h : h = Request("turn_start", ThreadOf[t], t, given)
      OBVIOUS
    <3>2. h.thread = ThreadOf[t] /\ h.app \in AppThreads \cup {0}
      BY <1>0, <2>0, <3>1, Begun DEF OfTurns
    <3>3. threadMap' = threadMap \/ threadMap' = [threadMap EXCEPT ![h.thread] = h.app]
      BY <2>1, <3>1 DEF TurnStart, MapThread
    <3>4. QED
      BY <1>0, <2>0, <2>1, <3>2, <3>3 DEF TurnStart, told
  <2>2. CASE TurnSteer(t, given, named)
    <3>1. PICK h, u, g : h = Request("turn_steer", ThreadOf[t], t, given) /\ u = AppTurn(t, named)
                         /\ g = [h EXCEPT !.appTurn = u]
      OBVIOUS
    <3>2. h \in Handlers /\ h.thread = ThreadOf[t] /\ h.app \in AppThreads \cup {0}
      BY <1>0, <2>0, <3>1, Begun DEF OfTurns
    <3>3. g.thread = ThreadOf[t] /\ g.app \in AppThreads \cup {0}
      BY <3>1, <3>2, Told, Steered
    <3>4. MapThread(g) /\ UNCHANGED <<reverseMap, turnMap, reverseTurn, bound>>
      BY <2>2, <3>1 DEF TurnSteer, told
    <3>5. threadMap' = [threadMap EXCEPT ![g.thread] = g.app]
      BY <3>4 DEF MapThread
    <3>6. QED
      BY <1>0, <2>0, <3>3, <3>4, <3>5
  <2>3. CASE TurnCancel(t, given, named)
    BY <1>0, <2>3 DEF TurnCancel, maps, told
  <2>4. QED
    BY <1>1, <2>1, <2>2, <2>3
<1>2. ASSUME NEW x \in Threads, NEW given \in AppThreads \cup {0},
             ThreadResume(x, given) \/ ThreadArchive(x, given) \/ ThreadUnarchive(x, given)
      PROVE  Goal
  <2>1. CASE ThreadResume(x, given)
    <3>1. PICK h : h = Request("thread_resume", x, None, given)
      OBVIOUS
    <3>2. h.thread = x /\ h.app \in AppThreads \cup {0}
      <4>1. "thread_resume" \in OfTurns \cup {"thread_resume", "archive", "unarchive"} /\ None \in Turns \cup {None}
        OBVIOUS
      <4>2. QED
        BY <1>2, <3>1, <4>1, Begun
    <3>3. threadMap' = [threadMap EXCEPT ![h.thread] = h.app]
      BY <2>1, <3>1 DEF ThreadResume, MapThread
    <3>4. QED
      BY <1>0, <2>1, <3>2, <3>3 DEF ThreadResume, told
  <2>2. CASE ThreadArchive(x, given) \/ ThreadUnarchive(x, given)
    BY <1>0, <2>2 DEF ThreadArchive, ThreadUnarchive, maps, told
  <2>3. QED
    BY <1>2, <2>1, <2>2
<1>3. ASSUME NEW x \in Threads, SyncAck(x) PROVE Goal
  <2>1. bound[x] \in AppThreads
    BY <1>0, <1>3 DEF SyncAck
  <2>2. QED
    BY <1>0, <1>3, <2>1 DEF SyncAck, told
<1>4. CASE Mapped
  <2>1. handler.thread \in Threads /\ handler.app \in AppThreads
    BY <1>0, <1>4, Underway DEF Mapped, Handlers
  <2>2. QED
    BY <1>0, <1>4, <2>1 DEF Mapped, told
<1>5. CASE ThreadStarted
  <2>1. handler.at = "thread/start" /\ ReplyOk(handler, call.reply) /\ handler.thread \in Threads
    BY <1>0, <1>5, Waiting, Underway DEF ThreadStarted, Methods
  <2>2. CASE Ok
    <3>1. call.reply[2] \in AppThreads
      BY <2>1, <2>2 DEF Ok, ReplyOk, WireInv, OwnersInv
    <3>2. QED
      BY <1>0, <1>5, <2>1, <2>2, <3>1 DEF ThreadStarted
  <2>3. CASE ~Ok
    BY <1>0, <1>5, <2>3 DEF ThreadStarted
  <2>4. QED
    BY <2>2, <2>3
<1>6. CASE Answered
  <2>1. handler.thread \in Threads /\ (handler.at = "thread/unarchive" => handler.app \in AppThreads)
    BY <1>0, <1>6, Underway DEF Answered, Handlers, Methods
  <2>2. QED
    BY <1>0, <1>6, <2>1 DEF Answered, told
<1>7. CASE Archived
  BY <1>0, <1>7 DEF Archived, told
<1>8. CASE TimesOut \/ Resumed \/ SendAnswer \/ Remember \/ \E i \in Asks, d \in Decisions : Respond(i, d)
  BY <1>0, <1>8 DEF TimesOut, Resumed, SendAnswer, Remember, Respond, maps, told
<1>9. CASE Reader
  BY <1>0, <1>9 DEF Reader, ReadResponse, ReadTurn, ReadDelta, ReadMessage, ReadAsk, ReadResolved, ReadClosed, Emit, maps, told
<1>10. CASE Serve
  BY <1>0, <1>10 DEF Serve, maps, told
<1>11. CASE (AppServer /\ ~Serve) \/ Close \/ UNCHANGED vars
  BY <1>0, <1>11, AppServerNotifies DEF WireInv, maps
<1>12. QED
  <2>1. \A x \in Threads : bound[x] \in AppThreads \cup {0}
    BY <1>0
  <2>2. \A t \in Turns : ThreadOf[t] \in Threads
    BY CodexConstants
  <2>3. Backend => Goal
    BY <1>1, <1>2, <1>3, <1>8, <2>1, <2>2 DEF Backend
  <2>4. QED
    BY <1>4, <1>5, <1>6, <1>7, <1>8, <1>9, <1>10, <1>11, <2>3 DEF Next, Handler

\* A request, or its failure, leaves no turn to be bound.
LEMMA CallBindsNone ==
  ASSUME NEW h \in Handlers, NEW method \in Methods, NEW u, Call(h, method, u) \/ handler' = Failed(h)
  PROVE  handler'.at # "mapping"
  BY DEF Call, Failed, Idle, Handlers, Methods

LEMMA SteerStep ==
  ASSUME WireInv, TablesOk, [Next]_vars, \A u \in AppTurns : owner[u] # None => owner'[u] = owner[u]
  PROVE  SteerOk'
<1>0. /\ RpcInv /\ PipesInv /\ OwnersInv /\ handler \in Handlers /\ \A t \in Turns : t # None /\ ThreadOf[t] \in Threads
      /\ bound \in [Threads -> AppThreads \cup {0}]
      /\ {"thread/start", "turn/start", "turn/steer", "turn/interrupt", "thread/resume", "thread/archive",
          "thread/unarchive"} \subseteq Methods
  BY CodexConstants DEF WireInv, RpcInv, HandlerOk, TablesOk, Methods
<1>1. handler' = handler => SteerOk'
  <2>1. handler.at = "mapping" /\ handler.op = "turn_steer" => handler.turn \in Turns
    BY <1>0, Underway DEF OfTurns
  <2>2. QED
    BY <1>0, <2>1 DEF TablesOk, SteerOk
<1>2. handler'.at # "mapping" => SteerOk'
  BY DEF SteerOk
<1>3. handler' = Idle => SteerOk'
  BY <1>2 DEF Idle
<1>4. ASSUME NEW h \in Handlers, h.op # "turn_steer", MapThread(h) PROVE SteerOk'
  <2>1. handler'.op = h.op
    BY <1>4 DEF MapThread, Handlers
  <2>2. QED
    BY <1>4, <2>1 DEF SteerOk
<1>5. ASSUME NEW h \in Handlers, NEW method \in Methods, NEW u, Call(h, method, u) \/ handler' = Failed(h) PROVE SteerOk'
  BY <1>2, <1>5, CallBindsNone
<1>6. ASSUME NEW t \in Turns, NEW given \in AppThreads \cup {0}, TurnStart(t, given) PROVE SteerOk'
  <2>1. PICK h : h = Request("turn_start", ThreadOf[t], t, given)
    OBVIOUS
  <2>2. h \in Handlers /\ h.op = "turn_start"
    BY <1>0, <2>1, Begun DEF OfTurns
  <2>3. Call(h, "thread/start", 0) \/ MapThread(h)
    BY <1>6, <2>1 DEF TurnStart
  <2>4. QED
    BY <1>0, <1>4, <1>5, <2>2, <2>3
<1>7. ASSUME NEW t \in Turns, NEW given \in AppThreads \cup {0}, NEW named \in ToldTurns(t) \cup {0},
             TurnSteer(t, given, named)
      PROVE  SteerOk'
  <2>1. PICK h, u, g : h = Request("turn_steer", ThreadOf[t], t, given) /\ u = AppTurn(t, named) /\ g = [h EXCEPT !.appTurn = u]
    OBVIOUS
  <2>2. h \in Handlers /\ h.turn = t
    BY <1>0, <2>1, Begun DEF OfTurns
  <2>3. u # 0 /\ MapThread(g) /\ owner' = owner
    BY <1>7, <2>1 DEF TurnSteer, server, process
  <2>4. u \in AppTurns /\ owner[u] = t
    BY <2>1, <2>3, Told
  <2>5. g \in Handlers /\ g.turn = t /\ g.appTurn = u
    BY <2>1, <2>2, <2>4, Steered
  <2>6. handler'.turn = t /\ handler'.appTurn = u
    BY <2>3, <2>5 DEF MapThread, Handlers
  <2>7. QED
    BY <2>3, <2>4, <2>6 DEF SteerOk
<1>8. ASSUME NEW t \in Turns, NEW given \in AppThreads \cup {0}, NEW named, TurnCancel(t, given, named) PROVE SteerOk'
  <2>1. PICK h : h = Request("turn_cancel", ThreadOf[t], t, given)
    OBVIOUS
  <2>2. h \in Handlers
    BY <1>0, <2>1, Begun DEF OfTurns
  <2>3. Call(h, "turn/interrupt", AppTurn(t, named))
    BY <1>8, <2>1 DEF TurnCancel
  <2>4. QED
    BY <1>0, <1>5, <2>2, <2>3
<1>9. ASSUME NEW x \in Threads, NEW given \in AppThreads \cup {0},
             ThreadResume(x, given) \/ ThreadArchive(x, given) \/ ThreadUnarchive(x, given) \/ SyncAck(x)
      PROVE  SteerOk'
  <2>1. CASE ThreadResume(x, given)
    <3>1. PICK h : h = Request("thread_resume", x, None, given)
      OBVIOUS
    <3>2. h \in Handlers /\ h.op = "thread_resume"
      BY <1>0, <3>1, Begun DEF OfTurns
    <3>3. QED
      BY <1>4, <2>1, <3>1, <3>2 DEF ThreadResume
  <2>2. CASE ThreadArchive(x, given)
    <3>1. PICK h : h = Request("archive", x, None, given)
      OBVIOUS
    <3>2. h \in Handlers
      BY <1>0, <3>1, Begun DEF OfTurns
    <3>3. QED
      BY <1>0, <1>5, <2>2, <3>1, <3>2 DEF ThreadArchive
  <2>3. CASE ThreadUnarchive(x, given)
    <3>1. PICK h : h = Request("unarchive", x, None, given)
      OBVIOUS
    <3>2. h \in Handlers
      BY <1>0, <3>1, Begun DEF OfTurns
    <3>3. QED
      BY <1>0, <1>5, <2>3, <3>1, <3>2 DEF ThreadUnarchive
  <2>4. CASE SyncAck(x)
    BY <1>1, <2>4 DEF SyncAck, rpc
  <2>5. QED
    BY <1>9, <2>1, <2>2, <2>3, <2>4
<1>10. ASSUME NEW i \in Asks, NEW d \in Decisions, Respond(i, d) PROVE SteerOk'
  BY <1>2, <1>10 DEF Respond, Idle
<1>11. CASE Backend
  <2>1. \A x \in Threads : bound[x] \in AppThreads \cup {0}
    BY <1>0
  <2>2. QED
    BY <1>0, <1>6, <1>7, <1>8, <1>9, <1>10, <1>11, <2>1 DEF Backend
<1>12. CASE TurnStarted
  <2>1. handler.op = "turn_start"
    BY <1>0, <1>12, Underway DEF TurnStarted, Returned
  <2>2. [handler EXCEPT !.retried = TRUE] \in Handlers /\ [handler EXCEPT !.retried = TRUE].op = "turn_start"
    BY <1>0, <2>1 DEF Handlers
  <2>3. QED
    BY <1>3, <1>4, <1>12, <2>2 DEF TurnStarted
<1>13. CASE ThreadStarted
  <2>1. CASE Ok
    <3>1. ReplyOk(handler, call.reply) /\ handler.at = "thread/start"
      BY <1>0, <1>13, Waiting DEF ThreadStarted
    <3>2. call.reply[2] \in AppThreads
      BY <1>0, <2>1, <3>1 DEF Ok, ReplyOk, OwnersInv
    <3>3. [handler EXCEPT !.app = call.reply[2]] \in Handlers
      BY <1>0, <3>2 DEF Handlers
    <3>4. QED
      BY <1>0, <1>5, <1>13, <2>1, <3>3 DEF ThreadStarted
  <2>2. QED
    BY <1>3, <1>13, <2>1 DEF ThreadStarted
<1>14. CASE Mapped \/ Resumed \/ TimesOut \/ Answered \/ Archived
  <2>1. \/ \E method \in Methods : \E u : Call(handler, method, u)
        \/ handler' = Failed(handler) \/ handler' = Idle
    BY <1>0, <1>14 DEF Mapped, Resumed, TimesOut, Answered, Archived
  <2>2. QED
    BY <1>0, <1>3, <1>5, <2>1
<1>15. CASE SendAnswer \/ Remember
  <2>1. handler' = Idle \/ handler'.at = "answered"
    BY <1>0, <1>15 DEF SendAnswer, Remember, Handlers
  <2>2. QED
    BY <1>2, <1>3, <2>1
<1>16. CASE Reader
  BY <1>1, <1>16 DEF Reader, ReadResponse, ReadTurn, ReadDelta, ReadMessage, ReadAsk, ReadResolved, ReadClosed, Emit, rpc
<1>17. CASE Serve
  BY <1>1, <1>17 DEF Serve, rpc
<1>18. CASE (AppServer /\ ~Serve) \/ Close \/ UNCHANGED vars
  BY <1>0, <1>1, <1>18, AppServerNotifies
<1>19. QED
  BY <1>11, <1>12, <1>13, <1>14, <1>15, <1>16, <1>17, <1>18 DEF Next, Handler

LEMMA WireStep ==
  ASSUME WireInv, TablesOk, [Next]_vars
  PROVE  RpcInv' /\ PipesInv'
<1>0. RpcInv /\ PipesInv /\ OwnersInv
  BY DEF WireInv
<1>1. CASE Handler
  <2>1. CASE TurnStarted
    BY <1>0, <2>1, TurnStartedWire
  <2>2. QED
    BY <1>0, <1>1, <2>1, MappedWire, ThreadStartedWire, ResumedWire, RestingSteps DEF Handler
<1>2. CASE Backend
  <2>1. \A x \in Threads : bound[x] \in AppThreads \cup {0}
    BY DEF TablesOk
  <2>2. \A t \in Turns : ThreadOf[t] \in Threads
    BY CodexConstants
  <2>3. ASSUME NEW x \in Threads, SyncAck(x) PROVE RpcInv' /\ PipesInv'
    <3>1. UNCHANGED <<handler, call, nextId, stdin, stdout, owner, made>>
      BY <2>3 DEF SyncAck, rpc, pipes, server, process
    <3>2. QED
      BY <1>0, <3>1, Passing DEF PipesInv
  <2>4. QED
    BY <1>0, <1>2, <2>1, <2>2, <2>3, Starting, Managing, RestingSteps DEF Backend
<1>3. CASE Reader
  BY <1>0, <1>3, ReaderWire
<1>4. CASE Serve
  BY <1>0, <1>4, ServeWire
<1>5. CASE (AppServer /\ ~Serve) \/ Close \/ UNCHANGED vars
  BY <1>0, <1>5, AppServerNotifies, Notifying
<1>6. QED
  BY <1>1, <1>2, <1>3, <1>4, <1>5 DEF Next

\* Only the app-server changes what is its own.
LEMMA ProcessAlone ==
  ASSUME Handler \/ Backend \/ Reader
  PROVE  process' = process
<1>1. ASSUME NEW t \in Turns, NEW given, NEW named,
    TurnStart(t, given) \/ TurnSteer(t, given, named) \/ TurnCancel(t, given, named) PROVE process' = process
  BY <1>1 DEF TurnStart, TurnSteer, TurnCancel, server
<1>2. ASSUME NEW x \in Threads, NEW given,
             ThreadResume(x, given) \/ ThreadArchive(x, given) \/ ThreadUnarchive(x, given) \/ SyncAck(x)
      PROVE  process' = process
  BY <1>2 DEF ThreadResume, ThreadArchive, ThreadUnarchive, SyncAck, server
<1>3. ASSUME NEW i \in Asks, NEW d \in Decisions, Respond(i, d) PROVE process' = process
  BY <1>3 DEF Respond, server
<1>4. CASE Backend
  BY <1>1, <1>2, <1>3, <1>4 DEF Backend
<1>5. CASE Handler
  BY <1>5 DEF Handler, TimesOut, Mapped, ThreadStarted, TurnStarted, Resumed, Answered, Archived, SendAnswer,
              Remember, server
<1>6. CASE Reader
  BY <1>6 DEF Reader, ReadResponse, ReadTurn, ReadDelta, ReadMessage, ReadAsk, ReadResolved, ReadClosed, Emit, server
<1>7. QED
  BY <1>4, <1>5, <1>6

LEMMA OwnersStep ==
  ASSUME WireInv, [Next]_vars
  PROVE  OwnersInv' /\ OwnersGrow
<1>0. RpcInv /\ PipesInv /\ OwnersInv
  BY DEF WireInv
<1>1. CASE Serve
  BY <1>0, <1>1, ServeGrows
<1>2. CASE (AppServer /\ ~Serve) \/ Close \/ UNCHANGED vars
  BY <1>0, <1>2, AppServerNotifies DEF OwnersGrow
<1>3. CASE Handler \/ Backend \/ Reader
  <2>1. UNCHANGED <<home, owner, made, loaded, running, openAsks>>
    BY <1>3, ProcessAlone DEF process
  <2>2. QED
    BY <1>0, <2>1 DEF OwnersInv, OwnersGrow
<1>4. QED
  BY <1>1, <1>2, <1>3 DEF Next

LEMMA TablesStep ==
  ASSUME WireInv, TablesOk, [Next]_vars
  PROVE  TablesOk'
<1>1. \A u \in AppTurns : owner[u] # None => owner'[u] = owner[u]
  BY OwnersStep DEF OwnersGrow
<1>2. \A t \in Turns : t # None /\ KnownTurn[t] \in AppTurns \cup {0}
  BY CodexConstants
<1>3. SteerOk'
  BY <1>1, SteerStep
<1>4. EarlierOk'
  BY <1>1, <1>2 DEF EarlierOk, TablesOk
<1>5. CASE TurnStarted
  BY <1>3, <1>4, <1>5, TurnTables
<1>6. CASE ~TurnStarted
  <2>1. /\ threadMap' \in [Threads -> AppThreads \cup {0}]
        /\ reverseMap' \in [AppThreads -> Threads \cup {None}]
        /\ bound' \in [Threads -> AppThreads \cup {0}]
        /\ Mapped \/ UNCHANGED <<turnMap, reverseTurn>>
    BY <1>6, OtherTables
  <2>2. CASE Mapped /\ handler.op = "turn_steer"
    <3>1. /\ turnMap' = [turnMap EXCEPT ![handler.turn] = handler.appTurn]
          /\ reverseTurn' = [reverseTurn EXCEPT ![handler.appTurn] = handler.turn]
      BY <2>2 DEF Mapped, MapTurn
    <3>2. handler.turn \in Turns
      BY <2>2, Underway DEF Mapped, WireInv, OfTurns
    <3>3. handler.appTurn \in AppTurns /\ owner[handler.appTurn] = handler.turn
      BY <2>2 DEF Mapped, TablesOk, SteerOk
    <3>4. QED
      BY <1>1, <1>2, <1>3, <1>4, <2>1, <3>1, <3>2, <3>3 DEF TablesOk
  <2>3. CASE UNCHANGED <<turnMap, reverseTurn>>
    BY <1>1, <1>2, <1>3, <1>4, <2>1, <2>3 DEF TablesOk
  <2>4. QED
    BY <2>1, <2>2, <2>3 DEF Mapped, MapTurn
<1>7. QED
  BY <1>5, <1>6

LEMMA DirectedStep ==
  ASSUME WireInv, DirectedInv, [Next]_vars
  PROVE  DirectedInv'
<1>0. RpcInv /\ PipesInv /\ OwnersInv /\ directed \subseteq Turns \X AppTurns /\ (\A d \in directed : owner[d[2]] = d[1])
  BY DEF WireInv, DirectedInv, DirectedAtOwnTurn
<1>1. \A u \in AppTurns : owner[u] # None => owner'[u] = owner[u]
  BY OwnersStep DEF OwnersGrow
<1>2. \A t \in Turns : t # None
  BY CodexConstants
<1>3. \A d \in directed : d[1] \in Turns /\ d[2] \in AppTurns /\ owner'[d[2]] = d[1]
  BY <1>0, <1>1, <1>2
<1>4. CASE Serve
  <2>1. PICK m \in Requests : m = Head(stdin) /\ RequestOk(m)
    BY <1>0, <1>4, Served
  <2>2. directed' = directed \cup (IF m[5] # 0 THEN {<<m[4], m[5]>>} ELSE {})
    BY <1>4, <2>1 DEF Serve
  <2>3. m[5] # 0 => m[4] \in Turns /\ m[5] \in AppTurns /\ owner[m[5]] = m[4]
    BY <2>1 DEF RequestOk, Requests
  <2>4. m[5] # 0 => owner'[m[5]] = m[4]
    BY <1>1, <1>2, <2>3
  <2>5. directed' \subseteq Turns \X AppTurns
    BY <1>0, <2>2, <2>3
  <2>6. \A d \in directed' : owner'[d[2]] = d[1]
    BY <1>3, <2>2, <2>4
  <2>7. QED
    BY <2>5, <2>6 DEF DirectedInv, DirectedAtOwnTurn
<1>5. CASE directed' = directed
  BY <1>0, <1>3, <1>5 DEF DirectedInv, DirectedAtOwnTurn
<1>6. CASE (AppServer /\ ~Serve) \/ Close \/ UNCHANGED vars
  BY <1>0, <1>5, <1>6, AppServerNotifies
<1>7. CASE Handler \/ Backend \/ Reader
  BY <1>5, <1>7, ProcessAlone DEF process
<1>8. QED
  BY <1>4, <1>6, <1>7 DEF Next

\* An app-server turn of an earlier session has one turn, and its thread is known.
LEMMA EarlierTurns ==
  /\ \A u \in AppTurns : /\ EarlierTurn(u) \in Turns \cup {None}
                         /\ EarlierTurn(u) # None => /\ KnownTurn[EarlierTurn(u)] = u
                                                     /\ Known[ThreadOf[EarlierTurn(u)]] \in AppThreads
  /\ \A t \in Turns : KnownTurn[t] # 0 => EarlierTurn(KnownTurn[t]) = t
<1>1. ASSUME NEW u \in AppTurns
      PROVE  /\ EarlierTurn(u) \in Turns \cup {None}
             /\ EarlierTurn(u) # None => KnownTurn[EarlierTurn(u)] = u /\ Known[ThreadOf[EarlierTurn(u)]] \in AppThreads
  <2>1. CASE \E t \in Turns : KnownTurn[t] = u
    <3>1. EarlierTurn(u) \in Turns /\ KnownTurn[EarlierTurn(u)] = u
      BY <2>1 DEF EarlierTurn
    <3>2. u # 0
      BY DEF AppTurns
    <3>3. QED
      BY <3>1, <3>2, CodexConstants
  <2>2. CASE ~\E t \in Turns : KnownTurn[t] = u
    BY <2>2 DEF EarlierTurn
  <2>3. QED
    BY <2>1, <2>2
<1>2. ASSUME NEW t \in Turns, KnownTurn[t] # 0 PROVE EarlierTurn(KnownTurn[t]) = t
  <2>1. {s \in Turns : KnownTurn[s] = KnownTurn[t]} = {t}
    BY <1>2, CodexConstants
  <2>2. QED
    BY <2>1 DEF EarlierTurn
<1>3. QED
  BY <1>1, <1>2

LEMMA OwnedInit == Init => OwnedInv
<1> SUFFICES ASSUME Init PROVE OwnedInv
  OBVIOUS
<1> USE DEF Init
<1>1. RpcInv
  BY IdleOk DEF RpcInv, NoCall
<1>2. PipesInv
  BY DEF PipesInv, ToSet
<1>3. OwnersInv
  BY EarlierTurns, CodexConstants DEF OwnersInv, AppThreads
<1>4. TablesOk
  <2>1. SteerOk
    BY DEF SteerOk, Idle
  <2>2. EarlierOk
    BY EarlierTurns, CodexConstants DEF EarlierOk
  <2>3. QED
    BY <2>1, <2>2, CodexConstants DEF TablesOk
<1>5. DirectedInv
  BY DEF DirectedInv, DirectedAtOwnTurn
<1>6. QED
  BY <1>1, <1>2, <1>3, <1>4, <1>5 DEF OwnedInv, WireInv

LEMMA TurnsOwned == Spec => []OwnedInv
<1>1. OwnedInv /\ [Next]_vars => OwnedInv'
  BY WireStep, OwnersStep, TablesStep, DirectedStep DEF OwnedInv, WireInv
<1>2. QED
  BY OwnedInit, <1>1, PTL DEF Spec

\* A cancel or a steering reaches an app-server turn that was started for its turn, named by
\* the server from what it was told or found in the maps, with any number of threads, turns,
\* turns of earlier sessions and late responses.
THEOREM DirectedRight == Spec => []DirectedAtOwnTurn
<1>1. OwnedInv => DirectedAtOwnTurn
  BY DEF OwnedInv, DirectedInv
<1>2. QED
  BY TurnsOwned, <1>1, PTL
------------------------------------------------------------------------------
(* Approvals: where a request of the app-server is *)

Asked == {"approval", "input"} \X AppTurns \X (Commands \cup {None}) \X SUBSET Decisions
Answers == ({"user"} \X Decisions \X Decisions) \cup ({"auto"} \X {"error", "accept"})

Unread   == {i \in Asks : <<"ask", i>> \in ToSet(stdout)}
Resolved == {i \in Asks : <<"resolved", i>> \in ToSet(stdout)}
Taken(i) == i \in pendingAsks \/ handler.ask = i \/ answers[i] # <<>>
Answering(h) == h.at \in {"answering", "answered"}

\* The requests in q come in the order in which they were made.
Ordered(q) ==
  \A k, l \in 1..Len(q) : k < l /\ q[k][1] = "ask" /\ q[l][1] = "ask" => q[k][2] < q[l][2]

AskTypes ==
  /\ asks \in [Asks -> {<<>>} \cup Asked]
  /\ answers \in [Asks -> {<<>>} \cup {<<a>> : a \in Answers}]
  /\ pendingAsks \subseteq Asks /\ openAsks \subseteq Asks
  /\ \A i \in Asks : asks[i] # <<>> => \A j \in 1..(i - 1) : asks[j] # <<>>
  /\ \A i \in openAsks : asks[i] # <<>>

\* Each request is in one place only, and those that were taken up came before those that
\* are still to be read.
PlacesInv ==
  /\ Ordered(stdout)
  /\ \A i \in Unread : asks[i] # <<>>
  /\ \A i \in Asks : Taken(i) => asks[i] # <<>> /\ \A k \in Unread : i < k
  /\ \A i \in pendingAsks : handler.ask # i /\ answers[i] = <<>>
  /\ ~Answering(handler) => handler.ask = 0
  /\ Answering(handler) => handler.ask \in Asks /\ handler.reply \in Decisions
  /\ handler.at = "answering" => answers[handler.ask] = <<>>

\* What was resolved is not open, and what is open is not lost.
HeldInv ==
  /\ \A i \in Resolved : asks[i] # <<>> /\ i \notin openAsks
  /\ alive => \A i \in openAsks : Taken(i) \/ i \in Unread

Sent(i, d) == IF Remembers(i, d) THEN "accept" ELSE d
Backs(i, g) == /\ asks[i] # <<>> /\ Key(i) = g
               /\ answers[i] = <<<<"user", "acceptForSession", "accept">>>>

ByGrant(i) ==
  /\ "accept" \in asks[i][4]
  /\ \E j \in 1..(i - 1) : /\ answers[j] = <<<<"user", "acceptForSession", "accept">>>>
                          /\ asks[j][3] = asks[i][3] /\ home[asks[j][2]] = home[asks[i][2]]

\* Grants are backed by an answer.
GrantsInv ==
  /\ \A u \in running : home[u] # 0
  /\ \A i \in Asks : asks[i] # <<>> => home[asks[i][2]] # 0
  /\ handler.at = "answered" =>
       answers[handler.ask] = <<<<"user", handler.reply, Sent(handler.ask, handler.reply)>>>>
  /\ \A g \in granted : \E i \in Asks : Backs(i, g)
  /\ \A i \in Asks : answers[i] = <<<<"auto", "accept">>>> => ByGrant(i)

AskInv == AskTypes /\ PlacesInv /\ HeldInv /\ GrantsInv

LEMMA OrderedLeft ==
  ASSUME NEW q \in Seq(Outputs), q # <<>>, Ordered(q)
  PROVE  /\ Ordered(Tail(q))
         /\ Head(q)[1] = "ask" => \A o \in ToSet(Tail(q)) : o[1] = "ask" => Head(q)[2] < o[2]
<1>1. /\ Len(q) \in Nat \ {0} /\ Head(q) = q[1] /\ Tail(q) \in Seq(Outputs) /\ Len(Tail(q)) = Len(q) - 1
      /\ \A k \in 1..Len(Tail(q)) : Tail(q)[k] = q[k + 1] /\ k + 1 \in 1..Len(q)
  OBVIOUS
<1>2. Ordered(Tail(q))
  BY <1>1 DEF Ordered
<1>3. ToSet(Tail(q)) = {Tail(q)[k] : k \in 1..Len(Tail(q))}
  BY <1>1, MembersOf
<1>4. ASSUME Head(q)[1] = "ask", NEW o \in ToSet(Tail(q)), o[1] = "ask" PROVE Head(q)[2] < o[2]
  <2>1. PICK k \in 1..Len(Tail(q)) : o = Tail(q)[k]
    BY <1>3
  <2>2. k + 1 \in 1..Len(q) /\ o = q[k + 1] /\ 1 \in 1..Len(q) /\ 1 < k + 1
    BY <1>1, <2>1
  <2>3. QED
    BY <1>1, <1>4, <2>2 DEF Ordered
<1>5. QED
  BY <1>2, <1>4

LEMMA OrderedJoined ==
  ASSUME NEW q \in Seq(Outputs), NEW r \in Seq(Outputs), Ordered(q), \A o \in ToSet(r) : o[1] # "ask"
  PROVE  Ordered(q \o r)
<1> DEFINE c == q \o r
<1>1. /\ Len(c) = Len(q) + Len(r) /\ Len(q) \in Nat /\ Len(r) \in Nat
      /\ \A k \in 1..Len(q) : c[k] = q[k]
      /\ \A k \in 1..Len(c) : k > Len(q) => c[k] = r[k - Len(q)]
  OBVIOUS
<1> HIDE DEF c
<1>2. \A k \in 1..Len(r) : r[k][1] # "ask"
  BY MembersOf
<1>3. \A k \in 1..Len(c) : c[k][1] = "ask" => k \in 1..Len(q) /\ c[k] = q[k]
  <2>1. ASSUME NEW k \in 1..Len(c), k > Len(q) PROVE c[k][1] # "ask"
    <3>1. k - Len(q) \in 1..Len(r) /\ c[k] = r[k - Len(q)]
      BY <1>1, <2>1
    <3>2. QED
      BY <1>2, <3>1
  <2>2. QED
    BY <1>1, <2>1
<1>4. Ordered(c)
  BY <1>3 DEF Ordered
<1>5. QED
  BY <1>4 DEF c

LEMMA OrderedAppended ==
  ASSUME NEW q \in Seq(Outputs), NEW i \in Asks, NEW m \in Outputs, m[1] = "ask", m[2] = i,
         Ordered(q), \A o \in ToSet(q) : o[1] = "ask" => o[2] < i
  PROVE  Ordered(Append(q, m))
<1> DEFINE a == Append(q, m)
<1>1. Len(a) = Len(q) + 1 /\ a[Len(q) + 1] = m /\ Len(q) \in Nat /\ \A k \in 1..Len(q) : a[k] = q[k]
  OBVIOUS
<1> HIDE DEF a
<1>2. \A k \in 1..Len(q) : q[k][1] = "ask" => q[k][2] < i
  BY MembersOf
<1>3. ASSUME NEW k \in 1..Len(a), NEW l \in 1..Len(a), k < l, a[k][1] = "ask", a[l][1] = "ask"
      PROVE  a[k][2] < a[l][2]
  <2>1. k \in 1..Len(q)
    BY <1>1, <1>3
  <2>2. CASE l \in 1..Len(q)
    BY <1>1, <1>3, <2>1, <2>2 DEF Ordered
  <2>3. CASE l = Len(q) + 1
    BY <1>1, <1>2, <1>3, <2>1, <2>3
  <2>4. QED
    BY <1>1, <2>2, <2>3
<1>4. Ordered(a)
  BY <1>3 DEF Ordered
<1>5. QED
  BY <1>4 DEF a

\* What was asked and answered stays, and with it what backs a grant.
AsksGrow ==
  /\ \A i \in Asks : asks[i] # <<>> => asks'[i] = asks[i]
  /\ \A i \in Asks : answers[i] # <<>> => answers'[i] = answers[i]
  /\ \A u \in AppTurns : home[u] # 0 => home'[u] = home[u]

LEMMA GrantsGrow ==
  ASSUME AskInv, AsksGrow
  PROVE  /\ \A i \in Asks : \A g : Backs(i, g) => Backs(i, g)'
         /\ \A i \in Asks : asks[i] # <<>> /\ ByGrant(i) => ByGrant(i)'
         /\ \A i \in Asks : asks[i] # <<>> => home'[asks'[i][2]] # 0
<1>1. \A i \in Asks : asks[i] # <<>> => asks[i][2] \in AppTurns
  BY DEF AskInv, AskTypes, Asked
<1>2. \A i \in Asks : asks[i] # <<>> => /\ asks'[i] = asks[i] /\ home'[asks'[i][2]] = home[asks[i][2]]
                                        /\ home[asks[i][2]] # 0
  BY <1>1 DEF AskInv, GrantsInv, AsksGrow
<1>3. \A i \in Asks : answers[i] # <<>> => asks[i] # <<>> /\ answers'[i] = answers[i]
  BY DEF AskInv, PlacesInv, Taken, AsksGrow
<1>4. ASSUME NEW i \in Asks, NEW g, Backs(i, g) PROVE Backs(i, g)'
  <2>1. asks[i] # <<>> /\ answers[i] # <<>> /\ Key(i) = g
    BY <1>4 DEF Backs
  <2>2. Key(i)' = g
    BY <1>2, <2>1 DEF Key
  <2>3. QED
    BY <1>2, <1>3, <1>4, <2>1, <2>2 DEF Backs
<1>5. ASSUME NEW i \in Asks, asks[i] # <<>>, ByGrant(i) PROVE ByGrant(i)'
  <2>1. PICK j \in 1..(i - 1) : /\ answers[j] = <<<<"user", "acceptForSession", "accept">>>>
                                /\ asks[j][3] = asks[i][3] /\ home[asks[j][2]] = home[asks[i][2]]
    BY <1>5 DEF ByGrant
  <2>2. j \in Asks
    BY CodexConstants DEF Asks
  <2>3. answers'[j] = answers[j] /\ asks[j] # <<>>
    <3>1. answers[j] # <<>>
      BY <2>1
    <3>2. QED
      BY <1>3, <2>2, <3>1
  <2>4. "accept" \in asks'[i][4]
    BY <1>2, <1>5 DEF ByGrant
  <2>5. asks'[j][3] = asks'[i][3] /\ home'[asks'[j][2]] = home'[asks'[i][2]]
    BY <1>2, <1>5, <2>1, <2>2, <2>3
  <2>6. QED
    BY <2>1, <2>3, <2>4, <2>5 DEF ByGrant
<1>6. QED
  BY <1>2, <1>4, <1>5

\* A step that leaves the places of requests alone, or resolves some.
Elsewhere ==
  /\ UNCHANGED <<asks, answers, granted>>
  /\ pendingAsks' \subseteq pendingAsks /\ openAsks' \subseteq openAsks
  /\ \A i \in pendingAsks \ pendingAsks' : i \notin openAsks'
  /\ \/ handler'.ask = handler.ask /\ handler'.at = handler.at /\ handler'.reply = handler.reply
     \/ ~Answering(handler) /\ ~Answering(handler') /\ handler'.ask = 0
  /\ \A u \in AppTurns : home[u] # 0 => home'[u] = home[u]
  /\ \A u \in running' : home'[u] # 0
  /\ alive' => alive
  /\ Ordered(stdout') /\ Unread' = Unread
  /\ \A i \in Resolved' : i \in Resolved \/ (i \in openAsks /\ i \notin openAsks')

LEMMA ElsewhereStep ==
  ASSUME AskInv, Elsewhere
  PROVE  AskInv'
<1>0. AskTypes /\ PlacesInv /\ HeldInv /\ GrantsInv
  BY DEF AskInv
<1>1. AskTypes'
  BY <1>0 DEF AskTypes, Elsewhere
<1>2. Answering(handler') => /\ Answering(handler) /\ handler'.ask = handler.ask /\ handler'.at = handler.at
                             /\ handler'.reply = handler.reply
  BY <1>0 DEF Elsewhere, Answering
<1>3. \A i \in Asks : Taken(i)' => Taken(i)
  BY <1>0 DEF Elsewhere, Taken, PlacesInv, Asks
<1>4. \A i \in Asks : Taken(i) => Taken(i)' \/ i \notin openAsks'
  BY <1>0 DEF Elsewhere, Taken, PlacesInv, Asks
<1>5. PlacesInv'
  <2>1. Ordered(stdout') /\ \A i \in Unread' : asks'[i] # <<>>
    BY <1>0 DEF Elsewhere, PlacesInv
  <2>2. \A i \in Asks : Taken(i)' => asks'[i] # <<>> /\ \A k \in Unread' : i < k
    BY <1>0, <1>3 DEF Elsewhere, PlacesInv
  <2>3. \A i \in pendingAsks' : handler'.ask # i /\ answers'[i] = <<>>
    BY <1>0 DEF Elsewhere, PlacesInv, AskTypes, Asks
  <2>4. /\ ~Answering(handler') => handler'.ask = 0
        /\ Answering(handler') => handler'.ask \in Asks /\ handler'.reply \in Decisions
        /\ handler'.at = "answering" => answers'[handler'.ask] = <<>>
    BY <1>0, <1>2 DEF Elsewhere, PlacesInv, Answering
  <2>5. QED
    BY <2>1, <2>2, <2>3, <2>4 DEF PlacesInv
<1>6. HeldInv'
  <2>1. \A i \in Resolved' : asks'[i] # <<>> /\ i \notin openAsks'
    BY <1>0 DEF Elsewhere, HeldInv, AskTypes
  <2>2. alive' => \A i \in openAsks' : Taken(i)' \/ i \in Unread'
    BY <1>0, <1>4 DEF Elsewhere, HeldInv, AskTypes
  <2>3. QED
    BY <2>1, <2>2 DEF HeldInv
<1>7. GrantsInv'
  <2>1. AsksGrow /\ UNCHANGED <<asks, answers, granted>> /\ \A u \in running' : home'[u] # 0
    BY DEF AsksGrow, Elsewhere
  <2>2. (handler.at = "answered" =>
           answers[handler.ask] = <<<<"user", handler.reply, Sent(handler.ask, handler.reply)>>>>)'
    <3>1. handler'.at = "answered" => handler'.ask = handler.ask /\ handler'.reply = handler.reply /\ handler.at = "answered"
      BY <1>2 DEF Answering
    <3>2. QED
      BY <1>0, <2>1, <3>1 DEF GrantsInv, Sent, Remembers, HasKey
  <2>3. \A i \in Asks : answers'[i] = <<<<"auto", "accept">>>> => ByGrant(i)'
    BY <1>0, <2>1, GrantsGrow DEF GrantsInv, PlacesInv, Taken
  <2>4. \A g \in granted' : \E i \in Asks : Backs(i, g)'
    BY <1>0, <2>1, GrantsGrow DEF GrantsInv
  <2>5. \A i \in Asks : asks'[i] # <<>> => home'[asks'[i][2]] # 0
    BY <2>1, GrantsGrow
  <2>6. QED
    BY <2>1, <2>2, <2>3, <2>4, <2>5 DEF GrantsInv
<1>8. QED
  BY <1>1, <1>5, <1>6, <1>7 DEF AskInv

\* The server's answer takes a request out of the table.
LEMMA RespondStep ==
  ASSUME AskInv, NEW i \in Asks, NEW d \in Decisions, Respond(i, d)
  PROVE  AskInv'
<1>0. AskTypes /\ PlacesInv /\ HeldInv /\ GrantsInv
  BY DEF AskInv
<1>1. /\ i \in pendingAsks /\ pendingAsks' = pendingAsks \ {i} /\ handler.ask = 0
      /\ handler'.at = "answering" /\ handler'.ask = i /\ handler'.reply = d
      /\ UNCHANGED <<asks, answers, granted, openAsks, home, running, alive, stdout>>
  BY DEF Respond, Idle, server, process, pipes
<1>2. answers[i] = <<>> /\ \A j \in Asks : j # 0 /\ (Taken(j)' <=> Taken(j))
  BY <1>0, <1>1 DEF Taken, PlacesInv, Asks
<1>3. AskTypes'
  BY <1>0, <1>1 DEF AskTypes
<1>4. PlacesInv'
  BY <1>0, <1>1, <1>2 DEF PlacesInv, Unread, Answering
<1>5. HeldInv'
  BY <1>0, <1>1, <1>2 DEF HeldInv, Resolved, Unread, AskTypes
<1>6. GrantsInv'
  <2>1. AsksGrow
    BY <1>1 DEF AsksGrow
  <2>2. QED
    BY <1>0, <1>1, <2>1, GrantsGrow DEF GrantsInv, PlacesInv, Taken
<1>7. QED
  BY <1>3, <1>4, <1>5, <1>6 DEF AskInv

\* The answer is written, or given up because the process has exited.
LEMMA SendAnswerStep ==
  ASSUME AskInv, handler \in Handlers, SendAnswer
  PROVE  AskInv'
<1>0. AskTypes /\ PlacesInv /\ HeldInv /\ GrantsInv
  BY DEF AskInv
<1>1. PICK i \in Asks, d \in Decisions : /\ i = handler.ask /\ d = handler.reply /\ handler.at = "answering"
                                         /\ answers[i] = <<>> /\ i # 0
  BY <1>0 DEF SendAnswer, PlacesInv, Answering, Asks
<1>2. UNCHANGED <<asks, granted, pendingAsks, openAsks, home, running, alive, stdout>>
  BY DEF SendAnswer, server, process
<1>3. asks[i] # <<>> /\ i \notin pendingAsks
  BY <1>0, <1>1 DEF PlacesInv, Taken
<1>4. ASSUME alive, answers' = [answers EXCEPT ![i] = <<<<"user", d, Sent(i, d)>>>>], handler' = [handler EXCEPT !.at = "answered"],
             handler'.ask = i, handler'.reply = d, handler'.at = "answered"
      PROVE  AskInv'
  <2>1. answers'[i] = <<<<"user", d, Sent(i, d)>>>> /\ \A j \in Asks : j # i => answers'[j] = answers[j]
    BY <1>0, <1>4 DEF AskTypes
  <2>2. answers'[i] # <<>> /\ \A j \in Asks : Taken(j)' <=> Taken(j)
    <3>1. answers'[i] # <<>> /\ handler'.ask = handler.ask /\ handler.ask = i
      <4>1. PICK a : a = <<"user", d, Sent(i, d)>>
        OBVIOUS
      <4>2. answers'[i] = <<a>> /\ handler'.ask = i /\ handler.ask = i
        BY <1>1, <1>4, <2>1, <4>1
      <4>3. QED
        BY <4>2
    <3>2. \A j \in Asks : j # i => answers'[j] = answers[j]
      BY <2>1
    <3>3. QED
      BY <1>2, <3>1, <3>2 DEF Taken
  <2>3. AskTypes'
    <3>1. <<"user", d, Sent(i, d)>> \in Answers
      BY DEF Answers, Sent, Decisions
    <3>2. answers' \in [Asks -> {<<>>} \cup {<<a>> : a \in Answers}]
      BY <1>0, <1>4, <3>1 DEF AskTypes
    <3>3. QED
      BY <1>0, <1>2, <3>2 DEF AskTypes
  <2>4. PlacesInv'
    BY <1>0, <1>1, <1>2, <1>3, <1>4, <2>1, <2>2 DEF PlacesInv, Unread, Answering
  <2>5. HeldInv'
    BY <1>0, <1>2, <2>2 DEF HeldInv, Resolved, Unread, AskTypes
  <2>6. GrantsInv'
    <3>1. AsksGrow
      BY <1>1, <1>2, <2>1 DEF AsksGrow
    <3>2. Sent(i, d)' = Sent(i, d)
      BY <1>2 DEF Sent, Remembers, HasKey
    <3>3. (handler.at = "answered" =>
             answers[handler.ask] = <<<<"user", handler.reply, Sent(handler.ask, handler.reply)>>>>)'
      BY <1>2, <1>4, <2>1 DEF Sent, Remembers, HasKey
    <3>4. \A j \in Asks : answers'[j] = <<<<"auto", "accept">>>> => ByGrant(j)'
      <4>1. ASSUME NEW j \in Asks, answers'[j] = <<<<"auto", "accept">>>> PROVE ByGrant(j)'
        <5>1. j # i
          BY <2>1, <4>1
        <5>2. answers[j] = <<<<"auto", "accept">>>> /\ asks[j] # <<>>
          BY <1>0, <2>1, <4>1, <5>1 DEF PlacesInv, Taken
        <5>3. QED
          BY <1>0, <3>1, <5>2, GrantsGrow DEF GrantsInv
      <4>2. QED
        BY <4>1
    <3>5. \A g \in granted' : \E j \in Asks : Backs(j, g)'
      BY <1>0, <1>2, <3>1, GrantsGrow DEF GrantsInv
    <3>6. /\ \A u \in running' : home'[u] # 0
          /\ \A j \in Asks : asks'[j] # <<>> => home'[asks'[j][2]] # 0
      BY <1>0, <1>2 DEF GrantsInv
    <3>7. QED
      BY <3>3, <3>4, <3>5, <3>6 DEF GrantsInv
  <2>7. QED
    BY <2>3, <2>4, <2>5, <2>6 DEF AskInv
<1>5. ASSUME ~alive, handler' = Idle, answers' = answers
      PROVE  AskInv'
  <2>1. handler'.ask = 0 /\ handler'.at = "idle"
    BY <1>5 DEF Idle
  <2>2. \A j \in Asks : Taken(j)' => Taken(j)
    BY <1>2, <1>5, <2>1 DEF Taken, Asks
  <2>3. AskTypes'
    BY <1>0, <1>2, <1>5 DEF AskTypes
  <2>4. PlacesInv'
    BY <1>0, <1>2, <1>5, <2>1, <2>2 DEF PlacesInv, Unread, Answering, AskTypes, Asks
  <2>5. HeldInv'
    BY <1>0, <1>2, <1>5 DEF HeldInv, Resolved
  <2>6. AsksGrow
    BY <1>2, <1>5 DEF AsksGrow
  <2>7. GrantsInv'
    BY <1>0, <1>2, <1>5, <2>1, <2>6, GrantsGrow DEF GrantsInv, PlacesInv, Taken
  <2>8. QED
    BY <2>3, <2>4, <2>5, <2>7 DEF AskInv
<1>6. \/ /\ alive /\ answers' = [answers EXCEPT ![i] = Append(answers[i], <<"user", d, Sent(i, d)>>)]
         /\ handler' = [handler EXCEPT !.at = "answered"]
      \/ ~alive /\ handler' = Idle /\ answers' = answers
  BY <1>1 DEF SendAnswer, Sent
<1>7. answers[i] = <<>> => Append(answers[i], <<"user", d, Sent(i, d)>>) = <<<<"user", d, Sent(i, d)>>>>
  OBVIOUS
<1>8. handler' = [handler EXCEPT !.at = "answered"] => handler'.ask = i /\ handler'.reply = d /\ handler'.at = "answered"
  BY <1>1 DEF Handlers
<1>9. QED
  BY <1>1, <1>4, <1>5, <1>6, <1>7, <1>8

\* An operation is remembered once the answer that grants it was written.
LEMMA RememberStep ==
  ASSUME AskInv, Remember
  PROVE  AskInv'
<1>0. AskTypes /\ PlacesInv /\ HeldInv /\ GrantsInv
  BY DEF AskInv
<1>1. PICK i \in Asks, d \in Decisions :
        /\ i = handler.ask /\ d = handler.reply /\ i # 0 /\ asks[i] # <<>> /\ i \notin pendingAsks
        /\ answers[i] = <<<<"user", d, Sent(i, d)>>>>
  BY <1>0 DEF Remember, PlacesInv, GrantsInv, Answering, Asks, Taken
<1>2. /\ UNCHANGED <<asks, answers, pendingAsks, openAsks, home, running, alive, stdout>>
      /\ granted' = IF Remembers(i, d) THEN granted \cup {Key(i)} ELSE granted
      /\ handler'.ask = 0 /\ handler'.at = "idle"
  BY <1>1 DEF Remember, server, process, pipes, Idle
<1>3. answers[i] # <<>> /\ \A j \in Asks : Taken(j)' <=> Taken(j)
  <2>1. answers[i] # <<>> /\ answers'[i] # <<>>
    <3>1. PICK a : a = <<"user", d, Sent(i, d)>>
      OBVIOUS
    <3>2. answers[i] = <<a>> /\ answers' = answers
      BY <1>1, <1>2, <3>1
    <3>3. QED
      BY <3>2
  <2>2. \A j \in Asks : j # 0 /\ pendingAsks' = pendingAsks /\ answers' = answers
    BY <1>2 DEF Asks
  <2>3. \A j \in Asks : (handler.ask = j => j = i) /\ handler'.ask # j
    BY <1>1, <1>2, <2>2
  <2>4. QED
    BY <2>1, <2>2, <2>3 DEF Taken
<1>4. AskTypes'
  BY <1>0, <1>2 DEF AskTypes
<1>5. PlacesInv'
  BY <1>0, <1>2, <1>3 DEF PlacesInv, Unread, Answering, AskTypes, Asks
<1>6. HeldInv'
  BY <1>0, <1>2, <1>3 DEF HeldInv, Resolved, Unread, AskTypes
<1>7. AsksGrow
  BY <1>2 DEF AsksGrow
<1>8. ASSUME NEW g \in granted' PROVE \E j \in Asks : Backs(j, g)'
  <2>1. CASE g \in granted
    BY <1>0, <1>7, <2>1, GrantsGrow DEF GrantsInv
  <2>2. CASE Remembers(i, d) /\ g = Key(i)
    <3>1. Backs(i, g)
      BY <1>1, <2>2 DEF Backs, Sent, Remembers
    <3>2. QED
      BY <1>7, <3>1, GrantsGrow
  <2>3. QED
    BY <1>2, <1>8, <2>1, <2>2
<1>9. GrantsInv'
  BY <1>0, <1>2, <1>7, <1>8, GrantsGrow DEF GrantsInv, PlacesInv, Taken
<1>10. QED
  BY <1>4, <1>5, <1>6, <1>9 DEF AskInv

LEMMA MembersSplit ==
  ASSUME NEW S, NEW q \in Seq(S), q # <<>>
  PROVE  ToSet(q) = {Head(q)} \cup ToSet(Tail(q))
<1>1. Len(q) \in Nat \ {0} /\ Head(q) = q[1] /\ Tail(q) \in Seq(S) /\ Len(Tail(q)) = Len(q) - 1
  OBVIOUS
<1>2. \A k \in 1..Len(Tail(q)) : Tail(q)[k] = q[k + 1]
  OBVIOUS
<1>3. ToSet(q) = {q[k] : k \in 1..Len(q)} /\ ToSet(Tail(q)) = {Tail(q)[k] : k \in 1..Len(Tail(q))}
  BY <1>1, MembersOf
<1>4. ASSUME NEW x \in ToSet(q) PROVE x = Head(q) \/ x \in ToSet(Tail(q))
  <2>1. PICK k \in 1..Len(q) : x = q[k]
    BY <1>3, <1>4
  <2>2. CASE k = 1
    BY <1>1, <2>1, <2>2
  <2>3. CASE k # 1
    <3>1. k - 1 \in 1..Len(Tail(q)) /\ (k - 1) + 1 = k
      BY <1>1, <2>3
    <3>2. Tail(q)[k - 1] = x
      BY <1>2, <2>1, <3>1
    <3>3. QED
      BY <1>3, <3>1, <3>2
  <2>4. QED
    BY <2>2, <2>3
<1>5. Head(q) \in ToSet(q) /\ ToSet(Tail(q)) \subseteq ToSet(q)
  BY MembersLeft
<1>6. QED
  BY <1>4, <1>5

\* The reader takes up the first request that is still unread.
LEMMA ReadAskPlaces ==
  ASSUME AskInv, stdout \in Seq(Outputs), Reads("ask")
  PROVE  \E i \in Asks : /\ i = Head(stdout)[2] /\ i \in Unread /\ ~Taken(i) /\ asks[i] # <<>>
                         /\ Ordered(stdout') /\ Unread' = Unread \ {i} /\ Resolved' = Resolved
                         /\ \A k \in Unread' : i < k
<1>0. PlacesInv
  BY DEF AskInv
<1>1. stdout # <<>> /\ Head(stdout)[1] = "ask" /\ stdout' = Tail(stdout)
  BY DEF Reads
<1>2. Head(stdout) \in Outputs /\ ToSet(stdout) = {Head(stdout)} \cup ToSet(stdout') /\ stdout' \in Seq(Outputs)
  BY <1>1, MembersSplit, MembersLeft
<1>3. PICK i \in Asks : Head(stdout) = <<"ask", i>>
  BY <1>1, <1>2 DEF Outputs
<1>4. i \in Unread /\ i \in Nat
  BY <1>2, <1>3 DEF Unread, Asks
<1>5. ~Taken(i) /\ asks[i] # <<>>
  BY <1>0, <1>4 DEF PlacesInv
<1>6. Ordered(stdout') /\ \A o \in ToSet(stdout') : o[1] = "ask" => i < o[2]
  BY <1>0, <1>1, <1>3, OrderedLeft DEF PlacesInv
<1>7. \A k \in Unread' : i < k
  BY <1>6 DEF Unread
<1>8. Unread' = Unread \ {i}
  BY <1>2, <1>3, <1>4, <1>7 DEF Unread
<1>9. Resolved' = Resolved
  <2>1. \A j \in Asks : <<"resolved", j>> # <<"ask", i>>
    OBVIOUS
  <2>2. QED
    BY <1>2, <1>3, <2>1 DEF Resolved
<1>10. QED
  BY <1>3, <1>4, <1>5, <1>6, <1>7, <1>8, <1>9

\* A grant is a request that was answered "accept" though it offered no session.
LEMMA Granted ==
  ASSUME AskInv, NEW i \in Asks, asks[i] # <<>>, ~Taken(i), i \in Unread, MayAutoAccept(i)
  PROVE  ByGrant(i)
<1>0. AskTypes /\ PlacesInv /\ GrantsInv
  BY DEF AskInv
<1>1. PICK j \in Asks : Backs(j, Key(i))
  BY <1>0 DEF MayAutoAccept, GrantsInv
<1>2. /\ answers[j] = <<<<"user", "acceptForSession", "accept">>>>
      /\ asks[j][3] = asks[i][3] /\ home[asks[j][2]] = home[asks[i][2]]
  BY <1>1 DEF Backs, Key
<1>3. Taken(j)
  BY <1>2 DEF Taken
<1>4. j \in 1..(i - 1)
  BY <1>0, <1>3 DEF PlacesInv, Asks
<1>5. QED
  BY <1>2, <1>4 DEF ByGrant, MayAutoAccept

LEMMA ReadAskStep ==
  ASSUME AskInv, stdout \in Seq(Outputs), ReadAsk
  PROVE  AskInv'
<1>0. AskTypes /\ PlacesInv /\ HeldInv /\ GrantsInv
  BY DEF AskInv
<1>1. Reads("ask")
  BY DEF ReadAsk
<1>2. PICK i \in Asks : /\ i = Head(stdout)[2] /\ i \in Unread /\ ~Taken(i) /\ asks[i] # <<>>
                        /\ Ordered(stdout') /\ Unread' = Unread \ {i} /\ Resolved' = Resolved
                        /\ \A k \in Unread' : i < k
  BY <1>1, ReadAskPlaces
<1>3. UNCHANGED <<asks, granted, openAsks, home, running, alive, handler>>
  BY DEF ReadAsk, server, process, rpc
<1>4. i \notin pendingAsks /\ handler.ask # i /\ answers[i] = <<>>
  BY <1>2 DEF Taken
<1>5. /\ HeldInv' <=> alive => \A j \in openAsks : Taken(j)' \/ j \in Unread'
      /\ AskTypes' <=> answers' \in [Asks -> {<<>>} \cup {<<a>> : a \in Answers}] /\ pendingAsks' \subseteq Asks
  BY <1>0, <1>2, <1>3 DEF HeldInv, AskTypes
<1>6. ASSUME NEW a \in Answers, a[1] = "auto", answers' = [answers EXCEPT ![i] = <<a>>], pendingAsks' = pendingAsks,
             a = <<"auto", "accept">> => ByGrant(i)
      PROVE  AskInv'
  <2>1. answers'[i] = <<a>> /\ \A j \in Asks : j # i => answers'[j] = answers[j]
    BY <1>0, <1>6 DEF AskTypes
  <2>2. Taken(i)' /\ \A j \in Asks : j # i => (Taken(j)' <=> Taken(j))
    <3>1. answers'[i] # <<>>
      BY <2>1
    <3>2. QED
      BY <1>3, <1>6, <2>1, <3>1 DEF Taken
  <2>3. AskTypes'
    BY <1>0, <1>5, <1>6 DEF AskTypes
  <2>4. PlacesInv'
    BY <1>0, <1>2, <1>3, <1>4, <1>6, <2>1, <2>2 DEF PlacesInv, Answering
  <2>5. HeldInv'
    BY <1>0, <1>2, <1>3, <1>5, <2>2 DEF HeldInv, AskTypes
  <2>6. AsksGrow
    BY <1>3, <1>4, <2>1 DEF AsksGrow
  <2>7. (handler.at = "answered" =>
           answers[handler.ask] = <<<<"user", handler.reply, Sent(handler.ask, handler.reply)>>>>)'
    <3>1. handler.at = "answered" => handler.ask \in Asks /\ handler.ask # i
      BY <1>0, <1>4 DEF PlacesInv, Answering
    <3>2. QED
      BY <1>0, <1>3, <2>1, <3>1 DEF GrantsInv, Sent, Remembers, HasKey
  <2>8. ASSUME NEW j \in Asks, answers'[j] = <<<<"auto", "accept">>>> PROVE ByGrant(j)'
    <3>1. asks[j] # <<>> /\ ByGrant(j)
      <4>1. CASE j = i
        BY <1>2, <1>6, <2>1, <2>8, <4>1
      <4>2. CASE j # i
        <5>1. answers[j] = <<<<"auto", "accept">>>>
          BY <2>1, <2>8, <4>2
        <5>2. answers[j] # <<>>
          BY <5>1
        <5>3. QED
          BY <1>0, <5>1, <5>2 DEF GrantsInv, PlacesInv, Taken
      <4>3. QED
        BY <4>1, <4>2
    <3>2. QED
      BY <2>6, <3>1, GrantsGrow
  <2>9. \A g \in granted' : \E j \in Asks : Backs(j, g)'
    BY <1>0, <1>3, <2>6, GrantsGrow DEF GrantsInv
  <2>10. GrantsInv'
    BY <1>0, <1>3, <2>7, <2>8, <2>9 DEF GrantsInv
  <2>11. QED
    BY <2>3, <2>4, <2>5, <2>10 DEF AskInv
<1>7. ASSUME answers' = answers, pendingAsks' = pendingAsks \cup {i}
      PROVE  AskInv'
  <2>1. Taken(i)' /\ \A j \in Asks : j # i => (Taken(j)' <=> Taken(j))
    BY <1>3, <1>7 DEF Taken
  <2>2. AskTypes'
    BY <1>0, <1>5, <1>7 DEF AskTypes
  <2>3. PlacesInv'
    BY <1>0, <1>2, <1>3, <1>4, <1>7, <2>1 DEF PlacesInv, Answering
  <2>4. HeldInv'
    BY <1>0, <1>2, <1>3, <1>5, <2>1 DEF HeldInv, AskTypes
  <2>5. AsksGrow
    BY <1>3, <1>7 DEF AsksGrow
  <2>6. \A j \in Asks : answers'[j] = <<<<"auto", "accept">>>> => ByGrant(j)'
    BY <1>0, <1>7, <2>5, GrantsGrow DEF GrantsInv, PlacesInv, Taken
  <2>7. \A g \in granted' : \E j \in Asks : Backs(j, g)'
    BY <1>0, <1>3, <2>5, GrantsGrow DEF GrantsInv
  <2>8. (handler.at = "answered" =>
           answers[handler.ask] = <<<<"user", handler.reply, Sent(handler.ask, handler.reply)>>>>)'
    BY <1>0, <1>3, <1>7 DEF GrantsInv, Sent, Remembers, HasKey
  <2>9. GrantsInv'
    BY <1>0, <1>3, <2>6, <2>7, <2>8 DEF GrantsInv
  <2>10. QED
    BY <2>2, <2>3, <2>4, <2>9 DEF AskInv
<1>8. /\ answers[i] = <<>>
      /\ \A a \in Answers : Append(answers[i], a) = <<a>>
      /\ <<"auto", "error">> \in Answers /\ <<"auto", "accept">> \in Answers
  BY <1>4 DEF Answers
<1>9. \/ answers' = [answers EXCEPT ![i] = Append(answers[i], <<"auto", "error">>)] /\ pendingAsks' = pendingAsks
      \/ /\ MayAutoAccept(i) /\ pendingAsks' = pendingAsks
         /\ answers' = [answers EXCEPT ![i] = Append(answers[i], <<"auto", "accept">>)]
      \/ answers' = answers /\ pendingAsks' = pendingAsks \cup {i}
  BY <1>2 DEF ReadAsk, Hold
<1>10. MayAutoAccept(i) => ByGrant(i)
  BY <1>2, Granted
<1>11. CASE answers' = [answers EXCEPT ![i] = Append(answers[i], <<"auto", "error">>)] /\ pendingAsks' = pendingAsks
  BY <1>6, <1>8, <1>11
<1>12. CASE /\ MayAutoAccept(i) /\ pendingAsks' = pendingAsks
            /\ answers' = [answers EXCEPT ![i] = Append(answers[i], <<"auto", "accept">>)]
  BY <1>6, <1>8, <1>10, <1>12
<1>13. QED
  BY <1>7, <1>9, <1>11, <1>12

\* A new request comes after all that were made.
LEMMA AskStep ==
  ASSUME AskInv, stdout \in Seq(Outputs), NEW u \in AppTurns, NEW kind \in {"approval", "input"},
         NEW c \in Commands \cup {None}, NEW offer \in SUBSET Decisions, Ask(u, kind, c, offer)
  PROVE  AskInv'
<1>0. AskTypes /\ PlacesInv /\ HeldInv /\ GrantsInv
  BY DEF AskInv
<1>1. PICK i \in Asks : /\ asks[i] = <<>> /\ \A j \in 1..(i - 1) : asks[j] # <<>>
                        /\ asks' = [asks EXCEPT ![i] = <<kind, u, c, offer>>]
                        /\ openAsks' = openAsks \cup {i} /\ stdout' = Append(stdout, <<"ask", i>>)
  BY DEF Ask
<1>2. UNCHANGED <<answers, granted, pendingAsks, handler, home, running, alive>> /\ alive /\ u \in running
  BY DEF Ask, approv, rpc
<1>3. asks'[i] = <<kind, u, c, offer>> /\ asks'[i] \in Asked /\ \A j \in Asks : j # i => asks'[j] = asks[j]
  BY <1>0, <1>1 DEF AskTypes, Asked
<1>4. asks'[i] # <<>> /\ asks'[i][2] = u
  BY <1>3
<1>5. \A j \in Asks : asks[j] # <<>> => j < i
  BY <1>0, <1>1 DEF AskTypes, Asks
<1>6. PICK m \in Outputs : m = <<"ask", i>> /\ m[1] = "ask" /\ m[2] = i
  BY OutputKinds
<1>7. ToSet(stdout') = ToSet(stdout) \cup {m}
  <2>1. ToSet(Append(stdout, m)) = ToSet(stdout) \cup {m}
    BY MembersAppended
  <2>2. stdout' = Append(stdout, m)
    BY <1>1, <1>6
  <2>3. QED
    BY <2>1, <2>2
<1>8. Unread' = Unread \cup {i} /\ i \notin Unread
  BY <1>0, <1>1, <1>6, <1>7 DEF Unread, PlacesInv
<1>9. Resolved' = Resolved /\ i \notin Resolved
  <2>1. \A j \in Asks : <<"resolved", j>> # m
    BY <1>6
  <2>2. QED
    BY <1>0, <1>1, <1>7, <2>1 DEF Resolved, HeldInv
<1>10. \A o \in ToSet(stdout) : o[1] = "ask" => o[2] < i
  <2>1. ASSUME NEW o \in ToSet(stdout), o[1] = "ask" PROVE o[2] < i
    <3>1. o \in Outputs
      BY <2>1, MembersOf
    <3>2. PICK j \in Asks : o = <<"ask", j>>
      BY <2>1, <3>1 DEF Outputs
    <3>3. j \in Unread
      BY <2>1, <3>2 DEF Unread
    <3>4. QED
      BY <1>0, <1>5, <3>2, <3>3 DEF PlacesInv
  <2>2. QED
    BY <2>1
<1>11. Ordered(stdout')
  BY <1>0, <1>1, <1>6, <1>10, OrderedAppended DEF PlacesInv
<1>12. \A j \in Asks : (Taken(j)' <=> Taken(j)) /\ (Taken(j) => j # i /\ asks[j] # <<>>)
  BY <1>0, <1>1, <1>2 DEF Taken, PlacesInv
<1>13. AskTypes'
  <2>1. asks' \in [Asks -> {<<>>} \cup Asked] /\ openAsks' \subseteq Asks /\ \A j \in openAsks' : asks'[j] # <<>>
    BY <1>0, <1>1, <1>3, <1>4 DEF AskTypes
  <2>2. ASSUME NEW k \in Asks, asks'[k] # <<>>, NEW j \in 1..(k - 1) PROVE asks'[j] # <<>>
    <3>1. j \in Asks
      BY CodexConstants DEF Asks
    <3>2. j # i => asks[j] # <<>>
      BY <1>0, <1>1, <1>3, <2>2 DEF AskTypes
    <3>3. QED
      BY <1>3, <1>4, <3>1, <3>2
  <2>3. QED
    BY <1>0, <1>2, <2>1, <2>2 DEF AskTypes
<1>14. PlacesInv'
  <2>1. \A j \in Unread' : asks'[j] # <<>>
    BY <1>0, <1>3, <1>4, <1>8 DEF PlacesInv, Unread
  <2>2. \A j \in Asks : Taken(j)' => asks'[j] # <<>> /\ \A k \in Unread' : j < k
    BY <1>0, <1>3, <1>5, <1>8, <1>12 DEF PlacesInv
  <2>3. QED
    BY <1>0, <1>2, <1>11, <2>1, <2>2 DEF PlacesInv
<1>15. HeldInv'
  <2>1. \A j \in Resolved' : asks'[j] # <<>> /\ j \notin openAsks'
    BY <1>0, <1>1, <1>3, <1>9 DEF HeldInv, Resolved
  <2>2. \A j \in openAsks' : Taken(j)' \/ j \in Unread'
    BY <1>0, <1>1, <1>2, <1>8, <1>12 DEF HeldInv, AskTypes
  <2>3. QED
    BY <2>1, <2>2 DEF HeldInv
<1>16. AsksGrow
  BY <1>1, <1>2, <1>3 DEF AsksGrow
<1>17. GrantsInv'
  <2>1. \A j \in Asks : asks'[j] # <<>> => home'[asks'[j][2]] # 0
    BY <1>0, <1>2, <1>3, <1>4, <1>16, GrantsGrow DEF GrantsInv
  <2>2. (handler.at = "answered" =>
           answers[handler.ask] = <<<<"user", handler.reply, Sent(handler.ask, handler.reply)>>>>)'
    <3>1. ASSUME handler.at = "answered"
          PROVE  handler.ask \in Asks /\ asks'[handler.ask] = asks[handler.ask]
      BY <1>0, <1>3, <1>12, <3>1 DEF PlacesInv, Answering, Taken
    <3>2. QED
      BY <1>0, <1>2, <3>1 DEF GrantsInv, Sent, Remembers, HasKey
  <2>3. \A j \in Asks : answers'[j] = <<<<"auto", "accept">>>> => ByGrant(j)'
    <3>1. ASSUME NEW j \in Asks, answers'[j] = <<<<"auto", "accept">>>> PROVE ByGrant(j)'
      <4>1. answers[j] = <<<<"auto", "accept">>>>
        BY <1>2, <3>1
      <4>2. answers[j] # <<>>
        BY <4>1
      <4>3. asks[j] # <<>> /\ ByGrant(j)
        BY <1>0, <4>1, <4>2 DEF GrantsInv, PlacesInv, Taken
      <4>4. QED
        BY <1>16, <4>3, GrantsGrow
    <3>2. QED
      BY <3>1
  <2>4. \A g \in granted' : \E j \in Asks : Backs(j, g)'
    BY <1>0, <1>2, <1>16, GrantsGrow DEF GrantsInv
  <2>5. \A v \in running' : home'[v] # 0
    BY <1>0, <1>2 DEF GrantsInv
  <2>6. QED
    BY <2>1, <2>2, <2>3, <2>4, <2>5 DEF GrantsInv
<1>18. QED
  BY <1>13, <1>14, <1>15, <1>17 DEF AskInv

LEMMA Silent ==
  ASSUME NEW h \in Handlers, h.ask = 0, NEW at \in Methods \cup {"mapping", "unmapping"},
         handler' = [h EXCEPT !.at = at] \/ handler' = Failed(h) \/ handler' = Idle
  PROVE  handler'.ask = 0 /\ ~Answering(handler')
<1>1. at \notin {"answering", "answered"}
  BY DEF Methods
<1>2. CASE handler' = [h EXCEPT !.at = at]
  <2>1. handler'.ask = 0 /\ handler'.at = at
    BY <1>2 DEF Handlers
  <2>2. QED
    BY <1>1, <2>1 DEF Answering
<1>3. CASE handler' = Idle
  BY <1>3 DEF Idle, Answering
<1>4. CASE handler' = [h EXCEPT !.at = "unmapping"]
  <2>1. handler'.ask = 0 /\ handler'.at = "unmapping"
    BY <1>4 DEF Handlers
  <2>2. QED
    BY <2>1 DEF Answering
<1>5. QED
  BY <1>2, <1>3, <1>4 DEF Failed

\* The handler of another message touches no request.
LEMMA QuietElsewhere ==
  ASSUME AskInv, UNCHANGED <<process, stdout, pendingAsks, granted, answers>>,
         handler' = handler \/ (~Answering(handler) /\ ~Answering(handler') /\ handler'.ask = 0)
  PROVE  AskInv'
<1>1. Elsewhere
  BY DEF Elsewhere, process, AskInv, PlacesInv, GrantsInv, Unread, Resolved
<1>2. QED
  BY <1>1, ElsewhereStep

LEMMA MessagesElsewhere ==
  ASSUME WireInv, TablesOk, AskInv, NEW x, NEW t, NEW given \in AppThreads \cup {0}, NEW named,
         \/ /\ t \in Turns /\ named \in ToldTurns(t) \cup {0}
            /\ (TurnStart(t, given) \/ TurnSteer(t, given, named) \/ TurnCancel(t, given, named))
         \/ x \in Threads /\ (ThreadResume(x, given) \/ ThreadArchive(x, given) \/ ThreadUnarchive(x, given))
  PROVE  AskInv'
<1> DEFINE Goal == ~Answering(handler) /\ ~Answering(handler') /\ handler'.ask = 0
<1>0. /\ {"turn_start", "turn_steer", "turn_cancel"} \subseteq OfTurns
      /\ t \in Turns => ThreadOf[t] \in Threads
  BY CodexConstants DEF OfTurns
<1>1. /\ handler = Idle /\ ~Answering(handler)
      /\ UNCHANGED <<process, stdout, pendingAsks, granted, answers>>
  BY DEF TurnStart, TurnSteer, TurnCancel, ThreadResume, ThreadArchive, ThreadUnarchive, Begins, Idle, Answering,
         server, pipes, approv
<1>2. ASSUME NEW h \in Handlers, h.ask = 0, MapThread(h) \/ (\E m \in Methods : \E u : Call(h, m, u)) \/ handler' = Failed(h)
      PROVE  Goal
  <2>1. PICK at \in Methods \cup {"mapping", "unmapping"} :
          handler' = [h EXCEPT !.at = at] \/ handler' = Failed(h) \/ handler' = Idle
    BY <1>2 DEF MapThread, Call
  <2>2. QED
    BY <1>1, <1>2, <2>1, Silent
<1>3. {"thread/start", "turn/interrupt", "thread/archive", "thread/unarchive"} \subseteq Methods
  BY DEF Methods
<1>4. ASSUME t \in Turns, TurnStart(t, given) PROVE Goal
  <2>1. PICK h : h = Request("turn_start", ThreadOf[t], t, given)
    OBVIOUS
  <2>2. h \in Handlers /\ h.ask = 0
    BY <1>0, <1>4, <2>1, Begun
  <2>3. QED
    BY <1>2, <1>3, <1>4, <2>1, <2>2 DEF TurnStart
<1>5. ASSUME t \in Turns, named \in ToldTurns(t) \cup {0}, TurnSteer(t, given, named) PROVE Goal
  <2>1. PICK h, u, g : h = Request("turn_steer", ThreadOf[t], t, given) /\ u = AppTurn(t, named) /\ g = [h EXCEPT !.appTurn = u]
    OBVIOUS
  <2>2. h \in Handlers /\ h.ask = 0
    BY <1>0, <1>5, <2>1, Begun
  <2>3. g \in Handlers /\ g.ask = 0
    BY <1>5, <2>1, <2>2, Told, Steered
  <2>4. QED
    BY <1>2, <1>5, <2>1, <2>3 DEF TurnSteer
<1>6. ASSUME t \in Turns, TurnCancel(t, given, named) PROVE Goal
  <2>1. PICK h : h = Request("turn_cancel", ThreadOf[t], t, given)
    OBVIOUS
  <2>2. h \in Handlers /\ h.ask = 0
    BY <1>0, <1>6, <2>1, Begun
  <2>3. QED
    BY <1>2, <1>3, <1>6, <2>1, <2>2 DEF TurnCancel
<1>7. ASSUME x \in Threads, ThreadResume(x, given) PROVE Goal
  <2>1. PICK h : h = Request("thread_resume", x, None, given)
    OBVIOUS
  <2>2. h \in Handlers /\ h.ask = 0
    BY <1>7, <2>1, Begun DEF OfTurns
  <2>3. QED
    BY <1>2, <1>7, <2>1, <2>2 DEF ThreadResume
<1>8. ASSUME x \in Threads, ThreadArchive(x, given) PROVE Goal
  <2>1. PICK h : h = Request("archive", x, None, given)
    OBVIOUS
  <2>2. h \in Handlers /\ h.ask = 0
    BY <1>8, <2>1, Begun DEF OfTurns
  <2>3. QED
    BY <1>2, <1>3, <1>8, <2>1, <2>2 DEF ThreadArchive
<1>9. ASSUME x \in Threads, ThreadUnarchive(x, given) PROVE Goal
  <2>1. PICK h : h = Request("unarchive", x, None, given)
    OBVIOUS
  <2>2. h \in Handlers /\ h.ask = 0
    BY <1>9, <2>1, Begun DEF OfTurns
  <2>3. QED
    BY <1>2, <1>3, <1>9, <2>1, <2>2 DEF ThreadUnarchive
<1>10. QED
  BY <1>1, <1>4, <1>5, <1>6, <1>7, <1>8, <1>9, QuietElsewhere

LEMMA HandlerElsewhere ==
  ASSUME WireInv, AskInv, Handler, ~SendAnswer, ~Remember
  PROVE  AskInv'
<1> DEFINE Goal == ~Answering(handler) /\ ~Answering(handler') /\ handler'.ask = 0
<1>0. RpcInv /\ handler \in Handlers /\ PlacesInv
  BY DEF WireInv, RpcInv, HandlerOk, AskInv
<1>1. UNCHANGED <<process, stdout, pendingAsks, granted, answers>>
  BY DEF Handler, TimesOut, Mapped, ThreadStarted, TurnStarted, Resumed, Answered, Archived, server, pipes, approv
<1>2. handler.at \in Methods \cup {"mapping", "unmapping"}
  BY <1>0 DEF Handler, TimesOut, Mapped, ThreadStarted, TurnStarted, Resumed, Answered, Archived, Returned, RpcInv,
              Methods
<1>3. ~Answering(handler) /\ handler.ask = 0
  BY <1>0, <1>2 DEF Answering, Methods, PlacesInv
<1>4. ASSUME NEW h \in Handlers, h.ask = 0, (\E m \in Methods : \E u : Call(h, m, u)) \/ handler' = Failed(h) \/ handler' = Idle
      PROVE  Goal
  <2>1. PICK at \in Methods \cup {"mapping", "unmapping"} :
          handler' = [h EXCEPT !.at = at] \/ handler' = Failed(h) \/ handler' = Idle
    BY <1>4 DEF Call
  <2>2. QED
    BY <1>3, <1>4, <2>1, Silent
<1>5. ASSUME TimesOut \/ Resumed \/ Answered \/ Archived \/ Mapped PROVE Goal
  <2>1. {"turn/start", "turn/steer", "thread/resume"} \subseteq Methods
    BY DEF Methods
  <2>2. (\E m \in Methods : \E u : Call(handler, m, u)) \/ handler' = Failed(handler) \/ handler' = Idle
    BY <1>5, <2>1 DEF TimesOut, Resumed, Answered, Archived, Mapped
  <2>3. QED
    BY <1>0, <1>3, <1>4, <2>2
<1>6. ASSUME ThreadStarted PROVE Goal
  <2>1. CASE ~Ok
    BY <1>0, <1>3, <1>4, <1>6, <2>1 DEF ThreadStarted
  <2>2. CASE Ok
    <3>1. PICK h : h = [handler EXCEPT !.app = call.reply[2]]
      OBVIOUS
    <3>2. handler.at = "thread/start" /\ ReplyOk(handler, call.reply)
      BY <1>0, <1>6, Waiting DEF ThreadStarted, Methods
    <3>3. call.reply[2] \in AppThreads
      BY <2>2, <3>2 DEF Ok, ReplyOk, WireInv, OwnersInv
    <3>4. h \in Handlers /\ h.ask = 0
      BY <1>0, <1>3, <3>1, <3>3 DEF Handlers
    <3>5. Call(h, "turn/start", 0) /\ "turn/start" \in Methods
      BY <1>6, <2>2, <3>1 DEF ThreadStarted, Methods
    <3>6. QED
      BY <1>4, <3>4, <3>5
  <2>3. QED
    BY <2>1, <2>2
<1>7. ASSUME TurnStarted PROVE Goal
  <2>1. CASE handler' = Idle
    BY <1>0, <1>3, <1>4, <2>1
  <2>2. CASE MapThread([handler EXCEPT !.retried = TRUE])
    <3>1. PICK h : h = [handler EXCEPT !.retried = TRUE]
      OBVIOUS
    <3>2. h \in Handlers /\ h.ask = 0
      BY <1>0, <1>3, <3>1 DEF Handlers
    <3>3. handler' = [h EXCEPT !.at = "mapping"]
      BY <2>2, <3>1 DEF MapThread
    <3>4. QED
      BY <1>3, <3>2, <3>3, Silent
  <2>3. QED
    BY <1>7, <2>1, <2>2 DEF TurnStarted
<1>8. QED
  BY <1>1, <1>5, <1>6, <1>7, QuietElsewhere DEF Handler

\* The reader reads anything but a request.
LEMMA ReaderElsewhere ==
  ASSUME AskInv, stdout \in Seq(Outputs), Reader, ~ReadAsk
  PROVE  AskInv'
<1>0. AskTypes /\ PlacesInv /\ HeldInv /\ GrantsInv
  BY DEF AskInv
<1>1. UNCHANGED <<process, handler, granted, answers>>
  BY DEF Reader, ReadResponse, ReadTurn, ReadDelta, ReadMessage, ReadResolved, ReadClosed, Emit, server, rpc, approv
<1>2. CASE Emit
  <2>1. stdout' = stdout /\ pendingAsks' = pendingAsks
    BY <1>2 DEF Emit, pipes
  <2>2. QED
    BY <1>1, <2>1, QuietElsewhere
<1>3. CASE ~Emit
  <2>1. PICK kind \in {"response", "turn", "delta", "message", "resolved", "closed"} : Reads(kind)
    BY <1>3 DEF Reader, ReadResponse, ReadTurn, ReadDelta, ReadMessage, ReadResolved, ReadClosed
  <2>2. stdout # <<>> /\ Head(stdout)[1] # "ask" /\ stdout' = Tail(stdout)
    BY <2>1 DEF Reads
  <2>3. ToSet(stdout) = {Head(stdout)} \cup ToSet(stdout') /\ Head(stdout) \in Outputs
    BY <2>2, MembersSplit, MembersLeft
  <2>4. Ordered(stdout')
    BY <1>0, <2>2, OrderedLeft DEF PlacesInv
  <2>5. Unread' = Unread
    <3>1. \A i \in Asks : <<"ask", i>> # Head(stdout)
      BY <2>2
    <3>2. QED
      BY <2>3, <3>1 DEF Unread
  <2>6. \A i \in Resolved' : i \in Resolved
    BY <2>3 DEF Resolved
  <2>7. pendingAsks' \subseteq pendingAsks /\ \A i \in pendingAsks \ pendingAsks' : i \notin openAsks
    <3>1. CASE ReadResolved
      <4>1. Head(stdout)[1] = "resolved" /\ pendingAsks' \in {pendingAsks, pendingAsks \ {Head(stdout)[2]}}
        BY <3>1 DEF ReadResolved, Reads
      <4>2. PICK i \in Asks : Head(stdout) = <<"resolved", i>>
        BY <2>3, <4>1 DEF Outputs
      <4>3. i \in Resolved
        BY <2>3, <4>2 DEF Resolved
      <4>4. QED
        BY <1>0, <4>1, <4>2, <4>3 DEF HeldInv
    <3>2. CASE ~ReadResolved
      BY <1>3, <3>2 DEF Reader, ReadResponse, ReadTurn, ReadDelta, ReadMessage, ReadClosed, approv
    <3>3. QED
      BY <3>1, <3>2
  <2>8. Elsewhere
    BY <1>0, <1>1, <2>4, <2>5, <2>6, <2>7 DEF Elsewhere, process, GrantsInv
  <2>9. QED
    BY <2>8, ElsewhereStep
<1>4. QED
  BY <1>2, <1>3

\* The app-server reports what is no request, and resolves what it no longer waits for.
LEMMA ReportsElsewhere ==
  ASSUME AskInv, stdout \in Seq(Outputs), NEW s \in Seq(Outputs), stdout' = stdout \o s,
         \A o \in ToSet(s) : /\ o[1] # "ask"
                             /\ o[1] = "resolved" => o[2] \in openAsks /\ o[2] \notin openAsks',
         openAsks' \subseteq openAsks, alive' = alive,
         UNCHANGED <<handler, asks, pendingAsks, granted, answers>>,
         \A u \in AppTurns : home[u] # 0 => home'[u] = home[u],
         \A u \in running' : home'[u] # 0
  PROVE  AskInv'
<1>0. PlacesInv
  BY DEF AskInv
<1>1. ToSet(stdout') = ToSet(stdout) \cup ToSet(s)
  BY MembersJoined
<1>2. Ordered(stdout')
  BY <1>0, OrderedJoined DEF PlacesInv
<1>3. Unread' = Unread
  <2>1. \A i \in Asks : <<"ask", i>> \notin ToSet(s)
    BY Zenon
  <2>2. QED
    BY <1>1, <2>1 DEF Unread
<1>4. \A i \in Resolved' : i \in Resolved \/ (i \in openAsks /\ i \notin openAsks')
  <2>1. ASSUME NEW i \in Asks, <<"resolved", i>> \in ToSet(s) PROVE i \in openAsks /\ i \notin openAsks'
    <3>1. PICK o \in ToSet(s) : o = <<"resolved", i>>
      BY <2>1
    <3>2. o[1] = "resolved" /\ o[2] = i
      BY <3>1
    <3>3. QED
      BY <3>2
  <2>2. QED
    BY <1>1, <2>1 DEF Resolved
<1>5. Elsewhere
  BY <1>2, <1>3, <1>4 DEF Elsewhere
<1>6. QED
  BY <1>5, ElsewhereStep

LEMMA AppServerElsewhere ==
  ASSUME AskInv, WireInv,
         \/ ReadAnswer \/ Exit \/ Close \/ UNCHANGED vars
         \/ \E u \in AppTurns : EndTurn(u) \/ Speak(u) \/ EndMessage(u)
         \/ \E a \in AppThreads : CloseThread(a)
  PROVE  AskInv'
<1>0. /\ AskTypes /\ PlacesInv /\ HeldInv /\ GrantsInv /\ OwnersInv /\ stdout \in Seq(Outputs)
      /\ \A u \in running : home[u] # 0
  BY DEF AskInv, WireInv, PipesInv, GrantsInv
<1>1. CASE Exit \/ Close \/ UNCHANGED vars
  <2>1. /\ UNCHANGED <<stdout, handler, asks, openAsks, pendingAsks, granted, answers, home, running>>
        /\ alive' => alive
    BY <1>1 DEF Exit, Close, vars, rpc, pipes, approv, server, process
  <2>2. Elsewhere
    BY <1>0, <2>1 DEF Elsewhere, PlacesInv, Unread, Resolved
  <2>3. QED
    BY <2>2, ElsewhereStep
<1>2. ASSUME NEW o \in Outputs, stdout' = Append(stdout, o), o[1] # "ask",
             o[1] = "resolved" => o[2] \in openAsks /\ o[2] \notin openAsks',
             openAsks' \subseteq openAsks,
             UNCHANGED <<alive, handler, asks, pendingAsks, granted, answers, home, running>>
      PROVE  AskInv'
  <2>1. PICK s \in Seq(Outputs) : s = <<o>> /\ ToSet(s) = {o}
    BY Singles
  <2>2. stdout' = stdout \o s
    BY <1>0, <1>2, <2>1
  <2>3. QED
    BY <1>0, <1>2, <2>1, <2>2, ReportsElsewhere
<1>3. CASE ReadAnswer
  <2>1. /\ openAsks' = openAsks \ {Head(stdin)[2]}
        /\ UNCHANGED <<alive, handler, asks, pendingAsks, granted, answers, home, running>>
    BY <1>3 DEF ReadAnswer, rpc, approv
  <2>2. CASE stdout' = stdout
    <3>1. Elsewhere
      BY <1>0, <2>1, <2>2 DEF Elsewhere, PlacesInv, Unread, Resolved
    <3>2. QED
      BY <3>1, ElsewhereStep
  <2>3. CASE Head(stdin)[2] \in openAsks /\ stdout' = Append(stdout, <<"resolved", Head(stdin)[2]>>)
    <3>1. PICK i \in Asks : i = Head(stdin)[2]
      BY <1>0, <2>3 DEF OwnersInv
    <3>2. PICK o \in Outputs : o = <<"resolved", i>> /\ o[1] = "resolved" /\ o[2] = i
      BY OutputKinds
    <3>3. QED
      BY <1>2, <2>1, <2>3, <3>1, <3>2
  <2>4. QED
    BY <1>3, <2>2, <2>3 DEF ReadAnswer
<1>4. ASSUME NEW u \in AppTurns, EndTurn(u) PROVE AskInv'
  <2>1. PICK s : s = Ends(u)
    OBVIOUS
  <2>2. s \in Seq(Outputs) /\ \A o \in ToSet(s) : \/ o = <<"turn", u>>
                                                 \/ \E i \in openAsks : asks[i][2] = u /\ o = <<"resolved", i>>
    BY <1>0, <2>1, EndsOutput
  <2>3. /\ stdout' = stdout \o s /\ openAsks' = {i \in openAsks : asks[i][2] # u} /\ running' \subseteq running
        /\ UNCHANGED <<alive, handler, asks, pendingAsks, granted, answers, home>>
    BY <1>4, <2>1 DEF EndTurn, rpc, approv
  <2>4. \A o \in ToSet(s) : o[1] # "ask" /\ (o[1] = "resolved" => o[2] \in openAsks /\ o[2] \notin openAsks')
    BY <2>2, <2>3
  <2>5. QED
    BY <1>0, <2>2, <2>3, <2>4, ReportsElsewhere
<1>5. ASSUME NEW u \in AppTurns, Speak(u) \/ EndMessage(u) PROVE AskInv'
  <2>1. UNCHANGED <<alive, handler, asks, openAsks, pendingAsks, granted, answers, home, running>>
    BY <1>5 DEF Speak, EndMessage, rpc, approv, process
  <2>2. \/ \E i \in Items, n \in 1..MaxFragments : stdout' = Append(stdout, <<"delta", i, n>>)
        \/ \E i \in Items, given \in BOOLEAN : stdout' = Append(stdout, <<"message", i, given>>)
    BY <1>5 DEF Speak, EndMessage
  <2>3. \E o \in Outputs : o[1] \in {"delta", "message"} /\ stdout' = Append(stdout, o)
    BY <2>2, OutputKinds
  <2>4. QED
    BY <1>2, <2>1, <2>3
<1>6. ASSUME NEW a \in AppThreads, CloseThread(a) PROVE AskInv'
  <2>1. UNCHANGED <<alive, handler, asks, openAsks, pendingAsks, granted, answers, home, running>>
    BY <1>6 DEF CloseThread, rpc, approv
  <2>2. PICK o \in Outputs : o = <<"closed", a>> /\ o[1] = "closed"
    BY OutputKinds
  <2>3. stdout' = Append(stdout, o)
    BY <1>6, <2>2 DEF CloseThread
  <2>4. QED
    BY <1>2, <2>1, <2>2, <2>3
<1>7. QED
  BY <1>1, <1>3, <1>4, <1>5, <1>6

\* Serve answers a request; an interrupt and an archive end a turn as well.
LEMMA ServeElsewhere ==
  ASSUME AskInv, WireInv, Serve
  PROVE  AskInv'
<1>0. /\ OwnersInv /\ stdout \in Seq(Outputs) /\ RpcInv /\ PipesInv /\ GrantsInv
      /\ \A u \in running : home[u] # 0
  BY DEF AskInv, WireInv, PipesInv, GrantsInv
<1>1. PICK m \in Requests : m = Head(stdin) /\ RequestOk(m)
  BY <1>0, Served
<1>2. /\ UNCHANGED <<alive, handler, asks, pendingAsks, granted, answers>>
      /\ m[1] = "turn/start" => m[3] # 0
      /\ m[2] \in Nat /\ m[3] \in AppThreads \cup {0}
  BY <1>1 DEF Serve, rpc, approv, RequestOk, Requests
<1>3. \A n \in Nat : \A r \in Replies : Reply(n, r) \in Seq(Outputs) /\ \A o \in ToSet(Reply(n, r)) : o[1] = "response"
  <2>1. ASSUME NEW n \in Nat, NEW r \in Replies
        PROVE  Reply(n, r) \in Seq(Outputs) /\ \A o \in ToSet(Reply(n, r)) : o[1] = "response"
    <3>1. PICK o \in Outputs : o = <<"response", n, r>> /\ o[1] = "response"
      BY OutputKinds
    <3>2. <<o>> \in Seq(Outputs) /\ ToSet(<<o>>) = {o} /\ Reply(n, r) = <<o>>
      BY <3>1, Singles DEF Reply
    <3>3. QED
      BY <3>1, <3>2
  <2>2. QED
    BY <2>1
<1>4. {<<"error">>, <<"not found">>} \subseteq Replies /\ \A n \in Nat : <<"ok", n>> \in Replies
  BY DEF Replies
<1>5. ASSUME NEW r \in Replies, stdout' = stdout \o Reply(m[2], r), UNCHANGED <<home, running, openAsks>>
      PROVE  AskInv'
  <2>1. PICK s \in Seq(Outputs) : s = Reply(m[2], r) /\ \A o \in ToSet(s) : o[1] = "response"
    BY <1>2, <1>3
  <2>2. \A o \in ToSet(s) : o[1] # "ask" /\ o[1] # "resolved"
    BY <2>1
  <2>3. stdout' = stdout \o s
    BY <1>5, <2>1
  <2>4. QED
    BY <1>0, <1>2, <1>5, <2>2, <2>3, ReportsElsewhere
<1>6. ASSUME NEW v \in AppTurns, m[1] = "turn/start", home[v] = 0, home' = [home EXCEPT ![v] = m[3]],
             running' = running \cup {v}, openAsks' = openAsks, stdout' = stdout \o Reply(m[2], <<"ok", v>>)
      PROVE  AskInv'
  <2>1. PICK r \in Replies : r = <<"ok", v>>
    <3>1. v \in Nat
      BY <1>6 DEF AppTurns
    <3>2. QED
      BY <1>4, <3>1
  <2>2. PICK s \in Seq(Outputs) : s = Reply(m[2], r) /\ \A o \in ToSet(s) : o[1] = "response"
    BY <1>2, <1>3
  <2>3. \A o \in ToSet(s) : o[1] # "ask" /\ o[1] # "resolved"
    BY <2>2
  <2>4. home'[v] # 0 /\ \A u \in AppTurns : home[u] # 0 => home'[u] = home[u]
    BY <1>0, <1>2, <1>6 DEF OwnersInv
  <2>5. \A u \in running' : home'[u] # 0
    BY <1>0, <1>6, <2>4 DEF OwnersInv
  <2>6. stdout' = stdout \o s
    BY <1>6, <2>1, <2>2
  <2>7. QED
    BY <1>0, <1>2, <1>6, <2>3, <2>4, <2>5, <2>6, ReportsElsewhere
<1>7. ASSUME NEW u \in AppTurns, stdout' = stdout \o Reply(m[2], <<"ok", 0>>) \o Ends(u), home' = home,
             running' \subseteq running, openAsks' \subseteq openAsks, \A i \in openAsks' : asks[i][2] # u
      PROVE  AskInv'
  <2>1. PICK r \in Replies : r = <<"ok", 0>>
    BY <1>4
  <2>2. PICK w \in Seq(Outputs) : w = Reply(m[2], r) /\ \A o \in ToSet(w) : o[1] = "response"
    BY <1>2, <1>3
  <2>3. PICK e \in Seq(Outputs) :
          /\ e = Ends(u)
          /\ \A o \in ToSet(e) : \/ o = <<"turn", u>>
                                 \/ \E i \in openAsks : asks[i][2] = u /\ o = <<"resolved", i>>
    BY <1>0, EndsOutput
  <2>4. PICK s \in Seq(Outputs) : s = w \o e /\ ToSet(s) = ToSet(w) \cup ToSet(e)
    <3>1. w \o e \in Seq(Outputs) /\ ToSet(w \o e) = ToSet(w) \cup ToSet(e)
      BY MembersJoined
    <3>2. QED
      BY <3>1
  <2>5. stdout' = stdout \o s
    <3>1. (stdout \o w) \o e = stdout \o (w \o e)
      BY <1>0
    <3>2. QED
      BY <1>7, <2>1, <2>2, <2>3, <2>4, <3>1
  <2>6. ASSUME NEW o \in ToSet(e)
        PROVE  o[1] # "ask" /\ (o[1] = "resolved" => o[2] \in openAsks /\ o[2] \notin openAsks')
    <3>1. CASE o = <<"turn", u>>
      BY <3>1
    <3>2. ASSUME NEW i \in openAsks, asks[i][2] = u, o = <<"resolved", i>>
          PROVE  o[1] = "resolved" /\ o[2] = i /\ i \notin openAsks'
      BY <1>7, <3>2
    <3>3. QED
      BY <2>3, <2>6, <3>1, <3>2
  <2>7. \A o \in ToSet(s) : o[1] # "ask" /\ (o[1] = "resolved" => o[2] \in openAsks /\ o[2] \notin openAsks')
    BY <2>2, <2>4, <2>6
  <2>8. QED
    BY <1>0, <1>2, <1>7, <2>5, <2>7, ReportsElsewhere
<1>8. \/ \E r \in {<<"error">>, <<"not found">>} : /\ stdout' = stdout \o Reply(m[2], r)
                                                 /\ UNCHANGED <<home, running, openAsks>>
      \/ \E n \in AppThreads \cup {0} : /\ stdout' = stdout \o Reply(m[2], <<"ok", n>>)
                                       /\ UNCHANGED <<home, running, openAsks>>
      \/ \E v \in AppTurns : /\ m[1] = "turn/start" /\ home[v] = 0 /\ home' = [home EXCEPT ![v] = m[3]]
                             /\ running' = running \cup {v} /\ openAsks' = openAsks
                             /\ stdout' = stdout \o Reply(m[2], <<"ok", v>>)
      \/ /\ m[5] \in running /\ stdout' = stdout \o Reply(m[2], <<"ok", 0>>) \o Ends(m[5]) /\ home' = home
         /\ running' = running \ {m[5]} /\ openAsks' = {i \in openAsks : asks[i][2] # m[5]}
      \/ /\ stdout' = stdout \o Reply(m[2], <<"ok", 0>>)
                        \o (IF RunningIn(m[3]) = {} THEN <<>> ELSE Ends(CHOOSE v \in RunningIn(m[3]) : TRUE))
         /\ running' = running \ RunningIn(m[3]) /\ openAsks' = {i \in openAsks : asks[i][2] \notin RunningIn(m[3])}
         /\ home' = home
  BY <1>1 DEF Serve
<1>9. running \subseteq AppTurns
  BY <1>0 DEF OwnersInv
<1>10. ASSUME m[5] \in running, stdout' = stdout \o Reply(m[2], <<"ok", 0>>) \o Ends(m[5]), home' = home,
              running' = running \ {m[5]}, openAsks' = {i \in openAsks : asks[i][2] # m[5]}
       PROVE  AskInv'
  BY <1>7, <1>9, <1>10
<1>11. ASSUME stdout' = stdout \o Reply(m[2], <<"ok", 0>>)
                         \o (IF RunningIn(m[3]) = {} THEN <<>> ELSE Ends(CHOOSE v \in RunningIn(m[3]) : TRUE)),
              running' = running \ RunningIn(m[3]), home' = home,
              openAsks' = {i \in openAsks : asks[i][2] \notin RunningIn(m[3])}
       PROVE  AskInv'
  <2>1. CASE RunningIn(m[3]) = {}
    <3>1. PICK r \in Replies : r = <<"ok", 0>>
      BY <1>4
    <3>2. Reply(m[2], r) \in Seq(Outputs)
      BY <1>2, <1>3
    <3>3. stdout' = stdout \o Reply(m[2], r) /\ running' = running /\ openAsks' = openAsks
      <4>1. stdout \o Reply(m[2], r) \in Seq(Outputs)
        BY <1>0, <3>2
      <4>2. (stdout \o Reply(m[2], r)) \o <<>> = stdout \o Reply(m[2], r)
        BY <4>1
      <4>3. QED
        BY <1>11, <2>1, <3>1, <4>2
    <3>4. QED
      BY <1>5, <1>11, <3>3
  <2>2. CASE RunningIn(m[3]) # {}
    <3>1. PICK u \in RunningIn(m[3]) : u = CHOOSE v \in RunningIn(m[3]) : TRUE
      BY <2>2
    <3>2. u \in AppTurns
      BY <1>9, <3>1 DEF RunningIn
    <3>3. stdout' = stdout \o Reply(m[2], <<"ok", 0>>) \o Ends(u)
      BY <1>11, <2>2, <3>1
    <3>4. \A i \in openAsks' : asks[i][2] # u
      BY <1>11, <3>1
    <3>5. QED
      BY <1>7, <1>11, <3>2, <3>3, <3>4
  <2>3. QED
    BY <2>1, <2>2
<1>12. \A n \in AppThreads \cup {0} : n \in Nat
  BY DEF AppThreads
<1>13. QED
  BY <1>4, <1>5, <1>6, <1>8, <1>10, <1>11, <1>12

LEMMA AskInit == Init => AskInv
<1> SUFFICES ASSUME Init PROVE AskInv
  OBVIOUS
<1> USE DEF Init
<1>0. stdout = <<>> /\ Len(stdout) = 0 /\ ToSet(stdout) = {} /\ Unread = {} /\ Resolved = {}
  BY DEF ToSet, Unread, Resolved
<1>1. /\ handler.ask = 0 /\ handler.at = "idle" /\ 0 \notin Asks
      /\ \A i \in Asks : asks[i] = <<>> /\ answers[i] = <<>>
  BY DEF Idle, Asks
<1>2. AskTypes
  BY <1>1 DEF AskTypes
<1>3. PlacesInv
  BY <1>0, <1>1 DEF PlacesInv, Ordered, Taken, Answering
<1>4. HeldInv
  BY <1>0 DEF HeldInv
<1>5. GrantsInv
  BY <1>1 DEF GrantsInv
<1>6. QED
  BY <1>2, <1>3, <1>4, <1>5 DEF AskInv

LEMMA AskNext ==
  ASSUME WireInv, TablesOk, AskInv, [Next]_vars
  PROVE  AskInv'
<1>0. /\ stdout \in Seq(Outputs) /\ handler \in Handlers
      /\ \A x \in Threads : bound[x] \in AppThreads \cup {0}
      /\ \A t \in Turns : ThreadOf[t] \in Threads
  BY CodexConstants DEF WireInv, PipesInv, RpcInv, HandlerOk, TablesOk
<1>1. CASE Handler
  BY <1>0, <1>1, HandlerElsewhere, SendAnswerStep, RememberStep
<1>2. CASE Backend
  <2>1. ASSUME NEW t \in Turns, NEW given \in AppThreads \cup {0}, NEW named \in ToldTurns(t) \cup {0},
               TurnStart(t, given) \/ TurnSteer(t, given, named) \/ TurnCancel(t, given, named)
        PROVE  AskInv'
    BY <2>1, MessagesElsewhere
  <2>2. ASSUME NEW x \in Threads, NEW given \in AppThreads \cup {0},
               ThreadResume(x, given) \/ ThreadArchive(x, given) \/ ThreadUnarchive(x, given)
        PROVE  AskInv'
    BY <2>2, MessagesElsewhere
  <2>3. ASSUME NEW x \in Threads, SyncAck(x) PROVE AskInv'
    <3>1. UNCHANGED <<process, stdout, pendingAsks, granted, answers, handler>>
      BY <2>3 DEF SyncAck, server, pipes, approv, rpc
    <3>2. QED
      BY <3>1, QuietElsewhere
  <2>4. ASSUME NEW i \in Asks, NEW d \in Decisions, Respond(i, d) PROVE AskInv'
    BY <2>4, RespondStep
  <2>5. QED
    BY <1>0, <1>2, <2>1, <2>2, <2>3, <2>4 DEF Backend
<1>3. CASE Reader
  BY <1>0, <1>3, ReaderElsewhere, ReadAskStep
<1>4. CASE Serve
  BY <1>4, ServeElsewhere
<1>5. ASSUME NEW u \in AppTurns, NEW kind \in {"approval", "input"}, NEW c \in Commands \cup {None},
             NEW offer \in SUBSET Decisions, Ask(u, kind, c, offer)
      PROVE  AskInv'
  BY <1>0, <1>5, AskStep
<1>6. CASE AppServer
  <2>1. Offers \subseteq SUBSET Decisions /\ {} \in SUBSET Decisions
    BY CodexConstants
  <2>2. QED
    BY <1>4, <1>5, <1>6, <2>1, AppServerElsewhere DEF AppServer
<1>7. CASE Close \/ UNCHANGED vars
  BY <1>7, AppServerElsewhere
<1>8. QED
  BY <1>1, <1>2, <1>3, <1>6, <1>7 DEF Next

LEMMA AsksTracked == Spec => []AskInv
<1>1. OwnedInv /\ AskInv /\ [Next]_vars => AskInv'
  BY AskNext DEF OwnedInv
<1>2. QED
  BY AskInit, TurnsOwned, <1>1, PTL DEF Spec

\* No approval is answered twice, by the server or by a grant, in whatever order answers,
\* resolutions and the exit of the app-server come.
THEOREM AnsweredOnceHolds == Spec => []AnsweredOnce
<1>1. AskInv => AnsweredOnce
  <2>1. ASSUME AskInv, NEW i \in Asks PROVE Len(answers[i]) <= 1
    <3>1. CASE answers[i] = <<>>
      BY <3>1
    <3>2. ASSUME NEW a, answers[i] = <<a>> PROVE Len(answers[i]) <= 1
      BY <3>2
    <3>3. QED
      BY <2>1, <3>1, <3>2 DEF AskInv, AskTypes
  <2>2. QED
    BY <2>1 DEF AnsweredOnce
<1>2. QED
  BY AsksTracked, <1>1, PTL

\* While the app-server runs, an approval it waits for is unread, in the table, or on its
\* way back: whatever is resolved while it is answered, none is lost.
THEOREM NoAskLost == Spec => []AsksHeld
<1>1. OwnedInv /\ AskInv => AsksHeld
  <2>1. ASSUME OwnedInv, AskInv, alive, NEW i \in openAsks
        PROVE  \/ i \in pendingAsks \/ handler.ask = i \/ answers[i] # <<>>
               \/ \E k \in 1..Len(stdout) : stdout[k] = <<"ask", i>>
    <3>1. stdout \in Seq(Outputs)
      BY <2>1 DEF OwnedInv, WireInv, PipesInv
    <3>2. Taken(i) \/ i \in Unread
      BY <2>1 DEF AskInv, HeldInv
    <3>3. CASE i \in Unread
      <4>1. <<"ask", i>> \in {stdout[k] : k \in 1..Len(stdout)}
        BY <3>1, <3>3, MembersOf DEF Unread
      <4>2. QED
        BY <4>1
    <3>4. QED
      BY <3>2, <3>3 DEF Taken
  <2>2. QED
    BY <2>1 DEF AsksHeld
<1>2. QED
  BY AsksTracked, TurnsOwned, <1>1, PTL

\* What is accepted without asking was offered as such and granted before, for the same
\* operation in the same thread.
THEOREM GrantsScoped == Spec => []AcceptedByGrant
<1>1. AskInv => AcceptedByGrant
  BY DEF AskInv, GrantsInv, ByGrant, AcceptedByGrant
<1>2. QED
  BY AsksTracked, <1>1, PTL
------------------------------------------------------------------------------
(* Events: whose a thread of the app-server is *)

\* f gives for a thread of the app-server the one thread it stands for; whatever names an
\* app-server thread agrees with f.
Named(f, a, x) == a # 0 => a \in made /\ f[a] = x

TableNames(f) ==
  /\ \A x \in Threads : Named(f, threadMap[x], x) /\ Named(f, bound[x], x)
  /\ \A a \in AppThreads : reverseMap[a] # None => Named(f, a, reverseMap[a])
WayNames(f) ==
  /\ handler.at \in Methods \cup {"mapping", "unmapping"} => Named(f, handler.app, handler.thread)
  /\ handler.at = "thread/start" =>
       /\ call.reply # <<>> /\ call.reply[1] = "ok" => f[call.reply[2]] = handler.thread
       /\ \A o \in ToSet(stdout) :
            o[1] = "response" /\ o[2] = call.id /\ o[3][1] = "ok" => f[o[3][2]] = handler.thread
  /\ \A m \in ToSet(stdin) : m[1] = "turn/start" => Named(f, m[3], ThreadOf[m[4]])
  /\ \A u \in AppTurns : home[u] # 0 => Named(f, home[u], ThreadOf[owner[u]])
NamesInv == \E f \in [AppThreads -> Threads \cup {None}] : TableNames(f) /\ WayNames(f)

\* Whatever is about a turn is about one that was started.
Started(u) == u \in AppTurns /\ home[u] # 0
StartedInv ==
  /\ items \in [Items -> [turn : AppTurns \cup {0}, text : Seq(Nat), done : BOOLEAN]]
  /\ \A u \in running : Started(u)
  /\ \A o \in ToSet(stdout) : /\ o[1] = "turn" => Started(o[2])
                              /\ o[1] \in {"delta", "message"} => Started(items[o[2]].turn)

EventOf(x, t, u) == Started(u) /\ x = ThreadOf[owner[u]] /\ (t # None => owner[u] = t)
HeardInv ==
  /\ event # <<>> /\ event[1] = "turn" => EventOf(event[2], event[3], event[4])
  /\ \A e \in heard : EventOf(e[1], e[2], e[3])

EventInv == NamesInv /\ StartedInv /\ HeardInv

\* Requests and responses that are none of a thread change nothing.
LEMMA WaysKept ==
  ASSUME NEW f, WayNames(f), UNCHANGED <<made, home, owner, stdout>>,
         handler'.at \in Methods \cup {"mapping", "unmapping"} => Named(f, handler'.app, handler'.thread),
         \/ handler'.at # "thread/start"
         \/ call'.reply = <<>> /\ \A o \in ToSet(stdout) : o[1] = "response" => o[2] # call'.id,
         \A m \in ToSet(stdin') : \/ m \in ToSet(stdin) \/ m[1] # "turn/start"
                                  \/ Named(f, m[3], ThreadOf[m[4]])
  PROVE  WayNames(f)'
<1>1. (handler.at \in Methods \cup {"mapping", "unmapping"} => Named(f, handler.app, handler.thread))'
  BY DEF Named
<1>2. (\A m \in ToSet(stdin) : m[1] = "turn/start" => Named(f, m[3], ThreadOf[m[4]]))'
  BY DEF WayNames, Named
<1>3. (\A u \in AppTurns : home[u] # 0 => Named(f, home[u], ThreadOf[owner[u]]))'
  BY DEF WayNames, Named
<1>4. (handler.at = "thread/start" =>
         /\ call.reply # <<>> /\ call.reply[1] = "ok" => f[call.reply[2]] = handler.thread
         /\ \A o \in ToSet(stdout) :
              o[1] = "response" /\ o[2] = call.id /\ o[3][1] = "ok" => f[o[3][2]] = handler.thread)'
  OBVIOUS
<1>5. QED
  BY <1>1, <1>2, <1>3, <1>4 DEF WayNames

LEMMA CallNames ==
  ASSUME NEW f, RpcInv, PipesInv, WayNames(f), UNCHANGED <<made, home, owner, stdout>>,
         NEW h \in Handlers, Named(f, h.app, h.thread),
         NEW method \in Methods, method = "turn/start" => h.thread = ThreadOf[h.turn],
         NEW u \in AppTurns \cup {0}, Call(h, method, u)
  PROVE  WayNames(f)'
<1>1. CASE ~alive
  <2>1. handler' = Failed(h) /\ stdin' = stdin
    BY <1>1 DEF Call
  <2>2. /\ handler'.at # "thread/start"
        /\ handler'.at \in Methods \cup {"mapping", "unmapping"} => handler'.app = h.app /\ handler'.thread = h.thread
    BY <2>1 DEF Failed, Idle, Handlers, Methods
  <2>3. QED
    BY <2>1, <2>2, WaysKept
<1>2. CASE alive
  <2>1. PICK m \in Inputs : m = <<method, nextId, h.app, h.turn, u>>
    BY DEF Inputs, Requests, Handlers, RpcInv
  <2>2. /\ handler' = [h EXCEPT !.at = method] /\ call' = [id |-> nextId, reply |-> <<>>]
        /\ stdin' = Append(stdin, m)
    BY <1>2, <2>1 DEF Call
  <2>3. handler'.at = method /\ handler'.app = h.app /\ handler'.thread = h.thread
    BY <2>2 DEF Handlers
  <2>4. ToSet(stdin') = ToSet(stdin) \cup {m}
    BY <2>2, MembersAppended DEF PipesInv
  <2>5. m[1] = method /\ m[3] = h.app /\ m[4] = h.turn
    BY <2>1
  <2>6. call'.reply = <<>> /\ \A o \in ToSet(stdout) : o[1] = "response" => o[2] # call'.id
    BY <2>2 DEF PipesInv, ResponseOk, RpcInv
  <2>7. \A n \in ToSet(stdin') : \/ n \in ToSet(stdin) \/ n[1] # "turn/start"
                                 \/ Named(f, n[3], ThreadOf[n[4]])
    BY <2>4, <2>5
  <2>8. QED
    BY <2>3, <2>6, <2>7, WaysKept
<1>3. QED
  BY <1>1, <1>2

\* The handler binds a thread to what it holds.
LEMMA MapNames ==
  ASSUME NEW f, WayNames(f), TableNames(f), TablesOk, UNCHANGED <<made, home, owner, stdout, stdin, reverseMap, bound>>,
         NEW h \in Handlers, h.app # 0, h.thread \in Threads, Named(f, h.app, h.thread), MapThread(h)
  PROVE  TableNames(f)' /\ WayNames(f)'
<1>1. handler'.at = "mapping" /\ handler'.app = h.app /\ handler'.thread = h.thread
  BY DEF MapThread, Handlers
<1>2. threadMap' = [threadMap EXCEPT ![h.thread] = h.app]
  BY DEF MapThread
<1>3. TableNames(f)'
  BY <1>2 DEF TableNames, Named, TablesOk
<1>4. QED
  BY <1>1, <1>3, WaysKept

LEMMA RequestNames ==
  ASSUME NEW f, TableNames(f), TablesOk, NEW op \in OfTurns \cup {"thread_resume", "archive", "unarchive"},
         NEW x \in Threads, NEW t \in Turns \cup {None}, NEW given \in {0, bound[x]}, NEW h, h = Request(op, x, t, given)
  PROVE  h \in Handlers /\ h.op = op /\ h.thread = x /\ h.turn = t /\ Named(f, h.app, h.thread)
<1>1. given \in AppThreads \cup {0}
  BY DEF TablesOk
<1>2. h = [at |-> "idle", op |-> op, thread |-> x, turn |-> t,
           app |-> IF given # 0 THEN given ELSE threadMap[x], appTurn |-> 0, retried |-> FALSE, ask |-> 0, reply |-> None]
  BY DEF Request, Idle
<1>3. threadMap[x] \in AppThreads \cup {0}
  BY DEF TablesOk
<1>4. h \in Handlers /\ h.op = op /\ h.thread = x /\ h.turn = t
  BY <1>1, <1>2, <1>3 DEF Handlers, OfTurns
<1>5. h.app \in {given, threadMap[x]}
  BY <1>2
<1>6. QED
  BY <1>4, <1>5 DEF TableNames, Named

LEMMA TurnNames ==
  ASSUME NEW f, RpcInv, PipesInv, TablesOk, TableNames(f), WayNames(f), NEW t \in Turns, NEW given \in {0, bound[ThreadOf[t]]},
         NEW named \in ToldTurns(t) \cup {0},
         TurnStart(t, given) \/ TurnSteer(t, given, named) \/ TurnCancel(t, given, named)
  PROVE  TableNames(f)' /\ WayNames(f)'
<1>0. /\ ThreadOf[t] \in Threads /\ {"turn_start", "turn_steer", "turn_cancel"} \subseteq OfTurns
      /\ {"thread/start", "turn/interrupt"} \subseteq Methods
      /\ AppTurn(t, named) \in AppTurns \cup {0}
  BY Told, CodexConstants DEF OfTurns, Methods
<1>1. UNCHANGED <<made, home, owner, stdout, reverseMap, bound>>
  BY DEF TurnStart, TurnSteer, TurnCancel, maps, pipes, told, server, process
<1>2. threadMap' = threadMap => TableNames(f)'
  BY <1>1 DEF TableNames, Named
<1>3. ASSUME TurnStart(t, given) PROVE TableNames(f)' /\ WayNames(f)'
  <2>1. PICK h : h = Request("turn_start", ThreadOf[t], t, given)
    OBVIOUS
  <2>2. h \in Handlers /\ h.thread = ThreadOf[t] /\ h.turn = t /\ Named(f, h.app, h.thread)
    BY <1>0, <2>1, RequestNames
  <2>3. \/ Call(h, "thread/start", 0) /\ UNCHANGED threadMap
        \/ h.app # 0 /\ MapThread(h) /\ UNCHANGED stdin
    BY <1>3, <2>1 DEF TurnStart
  <2>4. QED
    BY <1>0, <1>1, <1>2, <2>2, <2>3, CallNames, MapNames
<1>4. ASSUME TurnSteer(t, given, named) PROVE TableNames(f)' /\ WayNames(f)'
  <2>1. PICK h, u, g : h = Request("turn_steer", ThreadOf[t], t, given) /\ u = AppTurn(t, named) /\ g = [h EXCEPT !.appTurn = u]
    OBVIOUS
  <2>2. h \in Handlers /\ h.thread = ThreadOf[t] /\ h.turn = t /\ Named(f, h.app, h.thread)
    BY <1>0, <2>1, RequestNames
  <2>3. h.app # 0 /\ MapThread(g) /\ UNCHANGED stdin
    BY <1>4, <2>1 DEF TurnSteer, pipes
  <2>4. g \in Handlers /\ g.thread = ThreadOf[t] /\ g.app # 0 /\ Named(f, g.app, g.thread)
    BY <1>0, <2>1, <2>2, <2>3, Steered
  <2>5. QED
    BY <1>0, <1>1, <2>3, <2>4, MapNames
<1>5. ASSUME TurnCancel(t, given, named) PROVE TableNames(f)' /\ WayNames(f)'
  <2>1. PICK h : h = Request("turn_cancel", ThreadOf[t], t, given)
    OBVIOUS
  <2>2. h \in Handlers /\ h.thread = ThreadOf[t] /\ h.turn = t /\ Named(f, h.app, h.thread)
    BY <1>0, <2>1, RequestNames
  <2>3. Call(h, "turn/interrupt", AppTurn(t, named)) /\ UNCHANGED threadMap
    BY <1>5, <2>1 DEF TurnCancel, maps
  <2>4. QED
    BY <1>0, <1>1, <1>2, <2>2, <2>3, CallNames
<1>6. QED
  BY <1>3, <1>4, <1>5

LEMMA ThreadNames ==
  ASSUME NEW f, RpcInv, PipesInv, TablesOk, TableNames(f), WayNames(f), NEW x \in Threads, NEW given \in {0, bound[x]},
         ThreadResume(x, given) \/ ThreadArchive(x, given) \/ ThreadUnarchive(x, given)
  PROVE  TableNames(f)' /\ WayNames(f)'
<1>0. {"thread/archive", "thread/unarchive"} \subseteq Methods
  BY DEF Methods
<1>1. UNCHANGED <<made, home, owner, stdout, reverseMap, bound>>
  BY DEF ThreadResume, ThreadArchive, ThreadUnarchive, maps, pipes, told, server, process
<1>2. threadMap' = threadMap => TableNames(f)'
  BY <1>1 DEF TableNames, Named
<1>3. ASSUME ThreadResume(x, given) PROVE TableNames(f)' /\ WayNames(f)'
  <2>1. PICK h : h = Request("thread_resume", x, None, given)
    OBVIOUS
  <2>2. h \in Handlers /\ h.thread = x /\ Named(f, h.app, h.thread)
    BY <2>1, RequestNames DEF OfTurns
  <2>3. h.app # 0 /\ MapThread(h) /\ UNCHANGED stdin
    BY <1>3, <2>1 DEF ThreadResume, pipes
  <2>4. QED
    BY <1>1, <2>2, <2>3, MapNames
<1>4. ASSUME ThreadArchive(x, given) PROVE TableNames(f)' /\ WayNames(f)'
  <2>1. PICK h : h = Request("archive", x, None, given)
    OBVIOUS
  <2>2. h \in Handlers /\ h.op = "archive" /\ h.thread = x /\ Named(f, h.app, h.thread)
    BY <2>1, RequestNames DEF OfTurns
  <2>3. UNCHANGED threadMap /\ (Call(h, "thread/archive", 0) \/ (handler' = Failed(h) /\ UNCHANGED stdin))
    <3>1. Call(h, "thread/archive", 0) \/ (handler' = Failed(h) /\ UNCHANGED <<call, nextId, stdin>>)
      BY <1>4, <2>1 DEF ThreadArchive
    <3>2. QED
      BY <1>4, <3>1 DEF ThreadArchive, maps
  <2>4. CASE handler' = Failed(h) /\ UNCHANGED stdin
    <3>1. handler'.at = "unmapping" /\ handler'.app = h.app /\ handler'.thread = h.thread
      BY <2>2, <2>4 DEF Failed, Handlers
    <3>2. QED
      BY <1>1, <1>2, <2>2, <2>3, <2>4, <3>1, WaysKept
  <2>5. QED
    BY <1>0, <1>1, <1>2, <2>2, <2>3, <2>4, CallNames
<1>5. ASSUME ThreadUnarchive(x, given) PROVE TableNames(f)' /\ WayNames(f)'
  <2>1. PICK h : h = Request("unarchive", x, None, given)
    OBVIOUS
  <2>2. h \in Handlers /\ h.thread = x /\ Named(f, h.app, h.thread)
    BY <2>1, RequestNames DEF OfTurns
  <2>3. Call(h, "thread/unarchive", 0) /\ UNCHANGED threadMap
    BY <1>5, <2>1 DEF ThreadUnarchive, maps
  <2>4. QED
    BY <1>0, <1>1, <1>2, <2>2, <2>3, CallNames
<1>6. QED
  BY <1>3, <1>4, <1>5

LEMMA HandlerNames ==
  ASSUME NEW f, WireInv, TablesOk, TableNames(f), WayNames(f), Handler
  PROVE  TableNames(f)' /\ WayNames(f)'
<1>0. /\ RpcInv /\ PipesInv /\ handler \in Handlers /\ stdin \in Seq(Inputs)
      /\ threadMap \in [Threads -> AppThreads \cup {0}] /\ reverseMap \in [AppThreads -> Threads \cup {None}]
      /\ bound \in [Threads -> AppThreads \cup {0}] /\ turnMap \in [Turns -> AppTurns \cup {0}]
      /\ {"thread/start", "turn/start", "turn/steer", "thread/resume"} \subseteq Methods
      /\ \A x \in Threads : x # None
  BY CodexConstants DEF WireInv, RpcInv, HandlerOk, PipesInv, TablesOk, Methods
<1>1. UNCHANGED <<made, home, owner, stdout>>
  BY DEF Handler, TimesOut, Mapped, ThreadStarted, TurnStarted, Resumed, Answered, Archived, SendAnswer, Remember,
         server, process, pipes
<1>2. UNCHANGED <<threadMap, reverseMap, bound>> => TableNames(f)'
  BY <1>1 DEF TableNames, Named
<1>3. handler.at \in Methods \cup {"mapping", "unmapping"} =>
        /\ handler.thread \in Threads /\ Named(f, handler.app, handler.thread)
        /\ handler.at \notin {"thread/start", "unmapping"} => handler.app \in AppThreads
        /\ handler.op \in OfTurns => handler.turn \in Turns /\ handler.thread = ThreadOf[handler.turn]
        /\ handler.at = "turn/start" => handler.op = "turn_start"
  BY <1>0, Underway DEF WayNames, Handlers
<1>4. handler' = Idle /\ stdin' = stdin => WayNames(f)'
  BY <1>1, WaysKept DEF Idle, Methods
<1>5. ASSUME NEW method \in {"turn/start", "turn/steer", "thread/resume"}, NEW u \in AppTurns \cup {0},
             handler.at \in Methods \cup {"mapping"}, method = "turn/start" => handler.op = "turn_start",
             Call(handler, method, u)
      PROVE  WayNames(f)'
  BY <1>0, <1>1, <1>3, <1>5, CallNames DEF OfTurns
<1>6. ASSUME TimesOut PROVE TableNames(f)' /\ WayNames(f)'
  <2>1. handler' = Failed(handler) /\ stdin' = stdin /\ UNCHANGED <<threadMap, reverseMap, bound>>
    BY <1>6 DEF TimesOut, maps, pipes
  <2>2. handler.at \in Methods
    BY <1>0, <1>6 DEF TimesOut, RpcInv
  <2>3. handler' = Idle \/ (handler'.at = "unmapping" /\ handler'.app = handler.app /\ handler'.thread = handler.thread)
    BY <1>0, <2>1 DEF Failed, Handlers
  <2>4. QED
    BY <1>1, <1>2, <1>3, <1>4, <2>1, <2>2, <2>3, WaysKept
<1>7. ASSUME Mapped PROVE TableNames(f)' /\ WayNames(f)'
  <2>1. handler.at = "mapping" /\ handler.app \in AppThreads
    BY <1>3, <1>7 DEF Mapped
  <2>2. TableNames(f)'
    <3>1. reverseMap' = [reverseMap EXCEPT ![handler.app] = handler.thread] /\ UNCHANGED <<threadMap, bound>>
      BY <1>7 DEF Mapped, told
    <3>2. QED
      BY <1>0, <1>1, <1>3, <2>1, <3>1 DEF TableNames, Named
  <2>3. \/ Call(handler, "turn/start", 0) /\ handler.op = "turn_start"
        \/ Call(handler, "turn/steer", handler.appTurn) /\ handler.op = "turn_steer"
        \/ Call(handler, "thread/resume", 0)
    BY <1>7 DEF Mapped
  <2>4. handler.appTurn \in AppTurns \cup {0}
    BY <1>0 DEF Handlers
  <2>5. QED
    BY <1>5, <2>1, <2>2, <2>3, <2>4
<1>8. ASSUME ThreadStarted PROVE TableNames(f)' /\ WayNames(f)'
  <2>0. Returned("thread/start")
    BY <1>8 DEF ThreadStarted
  <2>1. handler.at = "thread/start" /\ call.reply # <<>> /\ ReplyOk(handler, call.reply)
    BY <1>0, <2>0 DEF RpcInv, Returned
  <2>2. CASE ~Ok
    <3>1. handler' = Idle /\ stdin' = stdin /\ UNCHANGED <<threadMap, reverseMap, bound>>
      BY <1>8, <2>2 DEF ThreadStarted
    <3>2. QED
      BY <1>2, <1>4, <3>1
  <2>3. CASE Ok
    <3>1. PICK a \in AppThreads : a = call.reply[2] /\ Named(f, a, handler.thread) /\ a \in made
      BY <2>1, <2>3 DEF Ok, ReplyOk, WayNames, Named, WireInv, OwnersInv
    <3>2. PICK h : h = [handler EXCEPT !.app = a]
      OBVIOUS
    <3>3. h \in Handlers /\ h.app = a /\ h.thread = handler.thread /\ h.turn = handler.turn
      BY <1>0, <3>1, <3>2 DEF Handlers
    <3>4. /\ threadMap' = [threadMap EXCEPT ![handler.thread] = a] /\ reverseMap' = [reverseMap EXCEPT ![a] = handler.thread]
          /\ bound' = [bound EXCEPT ![handler.thread] = a]
          /\ Call(h, "turn/start", 0)
      BY <1>8, <2>3, <3>1, <3>2 DEF ThreadStarted
    <3>5. handler.thread \in Threads /\ handler.thread = ThreadOf[handler.turn]
      BY <1>0, <1>3, <2>1, Underway DEF OfTurns
    <3>6. TableNames(f)'
      BY <1>0, <1>1, <3>1, <3>4, <3>5 DEF TableNames, Named
    <3>7. WayNames(f)'
      BY <1>0, <1>1, <3>1, <3>3, <3>4, <3>5, CallNames
    <3>8. QED
      BY <3>6, <3>7
  <2>4. QED
    BY <2>2, <2>3
<1>9. ASSUME TurnStarted PROVE TableNames(f)' /\ WayNames(f)'
  <2>1. handler.at = "turn/start" /\ UNCHANGED <<reverseMap, bound, stdin>>
    BY <1>9 DEF TurnStarted, Returned, told, pipes
  <2>2. CASE handler' = Idle /\ threadMap' = threadMap
    BY <1>2, <1>4, <2>1, <2>2
  <2>3. CASE MapThread([handler EXCEPT !.retried = TRUE])
    <3>1. PICK h : h = [handler EXCEPT !.retried = TRUE]
      OBVIOUS
    <3>2. h \in Handlers /\ h.app = handler.app /\ h.thread = handler.thread /\ MapThread(h)
      BY <1>0, <2>3, <3>1 DEF Handlers
    <3>3. h.app # 0 /\ h.thread \in Threads /\ Named(f, h.app, h.thread)
      BY <1>3, <2>1, <3>2 DEF Methods, AppThreads
    <3>4. QED
      BY <1>1, <2>1, <3>2, <3>3, MapNames
  <2>4. QED
    BY <1>9, <2>2, <2>3 DEF TurnStarted
<1>10. ASSUME Resumed PROVE TableNames(f)' /\ WayNames(f)'
  <2>1. UNCHANGED <<threadMap, reverseMap, bound>> /\ handler.at = "thread/resume"
    BY <1>10 DEF Resumed, Returned, maps, told
  <2>2. (Call(handler, "turn/start", 0) /\ handler.op = "turn_start") \/ (handler' = Idle /\ stdin' = stdin)
    BY <1>10 DEF Resumed
  <2>3. QED
    BY <1>0, <1>2, <1>4, <1>5, <2>1, <2>2
<1>11. ASSUME Answered PROVE TableNames(f)' /\ WayNames(f)'
  <2>1. handler' = Idle /\ stdin' = stdin /\ bound' = bound
    BY <1>11 DEF Answered, pipes, told
  <2>2. \/ UNCHANGED <<threadMap, reverseMap>>
        \/ /\ handler.at = "thread/unarchive"
           /\ threadMap' = [threadMap EXCEPT ![handler.thread] = handler.app]
           /\ reverseMap' = [reverseMap EXCEPT ![handler.app] = handler.thread]
    BY <1>11 DEF Answered
  <2>3. handler.at = "thread/unarchive" => /\ handler.thread \in Threads /\ handler.app \in AppThreads
                                           /\ Named(f, handler.app, handler.thread)
    BY <1>3 DEF Methods
  <2>4. TableNames(f)'
    BY <1>0, <1>1, <1>2, <2>1, <2>2, <2>3 DEF TableNames, Named
  <2>5. QED
    BY <1>4, <2>1, <2>4
<1>12. ASSUME Archived PROVE TableNames(f)' /\ WayNames(f)'
  <2>1. /\ handler' = Idle /\ stdin' = stdin /\ bound' = bound
        /\ threadMap' = [threadMap EXCEPT ![handler.thread] = 0]
        /\ \A a \in AppThreads : reverseMap'[a] \in {None, reverseMap[a]}
    BY <1>12 DEF Archived, pipes, told
  <2>2. TableNames(f)'
    BY <1>0, <1>1, <2>1 DEF TableNames, Named
  <2>3. QED
    BY <1>4, <2>1, <2>2
<1>13. ASSUME SendAnswer PROVE TableNames(f)' /\ WayNames(f)'
  <2>1. /\ UNCHANGED <<threadMap, reverseMap, bound>> /\ handler.at = "answering"
        /\ (handler' = Idle /\ stdin' = stdin) \/
           (handler' = [handler EXCEPT !.at = "answered"] /\ stdin' = Append(stdin, <<"answer", handler.ask>>))
    BY <1>13 DEF SendAnswer, maps, told
  <2>2. ASSUME handler' = [handler EXCEPT !.at = "answered"], stdin' = Append(stdin, <<"answer", handler.ask>>)
        PROVE  WayNames(f)'
    <3>1. handler'.at = "answered"
      BY <1>0, <2>2 DEF Handlers
    <3>2. PICK m : m = <<"answer", handler.ask>>
      OBVIOUS
    <3>3. m \in Inputs /\ m[1] = "answer"
      <4>1. handler.ask \in Asks \cup {0}
        BY <1>0 DEF Handlers
      <4>2. QED
        BY <3>2, <4>1 DEF Inputs
    <3>4. stdin' = Append(stdin, m)
      BY <2>2, <3>2
    <3>5. ToSet(stdin') = ToSet(stdin) \cup {m}
      BY <1>0, <3>3, <3>4, MembersAppended
    <3>6. QED
      BY <1>1, <3>1, <3>3, <3>5, WaysKept DEF Methods
  <2>3. QED
    BY <1>2, <1>4, <2>1, <2>2
<1>14. ASSUME Remember PROVE TableNames(f)' /\ WayNames(f)'
  BY <1>2, <1>4, <1>14 DEF Remember, maps, told, pipes
<1>15. QED
  BY <1>6, <1>7, <1>8, <1>9, <1>10, <1>11, <1>12, <1>13, <1>14 DEF Handler

LEMMA BackendNames ==
  ASSUME NEW f, WireInv, TablesOk, TableNames(f), WayNames(f), Backend
  PROVE  TableNames(f)' /\ WayNames(f)'
<1>0. /\ RpcInv /\ PipesInv /\ \A t \in Turns : ThreadOf[t] \in Threads
      /\ threadMap \in [Threads -> AppThreads \cup {0}] /\ reverseMap \in [AppThreads -> Threads \cup {None}]
      /\ bound \in [Threads -> AppThreads \cup {0}]
  BY CodexConstants DEF WireInv, TablesOk
<1>1. ASSUME NEW t \in Turns, NEW given \in {0, bound[ThreadOf[t]]}, NEW named \in ToldTurns(t) \cup {0},
             TurnStart(t, given) \/ TurnSteer(t, given, named) \/ TurnCancel(t, given, named)
      PROVE  TableNames(f)' /\ WayNames(f)'
  BY <1>0, <1>1, TurnNames
<1>2. ASSUME NEW x \in Threads, NEW given \in {0, bound[x]},
             ThreadResume(x, given) \/ ThreadArchive(x, given) \/ ThreadUnarchive(x, given)
      PROVE  TableNames(f)' /\ WayNames(f)'
  BY <1>0, <1>2, ThreadNames
<1>3. ASSUME NEW x \in Threads, SyncAck(x) PROVE TableNames(f)' /\ WayNames(f)'
  <2>1. /\ UNCHANGED <<made, home, owner, stdout, stdin, handler, call, bound>>
        /\ bound[x] \in AppThreads
        /\ threadMap' = [threadMap EXCEPT ![x] = bound[x]] /\ reverseMap' = [reverseMap EXCEPT ![bound[x]] = x]
    BY <1>0, <1>3 DEF SyncAck, rpc, pipes, told, server, process
  <2>2. TableNames(f)'
    BY <1>0, <2>1 DEF TableNames, Named
  <2>3. WayNames(f)'
    BY <2>1 DEF WayNames, Named
  <2>4. QED
    BY <2>2, <2>3
<1>4. ASSUME NEW i \in Asks, NEW d \in Decisions, Respond(i, d) PROVE TableNames(f)' /\ WayNames(f)'
  <2>1. UNCHANGED <<made, home, owner, stdout, stdin, threadMap, reverseMap, bound>> /\ handler'.at = "answering"
    BY <1>4 DEF Respond, Idle, maps, pipes, told, server, process
  <2>2. TableNames(f)'
    BY <2>1 DEF TableNames, Named
  <2>3. QED
    BY <2>1, <2>2, WaysKept DEF Methods
<1>5. QED
  BY <1>1, <1>2, <1>3, <1>4 DEF Backend

\* A response is read, or something else is.
LEMMA WaysRead ==
  ASSUME NEW f, WayNames(f), UNCHANGED <<made, home, owner, handler>>, call'.id = call.id,
         \/ call'.reply = call.reply
         \/ \E o \in ToSet(stdout) : o[1] = "response" /\ o[2] = call.id /\ call'.reply = o[3],
         \A o \in ToSet(stdout') : o \in ToSet(stdout) \/ o[1] # "response",
         \A m \in ToSet(stdin') : m \in ToSet(stdin) \/ m[1] = "answer"
  PROVE  WayNames(f)'
<1>1. (handler.at \in Methods \cup {"mapping", "unmapping"} => Named(f, handler.app, handler.thread))'
  BY DEF WayNames, Named
<1>2. (\A m \in ToSet(stdin) : m[1] = "turn/start" => Named(f, m[3], ThreadOf[m[4]]))'
  BY DEF WayNames, Named
<1>3. (\A u \in AppTurns : home[u] # 0 => Named(f, home[u], ThreadOf[owner[u]]))'
  BY DEF WayNames, Named
<1>4. (handler.at = "thread/start" =>
         (call.reply # <<>> /\ call.reply[1] = "ok" => f[call.reply[2]] = handler.thread))'
  BY DEF WayNames
<1>5. (handler.at = "thread/start" => (\A o \in ToSet(stdout) :
         o[1] = "response" /\ o[2] = call.id /\ o[3][1] = "ok" => f[o[3][2]] = handler.thread))'
  BY DEF WayNames
<1>6. QED
  BY <1>1, <1>2, <1>3, <1>4, <1>5 DEF WayNames

LEMMA ReaderNames ==
  ASSUME NEW f, WireInv, TablesOk, TableNames(f), WayNames(f), Reader
  PROVE  TableNames(f)' /\ WayNames(f)'
<1>0. /\ RpcInv /\ PipesInv /\ stdin \in Seq(Inputs) /\ stdout \in Seq(Outputs)
      /\ threadMap \in [Threads -> AppThreads \cup {0}] /\ reverseMap \in [AppThreads -> Threads \cup {None}]
  BY DEF WireInv, PipesInv, TablesOk
<1>1. UNCHANGED <<made, home, owner, handler, bound>>
  BY DEF Reader, ReadResponse, ReadTurn, ReadDelta, ReadMessage, ReadAsk, ReadResolved, ReadClosed, Emit,
         server, process, rpc, told
<1>2. TableNames(f)'
  <2>1. /\ \A x \in Threads : threadMap'[x] \in {threadMap[x], 0}
        /\ \A a \in AppThreads : reverseMap'[a] \in {reverseMap[a], None}
    <3>1. CASE UNCHANGED <<threadMap, reverseMap>>
      BY <3>1
    <3>2. CASE Emit
      BY <3>2 DEF Emit
    <3>3. CASE ReadClosed
      BY <1>0, <3>3 DEF ReadClosed
    <3>4. QED
      BY <3>1, <3>2, <3>3 DEF Reader, ReadResponse, ReadTurn, ReadDelta, ReadMessage, ReadAsk, ReadResolved, maps
  <2>2. QED
    BY <1>1, <2>1 DEF TableNames, Named
<1>3. \A o \in ToSet(stdout') : o \in ToSet(stdout)
  <2>1. stdout' = stdout \/ (stdout # <<>> /\ stdout' = Tail(stdout))
    BY DEF Reader, ReadResponse, ReadTurn, ReadDelta, ReadMessage, ReadAsk, ReadResolved, ReadClosed, Emit, Reads, pipes
  <2>2. QED
    BY <1>0, <2>1, MembersLeft
<1>4. \A m \in ToSet(stdin') : m \in ToSet(stdin) \/ m[1] = "answer"
  <2>1. CASE stdin' = stdin
    BY <2>1
  <2>2. CASE ReadAsk
    <3>1. Head(stdout) \in Outputs /\ Head(stdout)[1] = "ask"
      BY <1>0, <2>2, MembersLeft DEF ReadAsk, Reads
    <3>2. Head(stdout)[2] \in Asks
      BY <3>1 DEF Outputs
    <3>3. PICK m : m = <<"answer", Head(stdout)[2]>>
      OBVIOUS
    <3>4. m \in Inputs /\ m[1] = "answer"
      BY <3>2, <3>3 DEF Inputs
    <3>5. stdin' = stdin \/ stdin' = Append(stdin, m)
      BY <2>2, <3>3 DEF ReadAsk
    <3>6. ToSet(Append(stdin, m)) = ToSet(stdin) \cup {m}
      BY <1>0, <3>4, MembersAppended
    <3>7. QED
      BY <3>4, <3>5, <3>6
  <2>3. QED
    BY <2>1, <2>2 DEF Reader, ReadResponse, ReadTurn, ReadDelta, ReadMessage, ReadResolved, ReadClosed, Emit, pipes
<1>5. ASSUME call' = call PROVE WayNames(f)'
  BY <1>1, <1>3, <1>4, <1>5, WaysRead
<1>6. ASSUME ReadResponse, call' # call PROVE WayNames(f)'
  <2>1. PICK o \in ToSet(stdout) : o = Head(stdout) /\ o[1] = "response" /\ o \in Outputs
    BY <1>0, <1>6, MembersLeft DEF ReadResponse, Reads
  <2>2. o[2] = call.id /\ call' = [call EXCEPT !.reply = o[3]]
    BY <1>6, <2>1 DEF ReadResponse
  <2>3. call'.id = call.id /\ call'.reply = o[3]
    BY <1>0, <2>2 DEF RpcInv
  <2>4. QED
    BY <1>1, <1>3, <1>4, <2>1, <2>2, <2>3, WaysRead
<1>7. WayNames(f)'
  BY <1>5, <1>6 DEF Reader, ReadTurn, ReadDelta, ReadMessage, ReadAsk, ReadResolved, ReadClosed, Emit, rpc
<1>8. QED
  BY <1>2, <1>7

LEMMA Reported ==
  ASSUME OwnersInv, stdout \in Seq(Outputs), Notifies
  PROVE  \A o \in ToSet(stdout') : o \in ToSet(stdout) \/ o[1] # "response"
<1>1. ASSUME NEW u \in AppTurns, stdout' = stdout \o Ends(u)
      PROVE  \A o \in ToSet(stdout') : o \in ToSet(stdout) \/ o[1] # "response"
  <2>1. Ends(u) \in Seq(Outputs) /\ \A o \in ToSet(Ends(u)) : o[1] # "response"
    BY EndsOutput
  <2>2. ToSet(stdout \o Ends(u)) = ToSet(stdout) \cup ToSet(Ends(u))
    BY <2>1, MembersJoined
  <2>3. QED
    BY <1>1, <2>1, <2>2
<1>2. ASSUME NEW m \in Outputs, m[1] # "response", stdout' = Append(stdout, m)
      PROVE  \A o \in ToSet(stdout') : o \in ToSet(stdout) \/ o[1] # "response"
  <2>1. ToSet(Append(stdout, m)) = ToSet(stdout) \cup {m}
    BY MembersAppended
  <2>2. QED
    BY <1>2, <2>1
<1>3. QED
  BY <1>1, <1>2 DEF Notifies

LEMMA NotifyNames ==
  ASSUME NEW f, WireInv, TableNames(f), WayNames(f), (AppServer /\ ~Serve) \/ Close \/ UNCHANGED vars
  PROVE  TableNames(f)' /\ WayNames(f)'
<1>0. RpcInv /\ PipesInv /\ OwnersInv /\ stdin \in Seq(Inputs) /\ stdout \in Seq(Outputs)
  BY DEF WireInv, PipesInv
<1>1. Notifies /\ UNCHANGED <<handler, call, maps, owner, made, home, bound>>
  BY <1>0, AppServerNotifies
<1>2. TableNames(f)'
  BY <1>1 DEF TableNames, Named, maps
<1>3. \A m \in ToSet(stdin') : m \in ToSet(stdin)
  BY <1>0, <1>1, MembersLeft DEF Notifies
<1>4. \A o \in ToSet(stdout') : o \in ToSet(stdout) \/ o[1] # "response"
  BY <1>0, <1>1, Reported
<1>5. WayNames(f)'
  BY <1>1, <1>3, <1>4, WaysRead
<1>6. QED
  BY <1>2, <1>5

\* One response is added to the output, and perhaps the end of a turn.
EndsTurn(o) == o[1] = "resolved" \/ (o[1] = "turn" /\ o[2] \in running)
ServesWith(n, r) ==
  \A o \in ToSet(stdout') : o \in ToSet(stdout) \/ o = <<"response", n, r>> \/ EndsTurn(o)

LEMMA ServeAnswers ==
  ASSUME RpcInv, PipesInv, OwnersInv, NEW m \in Requests, m = Head(stdin), Serve
  PROVE  \/ \E r \in {<<"error">>, <<"not found">>} : ServesWith(m[2], r) /\ UNCHANGED <<made, home, owner>>
         \/ \E b \in AppThreads \ made : /\ ServesWith(m[2], <<"ok", b>>) /\ made' = made \cup {b}
                                         /\ UNCHANGED <<home, owner>>
         \/ \E v \in AppTurns : /\ ServesWith(m[2], <<"ok", v>>) /\ m[1] = "turn/start" /\ made' = made
                                /\ home' = [home EXCEPT ![v] = m[3]] /\ owner' = [owner EXCEPT ![v] = m[4]]
         \/ /\ ServesWith(m[2], <<"ok", 0>>) /\ m[1] # "thread/start" /\ UNCHANGED <<made, home, owner>>
<1>0. stdout \in Seq(Outputs) /\ m[2] \in Nat /\ running \subseteq AppTurns
  BY DEF PipesInv, Requests, OwnersInv
<1>1. {<<"error">>, <<"not found">>} \subseteq Replies /\ \A n \in Nat : \E r \in Replies : r = <<"ok", n>>
  BY DEF Replies
<1>2. /\ <<>> \in Seq(Outputs) /\ \A o \in ToSet(<<>>) : EndsTurn(o)
      /\ \A u \in running : Ends(u) \in Seq(Outputs) /\ \A o \in ToSet(Ends(u)) : EndsTurn(o)
  <2>1. ASSUME NEW u \in running PROVE Ends(u) \in Seq(Outputs) /\ \A o \in ToSet(Ends(u)) : EndsTurn(o)
    BY <1>0, <2>1, EndsOutput DEF EndsTurn
  <2>2. QED
    BY <2>1 DEF ToSet
<1>3. ASSUME NEW r \in Replies, NEW s \in Seq(Outputs), \A o \in ToSet(s) : EndsTurn(o),
             stdout' = stdout \o Reply(m[2], r) \/ stdout' = stdout \o Reply(m[2], r) \o s
      PROVE  ServesWith(m[2], r)
  <2>1. PICK o : o = <<"response", m[2], r>>
    OBVIOUS
  <2>2. o \in Outputs
    BY <1>0, <2>1, OutputKinds
  <2>3. PICK w \in Seq(Outputs) : w = <<o>> /\ ToSet(w) = {o} /\ Reply(m[2], r) = w
    BY <2>1, <2>2, Singles DEF Reply
  <2>4. PICK q \in Seq(Outputs) : q = stdout \o w /\ ToSet(q) = ToSet(stdout) \cup {o}
    <3>1. stdout \o w \in Seq(Outputs) /\ ToSet(stdout \o w) = ToSet(stdout) \cup ToSet(w)
      BY <1>0, MembersJoined
    <3>2. QED
      BY <2>3, <3>1
  <2>5. ToSet(q \o s) = ToSet(q) \cup ToSet(s)
    BY MembersJoined
  <2>6. ToSet(stdout') \subseteq ToSet(stdout) \cup {o} \cup ToSet(s)
    BY <1>3, <2>3, <2>4, <2>5
  <2>7. QED
    BY <1>3, <2>1, <2>6 DEF ServesWith
<1>4. \/ \E r \in {<<"error">>, <<"not found">>} : stdout' = stdout \o Reply(m[2], r) /\ UNCHANGED <<made, home, owner>>
      \/ \E b \in AppThreads \ made : /\ stdout' = stdout \o Reply(m[2], <<"ok", b>>) /\ made' = made \cup {b}
                                      /\ UNCHANGED <<home, owner>>
      \/ \E v \in AppTurns : /\ m[1] = "turn/start" /\ stdout' = stdout \o Reply(m[2], <<"ok", v>>) /\ made' = made
                             /\ home' = [home EXCEPT ![v] = m[3]] /\ owner' = [owner EXCEPT ![v] = m[4]]
      \/ /\ m[1] # "thread/start" /\ stdout' = stdout \o Reply(m[2], <<"ok", 0>>) /\ UNCHANGED <<made, home, owner>>
      \/ /\ m[1] # "thread/start" /\ UNCHANGED <<made, home, owner>>
         /\ \E u \in running : stdout' = stdout \o Reply(m[2], <<"ok", 0>>) \o Ends(u)
      \/ /\ m[1] # "thread/start" /\ UNCHANGED <<made, home, owner>>
         /\ stdout' = stdout \o Reply(m[2], <<"ok", 0>>)
                       \o (IF RunningIn(m[3]) = {} THEN <<>> ELSE Ends(CHOOSE v \in RunningIn(m[3]) : TRUE))
  BY DEF Serve
<1>5. PICK e : e = IF RunningIn(m[3]) = {} THEN <<>> ELSE Ends(CHOOSE v \in RunningIn(m[3]) : TRUE)
  OBVIOUS
<1>6. e \in Seq(Outputs) /\ \A o \in ToSet(e) : EndsTurn(o)
  <2>1. RunningIn(m[3]) # {} => (CHOOSE v \in RunningIn(m[3]) : TRUE) \in running
    <3>1. RunningIn(m[3]) \subseteq running
      BY <1>0 DEF RunningIn
    <3>2. QED
      BY <3>1
  <2>2. QED
    BY <1>2, <1>5, <2>1
<1>7. ASSUME NEW r \in {<<"error">>, <<"not found">>}, stdout' = stdout \o Reply(m[2], r) PROVE ServesWith(m[2], r)
  BY <1>1, <1>2, <1>3, <1>7
<1>8. ASSUME NEW n \in Nat, stdout' = stdout \o Reply(m[2], <<"ok", n>>) PROVE ServesWith(m[2], <<"ok", n>>)
  <2>1. PICK r \in Replies : r = <<"ok", n>>
    BY <1>1
  <2>2. QED
    BY <1>2, <1>3, <1>8, <2>1
<1>9. ASSUME NEW s \in Seq(Outputs), \A o \in ToSet(s) : EndsTurn(o),
             stdout' = stdout \o Reply(m[2], <<"ok", 0>>) \o s
      PROVE  ServesWith(m[2], <<"ok", 0>>)
  <2>1. PICK r \in Replies : r = <<"ok", 0>>
    BY <1>1
  <2>2. QED
    BY <1>3, <1>9, <2>1
<1>10. \A b \in AppThreads : b \in Nat
  BY DEF AppThreads
<1>11. \A v \in AppTurns : v \in Nat
  BY DEF AppTurns
<1>12. QED
  BY <1>0, <1>2, <1>4, <1>5, <1>6, <1>7, <1>8, <1>9, <1>10, <1>11

\* The app-server makes a thread for the request that asks for one.
LEMMA ServedNames ==
  ASSUME NEW f, NEW g, RpcInv, PipesInv, TableNames(f), WayNames(f), UNCHANGED <<handler, call, threadMap, reverseMap, bound>>,
         made \subseteq made', \A a \in made : g[a] = f[a],
         \A m \in ToSet(stdin') : m \in ToSet(stdin),
         \A o \in ToSet(stdout') :
           \/ o \in ToSet(stdout) \/ o[1] # "response"
           \/ o[2] = call.id /\ handler.at = "thread/start" /\ o[3][1] = "ok" => g[o[3][2]] = handler.thread,
         \A u \in AppTurns : home'[u] # 0 => \/ home'[u] = home[u] /\ owner'[u] = owner[u]
                                            \/ Named(f, home'[u], ThreadOf[owner'[u]])
  PROVE  TableNames(g)' /\ WayNames(g)'
<1>1. ASSUME NEW a, NEW x, Named(f, a, x) PROVE Named(g, a, x)'
  BY <1>1 DEF Named
<1>2. TableNames(g)'
  <2>1. \A x \in Threads : Named(g, threadMap[x], x)' /\ Named(g, bound[x], x)'
    BY DEF TableNames, Named
  <2>2. \A a \in AppThreads : reverseMap[a] # None => Named(g, a, reverseMap[a])'
    BY DEF TableNames, Named
  <2>3. QED
    BY <2>1, <2>2 DEF TableNames
<1>3. (handler.at \in Methods \cup {"mapping", "unmapping"} => Named(g, handler.app, handler.thread))'
  BY DEF WayNames, Named
<1>4. (\A m \in ToSet(stdin) : m[1] = "turn/start" => Named(g, m[3], ThreadOf[m[4]]))'
  BY <1>1 DEF WayNames
<1>5. (\A u \in AppTurns : home[u] # 0 => Named(g, home[u], ThreadOf[owner[u]]))'
  BY DEF WayNames, Named
<1>6. (handler.at = "thread/start" =>
         (call.reply # <<>> /\ call.reply[1] = "ok" => g[call.reply[2]] = handler.thread))'
  BY DEF WayNames, RpcInv, ReplyOk
<1>7. (handler.at = "thread/start" => (\A o \in ToSet(stdout) :
         o[1] = "response" /\ o[2] = call.id /\ o[3][1] = "ok" => g[o[3][2]] = handler.thread))'
  BY DEF WayNames, PipesInv, ResponseOk, ReplyOk
<1>8. QED
  BY <1>2, <1>3, <1>4, <1>5, <1>6, <1>7 DEF WayNames

LEMMA ServeNames ==
  ASSUME WireInv, TablesOk, NamesInv, Serve
  PROVE  NamesInv'
<1>0. /\ RpcInv /\ PipesInv /\ OwnersInv /\ stdin \in Seq(Inputs) /\ stdout \in Seq(Outputs)
      /\ made \subseteq AppThreads
  BY DEF WireInv, PipesInv, OwnersInv
<1>1. PICK f \in [AppThreads -> Threads \cup {None}] : TableNames(f) /\ WayNames(f)
  BY DEF NamesInv
<1>2. PICK m \in Requests : m = Head(stdin) /\ RequestOk(m) /\ m \in ToSet(stdin)
  BY <1>0, Served
<1>3. /\ UNCHANGED <<handler, call, threadMap, reverseMap, bound>> /\ \A n \in ToSet(stdin') : n \in ToSet(stdin)
      /\ m[2] \in Nat /\ (m[2] = call.id => m[1] = handler.at)
  <2>1. stdin # <<>> /\ stdin' = Tail(stdin)
    BY <1>0, Served
  <2>2. UNCHANGED <<handler, call, threadMap, reverseMap, bound>>
    BY DEF Serve, rpc, maps, told
  <2>3. \A n \in ToSet(stdin') : n \in ToSet(stdin)
    BY <1>0, <2>1, MembersLeft
  <2>4. QED
    BY <1>2, <2>2, <2>3 DEF RequestOk, Requests
<1>4. \A a \in made : f[a] = f[a]
  OBVIOUS
<1>5. ASSUME NEW r, ServesWith(m[2], r), m[1] # "thread/start" \/ r[1] # "ok"
      PROVE  \A o \in ToSet(stdout') : \/ o \in ToSet(stdout) \/ o[1] # "response"
                                       \/ ~(o[2] = call.id /\ handler.at = "thread/start" /\ o[3][1] = "ok")
  BY <1>3, <1>5 DEF ServesWith, EndsTurn
<1>6. ASSUME NEW r, ServesWith(m[2], r), m[1] # "thread/start" \/ r[1] # "ok", UNCHANGED <<made, home, owner>>
      PROVE  NamesInv'
  <2>1. TableNames(f)' /\ WayNames(f)'
    BY <1>0, <1>1, <1>3, <1>4, <1>5, <1>6, ServedNames
  <2>2. QED
    BY <2>1 DEF NamesInv
<1>7. ASSUME NEW v \in AppTurns, ServesWith(m[2], <<"ok", v>>), m[1] = "turn/start", made' = made,
             home' = [home EXCEPT ![v] = m[3]], owner' = [owner EXCEPT ![v] = m[4]]
      PROVE  NamesInv'
  <2>1. Named(f, m[3], ThreadOf[m[4]])
    BY <1>1, <1>2, <1>7 DEF WayNames
  <2>2. home'[v] = m[3] /\ owner'[v] = m[4] /\ \A u \in AppTurns : u # v => home'[u] = home[u] /\ owner'[u] = owner[u]
    BY <1>0, <1>7 DEF OwnersInv
  <2>3. \A u \in AppTurns : home'[u] # 0 => \/ home'[u] = home[u] /\ owner'[u] = owner[u]
                                           \/ Named(f, home'[u], ThreadOf[owner'[u]])
    BY <2>1, <2>2
  <2>4. TableNames(f)' /\ WayNames(f)'
    BY <1>0, <1>1, <1>3, <1>4, <1>5, <1>7, <2>3, ServedNames
  <2>5. QED
    BY <2>4 DEF NamesInv
<1>8. ASSUME NEW b \in AppThreads \ made, ServesWith(m[2], <<"ok", b>>), made' = made \cup {b}, UNCHANGED <<home, owner>>
      PROVE  NamesInv'
  <2>1. PICK g : g = [f EXCEPT ![b] = handler.thread]
    OBVIOUS
  <2>2. handler.thread \in Threads \cup {None}
    BY <1>0 DEF RpcInv, HandlerOk, Handlers
  <2>3. g \in [AppThreads -> Threads \cup {None}] /\ g[b] = handler.thread /\ \A a \in made : g[a] = f[a]
    BY <1>0, <2>1, <2>2
  <2>4. \A o \in ToSet(stdout') :
           \/ o \in ToSet(stdout) \/ o[1] # "response"
           \/ o[2] = call.id /\ handler.at = "thread/start" /\ o[3][1] = "ok" => g[o[3][2]] = handler.thread
    BY <1>8, <2>3 DEF ServesWith, EndsTurn
  <2>5. TableNames(g)' /\ WayNames(g)'
    BY <1>0, <1>1, <1>3, <1>8, <2>3, <2>4, ServedNames
  <2>6. QED
    BY <2>3, <2>5 DEF NamesInv
<1>9. \/ \E r \in {<<"error">>, <<"not found">>} : ServesWith(m[2], r) /\ UNCHANGED <<made, home, owner>>
      \/ \E b \in AppThreads \ made : /\ ServesWith(m[2], <<"ok", b>>) /\ made' = made \cup {b} /\ UNCHANGED <<home, owner>>
      \/ \E v \in AppTurns : /\ ServesWith(m[2], <<"ok", v>>) /\ m[1] = "turn/start" /\ made' = made
                             /\ home' = [home EXCEPT ![v] = m[3]] /\ owner' = [owner EXCEPT ![v] = m[4]]
      \/ /\ ServesWith(m[2], <<"ok", 0>>) /\ m[1] # "thread/start" /\ UNCHANGED <<made, home, owner>>
  BY <1>0, <1>2, ServeAnswers
<1>10. \A r \in {<<"error">>, <<"not found">>} : r[1] # "ok"
  <2>1. <<"error">>[1] # "ok" /\ <<"not found">>[1] # "ok"
    OBVIOUS
  <2>2. QED
    BY <2>1, Zenon
<1>11. QED
  BY <1>6, <1>7, <1>8, <1>9, <1>10

\* The connector leaves the messages of the app-server as they are.
LEMMA ItemsAlone ==
  ASSUME Handler \/ Backend \/ Reader
  PROVE  items' = items
<1>1. CASE Handler
  BY <1>1 DEF Handler, TimesOut, Mapped, ThreadStarted, TurnStarted, Resumed, Answered, Archived, SendAnswer,
              Remember, server, speech
<1>2. CASE Reader
  BY <1>2 DEF Reader, ReadResponse, ReadTurn, ReadDelta, ReadMessage, ReadAsk, ReadResolved, ReadClosed, Emit,
              server, speech
<1>3. ASSUME NEW t \in Turns, NEW given, NEW named,
    TurnStart(t, given) \/ TurnSteer(t, given, named) \/ TurnCancel(t, given, named) PROVE items' = items
  BY <1>3 DEF TurnStart, TurnSteer, TurnCancel, server, speech
<1>4. ASSUME NEW x \in Threads, NEW given,
             ThreadResume(x, given) \/ ThreadArchive(x, given) \/ ThreadUnarchive(x, given) \/ SyncAck(x)
      PROVE  items' = items
  BY <1>4 DEF ThreadResume, ThreadArchive, ThreadUnarchive, SyncAck, server, speech
<1>5. ASSUME NEW i \in Asks, NEW d \in Decisions, Respond(i, d) PROVE items' = items
  BY <1>5 DEF Respond, server, speech
<1>6. CASE Backend
  BY <1>3, <1>4, <1>5, <1>6 DEF Backend
<1>7. QED
  BY <1>1, <1>2, <1>6

\* The connector writes nothing to the app-server's output.
LEMMA OutputRead ==
  ASSUME stdout \in Seq(Outputs), Handler \/ Backend \/ Reader
  PROVE  \A o \in ToSet(stdout') : o \in ToSet(stdout)
<1>1. stdout' = stdout \/ (stdout # <<>> /\ stdout' = Tail(stdout))
  <2>1. CASE Handler
    BY <2>1 DEF Handler, TimesOut, Mapped, ThreadStarted, TurnStarted, Resumed, Answered, Archived, SendAnswer,
                Remember, pipes
  <2>2. CASE Reader
    BY <2>2 DEF Reader, ReadResponse, ReadTurn, ReadDelta, ReadMessage, ReadAsk, ReadResolved, ReadClosed, Emit,
                Reads, pipes
  <2>3. ASSUME NEW t \in Turns, NEW given, NEW named,
    TurnStart(t, given) \/ TurnSteer(t, given, named) \/ TurnCancel(t, given, named) PROVE stdout' = stdout
    BY <2>3 DEF TurnStart, TurnSteer, TurnCancel, pipes
  <2>4. ASSUME NEW x \in Threads, NEW given,
               ThreadResume(x, given) \/ ThreadArchive(x, given) \/ ThreadUnarchive(x, given) \/ SyncAck(x)
        PROVE  stdout' = stdout
    BY <2>4 DEF ThreadResume, ThreadArchive, ThreadUnarchive, SyncAck, pipes
  <2>5. ASSUME NEW i \in Asks, NEW d \in Decisions, Respond(i, d) PROVE stdout' = stdout
    BY <2>5 DEF Respond, pipes
  <2>6. CASE Backend
    BY <2>3, <2>4, <2>5, <2>6 DEF Backend
  <2>7. QED
    BY <2>1, <2>2, <2>6
<1>2. QED
  BY <1>1, MembersLeft

\* What is added to the output is about turns that run, and turns that were started stay.
LEMMA StartedKept ==
  ASSUME StartedInv,
         \A u \in AppTurns : home[u] # 0 => home'[u] # 0,
         items' \in [Items -> [turn : AppTurns \cup {0}, text : Seq(Nat), done : BOOLEAN]],
         \A i \in Items : Started(items[i].turn) => items'[i].turn = items[i].turn,
         stdout \in Seq(Outputs),
         \A u \in running' : u \in running \/ Started(u)',
         \A o \in ToSet(stdout') :
           \/ o \in ToSet(stdout) \/ o[1] \notin {"turn", "delta", "message"}
           \/ o[1] = "turn" /\ o[2] \in running
           \/ o[1] \in {"delta", "message"} /\ items'[o[2]].turn \in running
  PROVE  StartedInv'
<1>1. ASSUME NEW u, Started(u) PROVE Started(u)'
  BY <1>1 DEF Started
<1>2. \A u \in running' : Started(u)'
  BY <1>1 DEF StartedInv
<1>3. ASSUME NEW o \in ToSet(stdout'), o[1] = "turn" PROVE Started(o[2])'
  BY <1>1, <1>3 DEF StartedInv
<1>4. ASSUME NEW o \in ToSet(stdout'), o[1] \in {"delta", "message"} PROVE Started(items[o[2]].turn)'
  <2>1. CASE o \in ToSet(stdout)
    <3>1. o \in Outputs
      BY <2>1, MembersOf
    <3>2. o[2] \in Items
      BY <1>4, <3>1 DEF Outputs
    <3>3. PICK u : u = items[o[2]].turn /\ Started(u) /\ u = items'[o[2]].turn
      BY <1>4, <2>1, <3>2 DEF StartedInv
    <3>4. QED
      BY <1>1, <3>3 DEF Started
  <2>2. CASE items'[o[2]].turn \in running
    <3>1. PICK u : u = items'[o[2]].turn /\ Started(u)
      BY <2>2 DEF StartedInv
    <3>2. QED
      BY <1>1, <3>1 DEF Started
  <2>3. QED
    BY <1>4, <2>1, <2>2
<1>5. QED
  BY <1>2, <1>3, <1>4 DEF StartedInv

LEMMA StartedStep ==
  ASSUME WireInv, StartedInv, [Next]_vars
  PROVE  StartedInv'
<1>0. /\ RpcInv /\ PipesInv /\ OwnersInv /\ stdin \in Seq(Inputs) /\ stdout \in Seq(Outputs)
      /\ items \in [Items -> [turn : AppTurns \cup {0}, text : Seq(Nat), done : BOOLEAN]]
      /\ \A u \in running : Started(u) /\ u \in AppTurns
      /\ \A i \in Items : Started(items[i].turn) => items[i].turn = items[i].turn
  BY DEF WireInv, PipesInv, StartedInv, Started
<1>1. \A u \in AppTurns : home[u] # 0 => home'[u] # 0
  BY OwnersStep, CodexConstants DEF OwnersGrow, OwnersInv, WireInv
<1>2. CASE Handler \/ Backend \/ Reader
  <2>1. items' = items /\ running' = running /\ \A o \in ToSet(stdout') : o \in ToSet(stdout)
    BY <1>0, <1>2, ItemsAlone, ProcessAlone, OutputRead DEF process
  <2>2. QED
    BY <1>0, <1>1, <2>1, StartedKept
<1>3. CASE Serve
  <2>1. PICK m \in Requests : m = Head(stdin) /\ RequestOk(m)
    BY <1>0, <1>3, Served
  <2>2. items' = items
    BY <1>3 DEF Serve, speech
  <2>3. \A o \in ToSet(stdout') : o \in ToSet(stdout) \/ o[1] = "response" \/ EndsTurn(o)
    <3>1. \E r : ServesWith(m[2], r)
      BY <1>0, <1>3, <2>1, ServeAnswers
    <3>2. QED
      BY <3>1 DEF ServesWith
  <2>4. \/ running' \subseteq running
        \/ \E v \in AppTurns : /\ m[1] = "turn/start" /\ running' = running \cup {v} /\ home' = [home EXCEPT ![v] = m[3]]
    BY <1>3, <2>1 DEF Serve
  <2>5. \A u \in running' : u \in running \/ Started(u)'
    <3>1. m[1] = "turn/start" => m[3] # 0
      BY <2>1 DEF RequestOk
    <3>2. QED
      BY <1>0, <2>4, <3>1 DEF OwnersInv, Started
  <2>6. \A o \in ToSet(stdout') :
          \/ o \in ToSet(stdout) \/ o[1] \notin {"turn", "delta", "message"}
          \/ o[1] = "turn" /\ o[2] \in running
    BY <2>3 DEF EndsTurn
  <2>7. QED
    BY <1>0, <1>1, <2>2, <2>5, <2>6, StartedKept
<1>4. ASSUME NEW m \in Outputs, m[1] \notin {"turn", "delta", "message"}, stdout' = stdout \/ stdout' = Append(stdout, m),
             running' = running, items' = items
      PROVE  StartedInv'
  <2>1. \A o \in ToSet(stdout') : o \in ToSet(stdout) \/ o = m
    <3>1. ToSet(Append(stdout, m)) = ToSet(stdout) \cup {m}
      BY <1>0, MembersAppended
    <3>2. QED
      BY <1>4, <3>1
  <2>2. QED
    BY <1>0, <1>1, <1>4, <2>1, StartedKept
<1>5. CASE ReadAnswer
  <2>1. running' = running /\ items' = items
    BY <1>5 DEF ReadAnswer, speech
  <2>2. CASE stdout' = stdout
    BY <1>0, <1>1, <2>1, <2>2, StartedKept
  <2>3. CASE Head(stdin)[2] \in openAsks /\ stdout' = Append(stdout, <<"resolved", Head(stdin)[2]>>)
    <3>1. PICK i \in Asks : i = Head(stdin)[2]
      BY <1>0, <2>3 DEF OwnersInv
    <3>2. PICK o \in Outputs : o = <<"resolved", i>> /\ o[1] = "resolved"
      BY OutputKinds
    <3>3. QED
      BY <1>4, <2>1, <2>3, <3>1, <3>2
  <2>4. QED
    BY <1>5, <2>2, <2>3 DEF ReadAnswer
<1>6. ASSUME NEW u \in AppTurns, EndTurn(u) PROVE StartedInv'
  <2>1. stdout' = stdout \o Ends(u) /\ running' \subseteq running /\ items' = items /\ u \in running
    BY <1>6 DEF EndTurn, speech
  <2>2. Ends(u) \in Seq(Outputs) /\ \A o \in ToSet(Ends(u)) : EndsTurn(o)
    BY <1>0, <2>1, EndsOutput DEF EndsTurn
  <2>3. ToSet(stdout') = ToSet(stdout) \cup ToSet(Ends(u))
    BY <1>0, <2>1, <2>2, MembersJoined
  <2>4. \A o \in ToSet(stdout') :
          \/ o \in ToSet(stdout) \/ o[1] \notin {"turn", "delta", "message"}
          \/ o[1] = "turn" /\ o[2] \in running
    BY <2>2, <2>3 DEF EndsTurn
  <2>5. QED
    BY <1>0, <1>1, <2>1, <2>4, StartedKept
<1>7. ASSUME NEW u \in AppTurns, NEW kind, NEW c, NEW offer, Ask(u, kind, c, offer) PROVE StartedInv'
  <2>1. PICK i \in Asks : stdout' = Append(stdout, <<"ask", i>>)
    BY <1>7 DEF Ask
  <2>2. PICK o \in Outputs : o = <<"ask", i>> /\ o[1] = "ask"
    BY OutputKinds
  <2>3. running' = running /\ items' = items
    BY <1>7 DEF Ask, speech
  <2>4. QED
    BY <1>4, <2>1, <2>2, <2>3
<1>8. ASSUME NEW u \in AppTurns, Speak(u) \/ EndMessage(u) PROVE StartedInv'
  <2>1. u \in running /\ running' = running /\ Started(u)
    BY <1>0, <1>8 DEF Speak, EndMessage, process
  <2>2. ASSUME NEW i \in Items, NEW o \in Outputs,
               stdout' = Append(stdout, o), o[1] \in {"delta", "message"}, o[2] = i, items[i].turn \in {0, u},
               items' \in [Items -> [turn : AppTurns \cup {0}, text : Seq(Nat), done : BOOLEAN]],
               items'[i].turn = u, \A j \in Items : j # i => items'[j] = items[j]
        PROVE  StartedInv'
    <3>2. ~Started(0)
      BY DEF Started, AppTurns
    <3>3. \A j \in Items : Started(items[j].turn) => items'[j].turn = items[j].turn
      BY <2>2, <3>2
    <3>4. ToSet(Append(stdout, o)) = ToSet(stdout) \cup {o}
      BY <1>0, MembersAppended
    <3>5. \A p \in ToSet(stdout') :
            p \in ToSet(stdout) \/ (p[1] \in {"delta", "message"} /\ items'[p[2]].turn \in running)
      BY <2>1, <2>2, <3>4
    <3>6. QED
      BY <1>0, <1>1, <2>1, <2>2, <3>3, <3>5, StartedKept
  <2>3. ASSUME Speak(u) PROVE StartedInv'
    <3>1. PICK i \in Items, n \in 1..MaxFragments :
            /\ stdout' = Append(stdout, <<"delta", i, n>>) /\ items[i].turn \in {0, u}
            /\ items' = [items EXCEPT ![i].turn = u, ![i].text = Append(@, n)]
      BY <2>3 DEF Speak
    <3>2. PICK o \in Outputs : o = <<"delta", i, n>> /\ o[1] = "delta" /\ o[2] = i
      BY OutputKinds
    <3>3. items \in [Items -> [turn : AppTurns \cup {0}, text : Seq(Nat), done : BOOLEAN]] /\ n \in Nat /\ u \in AppTurns
      BY <1>0, CodexConstants
    <3>4. \A s \in Seq(Nat) : Append(s, n) \in Seq(Nat)
      BY <3>3
    <3>5. /\ items' \in [Items -> [turn : AppTurns \cup {0}, text : Seq(Nat), done : BOOLEAN]]
          /\ items'[i].turn = u /\ \A j \in Items : j # i => items'[j] = items[j]
      BY <3>1, <3>3, <3>4
    <3>6. QED
      BY <2>2, <3>1, <3>2, <3>5
  <2>4. ASSUME EndMessage(u) PROVE StartedInv'
    <3>1. PICK i \in Items, given \in BOOLEAN :
            /\ stdout' = Append(stdout, <<"message", i, given>>) /\ items[i].turn \in {0, u}
            /\ items' = [items EXCEPT ![i].turn = u, ![i].done = TRUE]
      BY <2>4 DEF EndMessage
    <3>2. PICK o \in Outputs : o = <<"message", i, given>> /\ o[1] = "message" /\ o[2] = i
      BY OutputKinds
    <3>3. items \in [Items -> [turn : AppTurns \cup {0}, text : Seq(Nat), done : BOOLEAN]] /\ u \in AppTurns
      BY <1>0
    <3>4. /\ items' \in [Items -> [turn : AppTurns \cup {0}, text : Seq(Nat), done : BOOLEAN]]
          /\ items'[i].turn = u /\ \A j \in Items : j # i => items'[j] = items[j]
      BY <3>1, <3>3
    <3>5. QED
      BY <2>2, <3>1, <3>2, <3>4
  <2>5. QED
    BY <1>8, <2>3, <2>4
<1>9. ASSUME NEW a \in AppThreads, CloseThread(a) PROVE StartedInv'
  <2>1. PICK o \in Outputs : o = <<"closed", a>> /\ o[1] = "closed"
    BY OutputKinds
  <2>2. stdout' = Append(stdout, o) /\ running' = running /\ items' = items
    BY <1>9, <2>1 DEF CloseThread, speech
  <2>3. QED
    BY <1>4, <2>1, <2>2
<1>10. CASE Exit \/ Close \/ UNCHANGED vars
  <2>1. stdout' = stdout /\ running' = running /\ items' = items
    BY <1>10 DEF Exit, Close, vars, pipes, server, process, speech
  <2>2. QED
    BY <1>0, <1>1, <2>1, StartedKept
<1>11. QED
  BY <1>2, <1>3, <1>5, <1>6, <1>7, <1>8, <1>9, <1>10 DEF Next, AppServer

\* What the reader is about to send is of a turn, under the thread and the turn it was
\* started for.
LEMMA EventRead ==
  ASSUME OwnersInv, TablesOk, NamesInv, NEW u, Started(u), reverseMap[home[u]] # None
  PROVE  EventOf(reverseMap[home[u]], reverseTurn[u], u)
<1>1. PICK f \in [AppThreads -> Threads \cup {None}] : TableNames(f) /\ WayNames(f)
  BY DEF NamesInv
<1>2. u \in AppTurns /\ home[u] \in AppThreads /\ home[u] # 0
  BY DEF Started, OwnersInv
<1>3. f[home[u]] = ThreadOf[owner[u]] /\ f[home[u]] = reverseMap[home[u]]
  BY <1>1, <1>2 DEF TableNames, WayNames, Named
<1>4. reverseTurn[u] # None => owner[u] = reverseTurn[u]
  BY <1>2 DEF TablesOk
<1>5. QED
  BY <1>3, <1>4 DEF EventOf

\* What a turn is does not change once it was started.
LEMMA EventKept ==
  ASSUME OwnersInv, OwnersInv', OwnersGrow, NEW x, NEW t, NEW u, EventOf(x, t, u)
  PROVE  EventOf(x, t, u)'
<1>1. u \in AppTurns /\ home[u] # 0 /\ owner[u] # None
  BY DEF EventOf, Started, OwnersInv
<1>2. owner'[u] = owner[u]
  BY <1>1 DEF OwnersGrow
<1>3. home'[u] # 0
  BY <1>1, <1>2 DEF OwnersInv
<1>4. QED
  BY <1>1, <1>2, <1>3 DEF EventOf, Started

LEMMA EventAlone ==
  ASSUME Handler \/ Backend \/ Serve
  PROVE  UNCHANGED <<event, heard>>
<1>1. CASE Handler
  BY <1>1 DEF Handler, TimesOut, Mapped, ThreadStarted, TurnStarted, Resumed, Answered, Archived, SendAnswer,
              Remember, told
<1>2. CASE Serve
  BY <1>2 DEF Serve, told
<1>3. ASSUME NEW t \in Turns, NEW given, NEW named,
    TurnStart(t, given) \/ TurnSteer(t, given, named) \/ TurnCancel(t, given, named)
      PROVE  UNCHANGED <<event, heard>>
  BY <1>3 DEF TurnStart, TurnSteer, TurnCancel, told
<1>4. ASSUME NEW x \in Threads, NEW given,
             ThreadResume(x, given) \/ ThreadArchive(x, given) \/ ThreadUnarchive(x, given) \/ SyncAck(x)
      PROVE  UNCHANGED <<event, heard>>
  BY <1>4 DEF ThreadResume, ThreadArchive, ThreadUnarchive, SyncAck, told
<1>5. ASSUME NEW i \in Asks, NEW d \in Decisions, Respond(i, d) PROVE UNCHANGED <<event, heard>>
  BY <1>5 DEF Respond, told
<1>6. CASE Backend
  BY <1>3, <1>4, <1>5, <1>6 DEF Backend
<1>7. QED
  BY <1>1, <1>2, <1>6

LEMMA HeardStep ==
  ASSUME WireInv, TablesOk, NamesInv, StartedInv, HeardInv, [Next]_vars
  PROVE  HeardInv'
<1>0. OwnersInv /\ OwnersInv' /\ OwnersGrow /\ stdout \in Seq(Outputs) /\ RpcInv /\ PipesInv
  BY OwnersStep DEF WireInv, PipesInv
<1>1. \A x, t, u : EventOf(x, t, u) => EventOf(x, t, u)'
  BY <1>0, EventKept
<1>2. CASE UNCHANGED <<event, heard>>
  BY <1>1, <1>2 DEF HeardInv
<1>3. ASSUME NEW kind \in {"turn", "delta", "message"}, Reads(kind),
             NEW u, u = IF kind = "turn" THEN Head(stdout)[2] ELSE items[Head(stdout)[2]].turn,
             heard' = heard,
             \/ event' = event
             \/ reverseMap[home[u]] # None /\ event' = <<"turn", reverseMap[home[u]], reverseTurn[u], u>>
      PROVE  HeardInv'
  <2>1. Head(stdout) \in ToSet(stdout) /\ Head(stdout)[1] = kind
    BY <1>0, <1>3, MembersLeft DEF Reads
  <2>2. Started(u)
    BY <1>3, <2>1 DEF StartedInv
  <2>3. CASE reverseMap[home[u]] # None /\ event' = <<"turn", reverseMap[home[u]], reverseTurn[u], u>>
    <3>1. EventOf(reverseMap[home[u]], reverseTurn[u], u)
      BY <1>0, <2>2, <2>3, EventRead
    <3>2. PICK x, t : x = reverseMap[home[u]] /\ t = reverseTurn[u]
      OBVIOUS
    <3>3. EventOf(x, t, u)'
      BY <1>1, <3>1, <3>2
    <3>4. event'[2] = x /\ event'[3] = t /\ event'[4] = u
      BY <2>3, <3>2
    <3>5. EventOf(event[2], event[3], event[4])'
      BY <3>3, <3>4 DEF EventOf, Started
    <3>6. QED
      BY <1>1, <1>3, <3>5 DEF HeardInv
  <2>4. QED
    BY <1>2, <1>3, <2>3
<1>4. CASE ReadTurn
  BY <1>3, <1>4 DEF ReadTurn
<1>5. CASE ReadDelta
  BY <1>3, <1>5 DEF ReadDelta
<1>6. CASE ReadMessage
  BY <1>3, <1>6 DEF ReadMessage
<1>7. CASE ReadAsk
  <2>1. heard' = heard /\ (event' = event \/ event'[1] = "ask")
    <3>1. heard' = heard /\ (event' = event \/ event' = <<"ask", Head(stdout)[2]>>)
      BY <1>7 DEF ReadAsk, told
    <3>2. QED
      BY <3>1
  <2>2. QED
    BY <1>1, <2>1 DEF HeardInv
<1>8. CASE ReadClosed
  <2>1. heard' = heard /\ (event' = event \/ event'[1] = "closed")
    BY <1>8 DEF ReadClosed, told
  <2>2. QED
    BY <1>1, <2>1 DEF HeardInv
<1>9. CASE ReadResponse \/ ReadResolved
  BY <1>2, <1>9 DEF ReadResponse, ReadResolved, told
<1>10. CASE Emit
  <2>1. event # <<>> /\ event' = <<>>
        /\ heard' = heard \cup (IF event[1] = "turn" THEN {<<event[2], event[3], event[4]>>} ELSE {})
    BY <1>10 DEF Emit
  <2>2. \A e \in heard : EventOf(e[1], e[2], e[3])'
    BY <1>1 DEF HeardInv
  <2>3. event[1] = "turn" => EventOf(event[2], event[3], event[4])
    BY <2>1 DEF HeardInv
  <2>4. ASSUME NEW e \in heard' PROVE EventOf(e[1], e[2], e[3])'
    <3>1. CASE e \in heard
      BY <2>2, <3>1
    <3>2. CASE event[1] = "turn" /\ e = <<event[2], event[3], event[4]>>
      <4>1. e[1] = event[2] /\ e[2] = event[3] /\ e[3] = event[4]
        BY <3>2
      <4>2. EventOf(e[1], e[2], e[3])
        BY <2>3, <3>2, <4>1
      <4>3. QED
        BY <1>1, <4>2
    <3>3. QED
      BY <2>1, <2>4, <3>1, <3>2
  <2>5. QED
    BY <2>1, <2>4 DEF HeardInv
<1>11. CASE Handler \/ Backend \/ Serve
  BY <1>2, <1>11, EventAlone
<1>12. CASE (AppServer /\ ~Serve) \/ Close \/ UNCHANGED vars
  BY <1>0, <1>2, <1>12, AppServerNotifies
<1>13. QED
  BY <1>4, <1>5, <1>6, <1>7, <1>8, <1>9, <1>10, <1>11, <1>12 DEF Next, Reader

LEMMA NamesStep ==
  ASSUME WireInv, TablesOk, NamesInv, [Next]_vars
  PROVE  NamesInv'
<1>1. CASE Serve
  BY <1>1, ServeNames
<1>2. CASE ~Serve
  <2>1. PICK f \in [AppThreads -> Threads \cup {None}] : TableNames(f) /\ WayNames(f)
    BY DEF NamesInv
  <2>2. TableNames(f)' /\ WayNames(f)'
    BY <1>2, <2>1, HandlerNames, BackendNames, ReaderNames, NotifyNames DEF Next
  <2>3. QED
    BY <2>1, <2>2 DEF NamesInv
<1>3. QED
  BY <1>1, <1>2

LEMMA EventInit == Init => EventInv
<1> SUFFICES ASSUME Init PROVE EventInv
  OBVIOUS
<1>1. NamesInv
  <2> DEFINE f == [a \in AppThreads |-> IF \E x \in Threads : Known[x] = a
                                        THEN CHOOSE x \in Threads : Known[x] = a ELSE None]
  <2>1. \A x \in Threads : Known[x] # 0 => f[Known[x]] = x /\ Known[x] \in made
    <3>1. ASSUME NEW x \in Threads, Known[x] # 0 PROVE f[Known[x]] = x /\ Known[x] \in made
      <4>1. Known[x] \in AppThreads /\ \A y \in Threads : Known[y] = Known[x] => y = x
        BY <3>1, CodexConstants
      <4>2. (CHOOSE y \in Threads : Known[y] = Known[x]) = x
        BY <4>1
      <4>3. Known[x] \in made
        BY <3>1 DEF Init
      <4>4. QED
        BY <4>1, <4>2, <4>3
    <3>2. QED
      BY <3>1
  <2>2. f \in [AppThreads -> Threads \cup {None}]
    OBVIOUS
  <2>3. TableNames(f)
    BY <2>1 DEF TableNames, Named, Init
  <2>4. WayNames(f)
    <3>1. ASSUME NEW u \in AppTurns, home[u] # 0 PROVE Named(f, home[u], ThreadOf[owner[u]])
      <4>1. owner[u] \in Turns /\ home[u] = Known[ThreadOf[owner[u]]]
        BY <3>1, EarlierTurns DEF Init
      <4>2. QED
        BY <2>1, <3>1, <4>1, CodexConstants DEF Named
    <3>2. QED
      BY <3>1 DEF WayNames, Init, Idle, Methods, ToSet
  <2>5. QED
    BY <2>2, <2>3, <2>4 DEF NamesInv
<1>2. StartedInv
  BY DEF StartedInv, Init, ToSet
<1>3. HeardInv
  BY DEF HeardInv, Init
<1>4. QED
  BY <1>1, <1>2, <1>3 DEF EventInv

LEMMA EventsTracked == Spec => []EventInv
<1>1. OwnedInv /\ EventInv /\ [Next]_vars => EventInv'
  BY NamesStep, StartedStep, HeardStep DEF OwnedInv, EventInv
<1>2. QED
  BY EventInit, TurnsOwned, <1>1, PTL DEF Spec

\* What the server hears of a turn is about the app-server turn that was started for it,
\* and goes to the thread of that turn, whatever timed out and was answered late, and
\* whatever was archived, closed and bound again.
THEOREM EventsReachOwnTurn == Spec => []EventsOfOwnTurn
<1>1. EventInv => EventsOfOwnTurn
  BY DEF EventInv, HeardInv, EventOf, EventsOfOwnTurn
<1>2. QED
  BY EventsTracked, <1>1, PTL
------------------------------------------------------------------------------
(* Events that are not dropped: whoever reads a turn's event finds its thread bound.  What
   the app-server says of a thread comes before its closing, the closing before the
   response that the handler waits for, and a turn/start before a thread/resume. *)

\* Threads that the server did not ask to archive, and no thread/resume of which timed out.
Kept(a) == a \notin archived \cup gaveUp

\* Whatever of the first kind is in the sequence is before whatever of the second is.
Precedes(q, P, Q) == \A i, j \in 1..Len(q) : q[i] \in P /\ q[j] \in Q => i <= j
Lacks(q, P) == \A o \in ToSet(q) : o \notin P

\* What the output says of a thread, and what answers the request that waits.
TurnIn(a, u) == u \in AppTurns /\ home[u] = a
ReportsOf(a, o) == \/ o[1] = "turn" /\ TurnIn(a, o[2])
                   \/ o[1] \in {"delta", "message"} /\ TurnIn(a, items[o[2]].turn)
Reports(a)   == {o \in Outputs : ReportsOf(a, o)}
Closings(a)  == {o \in Outputs : o[1] = "closed" /\ o[2] = a}
Responses    == {o \in Outputs : o[1] = "response" /\ o[2] = call.id}
NotFounds    == {o \in Responses : o[3][1] = "not found"}
Requested    == {m \in Inputs : m[1] # "answer" /\ m[2] = call.id}
Wanted(method, a) == {m \in Inputs : m[1] = method /\ m[3] = a}

At(method, a) == handler.at = method /\ handler.app = a

\* A turn that starts in the thread will be heard.
Fit(a)  == a \in loaded => reverseMap[a] # None /\ Lacks(stdout, Closings(a))
Gone(a) == a \notin loaded /\ Lacks(stdout, Closings(a))

\* The request that waits is on the way once, before its response.
OnceInv ==
  /\ Precedes(stdin, Requested, Requested)
  /\ ~Lacks(stdin, Requested) => call.reply = <<>> /\ Lacks(stdout, Responses)
  /\ \A m \in ToSet(stdin) : m \in Requested => m[3] = handler.app

ReportsHeard(a) ==
  /\ RunningIn(a) # {} \/ ~Lacks(stdout, Reports(a)) => reverseMap[a] # None
  /\ RunningIn(a) # {} => Lacks(stdout, Closings(a))
  /\ Precedes(stdout, Reports(a), Closings(a))

StartsFit(a) ==
  /\ ~Lacks(stdin, Wanted("turn/start", a)) => Fit(a)
  /\ Precedes(stdin, Wanted("turn/start", a), Wanted("thread/resume", a))

ResumesAwaited(a) ==
  /\ \A m \in ToSet(stdin) : m \in Wanted("thread/resume", a) => m[2] = call.id
  /\ a \in loaded /\ ~Lacks(stdout, Closings(a)) =>
       At("thread/resume", a) /\ call.reply = <<>> /\ Precedes(stdout, Closings(a), Responses)

RetryFit(a) ==
  /\ handler.op = "turn_start" /\ At("thread/resume", a) =>
       /\ Fit(a)
       /\ ~Lacks(stdin, Wanted("thread/resume", a)) => Gone(a) /\ reverseMap[a] # None
  /\ handler.retried /\ At("mapping", a) => Gone(a)
  /\ At("turn/start", a) =>
       /\ call.reply = <<"not found">> => Gone(a)
       /\ ~Lacks(stdout, NotFounds) => a \notin loaded /\ Precedes(stdout, Closings(a), NotFounds)

ThreadInv(a) == ReportsHeard(a) /\ StartsFit(a) /\ ResumesAwaited(a) /\ RetryFit(a)

\* What is asked to be resumed exists, and what is unbound was archived.
AskedInv ==
  /\ \A m \in ToSet(stdin) : m[1] = "thread/resume" => m[3] \in made
  /\ handler.at \in {"thread/archive", "unmapping"} => handler.op = "archive"
  /\ handler.op = "archive" => handler.app \in archived \cup {0}

KindsInv ==
  /\ loaded \subseteq made /\ 0 \notin archived \cup gaveUp
  /\ \A a \in AppThreads : a \in made \/ Lacks(stdout, Closings(a))
  /\ AskedInv

DroppedInv == dropped \subseteq AppTurns /\ NoEventDropped

HeardAllInv == OnceInv /\ KindsInv /\ (\A a \in AppThreads : Kept(a) => ThreadInv(a)) /\ DroppedInv

LEMMA PrecedesNone ==
  ASSUME NEW S, NEW q \in Seq(S), NEW P, NEW Q, Lacks(q, P) \/ Lacks(q, Q)
  PROVE  Precedes(q, P, Q)
<1>1. \A i \in 1..Len(q) : q[i] \in ToSet(q)
  BY MembersOf
<1>2. QED
  BY <1>1 DEF Precedes, Lacks

LEMMA PrecedesLess ==
  ASSUME NEW S, NEW q \in Seq(S), NEW P, NEW Q, NEW P1, NEW Q1, Precedes(q, P, Q),
         \A o \in ToSet(q) : (o \in P1 => o \in P) /\ (o \in Q1 => o \in Q)
  PROVE  Precedes(q, P1, Q1)
<1>1. \A i \in 1..Len(q) : q[i] \in ToSet(q)
  BY MembersOf
<1>2. QED
  BY <1>1 DEF Precedes

\* What is added in front of nothing that must come before it.
LEMMA PrecedesJoined ==
  ASSUME NEW S, NEW q \in Seq(S), NEW r \in Seq(S), NEW P, NEW Q, Precedes(q, P, Q), Lacks(r, P)
  PROVE  Precedes(q \o r, P, Q)
<1> DEFINE c == q \o r
<1>1. /\ c \in Seq(S) /\ Len(c) = Len(q) + Len(r) /\ Len(q) \in Nat /\ Len(r) \in Nat
      /\ \A k \in 1..Len(q) : c[k] = q[k]
      /\ \A k \in 1..Len(c) : k > Len(q) => c[k] = r[k - Len(q)]
  OBVIOUS
<1> HIDE DEF c
<1>2. ASSUME NEW i \in 1..Len(c), NEW j \in 1..Len(c), c[i] \in P, c[j] \in Q PROVE i <= j
  <2>1. i <= Len(q)
    <3>1. SUFFICES ASSUME i > Len(q) PROVE FALSE
      BY <1>1
    <3>2. i - Len(q) \in 1..Len(r) /\ c[i] = r[i - Len(q)]
      BY <1>1, <3>1
    <3>3. r[i - Len(q)] \in ToSet(r)
      BY <3>2, MembersOf
    <3>4. QED
      BY <1>2, <3>2, <3>3 DEF Lacks
  <2>2. CASE j <= Len(q)
    <3>1. i \in 1..Len(q) /\ j \in 1..Len(q) /\ c[i] = q[i] /\ c[j] = q[j]
      BY <1>1, <2>1, <2>2
    <3>2. QED
      BY <1>2, <3>1 DEF Precedes
  <2>3. CASE j > Len(q)
    BY <1>1, <2>1, <2>3
  <2>4. QED
    BY <1>1, <2>2, <2>3
<1>3. QED
  BY <1>2 DEF Precedes, c

LEMMA PrecedesAppended ==
  ASSUME NEW S, NEW q \in Seq(S), NEW m \in S, NEW P, NEW Q, Precedes(q, P, Q), m \notin P
  PROVE  Precedes(Append(q, m), P, Q)
<1>1. PICK r \in Seq(S) : r = <<m>> /\ ToSet(r) = {m}
  BY Singles
<1>2. Append(q, m) = q \o r
  BY <1>1
<1>3. QED
  BY <1>1, <1>2, PrecedesJoined DEF Lacks

LEMMA PrecedesLeft ==
  ASSUME NEW S, NEW q \in Seq(S), q # <<>>, NEW P, NEW Q, Precedes(q, P, Q)
  PROVE  Precedes(Tail(q), P, Q) /\ (Head(q) \in Q => Lacks(Tail(q), P))
<1> DEFINE t == Tail(q)
<1>1. /\ t \in Seq(S) /\ Len(q) \in Nat \ {0} /\ Len(t) = Len(q) - 1 /\ Head(q) = q[1]
      /\ \A i \in 1..Len(t) : t[i] = q[i + 1] /\ i + 1 \in 1..Len(q)
  OBVIOUS
<1> HIDE DEF t
<1>2. Precedes(t, P, Q)
  <2>1. ASSUME NEW i \in 1..Len(t), NEW j \in 1..Len(t), t[i] \in P, t[j] \in Q PROVE i <= j
    <3>1. i + 1 <= j + 1
      BY <1>1, <2>1 DEF Precedes
    <3>2. QED
      BY <1>1, <3>1
  <2>2. QED
    BY <2>1 DEF Precedes
<1>3. ASSUME Head(q) \in Q, NEW o \in ToSet(t) PROVE o \notin P
  <2>1. PICK i \in 1..Len(t) : o = t[i]
    BY <1>1, MembersOf
  <2>2. SUFFICES ASSUME o \in P PROVE FALSE
    OBVIOUS
  <2>3. 1 \in 1..Len(q) /\ i + 1 \in 1..Len(q) /\ q[i + 1] \in P /\ q[1] \in Q
    BY <1>1, <1>3, <2>1, <2>2
  <2>4. i + 1 <= 1
    BY <2>3 DEF Precedes
  <2>5. QED
    BY <1>1, <2>1, <2>4
<1>4. QED
  BY <1>2, <1>3 DEF Lacks, t

\* What stays the same for steps that leave the turns and messages alone.
LEMMA SameKinds ==
  ASSUME NEW a, UNCHANGED <<home, items>>
  PROVE  Reports(a)' = Reports(a) /\ Closings(a)' = Closings(a) /\ \A k : Wanted(k, a)' = Wanted(k, a)
<1>1. \A u : TurnIn(a, u)' = TurnIn(a, u)
  BY DEF TurnIn
<1>2. Reports(a)' = Reports(a)
  BY DEF Reports, ReportsOf, TurnIn
<1>3. QED
  BY <1>2 DEF Closings, Wanted

LEMMA LacksIn ==
  ASSUME NEW q, NEW r, NEW P, ToSet(r) \subseteq ToSet(q), Lacks(q, P)
  PROVE  Lacks(r, P)
  BY DEF Lacks

LEMMA Piped ==
  ASSUME WireInv
  PROVE  /\ stdin \in Seq(Inputs) /\ stdout \in Seq(Outputs) /\ ToSet(stdin) \subseteq Inputs /\ ToSet(stdout) \subseteq Outputs
         /\ nextId \in Nat \ {0} /\ call.id \in Nat /\ call.id < nextId /\ call.reply \in Replies \cup {<<>>}
         /\ handler \in Handlers
         /\ \A m \in ToSet(stdin) : m[1] # "answer" =>
              m[2] \in 1..(nextId - 1) /\ (m[2] = call.id => m[1] = handler.at)
         /\ \A o \in ToSet(stdout) : o[1] = "response" => o[2] \in 1..(nextId - 1)
<1>1. stdin \in Seq(Inputs) /\ stdout \in Seq(Outputs)
  BY DEF WireInv, PipesInv
<1>2. ToSet(stdin) \subseteq Inputs
  <2>1. \A q \in Seq(Inputs) : \A k \in 1..Len(q) : q[k] \in Inputs
    OBVIOUS
  <2>2. QED
    BY <1>1, <2>1, MembersOf
<1>3. ToSet(stdout) \subseteq Outputs
  <2>1. \A q \in Seq(Outputs) : \A k \in 1..Len(q) : q[k] \in Outputs
    OBVIOUS
  <2>2. QED
    BY <1>1, <2>1, MembersOf
<1>4. QED
  BY <1>1, <1>2, <1>3 DEF WireInv, RpcInv, PipesInv, RequestOk, ResponseOk, HandlerOk

\* As long as the handler does not wait for a thread/resume, none is on the way, and a
\* thread that is loaded was not closed since.
LEMMA Unawaited ==
  ASSUME WireInv, OnceInv, NEW a \in AppThreads, ResumesAwaited(a), At("thread/resume", a) => call.reply # <<>>
  PROVE  Lacks(stdin, Wanted("thread/resume", a)) /\ (a \in loaded => Lacks(stdout, Closings(a)))
<1>1. ASSUME NEW m \in ToSet(stdin), m \in Wanted("thread/resume", a) PROVE FALSE
  <2>1. m \in Inputs /\ m[1] = "thread/resume" /\ m[3] = a /\ m[2] = call.id
    BY <1>1 DEF Wanted, ResumesAwaited
  <2>2. m \in Requested
    BY <2>1 DEF Requested
  <2>3. call.reply = <<>> /\ handler.app = a
    BY <1>1, <2>1, <2>2 DEF OnceInv, Lacks
  <2>4. handler.at = "thread/resume"
    BY <1>1, <2>1, Piped
  <2>5. QED
    BY <2>3, <2>4 DEF At
<1>2. QED
  BY <1>1 DEF Lacks, ResumesAwaited

\* The handler waits for nothing.
LEMMA OnceResting ==
  ASSUME WireInv, WireInv', call'.id = 0
  PROVE  OnceInv'
<1>1. Lacks(stdin, Requested)'
  <2>1. \A m \in ToSet(stdin)' : m[1] # "answer" => m[2] # call'.id
    <3>1. \A m \in ToSet(stdin)' : m[1] # "answer" => m[2] \in 1..(nextId' - 1)
      BY DEF WireInv, PipesInv, RequestOk
    <3>2. QED
      BY <3>1
  <2>2. QED
    BY <2>1 DEF Lacks, Requested
<1>2. stdin' \in Seq(Inputs)
  BY DEF WireInv, PipesInv
<1>3. Precedes(stdin, Requested, Requested)'
  <2>1. PICK P : P = Requested'
    OBVIOUS
  <2>2. Lacks(stdin', P)
    BY <1>1, <2>1 DEF Lacks
  <2>3. Precedes(stdin', P, P)
    BY <1>2, <2>2, PrecedesNone
  <2>4. QED
    BY <2>1, <2>3 DEF Precedes
<1>4. QED
  BY <1>1, <1>3 DEF OnceInv, Lacks

LEMMA HandlerRests ==
  ASSUME WireInv, OnceInv, NEW a \in AppThreads, ThreadInv(a), At("thread/resume", a) => call.reply # <<>>,
         UNCHANGED <<stdout, loaded, home, items, running>>, handler'.at \notin Methods,
         stdin' = stdin \/ \E i \in Asks \cup {0} : stdin' = Append(stdin, <<"answer", i>>),
         reverseMap'[a] # None \/ reverseMap'[a] = reverseMap[a],
         handler'.retried /\ handler'.at = "mapping" /\ handler'.app = a => Gone(a)
  PROVE  ThreadInv(a)'
<1> DEFINE R == Reports(a)
           C == Closings(a)
           T == Wanted("turn/start", a)
           W == Wanted("thread/resume", a)
<1>1. R' = R /\ C' = C /\ T' = T /\ W' = W
  BY SameKinds
<1>2. Lacks(stdin, W) /\ (a \in loaded => Lacks(stdout, C))
  BY Unawaited DEF ThreadInv
<1>3. stdin \in Seq(Inputs) /\ stdout \in Seq(Outputs)
  BY Piped
<1>4. ReportsHeard(a)'
  <2>1. RunningIn(a)' = RunningIn(a)
    BY DEF RunningIn
  <2>2. QED
    BY <1>1, <2>1 DEF ThreadInv, ReportsHeard, Lacks, Precedes
<1>5. /\ ~Lacks(stdin', T) => ~Lacks(stdin, T)
      /\ Lacks(stdin', W) /\ Precedes(stdin', T, W)
  <2>1. CASE stdin' = stdin
    BY <1>2, <2>1 DEF ThreadInv, StartsFit
  <2>2. ASSUME NEW i \in Asks \cup {0}, stdin' = Append(stdin, <<"answer", i>>)
        PROVE  (~Lacks(stdin', T) => ~Lacks(stdin, T)) /\ Lacks(stdin', W) /\ Precedes(stdin', T, W)
    <3>1. PICK m \in Inputs : m = <<"answer", i>> /\ m \notin T /\ m \notin W
      <4>1. PICK m : m = <<"answer", i>>
        OBVIOUS
      <4>2. m \in Inputs
        BY <4>1 DEF Inputs
      <4>3. m[1] = "answer"
        BY <4>1
      <4>4. QED
        BY <4>1, <4>2, <4>3 DEF Wanted
    <3>2. ToSet(Append(stdin, m)) = ToSet(stdin) \cup {m}
      BY <1>3, MembersAppended
    <3>3. Precedes(Append(stdin, m), T, W)
      <4>1. Precedes(stdin, T, W)
        BY DEF ThreadInv, StartsFit
      <4>2. QED
        BY <1>3, <3>1, <4>1, PrecedesAppended
    <3>4. QED
      BY <1>2, <2>2, <3>1, <3>2, <3>3 DEF Lacks
  <2>3. QED
    BY <2>1, <2>2
<1> HIDE DEF R, C, T, W
<1>6. Fit(a) => Fit(a)'
  BY <1>1 DEF Fit, Lacks, C
<1>7. Gone(a) => Gone(a)'
  BY <1>1 DEF Gone, Lacks, C
<1>8. StartsFit(a)'
  <2>1. ~Lacks(stdin', T') => Fit(a)'
    BY <1>1, <1>5, <1>6 DEF ThreadInv, StartsFit, T
  <2>2. Precedes(stdin', T', W')
    BY <1>1, <1>5
  <2>3. QED
    BY <2>1, <2>2 DEF StartsFit, Lacks, Precedes, T, W
<1>9. ResumesAwaited(a)'
  <2>1. \A m \in ToSet(stdin') : m \notin W'
    BY <1>1, <1>5 DEF Lacks
  <2>2. ~(a \in loaded' /\ ~Lacks(stdout', C'))
    BY <1>1, <1>2 DEF C
  <2>3. QED
    BY <2>1, <2>2 DEF ResumesAwaited, Lacks, C, W
<1>10. RetryFit(a)'
  <2>1. ~At("thread/resume", a)' /\ ~At("turn/start", a)'
    BY DEF At, Methods
  <2>2. QED
    BY <1>7, <2>1 DEF RetryFit, At
<1>11. QED
  BY <1>4, <1>8, <1>9, <1>10 DEF ThreadInv

\* The handler makes a request.
LEMMA OnceAsking ==
  ASSUME WireInv, UNCHANGED stdout, NEW h \in Handlers, NEW m \in Inputs, stdin' = Append(stdin, m),
         m[2] = nextId, m[3] = h.app, handler'.app = h.app, call' = [id |-> nextId, reply |-> <<>>]
  PROVE  /\ OnceInv' /\ Lacks(stdout, Responses') /\ call'.id = nextId /\ call'.reply = <<>>
<1>0. call' = [id |-> nextId, reply |-> <<>>]
  OBVIOUS
<1>1. call'.id = nextId /\ call'.reply = <<>>
  BY ONLY <1>0
<1>2. PICK P : P = Requested'
  OBVIOUS
<1>3. \A n : n \in P <=> n \in Inputs /\ n[1] # "answer" /\ n[2] = nextId
  BY <1>1, <1>2 DEF Requested
<1>4. Lacks(stdin, P)
  <2>1. nextId \in Nat /\ \A n \in ToSet(stdin) : n[1] # "answer" => n[2] \in 1..(nextId - 1)
    BY Piped
  <2>2. \A n \in ToSet(stdin) : n[1] # "answer" => n[2] # nextId
    BY <2>1
  <2>3. QED
    BY <1>3, <2>2 DEF Lacks
<1>5. stdin \in Seq(Inputs) /\ Append(stdin, m) \in Seq(Inputs) /\ ToSet(Append(stdin, m)) = ToSet(stdin) \cup {m}
  BY Piped, MembersAppended
<1>6. Precedes(Append(stdin, m), P, P)
  <2>1. \A i, j \in 1..Len(Append(stdin, m)) :
          Append(stdin, m)[i] \in P /\ Append(stdin, m)[j] \in P => i = Len(stdin) + 1 /\ j = Len(stdin) + 1
    <3>1. \A i \in 1..Len(stdin) : stdin[i] \in ToSet(stdin)
      BY <1>5, MembersOf
    <3>2. /\ Len(Append(stdin, m)) = Len(stdin) + 1 /\ Len(stdin) \in Nat
          /\ \A i \in 1..Len(stdin) : Append(stdin, m)[i] = stdin[i]
      BY <1>5
    <3>3. \A i \in 1..(Len(stdin) + 1) : i \in 1..Len(stdin) \/ i = Len(stdin) + 1
      BY <3>2
    <3>4. QED
      BY <1>4, <3>1, <3>2, <3>3 DEF Lacks
  <2>2. Len(stdin) \in Nat
    BY <1>5
  <2>3. QED
    BY <2>1, <2>2 DEF Precedes
<1>7. Lacks(stdout, Responses')
  <2>1. \A o \in ToSet(stdout) : o[1] = "response" => o[2] # nextId
    BY Piped
  <2>2. QED
    BY <1>1, <2>1 DEF Lacks, Responses
<1>8. Precedes(stdin, Requested, Requested)'
  BY <1>2, <1>6 DEF Precedes
<1>9. (\A n \in ToSet(stdin) : n \in Requested => n[3] = handler.app)'
  BY <1>2, <1>4, <1>5 DEF Lacks
<1>10. Lacks(stdout, Responses)'
  BY <1>7 DEF Lacks
<1>11. QED
  BY <1>1, <1>7, <1>8, <1>9, <1>10 DEF OnceInv

LEMMA HandlerAsks ==
  ASSUME WireInv, OnceInv, NEW a \in AppThreads, ThreadInv(a), At("thread/resume", a) => call.reply # <<>>,
         UNCHANGED <<stdout, loaded, home, items, running>>,
         NEW h \in Handlers, NEW m \in Inputs, NEW method \in Methods, stdin' = Append(stdin, m),
         m[1] = method, m[2] = nextId, m[3] = h.app, handler' = [h EXCEPT !.at = method],
         call' = [id |-> nextId, reply |-> <<>>],
         reverseMap'[a] # None \/ reverseMap'[a] = reverseMap[a],
         method = "turn/start" /\ h.app = a => Fit(a) \/ reverseMap'[a] # None,
         method = "thread/resume" /\ h.op = "turn_start" /\ h.app = a => Gone(a) /\ reverseMap'[a] # None
  PROVE  ThreadInv(a)'
<1> DEFINE R == Reports(a)
           C == Closings(a)
           T == Wanted("turn/start", a)
           W == Wanted("thread/resume", a)
<1>1. R' = R /\ C' = C /\ T' = T /\ W' = W
  BY SameKinds
<1>2. Lacks(stdin, W) /\ (a \in loaded => Lacks(stdout, C))
  BY Unawaited DEF ThreadInv
<1>3. stdin \in Seq(Inputs) /\ stdout \in Seq(Outputs)
  BY Piped
<1>4. ReportsHeard(a)'
  <2>1. RunningIn(a)' = RunningIn(a)
    BY DEF RunningIn
  <2>2. QED
    BY <1>1, <2>1 DEF ThreadInv, ReportsHeard, Lacks, Precedes
<1>0. handler'.at = method /\ handler'.app = h.app /\ handler'.op = h.op
  BY DEF Handlers
<1>5. /\ Lacks(stdout, Responses') /\ call'.id = nextId /\ call'.reply = <<>>
  BY <1>0, OnceAsking
<1>6. ToSet(stdin') = ToSet(stdin) \cup {m}
  BY <1>3, MembersAppended
<1>7. m \in T => method = "turn/start" /\ h.app = a
  BY DEF Wanted
<1>8. m \in W => m \notin T
  BY DEF Wanted
<1>9. Precedes(stdin', T, W)
  <2>1. CASE m \in T
    <3>1. Lacks(stdin', W)
      BY <1>2, <1>6, <1>8, <2>1 DEF Lacks
    <3>2. stdin' \in Seq(Inputs)
      BY <1>3, MembersAppended
    <3>3. QED
      BY <3>1, <3>2, PrecedesNone
  <2>2. CASE m \notin T
    <3>1. Precedes(stdin, T, W)
      BY DEF ThreadInv, StartsFit
    <3>2. QED
      BY <1>3, <2>2, <3>1, PrecedesAppended
  <2>3. QED
    BY <2>1, <2>2
<1> HIDE DEF R, C, T, W
<1>10. (Fit(a) => Fit(a)') /\ (reverseMap'[a] # None => Fit(a)')
  BY <1>1, <1>2 DEF Fit, Lacks, C
<1>11. Gone(a) => Gone(a)'
  BY <1>1 DEF Gone, Lacks, C
<1>12. StartsFit(a)'
  <2>1. ~Lacks(stdin', T') => Fit(a)'
    <3>1. CASE m \in T
      BY <1>7, <1>10, <3>1
    <3>2. CASE m \notin T
      <4>1. ~Lacks(stdin', T) => ~Lacks(stdin, T)
        BY <1>6, <3>2 DEF Lacks
      <4>2. QED
        BY <1>1, <1>10, <4>1 DEF ThreadInv, StartsFit, T
    <3>3. QED
      BY <3>1, <3>2
  <2>2. Precedes(stdin', T', W')
    BY <1>1, <1>9
  <2>3. QED
    BY <2>1, <2>2 DEF StartsFit, Lacks, Precedes, T, W
<1>13. ResumesAwaited(a)'
  <2>1. \A n \in ToSet(stdin') : n \in W' => n[2] = call'.id
    BY <1>1, <1>2, <1>5, <1>6 DEF Lacks
  <2>2. ~(a \in loaded' /\ ~Lacks(stdout', C'))
    BY <1>1, <1>2 DEF C
  <2>3. QED
    BY <2>1, <2>2 DEF ResumesAwaited, Lacks, C, W
<1>14. RetryFit(a)'
  <2>1. At("thread/resume", a)' => method = "thread/resume" /\ h.app = a
    BY <1>0 DEF At
  <2>2. handler'.op = "turn_start" /\ At("thread/resume", a)' => Gone(a)' /\ reverseMap'[a] # None /\ Fit(a)'
    BY <1>0, <1>10, <1>11, <2>1
  <2>3. ~At("mapping", a)'
    BY <1>0 DEF At, Methods
  <2>4. Lacks(stdout, NotFounds')
    BY <1>5 DEF Lacks, NotFounds
  <2>5. call'.reply # <<"not found">>
    BY <1>5
  <2>6. Lacks(stdout, NotFounds)'
    BY <2>4 DEF Lacks
  <2>7. QED
    BY <2>2, <2>3, <2>5, <2>6 DEF RetryFit
<1>15. QED
  BY <1>4, <1>12, <1>13, <1>14 DEF ThreadInv

LEMMA NotFoundReply == \A r \in Replies : r[1] = "not found" <=> r = <<"not found">>
<1>1. ASSUME NEW r \in Replies, r[1] = "not found" PROVE r = <<"not found">>
  <2>1. CASE r = <<"error">>
    <3>1. r[1] = "error"
      BY <2>1
    <3>2. QED
      BY <1>1, <3>1
  <2>2. CASE r \in {"ok"} \X Nat
    BY <1>1, <2>2
  <2>3. QED
    BY <1>1, <2>1, <2>2 DEF Replies
<1>2. ASSUME NEW r, r = <<"not found">> PROVE r[1] = "not found" /\ r \in Replies
  BY <1>2 DEF Replies
<1>3. QED
  BY <1>1, <1>2

LEMMA CallFits ==
  ASSUME WireInv, OnceInv, NEW a \in AppThreads, ThreadInv(a), At("thread/resume", a) => call.reply # <<>>,
         UNCHANGED <<stdout, loaded, home, items, running>>,
         NEW h \in Handlers, NEW method \in Methods, NEW u \in AppTurns \cup {0}, Call(h, method, u),
         reverseMap'[a] # None \/ reverseMap'[a] = reverseMap[a],
         method = "turn/start" /\ h.app = a => Fit(a) \/ reverseMap'[a] # None,
         method = "thread/resume" /\ h.op = "turn_start" /\ h.app = a => Gone(a) /\ reverseMap'[a] # None
  PROVE  ThreadInv(a)'
<1>1. CASE alive
  <2>1. PICK m : m = <<method, nextId, h.app, h.turn, u>>
    OBVIOUS
  <2>2. /\ handler' = [h EXCEPT !.at = method] /\ call' = [id |-> nextId, reply |-> <<>>]
        /\ stdin' = Append(stdin, m)
    BY <1>1, <2>1 DEF Call
  <2>3. m \in Inputs
    BY <2>1, Piped DEF Inputs, Requests, Handlers
  <2>4. m[1] = method /\ m[2] = nextId /\ m[3] = h.app
    BY <2>1
  <2>5. QED
    BY <2>2, <2>3, <2>4, HandlerAsks
<1>2. CASE ~alive
  <2>1. handler' = Failed(h) /\ stdin' = stdin
    BY <1>2 DEF Call
  <2>2. handler'.at \notin Methods /\ handler'.at # "mapping"
    BY <2>1 DEF Failed, Idle, Handlers, Methods
  <2>3. QED
    BY <2>1, <2>2, HandlerRests
<1>3. QED
  BY <1>1, <1>2

\* What the steps of the handler leave alone.
LEMMA HandlerLeaves ==
  ASSUME Handler \/ Backend
  PROVE  /\ UNCHANGED <<stdout, loaded, made, home, items, running, dropped>>
         /\ archived \subseteq archived' /\ gaveUp \subseteq gaveUp'
<1>1. CASE Handler
  BY <1>1 DEF Handler, TimesOut, Mapped, ThreadStarted, TurnStarted, Resumed, Answered, Archived, SendAnswer,
              Remember, server, speech, process, pipes, told
<1>2. ASSUME NEW t \in Turns, NEW given, NEW named,
    TurnStart(t, given) \/ TurnSteer(t, given, named) \/ TurnCancel(t, given, named)
      PROVE  /\ UNCHANGED <<stdout, loaded, made, home, items, running, dropped>>
             /\ archived \subseteq archived' /\ gaveUp \subseteq gaveUp'
  BY <1>2 DEF TurnStart, TurnSteer, TurnCancel, server, speech, process, pipes, told
<1>3. ASSUME NEW x \in Threads, NEW given,
             ThreadResume(x, given) \/ ThreadArchive(x, given) \/ ThreadUnarchive(x, given) \/ SyncAck(x)
      PROVE  /\ UNCHANGED <<stdout, loaded, made, home, items, running, dropped>>
             /\ archived \subseteq archived' /\ gaveUp \subseteq gaveUp'
  BY <1>3 DEF ThreadResume, ThreadArchive, ThreadUnarchive, SyncAck, server, speech, process, pipes, told
<1>4. ASSUME NEW i \in Asks, NEW d \in Decisions, Respond(i, d)
      PROVE  /\ UNCHANGED <<stdout, loaded, made, home, items, running, dropped>>
             /\ archived \subseteq archived' /\ gaveUp \subseteq gaveUp'
  BY <1>4 DEF Respond, server, speech, process, pipes, told
<1>5. CASE Backend
  BY <1>2, <1>3, <1>4, <1>5 DEF Backend
<1>6. QED
  BY <1>1, <1>5

LEMMA HandlerFits ==
  ASSUME WireInv, TablesOk, OnceInv, KindsInv, NEW a \in AppThreads, ThreadInv(a), Kept(a)', Handler
  PROVE  ThreadInv(a)'
<1>0. /\ UNCHANGED <<stdout, loaded, home, items, running>>
      /\ RpcInv /\ handler \in Handlers /\ reverseMap \in [AppThreads -> Threads \cup {None}]
      /\ a # 0 /\ 0 \in AppTurns \cup {0} /\ None \notin Threads
  BY HandlerLeaves, CodexConstants DEF WireInv, RpcInv, HandlerOk, TablesOk, AppThreads
<1>1. CASE TimesOut
  <2>1. handler' = Failed(handler) /\ stdin' = stdin /\ reverseMap' = reverseMap /\ call.id # 0
    BY <1>1 DEF TimesOut, pipes, maps
  <2>2. handler'.at \notin Methods /\ handler'.at # "mapping"
    BY <1>0, <2>1 DEF Failed, Idle, Handlers, Methods
  <2>3. ~At("thread/resume", a)
    BY <1>1 DEF TimesOut, At, Kept
  <2>4. QED
    BY <1>0, <2>1, <2>2, <2>3, HandlerRests
<1>2. CASE Mapped
  <2>1. /\ handler.at = "mapping" /\ reverseMap' = [reverseMap EXCEPT ![handler.app] = handler.thread]
        /\ handler.thread \in Threads /\ ~At("thread/resume", a)
    BY <1>0, <1>2, Underway DEF Mapped, At
  <2>2. /\ reverseMap'[a] # None \/ reverseMap'[a] = reverseMap[a]
        /\ handler.app = a => reverseMap'[a] # None
    BY <1>0, <2>1
  <2>3. CASE handler.op = "turn_start" /\ Call(handler, "turn/start", 0)
    BY <1>0, <2>1, <2>2, <2>3, CallFits DEF Methods
  <2>4. CASE handler.op = "turn_steer" /\ Call(handler, "turn/steer", handler.appTurn)
    <3>1. PICK u \in AppTurns \cup {0} : u = handler.appTurn
      BY <1>0 DEF Handlers
    <3>2. Call(handler, "turn/steer", u)
      BY <2>4, <3>1
    <3>3. QED
      BY <1>0, <2>1, <2>2, <3>2, CallFits DEF Methods
  <2>5. CASE (handler.op = "thread_resume" \/ handler.retried) /\ Call(handler, "thread/resume", 0)
    <3>1. handler.op = "turn_start" /\ handler.app = a => Gone(a)
      BY <2>1, <2>5 DEF ThreadInv, RetryFit, At
    <3>2. QED
      BY <1>0, <2>1, <2>2, <2>5, <3>1, CallFits DEF Methods
  <2>6. QED
    BY <1>2, <2>3, <2>4, <2>5 DEF Mapped
<1>3. CASE ThreadStarted
  <2>1. /\ handler.at = "thread/start" /\ ReplyOk(handler, call.reply) /\ handler.thread \in Threads
        /\ ~At("thread/resume", a)
    BY <1>0, <1>3, Waiting, Underway DEF ThreadStarted, Methods, At
  <2>2. CASE Ok /\ reverseMap' = [reverseMap EXCEPT ![call.reply[2]] = handler.thread]
              /\ Call([handler EXCEPT !.app = call.reply[2]], "turn/start", 0)
    <3>1. PICK b \in AppThreads : b = call.reply[2]
      BY <2>1, <2>2 DEF Ok, ReplyOk, WireInv, OwnersInv
    <3>2. PICK h : h = [handler EXCEPT !.app = b]
      OBVIOUS
    <3>3. h \in Handlers /\ h.app = b
      BY <1>0, <3>2 DEF Handlers
    <3>4. Call(h, "turn/start", 0) /\ reverseMap' = [reverseMap EXCEPT ![b] = handler.thread]
      BY <2>2, <3>1, <3>2
    <3>5. /\ reverseMap'[a] # None \/ reverseMap'[a] = reverseMap[a]
          /\ b = a => reverseMap'[a] # None
      BY <1>0, <2>1, <3>4
    <3>6. QED
      BY <1>0, <2>1, <3>3, <3>4, <3>5, CallFits DEF Methods
  <2>3. CASE handler' = Idle /\ UNCHANGED <<reverseMap, stdin>>
    BY <1>0, <2>1, <2>3, IdleOk, HandlerRests DEF Idle
  <2>4. QED
    BY <1>3, <2>2, <2>3 DEF ThreadStarted
<1>4. CASE TurnStarted
  <2>1. /\ handler.at = "turn/start" /\ call.reply \in Replies /\ ~At("thread/resume", a)
        /\ reverseMap' = reverseMap /\ stdin' = stdin
    <3>1. Returned("turn/start") /\ reverseMap' = reverseMap /\ stdin' = stdin
      BY <1>4 DEF TurnStarted, pipes
    <3>2. handler.at = "turn/start" /\ call.reply \in Replies
      BY <1>0, <3>1, Waiting DEF Methods
    <3>3. QED
      BY <3>1, <3>2 DEF At
  <2>2. CASE handler' = Idle
    BY <1>0, <2>1, <2>2, IdleOk, HandlerRests DEF Idle
  <2>3. CASE call.reply[1] = "not found" /\ MapThread([handler EXCEPT !.retried = TRUE])
    <3>1. call.reply = <<"not found">>
      BY <2>1, <2>3, NotFoundReply
    <3>2. PICK h : h = [handler EXCEPT !.retried = TRUE]
      OBVIOUS
    <3>3. h \in Handlers /\ h.app = handler.app
      BY <1>0, <3>2 DEF Handlers
    <3>4. handler' = [h EXCEPT !.at = "mapping"]
      BY <2>3, <3>2 DEF MapThread
    <3>5. handler'.at = "mapping" /\ handler'.app = handler.app
      BY <3>3, <3>4 DEF Handlers
    <3>6. handler.app = a => Gone(a)
      BY <2>1, <3>1 DEF ThreadInv, RetryFit, At
    <3>7. QED
      BY <1>0, <2>1, <3>5, <3>6, HandlerRests DEF Methods
  <2>4. QED
    BY <1>4, <2>2, <2>3 DEF TurnStarted
<1>5. CASE Resumed
  <2>1. handler.at = "thread/resume" /\ call.reply # <<>> /\ reverseMap' = reverseMap
    BY <1>5 DEF Resumed, Returned, maps
  <2>2. CASE handler.op = "turn_start" /\ Call(handler, "turn/start", 0)
    <3>1. handler.app = a => Fit(a)
      BY <2>1, <2>2 DEF ThreadInv, RetryFit, At
    <3>2. QED
      BY <1>0, <2>1, <2>2, <3>1, CallFits DEF Methods
  <2>3. CASE handler' = Idle /\ stdin' = stdin
    BY <1>0, <2>1, <2>3, IdleOk, HandlerRests DEF Idle
  <2>4. QED
    BY <1>5, <2>2, <2>3 DEF Resumed
<1>6. CASE Answered
  <2>1. /\ handler.at \in {"turn/steer", "turn/interrupt", "thread/unarchive"} /\ handler' = Idle /\ stdin' = stdin
        /\ reverseMap' \in {reverseMap, [reverseMap EXCEPT ![handler.app] = handler.thread]}
    BY <1>6 DEF Answered, pipes
  <2>2. handler.thread \in Threads /\ ~At("thread/resume", a)
    BY <1>0, <2>1, Underway DEF Methods, At
  <2>3. reverseMap'[a] # None \/ reverseMap'[a] = reverseMap[a]
    BY <1>0, <2>1, <2>2
  <2>4. QED
    BY <1>0, <2>1, <2>2, <2>3, IdleOk, HandlerRests DEF Idle
<1>7. CASE Archived
  <2>1. /\ handler.at \in {"thread/archive", "unmapping"} /\ handler' = Idle /\ stdin' = stdin
        /\ archived' = archived
        /\ reverseMap' = [b \in AppThreads |-> IF b = handler.app THEN None ELSE reverseMap[b]]
    BY <1>7 DEF Archived, Returned, pipes, told
  <2>2. handler.app # a /\ ~At("thread/resume", a)
    BY <1>0, <2>1 DEF KindsInv, AskedInv, Kept, At
  <2>3. QED
    BY <1>0, <2>1, <2>2, IdleOk, HandlerRests DEF Idle
<1>8. CASE SendAnswer \/ Remember
  <2>1. /\ handler.at \in {"answering", "answered"} /\ reverseMap' = reverseMap
        /\ handler' = Idle \/ handler' = [handler EXCEPT !.at = "answered"]
        /\ stdin' = stdin \/ stdin' = Append(stdin, <<"answer", handler.ask>>)
    BY <1>8 DEF SendAnswer, Remember, maps, pipes
  <2>2. handler'.at \notin Methods /\ handler'.at # "mapping"
    BY <1>0, <2>1, IdleOk DEF Handlers, Methods, Idle
  <2>3. stdin' = stdin \/ \E i \in Asks \cup {0} : stdin' = Append(stdin, <<"answer", i>>)
    BY <1>0, <2>1 DEF Handlers
  <2>4. ~At("thread/resume", a)
    BY <2>1 DEF At
  <2>5. QED
    BY <1>0, <2>1, <2>2, <2>3, <2>4, HandlerRests
<1>9. QED
  BY <1>1, <1>2, <1>3, <1>4, <1>5, <1>6, <1>7, <1>8 DEF Handler

\* Every message of the server begins while the handler waits for nothing.
LEMMA BackendFits ==
  ASSUME WireInv, TablesOk, OnceInv, KindsInv, NEW a \in AppThreads, ThreadInv(a), Kept(a)', Backend
  PROVE  ThreadInv(a)'
<1>0. /\ UNCHANGED <<stdout, loaded, home, items, running>> /\ handler = Idle /\ Idle \in Handlers
      /\ reverseMap \in [AppThreads -> Threads \cup {None}] /\ bound \in [Threads -> AppThreads \cup {0}]
      /\ ~At("thread/resume", a) /\ None \notin Threads /\ 0 \in AppTurns \cup {0}
  <2>1. handler = Idle
    BY DEF Backend, Begins, TurnStart, TurnSteer, TurnCancel, ThreadResume, ThreadArchive, ThreadUnarchive, SyncAck,
           Respond
  <2>2. handler.at = "idle"
    BY <2>1 DEF Idle
  <2>3. QED
    BY <2>1, <2>2, HandlerLeaves, CodexConstants DEF WireInv, RpcInv, HandlerOk, TablesOk, At
<1>1. \A x \in Threads, given \in BOOLEAN : (IF given THEN bound[x] ELSE 0) \in AppThreads \cup {0}
  BY <1>0
<1>2. ASSUME NEW h \in Handlers, ~h.retried, MapThread(h), UNCHANGED <<reverseMap, stdin>> PROVE ThreadInv(a)'
  <2>1. handler' = [h EXCEPT !.at = "mapping"]
    BY <1>2 DEF MapThread
  <2>2. handler'.at = "mapping" /\ ~handler'.retried
    BY <1>2, <2>1 DEF Handlers
  <2>3. QED
    BY <1>0, <1>2, <2>2, HandlerRests DEF Methods
<1>3. ASSUME NEW t \in Turns, NEW given \in AppThreads \cup {0}, TurnStart(t, given) PROVE ThreadInv(a)'
  <2>1. PICK h \in Handlers : h = Request("turn_start", ThreadOf[t], t, given) /\ ~h.retried
    BY Begun, CodexConstants DEF OfTurns
  <2>2. CASE Call(h, "thread/start", 0)
    <3>1. reverseMap' = reverseMap
      BY <1>3 DEF TurnStart
    <3>2. QED
      BY <1>0, <2>2, <3>1, CallFits DEF Methods
  <2>3. CASE MapThread(h) /\ UNCHANGED <<reverseMap, stdin>>
    BY <1>2, <2>1, <2>3
  <2>4. QED
    BY <1>3, <2>1, <2>2, <2>3 DEF TurnStart
<1>4. ASSUME NEW t \in Turns, NEW given \in AppThreads \cup {0}, NEW named \in ToldTurns(t) \cup {0},
             TurnSteer(t, given, named)
      PROVE  ThreadInv(a)'
  <2>1. PICK h \in Handlers : h = Request("turn_steer", ThreadOf[t], t, given) /\ ~h.retried
    BY Begun, CodexConstants DEF OfTurns
  <2>2. PICK u \in AppTurns \cup {0} : u = AppTurn(t, named)
    BY Told
  <2>3. PICK g : g = [h EXCEPT !.appTurn = u]
    OBVIOUS
  <2>4. g \in Handlers /\ ~g.retried
    BY <2>1, <2>3, Steered
  <2>5. MapThread(g) /\ UNCHANGED <<reverseMap, stdin>>
    BY <1>4, <2>1, <2>2, <2>3 DEF TurnSteer, pipes
  <2>6. QED
    BY <1>2, <2>4, <2>5
<1>5. ASSUME NEW t \in Turns, NEW given \in AppThreads \cup {0}, NEW named \in ToldTurns(t) \cup {0},
             TurnCancel(t, given, named)
      PROVE  ThreadInv(a)'
  <2>1. PICK h \in Handlers : h = Request("turn_cancel", ThreadOf[t], t, given)
    BY Begun, CodexConstants DEF OfTurns
  <2>2. PICK u \in AppTurns \cup {0} : u = AppTurn(t, named)
    BY Told
  <2>3. Call(h, "turn/interrupt", u) /\ reverseMap' = reverseMap
    BY <1>5, <2>1, <2>2 DEF TurnCancel, maps
  <2>4. QED
    BY <1>0, <2>3, CallFits DEF Methods
<1>6. ASSUME NEW x \in Threads, NEW given \in AppThreads \cup {0}, ThreadResume(x, given) PROVE ThreadInv(a)'
  <2>0. PICK h : h = Request("thread_resume", x, None, given)
    OBVIOUS
  <2>1. h \in Handlers /\ ~h.retried
    BY <2>0, Begun
  <2>2. MapThread(h) /\ UNCHANGED <<reverseMap, stdin>>
    BY <1>6, <2>0 DEF ThreadResume, pipes
  <2>3. QED
    BY <1>2, <2>1, <2>2
<1>7. ASSUME NEW x \in Threads, NEW given \in AppThreads \cup {0}, ThreadArchive(x, given) PROVE ThreadInv(a)'
  <2>1. PICK h \in Handlers : h = Request("archive", x, None, given) /\ h.op = "archive"
    BY <1>7, Begun
  <2>2. reverseMap' = reverseMap
    BY <1>7 DEF ThreadArchive, maps
  <2>3. CASE Call(h, "thread/archive", 0)
    BY <1>0, <2>2, <2>3, CallFits DEF Methods
  <2>4. CASE handler' = Failed(h) /\ stdin' = stdin
    <3>1. handler' = [h EXCEPT !.at = "unmapping"]
      BY <2>1, <2>4 DEF Failed
    <3>2. handler'.at = "unmapping"
      BY <3>1 DEF Handlers
    <3>3. QED
      BY <1>0, <2>2, <2>4, <3>2, HandlerRests DEF Methods
  <2>5. QED
    BY <1>7, <2>1, <2>3, <2>4 DEF ThreadArchive
<1>8. ASSUME NEW x \in Threads, NEW given \in AppThreads \cup {0}, ThreadUnarchive(x, given) PROVE ThreadInv(a)'
  <2>1. PICK h \in Handlers : h = Request("unarchive", x, None, given)
    BY <1>8, Begun
  <2>2. Call(h, "thread/unarchive", 0) /\ reverseMap' = reverseMap
    BY <1>8, <2>1 DEF ThreadUnarchive, maps
  <2>3. QED
    BY <1>0, <2>2, CallFits DEF Methods
<1>9. ASSUME NEW x \in Threads, SyncAck(x) PROVE ThreadInv(a)'
  <2>1. handler' = Idle /\ stdin' = stdin /\ reverseMap' = [reverseMap EXCEPT ![bound[x]] = x]
    BY <1>9 DEF SyncAck, rpc, pipes
  <2>2. reverseMap'[a] # None \/ reverseMap'[a] = reverseMap[a]
    BY <1>0, <2>1
  <2>3. QED
    BY <1>0, <2>1, <2>2, IdleOk, HandlerRests DEF Idle
<1>10. ASSUME NEW i \in Asks, NEW d \in Decisions, Respond(i, d) PROVE ThreadInv(a)'
  <2>1. handler'.at = "answering" /\ stdin' = stdin /\ reverseMap' = reverseMap
    BY <1>10 DEF Respond, Idle, maps, pipes
  <2>2. QED
    BY <1>0, <2>1, HandlerRests DEF Methods
<1>11. QED
  <2>1. ASSUME NEW x \in Threads, NEW given \in BOOLEAN,
               LET b == IF given THEN bound[x] ELSE 0
               IN ThreadResume(x, b) \/ ThreadArchive(x, b) \/ ThreadUnarchive(x, b)
        PROVE  ThreadInv(a)'
    BY <1>1, <1>6, <1>7, <1>8, <2>1
  <2>2. ASSUME NEW t \in Turns, NEW given \in BOOLEAN, TurnStart(t, IF given THEN bound[ThreadOf[t]] ELSE 0)
        PROVE  ThreadInv(a)'
    BY <1>1, <1>3, <2>2, CodexConstants
  <2>3. ASSUME NEW t \in Turns, NEW given \in BOOLEAN, NEW named \in ToldTurns(t) \cup {0},
               LET b == IF given THEN bound[ThreadOf[t]] ELSE 0
               IN TurnSteer(t, b, named) \/ TurnCancel(t, b, named)
        PROVE  ThreadInv(a)'
    BY <1>1, <1>4, <1>5, <2>3, CodexConstants
  <2>4. QED
    BY <1>9, <1>10, <2>1, <2>2, <2>3 DEF Backend

\* Steps of others.
LEMMA Still ==
  ASSUME NEW a, ThreadInv(a), UNCHANGED <<reverseMap, stdin, stdout, loaded, home, items, running, handler, call>>
  PROVE  ThreadInv(a)'
<1>1. Reports(a)' = Reports(a) /\ Closings(a)' = Closings(a) /\ \A k : Wanted(k, a)' = Wanted(k, a)
  BY SameKinds
<1>2. Responses' = Responses /\ NotFounds' = NotFounds /\ RunningIn(a)' = RunningIn(a)
  BY DEF Responses, NotFounds, RunningIn
<1>3. (Fit(a)' <=> Fit(a)) /\ (Gone(a)' <=> Gone(a)) /\ \A k : At(k, a)' <=> At(k, a)
  BY <1>1 DEF Fit, Gone, At, Lacks
<1>4. ReportsHeard(a)'
  BY <1>1, <1>2 DEF ThreadInv, ReportsHeard, Lacks, Precedes
<1>5. StartsFit(a)'
  BY <1>1, <1>3 DEF ThreadInv, StartsFit, Lacks, Precedes
<1>6. ResumesAwaited(a)'
  BY <1>1, <1>2, <1>3 DEF ThreadInv, ResumesAwaited, Lacks, Precedes
<1>7. RetryFit(a)'
  BY <1>1, <1>2, <1>3 DEF ThreadInv, RetryFit, Lacks, Precedes
<1>8. QED
  BY <1>4, <1>5, <1>6, <1>7 DEF ThreadInv

\* What the reader may do: a response goes to the handler, a closing unbinds the thread.
Takes(o) ==
  /\ stdout # <<>> /\ o = Head(stdout) /\ stdout' = Tail(stdout)
  /\ UNCHANGED <<loaded, made, home, items, running, handler, archived, gaveUp, nextId>>
  /\ stdin' = stdin \/ \E i \in Asks \cup {0} : stdin' = Append(stdin, <<"answer", i>>)
  /\ call' = IF o[1] = "response" /\ o[2] = call.id THEN [call EXCEPT !.reply = o[3]] ELSE call
  /\ \A a \in AppThreads : (o[1] = "closed" /\ o[2] = a) \/ reverseMap'[a] = reverseMap[a]

LEMMA AnswerAdded ==
  ASSUME WireInv, NEW P, NEW Q, Precedes(stdin, P, Q), \A m \in P : m[1] # "answer",
         stdin' = stdin \/ \E i \in Asks \cup {0} : stdin' = Append(stdin, <<"answer", i>>)
  PROVE  /\ Precedes(stdin', P, Q) /\ (\A m \in ToSet(stdin') : m \in ToSet(stdin) \/ m[1] = "answer")
         /\ ToSet(stdin) \subseteq ToSet(stdin')
<1>1. stdin \in Seq(Inputs)
  BY Piped
<1>2. ASSUME NEW i \in Asks \cup {0}, stdin' = Append(stdin, <<"answer", i>>)
      PROVE  /\ Precedes(stdin', P, Q) /\ (\A m \in ToSet(stdin') : m \in ToSet(stdin) \/ m[1] = "answer")
             /\ ToSet(stdin) \subseteq ToSet(stdin')
  <2>1. PICK m : m = <<"answer", i>>
    OBVIOUS
  <2>2. m \in Inputs
    BY <2>1 DEF Inputs
  <2>3. m[1] = "answer" /\ m \notin P
    BY <2>1
  <2>4. ToSet(Append(stdin, m)) = ToSet(stdin) \cup {m}
    BY <1>1, <2>2, MembersAppended
  <2>5. Precedes(Append(stdin, m), P, Q)
    BY <1>1, <2>2, <2>3, PrecedesAppended
  <2>6. QED
    BY <1>2, <2>1, <2>3, <2>4, <2>5
<1>3. QED
  BY <1>2

LEMMA TakenRead ==
  ASSUME WireInv, NEW o, Takes(o)
  PROVE  /\ o \in ToSet(stdout) /\ o \in Outputs /\ ToSet(stdout') \subseteq ToSet(stdout)
         /\ (\A P : Lacks(stdout, P) => Lacks(stdout', P))
         /\ (\A P, Q : Precedes(stdout, P, Q) => Precedes(stdout', P, Q) /\ (o \in Q => Lacks(stdout', P)))
         /\ call'.id = call.id /\ Responses' = Responses /\ NotFounds' = NotFounds /\ Requested' = Requested
         /\ call'.reply = call.reply \/ (o \in Responses /\ call'.reply = o[3])
         /\ o \in Responses => call'.reply = o[3]
<1>1. stdout \in Seq(Outputs) /\ stdout # <<>> /\ o = Head(stdout) /\ stdout' = Tail(stdout)
  BY Piped DEF Takes
<1>2. o \in ToSet(stdout) /\ o \in Outputs /\ ToSet(stdout') \subseteq ToSet(stdout)
  BY <1>1, MembersLeft
<1>3. \A P : Lacks(stdout, P) => Lacks(stdout', P)
  BY <1>2 DEF Lacks
<1>4. \A P, Q : Precedes(stdout, P, Q) => Precedes(stdout', P, Q) /\ (o \in Q => Lacks(stdout', P))
  BY <1>1, PrecedesLeft
<1>5. call \in [id : Nat, reply : Replies \cup {<<>>}]
  BY DEF WireInv, RpcInv
<1>6. call' = IF o[1] = "response" /\ o[2] = call.id THEN [call EXCEPT !.reply = o[3]] ELSE call
  BY DEF Takes
<1>7. /\ call'.id = call.id
      /\ call'.reply = call.reply \/ (o \in Responses /\ call'.reply = o[3])
      /\ o \in Responses => call'.reply = o[3]
  BY <1>2, <1>5, <1>6 DEF Responses
<1>8. Responses' = Responses
  BY <1>7 DEF Responses
<1>9. NotFounds' = NotFounds
  BY <1>8 DEF NotFounds
<1>10. Requested' = Requested
  BY <1>7 DEF Requested
<1>11. QED
  BY <1>2, <1>3, <1>4, <1>7, <1>8, <1>9, <1>10

LEMMA TakesFit ==
  ASSUME WireInv, NEW o, Takes(o), NEW a \in AppThreads, ThreadInv(a)
  PROVE  ThreadInv(a)'
<1> DEFINE R == Reports(a)
           C == Closings(a)
           T == Wanted("turn/start", a)
           W == Wanted("thread/resume", a)
<1>0. UNCHANGED <<loaded, home, items, running, handler>> /\ \A k : At(k, a)' <=> At(k, a)
  BY DEF Takes, At
<1>1. R' = R /\ C' = C /\ T' = T /\ W' = W /\ RunningIn(a)' = RunningIn(a)
  BY <1>0, SameKinds DEF RunningIn
<1>2. /\ o \in ToSet(stdout) /\ o \in Outputs /\ ToSet(stdout') \subseteq ToSet(stdout)
      /\ (\A P : Lacks(stdout, P) => Lacks(stdout', P))
      /\ (\A P, Q : Precedes(stdout, P, Q) => Precedes(stdout', P, Q) /\ (o \in Q => Lacks(stdout', P)))
  BY TakenRead
<1>3. /\ call'.id = call.id /\ Responses' = Responses /\ NotFounds' = NotFounds
      /\ call'.reply = call.reply \/ (o \in Responses /\ call'.reply = o[3])
  BY TakenRead
<1>4. reverseMap'[a] = reverseMap[a] \/ (o \in C /\ ~Lacks(stdout, C))
  BY <1>2 DEF Takes, Closings, Lacks
<1>5. Precedes(stdin', T, W) /\ (Lacks(stdin, T) => Lacks(stdin', T)) /\ (Lacks(stdin, W) => Lacks(stdin', W))
      /\ \A m \in ToSet(stdin') : m \in W => m \in ToSet(stdin)
  <2>1. Precedes(stdin, T, W) /\ \A m \in T \cup W : m[1] # "answer"
    BY DEF ThreadInv, StartsFit, Wanted
  <2>2. Precedes(stdin', T, W) /\ (\A m \in ToSet(stdin') : m \in ToSet(stdin) \/ m[1] = "answer")
    BY <2>1, AnswerAdded DEF Takes
  <2>3. QED
    BY <2>1, <2>2 DEF Lacks
<1> HIDE DEF R, C, T, W
<1>6. /\ Precedes(stdout, R, C) /\ (RunningIn(a) # {} \/ ~Lacks(stdout, R) => reverseMap[a] # None)
      /\ (RunningIn(a) # {} => Lacks(stdout, C))
      /\ (~Lacks(stdin, T) => Fit(a))
  BY DEF ThreadInv, ReportsHeard, StartsFit, R, C, T
<1>7. ReportsHeard(a)'
  <2>1. RunningIn(a) # {} \/ ~Lacks(stdout', R) => reverseMap'[a] # None
    BY <1>2, <1>4, <1>6
  <2>2. (RunningIn(a) # {} => Lacks(stdout', C)) /\ Precedes(stdout', R, C)
    BY <1>2, <1>6
  <2>3. QED
    BY <1>1, <2>1, <2>2 DEF ReportsHeard, Lacks, Precedes, R, C
<1>8. Fit(a) => Fit(a)'
  <2>1. SUFFICES ASSUME Fit(a), a \in loaded PROVE reverseMap'[a] # None /\ Lacks(stdout', C)
    BY <1>0, <1>1 DEF Fit, Lacks, C
  <2>2. reverseMap[a] # None /\ Lacks(stdout, C)
    BY <2>1 DEF Fit, C
  <2>3. QED
    BY <1>2, <1>4, <2>2
<1>9. Gone(a) => Gone(a)' /\ (reverseMap[a] # None => reverseMap'[a] # None)
  <2>1. SUFFICES ASSUME Gone(a) PROVE a \notin loaded' /\ Lacks(stdout', C) /\ reverseMap'[a] = reverseMap[a]
    BY <1>1 DEF Gone, Lacks, C
  <2>2. a \notin loaded /\ Lacks(stdout, C)
    BY <2>1 DEF Gone, C
  <2>3. QED
    BY <1>0, <1>2, <1>4, <2>2
<1>10. StartsFit(a)'
  <2>1. ~Lacks(stdin', T') => Fit(a)'
    BY <1>1, <1>5, <1>6, <1>8
  <2>2. Precedes(stdin', T', W')
    BY <1>1, <1>5
  <2>3. QED
    BY <2>1, <2>2 DEF StartsFit, Lacks, Precedes, T, W
<1>11. ResumesAwaited(a)'
  <2>1. \A m \in ToSet(stdin') : m \in W' => m[2] = call'.id
    BY <1>1, <1>3, <1>5 DEF ThreadInv, ResumesAwaited, W
  <2>2. ASSUME a \in loaded, ~Lacks(stdout', C)
        PROVE  At("thread/resume", a) /\ call'.reply = <<>> /\ Precedes(stdout', C, Responses)
    <3>1. ~Lacks(stdout, C)
      BY <1>2, <2>2
    <3>2. At("thread/resume", a) /\ call.reply = <<>> /\ Precedes(stdout, C, Responses)
      BY <2>2, <3>1 DEF ThreadInv, ResumesAwaited, C
    <3>3. o \notin Responses
      BY <1>2, <2>2, <3>2
    <3>4. QED
      BY <1>2, <1>3, <3>2, <3>3
  <2>3. a \in loaded' /\ ~Lacks(stdout', C') =>
          At("thread/resume", a)' /\ call'.reply = <<>> /\ Precedes(stdout', C', Responses')
    BY <1>0, <1>1, <1>3, <2>2
  <2>4. QED
    BY <2>1, <2>3 DEF ResumesAwaited, Lacks, Precedes, C, W
<1>12. RetryFit(a)'
  <2>1. handler.op = "turn_start" /\ At("thread/resume", a) =>
          Fit(a)' /\ (~Lacks(stdin', W') => Gone(a)' /\ reverseMap'[a] # None)
    BY <1>1, <1>5, <1>8, <1>9 DEF ThreadInv, RetryFit, W
  <2>2. handler.retried /\ At("mapping", a) => Gone(a)'
    BY <1>9 DEF ThreadInv, RetryFit
  <2>3. ASSUME At("turn/start", a), ~Lacks(stdout, NotFounds)
        PROVE  a \notin loaded /\ Precedes(stdout, C, NotFounds)
    BY <2>3 DEF ThreadInv, RetryFit, C
  <2>4. ASSUME At("turn/start", a), call'.reply = <<"not found">> PROVE Gone(a)'
    <3>1. CASE call.reply = <<"not found">>
      BY <1>9, <2>4, <3>1 DEF ThreadInv, RetryFit
    <3>2. CASE o \in Responses /\ o[3] = <<"not found">>
      <4>1. o[3][1] = "not found"
        BY <1>2, <3>2, NotFoundReply DEF Replies
      <4>2. o \in NotFounds
        BY <3>2, <4>1 DEF NotFounds
      <4>3. a \notin loaded /\ Precedes(stdout, C, NotFounds)
        BY <1>2, <2>3, <2>4, <4>2 DEF Lacks
      <4>4. Lacks(stdout', C)
        BY <1>2, <4>2, <4>3
      <4>5. QED
        BY <1>0, <1>1, <4>3, <4>4 DEF Gone, Lacks, C
    <3>3. QED
      BY <1>3, <2>4, <3>1, <3>2
  <2>5. ASSUME At("turn/start", a), ~Lacks(stdout', NotFounds)
        PROVE  a \notin loaded /\ Precedes(stdout', C, NotFounds)
    <3>1. ~Lacks(stdout, NotFounds)
      BY <1>2, <2>5
    <3>2. QED
      BY <1>2, <2>3, <2>5, <3>1
  <2>6. At("turn/start", a)' => /\ call'.reply = <<"not found">> => Gone(a)'
                                /\ ~Lacks(stdout', NotFounds') => a \notin loaded' /\ Precedes(stdout', C', NotFounds')
    BY <1>0, <1>1, <1>3, <2>4, <2>5
  <2>7. QED
    BY <1>0, <2>1, <2>2, <2>6 DEF RetryFit, Lacks, Precedes, C, W
<1>13. QED
  BY <1>7, <1>10, <1>11, <1>12 DEF ThreadInv

\* What the app-server may do.
LEMMA ServedFit ==
  ASSUME WireInv, OnceInv, NEW a \in AppThreads, ThreadInv(a), NEW r \in Seq(Outputs), stdout' = stdout \o r,
         UNCHANGED <<reverseMap, handler, call>>,
         stdin' = stdin \/ (stdin # <<>> /\ stdin' = Tail(stdin)),
         \A o \in ToSet(stdout) : o \in Reports(a)' => o \in Reports(a),
         \A o \in ToSet(r) : o \in Reports(a)' => RunningIn(a) # {},
         \/ RunningIn(a)' \subseteq RunningIn(a)
         \/ reverseMap[a] # None /\ Lacks(stdout, Closings(a)),
         \/ Lacks(r, Closings(a))
         \/ a \notin loaded' /\ a \in loaded /\ RunningIn(a) = {} /\ RunningIn(a)' = {},
         a \in loaded' /\ a \notin loaded =>
           stdin # <<>> /\ stdin' = Tail(stdin) /\ Head(stdin) \in Wanted("thread/resume", a),
         \A o \in ToSet(r) : o \in Responses =>
           /\ stdin # <<>> /\ Head(stdin) \in Requested
           /\ o \in NotFounds /\ At("turn/start", a) => a \notin loaded /\ a \notin loaded'
  PROVE  ThreadInv(a)'
<1> DEFINE R == Reports(a)
           C == Closings(a)
           T == Wanted("turn/start", a)
           W == Wanted("thread/resume", a)
           S == Responses
           N == NotFounds
<1>1. /\ C' = C /\ T' = T /\ W' = W /\ S' = S /\ N' = N /\ \A k : At(k, a)' <=> At(k, a)
  BY DEF Closings, Wanted, Responses, NotFounds, At
<1>2. /\ stdin \in Seq(Inputs) /\ stdout \in Seq(Outputs) /\ ToSet(stdout') = ToSet(stdout) \cup ToSet(r)
      /\ stdout' \in Seq(Outputs)
  BY Piped, MembersJoined
<1>3. \A P, Q : Precedes(stdin, P, Q) => Precedes(stdin', P, Q) /\ (stdin' # stdin /\ Head(stdin) \in Q => Lacks(stdin', P))
  BY <1>2, PrecedesLeft
<1>4. ToSet(stdin') \subseteq ToSet(stdin) /\ (stdin # <<>> => Head(stdin) \in ToSet(stdin))
  BY <1>2, MembersLeft
<1>5. \A P, Q : Precedes(stdout, P, Q) /\ Lacks(r, P) => Precedes(stdout', P, Q)
  BY <1>2, PrecedesJoined
<1>6. \A P, Q : Lacks(stdout, P) \/ Lacks(stdout, Q) => Precedes(stdout, P, Q)
  BY <1>2, PrecedesNone
<1>7. \A P : Lacks(stdout', P) <=> Lacks(stdout, P) /\ Lacks(r, P)
  BY <1>2 DEF Lacks
<1>8. stdin # <<>> => stdin' = stdin \/ stdin' # stdin
  OBVIOUS
\* A thread that is loaded now was resumed by the request that waits.
<1>9. ASSUME a \in loaded', a \notin loaded
      PROVE  /\ Head(stdin) \in W /\ Head(stdin) \in Requested /\ stdin' = Tail(stdin) /\ stdin # <<>>
             /\ At("thread/resume", a) /\ call.reply = <<>> /\ Lacks(stdout, S) /\ ~Lacks(stdin, W)
  <2>1. stdin # <<>> /\ stdin' = Tail(stdin) /\ Head(stdin) \in W /\ Head(stdin) \in ToSet(stdin)
    BY <1>4, <1>9
  <2>2. Head(stdin)[2] = call.id /\ Head(stdin) \in Inputs /\ Head(stdin)[1] = "thread/resume" /\ Head(stdin)[3] = a
    BY <2>1 DEF ThreadInv, ResumesAwaited, Wanted
  <2>3. Head(stdin) \in Requested
    BY <2>2 DEF Requested
  <2>4. handler.app = a /\ call.reply = <<>> /\ Lacks(stdout, S)
    BY <2>1, <2>2, <2>3 DEF OnceInv, Lacks
  <2>5. handler.at = "thread/resume"
    BY <2>1, <2>2, Piped
  <2>6. QED
    BY <2>1, <2>3, <2>4, <2>5 DEF At, Lacks
<1>10. stdin # <<>> => Tail(stdin) # stdin
  BY <1>2
<1> HIDE DEF R, C, T, W, S, N
<1>11. /\ Precedes(stdout, R, C) /\ (RunningIn(a) # {} \/ ~Lacks(stdout, R) => reverseMap[a] # None)
       /\ (RunningIn(a) # {} => Lacks(stdout, C))
       /\ (~Lacks(stdin, T) => Fit(a)) /\ Precedes(stdin, T, W)
  BY DEF ThreadInv, ReportsHeard, StartsFit, R, C, T, W
<1>12. Lacks(r, C) \/ (a \notin loaded' /\ a \in loaded /\ RunningIn(a) = {} /\ RunningIn(a)' = {})
  BY DEF C
<1>13. RunningIn(a)' # {} => reverseMap[a] # None /\ Lacks(stdout, C)
  BY <1>11 DEF C
<1>14. ReportsHeard(a)'
  <2>1. PICK Q : Q = R'
    OBVIOUS
  <2>2. \A o \in ToSet(stdout) : o \in Q => o \in R
    BY <2>1 DEF R
  <2>3. \A o \in ToSet(r) : o \in Q => RunningIn(a) # {}
    BY <2>1 DEF R
  <2>4. RunningIn(a)' # {} \/ ~Lacks(stdout', Q) => reverseMap'[a] # None
    BY <1>7, <1>11, <1>13, <2>2, <2>3 DEF Lacks
  <2>5. RunningIn(a)' # {} => Lacks(stdout', C)
    BY <1>7, <1>12, <1>13
  <2>6. Precedes(stdout, Q, C)
    BY <1>2, <1>11, <2>2, PrecedesLess
  <2>7. Precedes(stdout', Q, C)
    <3>1. CASE Lacks(r, Q)
      BY <1>5, <2>6, <3>1
    <3>2. CASE ~Lacks(r, Q)
      <4>1. RunningIn(a) # {}
        BY <2>3, <3>2 DEF Lacks
      <4>2. Lacks(stdout', C)
        BY <1>7, <1>11, <1>12, <4>1
      <4>3. QED
        BY <1>2, <4>2, PrecedesNone
    <3>3. QED
      BY <3>1, <3>2
  <2>8. QED
    BY <1>1, <2>1, <2>4, <2>5, <2>7 DEF ReportsHeard, Lacks, Precedes, R, C
<1>15. ASSUME Fit(a), a \in loaded \/ a \notin loaded' PROVE Fit(a)'
  <2>1. SUFFICES ASSUME a \in loaded' PROVE reverseMap'[a] # None /\ Lacks(stdout', C)
    BY <1>1 DEF Fit, Lacks, C
  <2>2. reverseMap[a] # None /\ Lacks(stdout, C)
    BY <1>15, <2>1 DEF Fit, C
  <2>3. QED
    BY <1>7, <1>12, <2>1, <2>2
<1>16. ASSUME Gone(a), ~At("thread/resume", a) \/ Lacks(stdin, W) \/ ~Lacks(stdin', W) PROVE Gone(a)'
  <2>1. a \notin loaded /\ Lacks(stdout, C)
    BY <1>16 DEF Gone, C
  <2>2. a \notin loaded'
    <3>1. SUFFICES ASSUME a \in loaded' PROVE FALSE
      OBVIOUS
    <3>2. /\ Head(stdin) \in Requested /\ stdin' # stdin /\ At("thread/resume", a) /\ ~Lacks(stdin, W)
      BY <1>9, <1>10, <2>1, <3>1
    <3>3. Lacks(stdin', Requested)
      BY <1>3, <3>2 DEF OnceInv
    <3>4. PICK m \in ToSet(stdin') : m \in W
      BY <1>16, <3>2 DEF Lacks
    <3>5. m \in Requested
      BY <1>4, <3>4 DEF ThreadInv, ResumesAwaited, W, Wanted, Requested
    <3>6. QED
      BY <3>3, <3>4, <3>5 DEF Lacks
  <2>3. Lacks(stdout', C)
    BY <1>7, <1>12, <2>1
  <2>4. QED
    BY <1>1, <2>2, <2>3 DEF Gone, Lacks, C
<1>17. StartsFit(a)'
  <2>1. ASSUME ~Lacks(stdin', T) PROVE Fit(a)'
    <3>1. ~Lacks(stdin, T)
      BY <1>4, <2>1 DEF Lacks
    <3>2. a \in loaded \/ a \notin loaded'
      BY <1>3, <1>9, <1>10, <1>11, <2>1
    <3>3. QED
      BY <1>11, <1>15, <3>1, <3>2
  <2>2. Precedes(stdin', T, W)
    BY <1>3, <1>11
  <2>3. QED
    BY <1>1, <2>1, <2>2 DEF StartsFit, Lacks, Precedes, T, W
<1>18. ResumesAwaited(a)'
  <2>1. \A m \in ToSet(stdin') : m \in W => m[2] = call.id
    BY <1>4 DEF ThreadInv, ResumesAwaited, W
  <2>2. ASSUME a \in loaded', ~Lacks(stdout', C)
        PROVE  At("thread/resume", a) /\ call.reply = <<>> /\ Precedes(stdout', C, S)
    <3>1. Lacks(r, C) /\ ~Lacks(stdout, C)
      BY <1>7, <1>12, <2>2
    <3>2. At("thread/resume", a) /\ call.reply = <<>> /\ Precedes(stdout, C, S)
      <4>1. CASE a \in loaded
        BY <3>1, <4>1 DEF ThreadInv, ResumesAwaited, C, S
      <4>2. CASE a \notin loaded
        BY <1>6, <1>9, <2>2, <4>2
      <4>3. QED
        BY <4>1, <4>2
    <3>3. QED
      BY <1>5, <3>1, <3>2
  <2>3. QED
    BY <1>1, <2>1, <2>2 DEF ResumesAwaited, Lacks, Precedes, C, W, S
<1>19. RetryFit(a)'
  <2>1. ASSUME handler.op = "turn_start", At("thread/resume", a)
        PROVE  Fit(a)' /\ (~Lacks(stdin', W) => Gone(a)' /\ reverseMap'[a] # None)
    <3>1. Fit(a) /\ (~Lacks(stdin, W) => Gone(a) /\ reverseMap[a] # None)
      BY <2>1 DEF ThreadInv, RetryFit, W
    <3>2. ~Lacks(stdin', W) => ~Lacks(stdin, W)
      BY <1>4 DEF Lacks
    <3>3. ~Lacks(stdin', W) => Gone(a)' /\ reverseMap'[a] # None
      BY <1>16, <3>1, <3>2
    <3>4. CASE a \in loaded \/ a \notin loaded'
      BY <1>15, <3>1, <3>3, <3>4
    <3>5. CASE a \notin loaded /\ a \in loaded'
      <4>1. Lacks(stdout, C) /\ reverseMap[a] # None
        BY <1>9, <3>1, <3>5 DEF Gone, C
      <4>2. Lacks(stdout', C)
        BY <1>7, <1>12, <3>5, <4>1
      <4>3. Fit(a)'
        BY <1>1, <4>1, <4>2 DEF Fit, Lacks, C
      <4>4. QED
        BY <3>3, <4>3
    <3>6. QED
      BY <3>4, <3>5
  <2>2. ASSUME handler.retried, At("mapping", a) PROVE Gone(a)'
    <3>1. ~At("thread/resume", a)
      BY <2>2 DEF At
    <3>2. QED
      BY <1>16, <2>2, <3>1 DEF ThreadInv, RetryFit
  <2>3. ASSUME At("turn/start", a) 
        PROVE  /\ call.reply = <<"not found">> => Gone(a)'
               /\ ~Lacks(stdout', N) => a \notin loaded' /\ Precedes(stdout', C, N)
    <3>1. ~At("thread/resume", a)
      BY <2>3 DEF At
    <3>2. /\ call.reply = <<"not found">> => Gone(a)
          /\ ~Lacks(stdout, N) => a \notin loaded /\ Precedes(stdout, C, N)
      BY <2>3 DEF ThreadInv, RetryFit, C, N
    <3>3. a \notin loaded => a \notin loaded'
      BY <1>9, <3>1
    <3>4. CASE ~Lacks(stdout, N)
      <4>1. Lacks(r, C)
        BY <1>12, <3>2, <3>4
      <4>2. QED
        BY <1>5, <1>16, <3>1, <3>2, <3>3, <3>4, <4>1
    <3>5. CASE Lacks(stdout, N) /\ ~Lacks(stdout', N)
      <4>1. PICK o \in ToSet(r) : o \in N
        BY <1>7, <3>5 DEF Lacks
      <4>2. o \in NotFounds /\ o \in Responses
        BY <4>1 DEF N, NotFounds
      <4>3. a \notin loaded /\ a \notin loaded'
        BY <2>3, <4>2
      <4>4. Lacks(r, C)
        BY <1>12, <4>3
      <4>5. QED
        BY <1>5, <1>6, <1>16, <3>1, <3>2, <3>5, <4>3, <4>4
    <3>6. CASE Lacks(stdout', N)
      BY <1>16, <3>1, <3>2, <3>6
    <3>7. QED
      BY <3>4, <3>5, <3>6
  <2>4. QED
    BY <1>1, <2>1, <2>2, <2>3 DEF RetryFit, Lacks, Precedes, C, W, N
<1>20. QED
  BY <1>14, <1>17, <1>18, <1>19 DEF ThreadInv

\* Notifications that leave the threads alone.
LEMMA QuietFits ==
  ASSUME WireInv, OnceInv, NEW a \in AppThreads, ThreadInv(a), NEW r \in Seq(Outputs), stdout' = stdout \o r,
         UNCHANGED <<reverseMap, handler, call, home, items, loaded>>, running' \subseteq running,
         stdin' = stdin \/ (stdin # <<>> /\ stdin' = Tail(stdin)),
         \A o \in ToSet(r) : EndsTurn(o) \/ o[1] = "ask"
  PROVE  ThreadInv(a)'
<1>1. Reports(a)' = Reports(a)
  BY SameKinds
<1>2. \A o \in ToSet(r) : o \notin Closings(a) /\ o \notin Responses
  BY DEF Closings, Responses, EndsTurn
<1>3. \A o \in ToSet(r) : o \in Reports(a) => RunningIn(a) # {}
  BY DEF Reports, ReportsOf, TurnIn, EndsTurn, RunningIn
<1>4. RunningIn(a)' \subseteq RunningIn(a)
  BY DEF RunningIn
<1>5. QED
  BY <1>1, <1>2, <1>3, <1>4, ServedFit DEF Lacks

LEMMA AsJoined ==
  ASSUME NEW o \in Outputs, stdout \in Seq(Outputs)
  PROVE  \E r \in Seq(Outputs) : Append(stdout, o) = stdout \o r /\ ToSet(r) = {o}
<1>1. PICK r \in Seq(Outputs) : r = <<o>> /\ ToSet(r) = {o}
  BY Singles
<1>2. Append(stdout, o) = stdout \o r
  BY <1>1
<1>3. QED
  BY <1>1, <1>2

\* A fragment or the end of a message is of a turn that runs.
LEMMA SpeechFits ==
  ASSUME WireInv, StartedInv, OnceInv, NEW a \in AppThreads, ThreadInv(a), NEW i \in Items, NEW u \in running,
         NEW o \in Outputs, o[1] \in {"delta", "message"}, o[2] = i, stdout' = Append(stdout, o),
         items[i].turn \in {0, u}, items'[i].turn = u, \A j \in Items : j # i => items'[j] = items[j],
         UNCHANGED <<reverseMap, handler, call, home, loaded, running, stdin>>
  PROVE  ThreadInv(a)'
<1>1. PICK r \in Seq(Outputs) : Append(stdout, o) = stdout \o r /\ ToSet(r) = {o}
  BY AsJoined, Piped
<1>2. ASSUME NEW p \in ToSet(stdout), p \in Reports(a)' PROVE p \in Reports(a)
  <2>1. p \in Outputs
    BY Piped
  <2>2. CASE p[1] = "turn"
    BY <1>2, <2>1, <2>2 DEF Reports, ReportsOf, TurnIn
  <2>3. CASE p[1] \in {"delta", "message"}
    <3>1. p[2] \in Items /\ Started(items[p[2]].turn)
      BY <2>1, <2>3 DEF Outputs, StartedInv
    <3>2. items'[p[2]].turn = items[p[2]].turn
      BY <3>1 DEF Started, AppTurns
    <3>3. TurnIn(a, items[p[2]].turn)
      <4>1. PICK t : t = items'[p[2]].turn
        OBVIOUS
      <4>2. TurnIn(a, t)
        BY <1>2, <2>3, <4>1 DEF Reports, ReportsOf, TurnIn
      <4>3. QED
        BY <3>2, <4>1, <4>2
    <3>4. QED
      BY <2>1, <2>3, <3>3 DEF Reports, ReportsOf
  <2>4. QED
    BY <1>2, <2>2, <2>3 DEF Reports, ReportsOf
<1>3. o \in Reports(a)' => RunningIn(a) # {}
  BY DEF Reports, ReportsOf, TurnIn, RunningIn
<1>4. o \notin Closings(a) /\ o \notin Responses /\ RunningIn(a)' \subseteq RunningIn(a)
  BY DEF Closings, Responses, RunningIn
<1>5. QED
  BY <1>1, <1>2, <1>3, <1>4, ServedFit DEF Lacks

LEMMA NotifiesFits ==
  ASSUME WireInv, StartedInv, OnceInv, NEW a \in AppThreads, ThreadInv(a),
         (AppServer /\ ~Serve) \/ Close \/ UNCHANGED vars
  PROVE  ThreadInv(a)'
<1>0. /\ OwnersInv /\ RpcInv /\ PipesInv /\ stdin \in Seq(Inputs) /\ stdout \in Seq(Outputs)
      /\ openAsks \subseteq Asks /\ running \subseteq AppTurns
  BY Piped DEF WireInv, OwnersInv
<1>1. CASE ReadAnswer
  <2>1. /\ UNCHANGED <<reverseMap, handler, call, home, items, loaded, running>>
        /\ stdin # <<>> /\ stdin' = Tail(stdin)
        /\ stdout' = stdout \/ (Head(stdin)[2] \in openAsks /\ stdout' = Append(stdout, <<"resolved", Head(stdin)[2]>>))
    BY <1>1 DEF ReadAnswer, maps, rpc, speech
  <2>2. CASE stdout' = stdout
    <3>1. PICK r \in Seq(Outputs) : r = <<>> /\ stdout \o r = stdout /\ \A o : o \notin ToSet(r)
      <4>1. <<>> \in Seq(Outputs) /\ stdout \o <<>> = stdout
        BY <1>0
      <4>2. \A o : o \notin ToSet(<<>>)
        BY DEF ToSet
      <4>3. QED
        BY <4>1, <4>2
    <3>2. QED
      BY <2>1, <2>2, <3>1, QuietFits
  <2>3. CASE Head(stdin)[2] \in openAsks /\ stdout' = Append(stdout, <<"resolved", Head(stdin)[2]>>)
    <3>1. PICK i \in Asks : i = Head(stdin)[2]
      BY <1>0, <2>3
    <3>2. PICK o \in Outputs : o = <<"resolved", i>> /\ o[1] = "resolved"
      BY OutputKinds
    <3>3. PICK r \in Seq(Outputs) : Append(stdout, o) = stdout \o r /\ ToSet(r) = {o}
      BY <1>0, AsJoined
    <3>4. \A p \in ToSet(r) : EndsTurn(p)
      BY <3>2, <3>3 DEF EndsTurn
    <3>5. stdout' = stdout \o r
      BY <2>3, <3>1, <3>2, <3>3
    <3>6. QED
      BY <2>1, <3>4, <3>5, QuietFits
  <2>4. QED
    BY <2>1, <2>2, <2>3
<1>2. ASSUME NEW u \in AppTurns, EndTurn(u) PROVE ThreadInv(a)'
  <2>1. /\ stdout' = stdout \o Ends(u) /\ running' \subseteq running /\ u \in running /\ stdin' = stdin
        /\ UNCHANGED <<reverseMap, handler, call, home, items, loaded>>
    BY <1>2 DEF EndTurn, maps, rpc, speech
  <2>2. Ends(u) \in Seq(Outputs) /\ \A o \in ToSet(Ends(u)) : EndsTurn(o)
    BY <1>0, <2>1, EndsOutput DEF EndsTurn
  <2>3. QED
    BY <2>1, <2>2, QuietFits
<1>3. ASSUME NEW u \in AppTurns, NEW kind, NEW c, NEW offer, Ask(u, kind, c, offer) PROVE ThreadInv(a)'
  <2>1. PICK i \in Asks : stdout' = Append(stdout, <<"ask", i>>)
    BY <1>3 DEF Ask
  <2>2. PICK o \in Outputs : o = <<"ask", i>> /\ o[1] = "ask"
    BY OutputKinds
  <2>3. UNCHANGED <<reverseMap, handler, call, home, items, loaded, running, stdin>>
    BY <1>3 DEF Ask, maps, rpc, speech
  <2>4. PICK r \in Seq(Outputs) : Append(stdout, o) = stdout \o r /\ ToSet(r) = {o}
    BY <1>0, AsJoined
  <2>5. \A p \in ToSet(r) : p[1] = "ask"
    BY <2>2, <2>4
  <2>6. stdout' = stdout \o r
    BY <2>1, <2>2, <2>4
  <2>7. QED
    BY <2>3, <2>5, <2>6, QuietFits
<1>4. ASSUME NEW u \in AppTurns, Speak(u) PROVE ThreadInv(a)'
  <2>1. PICK i \in Items, n \in 1..MaxFragments :
          /\ stdout' = Append(stdout, <<"delta", i, n>>) /\ items[i].turn \in {0, u}
          /\ items' = [items EXCEPT ![i].turn = u, ![i].text = Append(@, n)]
    BY <1>4 DEF Speak
  <2>2. PICK o \in Outputs : o = <<"delta", i, n>> /\ o[1] = "delta" /\ o[2] = i
    BY OutputKinds
  <2>3. UNCHANGED <<reverseMap, handler, call, home, loaded, running, stdin>> /\ u \in running
    BY <1>4 DEF Speak, maps, rpc, process
  <2>4. items \in [Items -> [turn : AppTurns \cup {0}, text : Seq(Nat), done : BOOLEAN]]
    BY DEF StartedInv
  <2>5. items'[i].turn = u /\ \A j \in Items : j # i => items'[j] = items[j]
    BY <2>1, <2>4
  <2>6. stdout' = Append(stdout, o)
    BY <2>1, <2>2
  <2>7. QED
    BY <2>1, <2>2, <2>3, <2>5, <2>6, SpeechFits
<1>5. ASSUME NEW u \in AppTurns, EndMessage(u) PROVE ThreadInv(a)'
  <2>1. PICK i \in Items, given \in BOOLEAN :
          /\ stdout' = Append(stdout, <<"message", i, given>>) /\ items[i].turn \in {0, u}
          /\ items' = [items EXCEPT ![i].turn = u, ![i].done = TRUE]
    BY <1>5 DEF EndMessage
  <2>2. PICK o \in Outputs : o = <<"message", i, given>> /\ o[1] = "message" /\ o[2] = i
    BY OutputKinds
  <2>3. UNCHANGED <<reverseMap, handler, call, home, loaded, running, stdin>> /\ u \in running
    BY <1>5 DEF EndMessage, maps, rpc, process
  <2>4. items \in [Items -> [turn : AppTurns \cup {0}, text : Seq(Nat), done : BOOLEAN]]
    BY DEF StartedInv
  <2>5. items'[i].turn = u /\ \A j \in Items : j # i => items'[j] = items[j]
    BY <2>1, <2>4
  <2>6. stdout' = Append(stdout, o)
    BY <2>1, <2>2
  <2>7. QED
    BY <2>1, <2>2, <2>3, <2>5, <2>6, SpeechFits
<1>6. ASSUME NEW b \in AppThreads, CloseThread(b) PROVE ThreadInv(a)'
  <2>1. PICK o \in Outputs : o = <<"closed", b>> /\ o[1] = "closed" /\ o[2] = b
    BY OutputKinds
  <2>2. /\ stdout' = Append(stdout, <<"closed", b>>) /\ loaded' = loaded \ {b} /\ b \in loaded /\ RunningIn(b) = {}
        /\ UNCHANGED <<reverseMap, handler, call, home, items, running, stdin>>
    BY <1>6 DEF CloseThread, maps, rpc, speech
  <2>3. PICK r \in Seq(Outputs) : Append(stdout, o) = stdout \o r /\ ToSet(r) = {o}
    BY <1>0, AsJoined
  <2>4. stdout' = stdout \o r
    BY <2>1, <2>2, <2>3
  <2>5. RunningIn(a)' = RunningIn(a) /\ Reports(a)' = Reports(a)
    BY <2>2, SameKinds DEF RunningIn
  <2>6. o \notin Reports(a) /\ o \notin Responses /\ (b # a => o \notin Closings(a))
    BY <2>1 DEF Reports, ReportsOf, Responses, Closings
  <2>7. /\ Lacks(r, Closings(a)) \/ (a \notin loaded' /\ a \in loaded /\ RunningIn(a) = {} /\ RunningIn(a)' = {})
        /\ a \in loaded' => a \in loaded
    BY <2>2, <2>3, <2>5, <2>6 DEF Lacks
  <2>8. QED
    BY <2>2, <2>3, <2>4, <2>5, <2>6, <2>7, ServedFit
<1>7. CASE Exit \/ Close \/ UNCHANGED vars
  <2>1. UNCHANGED <<reverseMap, stdin, stdout, loaded, home, items, running, handler, call>>
    BY <1>7 DEF Exit, Close, vars, maps, rpc, pipes, server, process, speech
  <2>2. QED
    BY <2>1, Still
<1>8. QED
  BY <1>1, <1>2, <1>3, <1>4, <1>5, <1>6, <1>7 DEF AppServer

LEMMA Regrouped ==
  ASSUME NEW S, NEW p \in Seq(S), NEW q \in Seq(S), NEW r \in Seq(S)
  PROVE  (p \o q) \o r = p \o (q \o r)
<1> DEFINE c == (p \o q) \o r
           d == p \o (q \o r)
           n == Len(p) + Len(q) + Len(r)
<1>1. /\ p \o q \in Seq(S) /\ q \o r \in Seq(S) /\ c \in Seq(S) /\ d \in Seq(S)
      /\ Len(p) \in Nat /\ Len(q) \in Nat /\ Len(r) \in Nat
  OBVIOUS
<1>2. Len(c) = n /\ Len(d) = n
  OBVIOUS
<1>3. ASSUME NEW k \in 1..n PROVE c[k] = d[k]
  <2>1. CASE k <= Len(p)
    BY <1>1, <1>3, <2>1
  <2>2. CASE k > Len(p) /\ k <= Len(p) + Len(q)
    BY <1>1, <1>3, <2>2
  <2>3. CASE k > Len(p) + Len(q)
    BY <1>1, <1>3, <2>3
  <2>4. QED
    BY <1>1, <1>3, <2>1, <2>2, <2>3
<1> HIDE DEF c, d, n
<1>4. \A k \in 1..Len(c) : c[k] = d[k]
  BY <1>2, <1>3
<1>5. c = d
  BY <1>1, <1>2, <1>4
<1>6. QED
  BY <1>5 DEF c, d

\* What a request may lead to, beside its response and the end of a turn.
Leads(m, found) ==
  \/ /\ found \/ (m[1] = "turn/start" /\ m[3] \notin loaded)
     /\ UNCHANGED <<loaded, made, home, running>>
  \/ found /\ loaded' \subseteq loaded /\ running' \subseteq running /\ UNCHANGED <<made, home>>
  \/ found /\ m[1] = "thread/resume" /\ loaded' = loaded \cup {m[3]} /\ UNCHANGED <<made, home, running>>
  \/ /\ found /\ UNCHANGED <<home, running>>
     /\ \E b \in AppThreads \ made : loaded' = loaded \cup {b} /\ made' = made \cup {b}
  \/ /\ found /\ m[1] = "turn/start" /\ m[3] \in loaded /\ UNCHANGED <<loaded, made>>
     /\ \E v \in AppTurns : home[v] = 0 /\ home' = [home EXCEPT ![v] = m[3]] /\ running' = running \cup {v}

LEMMA ServeDoes ==
  ASSUME WireInv, Serve
  PROVE  \E m \in Requests, o \in Outputs, r \in Seq(Outputs) :
           /\ m = Head(stdin) /\ m \in ToSet(stdin) /\ stdin # <<>> /\ stdin' = Tail(stdin)
           /\ o[1] = "response" /\ o[2] = m[2]
           /\ stdout' = stdout \o r /\ \A p \in ToSet(r) : p = o \/ EndsTurn(p)
           /\ Leads(m, o[3][1] # "not found")
           /\ UNCHANGED <<reverseMap, handler, call, items, archived, gaveUp, dropped, nextId>>
<1>0. RpcInv /\ PipesInv /\ OwnersInv /\ running \subseteq AppTurns /\ stdout \in Seq(Outputs)
  BY Piped DEF WireInv, OwnersInv
<1>1. PICK m \in Requests : /\ m = Head(stdin) /\ m \in ToSet(stdin) /\ stdin # <<>> /\ stdin' = Tail(stdin)
                            /\ m[2] \in Nat
  BY <1>0, Served DEF Requests
<1>2. UNCHANGED <<reverseMap, handler, call, items, archived, gaveUp, dropped, nextId>>
  BY DEF Serve, maps, rpc, told, speech
<1>3. PICK e : e = IF RunningIn(m[3]) = {} THEN <<>> ELSE Ends(CHOOSE v \in RunningIn(m[3]) : TRUE)
  OBVIOUS
<1>4. /\ <<>> \in Seq(Outputs) /\ (\A p : p \notin ToSet(<<>>))
      /\ \A u \in running : Ends(u) \in Seq(Outputs) /\ \A p \in ToSet(Ends(u)) : EndsTurn(p)
  <2>1. ASSUME NEW u \in running PROVE Ends(u) \in Seq(Outputs) /\ \A p \in ToSet(Ends(u)) : EndsTurn(p)
    BY <1>0, <2>1, EndsOutput DEF EndsTurn
  <2>2. QED
    BY <2>1 DEF ToSet
<1>5. e \in Seq(Outputs) /\ \A p \in ToSet(e) : EndsTurn(p)
  <2>1. RunningIn(m[3]) # {} => (CHOOSE v \in RunningIn(m[3]) : TRUE) \in running
    <3>1. RunningIn(m[3]) \subseteq running
      BY <1>0 DEF RunningIn
    <3>2. QED
      BY <3>1
  <2>2. QED
    BY <1>3, <1>4, <2>1
\* Whatever the response, it is followed by at most the end of a turn.
<1>6. ASSUME NEW r \in Replies, NEW s \in Seq(Outputs), \A p \in ToSet(s) : EndsTurn(p),
             stdout' = stdout \o Reply(m[2], r) \/ stdout' = stdout \o Reply(m[2], r) \o s,
             Leads(m, r[1] # "not found")
      PROVE  \E o \in Outputs, w \in Seq(Outputs) :
               /\ o[1] = "response" /\ o[2] = m[2]
               /\ stdout' = stdout \o w /\ \A p \in ToSet(w) : p = o \/ EndsTurn(p)
               /\ Leads(m, o[3][1] # "not found")
  <2>1. PICK o : o = <<"response", m[2], r>>
    OBVIOUS
  <2>2. o \in Outputs /\ o[1] = "response" /\ o[2] = m[2] /\ o[3] = r
    BY <1>1, <2>1, OutputKinds
  <2>3. PICK w \in Seq(Outputs) : w = <<o>> /\ ToSet(w) = {o} /\ Reply(m[2], r) = w
    BY <2>1, <2>2, Singles DEF Reply
  <2>4. PICK x \in Seq(Outputs) : x = w \o s /\ ToSet(x) = ToSet(w) \cup ToSet(s)
    <3>1. w \o s \in Seq(Outputs) /\ ToSet(w \o s) = ToSet(w) \cup ToSet(s)
      BY MembersJoined
    <3>2. QED
      BY <3>1
  <2>5. (stdout \o w) \o s = stdout \o x
    BY <1>0, <2>4, Regrouped
  <2>6. stdout' = stdout \o w \/ stdout' = stdout \o x
    BY <1>6, <2>3, <2>5
  <2>7. (\A p \in ToSet(w) : p = o \/ EndsTurn(p)) /\ (\A p \in ToSet(x) : p = o \/ EndsTurn(p))
    BY <1>6, <2>3, <2>4
  <2>8. Leads(m, o[3][1] # "not found")
    BY <1>6, <2>2
  <2>9. QED
    BY <2>2, <2>6, <2>7, <2>8
<1>7. \E r \in Replies, s \in Seq(Outputs) :
        /\ \A p \in ToSet(s) : EndsTurn(p)
        /\ stdout' = stdout \o Reply(m[2], r) \/ stdout' = stdout \o Reply(m[2], r) \o s
        /\ Leads(m, r[1] # "not found")
  <2>1. ASSUME NEW n \in Nat PROVE \E r \in Replies : r = <<"ok", n>> /\ r[1] = "ok"
    <3>1. PICK r : r = <<"ok", n>>
      OBVIOUS
    <3>2. r \in {"ok"} \X Nat /\ r[1] = "ok"
      BY <2>1, <3>1
    <3>3. QED
      BY <3>1, <3>2 DEF Replies
  <2>2. <<"error">> \in Replies /\ <<"error">>[1] = "error" /\ <<"not found">> \in Replies
    BY DEF Replies
  <2>3. CASE /\ stdout' = stdout \o Reply(m[2], <<IF m[1] = "turn/start" /\ m[3] \notin loaded
                                                   THEN "not found" ELSE "error">>)
             /\ UNCHANGED <<loaded, made, home, running>>
    <3>1. CASE m[1] = "turn/start" /\ m[3] \notin loaded
      BY <1>4, <2>2, <2>3, <3>1 DEF Leads
    <3>2. CASE ~(m[1] = "turn/start" /\ m[3] \notin loaded)
      BY <1>4, <2>2, <2>3, <3>2 DEF Leads
    <3>3. QED
      BY <3>1, <3>2
  <2>4. ASSUME NEW b \in AppThreads \ made, made' = made \cup {b}, loaded' = loaded \cup {b},
               stdout' = stdout \o Reply(m[2], <<"ok", b>>), UNCHANGED <<home, running>>
        PROVE  \E r \in Replies : stdout' = stdout \o Reply(m[2], r) /\ Leads(m, r[1] # "not found")
    <3>1. PICK r \in Replies : r = <<"ok", b>> /\ r[1] = "ok"
      BY <2>1 DEF AppThreads
    <3>2. QED
      BY <2>4, <3>1 DEF Leads
  <2>5. ASSUME NEW v \in AppTurns, m[1] = "turn/start", m[3] \in loaded, home[v] = 0,
               home' = [home EXCEPT ![v] = m[3]], running' = running \cup {v},
               stdout' = stdout \o Reply(m[2], <<"ok", v>>), UNCHANGED <<loaded, made>>
        PROVE  \E r \in Replies : stdout' = stdout \o Reply(m[2], r) /\ Leads(m, r[1] # "not found")
    <3>1. PICK r \in Replies : r = <<"ok", v>> /\ r[1] = "ok"
      BY <2>1 DEF AppTurns
    <3>2. QED
      BY <2>5, <3>1 DEF Leads
  <2>6. CASE /\ m[1] = "thread/resume" /\ loaded' = loaded \cup {m[3]} /\ UNCHANGED <<made, home, running>>
             /\ stdout' = stdout \o Reply(m[2], <<"ok", 0>>)
    <3>1. PICK r \in Replies : r = <<"ok", 0>> /\ r[1] = "ok"
      BY <2>1
    <3>2. QED
      BY <1>4, <2>6, <3>1 DEF Leads
  <2>7. ASSUME NEW s \in Seq(Outputs), \A p \in ToSet(s) : EndsTurn(p),
               \/ stdout' = stdout \o Reply(m[2], <<"ok", 0>>)
               \/ stdout' = stdout \o Reply(m[2], <<"ok", 0>>) \o s,
               loaded' \subseteq loaded, running' \subseteq running, UNCHANGED <<made, home>>
        PROVE  \E r \in Replies : /\ stdout' = stdout \o Reply(m[2], r) \/ stdout' = stdout \o Reply(m[2], r) \o s
                                  /\ Leads(m, r[1] # "not found")
    <3>1. PICK r \in Replies : r = <<"ok", 0>> /\ r[1] = "ok"
      BY <2>1
    <3>2. QED
      BY <2>7, <3>1 DEF Leads
  <2>8. \/ /\ stdout' = stdout \o Reply(m[2], <<IF m[1] = "turn/start" /\ m[3] \notin loaded
                                                THEN "not found" ELSE "error">>)
           /\ UNCHANGED <<loaded, made, home, running>>
        \/ \E b \in AppThreads \ made :
             /\ made' = made \cup {b} /\ loaded' = loaded \cup {b}
             /\ stdout' = stdout \o Reply(m[2], <<"ok", b>>) /\ UNCHANGED <<home, running>>
        \/ \E v \in AppTurns :
             /\ m[1] = "turn/start" /\ m[3] \in loaded /\ home[v] = 0
             /\ home' = [home EXCEPT ![v] = m[3]] /\ running' = running \cup {v}
             /\ stdout' = stdout \o Reply(m[2], <<"ok", v>>) /\ UNCHANGED <<loaded, made>>
        \/ /\ m[1] = "thread/resume" /\ loaded' = loaded \cup {m[3]} /\ UNCHANGED <<made, home, running>>
           /\ stdout' = stdout \o Reply(m[2], <<"ok", 0>>)
        \/ stdout' = stdout \o Reply(m[2], <<"ok", 0>>) /\ UNCHANGED <<loaded, made, home, running>>
        \/ /\ m[5] \in running /\ stdout' = stdout \o Reply(m[2], <<"ok", 0>>) \o Ends(m[5])
           /\ running' = running \ {m[5]} /\ UNCHANGED <<loaded, made, home>>
        \/ /\ stdout' = stdout \o Reply(m[2], <<"ok", 0>>) \o e
           /\ loaded' = loaded \ {m[3]} /\ running' = running \ RunningIn(m[3]) /\ UNCHANGED <<made, home>>
    BY <1>1, <1>3 DEF Serve
  <2>9. CASE stdout' = stdout \o Reply(m[2], <<"ok", 0>>) /\ UNCHANGED <<loaded, made, home, running>>
    BY <1>4, <2>7, <2>9
  <2>10. CASE /\ m[5] \in running /\ stdout' = stdout \o Reply(m[2], <<"ok", 0>>) \o Ends(m[5])
              /\ running' = running \ {m[5]} /\ UNCHANGED <<loaded, made, home>>
    BY <1>4, <2>7, <2>10
  <2>11. CASE /\ stdout' = stdout \o Reply(m[2], <<"ok", 0>>) \o e
              /\ loaded' = loaded \ {m[3]} /\ running' = running \ RunningIn(m[3]) /\ UNCHANGED <<made, home>>
    BY <1>5, <2>7, <2>11
  <2>12. QED
    BY <1>4, <2>3, <2>4, <2>5, <2>6, <2>8, <2>9, <2>10, <2>11
<1>8. QED
  BY <1>1, <1>2, <1>6, <1>7

\* A thread that the app-server makes is one that nothing was about.
LEMMA FreshFit ==
  ASSUME WireInv, NamesInv, StartedInv, KindsInv, Serve, NEW a \in AppThreads \ made
  PROVE  ThreadInv(a)'
<1>1. PICK f \in [AppThreads -> Threads \cup {None}] : TableNames(f) /\ WayNames(f)
  BY DEF NamesInv
<1>2. PICK m \in Requests, o \in Outputs, r \in Seq(Outputs) :
        /\ m = Head(stdin) /\ m \in ToSet(stdin) /\ stdin # <<>> /\ stdin' = Tail(stdin)
        /\ o[1] = "response" /\ o[2] = m[2]
        /\ stdout' = stdout \o r /\ \A p \in ToSet(r) : p = o \/ EndsTurn(p)
        /\ Leads(m, o[3][1] # "not found")
        /\ UNCHANGED <<reverseMap, handler, call, items, archived, gaveUp, dropped, nextId>>
  BY ServeDoes
<1>3. /\ stdin \in Seq(Inputs) /\ stdout \in Seq(Outputs) /\ ToSet(stdin') \subseteq ToSet(stdin)
      /\ ToSet(stdout') = ToSet(stdout) \cup ToSet(r) /\ stdin' \in Seq(Inputs) /\ stdout' \in Seq(Outputs)
  <2>1. stdin \in Seq(Inputs) /\ stdout \in Seq(Outputs)
    BY Piped
  <2>2. stdin' \in Seq(Inputs) /\ ToSet(stdin') \subseteq ToSet(stdin)
    BY <1>2, <2>1, MembersLeft
  <2>3. stdout' \in Seq(Outputs) /\ ToSet(stdout') = ToSet(stdout) \cup ToSet(r)
    <3>1. stdout \o r \in Seq(Outputs) /\ ToSet(stdout \o r) = ToSet(stdout) \cup ToSet(r)
      BY <2>1, MembersJoined
    <3>2. QED
      BY <1>2, <3>1
  <2>4. QED
    BY <2>1, <2>2, <2>3
<1>4. \A n \in ToSet(stdin) : n[1] \in {"turn/start", "thread/resume"} => n[3] # a
  <2>1. ASSUME NEW n \in ToSet(stdin), n[1] = "turn/start" PROVE n[3] # a
    BY <1>1, <2>1 DEF WayNames, Named, AppThreads
  <2>2. ASSUME NEW n \in ToSet(stdin), n[1] = "thread/resume" PROVE n[3] # a
    BY <2>2 DEF KindsInv, AskedInv
  <2>3. QED
    BY <2>1, <2>2
<1>5. \A u \in AppTurns : home[u] # a
  BY <1>1 DEF WayNames, Named, AppThreads
<1>6. \A k \in Methods \cup {"mapping"} : ~At(k, a)
  BY <1>1 DEF WayNames, Named, AppThreads, At
<1>7. \A u \in AppTurns : home'[u] # a
  <2>1. ASSUME NEW v \in AppTurns, m[1] = "turn/start", home' = [home EXCEPT ![v] = m[3]] PROVE \A u \in AppTurns : home'[u] # a
    <3>1. m[3] # a
      BY <1>2, <1>4, <2>1
    <3>2. home \in [AppTurns -> AppThreads \cup {0}]
      BY DEF WireInv, OwnersInv
    <3>3. QED
      BY <1>5, <2>1, <3>1, <3>2
  <2>2. QED
    BY <1>2, <1>5, <2>1 DEF Leads
<1>8. \A P : P = Reports(a)' => Lacks(stdout', P)
  <2>1. \A u : ~TurnIn(a, u)'
    BY <1>7 DEF TurnIn
  <2>2. QED
    BY <2>1 DEF Lacks, Reports, ReportsOf
<1>9. \A P : P = Closings(a) => Lacks(stdout', P)
  <2>1. Lacks(stdout, Closings(a))
    BY DEF KindsInv, AskedInv
  <2>2. Lacks(r, Closings(a))
    BY <1>2 DEF Lacks, Closings, EndsTurn
  <2>3. QED
    BY <1>3, <2>1, <2>2 DEF Lacks
<1>10. \A k \in {"turn/start", "thread/resume"} : Lacks(stdin', Wanted(k, a))
  BY <1>3, <1>4 DEF Lacks, Wanted
<1>11. RunningIn(a)' = {}
  <2>1. running' \subseteq AppTurns
    BY <1>2 DEF Leads, WireInv, OwnersInv
  <2>2. QED
    BY <1>7, <2>1 DEF RunningIn
<1>12. Closings(a)' = Closings(a) /\ \A k : Wanted(k, a)' = Wanted(k, a)
  BY DEF Closings, Wanted
<1>13. ReportsHeard(a)'
  <2>1. PICK P : P = Reports(a)'
    OBVIOUS
  <2>2. Lacks(stdout', P) /\ Precedes(stdout', P, Closings(a))
    BY <1>3, <1>8, <2>1, PrecedesNone
  <2>3. QED
    BY <1>11, <1>12, <2>1, <2>2 DEF ReportsHeard, Lacks, Precedes
<1>14. StartsFit(a)'
  <2>1. PICK T, W : T = Wanted("turn/start", a) /\ W = Wanted("thread/resume", a)
    OBVIOUS
  <2>2. Lacks(stdin', T) /\ Precedes(stdin', T, W)
    BY <1>3, <1>10, <2>1, PrecedesNone
  <2>3. QED
    BY <1>12, <2>1, <2>2 DEF StartsFit, Lacks, Precedes
<1>15. ResumesAwaited(a)'
  BY <1>9, <1>10, <1>12 DEF ResumesAwaited, Lacks
<1>16. RetryFit(a)'
  <2>1. \A k \in Methods \cup {"mapping"} : ~At(k, a)'
    BY <1>2, <1>6 DEF At
  <2>2. QED
    BY <2>1 DEF RetryFit, Methods
<1>17. QED
  BY <1>13, <1>14, <1>15, <1>16 DEF ThreadInv

LEMMA ServeFits ==
  ASSUME WireInv, NamesInv, StartedInv, OnceInv, KindsInv, Serve, NEW a \in AppThreads, ThreadInv(a)
  PROVE  ThreadInv(a)'
<1>1. CASE a \notin made
  BY <1>1, FreshFit
<1>2. CASE a \in made
  <2>1. PICK m \in Requests, o \in Outputs, r \in Seq(Outputs) :
          /\ m = Head(stdin) /\ m \in ToSet(stdin) /\ stdin # <<>> /\ stdin' = Tail(stdin)
          /\ o[1] = "response" /\ o[2] = m[2]
          /\ stdout' = stdout \o r /\ \A p \in ToSet(r) : p = o \/ EndsTurn(p)
          /\ Leads(m, o[3][1] # "not found")
          /\ UNCHANGED <<reverseMap, handler, call, items, archived, gaveUp, dropped, nextId>>
    BY ServeDoes
  <2>2. m \in Inputs /\ m[1] # "answer" /\ home \in [AppTurns -> AppThreads \cup {0}] /\ running \subseteq AppTurns
    BY DEF Inputs, Requests, Methods, WireInv, OwnersInv
  <2>3. \A v \in AppTurns : home[v] = 0 => v \notin running /\ \A p \in ToSet(stdout) :
          /\ p[1] = "turn" => p[2] # v
          /\ p[1] \in {"delta", "message"} => items[p[2]].turn # v
    BY DEF StartedInv, Started
  <2>4. ASSUME NEW p \in ToSet(stdout) \cup ToSet(r), p \in Reports(a)' PROVE p \in Reports(a)
    <3>1. CASE home' = home
      BY <2>1, <2>4, <3>1 DEF Reports, ReportsOf, TurnIn
    <3>2. ASSUME NEW v \in AppTurns, home[v] = 0, home' = [home EXCEPT ![v] = m[3]] PROVE p \in Reports(a)
      <4>1. p[1] = "turn" => p[2] # v
        BY <2>1, <2>3, <3>2 DEF EndsTurn
      <4>2. p[1] \in {"delta", "message"} => items[p[2]].turn # v
        BY <2>1, <2>3, <3>2 DEF EndsTurn
      <4>3. \A u \in AppTurns : u # v => home'[u] = home[u]
        BY <2>2, <3>2
      <4>4. items' = items
        BY <2>1
      <4>5. QED
        BY <2>4, <4>1, <4>2, <4>3, <4>4 DEF Reports, ReportsOf, TurnIn
    <3>3. QED
      BY <2>1, <3>1, <3>2 DEF Leads
  <2>5. ASSUME NEW p \in ToSet(r), p \in Reports(a)' PROVE RunningIn(a) # {}
    <3>1. p \in Reports(a)
      BY <2>4, <2>5
    <3>2. p[1] = "turn" /\ p[2] \in running
      BY <2>1, <2>5, <3>1 DEF Reports, ReportsOf, EndsTurn
    <3>3. QED
      BY <3>1, <3>2 DEF Reports, ReportsOf, TurnIn, RunningIn
  <2>6. \/ RunningIn(a)' \subseteq RunningIn(a)
        \/ reverseMap[a] # None /\ Lacks(stdout, Closings(a))
    <3>1. CASE running' \subseteq running /\ home' = home
      BY <3>1 DEF RunningIn
    <3>2. ASSUME NEW v \in AppTurns, home[v] = 0, home' = [home EXCEPT ![v] = m[3]], m[1] = "turn/start",
                 running' = running \cup {v}, m[3] \in loaded
          PROVE  \/ RunningIn(a)' \subseteq RunningIn(a)
                 \/ reverseMap[a] # None /\ Lacks(stdout, Closings(a))
      <4>1. CASE m[3] = a
        <5>1. ~Lacks(stdin, Wanted("turn/start", a))
          BY <2>1, <2>2, <3>2, <4>1 DEF Lacks, Wanted
        <5>2. QED
          BY <3>2, <4>1, <5>1 DEF ThreadInv, StartsFit, Fit
      <4>2. CASE m[3] # a
        <5>1. \A u \in AppTurns : home'[u] = a => home[u] = a /\ u # v
          BY <2>2, <3>2, <4>2
        <5>2. QED
          BY <2>2, <3>2, <5>1 DEF RunningIn
      <4>3. QED
        BY <4>1, <4>2
    <3>3. QED
      BY <2>1, <3>1, <3>2 DEF Leads
  <2>7. Lacks(r, Closings(a))
    BY <2>1 DEF Lacks, Closings, EndsTurn
  <2>8. a \in loaded' /\ a \notin loaded => Head(stdin) \in Wanted("thread/resume", a)
    BY <1>2, <2>1, <2>2 DEF Leads, Wanted
  <2>9. ASSUME NEW p \in ToSet(r), p \in Responses
        PROVE  /\ Head(stdin) \in Requested
               /\ p \in NotFounds /\ At("turn/start", a) => a \notin loaded /\ a \notin loaded'
    <3>1. p = o
      BY <2>1, <2>9 DEF Responses, EndsTurn
    <3>2. m \in Requested
      BY <2>1, <2>2, <2>9, <3>1 DEF Responses, Requested
    <3>3. m[3] = handler.app
      BY <2>1, <3>2 DEF OnceInv
    <3>4. p \in NotFounds => m[3] \notin loaded /\ loaded' = loaded
      BY <2>1, <3>1 DEF NotFounds, Leads
    <3>5. QED
      BY <2>1, <3>2, <3>3, <3>4 DEF At
  <2>10. \A p \in ToSet(stdout) : p \in Reports(a)' => p \in Reports(a)
    BY <2>4
  <2>11. QED
    BY <2>1, <2>5, <2>6, <2>7, <2>8, <2>9, <2>10, ServedFit
<1>3. QED
  BY <1>1, <1>2

LEMMA ReaderTakes ==
  ASSUME WireInv, TablesOk, Reader, ~Emit
  PROVE  \E o : Takes(o)
<1>0. PICK o : o = Head(stdout)
  OBVIOUS
<1>1. stdout # <<>> /\ stdout' = Tail(stdout) /\ o \in Outputs
  <2>1. stdout # <<>> /\ stdout' = Tail(stdout)
    BY DEF Reader, ReadResponse, ReadTurn, ReadDelta, ReadMessage, ReadAsk, ReadResolved, ReadClosed, Reads
  <2>2. QED
    BY <1>0, <2>1, Piped, MembersLeft
<1>2. UNCHANGED <<loaded, made, home, items, running, handler, archived, gaveUp, nextId>>
  BY DEF Reader, ReadResponse, ReadTurn, ReadDelta, ReadMessage, ReadAsk, ReadResolved, ReadClosed, server, process,
         speech, rpc, told
<1>3. stdin' = stdin \/ \E i \in Asks \cup {0} : stdin' = Append(stdin, <<"answer", i>>)
  <2>1. CASE ReadAsk
    <3>1. o[2] \in Asks
      BY <1>0, <1>1, <2>1 DEF ReadAsk, Reads, Outputs
    <3>2. QED
      BY <1>0, <2>1, <3>1 DEF ReadAsk
  <2>2. QED
    BY <2>1 DEF Reader, ReadResponse, ReadTurn, ReadDelta, ReadMessage, ReadResolved, ReadClosed
<1>4. call' = IF o[1] = "response" /\ o[2] = call.id THEN [call EXCEPT !.reply = o[3]] ELSE call
  <2>1. CASE ReadResponse
    BY <1>0, <2>1 DEF ReadResponse, Reads
  <2>2. CASE ReadTurn \/ ReadDelta \/ ReadMessage \/ ReadAsk \/ ReadResolved \/ ReadClosed
    BY <1>0, <2>2 DEF ReadTurn, ReadDelta, ReadMessage, ReadAsk, ReadResolved, ReadClosed, Reads, rpc
  <2>3. QED
    BY <2>1, <2>2 DEF Reader
<1>5. \A a \in AppThreads : (o[1] = "closed" /\ o[2] = a) \/ reverseMap'[a] = reverseMap[a]
  <2>1. CASE ReadClosed
    <3>1. o[1] = "closed" /\ (reverseMap' = reverseMap \/ reverseMap' = [reverseMap EXCEPT ![o[2]] = None])
      BY <1>0, <2>1 DEF ReadClosed, Reads
    <3>2. reverseMap \in [AppThreads -> Threads \cup {None}]
      BY DEF TablesOk
    <3>3. QED
      BY <3>1, <3>2
  <2>2. QED
    BY <2>1 DEF Reader, ReadResponse, ReadTurn, ReadDelta, ReadMessage, ReadAsk, ReadResolved, maps
<1>6. QED
  BY <1>0, <1>1, <1>2, <1>3, <1>4, <1>5 DEF Takes

LEMMA EmitLeaves ==
  ASSUME Emit
  PROVE  UNCHANGED <<reverseMap, stdin, stdout, loaded, made, home, items, running, handler, call, archived, gaveUp,
                     dropped, nextId>>
  BY DEF Emit, rpc, pipes, server, process, speech

LEMMA ReaderFits ==
  ASSUME WireInv, TablesOk, NEW a \in AppThreads, ThreadInv(a), Reader
  PROVE  ThreadInv(a)'
<1>1. CASE Emit
  BY <1>1, EmitLeaves, Still
<1>2. CASE ~Emit
  BY <1>2, ReaderTakes, TakesFit
<1>3. QED
  BY <1>1, <1>2

\* A step of the handler makes a request for what it holds, or comes to rest.
Acts(h) ==
  /\ h \in Handlers /\ (h.op = "archive" => h.app \in archived' \cup {0})
  /\ \/ \E method \in Methods, u \in AppTurns \cup {0} :
          /\ Call(h, method, u) /\ (method = "thread/archive" => h.op = "archive")
          /\ method = "thread/resume" => h.app \in made
     \/ /\ handler' \in {Idle, Failed(h)} \cup {[h EXCEPT !.at = k] : k \in {"mapping", "answering", "answered"}}
        /\ stdin' = stdin \/ \E i \in Asks \cup {0} : stdin' = Append(stdin, <<"answer", i>>)

LEMMA ActsOnce ==
  ASSUME WireInv, WireInv', UNCHANGED stdout, NEW h, Acts(h)
  PROVE  OnceInv'
<1>1. ASSUME handler'.at \notin Methods PROVE OnceInv'
  <2>1. call'.id = 0
    BY <1>1 DEF WireInv, RpcInv
  <2>2. QED
    BY <2>1, OnceResting
<1>2. ASSUME NEW method \in Methods, NEW u \in AppTurns \cup {0}, Call(h, method, u) PROVE OnceInv'
  <2>1. CASE alive
    <3>1. PICK m : m = <<method, nextId, h.app, h.turn, u>>
      OBVIOUS
    <3>2. /\ handler' = [h EXCEPT !.at = method] /\ call' = [id |-> nextId, reply |-> <<>>]
          /\ stdin' = Append(stdin, m)
      BY <1>2, <2>1, <3>1 DEF Call
    <3>3. m \in Inputs /\ h \in Handlers
      BY <3>1, Piped DEF Inputs, Requests, Handlers, Acts
    <3>4. m[2] = nextId /\ m[3] = h.app /\ handler'.app = h.app
      BY <3>1, <3>2, <3>3 DEF Handlers
    <3>5. QED
      BY <3>2, <3>3, <3>4, OnceAsking
  <2>2. CASE ~alive
    <3>1. handler' = Failed(h)
      BY <1>2, <2>2 DEF Call
    <3>2. handler'.at \notin Methods
      BY <3>1 DEF Acts, Failed, Idle, Handlers, Methods
    <3>3. QED
      BY <1>1, <3>2
  <2>3. QED
    BY <2>1, <2>2
<1>3. CASE handler' \in {Idle, Failed(h)} \cup {[h EXCEPT !.at = k] : k \in {"mapping", "answering", "answered"}}
  <2>1. handler'.at \notin Methods
    BY <1>3 DEF Acts, Failed, Idle, Handlers, Methods
  <2>2. QED
    BY <1>1, <2>1
<1>4. QED
  BY <1>2, <1>3 DEF Acts

LEMMA ActsKinds ==
  ASSUME WireInv, KindsInv, UNCHANGED made, NEW h, Acts(h)
  PROVE  AskedInv'
<1>0. h \in Handlers /\ (h.op = "archive" => h.app \in archived' \cup {0}) /\ stdin \in Seq(Inputs)
  BY Piped DEF Acts
<1>1. ASSUME NEW at \in {"mapping", "answering", "answered"} \cup Methods, at = "thread/archive" => h.op = "archive",
             handler' = [h EXCEPT !.at = at]
      PROVE  /\ handler'.at \in {"thread/archive", "unmapping"} => handler'.op = "archive"
             /\ handler'.op = "archive" => handler'.app \in archived' \cup {0}
  <2>1. handler'.at = at /\ handler'.op = h.op /\ handler'.app = h.app
    BY <1>0, <1>1 DEF Handlers
  <2>2. at # "unmapping"
    BY DEF Methods
  <2>3. QED
    BY <1>0, <1>1, <2>1, <2>2
<1>2. ASSUME handler' \in {Idle, Failed(h)}
      PROVE  /\ handler'.at \in {"thread/archive", "unmapping"} => handler'.op = "archive"
             /\ handler'.op = "archive" => handler'.app \in archived' \cup {0}
  <2>1. Idle.at = "idle" /\ Idle.app = 0
    BY DEF Idle
  <2>2. CASE handler' = Idle
    BY <2>1, <2>2
  <2>3. CASE h.op = "archive" /\ handler' = [h EXCEPT !.at = "unmapping"]
    <3>1. handler'.op = h.op /\ handler'.app = h.app
      BY <1>0, <2>3 DEF Handlers
    <3>2. QED
      BY <1>0, <2>3, <3>1
  <2>4. QED
    BY <1>2, <2>2, <2>3 DEF Failed
<1>3. \A m \in ToSet(stdin) : m[1] = "thread/resume" => m[3] \in made
  BY DEF KindsInv, AskedInv
<1>4. ASSUME NEW method \in Methods, NEW u \in AppTurns \cup {0}, Call(h, method, u),
             method = "thread/archive" => h.op = "archive", method = "thread/resume" => h.app \in made
      PROVE  AskedInv'
  <2>1. CASE alive
    <3>1. PICK m : m = <<method, nextId, h.app, h.turn, u>>
      OBVIOUS
    <3>2. handler' = [h EXCEPT !.at = method] /\ stdin' = Append(stdin, m)
      BY <1>4, <2>1, <3>1 DEF Call
    <3>3. m \in Inputs
      BY <1>0, <3>1, Piped DEF Inputs, Requests, Handlers
    <3>4. ToSet(stdin') = ToSet(stdin) \cup {m} /\ m[1] = method /\ m[3] = h.app
      <4>1. ToSet(Append(stdin, m)) = ToSet(stdin) \cup {m}
        BY <1>0, <3>3, MembersAppended
      <4>2. QED
        BY <3>1, <3>2, <4>1
    <3>5. \A n \in ToSet(stdin') : n[1] = "thread/resume" => n[3] \in made
      BY <1>3, <1>4, <3>4
    <3>6. QED
      BY <1>1, <1>4, <3>2, <3>5 DEF AskedInv
  <2>2. CASE ~alive
    <3>1. handler' = Failed(h) /\ stdin' = stdin
      BY <1>4, <2>2 DEF Call
    <3>2. QED
      BY <1>2, <1>3, <3>1 DEF AskedInv
  <2>3. QED
    BY <2>1, <2>2
<1>5. ASSUME stdin' = stdin \/ \E i \in Asks \cup {0} : stdin' = Append(stdin, <<"answer", i>>)
      PROVE  \A m \in ToSet(stdin') : m[1] = "thread/resume" => m[3] \in made
  <2>1. Precedes(stdin, {}, {}) /\ \A m \in {} : m[1] # "answer"
    BY DEF Precedes
  <2>2. \A m \in ToSet(stdin') : m \in ToSet(stdin) \/ m[1] = "answer"
    BY <1>5, <2>1, AnswerAdded
  <2>3. QED
    BY <1>3, <2>2
<1>6. CASE handler' \in {Idle, Failed(h)} \cup {[h EXCEPT !.at = k] : k \in {"mapping", "answering", "answered"}}
           /\ (stdin' = stdin \/ \E i \in Asks \cup {0} : stdin' = Append(stdin, <<"answer", i>>))
  <2>1. /\ handler'.at \in {"thread/archive", "unmapping"} => handler'.op = "archive"
        /\ handler'.op = "archive" => handler'.app \in archived' \cup {0}
    BY <1>1, <1>2, <1>6
  <2>2. QED
    BY <1>5, <1>6, <2>1 DEF AskedInv
<1>7. QED
  BY <1>4, <1>6 DEF Acts

LEMMA HandlerActs ==
  ASSUME WireInv, TablesOk, NamesInv, KindsInv, Handler
  PROVE  \E h : Acts(h)
<1>0. /\ RpcInv /\ handler \in Handlers /\ 0 \in AppTurns \cup {0} /\ archived \subseteq archived'
      /\ handler.op = "archive" => handler.app \in archived' \cup {0}
  BY HandlerLeaves DEF WireInv, RpcInv, HandlerOk, KindsInv, AskedInv
<1>1. CASE TimesOut
  <2>1. handler' = Failed(handler) /\ stdin' = stdin
    BY <1>1 DEF TimesOut, pipes
  <2>2. QED
    BY <1>0, <2>1 DEF Acts
<1>2. CASE Mapped
  <2>1. handler.at = "mapping" /\ handler.app # 0
    BY <1>0, <1>2, Underway DEF Mapped, Methods
  <2>2. handler.app \in made
    BY <2>1 DEF NamesInv, WayNames, Named
  <2>3. PICK u \in AppTurns \cup {0}, method \in {"turn/start", "turn/steer", "thread/resume"} : Call(handler, method, u)
    <3>1. CASE handler.op = "turn_steer" /\ Call(handler, "turn/steer", handler.appTurn)
      <4>1. handler.appTurn \in AppTurns \cup {0}
        BY <1>0 DEF Handlers
      <4>2. QED
        BY <3>1, <4>1
    <3>2. CASE Call(handler, "turn/start", 0) \/ Call(handler, "thread/resume", 0)
      BY <1>0, <3>2
    <3>3. QED
      BY <1>2, <3>1, <3>2 DEF Mapped
  <2>4. method \in Methods /\ method # "thread/archive"
    BY DEF Methods
  <2>5. QED
    BY <1>0, <2>2, <2>3, <2>4 DEF Acts
<1>3. CASE ThreadStarted
  <2>1. /\ handler.at = "thread/start" /\ ReplyOk(handler, call.reply) /\ handler.op = "turn_start"
    BY <1>0, <1>3, Waiting, Underway DEF ThreadStarted, Methods
  <2>2. CASE Ok /\ Call([handler EXCEPT !.app = call.reply[2]], "turn/start", 0)
    <3>1. PICK b \in AppThreads : b = call.reply[2]
      BY <2>1, <2>2 DEF Ok, ReplyOk, WireInv, OwnersInv
    <3>2. PICK h : h = [handler EXCEPT !.app = b]
      OBVIOUS
    <3>3. h \in Handlers /\ h.op = "turn_start"
      BY <1>0, <2>1, <3>2 DEF Handlers
    <3>4. Call(h, "turn/start", 0) /\ "turn/start" \in Methods
      BY <2>2, <3>1, <3>2 DEF Methods
    <3>5. QED
      BY <1>0, <3>3, <3>4 DEF Acts
  <2>3. CASE handler' = Idle /\ stdin' = stdin
    BY <1>0, <2>3 DEF Acts
  <2>4. QED
    BY <1>3, <2>2, <2>3 DEF ThreadStarted
<1>4. CASE TurnStarted
  <2>1. handler.at = "turn/start" /\ stdin' = stdin
    BY <1>4 DEF TurnStarted, Returned, pipes
  <2>2. handler.op = "turn_start"
    BY <1>0, <2>1, Underway DEF Methods
  <2>3. CASE handler' = Idle
    BY <1>0, <2>1, <2>3 DEF Acts
  <2>4. CASE MapThread([handler EXCEPT !.retried = TRUE])
    <3>1. PICK h : h = [handler EXCEPT !.retried = TRUE]
      OBVIOUS
    <3>2. h \in Handlers /\ h.op = "turn_start"
      BY <1>0, <2>2, <3>1 DEF Handlers
    <3>3. handler' = [h EXCEPT !.at = "mapping"]
      BY <2>4, <3>1 DEF MapThread
    <3>4. QED
      BY <2>1, <3>2, <3>3 DEF Acts
  <2>5. QED
    BY <1>4, <2>3, <2>4 DEF TurnStarted
<1>5. CASE Resumed
  <2>1. CASE Call(handler, "turn/start", 0)
    BY <1>0, <2>1 DEF Acts, Methods
  <2>2. CASE handler' = Idle /\ stdin' = stdin
    BY <1>0, <2>2 DEF Acts
  <2>3. QED
    BY <1>5, <2>1, <2>2 DEF Resumed
<1>6. CASE Answered \/ Archived \/ Remember
  <2>1. handler' = Idle /\ stdin' = stdin
    BY <1>6 DEF Answered, Archived, Remember, pipes
  <2>2. QED
    BY <1>0, <2>1 DEF Acts
<1>7. CASE SendAnswer
  <2>1. /\ handler' = Idle \/ handler' = [handler EXCEPT !.at = "answered"]
        /\ stdin' = stdin \/ stdin' = Append(stdin, <<"answer", handler.ask>>)
    BY <1>7 DEF SendAnswer
  <2>2. handler.ask \in Asks \cup {0}
    BY <1>0 DEF Handlers
  <2>3. QED
    BY <1>0, <2>1, <2>2 DEF Acts
<1>8. QED
  BY <1>1, <1>2, <1>3, <1>4, <1>5, <1>6, <1>7 DEF Handler

LEMMA BackendActs ==
  ASSUME WireInv, TablesOk, Backend
  PROVE  \E h : Acts(h)
<1>0. /\ Idle \in Handlers /\ Idle.op # "archive" /\ 0 \in AppTurns \cup {0} /\ bound \in [Threads -> AppThreads \cup {0}]
      /\ \A k \in Methods \cup {"mapping"} : k # "idle"
  BY IdleOk, CodexConstants DEF HandlerOk, TablesOk, Idle, None, Methods
<1>1. \A x \in Threads, given \in BOOLEAN : (IF given THEN bound[x] ELSE 0) \in AppThreads \cup {0}
  BY <1>0
<1>2. ASSUME NEW t \in Turns, NEW given \in AppThreads \cup {0}, TurnStart(t, given) PROVE \E h : Acts(h)
  <2>1. PICK h \in Handlers : h = Request("turn_start", ThreadOf[t], t, given) /\ h.op = "turn_start"
    BY Begun, CodexConstants DEF OfTurns
  <2>2. Call(h, "thread/start", 0) \/ (MapThread(h) /\ stdin' = stdin)
    BY <1>2, <2>1 DEF TurnStart
  <2>3. QED
    BY <1>0, <2>1, <2>2 DEF Acts, MapThread, Methods
<1>3. ASSUME NEW t \in Turns, NEW given \in AppThreads \cup {0}, NEW named \in ToldTurns(t) \cup {0},
             TurnSteer(t, given, named)
      PROVE  \E h : Acts(h)
  <2>1. PICK h \in Handlers : h = Request("turn_steer", ThreadOf[t], t, given) /\ h.op = "turn_steer"
    BY Begun, CodexConstants DEF OfTurns
  <2>2. PICK u \in AppTurns \cup {0} : u = AppTurn(t, named)
    BY Told
  <2>3. PICK g : g = [h EXCEPT !.appTurn = u]
    OBVIOUS
  <2>4. g \in Handlers /\ g.op = "turn_steer"
    BY <2>1, <2>3, Steered
  <2>5. MapThread(g) /\ stdin' = stdin
    BY <1>3, <2>1, <2>2, <2>3 DEF TurnSteer, pipes
  <2>6. QED
    BY <2>4, <2>5 DEF Acts, MapThread
<1>4. ASSUME NEW t \in Turns, NEW given \in AppThreads \cup {0}, NEW named \in ToldTurns(t) \cup {0},
             TurnCancel(t, given, named)
      PROVE  \E h : Acts(h)
  <2>1. PICK h \in Handlers : h = Request("turn_cancel", ThreadOf[t], t, given) /\ h.op = "turn_cancel"
    BY Begun, CodexConstants DEF OfTurns
  <2>2. PICK u \in AppTurns \cup {0} : u = AppTurn(t, named)
    BY Told
  <2>3. Call(h, "turn/interrupt", u)
    BY <1>4, <2>1, <2>2 DEF TurnCancel
  <2>4. QED
    BY <2>1, <2>3 DEF Acts, Methods
<1>5. ASSUME NEW x \in Threads, NEW given \in AppThreads \cup {0}, ThreadResume(x, given) PROVE \E h : Acts(h)
  <2>1. PICK h \in Handlers : h = Request("thread_resume", x, None, given) /\ h.op = "thread_resume"
    BY Begun
  <2>2. MapThread(h) /\ stdin' = stdin
    BY <1>5, <2>1 DEF ThreadResume, pipes
  <2>3. QED
    BY <2>1, <2>2 DEF Acts, MapThread
<1>6. ASSUME NEW x \in Threads, NEW given \in AppThreads \cup {0}, ThreadArchive(x, given) PROVE \E h : Acts(h)
  <2>1. PICK h \in Handlers : h = Request("archive", x, None, given) /\ h.op = "archive"
    BY Begun
  <2>2. archived' = archived \cup ({h.app} \ {0})
    BY <1>6, <2>1 DEF ThreadArchive
  <2>3. Call(h, "thread/archive", 0) \/ (handler' = Failed(h) /\ stdin' = stdin)
    BY <1>6, <2>1 DEF ThreadArchive
  <2>4. QED
    BY <1>0, <2>1, <2>2, <2>3 DEF Acts, Methods
<1>7. ASSUME NEW x \in Threads, NEW given \in AppThreads \cup {0}, ThreadUnarchive(x, given) PROVE \E h : Acts(h)
  <2>1. PICK h \in Handlers : h = Request("unarchive", x, None, given) /\ h.op = "unarchive"
    BY Begun
  <2>2. Call(h, "thread/unarchive", 0)
    BY <1>7, <2>1 DEF ThreadUnarchive
  <2>3. QED
    BY <1>0, <2>1, <2>2 DEF Acts, Methods
<1>8. ASSUME NEW x \in Threads, SyncAck(x) PROVE \E h : Acts(h)
  <2>1. handler' = Idle /\ stdin' = stdin
    BY <1>8 DEF SyncAck, rpc, pipes
  <2>2. QED
    BY <1>0, <2>1 DEF Acts
<1>9. ASSUME NEW i \in Asks, NEW d \in Decisions, Respond(i, d) PROVE \E h : Acts(h)
  <2>1. PICK h : h = [Idle EXCEPT !.op = "respond", !.ask = i, !.reply = d]
    OBVIOUS
  <2>2. h \in Handlers /\ h.op = "respond"
    BY <1>0, <2>1 DEF Handlers, Idle, Decisions
  <2>3. handler' = [h EXCEPT !.at = "answering"] /\ stdin' = stdin
    BY <1>9, <2>1 DEF Respond, Idle, pipes
  <2>4. QED
    BY <2>2, <2>3 DEF Acts
<1>10. QED
  <2>1. ASSUME NEW x \in Threads, NEW given \in BOOLEAN,
               LET b == IF given THEN bound[x] ELSE 0
               IN ThreadResume(x, b) \/ ThreadArchive(x, b) \/ ThreadUnarchive(x, b)
        PROVE  \E h : Acts(h)
    BY <1>1, <1>5, <1>6, <1>7, <2>1
  <2>2. ASSUME NEW t \in Turns, NEW given \in BOOLEAN, TurnStart(t, IF given THEN bound[ThreadOf[t]] ELSE 0)
        PROVE  \E h : Acts(h)
    BY <1>1, <1>2, <2>2, CodexConstants
  <2>3. ASSUME NEW t \in Turns, NEW given \in BOOLEAN, NEW named \in ToldTurns(t) \cup {0},
               LET b == IF given THEN bound[ThreadOf[t]] ELSE 0
               IN TurnSteer(t, b, named) \/ TurnCancel(t, b, named)
        PROVE  \E h : Acts(h)
    BY <1>1, <1>3, <1>4, <2>3, CodexConstants
  <2>4. QED
    BY <1>8, <1>9, <2>1, <2>2, <2>3 DEF Backend

\* What the rest of the app-server adds: no response, and no closing but of what was loaded.
LEMMA NotifyAdds ==
  ASSUME WireInv, (AppServer /\ ~Serve) \/ Close \/ UNCHANGED vars
  PROVE  /\ loaded' \subseteq loaded /\ UNCHANGED <<archived, gaveUp, dropped, handler, call, made, home>>
         /\ stdin' = stdin \/ (stdin # <<>> /\ stdin' = Tail(stdin))
         /\ \A o \in ToSet(stdout') : \/ o \in ToSet(stdout)
                                      \/ o[1] # "response" /\ (o[1] = "closed" => o[2] \in loaded)
<1> DEFINE Added == \A o \in ToSet(stdout') : \/ o \in ToSet(stdout)
                                              \/ o[1] # "response" /\ (o[1] = "closed" => o[2] \in loaded)
<1>0. RpcInv /\ PipesInv /\ OwnersInv /\ stdout \in Seq(Outputs)
  BY DEF WireInv, PipesInv
<1>1. Notifies /\ UNCHANGED <<handler, call, made, home>>
  BY <1>0, AppServerNotifies
<1>2. loaded' \subseteq loaded /\ UNCHANGED <<archived, gaveUp, dropped>>
  BY DEF AppServer, ReadAnswer, Exit, EndTurn, Speak, EndMessage, Ask, CloseThread, Close, vars, told, server, process
<1>3. ASSUME NEW o \in Outputs, o[1] # "response", o[1] = "closed" => o[2] \in loaded, stdout' = Append(stdout, o)
      PROVE  Added
  <2>1. ToSet(Append(stdout, o)) = ToSet(stdout) \cup {o}
    BY <1>0, MembersAppended
  <2>2. QED
    BY <1>3, <2>1
<1>4. ASSUME NEW u \in AppTurns, stdout' = stdout \o Ends(u)
      PROVE  Added
  <2>1. Ends(u) \in Seq(Outputs) /\ \A p \in ToSet(Ends(u)) : p[1] \in {"turn", "resolved"}
    BY <1>0, EndsOutput
  <2>2. PICK r \in Seq(Outputs) : r = Ends(u)
    BY <2>1
  <2>3. ToSet(stdout \o r) = ToSet(stdout) \cup ToSet(r)
    BY <1>0, MembersJoined
  <2>4. QED
    BY <1>4, <2>1, <2>2, <2>3
<1>5. ASSUME stdout' = stdout PROVE Added
  BY <1>5
<1>6. ASSUME NEW b \in AppThreads, CloseThread(b)
      PROVE  Added
  <2>1. PICK o \in Outputs : o = <<"closed", b>> /\ o[1] = "closed" /\ o[2] = b
    BY OutputKinds
  <2>2. stdout' = Append(stdout, o) /\ b \in loaded
    BY <1>6, <2>1 DEF CloseThread
  <2>3. QED
    BY <1>3, <2>1, <2>2
<1>7. ASSUME NEW u \in AppTurns, Speak(u) \/ EndMessage(u)
      PROVE  Added
  <2>1. PICK i \in Items : \/ \E n \in 1..MaxFragments : stdout' = Append(stdout, <<"delta", i, n>>)
                           \/ \E given \in BOOLEAN : stdout' = Append(stdout, <<"message", i, given>>)
    BY <1>7 DEF Speak, EndMessage
  <2>2. ASSUME NEW n \in 1..MaxFragments, stdout' = Append(stdout, <<"delta", i, n>>)
        PROVE  \E o \in Outputs : o[1] = "delta" /\ stdout' = Append(stdout, o)
    BY <2>2, OutputKinds
  <2>3. ASSUME NEW given \in BOOLEAN, stdout' = Append(stdout, <<"message", i, given>>)
        PROVE  \E o \in Outputs : o[1] = "message" /\ stdout' = Append(stdout, o)
    BY <2>3, OutputKinds
  <2>4. PICK o \in Outputs : o[1] \in {"delta", "message"} /\ stdout' = Append(stdout, o)
    BY <2>1, <2>2, <2>3
  <2>5. QED
    BY <1>3, <2>4
<1>8. ASSUME NEW u \in AppTurns, NEW kind, NEW c, NEW offer, Ask(u, kind, c, offer)
      PROVE  Added
  <2>1. PICK i \in Asks : stdout' = Append(stdout, <<"ask", i>>)
    BY <1>8 DEF Ask
  <2>2. PICK o \in Outputs : o = <<"ask", i>> /\ o[1] = "ask"
    BY OutputKinds
  <2>3. QED
    BY <1>3, <2>1, <2>2
<1>9. ASSUME ReadAnswer PROVE Added
  <2>1. stdin \in Seq(Inputs) /\ stdin # <<>> /\ Head(stdin)[1] = "answer"
    BY <1>0, <1>9 DEF ReadAnswer, PipesInv
  <2>2. PICK m \in Inputs : m = Head(stdin)
    BY <2>1, MembersLeft
  <2>3. stdout' = stdout \/ (m[2] \in openAsks /\ stdout' = Append(stdout, <<"resolved", m[2]>>))
    BY <1>9, <2>2 DEF ReadAnswer
  <2>5. CASE m[2] \in openAsks /\ stdout' = Append(stdout, <<"resolved", m[2]>>)
    <3>1. PICK o \in Outputs : o = <<"resolved", m[2]>> /\ o[1] = "resolved"
      BY <1>0, <2>5, OutputKinds DEF OwnersInv
    <3>2. QED
      BY <1>3, <2>5, <3>1
  <2>6. QED
    BY <1>5, <2>3, <2>5
<1>10. ASSUME Exit \/ Close \/ UNCHANGED vars PROVE Added
  BY <1>5, <1>10 DEF Exit, Close, vars, pipes
<1>11. ASSUME NEW u \in AppTurns, EndTurn(u) PROVE Added
  BY <1>4, <1>11 DEF EndTurn
<1>12. Added
  BY <1>6, <1>7, <1>8, <1>9, <1>10, <1>11 DEF AppServer
<1>13. QED
  BY <1>1, <1>2, <1>12 DEF Notifies

\* The app-server answers what is at the head.
LEMMA OnceKept ==
  ASSUME WireInv, OnceInv, UNCHANGED <<handler, call>>,
         stdin' = stdin \/ (stdin # <<>> /\ stdin' = Tail(stdin)),
         \A o \in ToSet(stdout') : \/ o \in ToSet(stdout) \/ o[1] # "response"
                                   \/ /\ stdin # <<>> /\ stdin' = Tail(stdin)
                                      /\ Head(stdin)[1] # "answer" /\ Head(stdin)[2] = o[2]
  PROVE  OnceInv'
<1> DEFINE P == Requested
<1>1. P' = P /\ Responses' = Responses
  BY DEF Requested, Responses
<1>2. stdin \in Seq(Inputs) /\ Precedes(stdin, P, P)
  BY Piped DEF OnceInv
<1>3. ToSet(stdin') \subseteq ToSet(stdin)
  BY <1>2, MembersLeft
<1>4. Precedes(stdin', P, P) /\ (stdin # <<>> /\ stdin' = Tail(stdin) /\ Head(stdin) \in P => Lacks(stdin', P))
  BY <1>2, PrecedesLeft
<1>5. ~Lacks(stdin', P) => call.reply = <<>> /\ Lacks(stdout, Responses)
  BY <1>3 DEF OnceInv, Lacks
<1>6. ASSUME ~Lacks(stdin', P), NEW o \in ToSet(stdout'), o \in Responses PROVE FALSE
  <2>1. o \notin ToSet(stdout)
    BY <1>5, <1>6 DEF Lacks
  <2>2. stdin # <<>> /\ stdin' = Tail(stdin) /\ Head(stdin)[1] # "answer" /\ Head(stdin)[2] = call.id
    BY <1>6, <2>1 DEF Responses
  <2>3. Head(stdin) \in Inputs
    BY <1>2, <2>2, MembersLeft
  <2>4. Head(stdin) \in P
    BY <2>2, <2>3 DEF Requested
  <2>5. QED
    BY <1>4, <1>6, <2>2, <2>4
<1>7. \A m \in ToSet(stdin') : m \in P => m[3] = handler.app
  BY <1>3 DEF OnceInv
<1>8. ~Lacks(stdin', P) => call.reply = <<>> /\ Lacks(stdout', Responses)
  BY <1>5, <1>6 DEF Lacks
<1> HIDE DEF P
<1>9. Precedes(stdin', P', P') /\ (~Lacks(stdin', P') => call'.reply = <<>> /\ Lacks(stdout', Responses'))
      /\ \A m \in ToSet(stdin') : m \in P' => m[3] = handler'.app
  BY <1>1, <1>4, <1>7, <1>8
<1>10. QED
  BY <1>9 DEF OnceInv, Lacks, Precedes, P

LEMMA OnceStep ==
  ASSUME WireInv, WireInv', TablesOk, NamesInv, KindsInv, OnceInv, [Next]_vars
  PROVE  OnceInv'
<1>1. CASE Handler \/ Backend
  <2>1. PICK h : Acts(h)
    BY <1>1, HandlerActs, BackendActs
  <2>2. QED
    BY <1>1, <2>1, HandlerLeaves, ActsOnce
<1>2. ASSUME NEW o, Takes(o) PROVE OnceInv'
  <2>1. /\ o \in ToSet(stdout) /\ ToSet(stdout') \subseteq ToSet(stdout) /\ handler' = handler
        /\ Responses' = Responses /\ Requested' = Requested
        /\ call'.reply = call.reply \/ (o \in Responses /\ call'.reply = o[3])
    BY <1>2, TakenRead DEF Takes
  <2>2. PICK P, R : P = Requested /\ R = Responses
    OBVIOUS
  <2>3. /\ Precedes(stdin, P, P) /\ (~Lacks(stdin, P) => call.reply = <<>> /\ Lacks(stdout, R))
        /\ \A m \in ToSet(stdin) : m \in P => m[3] = handler.app
        /\ \A m \in P : m[1] # "answer"
    BY <2>2 DEF OnceInv, Requested
  <2>4. Precedes(stdin', P, P) /\ (\A m \in ToSet(stdin') : m \in ToSet(stdin) \/ m[1] = "answer")
    BY <1>2, <2>3, AnswerAdded DEF Takes
  <2>5. ~Lacks(stdin', P) => call'.reply = <<>> /\ Lacks(stdout', R)
    BY <2>1, <2>2, <2>3, <2>4 DEF Lacks
  <2>6. \A m \in ToSet(stdin') : m \in P => m[3] = handler'.app
    BY <2>1, <2>3, <2>4
  <2>7. P = Requested' /\ R = Responses'
    BY <2>1, <2>2
  <2>8. QED
    BY <2>4, <2>5, <2>6, <2>7 DEF OnceInv, Lacks, Precedes
<1>3. CASE Emit
  <2>1. \A m \in ToSet(stdout') : m \in ToSet(stdout)
    BY <1>3, EmitLeaves
  <2>2. QED
    BY <1>3, <2>1, EmitLeaves, OnceKept
<1>4. CASE Serve
  <2>1. PICK m \in Requests, o \in Outputs, r \in Seq(Outputs) :
          /\ m = Head(stdin) /\ m \in ToSet(stdin) /\ stdin # <<>> /\ stdin' = Tail(stdin)
          /\ o[1] = "response" /\ o[2] = m[2]
          /\ stdout' = stdout \o r /\ \A p \in ToSet(r) : p = o \/ EndsTurn(p)
          /\ Leads(m, o[3][1] # "not found")
          /\ UNCHANGED <<reverseMap, handler, call, items, archived, gaveUp, dropped, nextId>>
    BY <1>4, ServeDoes
  <2>2. ToSet(stdout \o r) = ToSet(stdout) \cup ToSet(r) /\ m[1] # "answer"
    BY Piped, MembersJoined DEF Requests, Methods
  <2>3. \A p \in ToSet(stdout') : p \in ToSet(stdout) \/ p[1] # "response" \/ (m[1] # "answer" /\ m[2] = p[2])
    BY <2>1, <2>2 DEF EndsTurn
  <2>4. QED
    BY <2>1, <2>3, OnceKept
<1>5. CASE (AppServer /\ ~Serve) \/ Close \/ UNCHANGED vars
  BY <1>5, NotifyAdds, OnceKept
<1>6. QED
  BY <1>1, <1>2, <1>3, <1>4, <1>5, ReaderTakes DEF Next

LEMMA KindsStep ==
  ASSUME WireInv, TablesOk, NamesInv, KindsInv, [Next]_vars
  PROVE  KindsInv'
<1>0. /\ loaded \subseteq made /\ 0 \notin archived \cup gaveUp /\ AskedInv
      /\ \A a \in AppThreads : a \in made \/ Lacks(stdout, Closings(a))
      /\ \A a : Closings(a)' = Closings(a)
      /\ stdin \in Seq(Inputs) /\ stdout \in Seq(Outputs) /\ made \subseteq AppThreads
  BY Piped DEF KindsInv, Closings, WireInv, OwnersInv
<1>1. ASSUME UNCHANGED <<handler, archived, gaveUp>>, made \subseteq made', loaded' \subseteq made',
             \A m \in ToSet(stdin') : m \in ToSet(stdin) \/ m[1] = "answer",
             \A o \in ToSet(stdout') : o \in ToSet(stdout) \/ (o[1] = "closed" => o[2] \in made)
      PROVE  KindsInv'
  <2>1. AskedInv'
    BY <1>0, <1>1 DEF AskedInv
  <2>2. ASSUME NEW a \in AppThreads, a \notin made', NEW o \in ToSet(stdout') PROVE o \notin Closings(a)
    <3>1. a \notin made
      BY <1>1, <2>2
    <3>2. CASE o \in ToSet(stdout)
      BY <1>0, <3>1, <3>2 DEF Lacks
    <3>3. CASE o[1] = "closed" => o[2] \in made
      BY <3>1, <3>3 DEF Closings
    <3>4. QED
      BY <1>1, <3>2, <3>3
  <2>3. (\A a \in AppThreads : a \in made \/ Lacks(stdout, Closings(a)))'
    BY <1>0, <2>2 DEF Lacks
  <2>4. QED
    BY <1>0, <1>1, <2>1, <2>3 DEF KindsInv
<1>2. CASE Handler \/ Backend
  <2>1. UNCHANGED <<stdout, loaded, made>>
    BY <1>2, HandlerLeaves
  <2>2. PICK h : Acts(h)
    BY <1>2, HandlerActs, BackendActs
  <2>3. AskedInv'
    BY <2>1, <2>2, ActsKinds
  <2>4. 0 \notin archived' \cup gaveUp'
    <3>1. CASE TimesOut
      <4>1. call.id # 0 /\ archived' = archived
            /\ gaveUp' = gaveUp \cup (IF handler.at = "thread/resume" THEN {handler.app} ELSE {})
        BY <3>1 DEF TimesOut
      <4>2. handler.at = "thread/resume" => handler.app # 0
        BY Underway DEF WireInv, Methods
      <4>3. QED
        BY <1>0, <4>1, <4>2
    <3>2. CASE Handler /\ ~TimesOut
      BY <1>0, <3>2 DEF Handler, Mapped, ThreadStarted, TurnStarted, Resumed, Answered, Archived, SendAnswer,
                        Remember, told
    <3>3. ASSUME NEW t \in Turns, NEW given, NEW named,
    TurnStart(t, given) \/ TurnSteer(t, given, named) \/ TurnCancel(t, given, named)
          PROVE  0 \notin archived' \cup gaveUp'
      BY <1>0, <3>3 DEF TurnStart, TurnSteer, TurnCancel, told
    <3>4. ASSUME NEW x \in Threads, NEW given,
                 ThreadResume(x, given) \/ ThreadArchive(x, given) \/ ThreadUnarchive(x, given) \/ SyncAck(x)
          PROVE  0 \notin archived' \cup gaveUp'
      BY <1>0, <3>4 DEF ThreadResume, ThreadArchive, ThreadUnarchive, SyncAck, told
    <3>5. ASSUME NEW i \in Asks, NEW d \in Decisions, Respond(i, d) PROVE 0 \notin archived' \cup gaveUp'
      BY <1>0, <3>5 DEF Respond, told
    <3>6. CASE Backend
      BY <3>3, <3>4, <3>5, <3>6 DEF Backend
    <3>7. QED
      BY <1>2, <3>1, <3>2, <3>6
  <2>5. (\A a \in AppThreads : a \in made \/ Lacks(stdout, Closings(a)))'
    BY <1>0, <2>1 DEF Lacks
  <2>6. QED
    BY <1>0, <2>1, <2>3, <2>4, <2>5 DEF KindsInv
<1>3. ASSUME NEW o, Takes(o) PROVE KindsInv'
  <2>1. UNCHANGED <<handler, archived, gaveUp, made, loaded>> /\ ToSet(stdout') \subseteq ToSet(stdout)
    BY <1>3, TakenRead DEF Takes
  <2>2. Precedes(stdin, {}, {}) /\ \A m \in {} : m[1] # "answer"
    BY DEF Precedes
  <2>3. \A m \in ToSet(stdin') : m \in ToSet(stdin) \/ m[1] = "answer"
    BY <1>3, <2>2, AnswerAdded DEF Takes
  <2>4. QED
    BY <1>0, <1>1, <2>1, <2>3
<1>4. CASE Emit
  BY <1>0, <1>1, <1>4, EmitLeaves
<1>5. CASE Serve
  <2>1. PICK m \in Requests, o \in Outputs, r \in Seq(Outputs) :
          /\ m = Head(stdin) /\ m \in ToSet(stdin) /\ stdin # <<>> /\ stdin' = Tail(stdin)
          /\ o[1] = "response" /\ o[2] = m[2]
          /\ stdout' = stdout \o r /\ \A p \in ToSet(r) : p = o \/ EndsTurn(p)
          /\ Leads(m, o[3][1] # "not found")
          /\ UNCHANGED <<reverseMap, handler, call, items, archived, gaveUp, dropped, nextId>>
    BY <1>5, ServeDoes
  <2>2. ToSet(stdout \o r) = ToSet(stdout) \cup ToSet(r)
    BY <1>0, MembersJoined
  <2>3. \A p \in ToSet(stdout') : p \in ToSet(stdout) \/ p[1] # "closed"
    BY <2>1, <2>2 DEF EndsTurn
  <2>4. ToSet(stdin') \subseteq ToSet(stdin)
    BY <1>0, <2>1, MembersLeft
  <2>5. made \subseteq made' /\ loaded' \subseteq made'
    <3>1. m[1] = "thread/resume" => m[3] \in made
      BY <1>0, <2>1 DEF AskedInv
    <3>2. QED
      BY <1>0, <2>1, <3>1 DEF Leads
  <2>6. QED
    BY <1>1, <2>1, <2>3, <2>4, <2>5
<1>6. CASE (AppServer /\ ~Serve) \/ Close \/ UNCHANGED vars
  <2>1. /\ loaded' \subseteq loaded /\ UNCHANGED <<archived, gaveUp, handler, made>>
        /\ stdin' = stdin \/ (stdin # <<>> /\ stdin' = Tail(stdin))
        /\ \A o \in ToSet(stdout') : o \in ToSet(stdout) \/ (o[1] = "closed" => o[2] \in loaded)
    BY <1>6, NotifyAdds
  <2>2. ToSet(stdin') \subseteq ToSet(stdin)
    BY <1>0, <2>1, MembersLeft
  <2>3. QED
    BY <1>0, <1>1, <2>1, <2>2
<1>7. QED
  BY <1>2, <1>3, <1>4, <1>5, <1>6, ReaderTakes DEF Next

\* What is dropped was read while its thread was not bound.
LEMMA DroppedStep ==
  ASSUME WireInv, TablesOk, StartedInv, KindsInv, DroppedInv, \A a \in AppThreads : Kept(a) => ThreadInv(a), [Next]_vars
  PROVE  DroppedInv'
<1>0. /\ dropped \subseteq AppTurns /\ \A u \in dropped : home[u] \in archived \cup gaveUp
      /\ 0 \notin archived \cup gaveUp /\ home \in [AppTurns -> AppThreads \cup {0}]
  BY DEF DroppedInv, NoEventDropped, KindsInv, WireInv, OwnersInv
<1>1. ASSUME archived \subseteq archived', gaveUp \subseteq gaveUp', dropped' = dropped,
             \A u \in AppTurns : home[u] # 0 => home'[u] = home[u]
      PROVE  DroppedInv'
  BY <1>0, <1>1 DEF DroppedInv, NoEventDropped
<1>2. CASE Handler \/ Backend
  BY <1>1, <1>2, HandlerLeaves
<1>3. ASSUME NEW o, Takes(o), Reader PROVE DroppedInv'
  <2>1. UNCHANGED <<home, archived, gaveUp>>
    BY <1>3 DEF Takes
  <2>2. ASSUME NEW p \in ToSet(stdout), NEW u, p \in Outputs, dropped' = dropped \cup {u}, reverseMap[home[u]] = None,
               \/ p[1] = "turn" /\ u = p[2]
               \/ p[1] \in {"delta", "message"} /\ u = items[p[2]].turn
        PROVE  DroppedInv'
    <3>1. Started(u)
      BY <2>2 DEF StartedInv
    <3>2. PICK a \in AppThreads : a = home[u]
      BY <1>0, <3>1 DEF Started
    <3>3. p \in Reports(a)
      BY <2>2, <3>1, <3>2 DEF Reports, ReportsOf, TurnIn, Started
    <3>4. ~Lacks(stdout, Reports(a))
      BY <2>2, <3>3 DEF Lacks
    <3>5. ~Kept(a)
      BY <2>2, <3>2, <3>4 DEF ThreadInv, ReportsHeard
    <3>6. QED
      BY <1>0, <2>1, <2>2, <3>1, <3>2, <3>5 DEF Kept, Started, DroppedInv, NoEventDropped
  <2>3. ASSUME Reads("turn") \/ Reads("delta") \/ Reads("message")
        PROVE  \E p \in ToSet(stdout) : p = Head(stdout) /\ p \in Outputs
    BY <2>3, Piped, MembersLeft DEF Reads
  <2>4. CASE ReadTurn
    <3>1. PICK p \in ToSet(stdout) : p = Head(stdout) /\ p \in Outputs
      BY <2>3, <2>4 DEF ReadTurn
    <3>2. p[1] = "turn" /\ (dropped' = dropped \/ (reverseMap[home[p[2]]] = None /\ dropped' = dropped \cup {p[2]}))
      BY <2>4, <3>1 DEF ReadTurn, Reads
    <3>3. QED
      BY <1>1, <2>1, <2>2, <3>1, <3>2
  <2>5. CASE ReadDelta \/ ReadMessage
    <3>1. PICK p \in ToSet(stdout) : p = Head(stdout) /\ p \in Outputs
      BY <2>3, <2>5 DEF ReadDelta, ReadMessage
    <3>2. PICK u : u = items[p[2]].turn
      OBVIOUS
    <3>3. p[1] \in {"delta", "message"} /\ (dropped' = dropped \/ (reverseMap[home[u]] = None /\ dropped' = dropped \cup {u}))
      BY <2>5, <3>1, <3>2 DEF ReadDelta, ReadMessage, Reads
    <3>4. QED
      BY <1>1, <2>1, <2>2, <3>1, <3>2, <3>3
  <2>6. CASE ReadResponse \/ ReadAsk \/ ReadResolved \/ ReadClosed \/ Emit
    <3>1. dropped' = dropped
      BY <2>6 DEF ReadResponse, ReadAsk, ReadResolved, ReadClosed, Emit, told
    <3>2. QED
      BY <1>1, <2>1, <3>1
  <2>7. QED
    BY <1>3, <2>4, <2>5, <2>6 DEF Reader
<1>4. CASE Emit
  BY <1>1, <1>4, EmitLeaves
<1>5. CASE Serve
  <2>1. PICK m \in Requests, o \in Outputs, r \in Seq(Outputs) :
          /\ Leads(m, o[3][1] # "not found")
          /\ UNCHANGED <<reverseMap, handler, call, items, archived, gaveUp, dropped, nextId>>
    BY <1>5, ServeDoes
  <2>2. \A u \in AppTurns : home[u] # 0 => home'[u] = home[u]
    BY <1>0, <2>1 DEF Leads
  <2>3. QED
    BY <1>1, <2>1, <2>2
<1>6. CASE (AppServer /\ ~Serve) \/ Close \/ UNCHANGED vars
  BY <1>1, <1>6, NotifyAdds
<1>7. QED
  BY <1>2, <1>3, <1>4, <1>5, <1>6, ReaderTakes DEF Next

LEMMA HeardAllInit == Init => HeardAllInv
<1> SUFFICES ASSUME Init PROVE HeardAllInv
  OBVIOUS
<1>1. /\ stdin = <<>> /\ stdout = <<>> /\ ToSet(stdin) = {} /\ ToSet(stdout) = {} /\ Len(stdin) = 0 /\ Len(stdout) = 0
      /\ running = {} /\ loaded = {} /\ archived = {} /\ gaveUp = {} /\ dropped = {}
      /\ handler.at = "idle" /\ handler.op # "archive" /\ handler.app = 0
  BY CodexConstants DEF Init, ToSet, Idle, None
<1>2. \A P, Q : Precedes(stdin, P, Q) /\ Precedes(stdout, P, Q) /\ Lacks(stdin, P) /\ Lacks(stdout, P)
  BY <1>1 DEF Precedes, Lacks
<1>3. OnceInv
  BY <1>1, <1>2 DEF OnceInv
<1>4. KindsInv
  BY <1>1, <1>2 DEF KindsInv, AskedInv
<1>5. ASSUME NEW a \in AppThreads PROVE ThreadInv(a)
  <2>1. RunningIn(a) = {} /\ \A k \in {"thread/resume", "turn/start", "mapping"} : ~At(k, a)
    BY <1>1 DEF RunningIn, At
  <2>2. ReportsHeard(a) /\ StartsFit(a) /\ ResumesAwaited(a)
    BY <1>1, <1>2, <2>1 DEF ReportsHeard, StartsFit, ResumesAwaited
  <2>3. RetryFit(a)
    BY <2>1 DEF RetryFit
  <2>4. QED
    BY <2>2, <2>3 DEF ThreadInv
<1>6. DroppedInv
  BY <1>1 DEF DroppedInv, NoEventDropped
<1>7. QED
  BY <1>3, <1>4, <1>5, <1>6 DEF HeardAllInv

LEMMA ThreadsStep ==
  ASSUME OwnedInv, EventInv, HeardAllInv, [Next]_vars
  PROVE  (\A a \in AppThreads : Kept(a) => ThreadInv(a))'
<1>0. WireInv /\ TablesOk /\ NamesInv /\ StartedInv /\ OnceInv /\ KindsInv
  BY DEF OwnedInv, EventInv, HeardAllInv
<1>1. archived \subseteq archived' /\ gaveUp \subseteq gaveUp'
  <2>1. CASE Serve
    BY <1>0, <2>1, ServeDoes
  <2>2. CASE Reader
    BY <1>0, <2>2, EmitLeaves, ReaderTakes DEF Takes
  <2>3. QED
    BY <1>0, <2>1, <2>2, HandlerLeaves, NotifyAdds DEF Next
<1>2. ASSUME NEW a \in AppThreads, Kept(a)' PROVE ThreadInv(a)'
  <2>1. ThreadInv(a)
    BY <1>1, <1>2 DEF Kept, HeardAllInv
  <2>2. QED
    BY <1>0, <1>2, <2>1, HandlerFits, BackendFits, ReaderFits, ServeFits, NotifiesFits DEF Next
<1>3. QED
  BY <1>2

LEMMA EventsHeard == Spec => []HeardAllInv
<1>1. OwnedInv /\ EventInv /\ HeardAllInv /\ [Next]_vars /\ OwnedInv' => HeardAllInv'
  BY OnceStep, KindsStep, ThreadsStep, DroppedStep DEF OwnedInv, EventInv, HeardAllInv
<1>2. QED
  BY HeardAllInit, TurnsOwned, EventsTracked, <1>1, PTL DEF Spec

\* No event of a turn is dropped because its thread is not bound when it is read, unless
\* the server asked to archive the thread or a thread/resume of it timed out
\* (codex_app_server.py:871): whatever the app-server closes and the handler resumes, and
\* in whatever order the reader comes to it.
THEOREM EventsNotDropped == Spec => []NoEventDropped
<1>1. HeardAllInv => NoEventDropped
  BY DEF HeardAllInv, DroppedInv
<1>2. QED
  BY EventsHeard, <1>1, PTL
------------------------------------------------------------------------------
(* Messages that are put together: of a message that is awaited, a beginning is kept in the
   buffers and the rest is coming, in order; when its end is read nothing is left to come. *)

FragmentAt(p, i) == p \in 1..Len(stdout) /\ stdout[p][1] = "delta" /\ stdout[p][2] = i
EndAt(p, i)      == p \in 1..Len(stdout) /\ stdout[p][1] = "message" /\ stdout[p][2] = i
Buffered(i)      == \E k \in 1..Len(deltas) : deltas[k].key[3] = i
Over(i)          == items[i].done \/ items[i].turn \notin running

\* In an app-server thread one turn runs, and it is at one message.
OneSpeaker ==
  /\ \A u, v \in running : home[u] = home[v] => u = v
  /\ \A i \in Items : IF items[i].turn = 0 THEN items[i].text = <<>> /\ ~items[i].done
                                           ELSE Started(items[i].turn)
  /\ \A i, j \in Items :
       items[i].turn # 0 /\ items[i].turn = items[j].turn /\ ~items[i].done /\ ~items[j].done => i = j

\* The end of a message comes after its fragments, and once; and when it comes, nothing is
\* kept of a message of the same app-server thread that is still awaited.
EndsLast ==
  \A i \in Items : \A p \in 1..Len(stdout) : EndAt(p, i) =>
    /\ items[i].done
    /\ \A q \in 1..Len(stdout) : FragmentAt(q, i) \/ EndAt(q, i) => q <= p
OneAfterAnother ==
  \A i, j \in Items : \A p \in 1..Len(stdout) :
    /\ i # j /\ EndAt(p, j) /\ (Buffered(i) \/ \E q \in 1..(p - 1) : FragmentAt(q, i))
    /\ home[items[i].turn] = home[items[j].turn]
    => Over(i) /\ \A q \in 1..Len(stdout) : EndAt(q, i) => q < p

Buffers == [key : Threads \X (Turns \cup {None}) \X Items, text : Seq(Nat)]

\* A buffer belongs to a message, under its turn as the reader knew it.
BuffersOwned ==
  \A k \in 1..Len(deltas) :
    LET d == deltas[k]  u == items[d.key[3]].turn
    IN /\ u # 0 /\ d.key[1] = ThreadOf[owner[u]]
       /\ IF d.key[2] = None THEN d.key[3] \in early ELSE d.key[2] = reverseTurn[u]
BuffersInv ==
  /\ deltas \in Seq(Buffers)
  /\ \A k, l \in 1..Len(deltas) : deltas[k].key = deltas[l].key => k = l
  /\ BuffersOwned

\* Of a message that is awaited, a beginning is kept and the rest is coming.
OwnKey(i) == <<ThreadOf[owner[items[i].turn]], reverseTurn[items[i].turn], i>>
Holds(i, r) ==
  IF r = 0 THEN \A k \in 1..Len(deltas) : deltas[k].key # OwnKey(i)
           ELSE \E k \in 1..Len(deltas) : deltas[k].key = OwnKey(i) /\ deltas[k].text = SubSeq(items[i].text, 1, r)
Coming(i, r, f) ==
  LET rest == (r + 1)..Len(items[i].text)
  IN /\ \A k \in rest : FragmentAt(f[k], i) /\ stdout[f[k]][3] = items[i].text[k]
     /\ \A k, l \in rest : k < l => f[k] < f[l]
     /\ \A p \in 1..Len(stdout) : FragmentAt(p, i) => \E k \in rest : f[k] = p
Whole(i) == \E r \in 0..Len(items[i].text) :
              Holds(i, r) /\ \E f \in [(r + 1)..Len(items[i].text) -> 1..Len(stdout)] : Coming(i, r, f)
Awaited(i) ==
  /\ items[i].turn # 0 /\ items[i].turn \notin dropped /\ Rivals(i) = {}
  /\ i \in early => reverseTurn[items[i].turn] = None
  /\ ~Over(i) \/ \E p \in 1..Len(stdout) : EndAt(p, i)

SentInFull(m) ==
  LET i == m[1]
  IN \/ items[i].text \in {<<>>, m[3]}
     \/ i \in early /\ m[2] # None
     \/ items[i].turn \in dropped
     \/ Rivals(i) # {}
SentInv == \A m \in messages : m[1] \in Items /\ items[m[1]].done /\ SentInFull(m)

SpeechInv == OneSpeaker /\ EndsLast /\ OneAfterAnother /\ BuffersInv
               /\ (\A i \in Items : Awaited(i) => Whole(i)) /\ SentInv

\* What no step takes back.
Grows ==
  /\ \A j \in Items : items[j].turn # 0 => /\ items'[j].turn = items[j].turn
                                           /\ items[j].done => items'[j].done
  /\ \A u \in AppTurns : home[u] # 0 => /\ home'[u] = home[u] /\ owner'[u] = owner[u]
                                        /\ reverseTurn[u] \in {None, reverseTurn'[u]}
  /\ \A u \in running' : u \in running \/ home[u] = 0
  /\ early \subseteq early' /\ dropped \subseteq dropped'

\* What comes of a message is as far behind as before, or one place nearer.
SpeechAt(p, i) == FragmentAt(p, i) \/ EndAt(p, i)
Moves(d, i) ==
  /\ \A p \in Nat : SpeechAt(p, i)' => SpeechAt(p + d, i) /\ stdout[p + d] = stdout'[p]
  /\ \A p \in Nat : SpeechAt(p, i) => SpeechAt(p - d, i)' /\ stdout'[p - d] = stdout[p]

BuffersStay(i) ==
  /\ \A k \in 1..Len(deltas) : deltas[k].key[3] = i => \E l \in 1..Len(deltas') : deltas'[l] = deltas[k]
  /\ \A l \in 1..Len(deltas') : deltas'[l].key[3] = i => \E k \in 1..Len(deltas) : deltas[k] = deltas'[l]

ItemsOk == items \in [Items -> [turn : AppTurns \cup {0}, text : Seq(Nat), done : BOOLEAN]]

LEMMA RivalsGrow ==
  ASSUME OneSpeaker, Grows, NEW i \in Items, items[i].turn # 0
  PROVE  Rivals(i) \subseteq Rivals(i)'
<1>1. ASSUME NEW j \in Rivals(i) PROVE j \in Rivals(i)'
  <2>1. /\ j \in Items /\ items[j].done /\ home[items[j].turn] # home[items[i].turn]
        /\ ThreadOf[owner[items[j].turn]] = ThreadOf[owner[items[i].turn]]
    BY DEF Rivals
  <2>2. items[j].turn # 0 /\ Started(items[j].turn) /\ Started(items[i].turn)
    BY <2>1 DEF OneSpeaker
  <2>3. items'[j].turn = items[j].turn /\ items'[i].turn = items[i].turn /\ items'[j].done
    BY <2>1, <2>2 DEF Grows
  <2>4. /\ home'[items[j].turn] = home[items[j].turn] /\ home'[items[i].turn] = home[items[i].turn]
        /\ owner'[items[j].turn] = owner[items[j].turn] /\ owner'[items[i].turn] = owner[items[i].turn]
    BY <2>2 DEF Grows, Started
  <2>5. QED
    BY <2>1, <2>3, <2>4 DEF Rivals
<1>2. QED
  BY <1>1

\* A message that is awaited after a step was awaited before.
LEMMA AwaitedBefore ==
  ASSUME OneSpeaker, Grows, NEW i \in Items, items[i].turn # 0, Awaited(i)',
         items'[i].done => items[i].done,
         NEW d \in 0..1, \A p \in Nat : SpeechAt(p, i)' => SpeechAt(p + d, i) /\ stdout[p + d] = stdout'[p]
  PROVE  Awaited(i)
<1>1. Started(items[i].turn) /\ items'[i].turn = items[i].turn
  BY DEF OneSpeaker, Grows
<1>2. Rivals(i) = {} /\ items[i].turn \notin dropped
  BY <1>1, RivalsGrow DEF Awaited, Grows
<1>3. i \in early => reverseTurn[items[i].turn] = None
  BY <1>1 DEF Awaited, Grows, Started
<1>4. ASSUME ~Over(i)' PROVE ~Over(i)
  BY <1>1, <1>4 DEF Over, Grows, Started
<1>5. ASSUME NEW p \in 1..Len(stdout'), EndAt(p, i)' PROVE \E q \in 1..Len(stdout) : EndAt(q, i)
  <2>1. p \in Nat /\ SpeechAt(p, i)'
    BY <1>5 DEF SpeechAt
  <2>2. SpeechAt(p + d, i) /\ stdout[p + d] = stdout'[p]
    BY <2>1
  <2>3. p + d \in 1..Len(stdout) /\ stdout[p + d][1] = "message" /\ stdout[p + d][2] = i
    BY <1>5, <2>2 DEF SpeechAt, FragmentAt, EndAt
  <2>4. QED
    BY <2>3 DEF EndAt
<1>6. QED
  BY <1>1, <1>2, <1>3, <1>4, <1>5 DEF Awaited

\* What is kept of a message stays, also when its turn is bound: then nothing was read of it.
LEMMA HoldsKept ==
  ASSUME OneSpeaker, BuffersOwned, Grows, NEW i \in Items, items[i].turn # 0, items'[i] = items[i],
         Awaited(i)', BuffersStay(i), NEW r \in Nat, Holds(i, r)
  PROVE  Holds(i, r)'
<1> DEFINE u == items[i].turn
<1>1. Started(u) /\ owner'[u] = owner[u] /\ reverseTurn[u] \in {None, reverseTurn'[u]}
  BY DEF OneSpeaker, Grows, Started
<1>2. CASE reverseTurn'[u] = reverseTurn[u]
  <2>1. OwnKey(i)' = OwnKey(i) /\ OwnKey(i)[3] = i
    BY <1>1, <1>2 DEF OwnKey
  <2>2. CASE r = 0
    <3>1. \A k \in 1..Len(deltas) : deltas[k].key # OwnKey(i)
      BY <2>2 DEF Holds
    <3>2. \A k \in 1..Len(deltas') : deltas'[k].key # OwnKey(i)
      BY <2>1, <3>1 DEF BuffersStay
    <3>3. QED
      BY <2>1, <2>2, <3>2 DEF Holds
  <2>3. CASE r # 0
    <3>1. PICK k \in 1..Len(deltas) : deltas[k].key = OwnKey(i) /\ deltas[k].text = SubSeq(items[i].text, 1, r)
      BY <2>3 DEF Holds
    <3>2. PICK l \in 1..Len(deltas') : deltas'[l] = deltas[k]
      BY <2>1, <3>1 DEF BuffersStay
    <3>3. QED
      BY <2>1, <2>3, <3>1, <3>2 DEF Holds
  <2>4. QED
    BY <2>2, <2>3
<1>3. CASE reverseTurn'[u] # reverseTurn[u]
  <2>1. reverseTurn[u] = None /\ reverseTurn'[u] # None
    BY <1>1, <1>3
  <2>2. i \notin early
    BY <2>1 DEF Awaited, Grows
  <2>3. \A k \in 1..Len(deltas) : deltas[k].key[3] # i
    BY <2>1, <2>2 DEF BuffersOwned
  <2>4. \A k \in 1..Len(deltas') : deltas'[k].key[3] # i
    BY <2>3 DEF BuffersStay
  <2>5. OwnKey(i)[3] = i /\ OwnKey(i)'[3] = i
    BY DEF OwnKey
  <2>6. r = 0
    BY <2>3, <2>5 DEF Holds
  <2>7. QED
    BY <2>4, <2>5, <2>6 DEF Holds
<1>4. QED
  BY <1>2, <1>3

LEMMA ComingKept ==
  ASSUME NEW i \in Items, ItemsOk, items'[i] = items[i], stdout \in Seq(Outputs), NEW d \in 0..1, Moves(d, i),
         NEW r \in Nat, NEW f \in [(r + 1)..Len(items[i].text) -> 1..Len(stdout)], Coming(i, r, f)
  PROVE  \E g \in [(r + 1)..Len(items[i].text) -> 1..Len(stdout')] : Coming(i, r, g)'
<1> DEFINE rest == (r + 1)..Len(items[i].text)
           g == [k \in rest |-> f[k] - d]
<1>1. \A k \in rest : f[k] \in 1..Len(stdout) /\ f[k] \in Nat /\ FragmentAt(f[k], i) /\ stdout[f[k]][3] = items[i].text[k]
  BY DEF Coming
<1>2. \A k \in rest : SpeechAt(f[k] - d, i)' /\ stdout'[f[k] - d] = stdout[f[k]]
  BY <1>1 DEF Moves, SpeechAt
<1>3. \A k \in rest : FragmentAt(f[k] - d, i)' /\ stdout'[f[k] - d][3] = items'[i].text[k]
  BY <1>1, <1>2 DEF SpeechAt, FragmentAt, EndAt
<1>4. g \in [rest -> 1..Len(stdout')]
  BY <1>3 DEF FragmentAt
<1>5. PICK h \in [rest -> 1..Len(stdout')] : \A k \in rest : h[k] = f[k] - d
  BY <1>4
<1>6. \A k \in rest : FragmentAt(h[k], i)' /\ stdout'[h[k]][3] = items'[i].text[k]
  BY <1>3, <1>5
<1>7. \A k, l \in rest : k < l => h[k] < h[l]
  BY <1>1, <1>5 DEF Coming
<1>8. ASSUME NEW p \in 1..Len(stdout'), FragmentAt(p, i)' PROVE \E k \in rest : h[k] = p
  <2>1. p \in Nat /\ SpeechAt(p, i)'
    BY <1>8 DEF SpeechAt
  <2>2. SpeechAt(p + d, i) /\ stdout[p + d] = stdout'[p]
    BY <2>1 DEF Moves
  <2>3. p + d \in 1..Len(stdout) /\ FragmentAt(p + d, i)
    BY <1>8, <2>2 DEF SpeechAt, FragmentAt, EndAt
  <2>4. PICK k \in rest : f[k] = p + d
    BY <2>3 DEF Coming
  <2>5. h[k] = p
    BY <1>5, <2>1, <2>4
  <2>6. QED
    BY <2>5
<1>9. Coming(i, r, h)'
  BY <1>6, <1>7, <1>8 DEF Coming
<1>10. QED
  BY <1>5, <1>9

LEMMA WholeKept ==
  ASSUME OneSpeaker, BuffersOwned, Grows, ItemsOk, stdout \in Seq(Outputs), NEW i \in Items, items'[i] = items[i],
         NEW d \in 0..1, Moves(d, i), BuffersStay(i), Awaited(i) => Whole(i)
  PROVE  Awaited(i)' => Whole(i)'
<1> SUFFICES ASSUME Awaited(i)' PROVE Whole(i)'
  OBVIOUS
<1>1. items[i].turn # 0
  BY DEF Awaited
<1>2. Whole(i)
  BY <1>1, AwaitedBefore DEF Moves
<1>3. PICK r \in 0..Len(items[i].text) :
        Holds(i, r) /\ \E f \in [(r + 1)..Len(items[i].text) -> 1..Len(stdout)] : Coming(i, r, f)
  BY <1>2 DEF Whole
<1>4. r \in Nat
  OBVIOUS
<1>5. Holds(i, r)'
  BY <1>1, <1>3, <1>4, HoldsKept
<1>6. \E g \in [(r + 1)..Len(items[i].text) -> 1..Len(stdout')] : Coming(i, r, g)'
  BY <1>3, <1>4, ComingKept
<1>7. QED
  BY <1>5, <1>6 DEF Whole

LEMMA OneSpeakerKept ==
  ASSUME OneSpeaker, Grows, items' = items, running \subseteq AppTurns,
         \A u, v \in running' : home'[u] = home'[v] => u = v
  PROVE  OneSpeaker'
<1>1. \A u : Started(u) => Started(u)'
  BY DEF Started, Grows
<1>2. \A i \in Items : IF items[i].turn = 0 THEN items[i].text = <<>> /\ ~items[i].done
                                            ELSE Started(items[i].turn)'
  <2>1. ASSUME NEW i \in Items
        PROVE  IF items[i].turn = 0 THEN items[i].text = <<>> /\ ~items[i].done ELSE Started(items[i].turn)'
    <3>1. items[i].turn = 0 => items[i].text = <<>> /\ ~items[i].done
      BY DEF OneSpeaker
    <3>2. items[i].turn # 0 => Started(items[i].turn)
      BY DEF OneSpeaker
    <3>3. PICK u : u = items[i].turn
      OBVIOUS
    <3>4. u # 0 => Started(u)'
      BY <1>1, <3>2, <3>3
    <3>5. QED
      BY <3>1, <3>3, <3>4
  <2>2. QED
    BY <2>1
<1>3. \A i, j \in Items :
        items[i].turn # 0 /\ items[i].turn = items[j].turn /\ ~items[i].done /\ ~items[j].done => i = j
  BY DEF OneSpeaker
<1>4. QED
  BY <1>2, <1>3 DEF OneSpeaker

\* Reading changes nothing in the order of what is still to be read.
ComesFrom(d) == \A i \in Items : \A p \in Nat : SpeechAt(p, i)' => SpeechAt(p + d, i) /\ stdout[p + d] = stdout'[p]

LEMMA ComesFromKind ==
  ASSUME NEW d \in 0..1, ComesFrom(d), NEW i \in Items, NEW p \in Nat
  PROVE  /\ FragmentAt(p, i)' => FragmentAt(p + d, i)
         /\ EndAt(p, i)' => EndAt(p + d, i)
<1>1. ASSUME SpeechAt(p, i)' PROVE /\ p + d \in 1..Len(stdout)
                                   /\ stdout[p + d] = stdout'[p]
  BY <1>1 DEF ComesFrom, SpeechAt, FragmentAt, EndAt
<1>2. ASSUME FragmentAt(p, i)' PROVE FragmentAt(p + d, i)
  <2>1. SpeechAt(p, i)' /\ stdout'[p][1] = "delta" /\ stdout'[p][2] = i
    BY <1>2 DEF SpeechAt, FragmentAt
  <2>2. QED
    BY <1>1, <2>1 DEF FragmentAt
<1>3. ASSUME EndAt(p, i)' PROVE EndAt(p + d, i)
  <2>1. SpeechAt(p, i)' /\ stdout'[p][1] = "message" /\ stdout'[p][2] = i
    BY <1>3 DEF SpeechAt, EndAt
  <2>2. QED
    BY <1>1, <2>1 DEF EndAt
<1>4. QED
  BY <1>2, <1>3

LEMMA OrderKept ==
  ASSUME OneSpeaker, BuffersOwned, Grows, items' = items, stdout \in Seq(Outputs), stdout' \in Seq(Outputs),
         StartedInv, EndsLast, OneAfterAnother, NEW d \in 0..1, ComesFrom(d),
         \A i \in Items : Buffered(i)' => Buffered(i) \/ (d = 1 /\ FragmentAt(1, i)),
         deltas \in Seq(Buffers)
  PROVE  EndsLast' /\ OneAfterAnother'
<1>1. EndsLast'
  <2>1. ASSUME NEW i \in Items, NEW p \in 1..Len(stdout'), EndAt(p, i)'
        PROVE  items'[i].done /\ \A q \in 1..Len(stdout') : (FragmentAt(q, i) \/ EndAt(q, i))' => q <= p
    <3>1. p \in Nat /\ p + d \in 1..Len(stdout) /\ EndAt(p + d, i)
      BY <2>1, ComesFromKind DEF EndAt
    <3>2. ASSUME NEW q \in 1..Len(stdout'), (FragmentAt(q, i) \/ EndAt(q, i))' PROVE q <= p
      <4>1. q \in Nat /\ q + d \in 1..Len(stdout) /\ (FragmentAt(q + d, i) \/ EndAt(q + d, i))
        BY <3>2, ComesFromKind DEF FragmentAt, EndAt
      <4>2. q + d <= p + d
        BY <3>1, <4>1 DEF EndsLast
      <4>3. QED
        BY <3>1, <4>1, <4>2
    <3>3. QED
      BY <3>1, <3>2 DEF EndsLast
  <2>2. QED
    BY <2>1 DEF EndsLast
<1>2. ASSUME NEW i \in Items, NEW j \in Items, NEW p \in 1..Len(stdout'), i # j, EndAt(p, j)',
             Buffered(i)' \/ \E q \in 1..(p - 1) : FragmentAt(q, i)',
             home'[items'[i].turn] = home'[items'[j].turn]
      PROVE  Over(i)' /\ \A q \in 1..Len(stdout') : EndAt(q, i)' => q < p
  <2>1. p \in Nat /\ p + d \in 1..Len(stdout) /\ EndAt(p + d, j)
    BY <1>2, ComesFromKind DEF EndAt
  <2>2. Buffered(i) \/ \E q \in 1..(p + d - 1) : FragmentAt(q, i)
    <3>1. CASE Buffered(i)'
      <4>1. Buffered(i) \/ (d = 1 /\ FragmentAt(1, i))
        BY <3>1
      <4>2. d = 1 => 1 \in 1..(p + d - 1)
        BY <1>2
      <4>3. QED
        BY <4>1, <4>2
    <3>2. CASE \E q \in 1..(p - 1) : FragmentAt(q, i)'
      <4>1. PICK q \in 1..(p - 1) : FragmentAt(q, i)'
        BY <3>2
      <4>2. q \in Nat /\ q + d \in 1..(p + d - 1)
        BY <1>2
      <4>3. FragmentAt(q + d, i)
        BY <4>1, <4>2, ComesFromKind
      <4>4. QED
        BY <4>2, <4>3
    <3>3. QED
      BY <1>2, <3>1, <3>2
  <2>3. items[i].turn # 0
    <3>1. CASE Buffered(i)
      BY <3>1 DEF Buffered, BuffersOwned
    <3>2. ASSUME NEW q, FragmentAt(q, i) PROVE items[i].turn # 0
      <4>1. stdout[q] \in ToSet(stdout) /\ stdout[q][1] = "delta" /\ stdout[q][2] = i
        BY <3>2, MembersOf DEF FragmentAt
      <4>2. Started(items[i].turn)
        BY <4>1 DEF StartedInv
      <4>3. QED
        BY <4>2, CodexConstants DEF Started, AppTurns
    <3>3. QED
      BY <2>2, <3>1, <3>2
  <2>4. items[j].done
    BY <2>1 DEF EndsLast
  <2>5. Started(items[i].turn) /\ Started(items[j].turn)
    BY <2>3, <2>4 DEF OneSpeaker
  <2>6. home[items[i].turn] = home[items[j].turn]
    BY <1>2, <2>5 DEF Grows, Started
  <2>7. Over(i) /\ \A q \in 1..Len(stdout) : EndAt(q, i) => q < p + d
    BY <1>2, <2>1, <2>2, <2>6 DEF OneAfterAnother
  <2>8. Over(i)'
    BY <2>5, <2>7 DEF Over, Grows, Started
  <2>9. ASSUME NEW q \in 1..Len(stdout'), EndAt(q, i)' PROVE q < p
    <3>1. q \in Nat /\ q + d \in 1..Len(stdout) /\ EndAt(q + d, i)
      BY <2>9, ComesFromKind DEF EndAt
    <3>2. QED
      BY <2>1, <2>7, <3>1
  <2>10. QED
    BY <2>8, <2>9
<1>3. OneAfterAnother'
  BY <1>2 DEF OneAfterAnother
<1>4. QED
  BY <1>1, <1>3

LEMMA BufferParts ==
  ASSUME deltas \in Seq(Buffers), NEW k \in 1..Len(deltas)
  PROVE  /\ deltas[k].key[1] \in Threads /\ deltas[k].key[2] \in Turns \cup {None} /\ deltas[k].key[3] \in Items
         /\ deltas[k].text \in Seq(Nat) /\ deltas[k] \in Buffers
         /\ \A x, t, i : deltas[k].key = <<x, t, i>> <=>
                          deltas[k].key[1] = x /\ deltas[k].key[2] = t /\ deltas[k].key[3] = i
<1>1. PICK d \in Buffers : d = deltas[k]
  OBVIOUS
<1>2. d.key \in Threads \X (Turns \cup {None}) \X Items /\ d.text \in Seq(Nat)
  BY DEF Buffers
<1>3. PICK key \in Threads \X (Turns \cup {None}) \X Items : key = d.key
  BY <1>2
<1>4. key[1] \in Threads /\ key[2] \in Turns \cup {None} /\ key[3] \in Items
  OBVIOUS
<1>5. \A x, t, i : key = <<x, t, i>> <=> key[1] = x /\ key[2] = t /\ key[3] = i
  OBVIOUS
<1>6. QED
  BY <1>1, <1>2, <1>3, <1>4, <1>5

LEMMA BuffersOwnedKept ==
  ASSUME OneSpeaker, Grows, items' = items, deltas \in Seq(Buffers),
         NEW k, NEW l \in 1..Len(deltas), BuffersOwned, k \in 1..Len(deltas'), deltas'[k].key = deltas[l].key
  PROVE  LET d == deltas'[k]  u == items'[d.key[3]].turn
         IN /\ u # 0 /\ d.key[1] = ThreadOf[owner'[u]]
            /\ IF d.key[2] = None THEN d.key[3] \in early' ELSE d.key[2] = reverseTurn'[u]
<1> DEFINE d == deltas[l]  u == items[d.key[3]].turn
<1>1. /\ u # 0 /\ d.key[1] = ThreadOf[owner[u]]
      /\ IF d.key[2] = None THEN d.key[3] \in early ELSE d.key[2] = reverseTurn[u]
  BY DEF BuffersOwned
<1>2. d.key[3] \in Items
  BY BufferParts
<1>3. Started(u)
  BY <1>1, <1>2 DEF OneSpeaker
<1>4. owner'[u] = owner[u] /\ reverseTurn[u] \in {None, reverseTurn'[u]} /\ early \subseteq early'
  BY <1>3 DEF Grows, Started
<1>5. QED
  BY <1>1, <1>4

\* Nothing is said again of a message that was sent.
LEMMA SentKept ==
  ASSUME OneSpeaker, Grows, SentInv, \A i \in Items : items[i].done => items'[i].text = items[i].text,
         NEW m \in messages
  PROVE  m[1] \in Items /\ items'[m[1]].done /\ SentInFull(m)'
<1>1. m[1] \in Items /\ items[m[1]].done
  BY DEF SentInv
<1>2. items[m[1]].turn # 0 /\ items'[m[1]].turn = items[m[1]].turn /\ items'[m[1]].done
  BY <1>1 DEF OneSpeaker, Grows
<1>3. Rivals(m[1]) \subseteq Rivals(m[1])'
  BY <1>1, <1>2, RivalsGrow
<1>4. SentInFull(m)
  BY DEF SentInv
<1>5. QED
  BY <1>1, <1>2, <1>3, <1>4 DEF SentInFull, Grows

\* A step that neither reads nor writes anything of a message.
LEMMA QuietSpeech ==
  ASSUME WireInv, WireInv', StartedInv, SpeechInv, Grows, UNCHANGED speech,
         \A u, v \in running' : home'[u] = home'[v] => u = v,
         NEW d \in 0..1, \A i \in Items : Moves(d, i)
  PROVE  SpeechInv'
<1>1. /\ OneSpeaker /\ EndsLast /\ OneAfterAnother /\ BuffersInv /\ BuffersOwned /\ SentInv
      /\ deltas \in Seq(Buffers)
      /\ stdout \in Seq(Outputs) /\ stdout' \in Seq(Outputs) /\ running \subseteq AppTurns /\ ItemsOk
      /\ items' = items /\ deltas' = deltas /\ messages' = messages /\ early' = early
  BY DEF SpeechInv, BuffersInv, WireInv, PipesInv, OwnersInv, StartedInv, ItemsOk, speech
<1>2. OneSpeaker'
  BY <1>1, OneSpeakerKept
<1>3. ComesFrom(d)
  BY DEF ComesFrom, Moves
<1>4. EndsLast' /\ OneAfterAnother'
  <2>1. \A i \in Items : Buffered(i)' => Buffered(i)
    BY <1>1 DEF Buffered
  <2>2. QED
    BY <1>1, <1>3, <2>1, OrderKept
<1>5. BuffersInv'
  <2>1. BuffersOwned'
    BY <1>1, BuffersOwnedKept DEF BuffersOwned
  <2>2. QED
    BY <1>1, <2>1 DEF BuffersInv
<1>6. ASSUME NEW i \in Items PROVE Awaited(i)' => Whole(i)'
  <2>1. BuffersStay(i)
    BY <1>1 DEF BuffersStay
  <2>2. Awaited(i) => Whole(i)
    BY DEF SpeechInv
  <2>3. QED
    BY <1>1, <2>1, <2>2, WholeKept
<1>7. SentInv'
  BY <1>1, SentKept DEF SentInv
<1>8. QED
  BY <1>2, <1>4, <1>5, <1>6, <1>7 DEF SpeechInv

\* The app-server says something of a message of a turn that runs.
Utters(u, i, o, w) ==
  /\ u \in running /\ i \in Items /\ ~items[i].done /\ o[1] \in {"delta", "message"} /\ o[2] = i
  /\ items[i].turn = u \/ (items[i].turn = 0 /\ \A j \in Items : items[j].turn = u => items[j].done)
  /\ w.turn = u /\ items' = [items EXCEPT ![i] = w] /\ stdout' = Append(stdout, o)
  /\ UNCHANGED <<maps, told, process, deltas, messages, early>>

LEMMA SpeakUtters ==
  ASSUME StartedInv, OneSpeaker, NEW u \in AppTurns, Speak(u)
  PROVE  \E i \in Items, n \in Nat, w \in [turn : AppTurns \cup {0}, text : Seq(Nat), done : BOOLEAN] :
           Utters(u, i, <<"delta", i, n>>, w) /\ w.text = Append(items[i].text, n) /\ ~w.done
<1>1. PICK i \in Items, n \in 1..MaxFragments :
        /\ \/ items[i].turn = u /\ ~items[i].done
           \/ items[i].turn = 0 /\ \A j \in Items : items[j].turn = u => items[j].done
        /\ items' = [items EXCEPT ![i].turn = u, ![i].text = Append(@, n)]
        /\ stdout' = Append(stdout, <<"delta", i, n>>)
  BY DEF Speak
<1>2. n \in Nat
  BY CodexConstants
<1>3. ~items[i].done /\ items \in [Items -> [turn : AppTurns \cup {0}, text : Seq(Nat), done : BOOLEAN]]
  BY <1>1 DEF OneSpeaker, StartedInv
<1>4. PICK w \in [turn : AppTurns \cup {0}, text : Seq(Nat), done : BOOLEAN] :
        /\ items' = [items EXCEPT ![i] = w]
        /\ w.turn = u /\ w.text = Append(items[i].text, n) /\ w.done = items[i].done
  <2>1. PICK c \in [turn : AppTurns \cup {0}, text : Seq(Nat), done : BOOLEAN] : c = items[i]
    BY <1>3
  <2>2. PICK s \in Seq(Nat) : s = Append(c.text, n)
    <3>1. PICK q \in Seq(Nat) : q = c.text
      OBVIOUS
    <3>2. Append(q, n) \in Seq(Nat)
      BY <1>2
    <3>3. QED
      BY <3>1, <3>2
  <2>3. PICK w : w = [c EXCEPT !.turn = u, !.text = s]
    OBVIOUS
  <2>4. w \in [turn : AppTurns \cup {0}, text : Seq(Nat), done : BOOLEAN] /\ w.turn = u /\ w.text = s /\ w.done = c.done
    BY <2>3
  <2>5. items' = [items EXCEPT ![i] = w]
    BY <1>1, <1>3, <2>1, <2>2, <2>3
  <2>6. QED
    BY <2>1, <2>2, <2>4, <2>5
<1>5. u \in running /\ UNCHANGED <<maps, told, process, deltas, messages, early>>
  BY DEF Speak
<1>6. Utters(u, i, <<"delta", i, n>>, w) /\ ~w.done
  BY <1>1, <1>3, <1>4, <1>5 DEF Utters
<1>7. QED
  BY <1>2, <1>4, <1>6

LEMMA EndMessageUtters ==
  ASSUME StartedInv, OneSpeaker, NEW u \in AppTurns, EndMessage(u)
  PROVE  \E i \in Items, given \in BOOLEAN, w \in [turn : AppTurns \cup {0}, text : Seq(Nat), done : BOOLEAN] :
           Utters(u, i, <<"message", i, given>>, w) /\ w.text = items[i].text /\ w.done
<1>1. PICK i \in Items, given \in BOOLEAN :
        /\ \/ items[i].turn = u /\ ~items[i].done
           \/ items[i].turn = 0 /\ \A j \in Items : items[j].turn = u => items[j].done
        /\ items' = [items EXCEPT ![i].turn = u, ![i].done = TRUE]
        /\ stdout' = Append(stdout, <<"message", i, given>>)
  BY DEF EndMessage
<1>2. ~items[i].done /\ items \in [Items -> [turn : AppTurns \cup {0}, text : Seq(Nat), done : BOOLEAN]]
  BY <1>1 DEF OneSpeaker, StartedInv
<1>3. PICK w : w = [turn |-> u, text |-> items[i].text, done |-> TRUE]
  OBVIOUS
<1>4. w \in [turn : AppTurns \cup {0}, text : Seq(Nat), done : BOOLEAN] /\ w.turn = u /\ w.text = items[i].text /\ w.done
  BY <1>2, <1>3
<1>5. items' = [items EXCEPT ![i] = w]
  BY <1>1, <1>2, <1>3
<1>6. u \in running /\ UNCHANGED <<maps, told, process, deltas, messages, early>>
  BY DEF EndMessage
<1>7. Utters(u, i, <<"message", i, given>>, w)
  BY <1>1, <1>2, <1>4, <1>5, <1>6 DEF Utters
<1>8. QED
  BY <1>4, <1>7

LEMMA UttersLeaves ==
  ASSUME NEW u, NEW i, NEW o, NEW w, Utters(u, i, o, w), ItemsOk, stdout \in Seq(Outputs), o \in Outputs
  PROVE  /\ items'[i] = w /\ \A j \in Items : j # i => items'[j] = items[j]
         /\ UNCHANGED <<home, owner, running, reverseTurn, deltas, messages, early, dropped>>
         /\ Len(stdout') = Len(stdout) + 1 /\ stdout'[Len(stdout) + 1] = o
         /\ \A p \in 1..Len(stdout) : stdout'[p] = stdout[p]
         /\ Len(stdout) \in Nat
  BY DEF Utters, ItemsOk, maps, told, process

LEMMA UttersGrows ==
  ASSUME WireInv, OneSpeaker, NEW u, NEW i, NEW o, NEW w, Utters(u, i, o, w), ItemsOk, o \in Outputs
  PROVE  Grows
<1>1. stdout \in Seq(Outputs) /\ running \subseteq AppTurns
  BY DEF WireInv, PipesInv, OwnersInv
<1>2. \A j \in Items : items[j].turn # 0 => items'[j].turn = items[j].turn /\ (items[j].done => items'[j].done)
  <2>1. ASSUME NEW j \in Items, items[j].turn # 0
        PROVE  items'[j].turn = items[j].turn /\ (items[j].done => items'[j].done)
    <3>1. CASE j = i
      BY <1>1, <2>1, <3>1, UttersLeaves DEF Utters
    <3>2. CASE j # i
      BY <1>1, <3>2, UttersLeaves
    <3>3. QED
      BY <3>1, <3>2
  <2>2. QED
    BY <2>1
<1>3. UNCHANGED <<home, owner, running, reverseTurn, early, dropped>>
  BY <1>1, UttersLeaves
<1>4. QED
  BY <1>2, <1>3 DEF Grows

LEMMA UttersSpeaker ==
  ASSUME WireInv, StartedInv, OneSpeaker, NEW u, NEW i, NEW o, NEW w, Utters(u, i, o, w), o \in Outputs
  PROVE  OneSpeaker'
<1>1. stdout \in Seq(Outputs) /\ running \subseteq AppTurns /\ ItemsOk
  BY DEF WireInv, PipesInv, OwnersInv, StartedInv, ItemsOk
<1>2. /\ items'[i] = w /\ \A j \in Items : j # i => items'[j] = items[j]
      /\ UNCHANGED <<home, owner, running>>
  BY <1>1, UttersLeaves
<1>3. u \in running /\ i \in Items /\ ~items[i].done /\ w.turn = u /\ Started(u)
  BY DEF Utters, StartedInv
<1>4. u # 0 /\ \A v : Started(v)' <=> Started(v)
  BY <1>1, <1>2, <1>3, CodexConstants DEF AppTurns, Started
<1>5. ASSUME NEW j \in Items
      PROVE  IF items'[j].turn = 0 THEN items'[j].text = <<>> /\ ~items'[j].done ELSE Started(items[j].turn)'
  <2>1. CASE j = i
    <3>1. items'[j].turn = u
      BY <1>2, <1>3, <2>1
    <3>2. PICK v : v = items'[j].turn
      OBVIOUS
    <3>3. QED
      BY <1>3, <1>4, <3>1, <3>2
  <2>2. CASE j # i
    <3>1. items'[j] = items[j]
      BY <1>2, <2>2
    <3>2. IF items[j].turn = 0 THEN items[j].text = <<>> /\ ~items[j].done ELSE Started(items[j].turn)
      BY DEF OneSpeaker
    <3>3. PICK v : v = items[j].turn
      OBVIOUS
    <3>4. QED
      BY <1>4, <3>1, <3>2, <3>3
  <2>3. QED
    BY <2>1, <2>2
<1>6. ASSUME NEW j \in Items, NEW l \in Items, items'[j].turn # 0, items'[j].turn = items'[l].turn,
             ~items'[j].done, ~items'[l].done
      PROVE  j = l
  <2>1. ASSUME NEW m \in Items, m # i, items[m].turn = u, ~items[m].done PROVE FALSE
    <3>1. items[i].turn = u
      BY <2>1 DEF Utters
    <3>2. QED
      BY <1>3, <1>4, <2>1, <3>1 DEF OneSpeaker
  <2>2. CASE j = i \/ l = i
    BY <1>2, <1>3, <1>6, <2>1, <2>2
  <2>3. CASE j # i /\ l # i
    BY <1>2, <1>6, <2>3 DEF OneSpeaker
  <2>4. QED
    BY <2>2, <2>3
<1>7. QED
  BY <1>2, <1>5, <1>6 DEF OneSpeaker

LEMMA UttersBuffers ==
  ASSUME WireInv, StartedInv, OneSpeaker, BuffersInv, NEW u, NEW i, NEW o, NEW w, Utters(u, i, o, w), o \in Outputs
  PROVE  BuffersInv'
<1>1. stdout \in Seq(Outputs) /\ ItemsOk /\ deltas \in Seq(Buffers)
  BY DEF WireInv, PipesInv, StartedInv, ItemsOk, BuffersInv
<1>2. /\ items'[i] = w /\ \A j \in Items : j # i => items'[j] = items[j]
      /\ UNCHANGED <<owner, reverseTurn, deltas, early>>
  BY <1>1, UttersLeaves
<1>3. ASSUME NEW k \in 1..Len(deltas')
      PROVE  LET d == deltas'[k]  v == items'[d.key[3]].turn
             IN /\ v # 0 /\ d.key[1] = ThreadOf[owner'[v]]
                /\ IF d.key[2] = None THEN d.key[3] \in early' ELSE d.key[2] = reverseTurn'[v]
  <2>1. k \in 1..Len(deltas) /\ deltas[k].key[3] \in Items
    BY <1>1, <1>2, <1>3, BufferParts
  <2>2. items[deltas[k].key[3]].turn # 0
    BY <2>1 DEF BuffersInv, BuffersOwned
  <2>3. items'[deltas[k].key[3]].turn = items[deltas[k].key[3]].turn
    BY <1>2, <2>1, <2>2 DEF Utters
  <2>4. QED
    BY <1>2, <2>1, <2>3 DEF BuffersInv, BuffersOwned
<1>4. BuffersOwned'
  BY <1>3 DEF BuffersOwned
<1>5. QED
  BY <1>2, <1>4 DEF BuffersInv

LEMMA UttersOthers ==
  ASSUME WireInv, StartedInv, OneSpeaker, BuffersInv, NEW u, NEW i, NEW o, NEW w, Utters(u, i, o, w), o \in Outputs,
         NEW j \in Items, j # i, Awaited(j) => Whole(j)
  PROVE  Awaited(j)' => Whole(j)'
<1>1. stdout \in Seq(Outputs) /\ ItemsOk /\ BuffersOwned /\ Grows
  BY UttersGrows DEF WireInv, PipesInv, StartedInv, ItemsOk, BuffersInv
<1>2. /\ items'[j] = items[j] /\ deltas' = deltas
      /\ Len(stdout') = Len(stdout) + 1 /\ stdout'[Len(stdout) + 1] = o
      /\ \A p \in 1..Len(stdout) : stdout'[p] = stdout[p]
      /\ Len(stdout) \in Nat /\ o[2] = i
  BY <1>1, UttersLeaves DEF Utters
<1>3. ASSUME NEW p \in Nat, SpeechAt(p, j)' PROVE SpeechAt(p, j) /\ stdout[p] = stdout'[p]
  <2>1. p \in 1..Len(stdout') /\ stdout'[p][2] = j
    BY <1>3 DEF SpeechAt, FragmentAt, EndAt
  <2>2. p \in 1..Len(stdout)
    BY <1>2, <2>1
  <2>3. QED
    BY <1>2, <1>3, <2>2 DEF SpeechAt, FragmentAt, EndAt
<1>4. ASSUME NEW p \in Nat, SpeechAt(p, j) PROVE SpeechAt(p, j)' /\ stdout'[p] = stdout[p]
  <2>1. p \in 1..Len(stdout) /\ p \in 1..Len(stdout')
    BY <1>2, <1>4 DEF SpeechAt, FragmentAt, EndAt
  <2>2. QED
    BY <1>2, <1>4, <2>1 DEF SpeechAt, FragmentAt, EndAt
<1>5. PICK d \in 0..1 : d = 0
  OBVIOUS
<1>6. Moves(d, j)
  <2>1. \A p \in Nat : p + d = p /\ p - d = p
    BY <1>5
  <2>2. QED
    BY <1>3, <1>4, <2>1 DEF Moves
<1>7. BuffersStay(j)
  BY <1>2 DEF BuffersStay
<1>8. QED
  BY <1>1, <1>2, <1>6, <1>7, WholeKept

LEMMA UttersSent ==
  ASSUME WireInv, StartedInv, OneSpeaker, SentInv, NEW u, NEW i, NEW o, NEW w, Utters(u, i, o, w), o \in Outputs
  PROVE  SentInv'
<1>1. stdout \in Seq(Outputs) /\ ItemsOk /\ Grows
  BY UttersGrows DEF WireInv, PipesInv, StartedInv, ItemsOk
<1>2. messages' = messages /\ \A j \in Items : items[j].done => items'[j].text = items[j].text
  BY <1>1, UttersLeaves DEF Utters
<1>3. QED
  BY <1>1, <1>2, SentKept DEF SentInv

\* What was read of the message and what is to come of it, before more is said of it.
LEMMA SpokenSoFar ==
  ASSUME WireInv, StartedInv, OneSpeaker, BuffersInv, NEW u, NEW i, NEW o, NEW w, Utters(u, i, o, w), o \in Outputs,
         Awaited(i) => Whole(i), Awaited(i)'
  PROVE  \E r \in 0..Len(items[i].text) :
           /\ \E f \in [(r + 1)..Len(items[i].text) -> 1..Len(stdout)] : Coming(i, r, f)
           /\ IF r = 0 THEN \A k \in 1..Len(deltas) : deltas[k].key # OwnKey(i)'
              ELSE \E k \in 1..Len(deltas) : deltas[k].key = OwnKey(i)' /\ deltas[k].text = SubSeq(items[i].text, 1, r)
<1>0. i \in Items
  BY DEF Utters
<1>1. stdout \in Seq(Outputs) /\ ItemsOk /\ Grows
  BY UttersGrows DEF WireInv, PipesInv, StartedInv, ItemsOk
<1>2. items'[i] = w /\ UNCHANGED <<home, owner, running, reverseTurn, deltas, messages, early, dropped>>
  BY <1>1, UttersLeaves
<1>3. u \in running /\ ~items[i].done /\ w.turn = u
  BY DEF Utters
<1>4. CASE items[i].turn = u
  <2>1. u # 0
    BY <1>3, CodexConstants DEF StartedInv, Started, AppTurns
  <2>2. Rivals(i) \subseteq Rivals(i)'
    BY <1>0, <1>1, <1>4, <2>1, RivalsGrow
  <2>3. Awaited(i)
    BY <1>0, <1>2, <1>3, <1>4, <2>1, <2>2 DEF Awaited, Over
  <2>4. OwnKey(i)' = OwnKey(i)
    BY <1>2, <1>3, <1>4 DEF OwnKey
  <2>5. PICK r \in 0..Len(items[i].text) :
          Holds(i, r) /\ \E f \in [(r + 1)..Len(items[i].text) -> 1..Len(stdout)] : Coming(i, r, f)
    BY <2>3 DEF Whole
  <2>6. QED
    BY <2>4, <2>5 DEF Holds
<1>5. CASE items[i].turn = 0
  <2>1. items[i].text = <<>>
    BY <1>0, <1>1, <1>5 DEF OneSpeaker
  <2>2. \A p \in 1..Len(stdout) : ~FragmentAt(p, i)
    <3>1. ASSUME NEW p \in 1..Len(stdout), FragmentAt(p, i) PROVE FALSE
      <4>1. stdout[p] \in ToSet(stdout) /\ stdout[p][1] = "delta" /\ stdout[p][2] = i
        BY <1>1, <3>1, MembersOf DEF FragmentAt
      <4>2. Started(0)
        BY <1>5, <4>1 DEF StartedInv
      <4>3. QED
        BY <4>2, CodexConstants DEF Started, AppTurns
    <3>2. QED
      BY <3>1
  <2>3. \A k \in 1..Len(deltas) : deltas[k].key[3] # i
    BY <1>5 DEF BuffersInv, BuffersOwned
  <2>4. OwnKey(i)'[3] = i
    BY DEF OwnKey
  <2>5. PICK r \in 0..Len(items[i].text) : r = 0
    BY <2>1
  <2>6. (r + 1)..Len(items[i].text) = {}
    BY <2>1, <2>5
  <2>7. PICK f : f = [k \in (r + 1)..Len(items[i].text) |-> 1]
    OBVIOUS
  <2>8. f \in [(r + 1)..Len(items[i].text) -> 1..Len(stdout)]
    BY <2>6, <2>7
  <2>9. Coming(i, r, f)
    BY <2>2, <2>6 DEF Coming
  <2>10. QED
    BY <2>3, <2>4, <2>5, <2>8, <2>9
<1>6. QED
  BY <1>4, <1>5 DEF Utters

LEMMA UttersAt ==
  ASSUME WireInv, StartedInv, NEW u, NEW i, NEW o, NEW w, Utters(u, i, o, w), o \in Outputs, NEW p \in 1..Len(stdout'), NEW j
  PROVE  /\ p \in Nat /\ p <= Len(stdout) + 1
         /\ p # Len(stdout) + 1 => /\ p \in 1..Len(stdout)
                                   /\ FragmentAt(p, j)' <=> FragmentAt(p, j)
                                   /\ EndAt(p, j)' <=> EndAt(p, j)
         /\ p = Len(stdout) + 1 => /\ FragmentAt(p, j)' <=> o[1] = "delta" /\ j = i
                                   /\ EndAt(p, j)' <=> o[1] = "message" /\ j = i
<1>1. stdout \in Seq(Outputs) /\ ItemsOk /\ o[2] = i
  BY DEF WireInv, PipesInv, StartedInv, ItemsOk, Utters
<1>2. /\ Len(stdout') = Len(stdout) + 1 /\ stdout'[Len(stdout) + 1] = o
      /\ \A q \in 1..Len(stdout) : stdout'[q] = stdout[q]
      /\ Len(stdout) \in Nat
  BY <1>1, UttersLeaves
<1>3. QED
  BY <1>1, <1>2 DEF FragmentAt, EndAt

\* What is heard of a message, or kept of it, is about one that was begun.
LEMMA BegunItems ==
  ASSUME StartedInv, BuffersOwned, NEW i \in Items, stdout \in Seq(Outputs),
         Buffered(i) \/ \E q \in 1..Len(stdout) : FragmentAt(q, i)
  PROVE  items[i].turn # 0
<1>1. CASE Buffered(i)
  BY <1>1 DEF Buffered, BuffersOwned
<1>2. ASSUME NEW q \in 1..Len(stdout), FragmentAt(q, i) PROVE items[i].turn # 0
  <2>1. stdout[q] \in ToSet(stdout) /\ stdout[q][1] = "delta" /\ stdout[q][2] = i
    BY <1>2, MembersOf DEF FragmentAt
  <2>2. Started(items[i].turn)
    BY <2>1 DEF StartedInv
  <2>3. QED
    BY <2>2, CodexConstants DEF Started, AppTurns
<1>3. QED
  BY <1>1, <1>2

\* The next end of a message does not come among those that are awaited.
LEMMA UttersOrder ==
  ASSUME WireInv, StartedInv, OneSpeaker, BuffersInv, EndsLast, OneAfterAnother,
         NEW u, NEW i, NEW o, NEW w, Utters(u, i, o, w), o \in Outputs, o[1] = "message" => w.done
  PROVE  EndsLast' /\ OneAfterAnother'
<1>0. i \in Items /\ u \in running /\ ~items[i].done /\ w.turn = u /\ o[1] \in {"delta", "message"}
  BY DEF Utters
<1>1. stdout \in Seq(Outputs) /\ ItemsOk /\ Grows /\ Len(stdout) \in Nat
  BY UttersGrows DEF WireInv, PipesInv, StartedInv, ItemsOk
<1>2. /\ items'[i] = w /\ \A j \in Items : j # i => items'[j] = items[j]
      /\ UNCHANGED <<home, owner, running, deltas>>
  BY <1>1, UttersLeaves
<1>3. \A p \in 1..Len(stdout) : ~EndAt(p, i)
  BY <1>0 DEF EndsLast
<1>4. ASSUME NEW j \in Items, NEW p \in 1..Len(stdout'), EndAt(p, j)'
      PROVE  items'[j].done /\ \A q \in 1..Len(stdout') : (FragmentAt(q, j) \/ EndAt(q, j))' => q <= p
  <2>1. CASE p = Len(stdout) + 1
    <3>1. j = i /\ w.done
      BY <1>4, <2>1, UttersAt
    <3>2. \A q \in 1..Len(stdout') : q <= p
      BY <2>1, UttersAt
    <3>3. QED
      BY <1>2, <3>1, <3>2
  <2>2. CASE p # Len(stdout) + 1
    <3>1. p \in 1..Len(stdout) /\ EndAt(p, j)
      BY <1>4, <2>2, UttersAt
    <3>2. j # i /\ items[j].done
      BY <1>3, <3>1 DEF EndsLast
    <3>3. ASSUME NEW q \in 1..Len(stdout'), (FragmentAt(q, j) \/ EndAt(q, j))' PROVE q <= p
      <4>1. q \in 1..Len(stdout) /\ (FragmentAt(q, j) \/ EndAt(q, j))
        BY <3>2, <3>3, UttersAt
      <4>2. QED
        BY <3>1, <4>1 DEF EndsLast
    <3>4. QED
      BY <1>2, <3>2, <3>3
  <2>3. QED
    BY <2>1, <2>2
<1>5. ASSUME NEW j \in Items, NEW l \in Items, NEW p \in 1..Len(stdout'), j # l, EndAt(p, l)',
             Buffered(j)' \/ \E q \in 1..(p - 1) : FragmentAt(q, j)',
             home'[items'[j].turn] = home'[items'[l].turn]
      PROVE  Over(j)' /\ \A q \in 1..Len(stdout') : EndAt(q, j)' => q < p
  <2>1. p \in Nat /\ p <= Len(stdout) + 1
    BY UttersAt
  <2>2. Buffered(j) \/ \E q \in 1..(p - 1) : q \in 1..Len(stdout) /\ FragmentAt(q, j)
    <3>1. CASE Buffered(j)'
      BY <1>2, <3>1 DEF Buffered
    <3>2. CASE \E q \in 1..(p - 1) : FragmentAt(q, j)'
      <4>1. PICK q \in 1..(p - 1) : FragmentAt(q, j)'
        BY <3>2
      <4>2. q \in 1..Len(stdout') /\ q # Len(stdout) + 1
        BY <2>1, <4>1 DEF FragmentAt
      <4>3. q \in 1..Len(stdout) /\ FragmentAt(q, j)
        BY <4>1, <4>2, UttersAt
      <4>4. QED
        BY <4>3
    <3>3. QED
      BY <1>5, <3>1, <3>2
  <2>3. items[j].turn # 0 /\ items'[j].turn = items[j].turn
    BY <1>1, <2>2, BegunItems DEF BuffersInv, Grows
  <2>4. CASE p = Len(stdout) + 1
    <3>1. l = i /\ items'[l].turn = u /\ j # i /\ items'[j] = items[j]
      BY <1>2, <1>0, <1>5, <2>4, UttersAt
    <3>2. home[items[j].turn] = home[u]
      BY <1>2, <1>5, <2>3, <3>1
    <3>3. ASSUME ~Over(j) PROVE FALSE
      <4>1. ~items[j].done /\ items[j].turn \in running
        BY <3>3 DEF Over
      <4>2. items[j].turn = u
        BY <1>0, <3>2, <4>1 DEF OneSpeaker
      <4>3. items[i].turn = u
        BY <4>1, <4>2 DEF Utters
      <4>4. QED
        BY <1>0, <2>3, <3>1, <4>1, <4>2, <4>3 DEF OneSpeaker
    <3>4. Over(j)'
      BY <1>2, <3>1, <3>3 DEF Over
    <3>5. ASSUME NEW q \in 1..Len(stdout'), EndAt(q, j)' PROVE q < p
      BY <2>1, <2>4, <3>1, <3>5, UttersAt
    <3>6. QED
      BY <3>4, <3>5
  <2>5. CASE p # Len(stdout) + 1
    <3>1. p \in 1..Len(stdout) /\ EndAt(p, l)
      BY <1>5, <2>5, UttersAt
    <3>2. l # i /\ items'[l] = items[l]
      BY <1>2, <1>3, <3>1
    <3>3. home[items[j].turn] = home[items[l].turn]
      BY <1>2, <1>5, <2>3, <3>2
    <3>4. Over(j) /\ \A q \in 1..Len(stdout) : EndAt(q, j) => q < p
      BY <1>5, <2>2, <3>1, <3>3 DEF OneAfterAnother
    <3>5. j # i
      BY <1>0, <2>3, <3>4 DEF Over, Utters
    <3>6. Over(j)'
      BY <1>2, <3>4, <3>5 DEF Over
    <3>7. ASSUME NEW q \in 1..Len(stdout'), EndAt(q, j)' PROVE q < p
      <4>1. q \in 1..Len(stdout) /\ EndAt(q, j)
        BY <3>5, <3>7, UttersAt
      <4>2. QED
        BY <3>4, <4>1
    <3>8. QED
      BY <3>6, <3>7
  <2>6. QED
    BY <2>4, <2>5
<1>6. EndsLast'
  BY <1>4 DEF EndsLast
<1>7. OneAfterAnother'
  BY <1>5 DEF OneAfterAnother
<1>8. QED
  BY <1>6, <1>7

LEMMA OneMore ==
  ASSUME NEW r \in Nat, NEW n \in Nat, r <= n
  PROVE  /\ n + 1 \in (r + 1)..(n + 1)
         /\ \A k \in (r + 1)..n : k \in (r + 1)..(n + 1) /\ k # n + 1
         /\ \A k \in (r + 1)..(n + 1) : k = n + 1 \/ k \in (r + 1)..n
  OBVIOUS

\* A fragment is the next of what is to come.
LEMMA SpeakWhole ==
  ASSUME WireInv, StartedInv, OneSpeaker, BuffersInv, NEW u, NEW i \in Items, NEW n \in Nat,
         NEW w \in [turn : AppTurns \cup {0}, text : Seq(Nat), done : BOOLEAN],
         Utters(u, i, <<"delta", i, n>>, w), w.text = Append(items[i].text, n), Awaited(i) => Whole(i)
  PROVE  Awaited(i)' => Whole(i)'
<1> SUFFICES ASSUME Awaited(i)' PROVE Whole(i)'
  OBVIOUS
<1>0. PICK o \in Outputs : o = <<"delta", i, n>> /\ o[1] = "delta" /\ o[2] = i /\ o[3] = n
  <2>1. <<"delta", i, n>> \in {"delta"} \X Items \X Nat
    OBVIOUS
  <2>2. <<"delta", i, n>> \in Outputs
    BY <2>1 DEF Outputs
  <2>3. QED
    BY <2>2
<1>1. /\ stdout \in Seq(Outputs) /\ ItemsOk /\ Len(stdout) \in Nat /\ Utters(u, i, o, w)
      /\ items[i].text \in Seq(Nat) /\ Len(items[i].text) \in Nat
  BY <1>0 DEF WireInv, PipesInv, StartedInv, ItemsOk
<1>2. /\ items'[i] = w /\ deltas' = deltas
      /\ Len(stdout') = Len(stdout) + 1 /\ stdout'[Len(stdout) + 1] = o
      /\ \A p \in 1..Len(stdout) : stdout'[p] = stdout[p]
  BY <1>0, <1>1, UttersLeaves
<1> DEFINE s == items[i].text
<1>3. PICK r \in 0..Len(s) :
        /\ \E f \in [(r + 1)..Len(s) -> 1..Len(stdout)] : Coming(i, r, f)
        /\ IF r = 0 THEN \A k \in 1..Len(deltas) : deltas[k].key # OwnKey(i)'
           ELSE \E k \in 1..Len(deltas) : deltas[k].key = OwnKey(i)' /\ deltas[k].text = SubSeq(s, 1, r)
  BY <1>0, <1>1, SpokenSoFar
<1>4. PICK f \in [(r + 1)..Len(s) -> 1..Len(stdout)] : Coming(i, r, f)
  BY <1>3
<1>5. /\ r \in Nat /\ r <= Len(s) /\ Len(w.text) = Len(s) + 1 /\ w.text[Len(s) + 1] = n
      /\ \A k \in 1..Len(s) : w.text[k] = s[k]
  BY <1>1
<1>6. SubSeq(w.text, 1, r) = SubSeq(s, 1, r)
  BY <1>1, <1>5
<1>7. Holds(i, r)'
  BY <1>2, <1>3, <1>6 DEF Holds
<1>8. PICK g : g = [k \in (r + 1)..(Len(s) + 1) |-> IF k = Len(s) + 1 THEN Len(stdout) + 1 ELSE f[k]]
  OBVIOUS
<1>9. /\ g[Len(s) + 1] = Len(stdout) + 1
      /\ \A k \in (r + 1)..Len(s) : g[k] = f[k] /\ f[k] \in 1..Len(stdout)
      /\ \A k \in (r + 1)..(Len(s) + 1) : k = Len(s) + 1 \/ k \in (r + 1)..Len(s)
  <2>1. \A k \in (r + 1)..(Len(s) + 1) : g[k] = IF k = Len(s) + 1 THEN Len(stdout) + 1 ELSE f[k]
    BY <1>8
  <2>2. /\ Len(s) + 1 \in (r + 1)..(Len(s) + 1)
        /\ \A k \in (r + 1)..Len(s) : k \in (r + 1)..(Len(s) + 1) /\ k # Len(s) + 1
        /\ \A k \in (r + 1)..(Len(s) + 1) : k = Len(s) + 1 \/ k \in (r + 1)..Len(s)
    <3>1. Len(s) \in Nat /\ r \in Nat /\ r <= Len(s)
      BY <1>1, <1>5
    <3> HIDE DEF s
    <3>2. QED
      BY <3>1, OneMore
  <2>3. \A k \in (r + 1)..Len(s) : f[k] \in 1..Len(stdout)
    BY <1>4
  <2>4. QED
    BY <2>1, <2>2, <2>3
<1>10. g \in [(r + 1)..Len(items'[i].text) -> 1..Len(stdout')]
  <2>1. \A k \in (r + 1)..(Len(s) + 1) : g[k] \in 1..Len(stdout')
    <3>1. \A k \in 1..Len(stdout) : k \in 1..Len(stdout')
      BY <1>1, <1>2
    <3>2. Len(stdout) + 1 \in 1..Len(stdout')
      BY <1>1, <1>2
    <3>3. QED
      BY <1>9, <3>1, <3>2
  <2>2. Len(items'[i].text) = Len(s) + 1
    BY <1>2, <1>5
  <2>3. QED
    BY <1>8, <2>1, <2>2
<1>11. Coming(i, r, g)'
  <2>1. ASSUME NEW k \in (r + 1)..(Len(s) + 1)
        PROVE  FragmentAt(g[k], i)' /\ stdout'[g[k]][3] = items'[i].text[k]
    <3>1. CASE k = Len(s) + 1
      <4>1. g[k] = Len(stdout) + 1 /\ items'[i].text[k] = n
        BY <1>2, <1>5, <1>9, <3>1
      <4>2. Len(stdout) + 1 \in 1..Len(stdout')
        BY <1>1, <1>2
      <4>3. QED
        BY <1>0, <1>2, <4>1, <4>2 DEF FragmentAt
    <3>2. CASE k \in (r + 1)..Len(s)
      <4>1. FragmentAt(f[k], i) /\ stdout[f[k]][3] = s[k] /\ g[k] = f[k] /\ f[k] \in 1..Len(stdout)
        BY <1>4, <1>9, <3>2 DEF Coming
      <4>2. k \in 1..Len(s) /\ f[k] \in 1..Len(stdout')
        BY <1>1, <1>2, <1>5, <3>2, <4>1
      <4>3. QED
        BY <1>2, <1>5, <4>1, <4>2 DEF FragmentAt
    <3>3. QED
      BY <1>9, <3>1, <3>2
  <2>2. ASSUME NEW k \in (r + 1)..(Len(s) + 1), NEW l \in (r + 1)..(Len(s) + 1), k < l PROVE g[k] < g[l]
    <3>1. k \in (r + 1)..Len(s)
      BY <1>1, <1>5, <2>2
    <3>2. CASE l = Len(s) + 1
      <4>1. g[k] \in 1..Len(stdout) /\ g[l] = Len(stdout) + 1
        BY <1>9, <3>1, <3>2
      <4>2. QED
        BY <1>1, <4>1
    <3>3. CASE l \in (r + 1)..Len(s)
      BY <1>4, <1>9, <2>2, <3>1, <3>3 DEF Coming
    <3>4. QED
      BY <1>9, <3>2, <3>3
  <2>3. ASSUME NEW p \in 1..Len(stdout'), FragmentAt(p, i)' PROVE \E k \in (r + 1)..(Len(s) + 1) : g[k] = p
    <3>1. CASE p = Len(stdout) + 1
      <4>1. Len(s) + 1 \in (r + 1)..(Len(s) + 1)
        BY <1>1, <1>5
      <4>2. QED
        BY <1>9, <3>1, <4>1
    <3>2. CASE p # Len(stdout) + 1
      <4>1. p \in 1..Len(stdout) /\ FragmentAt(p, i)
        BY <1>0, <1>1, <2>3, <3>2, UttersAt
      <4>2. PICK k \in (r + 1)..Len(s) : f[k] = p
        BY <1>4, <4>1 DEF Coming
      <4>3. k \in (r + 1)..(Len(s) + 1)
        BY <1>1, <1>5
      <4>4. QED
        BY <1>9, <4>2, <4>3
    <3>3. QED
      BY <3>1, <3>2
  <2>4. Len(items'[i].text) = Len(s) + 1
    BY <1>2, <1>5
  <2>5. QED
    BY <2>1, <2>2, <2>3, <2>4 DEF Coming
<1>12. r \in 0..Len(items'[i].text)
  BY <1>1, <1>2, <1>5
<1>13. QED
  BY <1>7, <1>10, <1>11, <1>12 DEF Whole

LEMMA EndWhole ==
  ASSUME WireInv, StartedInv, OneSpeaker, BuffersInv, NEW u, NEW i \in Items, NEW given \in BOOLEAN,
         NEW w, Utters(u, i, <<"message", i, given>>, w), w.text = items[i].text, Awaited(i) => Whole(i)
  PROVE  Awaited(i)' => Whole(i)'
<1> SUFFICES ASSUME Awaited(i)' PROVE Whole(i)'
  OBVIOUS
<1>0. PICK o \in Outputs : o = <<"message", i, given>> /\ o[1] = "message"
  BY DEF Outputs
<1>1. stdout \in Seq(Outputs) /\ ItemsOk /\ Len(stdout) \in Nat /\ Utters(u, i, o, w)
  BY <1>0 DEF WireInv, PipesInv, StartedInv, ItemsOk
<1>2. /\ items'[i].text = items[i].text /\ deltas' = deltas /\ Len(stdout') = Len(stdout) + 1
      /\ \A p \in 1..Len(stdout) : stdout'[p] = stdout[p]
  BY <1>0, <1>1, UttersLeaves
<1> DEFINE s == items[i].text
<1>3. PICK r \in 0..Len(s) :
        /\ \E f \in [(r + 1)..Len(s) -> 1..Len(stdout)] : Coming(i, r, f)
        /\ IF r = 0 THEN \A k \in 1..Len(deltas) : deltas[k].key # OwnKey(i)'
           ELSE \E k \in 1..Len(deltas) : deltas[k].key = OwnKey(i)' /\ deltas[k].text = SubSeq(s, 1, r)
  BY <1>0, <1>1, SpokenSoFar
<1>4. PICK f \in [(r + 1)..Len(s) -> 1..Len(stdout)] : Coming(i, r, f)
  BY <1>3
<1>5. Holds(i, r)'
  BY <1>2, <1>3 DEF Holds
<1>6. f \in [(r + 1)..Len(items'[i].text) -> 1..Len(stdout')]
  BY <1>1, <1>2
<1>7. Coming(i, r, f)'
  <2>1. ASSUME NEW k \in (r + 1)..Len(s) PROVE FragmentAt(f[k], i)' /\ stdout'[f[k]][3] = items'[i].text[k]
    <3>1. FragmentAt(f[k], i) /\ stdout[f[k]][3] = s[k] /\ f[k] \in 1..Len(stdout)
      BY <1>4 DEF Coming
    <3>2. f[k] \in 1..Len(stdout')
      BY <1>1, <1>2, <3>1
    <3>3. QED
      BY <1>2, <3>1, <3>2 DEF FragmentAt
  <2>2. ASSUME NEW p \in 1..Len(stdout'), FragmentAt(p, i)' PROVE \E k \in (r + 1)..Len(s) : f[k] = p
    <3>1. p \in 1..Len(stdout) /\ FragmentAt(p, i)
      BY <1>0, <1>1, <2>2, UttersAt
    <3>2. QED
      BY <1>4, <3>1 DEF Coming
  <2>3. \A k, l \in (r + 1)..Len(s) : k < l => f[k] < f[l]
    BY <1>4 DEF Coming
  <2>4. QED
    BY <1>2, <2>1, <2>2, <2>3 DEF Coming
<1>8. r \in 0..Len(items'[i].text)
  BY <1>2
<1>9. QED
  BY <1>5, <1>6, <1>7, <1>8 DEF Whole

LEMMA SpeechSpoken ==
  ASSUME WireInv, StartedInv, SpeechInv, NEW u \in AppTurns, Speak(u) \/ EndMessage(u)
  PROVE  SpeechInv'
<1>0. OneSpeaker /\ EndsLast /\ OneAfterAnother /\ BuffersInv /\ SentInv /\ \A i \in Items : Awaited(i) => Whole(i)
  BY DEF SpeechInv
<1>1. ASSUME NEW i \in Items, NEW o \in Outputs, NEW w, Utters(u, i, o, w), o[1] = "message" => w.done,
             Awaited(i)' => Whole(i)'
      PROVE  SpeechInv'
  <2>1. \A j \in Items : Awaited(j)' => Whole(j)'
    <3>1. ASSUME NEW j \in Items PROVE Awaited(j)' => Whole(j)'
      BY <1>0, <1>1, UttersOthers
    <3>2. QED
      BY <3>1
  <2>2. OneSpeaker'
    BY <1>0, <1>1, UttersSpeaker
  <2>3. BuffersInv'
    BY <1>0, <1>1, UttersBuffers
  <2>4. SentInv'
    BY <1>0, <1>1, UttersSent
  <2>5. EndsLast' /\ OneAfterAnother'
    BY <1>0, <1>1, UttersOrder
  <2>6. QED
    BY <2>1, <2>2, <2>3, <2>4, <2>5 DEF SpeechInv
<1>2. CASE Speak(u)
  <2>1. PICK i \in Items, n \in Nat, w \in [turn : AppTurns \cup {0}, text : Seq(Nat), done : BOOLEAN] :
          Utters(u, i, <<"delta", i, n>>, w) /\ w.text = Append(items[i].text, n) /\ ~w.done
    BY <1>0, <1>2, SpeakUtters
  <2>2. PICK o \in Outputs : o = <<"delta", i, n>> /\ o[1] # "message"
    <3>1. <<"delta", i, n>> \in {"delta"} \X Items \X Nat
      OBVIOUS
    <3>2. <<"delta", i, n>> \in Outputs
      BY <3>1 DEF Outputs
    <3>3. QED
      BY <3>2
  <2>3. Awaited(i)' => Whole(i)'
    BY <1>0, <2>1, SpeakWhole
  <2>4. QED
    BY <1>1, <2>1, <2>2, <2>3
<1>3. CASE EndMessage(u)
  <2>1. PICK i \in Items, given \in BOOLEAN, w \in [turn : AppTurns \cup {0}, text : Seq(Nat), done : BOOLEAN] :
          Utters(u, i, <<"message", i, given>>, w) /\ w.text = items[i].text /\ w.done
    BY <1>0, <1>3, EndMessageUtters
  <2>2. PICK o \in Outputs : o = <<"message", i, given>>
    BY DEF Outputs
  <2>3. Awaited(i)' => Whole(i)'
    BY <1>0, <2>1, EndWhole
  <2>4. QED
    BY <1>1, <2>1, <2>2, <2>3
<1>4. QED
  BY <1>2, <1>3

\* Reading takes the first of the output.
LEMMA ReadTail ==
  ASSUME WireInv, stdout # <<>>, stdout' = Tail(stdout)
  PROVE  /\ Head(stdout) = stdout[1] /\ stdout[1] \in ToSet(stdout) /\ stdout[1] \in Outputs
         /\ Len(stdout) \in Nat /\ 1 \in 1..Len(stdout) /\ Len(stdout') = Len(stdout) - 1
         /\ \A p \in 1..Len(stdout') : stdout'[p] = stdout[p + 1] /\ p + 1 \in 1..Len(stdout)
         /\ stdout \in Seq(Outputs) /\ stdout' \in Seq(Outputs)
<1>1. stdout \in Seq(Outputs)
  BY DEF WireInv, PipesInv
<1>2. stdout[1] \in ToSet(stdout)
  BY <1>1, MembersLeft
<1>3. QED
  BY <1>1, <1>2

LEMMA ReadMoves ==
  ASSUME WireInv, stdout # <<>>, stdout' = Tail(stdout), NEW d \in 0..1, d = 1
  PROVE  /\ ComesFrom(d)
         /\ \A j \in Items : ~SpeechAt(1, j) => Moves(d, j)
<1>1. /\ Len(stdout) \in Nat /\ Len(stdout') = Len(stdout) - 1
      /\ \A p \in 1..Len(stdout') : stdout'[p] = stdout[p + 1] /\ p + 1 \in 1..Len(stdout)
  BY ReadTail
<1>2. ASSUME NEW j, NEW p \in Nat, SpeechAt(p, j)' PROVE SpeechAt(p + d, j) /\ stdout[p + d] = stdout'[p]
  <2>1. p \in 1..Len(stdout')
    BY <1>2 DEF SpeechAt, FragmentAt, EndAt
  <2>2. stdout[p + d] = stdout'[p] /\ p + d \in 1..Len(stdout)
    BY <1>1, <2>1
  <2>3. QED
    BY <1>2, <2>2 DEF SpeechAt, FragmentAt, EndAt
<1>3. ASSUME NEW j, NEW p \in Nat, ~SpeechAt(1, j), SpeechAt(p, j) PROVE SpeechAt(p - d, j)' /\ stdout'[p - d] = stdout[p]
  <2>1. p \in 1..Len(stdout) /\ p # 1
    BY <1>3 DEF SpeechAt, FragmentAt, EndAt
  <2>2. p - d \in 1..Len(stdout') /\ (p - d) + 1 = p
    BY <1>1, <2>1
  <2>3. stdout'[p - d] = stdout[p]
    BY <1>1, <2>2
  <2>4. QED
    BY <1>3, <2>2, <2>3 DEF SpeechAt, FragmentAt, EndAt
<1>4. QED
  BY <1>2, <1>3 DEF ComesFrom, Moves

UniqueKeys == \A k, l \in 1..Len(deltas) : deltas[k].key = deltas[l].key => k = l

\* _append_assistant_delta adds to the buffer under the key, or starts it.
LEMMA DeltaAppended ==
  ASSUME deltas \in Seq(Buffers), UniqueKeys, NEW key \in Threads \X (Turns \cup {None}) \X Items, NEW n \in Nat,
         deltas' = AppendDelta(key, n)
  PROVE  /\ deltas' \in Seq(Buffers) /\ UniqueKeys'
         /\ \A k \in 1..Len(deltas') : deltas'[k].key = key \/ (k \in 1..Len(deltas) /\ deltas'[k] = deltas[k])
         /\ \A k \in 1..Len(deltas) : deltas[k].key = key \/ (k \in 1..Len(deltas') /\ deltas'[k] = deltas[k])
         /\ \A k \in 1..Len(deltas) : deltas[k].key = key =>
              /\ k \in 1..Len(deltas') /\ deltas'[k].key = key /\ deltas'[k].text = Append(deltas[k].text, n)
         /\ (\A k \in 1..Len(deltas) : deltas[k].key # key) =>
              \E k \in 1..Len(deltas') : deltas'[k].key = key /\ deltas'[k].text = <<n>>
<1>0. Len(deltas) \in Nat /\ \A k \in 1..Len(deltas) : deltas[k] \in Buffers
  OBVIOUS
<1>1. CASE \E k \in 1..Len(deltas) : deltas[k].key = key
  <2>1. deltas' = [k \in 1..Len(deltas) |-> IF deltas[k].key = key THEN [deltas[k] EXCEPT !.text = Append(@, n)]
                                            ELSE deltas[k]]
    BY <1>1 DEF AppendDelta
  <2>2. ASSUME NEW k \in 1..Len(deltas)
        PROVE  /\ deltas'[k] \in Buffers /\ deltas'[k].key = deltas[k].key
               /\ deltas[k].key # key => deltas'[k] = deltas[k]
               /\ deltas[k].key = key => deltas'[k].text = Append(deltas[k].text, n)
    <3>1. CASE deltas[k].key # key
      BY <1>0, <2>1, <3>1
    <3>2. CASE deltas[k].key = key
      <4>1. PICK b \in Buffers : b = deltas[k]
        BY <1>0
      <4>2. PICK s \in Seq(Nat) : s = b.text
        BY DEF Buffers
      <4>3. PICK r \in Seq(Nat) : r = Append(s, n)
        <5>1. Append(s, n) \in Seq(Nat)
          OBVIOUS
        <5>2. QED
          BY <5>1
      <4>4. deltas'[k] = [b EXCEPT !.text = r]
        BY <2>1, <3>2, <4>1, <4>2, <4>3
      <4>5. [b EXCEPT !.text = r] \in Buffers /\ [b EXCEPT !.text = r].key = b.key /\ [b EXCEPT !.text = r].text = r
        BY DEF Buffers
      <4>6. QED
        BY <3>2, <4>1, <4>2, <4>3, <4>4, <4>5
    <3>3. QED
      BY <3>1, <3>2
  <2>3. Len(deltas') = Len(deltas) /\ deltas' \in [1..Len(deltas) -> Buffers]
    <3>1. deltas' = [k \in 1..Len(deltas) |-> deltas'[k]]
      BY <2>1
    <3>2. deltas' \in [1..Len(deltas) -> Buffers]
      BY <2>2, <3>1
    <3>3. QED
      BY <1>0, <3>2
  <2>4. deltas' \in Seq(Buffers)
    BY <1>0, <2>3
  <2>5. UniqueKeys'
    BY <2>2, <2>3 DEF UniqueKeys
  <2>6. QED
    BY <1>1, <2>2, <2>3, <2>4, <2>5
<1>2. CASE \A k \in 1..Len(deltas) : deltas[k].key # key
  <2>1. PICK b : b = [key |-> key, text |-> <<n>>]
    OBVIOUS
  <2>2. b \in Buffers /\ b.key = key /\ b.text = <<n>>
    BY <2>1 DEF Buffers
  <2>3. deltas' = Append(deltas, b)
    BY <1>2, <2>1 DEF AppendDelta
  <2>4. /\ deltas' \in Seq(Buffers) /\ Len(deltas') = Len(deltas) + 1 /\ deltas'[Len(deltas) + 1] = b
        /\ \A k \in 1..Len(deltas) : deltas'[k] = deltas[k]
    BY <2>2, <2>3
  <2>5. ASSUME NEW k \in 1..Len(deltas') PROVE k = Len(deltas) + 1 \/ k \in 1..Len(deltas)
    BY <1>0, <2>4
  <2>6. Len(deltas) + 1 \in 1..Len(deltas') /\ \A k \in 1..Len(deltas) : k \in 1..Len(deltas')
    BY <1>0, <2>4
  <2>7. UniqueKeys'
    <3>1. ASSUME NEW k \in 1..Len(deltas'), NEW l \in 1..Len(deltas'), deltas'[k].key = deltas'[l].key PROVE k = l
      <4>1. CASE k = Len(deltas) + 1 /\ l \in 1..Len(deltas)
        BY <1>2, <2>2, <2>4, <3>1, <4>1
      <4>2. CASE l = Len(deltas) + 1 /\ k \in 1..Len(deltas)
        BY <1>2, <2>2, <2>4, <3>1, <4>2
      <4>3. CASE k \in 1..Len(deltas) /\ l \in 1..Len(deltas)
        BY <2>4, <3>1, <4>3 DEF UniqueKeys
      <4>4. QED
        BY <2>5, <4>1, <4>2, <4>3
    <3>2. QED
      BY <3>1 DEF UniqueKeys
  <2>8. QED
    BY <1>2, <2>2, <2>4, <2>5, <2>6, <2>7
<1>3. QED
  BY <1>1, <1>2

\* Whatever was read of a message that is awaited was the next of it.
LEMMA NextFragment ==
  ASSUME NEW i \in Items, ItemsOk, stdout \in Seq(Outputs), NEW r \in 0..Len(items[i].text),
         NEW f \in [(r + 1)..Len(items[i].text) -> 1..Len(stdout)], Coming(i, r, f), FragmentAt(1, i)
  PROVE  /\ r + 1 \in (r + 1)..Len(items[i].text) /\ f[r + 1] = 1 /\ stdout[1][3] = items[i].text[r + 1]
         /\ \A k \in (r + 2)..Len(items[i].text) : f[k] \in 2..Len(stdout)
<1>1. Len(items[i].text) \in Nat /\ r \in Nat
  BY DEF ItemsOk
<1> DEFINE N == Len(items[i].text)
<1> HIDE DEF N
<1>2. N \in Nat /\ f \in [(r + 1)..N -> 1..Len(stdout)] /\ Len(stdout) \in Nat
  BY <1>1 DEF N
<1>3. 1 \in 1..Len(stdout)
  BY DEF FragmentAt
<1>4. PICK k \in (r + 1)..N : f[k] = 1
  BY <1>3 DEF Coming, N
<1>5. \A l, m \in (r + 1)..N : l < m => f[l] < f[m]
  BY DEF Coming, N
<1>6. r + 1 \in (r + 1)..N
  BY <1>1, <1>2, <1>4
<1>7. f[r + 1] = 1
  <2>1. CASE k = r + 1
    BY <1>4, <2>1
  <2>2. CASE k # r + 1
    <3>1. r + 1 < k
      BY <1>1, <1>2, <1>4, <2>2
    <3>2. f[r + 1] < 1 /\ f[r + 1] \in 1..Len(stdout)
      BY <1>2, <1>4, <1>5, <1>6, <3>1
    <3>3. QED
      BY <1>2, <3>2
  <2>3. QED
    BY <2>1, <2>2
<1>8. stdout[1][3] = items[i].text[r + 1]
  BY <1>6, <1>7 DEF Coming, N
<1>9. ASSUME NEW l \in (r + 2)..N PROVE f[l] \in 2..Len(stdout)
  <2>1. l \in (r + 1)..N /\ r + 1 < l
    BY <1>1, <1>2
  <2>2. 1 < f[l] /\ f[l] \in 1..Len(stdout)
    BY <1>2, <1>5, <1>6, <1>7, <2>1
  <2>3. QED
    BY <1>2, <2>2
<1>10. QED
  BY <1>6, <1>7, <1>8, <1>9 DEF N

\* What the reader has at hand: the next thing said of a message.
LEMMA Reading ==
  ASSUME WireInv, StartedInv, ReadDelta \/ ReadMessage
  PROVE  \E i \in Items, u \in AppTurns, d \in 0..1 :
           /\ i = stdout[1][2] /\ u = items[i].turn /\ Started(u) /\ u # 0 /\ d = 1
           /\ stdout # <<>> /\ stdout' = Tail(stdout) /\ Head(stdout) = stdout[1]
           /\ ReadDelta => FragmentAt(1, i) /\ stdout[1][3] \in Nat
           /\ ReadMessage => EndAt(1, i)
           /\ \A j \in Items : j # i => ~SpeechAt(1, j)
           /\ items' = items /\ UNCHANGED <<home, owner, running, reverseTurn>>
           /\ dropped \subseteq dropped'
<1>1. stdout # <<>> /\ stdout' = Tail(stdout)
  BY DEF ReadDelta, ReadMessage, Reads
<1>2. PICK o \in Outputs : o = stdout[1] /\ o = Head(stdout) /\ o \in ToSet(stdout) /\ 1 \in 1..Len(stdout)
  BY <1>1, ReadTail
<1>3. (ReadDelta => o[1] = "delta") /\ (ReadMessage => o[1] = "message")
  BY <1>2 DEF ReadDelta, ReadMessage, Reads
<1>4. o[2] \in Items /\ (o[1] = "delta" => o[3] \in Nat)
  BY <1>3 DEF Outputs
<1>5. PICK i \in Items : i = o[2]
  BY <1>4
<1>6. Started(items[i].turn)
  BY <1>2, <1>3, <1>5 DEF StartedInv
<1>7. PICK u \in AppTurns : u = items[i].turn /\ Started(u) /\ u # 0
  BY <1>6, CodexConstants DEF Started, AppTurns
<1>8. items' = items /\ UNCHANGED <<home, owner, running, reverseTurn>>
  BY DEF ReadDelta, ReadMessage, maps, process, server
<1>9. dropped \subseteq dropped'
  BY DEF ReadDelta, ReadMessage
<1>10. \A j \in Items : j # i => ~SpeechAt(1, j)
  BY <1>2, <1>5 DEF SpeechAt, FragmentAt, EndAt
<1>11. (ReadDelta => FragmentAt(1, i)) /\ (ReadMessage => EndAt(1, i))
  BY <1>2, <1>3, <1>5 DEF FragmentAt, EndAt
<1>12. PICK d \in 0..1 : d = 1
  OBVIOUS
<1>13. QED
  BY <1>1, <1>2, <1>3, <1>4, <1>5, <1>7, <1>8, <1>9, <1>10, <1>11, <1>12

LEMMA FirstOf ==
  ASSUME NEW s \in Seq(Nat), Len(s) >= 1
  PROVE  SubSeq(s, 1, 1) = <<s[1]>>
<1>1. SubSeq(s, 1, 1) \in Seq(Nat)
  OBVIOUS
<1>2. Len(SubSeq(s, 1, 1)) = 1
  OBVIOUS
<1>3. SubSeq(s, 1, 1)[1] = s[1] /\ s[1] \in Nat
  OBVIOUS
<1>4. ASSUME NEW q \in Seq(Nat), NEW n \in Nat, Len(q) = 1, q[1] = n PROVE q = <<n>>
  BY <1>4
<1>5. QED
  BY <1>1, <1>2, <1>3, <1>4

\* A fragment goes to what is kept of its message.
LEMMA ReadDeltaSpeech ==
  ASSUME WireInv, WireInv', TablesOk, NamesInv, StartedInv, SpeechInv, ReadDelta
  PROVE  SpeechInv'
<1>0. /\ OneSpeaker /\ EndsLast /\ OneAfterAnother /\ BuffersInv /\ SentInv /\ BuffersOwned /\ UniqueKeys
      /\ \A i \in Items : Awaited(i) => Whole(i)
      /\ deltas \in Seq(Buffers) /\ ItemsOk /\ running \subseteq AppTurns /\ OwnersInv
      /\ stdout \in Seq(Outputs) /\ stdout' \in Seq(Outputs)
  BY DEF SpeechInv, BuffersInv, UniqueKeys, StartedInv, ItemsOk, WireInv, PipesInv, OwnersInv
<1>1. PICK i \in Items, u \in AppTurns, d \in 0..1 :
        /\ i = stdout[1][2] /\ u = items[i].turn /\ Started(u) /\ u # 0 /\ d = 1
        /\ stdout # <<>> /\ stdout' = Tail(stdout) /\ Head(stdout) = stdout[1]
        /\ FragmentAt(1, i) /\ stdout[1][3] \in Nat
        /\ \A j \in Items : j # i => ~SpeechAt(1, j)
        /\ items' = items /\ UNCHANGED <<home, owner, running, reverseTurn>>
        /\ dropped \subseteq dropped'
  BY Reading
<1>2. PICK x : x = reverseMap[home[u]]
  OBVIOUS
<1>3. PICK n \in Nat : n = stdout[1][3]
  BY <1>1
<1>4. \/ x = None /\ dropped' = dropped \cup {u} /\ UNCHANGED <<deltas, early>>
      \/ /\ x # None /\ deltas' = AppendDelta(<<x, reverseTurn[u], i>>, n)
         /\ early' = IF reverseTurn[u] = None THEN early \cup {i} ELSE early
  BY <1>1, <1>2, <1>3 DEF ReadDelta
<1>5. messages' = messages /\ early \subseteq early'
  BY <1>4 DEF ReadDelta
<1>6. Grows
  BY <1>1, <1>5 DEF Grows
<1>7. ComesFrom(d) /\ \A j \in Items : j # i => Moves(d, j)
  BY <1>1, ReadMoves
<1> DEFINE key == <<x, reverseTurn[u], i>>
<1>8. x # None => x \in Threads /\ x = ThreadOf[owner[u]] /\ key = OwnKey(i)
                  /\ key \in Threads \X (Turns \cup {None}) \X Items
  <2> SUFFICES ASSUME x # None PROVE x \in Threads /\ x = ThreadOf[owner[u]] /\ key = OwnKey(i)
                                     /\ key \in Threads \X (Turns \cup {None}) \X Items
    OBVIOUS
  <2>1. home[u] \in AppThreads
    BY <1>0, <1>1 DEF OwnersInv, Started
  <2>2. x \in Threads
    BY <1>2, <2>1 DEF TablesOk
  <2>3. x = ThreadOf[owner[u]]
    BY <1>0, <1>1, <1>2, EventRead DEF EventOf
  <2>4. reverseTurn[u] \in Turns \cup {None}
    BY DEF TablesOk
  <2>5. QED
    BY <1>1, <2>2, <2>3, <2>4 DEF OwnKey
<1>9. /\ deltas' \in Seq(Buffers) /\ UniqueKeys'
      /\ \A k \in 1..Len(deltas') : \/ x # None /\ deltas'[k].key = key
                                    \/ k \in 1..Len(deltas) /\ deltas'[k] = deltas[k]
      /\ \A k \in 1..Len(deltas) : \/ x # None /\ deltas[k].key = key
                                   \/ k \in 1..Len(deltas') /\ deltas'[k] = deltas[k]
  <2>1. CASE x = None
    BY <1>0, <1>4, <2>1 DEF UniqueKeys
  <2>2. CASE x # None
    <3> HIDE DEF key
    <3>1. deltas' = AppendDelta(key, n)
      BY <1>4, <2>2 DEF key
    <3>2. QED
      BY <1>0, <1>3, <1>8, <2>2, <3>1, DeltaAppended
  <2>3. QED
    BY <2>1, <2>2
<1>10. key[1] = x /\ key[2] = reverseTurn[u] /\ key[3] = i
  OBVIOUS
<1> HIDE DEF key
<1>11. OneSpeaker'
  <2>1. \A v, w \in running' : home'[v] = home'[w] => v = w
    BY <1>0, <1>1 DEF OneSpeaker
  <2>2. QED
    BY <1>0, <1>1, <1>6, <2>1, OneSpeakerKept
<1>12. EndsLast' /\ OneAfterAnother'
  <2>1. ASSUME NEW j \in Items, Buffered(j)' PROVE Buffered(j) \/ (d = 1 /\ FragmentAt(1, j))
    <3>1. PICK k \in 1..Len(deltas') : deltas'[k].key[3] = j
      BY <2>1 DEF Buffered
    <3>2. CASE deltas'[k].key = key
      BY <1>1, <1>10, <3>1, <3>2
    <3>3. CASE k \in 1..Len(deltas) /\ deltas'[k] = deltas[k]
      BY <3>1, <3>3 DEF Buffered
    <3>4. QED
      BY <1>9, <3>2, <3>3
  <2>2. QED
    BY <1>0, <1>1, <1>6, <1>7, <2>1, OrderKept
<1>13. BuffersInv'
  <2>1. ASSUME NEW k \in 1..Len(deltas')
        PROVE  LET b == deltas'[k]  v == items'[b.key[3]].turn
               IN /\ v # 0 /\ b.key[1] = ThreadOf[owner'[v]]
                  /\ IF b.key[2] = None THEN b.key[3] \in early' ELSE b.key[2] = reverseTurn'[v]
    <3>1. CASE x # None /\ deltas'[k].key = key
      <4>1. deltas'[k].key[3] = i /\ deltas'[k].key[1] = ThreadOf[owner[u]] /\ deltas'[k].key[2] = reverseTurn[u]
        BY <1>8, <1>10, <3>1
      <4>2. reverseTurn[u] = None => i \in early'
        BY <1>4, <3>1
      <4>3. QED
        BY <1>1, <4>1, <4>2
    <3>2. CASE k \in 1..Len(deltas) /\ deltas'[k] = deltas[k]
      <4>1. deltas'[k].key = deltas[k].key
        BY <3>2
      <4>2. QED
        BY <1>0, <1>1, <1>6, <3>2, <4>1, BuffersOwnedKept
    <3>3. QED
      BY <1>9, <3>1, <3>2
  <2>2. BuffersOwned'
    BY <2>1 DEF BuffersOwned
  <2>3. QED
    BY <1>9, <2>2 DEF BuffersInv, UniqueKeys
<1>14. ASSUME NEW j \in Items, j # i PROVE Awaited(j)' => Whole(j)'
  <2>1. BuffersStay(j)
    <3>1. ASSUME NEW k \in 1..Len(deltas), deltas[k].key[3] = j PROVE \E l \in 1..Len(deltas') : deltas'[l] = deltas[k]
      <4>1. deltas[k].key # key
        BY <1>10, <1>14, <3>1
      <4>2. QED
        BY <1>9, <4>1
    <3>2. ASSUME NEW l \in 1..Len(deltas'), deltas'[l].key[3] = j PROVE \E k \in 1..Len(deltas) : deltas[k] = deltas'[l]
      <4>1. deltas'[l].key # key
        BY <1>10, <1>14, <3>2
      <4>2. QED
        BY <1>9, <4>1
    <3>3. QED
      BY <3>1, <3>2 DEF BuffersStay
  <2>2. items'[j] = items[j] /\ Moves(d, j) /\ (Awaited(j) => Whole(j))
    BY <1>0, <1>1, <1>7, <1>14
  <2>3. QED
    BY <1>0, <1>6, <2>1, <2>2, WholeKept
<1>15. ASSUME Awaited(i)' PROVE Whole(i)'
  <2>1. x # None /\ deltas' = AppendDelta(key, n)
    BY <1>1, <1>4, <1>15 DEF Awaited, key
  <2>2. Awaited(i)
    BY <1>0, <1>1, <1>6, <1>7, <1>15, AwaitedBefore DEF ComesFrom
  <2> DEFINE s == items[i].text
  <2>3. PICK r \in 0..Len(s) : Holds(i, r) /\ \E f \in [(r + 1)..Len(s) -> 1..Len(stdout)] : Coming(i, r, f)
    BY <1>0, <2>2 DEF Whole
  <2>4. PICK f \in [(r + 1)..Len(s) -> 1..Len(stdout)] : Coming(i, r, f)
    BY <2>3
  <2>5. /\ r + 1 \in (r + 1)..Len(s) /\ f[r + 1] = 1 /\ n = s[r + 1]
        /\ \A k \in (r + 2)..Len(s) : f[k] \in 2..Len(stdout)
    BY <1>0, <1>1, <1>3, <2>4, NextFragment
  <2>6. s \in Seq(Nat) /\ Len(s) \in Nat /\ r \in Nat /\ r + 1 \in 0..Len(s) /\ r + 1 \in Nat /\ (r + 1) + 1 = r + 2
        /\ r + 1 # 0 /\ (r + 2)..Len(s) \subseteq (r + 1)..Len(s)
    <3>1. s \in Seq(Nat) /\ Len(s) \in Nat /\ r \in Nat
      BY <1>0 DEF ItemsOk
    <3> HIDE DEF s
    <3>2. QED
      BY <2>5, <3>1
  <2>7. Holds(i, r + 1)'
    <3>1. OwnKey(i)' = key
      BY <1>1, <1>8, <2>1 DEF OwnKey
    <3>2. CASE \E k \in 1..Len(deltas) : deltas[k].key = key
      <4>1. PICK k \in 1..Len(deltas) : deltas[k].key = key
        BY <3>2
      <4>2. k \in 1..Len(deltas') /\ deltas'[k].key = key /\ deltas'[k].text = Append(deltas[k].text, n)
        BY <1>0, <1>8, <2>1, <4>1, DeltaAppended
      <4>3. r # 0 /\ deltas[k].text = SubSeq(s, 1, r)
        <5>1. r # 0
          BY <1>8, <2>1, <2>3, <4>1 DEF Holds
        <5>2. PICK l \in 1..Len(deltas) : deltas[l].key = OwnKey(i) /\ deltas[l].text = SubSeq(s, 1, r)
          BY <2>3, <5>1 DEF Holds
        <5>3. l = k
          BY <1>0, <1>8, <2>1, <4>1, <5>2 DEF UniqueKeys
        <5>4. QED
          BY <5>1, <5>2, <5>3
      <4>4. Append(SubSeq(s, 1, r), s[r + 1]) = SubSeq(s, 1, r + 1)
        <5> HIDE DEF s
        <5>1. QED
          BY <2>5, <2>6
      <4>5. QED
        BY <1>1, <2>5, <2>6, <3>1, <4>2, <4>3, <4>4 DEF Holds
    <3>3. CASE \A k \in 1..Len(deltas) : deltas[k].key # key
      <4>1. PICK k \in 1..Len(deltas') : deltas'[k].key = key /\ deltas'[k].text = <<n>>
        BY <1>0, <1>8, <2>1, <3>3, DeltaAppended
      <4>2. r = 0
        BY <1>8, <2>1, <2>3, <3>3 DEF Holds
      <4>3. r + 1 = 1 /\ s[r + 1] = s[1] /\ SubSeq(s, 1, r + 1) = <<s[1]>>
        <5>1. r + 1 = 1 /\ s \in Seq(Nat) /\ Len(s) >= 1
          BY <2>5, <2>6, <4>2
        <5>2. SubSeq(s, 1, 1) = <<s[1]>>
          BY <5>1, FirstOf
        <5> HIDE DEF s
        <5>3. QED
          BY <5>1, <5>2
      <4>4. deltas'[k].text = SubSeq(s, 1, r + 1)
        BY <2>5, <4>1, <4>3
      <4>5. QED
        BY <1>1, <2>6, <3>1, <4>1, <4>4 DEF Holds
    <3>4. QED
      BY <3>2, <3>3
  <2>8. PICK g : g = [k \in (r + 2)..Len(s) |-> f[k] - 1]
    OBVIOUS
  <2>9. /\ Len(stdout) \in Nat /\ Len(stdout') = Len(stdout) - 1
        /\ \A p \in 1..Len(stdout') : stdout'[p] = stdout[p + 1] /\ p + 1 \in 1..Len(stdout)
    BY <1>1, ReadTail
  <2>10. \A k \in (r + 2)..Len(s) : g[k] = f[k] - 1 /\ g[k] \in 1..Len(stdout') /\ g[k] + 1 = f[k] /\ f[k] \in Nat
    BY <2>5, <2>8, <2>9
  <2>11. g \in [(r + 2)..Len(s) -> 1..Len(stdout')]
    BY <2>8, <2>10
  <2>12. ASSUME NEW k \in (r + 2)..Len(s) PROVE FragmentAt(g[k], i)' /\ stdout'[g[k]][3] = s[k]
    <3>1. FragmentAt(f[k], i) /\ stdout[f[k]][3] = s[k]
      BY <2>4, <2>6 DEF Coming
    <3>2. g[k] \in 1..Len(stdout') /\ stdout'[g[k]] = stdout[f[k]]
      BY <2>9, <2>10
    <3>3. QED
      BY <3>1, <3>2 DEF FragmentAt
  <2>13. ASSUME NEW k \in (r + 2)..Len(s), NEW l \in (r + 2)..Len(s), k < l PROVE g[k] < g[l]
    <3>1. f[k] < f[l]
      BY <2>4, <2>6, <2>13 DEF Coming
    <3>2. QED
      BY <2>10, <3>1
  <2>14. ASSUME NEW p \in 1..Len(stdout'), FragmentAt(p, i)' PROVE \E k \in (r + 2)..Len(s) : g[k] = p
    <3>1. p + 1 \in 1..Len(stdout) /\ FragmentAt(p + 1, i) /\ p \in Nat
      BY <2>9, <2>14 DEF FragmentAt
    <3>2. PICK k \in (r + 1)..Len(s) : f[k] = p + 1
      BY <2>4, <3>1 DEF Coming
    <3>3. k # r + 1
      BY <2>5, <3>1, <3>2
    <3>4. k \in (r + 2)..Len(s)
      <4> HIDE DEF s
      <4>1. QED
        BY <2>6, <3>3
    <3>5. QED
      BY <2>10, <3>1, <3>2, <3>4
  <2>15. Coming(i, r + 1, g)'
    BY <1>1, <2>6, <2>12, <2>13, <2>14 DEF Coming
  <2>16. QED
    BY <1>1, <2>6, <2>7, <2>11, <2>15 DEF Whole
<1>16. SentInv'
  BY <1>0, <1>1, <1>5, <1>6, SentKept DEF SentInv
<1>17. QED
  BY <1>11, <1>12, <1>13, <1>14, <1>15, <1>16 DEF SpeechInv

\* _pop_assistant_delta takes one buffer out, and leaves the others in their order.
LEMMA FoundKept ==
  ASSUME deltas \in Seq(Buffers), NEW x, NEW t, NEW i, NEW k \in Found(x, t, i)
  PROVE  /\ k \in 1..Len(deltas) /\ deltas[k].key[1] = x /\ deltas[k].key[2] = t
         /\ \A l \in 1..Len(deltas) : deltas[l].key = <<x, t, i>> => deltas[k].key = <<x, t, i>>
<1>1. CASE \E l \in 1..Len(deltas) : deltas[l].key = <<x, t, i>>
  <2>1. k \in 1..Len(deltas) /\ deltas[k].key = <<x, t, i>>
    BY <1>1 DEF Found
  <2>2. QED
    BY <2>1
<1>2. CASE \A l \in 1..Len(deltas) : deltas[l].key # <<x, t, i>>
  BY <1>2 DEF Found
<1>3. QED
  BY <1>1, <1>2

LEMMA NoneFound ==
  ASSUME deltas \in Seq(Buffers), NEW x, NEW t, NEW i, Found(x, t, i) = {}
  PROVE  \A l \in 1..Len(deltas) : deltas[l].key # <<x, t, i>>
  BY DEF Found

LEMMA LenJoined == \A S : \A q, r \in Seq(S) : Len(q \o r) = Len(q) + Len(r) /\ q \o r \in Seq(S)
  OBVIOUS

LEMMA BufferRemoved ==
  ASSUME deltas \in Seq(Buffers), UniqueKeys, NEW k \in 1..Len(deltas), deltas' = RemoveAt(deltas, k)
  PROVE  /\ deltas' \in Seq(Buffers) /\ UniqueKeys'
         /\ \A l \in 1..Len(deltas') : \E m \in 1..Len(deltas) : m # k /\ deltas'[l] = deltas[m]
         /\ \A m \in 1..Len(deltas) : m = k \/ \E l \in 1..Len(deltas') : deltas'[l] = deltas[m]
<1> DEFINE N == Len(deltas)
           kept == SubSeq(deltas, 1, k - 1)
           rest == SubSeq(deltas, k + 1, N)
<1>1. N \in Nat /\ k \in Nat /\ 1 <= k /\ k <= N
  OBVIOUS
<1>2. deltas' = kept \o rest
  BY DEF RemoveAt
<1>3. kept \in Seq(Buffers) /\ Len(kept) = k - 1 /\ \A l \in 1..(k - 1) : kept[l] = deltas[l]
  BY <1>1
<1>4. rest \in Seq(Buffers) /\ Len(rest) = N - k /\ \A l \in 1..(N - k) : rest[l] = deltas[k + l]
  <2>1. rest \in Seq(Buffers)
    BY <1>1
  <2>2. Len(rest) = N - k
    BY <1>1
  <2>3. \A l \in 1..(N - k) : rest[l] = deltas[k + l]
    BY <1>1
  <2>4. QED
    BY <2>1, <2>2, <2>3
<1> HIDE DEF kept, rest
<1>5. /\ deltas' \in Seq(Buffers) /\ Len(deltas') = N - 1
      /\ \A l \in 1..(k - 1) : deltas'[l] = deltas[l]
      /\ \A l \in k..(N - 1) : deltas'[l] = deltas[l + 1]
  <2>1. deltas' \in Seq(Buffers) /\ Len(deltas') = N - 1
    <3>1. kept \o rest \in Seq(Buffers)
      BY <1>3, <1>4, LenJoined
    <3>2. Len(kept \o rest) = Len(kept) + Len(rest)
      BY <1>3, <1>4, LenJoined
    <3>3. QED
      BY <1>1, <1>2, <1>3, <1>4, <3>1, <3>2
  <2>2. \A l \in 1..(k - 1) : deltas'[l] = deltas[l]
    BY <1>1, <1>2, <1>3, <1>4
  <2>3. ASSUME NEW l \in k..(N - 1) PROVE deltas'[l] = deltas[l + 1]
    <3>1. l - (k - 1) \in 1..(N - k) /\ k + (l - (k - 1)) = l + 1 /\ l \in 1..(N - 1) /\ l > k - 1
      BY <1>1
    <3>2. (kept \o rest)[l] = rest[l - (k - 1)]
      BY <1>1, <1>3, <1>4, <3>1
    <3>3. QED
      BY <1>2, <1>4, <3>1, <3>2
  <2>4. QED
    BY <2>1, <2>2, <2>3
<1>6. ASSUME NEW l \in 1..Len(deltas')
      PROVE  \E m \in 1..N : m # k /\ deltas'[l] = deltas[m] /\ m = IF l < k THEN l ELSE l + 1
  <2>1. CASE l < k
    <3>1. l \in 1..(k - 1) /\ l \in 1..N /\ l # k
      BY <1>1, <2>1
    <3>2. QED
      BY <1>5, <2>1, <3>1
  <2>2. CASE ~(l < k)
    <3>1. l \in k..(N - 1) /\ l + 1 \in 1..N /\ l + 1 # k
      BY <1>1, <1>5, <2>2
    <3>2. QED
      BY <1>5, <2>2, <3>1
  <2>3. QED
    BY <2>1, <2>2
<1>7. ASSUME NEW m \in 1..N, m # k PROVE \E l \in 1..Len(deltas') : deltas'[l] = deltas[m]
  <2>1. CASE m < k
    <3>1. m \in 1..(k - 1) /\ m \in 1..Len(deltas')
      BY <1>1, <1>5, <2>1
    <3>2. QED
      BY <1>5, <3>1
  <2>2. CASE ~(m < k)
    <3>1. m - 1 \in k..(N - 1) /\ m - 1 \in 1..Len(deltas') /\ (m - 1) + 1 = m
      BY <1>1, <1>5, <1>7, <2>2
    <3>2. QED
      BY <1>5, <3>1
  <2>3. QED
    BY <2>1, <2>2
<1>8. UniqueKeys'
  <2>1. ASSUME NEW a \in 1..Len(deltas'), NEW b \in 1..Len(deltas'), deltas'[a].key = deltas'[b].key PROVE a = b
    <3>1. PICK m \in 1..N : deltas'[a] = deltas[m] /\ m = IF a < k THEN a ELSE a + 1
      BY <1>6
    <3>2. PICK n \in 1..N : deltas'[b] = deltas[n] /\ n = IF b < k THEN b ELSE b + 1
      BY <1>6
    <3>3. m = n
      BY <2>1, <3>1, <3>2 DEF UniqueKeys
    <3>4. QED
      BY <1>1, <3>1, <3>2, <3>3
  <2>2. QED
    BY <2>1 DEF UniqueKeys
<1>9. QED
  BY <1>5, <1>6, <1>7, <1>8

\* The end of a message takes what is kept of it, or else of another that is not awaited.
LEMMA ReadMessageSpeech ==
  ASSUME WireInv, WireInv', TablesOk, NamesInv, StartedInv, SpeechInv, ReadMessage
  PROVE  SpeechInv'
<1>0. /\ OneSpeaker /\ EndsLast /\ OneAfterAnother /\ BuffersInv /\ SentInv /\ BuffersOwned /\ UniqueKeys
      /\ \A i \in Items : Awaited(i) => Whole(i)
      /\ deltas \in Seq(Buffers) /\ ItemsOk /\ running \subseteq AppTurns /\ OwnersInv
      /\ stdout \in Seq(Outputs) /\ stdout' \in Seq(Outputs)
  BY DEF SpeechInv, BuffersInv, UniqueKeys, StartedInv, ItemsOk, WireInv, PipesInv, OwnersInv
<1>1. PICK i \in Items, u \in AppTurns, d \in 0..1 :
        /\ i = stdout[1][2] /\ u = items[i].turn /\ Started(u) /\ u # 0 /\ d = 1
        /\ stdout # <<>> /\ stdout' = Tail(stdout) /\ Head(stdout) = stdout[1]
        /\ EndAt(1, i)
        /\ \A j \in Items : j # i => ~SpeechAt(1, j)
        /\ items' = items /\ UNCHANGED <<home, owner, running, reverseTurn>>
        /\ dropped \subseteq dropped'
  BY Reading
<1>2. PICK x : x = reverseMap[home[u]]
  OBVIOUS
<1>3. PICK t : t = reverseTurn[u]
  OBVIOUS
<1>4. \/ x = None /\ dropped' = dropped \cup {u} /\ UNCHANGED <<deltas, messages>>
      \/ /\ x # None
         /\ \/ Found(x, t, i) = {} /\ messages' \subseteq messages \cup {<<i, t, <<>>>>} /\ deltas' = deltas
            \/ \E k \in Found(x, t, i) :
                 messages' \subseteq messages \cup {<<i, t, deltas[k].text>>} /\ deltas' = RemoveAt(deltas, k)
  BY <1>1, <1>2, <1>3 DEF ReadMessage
<1>5. early' = early
  BY DEF ReadMessage
<1>6. Grows
  BY <1>1, <1>5 DEF Grows
<1>7. ComesFrom(d) /\ \A j \in Items : j # i => Moves(d, j)
  BY <1>1, ReadMoves
<1>8. x # None => x = ThreadOf[owner[u]] /\ OwnKey(i) = <<x, t, i>>
  <2> SUFFICES ASSUME x # None PROVE x = ThreadOf[owner[u]] /\ OwnKey(i) = <<x, t, i>>
    OBVIOUS
  <2>1. x = ThreadOf[owner[u]]
    BY <1>0, <1>1, <1>2, EventRead DEF EventOf
  <2>2. QED
    BY <1>1, <1>3, <2>1 DEF OwnKey
<1>9. \/ deltas' = deltas
      \/ \E k \in Found(x, t, i) : deltas' = RemoveAt(deltas, k) /\ x # None
  BY <1>4
<1>10. /\ deltas' \in Seq(Buffers) /\ UniqueKeys'
       /\ \A l \in 1..Len(deltas') : \E m \in 1..Len(deltas) : deltas'[l] = deltas[m]
  <2>1. CASE deltas' = deltas
    BY <1>0, <2>1 DEF UniqueKeys
  <2>2. ASSUME NEW k \in Found(x, t, i), deltas' = RemoveAt(deltas, k)
        PROVE  /\ deltas' \in Seq(Buffers) /\ UniqueKeys'
               /\ \A l \in 1..Len(deltas') : \E m \in 1..Len(deltas) : deltas'[l] = deltas[m]
    <3>1. k \in 1..Len(deltas)
      BY <1>0, FoundKept
    <3>2. QED
      BY <1>0, <2>2, <3>1, BufferRemoved
  <2>3. QED
    BY <1>9, <2>1, <2>2
<1>11. OneSpeaker'
  <2>1. \A v, w \in running' : home'[v] = home'[w] => v = w
    BY <1>0, <1>1 DEF OneSpeaker
  <2>2. QED
    BY <1>0, <1>1, <1>6, <2>1, OneSpeakerKept
<1>12. EndsLast' /\ OneAfterAnother'
  <2>1. \A j \in Items : Buffered(j)' => Buffered(j)
    BY <1>10 DEF Buffered
  <2>2. QED
    BY <1>0, <1>1, <1>6, <1>7, <2>1, OrderKept
<1>13. BuffersInv'
  <2>1. ASSUME NEW k \in 1..Len(deltas')
        PROVE  LET b == deltas'[k]  v == items'[b.key[3]].turn
               IN /\ v # 0 /\ b.key[1] = ThreadOf[owner'[v]]
                  /\ IF b.key[2] = None THEN b.key[3] \in early' ELSE b.key[2] = reverseTurn'[v]
    <3>1. PICK l \in 1..Len(deltas) : deltas'[k] = deltas[l]
      BY <1>10
    <3>2. deltas'[k].key = deltas[l].key
      BY <3>1
    <3>3. QED
      BY <1>0, <1>1, <1>6, <3>2, BuffersOwnedKept
  <2>2. BuffersOwned'
    BY <2>1 DEF BuffersOwned
  <2>3. QED
    BY <1>10, <2>2 DEF BuffersInv, UniqueKeys
<1>14. ~Awaited(i)'
  <2>1. items[i].done
    BY <1>0, <1>1 DEF EndsLast, EndAt
  <2>2. ASSUME NEW p \in 1..Len(stdout'), EndAt(p, i)' PROVE FALSE
    <3>1. p \in Nat /\ EndAt(p + d, i) /\ p + d \in 1..Len(stdout)
      BY <1>7, <2>2, ComesFromKind DEF EndAt
    <3>2. p + d <= 1
      BY <1>0, <1>1, <3>1 DEF EndsLast, EndAt
    <3>3. QED
      BY <1>1, <2>2, <3>1, <3>2
  <2>3. QED
    BY <1>1, <2>1, <2>2 DEF Awaited, Over
\* What is taken instead is of a message that is not awaited any more.
<1>15. ASSUME NEW j \in Items, j # i, NEW k \in Found(x, t, i), x # None, deltas[k].key[3] = j
       PROVE  ~Awaited(j)'
  <2>1. k \in 1..Len(deltas) /\ deltas[k].key[1] = x
    BY <1>0, <1>15, FoundKept
  <2>2. items[j].turn # 0 /\ x = ThreadOf[owner[items[j].turn]] /\ Buffered(j)
    BY <1>0, <1>15, <2>1 DEF BuffersOwned, Buffered
  <2>3. x = ThreadOf[owner[u]]
    BY <1>8, <1>15
  <2>4. items[i].done
    BY <1>0, <1>1 DEF EndsLast, EndAt
  <2>5. CASE home[items[j].turn] # home[u]
    <3>1. i \in Rivals(j)
      BY <1>1, <2>2, <2>3, <2>4, <2>5 DEF Rivals
    <3>2. i \in Rivals(j)'
      BY <1>0, <1>6, <2>2, <3>1, RivalsGrow
    <3>3. QED
      BY <3>2 DEF Awaited
  <2>6. CASE home[items[j].turn] = home[u]
    <3>1. 1 \in 1..Len(stdout)
      BY <1>1 DEF EndAt
    <3>2. Over(j) /\ \A q \in 1..Len(stdout) : EndAt(q, j) => q < 1
      BY <1>0, <1>1, <1>15, <2>2, <2>6, <3>1 DEF OneAfterAnother
    <3>3. ~\E q \in 1..Len(stdout) : EndAt(q, j)
      BY <3>2
    <3>4. ~Awaited(j)
      BY <3>2, <3>3 DEF Awaited
    <3>5. QED
      BY <1>0, <1>1, <1>6, <1>7, <2>2, <3>4, AwaitedBefore DEF ComesFrom
  <2>7. QED
    BY <2>5, <2>6
<1>16. ASSUME NEW j \in Items, j # i, Awaited(j)' PROVE Whole(j)'
  <2>1. BuffersStay(j)
    <3>1. CASE deltas' = deltas
      BY <3>1 DEF BuffersStay
    <3>2. ASSUME NEW k \in Found(x, t, i), deltas' = RemoveAt(deltas, k), x # None PROVE BuffersStay(j)
      <4>1. k \in 1..Len(deltas)
        BY <1>0, FoundKept
      <4>2. deltas[k].key[3] # j
        BY <1>15, <1>16, <3>2
      <4>3. \A m \in 1..Len(deltas) : m = k \/ \E l \in 1..Len(deltas') : deltas'[l] = deltas[m]
        BY <1>0, <3>2, <4>1, BufferRemoved
      <4>4. QED
        BY <1>10, <4>2, <4>3 DEF BuffersStay
    <3>3. QED
      BY <1>9, <3>1, <3>2
  <2>2. items'[j] = items[j] /\ Moves(d, j) /\ (Awaited(j) => Whole(j))
    BY <1>0, <1>1, <1>7, <1>16
  <2>3. QED
    BY <1>0, <1>6, <1>16, <2>1, <2>2, WholeKept
\* The message that is sent has what was kept of it, all of it.
<1>17. ASSUME NEW s, <<i, t, s>> \in messages', <<i, t, s>> \notin messages, Awaited(i)
       PROVE  items[i].text \in {<<>>, s}
  <2>1. x # None
    BY <1>4, <1>17
  <2>2. PICK r \in 0..Len(items[i].text) :
          Holds(i, r) /\ \E f \in [(r + 1)..Len(items[i].text) -> 1..Len(stdout)] : Coming(i, r, f)
    BY <1>0, <1>17 DEF Whole
  <2>3. PICK f \in [(r + 1)..Len(items[i].text) -> 1..Len(stdout)] : Coming(i, r, f)
    BY <2>2
  <2>4. items[i].text \in Seq(Nat) /\ Len(items[i].text) \in Nat
    BY <1>0 DEF ItemsOk
  <2>5. r = Len(items[i].text)
    <3>1. ASSUME NEW k \in (r + 1)..Len(items[i].text) PROVE FALSE
      <4>1. FragmentAt(f[k], i) /\ f[k] \in 1..Len(stdout)
        BY <2>3 DEF Coming
      <4>2. f[k] <= 1
        BY <1>0, <1>1, <4>1 DEF EndsLast, EndAt
      <4>3. f[k] = 1
        BY <4>1, <4>2
      <4>4. QED
        BY <1>1, <4>1, <4>3 DEF FragmentAt, EndAt
    <3>2. PICK l \in Nat : l = Len(items[i].text)
      BY <2>4
    <3>3. r # l => r + 1 \in (r + 1)..l
      BY <3>2
    <3>4. QED
      BY <3>1, <3>2, <3>3
  <2>6. CASE r = 0
    <3>1. PICK w \in Seq(Nat) : w = items[i].text
      BY <2>4
    <3>2. Len(w) = 0
      BY <2>5, <2>6, <3>1
    <3>3. w = <<>>
      BY <3>2
    <3>4. QED
      BY <3>1, <3>3
  <2>7. CASE r # 0
    <3>1. PICK k \in 1..Len(deltas) : deltas[k].key = <<x, t, i>> /\ deltas[k].text = SubSeq(items[i].text, 1, r)
      BY <1>8, <2>1, <2>2, <2>7 DEF Holds
    <3>2. deltas[k].text = items[i].text
      BY <2>4, <2>5, <3>1
    <3>3. Found(x, t, i) # {}
      BY <1>0, <3>1, NoneFound
    <3>4. PICK l \in Found(x, t, i) : s = deltas[l].text
      <4>1. PICK l \in Found(x, t, i) : messages' \subseteq messages \cup {<<i, t, deltas[l].text>>}
        BY <1>4, <2>1, <3>3
      <4>2. <<i, t, s>> = <<i, t, deltas[l].text>>
        BY <1>17, <4>1
      <4>3. QED
        BY <4>2
    <3>5. l \in 1..Len(deltas) /\ deltas[l].key = deltas[k].key
      BY <1>0, <3>1, <3>4, FoundKept
    <3>6. l = k
      BY <1>0, <3>5 DEF UniqueKeys
    <3>7. QED
      BY <3>2, <3>4, <3>6
  <2>8. QED
    BY <2>6, <2>7
<1>18. ASSUME NEW m \in messages' PROVE m[1] \in Items /\ items'[m[1]].done /\ SentInFull(m)'
  <2>1. CASE m \in messages
    BY <1>0, <1>1, <1>6, <2>1, SentKept
  <2>2. CASE m \notin messages
    <3>1. PICK s : m = <<i, t, s>>
      BY <1>4, <1>18, <2>2
    <3>2. m[1] = i /\ m[2] = t /\ m[3] = s
      BY <3>1
    <3>3. items[i].done
      BY <1>0, <1>1 DEF EndsLast, EndAt
    <3>4. CASE Awaited(i)
      BY <1>1, <1>17, <1>18, <2>2, <3>1, <3>2, <3>3, <3>4 DEF SentInFull
    <3>5. CASE ~Awaited(i)
      <4>1. \E p \in 1..Len(stdout) : EndAt(p, i)
        BY <1>1 DEF EndAt
      <4>2. u \in dropped \/ Rivals(i) # {} \/ (i \in early /\ t # None)
        BY <1>1, <1>3, <3>5, <4>1 DEF Awaited
      <4>3. Rivals(i) \subseteq Rivals(i)'
        BY <1>0, <1>1, <1>6, RivalsGrow
      <4>4. QED
        BY <1>1, <1>5, <3>2, <3>3, <4>2, <4>3 DEF SentInFull
    <3>6. QED
      BY <3>4, <3>5
  <2>3. QED
    BY <2>1, <2>2
<1>19. SentInv'
  BY <1>18 DEF SentInv
<1>20. ASSUME NEW j \in Items, Awaited(j)' PROVE Whole(j)'
  <2>1. j # i
    BY <1>14, <1>20
  <2>2. QED
    BY <1>16, <1>20, <2>1
<1>21. QED
  BY <1>11, <1>12, <1>13, <1>19, <1>20 DEF SpeechInv

\* Most steps neither read nor write anything of a message.
LEMMA QuietStep ==
  ASSUME WireInv, WireInv', StartedInv, SpeechInv, UNCHANGED speech, dropped \subseteq dropped',
         \A u \in AppTurns : home[u] # 0 => /\ home'[u] = home[u] /\ owner'[u] = owner[u]
                                            /\ reverseTurn[u] \in {None, reverseTurn'[u]},
         \A u \in running' : u \in running \/ home[u] = 0,
         \A u, v \in running' : home'[u] = home'[v] => u = v,
         NEW d \in 0..1, \A i \in Items : Moves(d, i)
  PROVE  SpeechInv'
<1>1. items' = items /\ early' = early
  BY DEF speech
<1>2. Grows
  BY <1>1 DEF Grows
<1>3. QED
  BY <1>2, QuietSpeech

LEMMA SameSpeakers ==
  ASSUME StartedInv, SpeechInv, home' = home, running' \subseteq running
  PROVE  /\ \A u \in running' : u \in running \/ home[u] = 0
         /\ \A u, v \in running' : home'[u] = home'[v] => u = v
  BY DEF SpeechInv, OneSpeaker

LEMMA NothingSaid ==
  ASSUME stdout \in Seq(Outputs), NEW d \in 0..1, d = 0,
         \/ stdout' = stdout
         \/ \E r \in Seq(Outputs) : stdout' = stdout \o r /\ \A o \in ToSet(r) : o[1] \notin {"delta", "message"}
  PROVE  \A i \in Items : Moves(d, i)
<1>0. \A p \in Nat : p + d = p /\ p - d = p
  OBVIOUS
<1>1. CASE stdout' = stdout
  <2>1. \A i, p : (SpeechAt(p, i)' <=> SpeechAt(p, i))
    BY <1>1 DEF SpeechAt, FragmentAt, EndAt
  <2>2. QED
    BY <1>0, <1>1, <2>1 DEF Moves
<1>2. ASSUME NEW r \in Seq(Outputs), stdout' = stdout \o r, \A o \in ToSet(r) : o[1] \notin {"delta", "message"}
      PROVE  \A i \in Items : Moves(d, i)
  <2> DEFINE N == Len(stdout)
  <2>1. N \in Nat /\ Len(r) \in Nat /\ Len(stdout') = N + Len(r)
    BY <1>2, LenJoined
  <2>2. \A p \in 1..N : stdout'[p] = stdout[p]
    BY <1>2
  <2>3. ASSUME NEW p \in (N + 1)..(N + Len(r)) PROVE stdout'[p][1] \notin {"delta", "message"}
    <3>1. p - N \in 1..Len(r) /\ p \in 1..(N + Len(r)) /\ ~(p <= N)
      BY <2>1
    <3>2. (stdout \o r)[p] = r[p - N]
      BY <2>1, <3>1
    <3>3. r[p - N] \in ToSet(r)
      BY <3>1, MembersOf
    <3>4. QED
      BY <1>2, <3>2, <3>3
  <2>4. ASSUME NEW i \in Items, NEW p \in Nat, SpeechAt(p, i)' PROVE SpeechAt(p, i) /\ stdout[p] = stdout'[p]
    <3>1. p \in 1..Len(stdout') /\ stdout'[p][1] \in {"delta", "message"}
      BY <2>4 DEF SpeechAt, FragmentAt, EndAt
    <3>2. p \in 1..N
      BY <2>1, <2>3, <3>1
    <3>3. QED
      BY <2>2, <2>4, <3>2 DEF SpeechAt, FragmentAt, EndAt
  <2>5. ASSUME NEW i \in Items, NEW p \in Nat, SpeechAt(p, i) PROVE SpeechAt(p, i)' /\ stdout'[p] = stdout[p]
    <3>1. p \in 1..N /\ p \in 1..Len(stdout')
      BY <2>1, <2>5 DEF SpeechAt, FragmentAt, EndAt
    <3>2. QED
      BY <2>2, <2>5, <3>1 DEF SpeechAt, FragmentAt, EndAt
  <2>6. QED
    BY <1>0, <2>4, <2>5 DEF Moves
<1>3. QED
  BY <1>1, <1>2

\* The handler binds a turn once: the app-server turn was started for that turn.
LEMMA HandlerQuiet ==
  ASSUME WireInv, TablesOk, TablesOk', Handler \/ Backend
  PROVE  /\ UNCHANGED <<stdout, home, running, owner, dropped, speech>>
         /\ \A u \in AppTurns : reverseTurn[u] \in {None, reverseTurn'[u]}
<1>0. UNCHANGED <<stdout, home, running, dropped>>
  BY HandlerLeaves
<1>1. UNCHANGED <<owner, speech>>
  <2>1. CASE Handler
    BY <2>1 DEF Handler, TimesOut, Mapped, ThreadStarted, TurnStarted, Resumed, Answered, Archived, SendAnswer,
                Remember, server, process
  <2>2. ASSUME NEW t \in Turns, NEW given, NEW named,
    TurnStart(t, given) \/ TurnSteer(t, given, named) \/ TurnCancel(t, given, named)
        PROVE  UNCHANGED <<owner, speech>>
    BY <2>2 DEF TurnStart, TurnSteer, TurnCancel, server, process
  <2>3. ASSUME NEW x \in Threads, NEW given,
               ThreadResume(x, given) \/ ThreadArchive(x, given) \/ ThreadUnarchive(x, given) \/ SyncAck(x)
        PROVE  UNCHANGED <<owner, speech>>
    BY <2>3 DEF ThreadResume, ThreadArchive, ThreadUnarchive, SyncAck, server, process
  <2>4. ASSUME NEW i \in Asks, NEW e \in Decisions, Respond(i, e) PROVE UNCHANGED <<owner, speech>>
    BY <2>4 DEF Respond, server, process
  <2>5. CASE Backend
    BY <2>2, <2>3, <2>4, <2>5 DEF Backend
  <2>6. QED
    BY <2>1, <2>5
<1>2. CASE TurnStarted
  <2>1. Returned("turn/start")
    BY <1>2 DEF TurnStarted
  <2>2. /\ handler.at = "turn/start" /\ ReplyOk(handler, call.reply) /\ handler.turn \in Turns /\ handler.turn # None
    BY <2>1, Waiting, Underway, CodexConstants DEF WireInv, Methods, OfTurns, Handlers
  <2>3. CASE reverseTurn' = reverseTurn
    BY <1>0, <1>1, <2>3
  <2>4. CASE Ok /\ reverseTurn' = [reverseTurn EXCEPT ![call.reply[2]] = handler.turn]
    <3>1. PICK v \in AppTurns : v = call.reply[2] /\ owner[v] = handler.turn
      BY <2>2, <2>4 DEF Ok, ReplyOk
    <3>2. reverseTurn' = [reverseTurn EXCEPT ![v] = handler.turn] /\ reverseTurn \in [AppTurns -> Turns \cup {None}]
      BY <2>4, <3>1 DEF TablesOk
    <3>3. reverseTurn'[v] = handler.turn
      BY <3>2
    <3>4. reverseTurn[v] # None => reverseTurn[v] = handler.turn
      BY <3>1 DEF TablesOk
    <3>5. QED
      BY <1>0, <1>1, <3>2, <3>3, <3>4
  <2>5. QED
    BY <1>2, <2>3, <2>4 DEF TurnStarted
<1>3. CASE Mapped /\ handler.op = "turn_steer"
  <2>1. PICK v \in AppTurns, t \in Turns : v = handler.appTurn /\ t = handler.turn /\ owner[v] = t
    BY <1>3, Underway DEF Mapped, TablesOk, SteerOk, WireInv, OfTurns
  <2>2. reverseTurn' = [reverseTurn EXCEPT ![v] = t] /\ reverseTurn \in [AppTurns -> Turns \cup {None}]
    BY <1>3, <2>1 DEF Mapped, MapTurn, TablesOk
  <2>3. reverseTurn'[v] = t
    BY <2>2
  <2>4. reverseTurn[v] # None => reverseTurn[v] = t
    BY <2>1 DEF TablesOk
  <2>5. QED
    BY <1>0, <1>1, <2>2, <2>3, <2>4
<1>4. CASE ~TurnStarted /\ ~(Mapped /\ handler.op = "turn_steer")
  <2>1. Mapped => reverseTurn' = reverseTurn
    BY <1>4 DEF Mapped, MapTurn
  <2>2. reverseTurn' = reverseTurn
    BY <1>4, <2>1, OtherTables DEF Next
  <2>3. QED
    BY <1>0, <1>1, <2>2
<1>5. QED
  BY <1>0, <1>1, <1>2, <1>3, <1>4

\* A turn is started in a thread in which none runs.
LEMMA ServeQuiet ==
  ASSUME WireInv, StartedInv, SpeechInv, Serve
  PROVE  /\ UNCHANGED <<reverseTurn, dropped, speech>>
         /\ \A u \in AppTurns : home[u] # 0 => home'[u] = home[u] /\ owner'[u] = owner[u]
         /\ \A u \in running' : u \in running \/ home[u] = 0
         /\ \A u, v \in running' : home'[u] = home'[v] => u = v
         /\ \E r \in Seq(Outputs) : stdout' = stdout \o r /\ \A o \in ToSet(r) : o[1] \notin {"delta", "message"}
<1>0. /\ home \in [AppTurns -> AppThreads \cup {0}] /\ owner \in [AppTurns -> Turns \cup {None}] /\ running \subseteq AppTurns
      /\ \A u \in AppTurns : home[u] = 0 <=> owner[u] = None
      /\ \A u \in running : u \in AppTurns /\ home[u] # 0
      /\ RpcInv /\ PipesInv /\ OwnersInv
  BY DEF WireInv, OwnersInv, StartedInv, Started
<1>1. UNCHANGED <<reverseTurn, dropped, speech>>
  BY DEF Serve, maps, told
<1>2. \A u \in AppTurns : home[u] # 0 => owner'[u] = owner[u]
  BY <1>0, ServeGrows DEF OwnersGrow
<1>3. \E r \in Seq(Outputs) : stdout' = stdout \o r /\ \A o \in ToSet(r) : o[1] \notin {"delta", "message"}
  <2>1. PICK o \in Outputs, r \in Seq(Outputs) :
          o[1] = "response" /\ stdout' = stdout \o r /\ \A p \in ToSet(r) : p = o \/ EndsTurn(p)
    BY ServeDoes
  <2>2. QED
    BY <2>1 DEF EndsTurn
<1>4. PICK a : a = Head(stdin)[3]
  OBVIOUS
<1>5. \/ home' = home /\ running' \subseteq running
      \/ \E v \in AppTurns : /\ RunningIn(a) = {} /\ home[v] = 0
                             /\ home' = [home EXCEPT ![v] = a] /\ running' = running \cup {v}
  BY <1>4 DEF Serve
<1>6. CASE home' = home /\ running' \subseteq running
  BY <1>1, <1>2, <1>3, <1>6, SameSpeakers
<1>7. ASSUME NEW v \in AppTurns, RunningIn(a) = {}, home[v] = 0, home' = [home EXCEPT ![v] = a],
             running' = running \cup {v}
      PROVE  /\ \A u \in AppTurns : home[u] # 0 => home'[u] = home[u]
             /\ \A u \in running' : u \in running \/ home[u] = 0
             /\ \A u, w \in running' : home'[u] = home'[w] => u = w
  <2>1. \A u \in AppTurns : home'[u] = IF u = v THEN a ELSE home[u]
    BY <1>0, <1>7
  <2>2. \A u \in running : u # v /\ home'[u] = home[u] /\ home[u] # a
    BY <1>0, <1>7, <2>1 DEF RunningIn
  <2>3. \A u, w \in running : home[u] = home[w] => u = w
    BY DEF SpeechInv, OneSpeaker
  <2>4. home'[v] = a
    BY <2>1
  <2>5. QED
    BY <1>7, <2>1, <2>2, <2>3, <2>4
<1>8. QED
  BY <1>1, <1>2, <1>3, <1>5, <1>6, <1>7

LEMMA NotifyQuiet ==
  ASSUME WireInv, StartedInv, SpeechInv, (AppServer /\ ~Serve) \/ Close \/ UNCHANGED vars,
         ~\E u \in AppTurns : Speak(u) \/ EndMessage(u)
  PROVE  /\ UNCHANGED <<home, owner, reverseTurn, dropped, speech>> /\ running' \subseteq running
         /\ \/ stdout' = stdout
            \/ \E r \in Seq(Outputs) : stdout' = stdout \o r /\ \A o \in ToSet(r) : o[1] \notin {"delta", "message"}
<1>0. RpcInv /\ PipesInv /\ OwnersInv /\ stdin \in Seq(Inputs) /\ stdout \in Seq(Outputs) /\ openAsks \subseteq Asks
  BY DEF WireInv, PipesInv, OwnersInv
<1>1. UNCHANGED <<home, owner, maps>> /\ dropped' = dropped
  BY <1>0, AppServerNotifies, NotifyAdds
<1>2. reverseTurn' = reverseTurn
  BY <1>1 DEF maps
<1>3. UNCHANGED speech /\ running' \subseteq running
  BY DEF AppServer, ReadAnswer, Exit, EndTurn, Ask, CloseThread, Close, vars, server, process
<1>4. ASSUME NEW o \in Outputs, o[1] \notin {"delta", "message"}, stdout' = Append(stdout, o)
      PROVE  \E r \in Seq(Outputs) : stdout' = stdout \o r /\ \A p \in ToSet(r) : p[1] \notin {"delta", "message"}
  <2>1. PICK r \in Seq(Outputs) : Append(stdout, o) = stdout \o r /\ ToSet(r) = {o}
    BY <1>0, AsJoined
  <2>2. QED
    BY <1>4, <2>1
<1>5. ASSUME NEW u \in AppTurns, stdout' = stdout \o Ends(u)
      PROVE  \E r \in Seq(Outputs) : stdout' = stdout \o r /\ \A p \in ToSet(r) : p[1] \notin {"delta", "message"}
  <2>1. Ends(u) \in Seq(Outputs) /\ \A p \in ToSet(Ends(u)) : p[1] \in {"turn", "resolved"}
    BY <1>0, EndsOutput
  <2>2. QED
    BY <1>5, <2>1
<1>6. ASSUME NEW i \in Asks, NEW kind \in {"ask", "resolved"}, stdout' = Append(stdout, <<kind, i>>)
      PROVE  \E r \in Seq(Outputs) : stdout' = stdout \o r /\ \A p \in ToSet(r) : p[1] \notin {"delta", "message"}
  <2>1. PICK o \in Outputs : o = <<kind, i>>
    BY OutputKinds
  <2>2. o[1] \notin {"delta", "message"}
    BY <2>1
  <2>3. QED
    BY <1>4, <1>6, <2>1, <2>2
<1>7. ASSUME NEW a \in AppThreads, stdout' = Append(stdout, <<"closed", a>>)
      PROVE  \E r \in Seq(Outputs) : stdout' = stdout \o r /\ \A p \in ToSet(r) : p[1] \notin {"delta", "message"}
  <2>1. PICK o \in Outputs : o = <<"closed", a>>
    BY OutputKinds
  <2>2. o[1] \notin {"delta", "message"}
    BY <2>1
  <2>3. QED
    BY <1>4, <1>7, <2>1, <2>2
<1>8. CASE ReadAnswer
  <2>1. stdout' = stdout \/ (Head(stdin)[2] \in openAsks /\ stdout' = Append(stdout, <<"resolved", Head(stdin)[2]>>))
    BY <1>8 DEF ReadAnswer
  <2>2. QED
    BY <1>0, <1>1, <1>2, <1>3, <1>6, <2>1
<1>9. ASSUME NEW u \in AppTurns, EndTurn(u) PROVE stdout' = stdout \o Ends(u)
  BY <1>9 DEF EndTurn
<1>10. ASSUME NEW u, NEW kind, NEW c, NEW offer, Ask(u, kind, c, offer)
       PROVE  \E i \in Asks : stdout' = Append(stdout, <<"ask", i>>)
  BY <1>10 DEF Ask
<1>11. ASSUME NEW a \in AppThreads, CloseThread(a) PROVE stdout' = Append(stdout, <<"closed", a>>)
  BY <1>11 DEF CloseThread
<1>12. CASE Exit \/ Close \/ UNCHANGED vars
  BY <1>1, <1>2, <1>3, <1>12 DEF Exit, Close, vars, pipes
<1>13. QED
  BY <1>1, <1>2, <1>3, <1>5, <1>6, <1>7, <1>8, <1>9, <1>10, <1>11, <1>12 DEF AppServer

\* What else is read is not of a message.
LEMMA ReaderQuiet ==
  ASSUME WireInv, WireInv', StartedInv, SpeechInv, Reader, ~ReadDelta, ~ReadMessage
  PROVE  SpeechInv'
<1>0. stdout \in Seq(Outputs)
  BY DEF WireInv, PipesInv
<1>1. UNCHANGED <<home, owner, running, reverseTurn, speech>> /\ dropped \subseteq dropped'
  BY DEF Reader, ReadResponse, ReadTurn, ReadAsk, ReadResolved, ReadClosed, Emit, server, process, maps, told
<1>2. \E d \in 0..1 : \A i \in Items : Moves(d, i)
  <2>1. CASE Emit
    <3>1. PICK d \in 0..1 : d = 0
      OBVIOUS
    <3>2. stdout' = stdout
      BY <2>1, EmitLeaves
    <3>3. QED
      BY <1>0, <3>1, <3>2, NothingSaid
  <2>2. CASE ~Emit
    <3>1. PICK d \in 0..1 : d = 1
      OBVIOUS
    <3>2. stdout # <<>> /\ stdout' = Tail(stdout) /\ Head(stdout)[1] \notin {"delta", "message"}
      BY <2>2 DEF Reader, ReadResponse, ReadTurn, ReadAsk, ReadResolved, ReadClosed, Reads
    <3>3. stdout[1][1] \notin {"delta", "message"}
      BY <3>2, ReadTail
    <3>4. \A i : ~SpeechAt(1, i)
      BY <3>3 DEF SpeechAt, FragmentAt, EndAt
    <3>5. QED
      BY <3>1, <3>2, <3>4, ReadMoves
  <2>3. QED
    BY <2>1, <2>2
<1>3. PICK d \in 0..1 : \A i \in Items : Moves(d, i)
  BY <1>2
<1>4. /\ \A u \in running' : u \in running \/ home[u] = 0
      /\ \A u, v \in running' : home'[u] = home'[v] => u = v
  BY <1>1, SameSpeakers
<1>5. QED
  BY <1>1, <1>3, <1>4, QuietStep

LEMMA SpeechStep ==
  ASSUME WireInv, WireInv', TablesOk, TablesOk', NamesInv, StartedInv, SpeechInv, [Next]_vars
  PROVE  SpeechInv'
<1>0. stdout \in Seq(Outputs)
  BY DEF WireInv, PipesInv
<1>1. ASSUME UNCHANGED speech, dropped \subseteq dropped',
             \A u \in AppTurns : home[u] # 0 => /\ home'[u] = home[u] /\ owner'[u] = owner[u]
                                                /\ reverseTurn[u] \in {None, reverseTurn'[u]},
             \A u \in running' : u \in running \/ home[u] = 0,
             \A u, v \in running' : home'[u] = home'[v] => u = v,
             \/ stdout' = stdout
             \/ \E r \in Seq(Outputs) : stdout' = stdout \o r /\ \A o \in ToSet(r) : o[1] \notin {"delta", "message"}
      PROVE  SpeechInv'
  <2>1. PICK d \in 0..1 : d = 0
    OBVIOUS
  <2>2. \A i \in Items : Moves(d, i)
    BY <1>0, <1>1, <2>1, NothingSaid
  <2>3. QED
    BY <1>1, <2>2, QuietStep
<1>2. CASE Handler \/ Backend
  <2>1. /\ UNCHANGED <<stdout, home, running, owner, dropped, speech>>
        /\ \A u \in AppTurns : reverseTurn[u] \in {None, reverseTurn'[u]}
    BY <1>2, HandlerQuiet
  <2>2. /\ \A u \in running' : u \in running \/ home[u] = 0
        /\ \A u, v \in running' : home'[u] = home'[v] => u = v
    BY <2>1, SameSpeakers
  <2>3. QED
    BY <1>1, <2>1, <2>2
<1>3. CASE Reader
  BY <1>3, ReadDeltaSpeech, ReadMessageSpeech, ReaderQuiet
<1>4. CASE Serve
  <2>1. \A u \in AppTurns : reverseTurn[u] \in {None, reverseTurn'[u]}
    BY <1>4, ServeQuiet
  <2>2. QED
    BY <1>1, <1>4, <2>1, ServeQuiet
<1>5. ASSUME NEW u \in AppTurns, Speak(u) \/ EndMessage(u) PROVE SpeechInv'
  BY <1>5, SpeechSpoken
<1>6. CASE ((AppServer /\ ~Serve) \/ Close \/ UNCHANGED vars) /\ ~\E u \in AppTurns : Speak(u) \/ EndMessage(u)
  <2>1. /\ UNCHANGED <<home, owner, reverseTurn, dropped, speech>> /\ running' \subseteq running
        /\ \/ stdout' = stdout
           \/ \E r \in Seq(Outputs) : stdout' = stdout \o r /\ \A o \in ToSet(r) : o[1] \notin {"delta", "message"}
    BY <1>6, NotifyQuiet
  <2>2. /\ \A u \in running' : u \in running \/ home[u] = 0
        /\ \A u, v \in running' : home'[u] = home'[v] => u = v
    BY <2>1, SameSpeakers
  <2>3. QED
    BY <1>1, <2>1, <2>2
<1>7. QED
  BY <1>2, <1>3, <1>4, <1>5, <1>6 DEF Next

LEMMA SpeechInit == Init => SpeechInv
<1> SUFFICES ASSUME Init PROVE SpeechInv
  OBVIOUS
<1>1. /\ stdout = <<>> /\ Len(stdout) = 0 /\ deltas = <<>> /\ Len(deltas) = 0 /\ messages = {} /\ running = {}
      /\ items = [i \in Items |-> [turn |-> 0, text |-> <<>>, done |-> FALSE]]
  BY DEF Init
<1>2. \A i \in Items : items[i].turn = 0 /\ items[i].text = <<>> /\ ~items[i].done
  BY <1>1
<1>3. OneSpeaker
  BY <1>1, <1>2 DEF OneSpeaker
<1>4. EndsLast /\ OneAfterAnother
  BY <1>1 DEF EndsLast, OneAfterAnother, EndAt
<1>5. BuffersInv
  <2>1. deltas \in Seq(Buffers)
    BY <1>1
  <2>2. QED
    BY <1>1, <2>1 DEF BuffersInv, BuffersOwned
<1>6. \A i \in Items : ~Awaited(i)
  BY <1>2 DEF Awaited
<1>7. SentInv
  BY <1>1 DEF SentInv
<1>8. QED
  BY <1>3, <1>4, <1>5, <1>6, <1>7 DEF SpeechInv

LEMMA MessagesTracked == Spec => []SpeechInv
<1>1. OwnedInv /\ OwnedInv' /\ EventInv /\ SpeechInv /\ [Next]_vars => SpeechInv'
  BY SpeechStep DEF OwnedInv, EventInv
<1>2. QED
  BY SpeechInit, TurnsOwned, EventsTracked, <1>1, PTL DEF Spec

\* A message whose text the connector puts together has all the fragments of its item, in
\* order (codex_app_server.py:952-979), whatever the reader drops, whatever is closed and
\* resumed between them and however late a turn is bound; but for a turn that is bound
\* amid the message, events of it that are dropped, and a thread whose agent spoke in a
\* second app-server thread.
THEOREM MessagesWhole == Spec => []MessageText
<1>1. SpeechInv => MessageText
  BY DEF SpeechInv, SentInv, SentInFull, MessageText
<1>2. QED
  BY MessagesTracked, <1>1, PTL
==============================================================================
