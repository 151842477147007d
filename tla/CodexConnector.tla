--------------------------- MODULE CodexConnector ---------------------------
(***************************************************************************)
(* Codex: CodexConnector (codex_app_server.py) between the server and the  *)
(* local `codex app-server`, over AppServerProcessClient                   *)
(* (app_server_client.py).  Two threads share the tables: the handler of   *)
(* backend messages, one at a time, which blocks in request() for a        *)
(* response or a timeout, and the reader of the child's stdout, which      *)
(* routes responses, notifications and approval requests.  An action ends  *)
(* where the other thread can come between: after a write to the pipe, and *)
(* between writes to two tables where that shows.                          *)
(*                                                                         *)
(* The app-server is external.  Of its notifications those that belong to  *)
(* a turn (<<"turn", u>>), carry a fragment or the end of one of its       *)
(* messages, resolve an approval or close a thread are kept.  The messages *)
(* of a turn come one after the other; their text may be given again at    *)
(* the end, and is otherwise put together from the fragments.              *)
(* Of the events that the handler itself sends only thread.started is kept *)
(* (it tells the server the thread), and a refused request for input       *)
(* leaves out its notice.  File watches and the read-only requests are not *)
(* modelled.                                                               *)
(* Thread and turn ids of the app-server are numbers; 0 is none.           *)
(***************************************************************************)
EXTENDS Naturals, Sequences, FiniteSets, SequencesExt

CONSTANTS Threads,        \* thread ids of the server
          Turns,          \* turn ids of the server
          ThreadOf,       \* the thread of a turn
          Known,          \* per thread: its app-server thread from earlier sessions, or 0
          KnownTurn,      \* per turn: its app-server turn from earlier sessions, or 0
          Commands,       \* command executions (with working directory and permissions)
          Offers,         \* the sets of decisions an approval request may offer
          MaxAppThreads,  \* bound on threads of the app-server
          MaxAppTurns,    \* bound on turns of the app-server
          MaxAsks,        \* bound on its requests
          MaxCalls,       \* bound on requests to it
          Spare,          \* how many of them are left at least when a turn is directed
          MaxItems,       \* bound on the messages of its agent
          MaxFragments,   \* bound on their fragments
          MaxTopics,      \* bound on its requests and messages together
          Dies            \* the app-server may exit, or be closed

None       == "none"
AppThreads == 1..MaxAppThreads
AppTurns   == 1..MaxAppTurns
Asks       == 1..MaxAsks
Items      == 1..MaxItems
Decisions  == {"accept", "acceptForSession", "decline"}
NoCall     == [id |-> 0, reply |-> <<>>]
Idle       == [at |-> "idle", op |-> None, thread |-> None, turn |-> None, app |-> 0,
               appTurn |-> 0, retried |-> FALSE, ask |-> 0, reply |-> None]

ASSUME CodexConstants ==
  /\ None \notin Threads \cup Turns \cup Commands
  /\ ThreadOf \in [Turns -> Threads] /\ Known \in [Threads -> AppThreads \cup {0}]
  /\ \A x, y \in Threads : x # y /\ Known[x] # 0 => Known[x] # Known[y]
  /\ KnownTurn \in [Turns -> AppTurns \cup {0}]
  /\ \A t \in Turns : KnownTurn[t] # 0 => /\ Known[ThreadOf[t]] # 0
                                         /\ \A s \in Turns : KnownTurn[s] = KnownTurn[t] => s = t
  /\ Offers \subseteq SUBSET Decisions
  /\ \A n \in {MaxAppThreads, MaxAppTurns, MaxAsks, MaxCalls, Spare, MaxItems, MaxFragments, MaxTopics} : n \in Nat
  /\ Dies \in BOOLEAN

VARIABLES
  threadMap,    \* thread_map: thread -> app-server thread
  reverseMap,   \* reverse_thread_map
  turnMap,      \* turn_map: turn -> app-server turn
  reverseTurn,  \* reverse_turn_map
  handler,      \* the backend message in progress: where it is, and its arguments
  call,         \* the request that waits for its response, and the response
  nextId,       \* _next_id
  stdin,        \* what the app-server has still to read
  stdout,       \* what the reader has still to read
  event,        \* what the reader is about to send to the server
  pendingAsks,  \* pending_approval_requests
  granted,      \* _session_command_approvals
  opened,       \* approvals the server has been told of
  answers,      \* per approval: the answers that were written
  heard,        \* <<thread, turn, app-server turn>> of the turn events sent
  dropped,      \* app-server turns an event of which was dropped
  bound,        \* per thread: the app-server thread the server was told
  archived,     \* app-server threads the server asked to archive
  gaveUp,       \* app-server threads a thread/resume of which timed out
  closed,       \* _closed
  alive, loaded, made,    \* the app-server runs; its loaded and its existing threads
  home, owner, running,   \* per app-server turn: its thread and its turn; those that run
  asks, openAsks,         \* its requests; those that wait for an answer
  directed,     \* <<turn, app-server turn>> of the turn/interrupt and turn/steer it read
  items,        \* its messages: their turn, their fragments, whether they ended
  deltas,       \* assistant_delta_buffers: keys with their fragments, in order
  messages,     \* messages sent without being given their text
  early         \* messages a fragment of which was read before its turn was bound

maps   == <<threadMap, reverseMap, turnMap, reverseTurn>>
rpc    == <<handler, call, nextId, closed>>
pipes  == <<stdin, stdout>>
approv == <<pendingAsks, granted, opened, answers>>
told   == <<heard, dropped, bound, archived, gaveUp>>
speech == <<items, deltas, messages, early>>
process == <<alive, loaded, made, home, owner, running, asks, openAsks, directed>>
server == <<process, speech>>
vars   == <<maps, rpc, pipes, event, approv, told, server>>

\* The turn of an earlier session that an app-server turn was started for; it runs no more.
EarlierTurn(u) == LET of == {t \in Turns : KnownTurn[t] = u}
                  IN IF of = {} THEN None ELSE CHOOSE t \in of : TRUE

Init ==
  /\ threadMap = [x \in Threads |-> 0] /\ reverseMap = [a \in AppThreads |-> None]
  /\ turnMap = [t \in Turns |-> 0] /\ reverseTurn = [u \in AppTurns |-> None]
  /\ handler = Idle /\ call = NoCall /\ nextId = 1 /\ closed = FALSE
  /\ stdin = <<>> /\ stdout = <<>> /\ event = <<>>
  /\ pendingAsks = {} /\ granted = {} /\ opened = {}
  /\ answers = [i \in Asks |-> <<>>]
  /\ heard = {} /\ dropped = {} /\ bound = Known /\ archived = {} /\ gaveUp = {}
  /\ alive = TRUE /\ loaded = {} /\ made = {Known[x] : x \in Threads} \ {0}
  /\ owner = [u \in AppTurns |-> EarlierTurn(u)] /\ running = {}
  /\ home = [u \in AppTurns |-> IF owner[u] = None THEN 0 ELSE Known[ThreadOf[owner[u]]]]
  /\ asks = [i \in Asks |-> <<>>] /\ openAsks = {} /\ directed = {}
  /\ items = [i \in Items |-> [turn |-> 0, text |-> <<>>, done |-> FALSE]]
  /\ deltas = <<>> /\ messages = {} /\ early = {}
------------------------------------------------------------------------------
(* request() and the timeouts                                              *)

\* An exception ends the message with an error; thread_archive goes on.
Failed(h) == IF h.op = "archive" THEN [h EXCEPT !.at = "unmapping"] ELSE Idle

\* request(): the response is registered under a new id, then the request is written.
\* send() raises once the process has exited.
Call(h, method, u) ==
  \/ /\ alive
     /\ handler' = [h EXCEPT !.at = method]
     /\ call' = [id |-> nextId, reply |-> <<>>] /\ nextId' = nextId + 1
     /\ stdin' = Append(stdin, <<method, nextId, h.app, h.turn, u>>)
  \/ ~alive /\ handler' = Failed(h) /\ call' = NoCall /\ UNCHANGED <<nextId, stdin>>

\* Variant: only a process that exited ends the wait.
TimesOutWhenDead ==
  /\ call.id # 0 /\ call.reply = <<>> /\ ~alive
  /\ handler' = Failed(handler) /\ call' = NoCall
  /\ gaveUp' = gaveUp \cup (IF handler.at = "thread/resume" THEN {handler.app} ELSE {})
  /\ UNCHANGED <<maps, nextId, closed, pipes, event, approv, heard, dropped, bound, archived, server>>

\* The response does not come in time; the id is forgotten.
TimesOut ==
  /\ call.id # 0 /\ call.reply = <<>>
  /\ handler' = Failed(handler) /\ call' = NoCall
  /\ gaveUp' = gaveUp \cup (IF handler.at = "thread/resume" THEN {handler.app} ELSE {})
  /\ UNCHANGED <<maps, nextId, closed, pipes, event, approv, heard, dropped, bound, archived, server>>

Returned(method) == handler.at = method /\ call.reply # <<>>
Ok == call.reply[1] = "ok"
\* close() of the session's teardown: the process is ended and the reader stops, which
\* wakes no request that waits.
Close ==
  /\ Dies /\ ~closed /\ closed' = TRUE /\ alive' = FALSE
  /\ UNCHANGED <<maps, handler, call, nextId, pipes, event, approv, told, loaded, made, home, owner,
                 running, asks, openAsks, directed, speech>>
------------------------------------------------------------------------------
(* Backend messages                                                        *)

\* The message loop hands over one message at a time, while n requests are left of the
\* bound.  Starting a turn may take three; directing it may need less (Spare), so that the
\* turn that was started last is directed too.
Begins(n) == handler = Idle /\ nextId + n <= MaxCalls

\* The first of the two writes that bind a thread; Mapped makes the second.
MapThread(h) ==
  /\ threadMap' = [threadMap EXCEPT ![h.thread] = h.app]
  /\ handler' = [h EXCEPT !.at = "mapping"]

Request(op, x, t, given) ==
  [Idle EXCEPT !.op = op, !.thread = x, !.turn = t,
               !.app = IF given # 0 THEN given ELSE threadMap[x]]

\* turn_start; the server may or may not name the app-server thread.
TurnStart(t, given) ==
  /\ Begins(3)
  /\ LET h == Request("turn_start", ThreadOf[t], t, given)
     IN \/ h.app = 0 /\ Call(h, "thread/start", 0) /\ UNCHANGED threadMap
        \/ h.app # 0 /\ MapThread(h) /\ UNCHANGED <<call, nextId, stdin>>
  /\ UNCHANGED <<reverseMap, turnMap, reverseTurn, closed, stdout, event, approv, told, server>>

\* The app-server turns the server was told for a turn: turn.started goes out with the
\* write of reverse_turn_map.
ToldTurns(t) == {u \in AppTurns : reverseTurn[u] = t} \cup ({KnownTurn[t]} \ {0})

\* A turn that the server names goes before the one in the map.
AppTurn(t, named) == IF named # 0 THEN named ELSE turnMap[t]

\* turn_steer needs both ids, from the server or from the maps, and binds both.
TurnSteer(t, given, named) ==
  /\ Begins(Spare)
  /\ LET h == Request("turn_steer", ThreadOf[t], t, given)  u == AppTurn(t, named)
     IN h.app # 0 /\ u # 0 /\ MapThread([h EXCEPT !.appTurn = u])
  /\ UNCHANGED <<reverseMap, turnMap, reverseTurn, call, nextId, closed, pipes, event, approv, told, server>>

\* turn_cancel needs both as well, and binds neither.
TurnCancel(t, given, named) ==
  /\ Begins(Spare)
  /\ LET h == Request("turn_cancel", ThreadOf[t], t, given)  u == AppTurn(t, named)
     IN h.app # 0 /\ u # 0 /\ Call(h, "turn/interrupt", u)
  /\ UNCHANGED <<maps, closed, stdout, event, approv, told, server>>

ThreadResume(x, given) ==
  /\ Begins(3)
  /\ LET h == Request("thread_resume", x, None, given) IN h.app # 0 /\ MapThread(h)
  /\ UNCHANGED <<reverseMap, turnMap, reverseTurn, call, nextId, closed, pipes, event, approv, told, server>>

ThreadArchive(x, given) ==
  /\ Begins(3)
  /\ LET h == Request("archive", x, None, given)
     IN /\ archived' = archived \cup ({h.app} \ {0})
        /\ \/ h.app # 0 /\ Call(h, "thread/archive", 0)
           \/ h.app = 0 /\ handler' = Failed(h) /\ UNCHANGED <<call, nextId, stdin>>
  /\ UNCHANGED <<maps, closed, stdout, event, approv, heard, dropped, bound, gaveUp, server>>

ThreadUnarchive(x, given) ==
  /\ Begins(3)
  /\ LET h == Request("unarchive", x, None, given) IN h.app # 0 /\ Call(h, "thread/unarchive", 0)
  /\ UNCHANGED <<maps, closed, stdout, event, approv, told, server>>

\* thread.sync_ack binds the threads the server knows; there is no reply.
SyncAck(x) ==
  /\ handler = Idle /\ bound[x] # 0
  /\ threadMap' = [threadMap EXCEPT ![x] = bound[x]]
  /\ reverseMap' = [reverseMap EXCEPT ![bound[x]] = x]
  /\ UNCHANGED <<turnMap, reverseTurn, rpc, pipes, event, approv, told, server>>

\* turn_steer binds its turn too; reverse_turn_map changes only for one of an earlier session.
MapTurn ==
  LET t == handler.turn  u == handler.appTurn
  IN /\ turnMap' = IF handler.op = "turn_steer" THEN [turnMap EXCEPT ![t] = u] ELSE turnMap
     /\ reverseTurn' = IF handler.op = "turn_steer" THEN [reverseTurn EXCEPT ![u] = t] ELSE reverseTurn

\* Variant: a thread the server named is bound in one direction only.
MappedOneWay ==
  /\ handler.at = "mapping"
  /\ reverseMap' = reverseMap
  /\ \/ handler.op = "turn_start" /\ ~handler.retried /\ Call(handler, "turn/start", 0)
     \/ handler.op = "turn_steer" /\ Call(handler, "turn/steer", handler.appTurn)
     \/ (handler.op = "thread_resume" \/ handler.retried) /\ Call(handler, "thread/resume", 0)
  /\ MapTurn /\ UNCHANGED <<threadMap, closed, stdout, event, approv, told, server>>

\* The second write, for turn_steer those of the turn, and the request that needs them.
Mapped ==
  /\ handler.at = "mapping"
  /\ reverseMap' = [reverseMap EXCEPT ![handler.app] = handler.thread]
  /\ \/ handler.op = "turn_start" /\ ~handler.retried /\ Call(handler, "turn/start", 0)
     \/ handler.op = "turn_steer" /\ Call(handler, "turn/steer", handler.appTurn)
     \/ (handler.op = "thread_resume" \/ handler.retried) /\ Call(handler, "thread/resume", 0)
  /\ MapTurn /\ UNCHANGED <<threadMap, closed, stdout, event, approv, told, server>>

\* thread/start returned: both maps, thread.started, and turn/start.
ThreadStarted ==
  /\ Returned("thread/start")
  /\ \/ /\ Ok
        /\ LET x == handler.thread  a == call.reply[2]
           IN /\ threadMap' = [threadMap EXCEPT ![x] = a]
              /\ reverseMap' = [reverseMap EXCEPT ![a] = x]
              /\ bound' = [bound EXCEPT ![x] = a]
              /\ Call([handler EXCEPT !.app = a], "turn/start", 0)
     \/ /\ ~Ok /\ handler' = Idle /\ call' = NoCall
        /\ UNCHANGED <<threadMap, reverseMap, bound, nextId, stdin>>
  /\ UNCHANGED <<turnMap, reverseTurn, closed, stdout, event, approv, heard, dropped, archived, gaveUp, server>>

\* turn/start returned: both maps and turn.started.  A thread that is not loaded is
\* resumed, once.
TurnStarted ==
  /\ Returned("turn/start") /\ call' = NoCall
  /\ \/ /\ Ok /\ handler' = Idle
        /\ turnMap' = [turnMap EXCEPT ![handler.turn] = call.reply[2]]
        /\ reverseTurn' = [reverseTurn EXCEPT ![call.reply[2]] = handler.turn]
        /\ UNCHANGED threadMap
     \/ /\ call.reply[1] = "not found" /\ ~handler.retried
        /\ MapThread([handler EXCEPT !.retried = TRUE])
        /\ UNCHANGED <<turnMap, reverseTurn>>
     \/ /\ ~Ok /\ (call.reply[1] = "not found" => handler.retried)
        /\ handler' = Idle /\ UNCHANGED <<threadMap, turnMap, reverseTurn>>
  /\ UNCHANGED <<reverseMap, nextId, closed, pipes, event, approv, told, server>>

\* thread/resume returned: thread.resumed, and turn/start if a turn waits for it.
Resumed ==
  /\ Returned("thread/resume")
  /\ \/ Ok /\ handler.op = "turn_start" /\ Call(handler, "turn/start", 0)
     \/ /\ ~Ok \/ handler.op # "turn_start"
        /\ handler' = Idle /\ call' = NoCall /\ UNCHANGED <<nextId, stdin>>
  /\ UNCHANGED <<maps, closed, stdout, event, approv, told, server>>

\* turn/steer, turn/interrupt and thread/unarchive returned; only the last binds.
Answered ==
  /\ handler.at \in {"turn/steer", "turn/interrupt", "thread/unarchive"} /\ call.reply # <<>>
  /\ handler' = Idle /\ call' = NoCall
  /\ \/ /\ handler.at = "thread/unarchive" /\ Ok
        /\ threadMap' = [threadMap EXCEPT ![handler.thread] = handler.app]
        /\ reverseMap' = [reverseMap EXCEPT ![handler.app] = handler.thread]
     \/ /\ ~(handler.at = "thread/unarchive" /\ Ok)
        /\ UNCHANGED <<threadMap, reverseMap>>
  /\ UNCHANGED <<turnMap, reverseTurn, nextId, closed, pipes, event, approv, told, server>>

\* thread/archive returned or failed: the thread is unbound either way.  The search for
\* its turns compares their app-server ids with the thread: none is ever found.
Archived ==
  /\ \/ Returned("thread/archive")
     \/ handler.at = "unmapping"
  /\ handler' = Idle /\ call' = NoCall
  /\ threadMap' = [threadMap EXCEPT ![handler.thread] = 0]
  /\ reverseMap' = [a \in AppThreads |-> IF a = handler.app THEN None ELSE reverseMap[a]]
  /\ UNCHANGED <<turnMap, reverseTurn, nextId, closed, pipes, event, approv, told, server>>
------------------------------------------------------------------------------
(* Approvals                                                               *)

\* Variant: the key is the thread.
KeyOfThread(i) == <<home[asks[i][2]], None>>

\* _session_command_key: thread and operation of a command execution.
Key(i) == <<home[asks[i][2]], asks[i][3]>>
HasKey(i) == asks[i][1] = "approval" /\ asks[i][3] # None

\* Variant: the request stays in the table.
RespondKeeping(i, d) ==
  /\ handler = Idle /\ i \in opened
  /\ i \in pendingAsks
  /\ handler' = [Idle EXCEPT !.at = "answering", !.op = "respond", !.ask = i, !.reply = d]
  /\ UNCHANGED <<maps, call, nextId, closed, pipes, event, approv, told, server>>

\* approval_respond takes the request out of the table; one it does not find is refused.
Respond(i, d) ==
  /\ handler = Idle /\ i \in opened
  /\ i \in pendingAsks /\ pendingAsks' = pendingAsks \ {i}
  /\ handler' = [Idle EXCEPT !.at = "answering", !.op = "respond", !.ask = i, !.reply = d]
  /\ UNCHANGED <<maps, call, nextId, closed, pipes, event, granted, opened, answers, told, server>>

Remembers(i, d) ==
  /\ HasKey(i) /\ d = "acceptForSession"
  /\ "accept" \in asks[i][4] /\ "acceptForSession" \notin asks[i][4]

\* send_response.  What the app-server cannot remember is sent as "accept".
SendAnswer ==
  /\ handler.at = "answering"
  /\ LET i == handler.ask  d == handler.reply
         sent == IF Remembers(i, d) THEN "accept" ELSE d
     IN \/ /\ alive
           /\ stdin' = Append(stdin, <<"answer", i>>)
           /\ answers' = [answers EXCEPT ![i] = Append(@, <<"user", d, sent>>)]
           /\ handler' = [handler EXCEPT !.at = "answered"]
        \/ ~alive /\ handler' = Idle /\ UNCHANGED <<stdin, answers>>
  /\ UNCHANGED <<maps, call, nextId, closed, stdout, event, pendingAsks, granted, opened, told, server>>

\* Only then is the operation remembered.
Remember ==
  /\ handler.at = "answered"
  /\ granted' = IF Remembers(handler.ask, handler.reply)
                THEN granted \cup {Key(handler.ask)} ELSE granted
  /\ handler' = Idle
  /\ UNCHANGED <<maps, call, nextId, closed, pipes, event, pendingAsks, opened, answers, told, server>>
------------------------------------------------------------------------------
(* The reader: _route_message and handle_appserver_message                 *)

Reads(kind) ==
  ~closed /\ event = <<>> /\ stdout # <<>> /\ Head(stdout)[1] = kind /\ stdout' = Tail(stdout)

\* Variant: a turn/start that waits takes the next response that names something.
ReadResponseUnmatched ==
  /\ Reads("response")
  /\ call' = IF \/ call.id = Head(stdout)[2]
                \/ handler.at = "turn/start" /\ Head(stdout)[3] \in {<<"ok", u>> : u \in AppTurns}
             THEN [call EXCEPT !.reply = Head(stdout)[3]] ELSE call
  /\ UNCHANGED <<maps, handler, nextId, closed, stdin, event, approv, told, server>>

\* A response goes to the request that waits under its id; a late one is dropped.
ReadResponse ==
  /\ Reads("response")
  /\ call' = IF call.id = Head(stdout)[2] THEN [call EXCEPT !.reply = Head(stdout)[3]] ELSE call
  /\ UNCHANGED <<maps, handler, nextId, closed, stdin, event, approv, told, server>>

\* Variant: an event belongs to any turn that the thread has run.
ReadTurnOfThread ==
  /\ Reads("turn")
  /\ LET u == Head(stdout)[2]  x == reverseMap[home[u]]
     IN \/ /\ x = None /\ dropped' = dropped \cup {u} /\ UNCHANGED event
        \/ /\ x # None /\ UNCHANGED dropped
           /\ \E t \in Turns : ThreadOf[t] = x /\ turnMap[t] # 0 /\ event' = <<"turn", x, t, u>>
  /\ UNCHANGED <<maps, rpc, stdin, approv, heard, bound, archived, gaveUp, server>>

\* A notification of a turn is dropped when its thread is not bound.
ReadTurn ==
  /\ Reads("turn")
  /\ LET u == Head(stdout)[2]  x == reverseMap[home[u]]
     IN \/ /\ x = None /\ dropped' = dropped \cup {u} /\ UNCHANGED event
        \/ /\ x # None /\ event' = <<"turn", x, reverseTurn[u], u>> /\ UNCHANGED dropped
  /\ UNCHANGED <<maps, rpc, stdin, approv, heard, bound, archived, gaveUp, server>>

\* _pop_assistant_delta: the buffer under the key of the message, or else the first that is
\* kept for its turn.
Found(x, t, i) ==
  LET own  == {k \in 1..Len(deltas) : deltas[k].key = <<x, t, i>>}
      turn == {k \in 1..Len(deltas) : deltas[k].key[1] = x /\ deltas[k].key[2] = t}
  IN IF own # {} THEN own ELSE {k \in turn : \A j \in turn : k <= j}

\* Variant: a fragment takes the place of the one before.
AppendReplacing(key, n) ==
  Append(SelectSeq(deltas, LAMBDA d : d.key # key), [key |-> key, text |-> <<n>>])

\* _append_assistant_delta
AppendDelta(key, n) ==
  IF \E k \in 1..Len(deltas) : deltas[k].key = key
  THEN [k \in 1..Len(deltas) |-> IF deltas[k].key = key THEN [deltas[k] EXCEPT !.text = Append(@, n)]
                                 ELSE deltas[k]]
  ELSE Append(deltas, [key |-> key, text |-> <<n>>])

\* A fragment is kept until its message ends.
ReadDelta ==
  /\ Reads("delta")
  /\ LET i == Head(stdout)[2]  n == Head(stdout)[3]
         u == items[i].turn    x == reverseMap[home[u]]
     IN \/ x = None /\ dropped' = dropped \cup {u} /\ UNCHANGED <<event, deltas, early>>
        \/ /\ x # None /\ event' = <<"turn", x, reverseTurn[u], u>> /\ UNCHANGED dropped
           /\ deltas' = AppendDelta(<<x, reverseTurn[u], i>>, n)
           /\ early' = IF reverseTurn[u] = None THEN early \cup {i} ELSE early
  /\ UNCHANGED <<maps, rpc, stdin, approv, heard, bound, archived, gaveUp, process, items, messages>>

\* The end of a message: what was kept of it goes, into the message if that has no text.
ReadMessage ==
  /\ Reads("message")
  /\ LET i == Head(stdout)[2]  given == Head(stdout)[3]
         u == items[i].turn    x == reverseMap[home[u]]  t == reverseTurn[u]
         Sends(text) == messages' = IF given THEN messages ELSE messages \cup {<<i, t, text>>}
     IN \/ x = None /\ dropped' = dropped \cup {u} /\ UNCHANGED <<event, deltas, messages>>
        \/ /\ x # None /\ event' = <<"turn", x, t, u>> /\ UNCHANGED dropped
           /\ \/ Found(x, t, i) = {} /\ Sends(<<>>) /\ UNCHANGED deltas
              \/ \E k \in Found(x, t, i) : Sends(deltas[k].text) /\ deltas' = RemoveAt(deltas, k)
  /\ UNCHANGED <<maps, rpc, stdin, approv, heard, bound, archived, gaveUp, process, items, early>>

MayAutoAccept(i) == HasKey(i) /\ Key(i) \in granted /\ "accept" \in asks[i][4]

\* Variant: whoever has a grant is not asked again, though "accept" is not offered.
HoldUngranted(i) == IF HasKey(i) /\ Key(i) \in granted THEN pendingAsks ELSE pendingAsks \cup {i}

Hold(i) == pendingAsks \cup {i}

\* A request of the app-server: an approval waits for the server unless the operation
\* was granted; a request for input is refused at once.  If the process has exited, the
\* write raises and the reader ends: nothing more is read.
ReadAsk ==
  /\ Reads("ask")
  /\ LET i == Head(stdout)[2]
     IN \/ /\ asks[i][1] = "input" /\ alive
           /\ stdin' = Append(stdin, <<"answer", i>>)
           /\ answers' = [answers EXCEPT ![i] = Append(@, <<"auto", "error">>)]
           /\ UNCHANGED <<pendingAsks, event>>
        \/ /\ asks[i][1] = "approval" /\ MayAutoAccept(i) /\ alive
           /\ stdin' = Append(stdin, <<"answer", i>>)
           /\ answers' = [answers EXCEPT ![i] = Append(@, <<"auto", "accept">>)]
           /\ UNCHANGED <<pendingAsks, event>>
        \/ /\ asks[i][1] = "approval" /\ ~MayAutoAccept(i)
           /\ pendingAsks' = Hold(i) /\ event' = <<"ask", i>>
           /\ UNCHANGED <<answers, stdin>>
  /\ UNCHANGED <<maps, rpc, granted, opened, told, server>>

\* serverRequest/resolved: the request leaves the table, if its thread is bound.
ReadResolved ==
  /\ Reads("resolved")
  /\ LET i == Head(stdout)[2]
     IN pendingAsks' = IF reverseMap[home[asks[i][2]]] # None THEN pendingAsks \ {i} ELSE pendingAsks
  /\ UNCHANGED <<maps, rpc, stdin, event, granted, opened, answers, told, server>>

\* thread/closed: the first of two pops.
ReadClosed ==
  /\ Reads("closed")
  /\ LET a == Head(stdout)[2]
     IN \/ reverseMap[a] = None /\ UNCHANGED <<reverseMap, event>>
        \/ /\ reverseMap[a] # None /\ event' = <<"closed", reverseMap[a]>>
           /\ reverseMap' = [reverseMap EXCEPT ![a] = None]
  /\ UNCHANGED <<threadMap, turnMap, reverseTurn, rpc, stdin, approv, told, server>>

\* What was read is sent to the server; thread/closed makes its second pop before.
Emit ==
  /\ event # <<>> /\ event' = <<>>
  /\ opened' = opened \cup {i \in Asks : event = <<"ask", i>>}
  /\ heard' = heard \cup (IF event[1] = "turn" THEN {<<event[2], event[3], event[4]>>} ELSE {})
  /\ threadMap' = [x \in Threads |-> IF event = <<"closed", x>> THEN 0 ELSE threadMap[x]]
  /\ UNCHANGED <<reverseMap, turnMap, reverseTurn, rpc, pipes, pendingAsks, granted, answers,
                 dropped, bound, archived, gaveUp, server>>
------------------------------------------------------------------------------
(* The app-server (external)                                               *)

Reply(id, value) == <<<<"response", id, value>>>>
Resolution(u) == LET open == {i \in openAsks : asks[i][2] = u}
                 IN IF open = {} THEN <<>> ELSE <<<<"resolved", CHOOSE i \in open : TRUE>>>>

\* A turn ends: its approval is resolved and its end reported.
Ends(u) == Resolution(u) \o <<<<"turn", u>>>>

RunningIn(a) == {u \in running : home[u] = a}

\* It reads a request and carries it out, or answers with an error.
Serve ==
  /\ alive /\ stdin # <<>> /\ Head(stdin)[1] # "answer" /\ stdin' = Tail(stdin)
  /\ LET m == Head(stdin)  method == m[1]  id == m[2]  a == m[3]  t == m[4]  u == m[5]
     IN /\ directed' = directed \cup (IF u # 0 THEN {<<t, u>>} ELSE {})
        /\ \/ \* an error
              /\ stdout' = stdout \o Reply(id, <<IF method = "turn/start" /\ a \notin loaded
                                                 THEN "not found" ELSE "error">>)
              /\ UNCHANGED <<loaded, made, home, owner, running, openAsks>>
           \/ /\ method = "thread/start"
              /\ \E b \in AppThreads \ made :
                   /\ made' = made \cup {b} /\ loaded' = loaded \cup {b}
                   /\ stdout' = stdout \o Reply(id, <<"ok", b>>)
              /\ UNCHANGED <<home, owner, running, openAsks>>
           \/ /\ method = "turn/start" /\ a \in loaded /\ RunningIn(a) = {}
              /\ \E v \in AppTurns :
                   /\ home[v] = 0 /\ \A w \in 1..(v - 1) : home[w] # 0
                   /\ home' = [home EXCEPT ![v] = a] /\ owner' = [owner EXCEPT ![v] = t]
                   /\ running' = running \cup {v}
                   /\ stdout' = stdout \o Reply(id, <<"ok", v>>)
              /\ UNCHANGED <<loaded, made, openAsks>>
           \/ /\ method = "thread/resume" /\ loaded' = loaded \cup {a}
              /\ stdout' = stdout \o Reply(id, <<"ok", 0>>)
              /\ UNCHANGED <<made, home, owner, running, openAsks>>
           \/ /\ method \in {"turn/steer", "thread/unarchive"}
              /\ stdout' = stdout \o Reply(id, <<"ok", 0>>)
              /\ UNCHANGED <<loaded, made, home, owner, running, openAsks>>
           \/ /\ method = "turn/interrupt" /\ u \in running
              /\ stdout' = stdout \o Reply(id, <<"ok", 0>>) \o Ends(u)
              /\ running' = running \ {u} /\ openAsks' = {i \in openAsks : asks[i][2] # u}
              /\ UNCHANGED <<loaded, made, home, owner>>
           \/ /\ method = "thread/archive" /\ loaded' = loaded \ {a}
              /\ stdout' = stdout \o Reply(id, <<"ok", 0>>)
                           \o (IF RunningIn(a) = {} THEN <<>> ELSE Ends(CHOOSE v \in RunningIn(a) : TRUE))
              /\ running' = running \ RunningIn(a)
              /\ openAsks' = {i \in openAsks : asks[i][2] \notin RunningIn(a)}
              /\ UNCHANGED <<made, home, owner>>
  /\ UNCHANGED <<maps, rpc, event, approv, told, alive, asks, speech>>

\* An answer: the request is resolved, unless it was before.
ReadAnswer ==
  /\ alive /\ stdin # <<>> /\ Head(stdin)[1] = "answer" /\ stdin' = Tail(stdin)
  /\ LET i == Head(stdin)[2]
     IN /\ openAsks' = openAsks \ {i}
        /\ stdout' = IF i \in openAsks THEN Append(stdout, <<"resolved", i>>) ELSE stdout
  /\ UNCHANGED <<maps, rpc, event, approv, told, alive, loaded, made, home, owner, running, asks,
                 directed, speech>>

\* A turn reports its end, or asks for an approval or for input and waits.
EndTurn(u) ==
  /\ alive /\ u \in running
  /\ running' = running \ {u} /\ stdout' = stdout \o Ends(u)
  /\ openAsks' = {i \in openAsks : asks[i][2] # u}
  /\ UNCHANGED <<maps, rpc, stdin, event, approv, told, alive, loaded, made, home, owner, asks,
                 directed, speech>>

Topics == Cardinality({i \in Asks : asks[i] # <<>>}) + Cardinality({i \in Items : items[i].turn # 0})

Ask(u, kind, c, offer) ==
  /\ alive /\ u \in running /\ \A i \in openAsks : asks[i][2] # u
  /\ \E i \in Asks :
       /\ asks[i] = <<>> /\ Topics < MaxTopics /\ \A j \in 1..(i - 1) : asks[j] # <<>>
       /\ asks' = [asks EXCEPT ![i] = <<kind, u, c, offer>>]
       /\ openAsks' = openAsks \cup {i} /\ stdout' = Append(stdout, <<"ask", i>>)
  /\ UNCHANGED <<maps, rpc, stdin, event, approv, told, alive, loaded, made, home, owner, running,
                 directed, speech>>

Uttered == UNION {ToSet(items[i].text) : i \in Items}

\* The agent goes on with its message, begins the next one, or ends the one it is at.
Speak(u) ==
  /\ alive /\ u \in running
  /\ \E i \in Items, n \in 1..MaxFragments :
       /\ n = Cardinality(Uttered) + 1
       /\ \/ items[i].turn = u /\ ~items[i].done
          \/ /\ items[i].turn = 0 /\ Topics < MaxTopics /\ \A j \in 1..(i - 1) : items[j].turn # 0
             /\ \A j \in Items : items[j].turn = u => items[j].done
       /\ items' = [items EXCEPT ![i].turn = u, ![i].text = Append(@, n)]
       /\ stdout' = Append(stdout, <<"delta", i, n>>)
  /\ UNCHANGED <<maps, rpc, stdin, event, approv, told, process, deltas, messages, early>>

EndMessage(u) ==
  /\ alive /\ u \in running
  /\ \E i \in Items, given \in BOOLEAN :
       /\ \/ items[i].turn = u /\ ~items[i].done
          \/ /\ items[i].turn = 0 /\ Topics < MaxTopics /\ \A j \in 1..(i - 1) : items[j].turn # 0
             /\ \A j \in Items : items[j].turn = u => items[j].done
       /\ items' = [items EXCEPT ![i].turn = u, ![i].done = TRUE]
       /\ stdout' = Append(stdout, <<"message", i, given>>)
  /\ UNCHANGED <<maps, rpc, stdin, event, approv, told, process, deltas, messages, early>>

\* It unloads a thread in which nothing runs.
CloseThread(a) ==
  /\ alive /\ a \in loaded /\ RunningIn(a) = {}
  /\ loaded' = loaded \ {a} /\ stdout' = Append(stdout, <<"closed", a>>)
  /\ UNCHANGED <<maps, rpc, stdin, event, approv, told, alive, made, home, owner, running, asks,
                 openAsks, directed, speech>>

Exit ==
  /\ Dies /\ alive /\ alive' = FALSE
  /\ UNCHANGED <<maps, rpc, pipes, event, approv, told, loaded, made, home, owner, running, asks,
                 openAsks, directed, speech>>
------------------------------------------------------------------------------
Handler ==
  \/ TimesOut \/ Mapped \/ ThreadStarted \/ TurnStarted \/ Resumed \/ Answered \/ Archived
  \/ SendAnswer \/ Remember

Backend ==
  \/ \E t \in Turns, given \in BOOLEAN : TurnStart(t, IF given THEN bound[ThreadOf[t]] ELSE 0)
  \/ \E t \in Turns, given \in BOOLEAN : \E named \in ToldTurns(t) \cup {0} :
       LET a == IF given THEN bound[ThreadOf[t]] ELSE 0
       IN TurnSteer(t, a, named) \/ TurnCancel(t, a, named)
  \/ \E x \in Threads, given \in BOOLEAN :
       LET a == IF given THEN bound[x] ELSE 0
       IN ThreadResume(x, a) \/ ThreadArchive(x, a) \/ ThreadUnarchive(x, a)
  \/ \E x \in Threads : SyncAck(x)
  \/ \E i \in Asks, d \in Decisions : Respond(i, d)

Reader == ReadResponse \/ ReadTurn \/ ReadDelta \/ ReadMessage \/ ReadAsk \/ ReadResolved \/ ReadClosed \/ Emit

AppServer ==
  \/ Serve \/ ReadAnswer \/ Exit
  \/ \E u \in AppTurns :
       \/ EndTurn(u) \/ Speak(u) \/ EndMessage(u)
       \/ \E c \in Commands \cup {None}, offer \in Offers : Ask(u, "approval", c, offer)
       \/ Ask(u, "input", None, {})
  \/ \E a \in AppThreads : CloseThread(a)

Next == Handler \/ Backend \/ Reader \/ AppServer \/ Close

Spec == Init /\ [][Next]_vars

\* The handler thread runs on, its timer fires, and the reader reads; nothing is assumed
\* of the app-server.
LiveSpec == Spec /\ WF_vars(Handler) /\ WF_vars(Reader)
------------------------------------------------------------------------------
(* Properties                                                              *)

\* The tables hold ids of the right kind; a request that waits is the handler's.
TypeOK ==
  /\ threadMap \in [Threads -> AppThreads \cup {0}]
  /\ reverseMap \in [AppThreads -> Threads \cup {None}]
  /\ turnMap \in [Turns -> AppTurns \cup {0}]
  /\ reverseTurn \in [AppTurns -> Turns \cup {None}]
  /\ (closed => ~alive) /\ nextId \in 1..(MaxCalls + 1) /\ call.id \in 0..(nextId - 1)
  /\ (call.id # 0) = (handler.at \in {"thread/start", "turn/start", "turn/steer", "turn/interrupt",
                                      "thread/resume", "thread/archive", "thread/unarchive"})
  /\ pendingAsks \subseteq Asks /\ opened \subseteq Asks
  /\ running \subseteq AppTurns /\ loaded \subseteq made /\ made \subseteq AppThreads

\* A turn event that names a turn of the server is about the app-server turn that was
\* started for it, and it goes to the thread of that turn (reverse_turn_map,
\* codex_app_server.py:865-866), whatever timed out and was answered late.
EventsOfOwnTurn ==
  \A e \in heard : /\ e[1] = ThreadOf[owner[e[3]]]
                   /\ e[2] # None => owner[e[3]] = e[2]

\* turn_cancel and turn_steer reach an app-server turn that was started for the turn they
\* name, whether the server gives its id or the maps do (codex_app_server.py:327-340,
\* 401-409).  The server gives ids it was told for that turn.
DirectedAtOwnTurn == \A d \in directed : owner[d[2]] = d[1]

\* Messages that ended in another app-server thread of the same thread: what is kept for a
\* turn that is not bound, or was started twice, is kept for both.
Rivals(i) ==
  {j \in Items : /\ items[j].done /\ home[items[j].turn] # home[items[i].turn]
                 /\ ThreadOf[owner[items[j].turn]] = ThreadOf[owner[items[i].turn]]}

\* A message whose text is put together from its fragments has all of them, in order
\* (codex_app_server.py:952-979), unless the handler bound its turn while it was read, its
\* thread was not bound, or the thread had an agent in a second app-server thread.  A
\* message that came without fragments may be given those of another.
MessageText ==
  \A m \in messages :
    LET i == m[1]
    IN \/ items[i].text \in {<<>>, m[3]}
       \/ i \in early /\ m[2] # None
       \/ items[i].turn \in dropped
       \/ Rivals(i) # {}

\* No event of a turn is dropped for want of a thread (codex_app_server.py:871), unless
\* the server asked to archive the thread or a thread/resume of it timed out: otherwise a
\* thread/closed is read before the thread can be resumed, and what it unbinds is bound
\* again before a turn runs.
NoEventDropped == \A u \in dropped : home[u] \in archived \cup gaveUp

\* An approval is answered at most once, by the server or by a grant
\* (codex_app_server.py:417, 705-708).
AnsweredOnce == \A i \in Asks : Len(answers[i]) <= 1

\* An approval that the app-server waits for and the reader has read is in the table or
\* on its way back, while the process runs: none is lost (codex_app_server.py:710).
AsksHeld ==
  alive => \A i \in openAsks :
    \/ i \in pendingAsks \/ handler.ask = i \/ answers[i] # <<>>
    \/ \E k \in 1..Len(stdout) : stdout[k] = <<"ask", i>>

\* An operation is accepted without asking only if it offers "accept", and if an earlier
\* request for the same operation in the same thread was accepted for the session
\* (test_codex_protocol.py: exact scope).
AcceptedByGrant ==
  \A i \in Asks : answers[i] = <<<<"auto", "accept">>>> =>
    /\ "accept" \in asks[i][4]
    /\ \E j \in 1..(i - 1) : /\ answers[j] = <<<<"user", "acceptForSession", "accept">>>>
                            /\ asks[j][3] = asks[i][3] /\ home[asks[j][2]] = home[asks[i][2]]

\* Every backend message comes to an end, whatever the app-server does: the message loop
\* waits for it (app_server_client.py:192).
MessagesEnd == (handler # Idle) ~> (handler = Idle)
==============================================================================
