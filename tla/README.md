# A verification project for botsdock-connector

botsdock-connector is a process on a developer's machine that connects local
agents (the Codex app-server, the Claude Agent SDK) to a console server over a
WebSocket. It forwards requests of the server to the agents and their events
back, keeps durable events until the server has them, runs in the foreground or
as a daemon, and installs new versions of itself. The TLA+ modules here are
translated from `src/botsdock_connector`; line numbers below are of that tree.
`PROJECT.json` maps every definition to the lines it stands for.

Contents: 1 the system; 2 the modules; 3 the runs; 4 bounds; 5 fairness;
6 proofs; 7 where the code and its documentation disagree; 8 what is not
modelled; 9 the plan.

## 1. The system

| Component | State | Operations | What makes it correct |
|---|---|---|---|
| Event outbox `event_outbox.py` | sqlite table of events, bounded queue | put, put_nowait, get, pending, acknowledge, close | a durable event stays until the server has it; a waiting put ends |
| Session tasks `session.py` | replay timer, message in hand | bootstrap, heartbeat, outbound_writer, message_loop, saving an accepted token | replay after every connect and every few seconds; acknowledgements go on being read |
| Delta buffer `delta_buffer.py` | fragments per key, flush flag, puts under way | send, flush_all, close, drain | no fragment is lost, doubled or stranded; order is kept |
| Claude connector and SDK provider `cli.py:773-935`, `claude_agent_sdk.py` | tasks, cancel events and clients by turn_id; approvals; grants | turn_start, turn_cancel, approval_respond, stop, permission callbacks | a turn's task tells one end; completion is not the last word on a cancelled turn; grants stay in scope |
| Codex connector `codex_app_server.py` | maps between ids of the server and of the app-server, pending approvals, grants, watches, delta buffers | turn_*, thread_*, sync_ack, approval_respond; notifications and requests of the app-server | events and commands reach their own turn; an approval is answered once |
| App-server client `app_server_client.py` | request ids, pending responses, the child process | request, send_response, the stdout reader, close | a response reaches the request that waits for it, a request ends |
| Sessions and supervisor `cli.py:1055-1437` | per connection: child, outbox, tasks; attempts | connect, bootstrap, sync, teardown, reconnect, cancel, exit | a session leaves nothing behind; connections are independent; shutdown is orderly |
| Token store `token_store.py`, registration `register.py` | one JSON file | load, save; announce, poll | a saved token stays; the file is readable whenever a writer dies |
| Daemon `daemon.py` | lock file, PID file with fingerprint, processes | start, stop, restart, status | one daemon; only it is signalled; stop stops it |
| Managed installation `install.py`, `upgrade.py` | environments, symlinks current and previous, lock | install, rollback, cleanup | the links lead to working environments; running ones stay |
| Agent mux `cli.py:938-1021` | registered runtimes | routing, sync snapshot, stop | a message reaches the runtime it names |
| Claude history `claude_agent_sdk.py:195-610, 757-900` | none; files of the SDK | list, page, delete | pages are disjoint and complete |
| Configuration, logging, conversions | none that changes while it runs | | |

How they interact. `run_connector` starts one `run_connection` per saved
connection on one asyncio loop. An attempt spawns the app-server child, opens
the outbox, says hello, sends a snapshot of the threads and starts three tasks:
the outbound writer (outbox to socket), the heartbeat and the message loop
(socket to mux to connectors, one message at a time). The first task that ends
ends the session. The Codex connector runs in worker threads, and its events come
from the thread that reads the child's stdout; they cross to the loop through the
delta buffer, whose timer and puts are loop callbacks. Claude turns are tasks on
the loop itself. The server's requests await the handlers, so a handler that
blocks also delays acknowledgements.

What is hard. Threads against the loop (delta buffer, Codex tables); tasks that
share tables keyed by an id that can repeat (Claude); a bounded queue that both
the reader and the writer of one connection depend on; cancellation at any await
of a teardown; timeouts racing late answers (approvals, requests, daemon stop);
crashes between two file operations (tokens, PID file, links, outbox); pids used
again. `PROJECT.json` lists each of these hazards at its line, with the
properties that watch it; where the code gives something up, so that a property can
only except it, the hazard has no property and says so.

## 2. The modules

| Module | Models | State and actions |
|---|---|---|
| `EventDelivery` | outbox with `outbound_writer`, `message_loop` and those who put | `rows` is the table, `queue`/`putters`/`woken` the asyncio queue. The writer's `WriterTop`, `ReplaySend`, `Get`, `Send` end at its awaits; `Vanish` is what a loss or a crash takes with it |
| `AtLeastOnce` | what the outbox promises | an event is stored, arrives, and is forgotten only once it has arrived |
| `DeltaBuffer` | `BufferedBackendSender` | one program counter per thread: before the locked part, and handing over after it. `ready` and `timers` are the loop's |
| `ClaudeTurns` | `ClaudeCodeConnector` and `ClaudeAgentSdkProvider` | two tasks per turn (`pc`, `sdk`) with a queue between; tables by turn_id; an action is what runs between two awaits. `reported` is what a turn's task said of its end, `lastTold` the last the server heard of a turn_id, also from the handler of `turn_cancel`, and `acks` counts the acknowledgements of an approval |
| `Transcript` | `_messages_to_history_turns`, `_page_turns` and their helpers | operators on sequences of records; no state |
| `ClaudeHistory` | the history requests and `map_message` of the Claude provider, with the Claude Code that writes transcripts | `file` holds the transcripts, `stream` what the SDK has still to deliver, `live` what the server was sent. Requests that change nothing are operators; the SDK failing is a parameter of them |
| `CodexConnector` | `CodexConnector` and `AppServerProcessClient` | `handler` is the thread of a backend message with the request it waits in; `given` and `named` are the app-server's ids in its payload, which go before the maps; `stdin`/`stdout` the pipes; the reader's actions are `Read...`; `deltas` are the fragments of messages the agent is at; `Close` is the teardown of the session |
| `Sessions` | `run_connector`, `run_supervisor`, `run_connection`, `run_agent_provider_session` | `pc` per connection, with the awaits of the finally block (`stop`, `drain`, `gather`) as states of their own, where a cancellation may come, after a signal also a second one from `run_supervisor` |
| `TokenStore` | `save_connector_token`, `load_saved_connectors`, `run_register`, `save_accepted_token` | processes between load, open, write and rename of one temporary file; `fd` follows a file that is renamed under its writer |
| `Daemon` | start, stop, restart | commands between lock, spawn, check, signal and wait; `who` gives pids to processes and may give one away again |
| `Installation` | install, rollback, cleanup | commands between build, the two link switches, the ps listing and the removals |

`MC...` modules instantiate these for TLC. The theorems about a module are in the
module of its name with `Proofs`: `EventDeliveryProofs`, `DeltaBufferProofs`,
`ClaudeTurnsProofs`, `ClaudeHistoryProofs`, `CodexProofs`, `SessionsProofs` and
`DaemonProofs`; those about `Installation` and `TokenStore`, which share a home
directory, are in `HomeProofs`, which extends both: the specification of
`TokenStore` is therefore `TokenSpec`, with `TokenInit` and `TokenNext`.

The modules meet at narrow interfaces instead of being composed into one. The
delta buffer hands entries to an outbound queue that has room; `EventDelivery`
takes up there, with the queue bounded. `Sessions` treats the three tasks as
running or ended, `EventDelivery` treats a session as a phase, and each models
what the other leaves open: a teardown cut short, a message in flight. The
connectors' modules keep the events they emit but not the queue behind it.
`ClaudeTurns` and `ClaudeHistory` are two views of the same tasks: the first has
their order against cancels, answers and stops, the second what they stream and
leave in a transcript.

External parts, modelled from how the code uses them: the server (reads,
acknowledges, sends requests, issues tokens), the WebSocket (bounded, lossy only
by being lost), asyncio's queue, the Claude SDK (yields, fails, ends), the
app-server (answers, is late, asks, ends), and the operating system (processes,
pids, kills, full disks).

## 3. The runs

| Run | Properties | Shows |
|---|---|---|
| `delivery` | NoDurableLost, NoGaps, ImplementsAtLeastOnce, EventuallyAcknowledged, PutEnds | durable events survive full queues, lost connections and crashes; the server learns of them in order as long as the queue did not overflow; the module implements `AtLeastOnce`; after the faults stop every event is delivered and forgotten; a handler that waits for room gets it, though it is what keeps acknowledgements from being read |
| `delta` | FlushArmed, ExactlyOnce, OrderUnlessRaced, EventuallyOut | fragments from two threads, the timer and close; none is lost while the sender is open, nor of those that `close` flushes; order is kept unless a thread takes the lock while another has entries in hand, which the code allows; no fragment waits for a message that never comes |
| `claude_turns` | OneTerminal, CancelIsLastWord, StopEndsTurns | two turns, possibly of one turn_id, with a cancel, a stop and runtime failures: each task tells one end, a cancel that reached a turn has the last word |
| `claude_approvals` | GrantedByAnswer, StaleRejected, TurnsEnd | two approvals, for one tool or for two, against timeouts, answers, a cancel and a stop: a grant stays with its operation; each approval is acknowledged at most once, and only while its callback waits; a turn ends though nobody answers |
| `claude_history` | TurnsAsWritten, LiveMatchesHistory, AuthReported, PagesTile, DeletedStaysGone, AuthoritativeNamesAll | two sessions written by turns and from a terminal, with an SDK that may fail at any call: history is what was written and what was streamed, pages join, a deleted session stays away, reports the server acts on are complete |
| `codex_turns` | DirectedAtOwnTurn, EventsOfOwnTurn, NoEventDropped, MessagesEnd | starting, steering and cancelling, with ids of the server or of the maps, after timeouts, late answers, closed and archived threads, with an app-server that may exit and a teardown that may close it; every backend message comes to an end |
| `codex_approvals` | AnsweredOnce, AcceptedByGrant, AsksHeld, MessageText | every offer of decisions, answers against resolutions and grants, approvals that come before the thread is mapped, an exiting child, and messages put together from fragments while the handler binds turns |
| `sessions` | OutboxOutlivesTasks, NothingLeft, OthersGoOn, ComesBack | two connections that fail, are rejected or cancelled at any await; a lost one gets up again |
| `token_store` | SavedKept | saves that are killed at any step, one after another; a kept token is one that a load of the file finds |
| `daemon` | OneDaemon, OnlyDaemonSignalled, CommandsEnd | two commands, pids used again, a daemon that ignores SIGTERM, commands killed anywhere |
| `installation` | LinksUsable, RunningKept, WayBack | two commands that fail and die anywhere while connectors start and stop |
| `install_linked_home` (violation) | CurrentKept | a home directory that is a symlink |

A violation run checks a statement of the documentation that the code does not
meet; section 7 explains it. Every property of a passing run comes with a mutant
in `PROJECT.json`: a change of one mapped definition, such as a bug there would
make, that violates it; the definitions marked "Variant" in the modules are
those. Every detailed module states its `TypeOK`. No run spends its time on it: for
`EventDelivery`, `DeltaBuffer` and `ClaudeTurns` it is a theorem, most of the other
proofs have the types they need as a part of their invariant, and elsewhere it
documents the state.

Some properties carry an exception that says what the code does not give:

- `NoEventDropped` leaves out threads that were archived, and threads whose
  `thread/resume` timed out: the response may still come, and a notification that
  a thread was closed can then be read before anything binds the thread again.
- `OneDaemon` leaves out a daemon whose start was killed between spawning it and
  writing the PID file: nothing records it.
- `SavedKept` holds only while no two saves overlap (section 7).
- `NothingLeft` leaves out sessions that failed before their tasks ran or whose
  teardown was cut short by a cancellation: nothing in the code releases those.
- `OrderUnlessRaced` leaves out the gap between releasing the lock and handing
  over.
- `StopEndsTurns` leaves out a turn_id that was started twice: the table holds
  one task per turn_id. It speaks of a stop that came to its end within its limit.
- `OneTerminal` is about what the task of a turn sends. The handler of `turn_cancel`
  sends one more `turn.cancelled` for every request (cli.py:803-808), before the task's
  own or after its completion; of all of them together `CancelIsLastWord` says that
  the last is not `turn.completed`. It speaks of cancels that reached the turn: one that
  comes when the turn is over is told as cancelled all the same.
- `DirectedAtOwnTurn` supposes that the server names for a turn only app-server
  turns it was told for that turn, in this session or an earlier one.
- `MessageText` leaves out messages whose turn the handler bound while they were
  read, because their fragments and their end then have different keys, messages
  of a thread that is not bound, and texts that came without fragments. It also
  leaves out threads in which an agent spoke in a second app-server thread: a message
  that has no buffer takes the first that is kept for its thread and turn
  (codex_app_server.py:972-974), and while both turns are unbound, or the same turn
  was started in both, that may be what the other agent is still saying.
- `LiveMatchesHistory` leaves out a text that asks to log in, which is not sent, and
  two runs of one turn_id at the same time; that all that was sent is also shown, it
  says only of a run into whose session no other prompt came, since that prompt takes
  the records after it into a turn of its own; `AuthReported` leaves out the same two runs and an asker that was
  aborted, whose mark the next run of the turn_id finds.
- `PagesTile` supposes that the session is found at every page.
  `DeletedStaysGone` and `AuthoritativeNamesAll` leave out transcripts that are not
  among the `ScanLimit` ones that are searched when the SDK fails.
- `StaleRejected` lets the timer win just after an acknowledged answer, which
  `asyncio.wait_for` can do.

## 4. Bounds

Every bound is a constant of its module, named in its `CONSTANTS` section.

- Sizes are the smallest at which both sides of a limit occur: a queue and a wire
  of one message are full after one put; `MaxChars = 2` gives a buffer that is
  part full and one that flushes by size; one text key and one file key, because
  keys do not interact except through a flush, which takes them all.
- Actors come in pairs, as many as can race over one table or file: two senders
  beside the loop, two turns, two processes that save, two installing or daemon
  commands. Restart frees the lock between its halves, and the other command can
  come in there.
- `codex_turns` has two turns of one thread, which is where an event can name the
  wrong one; `codex_approvals` has two commands and three offers of decisions on
  one thread. One of the turns of `codex_turns` was already started in an earlier
  session (`KnownTurn`), so that the server names its app-server turn to a connector
  with empty maps, as tests/test_codex_protocol.py:10-15 does; a second
  app-server turn is what either turn is started with. Seven requests to the app-server
  reach the response to a turn/start that timed out while the next turn/start waits.
- `claude_approvals` has one turn with two permission requests, each for either of two
  tools, which is what answers, timeouts and the end of the turn can race over. A grant
  that went to the other tool would be found there; that it does not go to another
  thread or to a question, with one thread and no question in the run, is only the
  theorem `GrantsAnswered`.
- `codex_approvals` has two messages of two fragments each, at once in one thread:
  with one fragment their order could not go wrong. `codex_turns` has none.
- `claude_history` searches one transcript of two and reports two
  (`_TRANSCRIPT_SCAN_LIMIT` and `_SESSION_SYNC_LIMIT`), and a page has one turn
  unless the request names a limit, and never more than two (20 and 50 in the
  code): four records give a transcript of several pages and one that the search
  misses. `MaxSteps` bounds records and deletions together.
- Environments are four: current, previous, one in use by a connector and one
  being built. Pids are two and processes three, so that a pid is used again.
- Faults are 1 or 2 per run. A fault brings a component back to a state from
  which everything can happen again with what it left behind; what a second one
  can add is a fault during the repair of the first, which `sessions` has.
- Requests and calls are bounded by counters in the guards (`MaxExtras` for the
  server's requests and repeated puts, `MaxSends`, `MaxCalls`, `MaxTasks`,
  `MaxApprovals`, `MaxTokens` and so on), so that a run ends where all are used
  up; those runs say `CHECK_DEADLOCK FALSE`. It also stands where the program
  really stops: a process that has exited, commands that are done, a closed
  buffer. `delivery` checks for deadlock.

Only `installation` (commands and environments) and `claude_history` (sessions, runs
and turn_ids), whose properties are all safety, use symmetry.

## 5. Fairness

| Module | Assumed | Why |
|---|---|---|
| `EventDelivery` | weak fairness of the writer, the message loop, the replay timer, putters that were woken, connecting and tearing down; strong fairness of a handler's return, which sends the response; the server reads and acknowledges | one asyncio loop runs every ready task and every due timer; `run_connection` tries again for ever; the server reads whether or not it is sending; when the transport has room again, all sends that wait for it go on, also one beside the writer's. Faults are bounded, not fair |
| `DeltaBuffer` | threads go on, the loop runs its callbacks; the timer fires (strong, because a flush by another thread disables it for a moment) | threads are scheduled; `call_later` fires once due |
| `ClaudeTurns` | the tasks' and the SDK's steps, the approval timers, stop going on | the same loop; a runtime that waits for nothing gives its result in the end. Nothing is assumed of the answer to an approval |
| `CodexConnector` | the handler, with its timer, and the reader go on | threads, and `queue.get(timeout)`. Nothing is assumed of the app-server |
| `Daemon` | a command goes on; a waiting one gets a free lock (strong) | `flock` wakes its waiters and holders always release it, also when killed |
| `Sessions` | every connection, the supervisor and the exit go on | one loop; where a step waits for the server, the server answers or the connection is lost (timeouts of the handshake and ping) |

## 6. Proofs

For all values of the constants, from the named assumptions of each module:

- `EventDeliveryProofs`. `DurableEventsKept` (NoDurableLost) follows from the
  invariant `DeliveryInv`: beside the types, every copy of an event under way
  (queue, wire, hand, snapshot) is of an event that was produced, and every
  acknowledgement under way is of an event the server has. Without the second
  part NoDurableLost is not inductive: reading an acknowledgement deletes a row.
  `OutboxImplementsAtLeastOnce` maps every step under that invariant to a step of
  `AtLeastOnce` or a stutter. `DeliveryTypeCorrect` adds the control variables and
  the bound on the queue. `EventsInOrder` (NoGaps) follows from `OrderInv`: while a
  session has a socket and no durable event met a full queue, whatever precedes an
  event on the wire, in the writer's hand, in the replay or in the queue is ahead of
  it. The queue is bound by this only once the replay is over (`ReplayNext` says it
  comes before the next get), and a row stored again after its acknowledgement may
  be late in the table, but the server has that event (`RowsOrdered`).
- `DeltaBufferProofs`. `BufferTypeCorrect` includes that a text buffer never
  reaches the limit outside the lock. `BufferedIsFlushed` (FlushArmed) needs
  `FlushInv`: the flag is set whenever a buffer is not empty, and when it is set
  a timer is armed, about to be armed, or the loop is about to flush. FlushArmed
  alone is not inductive, because a sender trusts the flag, not the timer.
  `FragmentsOnce` (ExactlyOnce) follows each fragment by its number: `PlacesInv` says
  that it is in one place (buffer, hand of a thread, callback, outbound queue), and
  `CloseInv` follows what close() took until drain() has waited for it.
  `FragmentsInOrder` (OrderUnlessRaced) needs the order within each place and from
  each place to those behind it (`OrderInv`), and that only one thread has entries
  in its hand: the lock does not ensure this, so it holds only until `raced`.
- `ClaudeTurnsProofs`. Four theorems follow from `ClaudeInv`, for any number of
  tasks that may share turn_ids. `Progress` says what a task that has not come to a
  point cannot have left behind, so that a table entry tells how far its owner is
  (`ClientsRun`: what is registered goes on). `Stoppable` says that stop() waits for every task that goes on,
  except where a repeated turn_id has displaced it from the table (StopEndsTurns).
  `Asked` ties the future of an approval to what became of it: only one that waits
  can be answered, and only the timer can still overtake the answer. `StaleRejected`,
  an action property, needs that and `Waiting`: an approval whose callback waits was
  not acknowledged yet, and its run_sdk has not ended. `Remembered` says that every grant in the table was given by an
  answer, because the approval that brings a grant is gone when the grant is used
  (GrantedByAnswer). `TurnEndsOnce` (OneTerminal) adds `TerminalInv`: for
  each point of the task and of its run_sdk, which terminal event was said and is
  reported or still in the task's queue, and that a result can read "cancelled" only
  where no cancel reaches the task any more. `CancelKeepsLastWord` (CancelIsLastWord)
  follows from that and `WordInv`: if the server heard last of a turn_id that it
  completed, a task of that turn_id has said so last. The handler's own event only
  takes away from what there is to show, and OneTerminal says that no task a cancel
  reached has completed.
- `ClaudeHistoryProofs`. What a transcript shows is computed by folds, so this module
  begins with what the others do without: induction on the naturals, from their
  well-foundedness (`LeastNat`), and then on sequences (`SeqInduction`); and that a
  fold by a function is a function on the prefixes (`FoldSteps`), which gives each fold
  of the model its two laws (`RecordsFoldLaw`, `KeptFoldLaw`, `SaidFoldLaw`).
  `HistoryAsWritten` (TurnsAsWritten) is an induction on the transcript: `Written`
  says where the records of each turn begin and end, and a result that is appended
  changes one item of one turn (`FinalAfterUser`), wherever it is. It holds for every
  transcript that is `WellFormed`: ids grow, and a result comes after its tool use;
  `Numbered` says that all are. `PagesJoin` (PagesTile) is an induction on the pages
  read: `Covers` says that what was read so far are the turns from the cursor on, and
  `HistoryBegins` that a transcript that has grown begins with the prompts it had.
  `LoginReported` (AuthReported) needs `AskersAccounted`: the mark of a turn that asked
  is in the table until its result is read or another run of its turn_id ended, and
  `OpenHaveMet`, that two of one turn_id that are open are known to have met.
  `DeletedIsGone` (DeletedStaysGone) follows from `FilesGone`, and `ReportsComplete`
  (AuthoritativeNamesAll) holds in every state. `LiveAsHistory` (LiveMatchesHistory)
  relates two pieces of code that read the same records, one as they come and one
  afterwards. Both are first turned into sets: `StreamedIs` says which items a message
  sends, `TurnShown` which a turn shows. `LiveInv` then has three parts. A record that
  waits in a stream is the one of that id in the file, unless the file was deleted
  since (`SameRecord`, `StillFiled`), and is mapped in its order. What was mapped was
  sent (`MappedSent`): for a result this needs that its tool use is in the table, which
  is `ResultsAwaited` for the results that still come and `UsesAwait` for the tool uses
  that have none; both hold only of a run that met no other of its turn_id, whose end
  takes all entries of that turn_id. And the records of a run are between its prompt and
  the next as long as no other prompt came (`OwnTurn`, `LastPrompt`).
- `CodexProofs`. `DirectedRight` (DirectedAtOwnTurn). What makes it hard is that a
  response may be late, and then waits in the pipe beside that of the next request.
  `RpcInv`, `PipesInv` and `OwnersInv` say that whatever on the pipes carries the id
  the handler waits for answers the handler's own request, and that a turn/start
  was answered with the turn it started; ids grow, and none is used twice. From
  that follows `TablesOk`: the maps name for a turn the one that was started for
  it. Steering writes the ids of its payload to the maps too; they are ids the server
  was told for that turn (`Told`), or has from an earlier session, whose turns
  `EarlierTurns` shows to be owned from the start. Two more invariants stand on this one. `AskInv` follows an approval between
  three parties: `PlacesInv` has each request in one place (unread, in the table,
  with the handler, answered) and the unread ones in the order they were made,
  `HeldInv` says that what a resolution under way is about no longer waits, and that
  what waits is in one of those places, and `GrantsInv` that each grant is backed by
  an answer. As requests are read in order, that answer is of an earlier one than
  any the grant accepts. The three properties that follow (`AnsweredOnceHolds`,
  `NoAskLost`, `GrantsScoped`) are not inductive by themselves. `EventInv` gives
  `EventsReachOwnTurn` (EventsOfOwnTurn). The reader looks up the thread of a
  turn in a table the handler writes, so `NamesInv` asserts a function from the
  threads of the app-server to those of the server with which every table, the
  message in progress, every turn/start under way and the response the handler waits
  for agree; `StartedInv` says that whatever is reported is of a turn that was
  started. `EventsNotDropped` (NoEventDropped) has the largest invariant,
  `HeardAllInv`, because a thread is unbound by one party and bound again by another
  while turns start in it. `ReportsHeard` says that on the output what a thread
  reports comes before its closing, and that its thread is bound as long as a turn
  runs in it or a report is unread. That a turn starts only in such a thread rests on
  the order of the other messages: a turn/start is read before any thread/resume
  (`StartsFit`), a thread that was closed and is loaded again was resumed by the
  request the handler waits for, with the closing ahead of its response
  (`ResumesAwaited`), and a retry finds the closing read (`RetryFit`). All of it is
  asserted only of threads that were not archived and whose resume did not time
  out; the runs show that it fails for those. `MessagesWhole` (MessageText) says of a
  message that is still awaited that its fragments are in two places (`Whole`): a
  beginning of the text is kept under its key, and the rest is on the output, in
  order, with nothing else of the message. Who takes a buffer by the fallback of
  `_pop_assistant_delta` must not take one of those, so `SpeechInv` adds that one turn
  at a time runs in an app-server thread and is at one message (`OneSpeaker`), that
  the end of a message comes after its fragments (`EndsLast`), and that when an end is
  read, nothing that is kept or ahead of it in that app-server thread is awaited
  (`OneAfterAnother`). Buffers of a second app-server thread of the same thread are
  what `Rivals` excepts; TLC finds the property violated without that.
- `SessionsProofs`. `SessionsLeaveNothing` and `TasksHaveOutbox` need to know for each
  `pc` of a connection what it holds (`Numbered`), because child, outbox and tasks
  are released in three steps at three awaits. `ConnectionsIndependent`
  (OthersGoOn) has an invariant of its own: while several connections reconnect,
  nothing but a signal has asked for one to be cancelled.
- `DaemonProofs`. `OneDaemonRuns` and `SignalsReachDaemon` need `FileTrue` and
  `HolderTrue`, what the PID file and the command with the lock say about the
  processes, at every step of a command and after its death; `DaemonsTracked`,
  that a daemon is in the file or watched by the start that spawned it; and
  `Signals`, that a command which is about to signal has read the fingerprint.
- `HomeProofs`. `InstallationsSurvive` (LinksUsable) and `RunningSurvives`
  (RunningKept) assume that the home directory is no symlink and that no interrupt
  comes between the switch and the end of the try block; section 7 shows both
  assumptions are needed. `InstallInv` adds that an environment being built is
  nobody else's and that a connector found running after the ps listing can only
  have been started from current, which cleanup keeps. `SwitchesHaveWayBack`
  (WayBack) needs neither assumption: `Noted` says that an installer about to switch
  has recorded current as previous. `SavedTokensKept` needs `AloneInv`: as long as no
  two saves overlapped, one process saves at a time, the file is still what it had
  loaded, and the temporary file is its own, however many died before it.

Only model-checked: all liveness properties (the prover does not reason about
fairness). Every invariant that a passing run checks is proved.

## 7. Where the code and its documentation disagree

One has a run whose counterexample shows it:

1. `install_linked_home`: README.md:272-273 has current kept. Paths to keep are
   resolved, paths to remove are not (install.py:86-88), so under a home directory
   that is a symlink even the new environment is removed.

The others were met while modelling. The models contain the behaviour, and the
properties name it as an exception or a constant switches it on:

2. README.md:250 has completed approvals rejected. A resolution for a thread that
   was archived in between is dropped with every other notification of that thread
   (codex_app_server.py:871), and the answer that comes afterwards is acknowledged.
3. README.md:264-266 has durable events stored until acknowledged, and
   tests/test_event_outbox.py:68 takes `turn.completed` for one, but only messages
   typed `connector.event` are stored and the providers emit `app_server.event`
   (cli.py:605). `EventDelivery` has both kinds of message; turn events are its
   `Transients`.
4. README.md:66-68 has a failure leave the old entry untouched. An interrupt
   between the rename of `current` and the end of the try block removes the
   environment `current` leads to (install.py:129). With `LateInterrupt = TRUE`
   TLC finds LinksUsable violated.
5. README.md:91-92 has the token saved after a registration. Two overlapping saves
   share one temporary file and no lock (token_store.py:176-207). Without its
   `overlapped` SavedKept is violated.
6. daemon.py:160-164 describes SIGTERM as graceful. The try/finally that closes
   the child begins only with the tasks (cli.py:1255), and a cancellation inside
   it ends it: a SIGTERM in setup or teardown leaves the child unclosed. This is
   what `abandoned` in NothingLeft excepts.
7. The same comment. `ClaudeCodeConnector.stop` swallows a cancellation
   (cli.py:924-927) where `asyncio.wait_for` runs it in the session's own task, as
   Python 3.12 does; the connection then reconnects for ever. On earlier versions
   the teardown is cut short instead; `ownTask` in `Sessions` chooses.

## 8. Not modelled

- The agent mux's routing and the sync snapshot (cli.py:938-1062): a function of one
  message and of the runtimes that were registered before the session began.
- Codex file watches (codex_app_server.py:533-552, 845-863): one entry per watch,
  set and removed by requests that change nothing else.
- The app-server conversions (codex_app_server.py:1018-1510): no state, and only
  the kinds of event matter to the properties. Of Claude's, stream events, partial
  messages and rate-limit warnings.
- In `ClaudeHistory`: titles, previews and times; sessions without a directory;
  transcripts that were forked or hold records of other sessions; two transcripts
  written at the same instant. The SDK's own index is taken to list what is there.
- A `send_response` that fails in the reader while the child lives
  (codex_app_server.py:707): pipes break when the child exits.
- Contents of hello, heartbeats and reports; delays between attempts (a delay only
  postpones, and `ComesBack` does not count time).
- Argument parsing, runtime profiles, env files, the pip command line, log
  rotation, the smoke script.
- Starting the app-server child, its schema export and the check of parameters;
  the pipes' capacity, so a deadlock of two full pipes is out of reach.
- A ps that fails (`daemon.py`), and a pid given away between ps and kill.

## 9. The plan

The order was: delivery of events first, because it is the one thing the system
promises across failures; then the two buffers and providers that feed it; then
what surrounds a session; then what the server is shown of Claude sessions, and
the proofs of the modules' safety invariants. Done: all modules of section 2 and
the theorems of section 6. Left:

1. Codex file watches, and the start of the child with requests that wait, beside
   `CodexConnector`.
2. The sync snapshot, which reads the Codex tables from a second worker thread.
3. Abstract specifications: an at-most-one-daemon register for `Daemon`, an atomic
   map for `TokenStore` when saves do not overlap, a turn as seen by the server
   (opened, at most one end) for `ClaudeTurns`.
