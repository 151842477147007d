----------------------------- MODULE ClaudeHistory -----------------------------
(***************************************************************************)
(* What the server is shown of Claude sessions (claude_agent_sdk.py): live *)
(* while a turn runs (map_message), and afterwards as history, which is    *)
(* read page by page, listed and deleted.  Both come from the same records *)
(* by two pieces of code.                                                  *)
(*                                                                         *)
(* Claude Code is external: it appends the records of a run to the         *)
(* transcript of the session and streams them to the SDK, ends with a      *)
(* result, and is also used from a terminal.  A transcript holds the       *)
(* records of the session it is named after.  The SDK reads the same       *)
(* files, and any call of it may fail.  The handlers of history requests   *)
(* await nothing; those that change nothing are operators.  A run is a     *)
(* task of start_turn; two may have the same turn_id.  What ClaudeTurns    *)
(* says of approvals, stops and the order of cancel and result is left out *)
(* here.                                                                   *)
(***************************************************************************)
EXTENDS Transcript, FiniteSets

CONSTANTS Sessions,     \* provider_session_id
          Turns,        \* turn_id
          Runs,         \* executions of start_turn
          WorkspaceOf,  \* the cwd of a session
          Contents,     \* the contents Claude may answer with: sequences of Blocks
          ScanLimit,    \* _TRANSCRIPT_SCAN_LIMIT
          SyncLimit,    \* _SESSION_SYNC_LIMIT
          DefaultPage,  \* turns of a page when the request names no limit (20)
          LargestPage,  \* at most so many (50)
          Limits,       \* the limits a request may name; 0 stands for none
          MaxSteps      \* bound on records and on delete requests, together

ASSUME HistoryConstants ==
  /\ \A n \in {ScanLimit, SyncLimit, DefaultPage, LargestPage, MaxSteps} : n \in Nat \ {0}
  /\ DefaultPage <= LargestPage /\ Limits \subseteq Int
  /\ \A c \in Contents : c \in Seq(Blocks)

None == "none"
Idle == [session |-> None, turn |-> None, prompt |-> 0, stage |-> "idle", open |-> FALSE, mapped |-> {}]

VARIABLES
  file,       \* per session: the records of its transcript; <<>> is no file
  newest,     \* the sessions that have a file, the last written first
  records,    \* number of records written
  run,        \* per run: session, turn, prompt record, stage, records that were mapped
  stream,     \* per run: what the SDK has still to deliver
  live,       \* per run: the items the server was sent
  toolUses,   \* _tool_uses
  authTurns,  \* _auth_required_turns
  deletes,    \* number of delete requests
  gone,       \* sessions a delete request of which was answered with deleted
  missed,     \* those of them whose file that request did not reach
  asked,      \* runs whose Claude asked to log in
  met,        \* pairs of runs of one turn_id that were open at the same time
  disturbed   \* runs in whose session others wrote a prompt meanwhile

files  == <<file, newest, records>>
turnVars == <<run, stream, live, toolUses, authTurns>>
ghosts == <<asked, met, disturbed>>
vars   == <<files, turnVars, deletes, gone, missed, ghosts>>

Init ==
  /\ file = [s \in Sessions |-> <<>>] /\ newest = <<>> /\ records = 0
  /\ run = [r \in Runs |-> Idle] /\ stream = [r \in Runs |-> <<>>] /\ live = [r \in Runs |-> <<>>]
  /\ toolUses = {} /\ authTurns = {} /\ asked = {}
  /\ deletes = 0 /\ gone = {} /\ missed = {}
  /\ met = {} /\ disturbed = {}

Running(r) == run[r].stage = "running"
------------------------------------------------------------------------------
(* The sources of history                                                  *)

\* _candidate_transcript_files: the files written last.
Candidates(limit) == {newest[i] : i \in 1..Least(limit, Len(newest))}

\* _find_transcript_file looks among those only.
FindTranscript(s) == s \in Candidates(ScanLimit)

\* Variant: what the SDK does not deliver is not there.
MessagesFromSdk(s, sdk) == IF sdk THEN file[s] ELSE <<>>

\* _load_history_turns: the messages the SDK knows, else the transcript.
LoadMessages(s, sdk) == IF sdk \/ FindTranscript(s) THEN file[s] ELSE <<>>
LoadTurns(s, sdk)    == HistoryTurns(LoadMessages(s, sdk))

\* A session is listed if it has a turn to show and its directory is not excluded.
Listed(s, sdk, excluded) == WorkspaceOf[s] \notin excluded /\ LoadTurns(s, sdk) # <<>>

\* _list_threads_from_sdk, _list_threads_from_transcripts.  read are the sessions whose
\* messages the SDK delivers, excluded is _history_excluded_cwds.
ThreadsFromSdk(limit, read, excluded) == {s \in Candidates(limit) : Listed(s, s \in read, excluded)}
ThreadsFromTranscripts(limit, excluded) == {s \in Candidates(limit) : Listed(s, TRUE, excluded)}

\* _list_history_threads: the transcripts are read when the SDK lists nothing; index says
\* whether it can list sessions at all.
ListThreads(limit, index, read, excluded) ==
  LET threads == IF index THEN ThreadsFromSdk(limit, read, excluded) ELSE {}
  IN IF threads # {} THEN threads ELSE ThreadsFromTranscripts(limit, excluded)

\* thread_sync_report
ThreadSyncReport(index, read, excluded) ==
  LET threads == ListThreads(SyncLimit, index, read, excluded)
  IN [threads |-> threads, workspaces |-> {WorkspaceOf[s] : s \in threads},
      authoritative |-> threads # {}]

\* The limit of a request; 0 and none are the default.
PageLimit(limit) == Greatest(1, Least(IF limit = 0 THEN DefaultPage ELSE limit, LargestPage))

\* read_thread_history
ReadThreadHistory(s, limit, cursor, sdk) == PageTurns(LoadTurns(s, sdk), PageLimit(limit), cursor)
------------------------------------------------------------------------------
(* Claude Code (external)                                                  *)

\* A record is appended to the transcript of a session, which is made if need be.
Write(s, rec) ==
  /\ records + deletes < MaxSteps /\ records' = records + 1
  /\ file' = [file EXCEPT ![s] = Append(@, rec)]
  /\ newest' = <<s>> \o SelectSeq(newest, LAMBDA x : x # s)
  /\ gone' = gone \ {s} /\ missed' = missed \ {s}

\* The user asks at a terminal, or uses a local command there.
LocalPrompt(s) ==
  /\ \E rec \in {Prompt(records + 1), LocalCommand(records + 1)} :
       /\ Write(s, rec)
       /\ disturbed' = disturbed \cup {r \in Runs : rec.text /\ Running(r) /\ run[r].session = s}
  /\ UNCHANGED <<turnVars, deletes, asked, met>>

Streams(r, rec) == Write(run[r].session, rec) /\ stream' = [stream EXCEPT ![r] = Append(@, rec)]

\* The tool uses of a run that have no result yet.
OpenUses(r) ==
  LET recs == file[run[r].session]
      uses == {recs[i].id : i \in {k \in 1..Len(recs) : \E b \in {"bash", "edit"} : Contains(recs[k].blocks, b)}}
  IN {u \in uses \cap (run[r].mapped \cup {stream[r][i].id : i \in 1..Len(stream[r])}) :
        \A i \in 1..Len(recs) : recs[i].use # u}

\* It answers, or a tool returns.
Answer(r) ==
  /\ Running(r)
  /\ \/ \E c \in Contents : Streams(r, Said(records + 1, c))
     \/ \E u \in OpenUses(r), failed \in BOOLEAN : Streams(r, ToolResult(records + 1, u, failed))
  /\ UNCHANGED <<run, live, toolUses, authTurns, deletes, ghosts>>
------------------------------------------------------------------------------
(* A turn                                                                  *)

\* start_turn and run_sdk up to the query: the prompt becomes a record of the session.
StartRun(r, s, t) ==
  /\ run[r].stage = "idle" /\ Write(s, Prompt(records + 1))
  /\ run' = [run EXCEPT ![r] = [session |-> s, turn |-> t, prompt |-> records + 1,
                                stage |-> "running", open |-> TRUE, mapped |-> {}]]
  /\ met' = met \cup UNION {{<<r, q>>, <<q, r>>} : q \in {x \in Runs : run[x].open /\ run[x].turn = t}}
  /\ disturbed' = disturbed \cup {q \in Runs : Running(q) /\ run[q].session = s}
  /\ UNCHANGED <<stream, live, toolUses, authTurns, deletes, asked>>

\* _map_assistant_message, block by block.  A text that asks to log in is not sent.
Event(b, id) ==
  CASE b = "text"     -> <<Item("message", id, "completed")>>
    [] b = "thinking" -> <<Item("reasoning", id, "completed")>>
    [] b = "bash"     -> <<Item("command", id, "running")>>
    [] b = "edit"     -> <<Item("file", id, "running")>>
    [] b = "auth"     -> <<>>

MapAssistant(r, m) ==
  /\ live' = [live EXCEPT ![r] = FoldLeft(LAMBDA out, b : out \o Event(b, m.id), @, m.blocks)]
  /\ toolUses' = toolUses \cup {<<run[r].turn, m.id, b>> : b \in ToSet(m.blocks) \cap {"bash", "edit"}}
  /\ authTurns' = authTurns \cup {run[r].turn : b \in ToSet(m.blocks) \cap {"auth"}}
  /\ asked' = asked \cup {r : b \in ToSet(m.blocks) \cap {"auth"}}

\* Variant: a result belongs to the last tool use.
UsesOfLatest(r, m) == {x \in toolUses : x[1] = run[r].turn /\ \A y \in toolUses : y[2] <= x[2]}

\* The entry of _tool_uses a result belongs to.
UsesOf(r, m) == {x \in toolUses : x[1] = run[r].turn /\ x[2] = m.use}

\* _map_tool_result: the end of a command or of an edit; the result of a tool that is not
\* in the table is sent as provider.debug, which tells nothing.
MapResult(r, m) ==
  /\ toolUses' = toolUses \ UsesOf(r, m)
  /\ live' = [live EXCEPT ![r] =
       @ \o SetToSeq({Item(IF x[3] = "bash" THEN "command" ELSE "file", x[2], Status(m.error)) :
                        x \in UsesOf(r, m)})]
  /\ UNCHANGED <<authTurns, asked>>

\* map_message for the next message of the stream.
MapMessage(r) ==
  /\ Running(r) /\ stream[r] # <<>>
  /\ LET m == Head(stream[r])
     IN /\ \/ m.role = "assistant" /\ MapAssistant(r, m)
           \/ m.role = "user" /\ MapResult(r, m)
        /\ run' = [run EXCEPT ![r].mapped = @ \cup {m.id}]
  /\ stream' = [stream EXCEPT ![r] = Tail(@)]
  /\ UNCHANGED <<files, deletes, gone, missed, met, disturbed>>

Ends(r, stage) ==
  /\ run' = [run EXCEPT ![r].stage = stage]
  /\ stream' = [stream EXCEPT ![r] = <<>>]
  /\ UNCHANGED <<files, live, toolUses, deletes, gone, missed, ghosts>>

\* Variant: the text is taken for an answer when the SDK reports no error.
MapResultMessageTrusting(r) ==
  /\ Running(r) /\ stream[r] = <<>>
  /\ \E isError \in BOOLEAN : Ends(r, IF isError THEN "failed" ELSE "completed")
  /\ authTurns' = authTurns \ {run[r].turn}

\* _map_result_message, when Claude is done and the stream is read: a turn whose Claude asks
\* to log in has failed, whatever the SDK says.
MapResultMessage(r) ==
  /\ Running(r) /\ stream[r] = <<>>
  /\ \E isError \in BOOLEAN :
       Ends(r, IF run[r].turn \in authTurns THEN "auth" ELSE IF isError THEN "failed" ELSE "completed")
  /\ authTurns' = authTurns \ {run[r].turn}

\* A cancel or an exception of the SDK ends the run before its result.
Abort(r) == Running(r) /\ Ends(r, "aborted") /\ UNCHANGED authTurns

\* The finally of run_sdk, once the client is closed: the tool uses of the turn_id are
\* forgotten.
Finally(r) ==
  /\ run[r].open /\ ~Running(r)
  /\ run' = [run EXCEPT ![r].open = FALSE]
  /\ toolUses' = {x \in toolUses : x[1] # run[r].turn}
  /\ UNCHANGED <<files, stream, live, authTurns, deletes, gone, missed, ghosts>>
------------------------------------------------------------------------------
(* Deletion                                                                *)

Removed(s) ==
  /\ file' = [file EXCEPT ![s] = <<>>]
  /\ newest' = SelectSeq(newest, LAMBDA x : x # s)

\* Variant: a session the SDK cannot delete is left.
DeleteFromSdkOnly(s) ==
  /\ records + deletes < MaxSteps /\ deletes' = deletes + 1
  /\ \E sdk \in BOOLEAN :
       /\ \/ sdk /\ Removed(s)
          \/ ~sdk /\ UNCHANGED <<file, newest>>
       /\ gone' = gone \cup {s}
       /\ missed' = missed \cup (IF ~sdk /\ ~FindTranscript(s) /\ file[s] # <<>> THEN {s} ELSE {})
  /\ UNCHANGED <<records, turnVars, ghosts>>

\* delete_thread: the SDK deletes the session, or its transcript is searched for and
\* removed.  It is answered with deleted also when no transcript was found.  An error of
\* the removal is the answer, and the file stays.
DeleteThread(s) ==
  /\ records + deletes < MaxSteps /\ deletes' = deletes + 1
  /\ \E sdk \in BOOLEAN :
       \/ /\ sdk \/ FindTranscript(s)
          /\ Removed(s) /\ gone' = gone \cup {s} /\ UNCHANGED missed
       \/ /\ ~sdk /\ FindTranscript(s) /\ UNCHANGED <<file, newest, gone, missed>>
       \/ /\ ~sdk /\ ~FindTranscript(s) /\ UNCHANGED <<file, newest>>
          /\ gone' = gone \cup {s}
          /\ missed' = missed \cup (IF file[s] # <<>> THEN {s} ELSE {})
  /\ UNCHANGED <<records, turnVars, ghosts>>
------------------------------------------------------------------------------
Next ==
  \/ \E s \in Sessions : LocalPrompt(s) \/ DeleteThread(s)
  \/ \E r \in Runs :
       \/ \E s \in Sessions, t \in Turns : StartRun(r, s, t)
       \/ Answer(r) \/ MapMessage(r) \/ MapResultMessage(r) \/ Abort(r) \/ Finally(r)

Spec == Init /\ [][Next]_vars
------------------------------------------------------------------------------
(* Properties                                                              *)

TypeOK ==
  /\ records + deletes \in 0..MaxSteps
  /\ \A s \in Sessions : Len(file[s]) <= records /\ (file[s] # <<>>) = Contains(newest, s)
  /\ \A r \in Runs : run[r].stage \in {"idle", "running", "completed", "failed", "auth", "aborted"}
  /\ \A x \in toolUses : x[1] \in Turns /\ x[2] \in 1..records /\ x[3] \in {"bash", "edit"}
  /\ authTurns \subseteq Turns /\ gone \subseteq Sessions /\ missed \subseteq gone
  /\ met \subseteq Runs \X Runs /\ disturbed \subseteq Runs

\* The prompts of turns.
Given(page) == [i \in 1..Len(page) |-> page[i].prompt]

\* The last result of a tool use decides how a command ended.
Outcome(recs, id) ==
  LET results == {i \in 1..Len(recs) : recs[i].role = "user" /\ recs[i].use = id}
  IN IF results = {} THEN "completed" ELSE Status(recs[Max(results)].error)

\* What Claude said in a part of a transcript, each command as it ended.
Answers(recs, part) ==
  LET said == FoldLeft(LAMBDA items, x : IF x.role = "assistant" THEN items \o AssistantItems(x) ELSE items,
                       <<>>, part)
  IN [i \in 1..Len(said) |-> IF said[i].kind = "command"
                             THEN [said[i] EXCEPT !.status = Outcome(recs, said[i].id)] ELSE said[i]]

\* The history of a transcript is one turn per prompt, in order, and the turn shows what
\* Claude said up to the next prompt, and of each command how it ended, even if the result
\* came after that prompt (claude_agent_sdk.py:514-576).
TurnsAsWritten ==
  \A s \in Sessions :
    LET recs == file[s]
        h    == HistoryTurns(recs)
    IN /\ ToSet(Given(h)) = {recs[i].id : i \in {k \in 1..Len(recs) : recs[k].text}}
       /\ \A i, j \in 1..Len(h) : i < j => h[i].prompt < h[j].prompt
       /\ \A k \in 1..Len(h) : \E first, last \in 1..Len(recs) :
            /\ first <= last /\ recs[first].id = h[k].prompt
            /\ \A i \in first + 1..last : ~recs[i].text
            /\ last = Len(recs) \/ recs[last + 1].text
            /\ h[k].items = Answers(recs, SubSeq(recs, first + 1, last))

\* What a turn's history shows of the records that were mapped is what its live stream
\* sent, and a command or an edit that ended there ended in the same way (map_message
\* against _messages_to_history_turns), unless the text asks to log in, or a task of the
\* same turn_id ran at the same time.  It shows all that was sent but the edits, unless
\* another prompt came into the session meanwhile.
LiveMatchesHistory ==
  \A r \in Runs :
    (run[r].stage # "idle" /\ \A q \in Runs : <<r, q>> \notin met) =>
      LET recs  == file[run[r].session]
          sent  == ToSet(live[r])
          mine  == {recs[i] : i \in {k \in 1..Len(recs) : recs[k].id \in run[r].mapped}}
          shown == {h \in ToSet(HistoryTurns(recs)) : h.prompt = run[r].prompt}
      IN /\ \A h \in shown : \A item \in ToSet(h.items) : item.id \in run[r].mapped =>
              \/ item.kind # "command" /\ item \in sent
              \/ item.kind = "message" /\ \E x \in mine : x.id = item.id /\ Contains(x.blocks, "auth")
              \/ /\ item.kind = "command" /\ [item EXCEPT !.status = "running"] \in sent
                 /\ \A x \in mine : x.use = item.id => item \in sent
         /\ \A x \in mine : x.use # 0 =>
              \E y \in sent : y.kind \in {"command", "file"} /\ y.id = x.use /\ y.status = Status(x.error)
         /\ r \notin disturbed =>
              \A h \in shown, y \in sent : (y.kind # "file" /\ \E x \in mine : x.id = y.id) =>
                \E item \in ToSet(h.items) : item.kind = y.kind /\ item.id = y.id

\* A turn whose Claude asked to log in does not complete, and one is reported as not logged
\* in only if its Claude asked (claude_agent_sdk.py:1448-1457, 1628-1634), unless a task of
\* the same turn_id ran at the same time, or asked and was aborted before its result.
AuthReported ==
  \A r \in Runs :
    LET Met(q) == <<r, q>> \in met
        others == {q \in Runs \ {r} : run[q].turn = run[r].turn /\ q \in asked}
    IN /\ run[r].stage = "completed" => r \notin asked \/ \E q \in Runs : Met(q)
       /\ run[r].stage = "auth" =>
            r \in asked \/ \E q \in others : Met(q) \/ run[q].stage = "aborted"

\* A reader that is given the latest page at any time, and later the pages before it one
\* by one while the transcript grows, is given every turn there was when it began once and
\* in order, and is told that there is nothing before the first
\* (claude_agent_sdk.py:570-590, 753-776).  It must find the session each time: a page that
\* no source has the session for says that there is nothing before.
PagesTile ==
  \A s \in Sessions : \A n \in 1..Len(file[s]) :
    LET before == HistoryTurns(SubSeq(file[s], 1, n))
    IN \A limit, next \in Limits :
         LET Older(got, k) ==
               IF got.next = -1 THEN got
               ELSE LET read == ReadThreadHistory(s, next, got.next, TRUE)
                    IN [page |-> read.page \o got.page, next |-> read.next]
             all == FoldLeft(Older, PageTurns(before, PageLimit(limit), -1), before)
         IN Given(all.page) = Given(before) /\ all.next = -1

\* A session that was answered with deleted is not read and not listed again, whatever the
\* SDK does, until something is written to it (claude_agent_sdk.py:778-818), unless the SDK
\* failed and its transcript was not among those that are searched.
DeletedStaysGone ==
  \A s \in gone \ missed :
    /\ \A sdk \in BOOLEAN : LoadTurns(s, sdk) = <<>>
    /\ \A index \in BOOLEAN, read \in SUBSET Sessions :
         s \notin ThreadSyncReport(index, read, {}).threads

\* A report by which the server may drop workspaces names every workspace of a session
\* that is within the limit of a report, has a turn and is not excluded
\* (README.md:198-200, claude_agent_sdk.py:698-707, 844-897), whatever the SDK fails to
\* deliver, unless its transcript is not among those that are searched.
AuthoritativeNamesAll ==
  LET shown == {s \in Candidates(SyncLimit) : HistoryTurns(file[s]) # <<>>}
  IN \A index \in BOOLEAN, read \in SUBSET shown, excluded \in SUBSET {WorkspaceOf[s] : s \in shown} :
       LET report == ThreadSyncReport(index, read, excluded)
           named  == {s \in shown : index => s \in read \/ FindTranscript(s)}
       IN report.authoritative =>
            {WorkspaceOf[s] : s \in named} \ excluded \subseteq report.workspaces
==============================================================================
