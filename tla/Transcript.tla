------------------------------ MODULE Transcript ------------------------------
(***************************************************************************)
(* How claude_agent_sdk.py turns the records of a Claude session into the  *)
(* turns of a history (_messages_to_history_turns and its helpers), and    *)
(* how it pages them (_page_turns).                                        *)
(*                                                                         *)
(* A record stands for a line of the transcript.  role is "user",          *)
(* "assistant" or "other"; text says whether a user record has text left   *)
(* once the tags of local commands are taken out; use and error are the    *)
(* tool use its tool_result is about (0: none) and is_error; blocks are    *)
(* the kinds of the content blocks of an assistant record, at most one of  *)
(* them a tool use, which is named after the record.  id is the uuid.      *)
(***************************************************************************)
EXTENDS Integers, Sequences, SequencesExt

\* "auth" is a text that asks to log in, "edit" the use of a tool other than Bash.
Blocks == {"text", "auth", "thinking", "bash", "edit"}

Prompt(id)        == [id |-> id, role |-> "user", text |-> TRUE, use |-> 0, error |-> FALSE, blocks |-> <<>>]
LocalCommand(id)  == [Prompt(id) EXCEPT !.text = FALSE]
ToolResult(id, u, failed) == [LocalCommand(id) EXCEPT !.use = u, !.error = failed]
Said(id, content) == [LocalCommand(id) EXCEPT !.role = "assistant", !.blocks = content]

Status(failed) == IF failed THEN "failed" ELSE "completed"
Item(kind, id, status) == [kind |-> kind, id |-> id, status |-> status]
------------------------------------------------------------------------------
(* From records to turns                                                   *)

\* _assistant_items_from_content: one message of all texts, first; then, in their order,
\* the thinking and the commands.  A command is taken for completed until its result
\* says otherwise.
AssistantItems(rec) ==
  FoldLeft(LAMBDA items, b : CASE b = "bash"     -> Append(items, Item("command", rec.id, "completed"))
                               [] b = "thinking" -> Append(items, Item("reasoning", rec.id, "completed"))
                               [] OTHER          -> items,
           IF ToSet(rec.blocks) \cap {"text", "auth"} = {} THEN <<>>
           ELSE <<Item("message", rec.id, "completed")>>,
           rec.blocks)

\* Variant: only the commands of the turn that runs wait for their results.
ResultsOfLastTurn(turns, rec) ==
  [i \in 1..Len(turns) |->
     [turns[i] EXCEPT !.items =
        [k \in 1..Len(turns[i].items) |->
           LET item == turns[i].items[k]
           IN IF i = Len(turns) /\ item.kind = "command" /\ item.id = rec.use
              THEN [item EXCEPT !.status = Status(rec.error)] ELSE item]]]

\* _apply_tool_results_to_pending: the command the result is about, in whatever turn.
ApplyToolResults(turns, rec) ==
  [i \in 1..Len(turns) |->
     [turns[i] EXCEPT !.items =
        [k \in 1..Len(turns[i].items) |->
           LET item == turns[i].items[k]
           IN IF item.kind = "command" /\ item.id = rec.use
              THEN [item EXCEPT !.status = Status(rec.error)] ELSE item]]]

\* start_turn: a turn is named after the record it begins with; prompt is 0 when that is
\* not a prompt.
StartTurn(turns, rec) ==
  Append(turns, [prompt |-> IF rec.text THEN rec.id ELSE 0, items |-> <<>>])

AddRecord(turns, rec) ==
  CASE rec.role = "user" ->
         LET done == ApplyToolResults(turns, rec)
         IN IF rec.text THEN StartTurn(done, rec) ELSE done
    [] rec.role = "assistant" ->
         LET begun == IF turns = <<>> THEN StartTurn(turns, rec) ELSE turns
         IN [begun EXCEPT ![Len(begun)].items = @ \o AssistantItems(rec)]
    [] OTHER -> turns

\* _messages_to_history_turns: what comes before the first prompt is not shown.
HistoryTurns(records) ==
  FoldLeft(LAMBDA shown, h : IF h.prompt = 0 THEN shown ELSE Append(shown, h), <<>>,
           FoldLeft(AddRecord, <<>>, records))
------------------------------------------------------------------------------
(* Pages                                                                   *)

Least(m, n)    == IF m < n THEN m ELSE n
Greatest(m, n) == IF m > n THEN m ELSE n

\* Where a page ends: at the end, or at the cursor (-1: none), which is clamped.
PageEnd(total, cursor) == IF cursor = -1 THEN total ELSE Greatest(0, Least(total, cursor))

\* Variant: the page that has the cursor in it.
PageStartInclusive(total, limit, cursor) == Greatest(0, PageEnd(total, cursor) - limit + 1)

PageStart(total, limit, cursor) == Greatest(0, PageEnd(total, cursor) - limit)

\* _page_turns: the page, and the cursor of the page before it; -1 when there is none.
PageTurns(turns, limit, cursor) ==
  LET start == PageStart(Len(turns), limit, cursor)
  IN [page |-> SubSeq(turns, start + 1, PageEnd(Len(turns), cursor)),
      next |-> IF start > 0 THEN start ELSE -1]
==============================================================================
