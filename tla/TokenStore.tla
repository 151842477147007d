------------------------------ MODULE TokenStore ------------------------------
(***************************************************************************)
(* The token file of token_store.py and the two that write it: a register  *)
(* command (register.py) and a connector whose server hands it a token     *)
(* (session.py).  A save loads the whole file, adds its entry, writes the  *)
(* result to one temporary name and renames that over the file; nothing    *)
(* locks the file between processes, and a process can be killed or the    *)
(* disk can be full at any step.                                           *)
(*                                                                         *)
(* A file is Missing, Torn (truncated or mixed, so not JSON) or a map from *)
(* machines to tokens.  Tokens of a machine are numbered as the server,    *)
(* which is external, issues them.  The names of the specification begin   *)
(* with Token, as HomeProofs extends this module beside Installation.      *)
(***************************************************************************)
EXTENDS Naturals

CONSTANTS Procs,       \* processes that save
          Machines,    \* machine ids
          MaxTokens,   \* bound on the tokens issued per machine
          MaxFaults,   \* bound on kills and full disks
          Missing,     \* no file
          Torn         \* a file that is not JSON

NoToken == 0
Tokens  == 0..MaxTokens
Stores  == [Machines -> Tokens]
NoStore == [m \in Machines |-> NoToken]

ASSUME TokenConstants ==
  /\ MaxTokens \in Nat /\ MaxFaults \in Nat
  /\ Missing # Torn /\ {Missing, Torn} \cap Stores = {}

VARIABLES
  store,   \* botsdock_connector.json
  tmp,     \* botsdock_connector.json.tmp
  step,    \* per process: "idle", "poll", "load", "open", "write", "replace"
  machine, \* per process: the machine of the running command
  token,   \* per process: the token to save
  data,    \* per process: the file as loaded, with the new entry
  fd,      \* per process: the file it has open: "none", "tmp", "store", "gone"
  issued,  \* per machine: the newest token the server has issued
  code,    \* per process: the token its registration code is confirmed with
  told,    \* per machine: the token whose save returned last
  overlapped,  \* a process has loaded the file while another was saving
  faults

files  == <<store, tmp, fd>>
server == <<issued, code>>
tokenVars == <<files, step, machine, token, data, server, told, overlapped, faults>>

TokenInit ==
  /\ store = Missing /\ tmp = Missing /\ fd = [p \in Procs |-> "none"]
  /\ step = [p \in Procs |-> "idle"] /\ machine \in [Procs -> Machines]
  /\ token = [p \in Procs |-> NoToken] /\ data = [p \in Procs |-> NoStore]
  /\ issued = NoStore /\ code = [p \in Procs |-> NoToken]
  /\ told = NoStore /\ overlapped = FALSE /\ faults = 0

\* load_token_store of a file that can be read: a missing one is empty.
Loaded == IF store = Missing THEN NoStore ELSE store
Saved == {m \in Machines : Loaded[m] # NoToken}
Saving(p) == step[p] \in {"open", "write", "replace"}
Goto(p, label) == step' = [step EXCEPT ![p] = label]
------------------------------------------------------------------------------
(* run_register                                                            *)

\* A generated machine id is nobody else's.
Fresh(m) == issued[m] = NoToken /\ \A p \in Procs : step[p] = "idle" \/ machine[p] # m

\* A machine id is generated when nothing is saved; --renew takes a saved id, or
\* the one it is given.  The server answers the announcement with a code.
Register(p) ==
  /\ step[p] = "idle" /\ store # Torn
  /\ \E m \in Machines, renew \in BOOLEAN :
       /\ renew \/ (Saved = {} /\ Fresh(m))
       /\ machine' = [machine EXCEPT ![p] = m]
  /\ code' = [code EXCEPT ![p] = NoToken]
  /\ Goto(p, "poll")
  /\ UNCHANGED <<files, token, data, issued, told, overlapped, faults>>

\* The user enters the code: the server issues a token for the machine.
Confirm(p) ==
  /\ step[p] = "poll" /\ code[p] = NoToken /\ issued[machine[p]] < MaxTokens
  /\ issued' = [issued EXCEPT ![machine[p]] = @ + 1]
  /\ code' = [code EXCEPT ![p] = issued'[machine[p]]]
  /\ UNCHANGED <<files, step, machine, token, data, told, overlapped, faults>>

\* A poll sees the confirmation, or sees it without its token and gives up.
Poll(p) ==
  /\ step[p] = "poll" /\ code[p] # NoToken
  /\ \/ Goto(p, "load") /\ token' = [token EXCEPT ![p] = code[p]]
     \/ Goto(p, "idle") /\ UNCHANGED token
  /\ UNCHANGED <<files, machine, data, server, told, overlapped, faults>>

PollTimeout(p) ==
  /\ step[p] = "poll"
  /\ Goto(p, "idle")
  /\ UNCHANGED <<files, machine, token, data, server, told, overlapped, faults>>

\* save_accepted_token: the server accepts a session and hands over a new token,
\* of a saved machine or of one that connects with its registration token.
Accepted(p) ==
  /\ step[p] = "idle"
  /\ \E m \in Machines :
       /\ issued[m] < MaxTokens
       /\ issued' = [issued EXCEPT ![m] = @ + 1]
       /\ machine' = [machine EXCEPT ![p] = m]
       /\ token' = [token EXCEPT ![p] = issued'[m]]
  /\ Goto(p, "load")
  /\ UNCHANGED <<files, data, code, told, overlapped, faults>>
------------------------------------------------------------------------------
(* save_connector_token                                                    *)

\* Variant: the new entry alone is written.
LoadNothing(p) ==
  /\ step[p] = "load"
  /\ data' = [data EXCEPT ![p] = [NoStore EXCEPT ![machine[p]] = token[p]]]
  /\ overlapped' = (overlapped \/ \E q \in Procs : Saving(q))
  /\ Goto(p, "open")
  /\ UNCHANGED <<files, machine, token, server, told, faults>>

\* A file that is not JSON raises ConnectorError.
Load(p) ==
  /\ step[p] = "load"
  /\ \/ store = Torn /\ Goto(p, "idle") /\ UNCHANGED <<data, overlapped>>
     \/ /\ store # Torn
        /\ data' = [data EXCEPT ![p] = [Loaded EXCEPT ![machine[p]] = token[p]]]
        /\ overlapped' = (overlapped \/ \E q \in Procs : Saving(q))
        /\ Goto(p, "open")
  /\ UNCHANGED <<files, machine, token, server, told, faults>>

\* write_text opens the temporary file, which truncates it ...
Open(p) ==
  /\ step[p] = "open"
  /\ tmp' = Torn
  /\ fd' = [fd EXCEPT ![p] = "tmp"]
  /\ Goto(p, "write")
  /\ UNCHANGED <<store, machine, token, data, server, told, overlapped, faults>>

\* ... and writes it: over what another process wrote meanwhile, if it did, the
\* end of which stays when it was longer.
Overwritten(p, file) == {data[p]} \cup (IF file \in {Missing, Torn} THEN {} ELSE {Torn})

Write(p) ==
  /\ step[p] = "write"
  /\ \/ fd[p] = "tmp" /\ tmp' \in Overwritten(p, tmp) /\ UNCHANGED store
     \/ fd[p] = "store" /\ store' \in Overwritten(p, store) /\ UNCHANGED tmp
     \/ fd[p] = "gone" /\ UNCHANGED <<store, tmp>>
  /\ fd' = [fd EXCEPT ![p] = "none"]
  /\ Goto(p, "replace")
  /\ UNCHANGED <<machine, token, data, server, told, overlapped, faults>>

\* The rename: processes with either file open keep what they have open.  It
\* fails when another process has renamed the temporary file already.
Replace(p) ==
  /\ step[p] = "replace"
  /\ \/ tmp = Missing /\ UNCHANGED <<files, told>>
     \/ /\ tmp # Missing
        /\ store' = tmp /\ tmp' = Missing
        /\ fd' = [q \in Procs |-> CASE fd[q] = "tmp" -> "store" [] fd[q] = "store" -> "gone"
                                    [] OTHER -> fd[q]]
        /\ told' = [told EXCEPT ![machine[p]] = token[p]]
  /\ Goto(p, "idle")
  /\ UNCHANGED <<machine, token, data, server, overlapped, faults>>

\* The process is killed, or the disk is full: what it had open stays as it is.
Fault(p) ==
  /\ step[p] # "idle" /\ faults < MaxFaults
  /\ faults' = faults + 1
  /\ Goto(p, "idle")
  /\ fd' = [fd EXCEPT ![p] = "none"]
  /\ UNCHANGED <<store, tmp, machine, token, data, server, told, overlapped>>
------------------------------------------------------------------------------
TokenNext == \E p \in Procs :
          \/ Register(p) \/ Confirm(p) \/ Poll(p) \/ PollTimeout(p) \/ Accepted(p)
          \/ Load(p) \/ Open(p) \/ Write(p) \/ Replace(p) \/ Fault(p)

TokenSpec == TokenInit /\ [][TokenNext]_tokenVars
------------------------------------------------------------------------------
(* Properties                                                              *)

\* The values the variables take; a save has a token to save.
TokenTypes ==
  /\ store \in Stores \cup {Missing, Torn} /\ tmp \in Stores \cup {Missing, Torn}
  /\ step \in [Procs -> {"idle", "poll", "load", "open", "write", "replace"}]
  /\ machine \in [Procs -> Machines] /\ token \in [Procs -> Tokens]
  /\ data \in [Procs -> Stores] /\ fd \in [Procs -> {"none", "tmp", "store", "gone"}]
  /\ issued \in Stores /\ code \in [Procs -> Tokens] /\ told \in Stores
  /\ overlapped \in BOOLEAN
  /\ \A p \in Procs : Saving(p) \/ step[p] = "load" => token[p] # NoToken
  /\ faults \in 0..MaxFaults

\* After a save has returned, the file holds that token until another save of the
\* same machine returns: no save of another machine, and none that fails, drops it.
RegisteredSaved ==
  \A m \in Machines : told[m] # NoToken => store \in Stores /\ store[m] = told[m]

\* That holds as long as no two saves overlap, and the file can always be read then,
\* whenever the writer is killed: a torn one fails every later command.
SavedKept == ~overlapped => store # Torn /\ RegisteredSaved
==============================================================================
