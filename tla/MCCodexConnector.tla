-------------------------- MODULE MCCodexConnector --------------------------
(***************************************************************************)
(* Small instances of CodexConnector for TLC: a thread that is unknown or  *)
(* known from an earlier session, and then a turn of it too.               *)
(***************************************************************************)
EXTENDS CodexConnector, TLC

CONSTANTS t1, t2, th1, th2, cmd1, cmd2

MCThreadOf == [t \in Turns |-> IF t = t2 /\ th2 \in Threads THEN th2 ELSE th1]
MCUnknown  == [z \in Threads |-> 0]
MCKnown    == [z \in Threads |-> IF z = th1 THEN 1 ELSE 2]
MCEarlier  == [t \in Turns |-> IF t = t1 THEN 1 ELSE 0]
MCNoTurn   == [t \in Turns |-> 0]
MCOffers   == {{"accept", "decline"}, {"accept", "acceptForSession", "decline"}, {"decline"}}
==============================================================================
