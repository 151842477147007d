----------------------------- MODULE AtLeastOnce -----------------------------
(***************************************************************************)
(* What the event outbox promises to whoever puts a durable event in it:   *)
(* the event stays stored until the server has it, however often the       *)
(* connection or the process fails, and the server may see it repeatedly.  *)
(***************************************************************************)
EXTENDS Naturals

CONSTANT Events    \* the stable ids of the durable events

VARIABLES stored,  \* events kept on the connector's side
          known    \* events the server has received at least once

aoVars == <<stored, known>>

AOInit == stored = {} /\ known = {}

\* An event is handed to the outbox, for the first time or again.
Store(e) == stored' = stored \cup {e} /\ UNCHANGED known

\* A copy reaches the server: of a stored event, or a late duplicate.
Arrive(e) == e \in stored \cup known /\ known' = known \cup {e} /\ UNCHANGED stored

\* The outbox forgets an event only once the server has it.
Forget(e) == e \in known /\ stored' = stored \ {e} /\ UNCHANGED known

AONext == \E e \in Events : Store(e) \/ Arrive(e) \/ Forget(e)

AOSpec == AOInit /\ [][AONext]_aoVars
==============================================================================
