--------------------------- MODULE MCEventDelivery ---------------------------
(***************************************************************************)
(* A small instance of EventDelivery for TLC.  One transient message is    *)
(* enough to fill the queue while a durable event waits in the table.      *)
(***************************************************************************)
EXTENDS EventDelivery

CONSTANT t1

OneTransient == {t1}
==============================================================================
