---------------------------- MODULE MCTaskServer ----------------------------
(***************************************************************************)
(* The ports and the messages share no variable, and neither reads one of  *)
(* the other's.  A behaviour of this instance therefore has only one of    *)
(* the two, next to the tasks, and is not slowed down by the other.        *)
(***************************************************************************)
EXTENDS TaskServer

VARIABLE part

MCInit == Init /\ part \in {"ports", "messages"}

\* Without a connect no port's job ever runs, without a send or a call no message.
MCNext ==
    /\ Next /\ UNCHANGED part
    /\ part = "messages" => UNCHANGED port
    /\ part = "ports" => UNCHANGED owed

MCSpec == MCInit /\ [][MCNext]_<<vars, part>> /\ Fairness
=============================================================================
