----------------------------- MODULE MCPolling ------------------------------
(***************************************************************************)
(* The two ways a dashboard hears of changes, one at a time: it polls, or  *)
(* it keeps an event stream open.                                          *)
(*                                                                         *)
(* Two targets, two changes to each and four requests are enough for two   *)
(* overlapping requests on either side of a change of target.  Three       *)
(* streams on one executor thread: one that leaves, one behind it that     *)
(* is passed over and one that is not.                                     *)
(***************************************************************************)
EXTENDS Polling, EventStreams

CONSTANTS lamp, door

VARIABLE channel

MCTarget == {lamp, door}

MCInit ==
    /\ channel \in {"polling", "stream"}
    /\ Init /\ StreamsInit
    /\ fetcher = lamp \* the targets are alike

MCNext ==
    /\ UNCHANGED channel
    /\ \/ channel = "polling" /\ Next /\ UNCHANGED streamVars
       \/ channel = "stream" /\ StreamsNext /\ UNCHANGED vars

MCSpec == MCInit /\ [][MCNext]_<<channel, vars, streamVars>> /\ StreamsFairness
=============================================================================
