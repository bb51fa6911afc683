--------------------------- MODULE MonotonicView ----------------------------
(***************************************************************************)
(* What a polled view promises: it shows states the server has been in,    *)
(* and, as long as it shows the same target, never an older one after a    *)
(* newer one.                                                              *)
(***************************************************************************)
EXTENDS Integers

CONSTANTS
    Target,   \* what can be looked at: a device, a list, a chart
    NoData    \* the view before the first answer

VARIABLES
    version,  \* version[t]: the number of changes to t on the server
    view      \* the [target, version] shown, or NoData

viewVars == <<version, view>>

Init ==
    /\ version = [t \in Target |-> 0]
    /\ view = NoData

Change(t) ==
    /\ version' = [version EXCEPT ![t] = @ + 1]
    /\ UNCHANGED view

Show(t, v) ==
    /\ view # NoData /\ view.target = t => view.version <= v
    /\ view' = [target |-> t, version |-> v]
    /\ UNCHANGED version

Next == \E t \in Target : Change(t) \/ \E v \in 0..version[t] : Show(t, v)

Spec == Init /\ [][Next]_viewVars
=============================================================================
