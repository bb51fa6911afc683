------------------------------ MODULE WakeLock ------------------------------
(***************************************************************************)
(* frontend/src/modules/recipes/cook/hooks/useWakeLock.ts: the steps page  *)
(* keeps the screen on.  The browser (external) answers a request later    *)
(* or never, and takes every lock back when the tab is hidden.             *)
(***************************************************************************)
EXTENDS Integers

CONSTANT MaxRequests  \* bound: requests for a lock

ASSUME WakeLockAssumption == MaxRequests \in Nat

VARIABLES
    awake,     \* the page is mounted
    visible,   \* document.visibilityState
    asking,    \* the requests without an answer: [id, cancelled]
    last,      \* requests made so far
    locks,     \* the locks that are held
    sentinel,  \* sentinelRef, 0 for null
    denied,    \* ghost: since the last request one was refused, or a lock taken back
    crowded    \* ghost: two requests of one page have overlapped

wakeVars == <<awake, visible, asking, last, locks, sentinel, denied, crowded>>

\* acquire()
Acquire ==
    /\ last < MaxRequests
    /\ last' = last + 1
    /\ asking' = asking \cup {[id |-> last', cancelled |-> FALSE]}
    /\ denied' = FALSE
    /\ crowded' = (crowded \/ \E q \in asking : ~q.cancelled)

EnterSteps ==
    /\ ~awake
    /\ awake' = TRUE
    /\ Acquire
    /\ UNCHANGED <<visible, locks, sentinel>>

\* The cleanup of the effect.
LeaveSteps ==
    /\ awake
    /\ awake' = FALSE
    /\ asking' = {[q EXCEPT !.cancelled = TRUE] : q \in asking}
    /\ locks' = locks \ {sentinel}
    /\ sentinel' = 0
    /\ UNCHANGED <<visible, last, denied, crowded>>

Hide ==
    /\ visible
    /\ visible' = FALSE
    /\ locks' = {}
    /\ UNCHANGED <<awake, asking, last, sentinel, denied, crowded>>

\* Fault: the lock is asked for once.
FaultShow ==
    /\ ~visible
    /\ visible' = TRUE
    /\ UNCHANGED <<awake, asking, last, locks, sentinel, denied, crowded>>

\* The listener is there while the page is.
Show ==
    /\ ~visible
    /\ visible' = TRUE
    /\ IF awake THEN Acquire ELSE UNCHANGED <<asking, last, denied, crowded>>
    /\ UNCHANGED <<awake, locks, sentinel>>

\* Fault: an answer that comes after the page is kept like any other.
FaultGranted(q) ==
    /\ visible
    /\ asking' = asking \ {q}
    /\ locks' = locks \cup {q.id} /\ sentinel' = q.id
    /\ UNCHANGED <<awake, visible, last, denied, crowded>>

\* A lock for a page that is gone is given back at once.
Granted(q) ==
    /\ visible
    /\ asking' = asking \ {q}
    /\ IF q.cancelled THEN UNCHANGED <<locks, sentinel>>
       ELSE locks' = locks \cup {q.id} /\ sentinel' = q.id
    /\ UNCHANGED <<awake, visible, last, denied, crowded>>

\* Also what becomes of a request made while the tab is hidden.
Denied(q) ==
    /\ asking' = asking \ {q}
    /\ denied' = (denied \/ visible)
    /\ UNCHANGED <<awake, visible, last, locks, sentinel, crowded>>

\* The battery runs low.
TakenBack ==
    /\ locks # {}
    /\ locks' = {}
    /\ denied' = TRUE
    /\ UNCHANGED <<awake, visible, asking, last, sentinel, crowded>>

WakeInit ==
    /\ awake = FALSE /\ visible = TRUE
    /\ asking = {} /\ last = 0 /\ locks = {} /\ sentinel = 0
    /\ denied = FALSE /\ crowded = FALSE

WakeNext ==
    \/ EnterSteps \/ LeaveSteps \/ Hide \/ Show \/ TakenBack
    \/ \E q \in asking : Granted(q) \/ Denied(q)

WakeSpec == WakeInit /\ [][WakeNext]_wakeVars

(***************************************************************************)
(* Properties.                                                             *)
(***************************************************************************)
\* No page is left with the screen held on, also when the lock was granted after the page had
\* gone.  (Two requests that overlap may both be granted; the ref has room for one, and
\* the other lock stays until the tab is hidden.)
NoLockOutlivesThePage == ~awake /\ ~crowded => locks = {}

\* While the steps are on the screen and no request is open, the screen is held on, also
\* after other tabs and the lock screen have been looked at.
ScreenStaysOn ==
    awake /\ visible /\ ~denied /\ asking = {} => sentinel \in locks
=============================================================================
