------------------------------ MODULE Polling -------------------------------
(***************************************************************************)
(* frontend/src/hooks/usePolling.ts: every page polls its data, refreshes  *)
(* it after a command and when the tab becomes visible, and starts over    *)
(* when it is given another target.  Answers arrive in any order.          *)
(*                                                                         *)
(* The steps are the turns of the browser's event loop.  A render that     *)
(* brings new deps is committed in one turn and its effect runs in a later *)
(* one, before any other render.                                           *)
(***************************************************************************)
EXTENDS Integers

CONSTANTS
    Target,     \* what can be looked at
    NoTarget,   \* the deps of an effect that has not run yet
    NoData,     \* `data` is null
    Unread,     \* the answer of a request the server has not looked at yet
    MaxVersion, \* bound: changes to one target on the server
    MaxRequest  \* bound: requests the hook starts

ASSUME PollingAssumption ==
    /\ NoTarget \notin Target
    /\ MaxVersion \in Nat /\ MaxRequest \in Nat
    /\ Unread \notin Nat
    /\ NoData \notin [target : Target, version : Nat]

VARIABLES
    version,   \* version[t]: the number of changes to t on the server
    fetcher,   \* the target of the committed render (fetcherRef)
    effect,    \* the deps the effect last ran with
    latest,    \* latestRequestId
    inflight,  \* the requests without an answer
    view,      \* data
    error,
    loading

vars == <<version, fetcher, effect, latest, inflight, view, error, loading>>

Request == [id : 1..MaxRequest, target : Target, snapshot : (0..MaxVersion) \cup {Unread}]

\* Someone changes what t shows: a reading, a command, another client.
ServerChanges(t) ==
    /\ version[t] < MaxVersion
    /\ version' = [version EXCEPT ![t] = @ + 1]
    /\ UNCHANGED <<fetcher, effect, latest, inflight, view, error, loading>>

\* Fault: requests are not told apart.
FaultSameId == IF latest = 0 THEN 1 ELSE latest

NextRequestId == latest + 1

\* The first half of refresh(): the request is numbered and sent.
StartRequest ==
    /\ latest < MaxRequest
    /\ latest' = NextRequestId
    /\ inflight' = inflight \cup
          {[id |-> NextRequestId, target |-> fetcher, snapshot |-> Unread]}

Render(t) ==
    /\ effect = fetcher
    /\ fetcher' = t
    /\ UNCHANGED <<version, effect, latest, inflight, view, error, loading>>

\* Fault: the effect restarts the interval and leaves the first request to it.
FaultNoRefreshInEffect ==
    /\ effect # fetcher
    /\ effect' = fetcher
    /\ UNCHANGED <<version, fetcher, latest, inflight, view, error, loading>>

\* The effect runs on mount and for new deps.  What it shows stays until an answer
\* comes; only `loading` says that it is not what was asked for.
RunEffect ==
    /\ effect # fetcher
    /\ effect' = fetcher
    /\ loading' = TRUE
    /\ StartRequest
    /\ UNCHANGED <<version, fetcher, view, error>>

\* The interval, the visibility listener, or the page after a command.
Refresh ==
    /\ effect # NoTarget
    /\ StartRequest
    /\ UNCHANGED <<version, fetcher, effect, view, error, loading>>

ServerReads(r) ==
    /\ r.snapshot = Unread
    /\ inflight' = (inflight \ {r}) \cup {[r EXCEPT !.snapshot = version[r.target]]}
    /\ UNCHANGED <<version, fetcher, effect, latest, view, error, loading>>

\* Fault: whatever arrives is shown.
FaultEveryAnswer(r) == TRUE

\* Only the request started last may write the state.
MayWrite(r) == r.id = latest

Responds(r) ==
    /\ r.snapshot # Unread
    /\ inflight' = inflight \ {r}
    /\ IF MayWrite(r)
       THEN /\ view' = [target |-> r.target, version |-> r.snapshot]
            /\ error' = FALSE
            /\ loading' = FALSE
       ELSE UNCHANGED <<view, error, loading>>
    /\ UNCHANGED <<version, fetcher, effect, latest>>

\* A failure keeps the data there is.
Fails(r) ==
    /\ inflight' = inflight \ {r}
    /\ IF MayWrite(r) THEN error' = TRUE /\ loading' = FALSE
       ELSE UNCHANGED <<error, loading>>
    /\ UNCHANGED <<version, fetcher, effect, latest, view>>

Init ==
    /\ version = [t \in Target |-> 0]
    /\ fetcher \in Target
    /\ effect = NoTarget
    /\ latest = 0
    /\ inflight = {}
    /\ view = NoData
    /\ error = FALSE
    /\ loading = TRUE

Next ==
    \/ \E t \in Target : ServerChanges(t) \/ Render(t)
    \/ RunEffect
    \/ Refresh
    \/ \E r \in inflight : ServerReads(r) \/ Responds(r) \/ Fails(r)

Spec == Init /\ [][Next]_vars

(***************************************************************************)
(* Properties.                                                             *)
(***************************************************************************)
\* Types; no two requests in flight have the same number, and none has one that
\* was not handed out.
TypeOK ==
    /\ version \in [Target -> 0..MaxVersion]
    /\ fetcher \in Target
    /\ effect \in Target \cup {NoTarget}
    /\ latest \in 0..MaxRequest
    /\ inflight \subseteq Request
    /\ \A r \in inflight : r.id <= latest
    /\ \A r, s \in inflight : r.id = s.id => r = s
    /\ view \in [target : Target, version : 0..MaxVersion] \cup {NoData}
    /\ error \in BOOLEAN
    /\ loading \in BOOLEAN

\* The hook implements a view that never goes back: however polls, refreshes after
\* commands and answers overlap, no answer overwrites a newer one.
View == INSTANCE MonotonicView
ViewSpec == View!Spec

\* What is shown as loaded without an error belongs to the current target: an
\* answer for the target before it is never taken for it.  (After an error the old
\* data is still there, and only `error` tells.)
LoadedDataIsOfTheTarget ==
    effect = fetcher /\ ~loading /\ ~error /\ view # NoData => view.target = fetcher
=============================================================================
