------------------------------ MODULE Timeline ------------------------------
(***************************************************************************)
(* The timeline of a contact or a switch (frontend/src/modules/devices:    *)
(* lib/contactSegments.ts, api/telemetry.ts, components/ContactTimeline-   *)
(* Card.tsx and ContactTimeline.tsx; ContactStatCard of modules/home/      *)
(* components/RoomStatCards.tsx).  The points come from one request, the   *)
(* badge from another, and the window slides on between the answers.       *)
(***************************************************************************)
EXTENDS Integers, Sequences, FiniteSets

CONSTANTS
    Ranges,   \* the durations of the buttons
    Nobody,   \* no request, no value
    MaxClock  \* bound: instants

ASSUME TimelineAssumption ==
    /\ Ranges \subseteq Nat \ {0} /\ \E r \in Ranges : \A s \in Ranges : s <= r
    /\ MaxClock \in Nat

VARIABLES
    clock,
    reports,     \* the server's history: at most one report [time, on] per instant
    range,
    points,      \* the points the card has
    pointsTo,    \* ghost: the end of the window they were asked for
    asked,       \* the newest request for points
    latestAnswer, \* the newest answer for the badge that is under way
    currentValue \* the report the badge shows

timelineVars == <<clock, reports, range, points, pointsTo, asked, latestAnswer, currentValue>>

\* getRangeBounds
RangeBounds(r) == [from |-> clock - r, to |-> clock]

Earliest(ps) == CHOOSE p \in ps : \A q \in ps : p.time <= q.time
Newest(ps) == CHOOSE p \in ps : \A q \in ps : q.time <= p.time
UpTo(ps, t) == {p \in ps : p.time <= t}

(***************************************************************************)
(* buildStateSegments: the window cut at every change of state.            *)
(***************************************************************************)
\* Fault: points before the window are passed over.
FaultCut(acc, p) ==
    IF p.time <= acc.start \/ p.on = acc.on THEN acc
    ELSE [segments |-> Append(acc.segments, [active |-> acc.on, start |-> acc.start,
                                             end |-> p.time]),
          start |-> p.time, on |-> p.on]

\* A point at or before the start of the segment only tells its state.
Cut(acc, p) ==
    IF p.time <= acc.start THEN [acc EXCEPT !.on = p.on]
    ELSE IF p.on = acc.on THEN acc
    ELSE [segments |-> Append(acc.segments, [active |-> acc.on, start |-> acc.start,
                                             end |-> p.time]),
          start |-> p.time, on |-> p.on]

\* The loop over the points in the order of their times: what it has made of those up to t.
CutUpTo(ps, from) ==
    LET cut[t \in 0..MaxClock] ==
            IF t = 0 THEN [segments |-> <<>>, start |-> from, on |-> Earliest(ps).on]
            ELSE IF \E p \in ps : p.time = t
                 THEN Cut(cut[t - 1], CHOOSE p \in ps : p.time = t)
                 ELSE cut[t - 1]
    IN  cut

BuildStateSegments(ps, from, to) ==
    IF ps = {} THEN <<>>
    ELSE LET cut == CutUpTo(ps, from)[MaxClock]
         IN  Append(cut.segments, [active |-> cut.on, start |-> cut.start, end |-> to])

(***************************************************************************)
(* What the cards show.                                                    *)
(***************************************************************************)
\* The bar of ContactTimelineCard: the window as it is when the card is drawn.
Segments == LET w == RangeBounds(range) IN BuildStateSegments(points, w.from, w.to)

\* `active`: the badge; Nobody for "No data".
Badge ==
    IF currentValue # Nobody THEN currentValue.on
    ELSE IF points # {} THEN Segments[Len(Segments)].active ELSE Nobody

\* Fault: the first opening of the range.
FaultLastOpening ==
    LET segments == BuildStateSegments(points, Earliest(points).time, clock)
        open == {i \in DOMAIN segments : ~segments[i].active}
    IN  IF open = {} THEN Nobody ELSE segments[CHOOSE i \in open : \A j \in open : i <= j].start

\* lastOpenTransition of ContactStatCard: segments from the first point on.
LastOpening ==
    LET segments == BuildStateSegments(points, Earliest(points).time, clock)
        open == {i \in DOMAIN segments : ~segments[i].active}
    IN  IF open = {} THEN Nobody ELSE segments[CHOOSE i \in open : \A j \in open : j <= i].start

(***************************************************************************)
(* Actions.                                                                *)
(***************************************************************************)
\* Time passes; the device may report.
Tick(values) ==
    /\ clock < MaxClock
    /\ clock' = clock + 1
    /\ reports' = reports \cup {[time |-> clock', on |-> v] : v \in values}
    /\ UNCHANGED <<range, points, pointsTo, asked, latestAnswer, currentValue>>

\* getTelemetryHistory, by the poll or because the range is another one.
PollHistory ==
    /\ asked' = RangeBounds(range)
    /\ UNCHANGED <<clock, reports, range, points, pointsTo, latestAnswer, currentValue>>

SetRange(r) ==
    /\ r # range
    /\ range' = r
    /\ asked' = RangeBounds(r)
    /\ UNCHANGED <<clock, reports, points, pointsTo, latestAnswer, currentValue>>

HistoryArrives ==
    /\ asked # Nobody
    /\ points' = {p \in reports : asked.from <= p.time /\ p.time <= asked.to}
    /\ pointsTo' = asked.to
    /\ asked' = Nobody
    /\ UNCHANGED <<clock, reports, range, latestAnswer, currentValue>>

\* The points of before stay.
HistoryFails ==
    /\ asked # Nobody
    /\ asked' = Nobody
    /\ UNCHANGED <<clock, reports, range, points, pointsTo, latestAnswer, currentValue>>

LatestServed ==
    /\ reports # {}
    /\ latestAnswer' = Newest(reports)
    /\ UNCHANGED <<clock, reports, range, points, pointsTo, asked, currentValue>>

LatestArrives ==
    /\ latestAnswer # Nobody
    /\ currentValue' = latestAnswer
    /\ latestAnswer' = Nobody
    /\ UNCHANGED <<clock, reports, range, points, pointsTo, asked>>

TimelineInit ==
    /\ clock = 0 /\ reports = {}
    /\ range = CHOOSE r \in Ranges : \A s \in Ranges : s <= r
    /\ points = {} /\ pointsTo = 0 /\ asked = Nobody
    /\ latestAnswer = Nobody /\ currentValue = Nobody

TimelineNext ==
    \/ \E values \in {{}, {TRUE}, {FALSE}} : Tick(values)
    \/ PollHistory \/ HistoryArrives \/ HistoryFails \/ LatestServed \/ LatestArrives
    \/ \E r \in Ranges : SetRange(r)

TimelineSpec == TimelineInit /\ [][TimelineNext]_timelineVars

(***************************************************************************)
(* Properties.                                                             *)
(***************************************************************************)
\* The bar fills the window without a gap and shows at every instant what the device had
\* reported by then, as far back as its points go and up to the end of the window they were
\* asked for, although the window has moved or become another one since.
TimelineTellsTheHistory ==
    LET s == Segments
        w == RangeBounds(range)
    IN  points # {} =>
            /\ s[1].start = w.from /\ s[Len(s)].end = w.to
            /\ \A i \in 1..(Len(s) - 1) : s[i].start < s[i].end /\ s[i].end = s[i + 1].start
            /\ \A t \in w.from..pointsTo : t >= Earliest(points).time =>
                   \A i \in DOMAIN s : s[i].start <= t /\ (t < s[i].end \/ i = Len(s)) =>
                       s[i].active = Newest(UpTo(reports, t)).on

\* The badge and the end of the bar, which come from different requests, agree once both
\* have seen the newest report.
BadgeAgreesWithBar ==
    points # {} /\ currentValue # Nobody /\ currentValue = Newest(reports)
      /\ currentValue.time <= pointsTo =>
        Badge = Segments[Len(Segments)].active

\* "last opened" is the newest report that found the door open after one that found it
\* closed; where the range begins with an open door, its first report counts.
LastOpeningIsTrue ==
    points # {} =>
        LET openings == {p \in points : ~p.on /\
                            (p = Earliest(points) \/ Newest(UpTo(points, p.time - 1)).on)}
        IN  LastOpening = IF openings = {} THEN Nobody ELSE Newest(openings).time
=============================================================================
