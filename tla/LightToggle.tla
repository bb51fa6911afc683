----------------------------- MODULE LightToggle -----------------------------
(***************************************************************************)
(* The switch of one light on the room page (LightStatCard of              *)
(* frontend/src/modules/home/components/RoomStatCards.tsx) and the round   *)
(* trip behind it: the command through the backend to the light, its       *)
(* report through the MQTT thread into the `state` column, and the column  *)
(* through usePolling back to the page.                                    *)
(*                                                                         *)
(* Polling supplies the page's requests.  The column changes with every    *)
(* change Polling counts, so its value is the parity of the count.         *)
(***************************************************************************)
EXTENDS Polling, Sequences

CONSTANTS
    Lamp,        \* the only target
    NoIntent,    \* `optimisticOn` is null
    Ready,       \* the switch is not `sending`
    MaxToggles,  \* bound: clicks on the switch
    MaxOthers,   \* bound: switches made by someone else, at the wall or by a rule
    MaxFaults    \* bound: failed requests, missed commands, lost reports

ASSUME LightAssumption ==
    /\ Target = {Lamp}
    /\ NoIntent \notin BOOLEAN /\ Ready \notin [step : {"posting"}, on : BOOLEAN]
    /\ MaxToggles \in Nat /\ MaxOthers \in Nat /\ MaxFaults \in Nat

VARIABLES
    light,       \* the light itself is on
    commands,    \* commands on their way to the light
    reports,     \* reports of the light on their way to the backend
    optimistic,  \* optimisticOn
    sending,     \* where handleToggle stands
    toggles, others, faults,
    wanted,      \* ghost: what the last click asked for
    atRest,      \* ghost: nothing was on its way at the last click, and nobody
                 \*   else has switched the light since
    excuses      \* ghost: what has happened since the last click that may leave
                 \*   the switch wrong: "lost", a command or a report was lost;
                 \*   "overtaken", someone else switched the light while the
                 \*   click was on its way; "left over", someone else switched it
                 \*   when the click had arrived and its intent was still there

pollingVars == vars
worldVars == <<light, commands, reports>>
pageVars == <<optimistic, sending>>
counters == <<toggles, others, faults>>
ghosts == <<wanted, atRest, excuses>>
lightVars == <<pollingVars, worldVars, pageVars, counters, ghosts>>

\* The `state` column is ON; the snapshot the page holds says ON.
RowOn == version[Lamp] % 2 = 1
ViewOn == view.version % 2 = 1

\* isOn: the intent, or else what was reported.
Shown == IF optimistic # NoIntent THEN optimistic ELSE ViewOn

InStep(step) == sending # Ready /\ sending.step = step

\* One more failure within the bound.
Failure == faults < MaxFaults /\ faults' = faults + 1
Loss == excuses' = excuses \cup {"lost"}

\* Everything has arrived, and the page is up to date.
Quiescent ==
    /\ commands = <<>> /\ reports = <<>> /\ sending = Ready
    /\ view # NoData /\ view.version = version[Lamp]

(***************************************************************************)
(* The switch.                                                             *)
(***************************************************************************)
\* handleToggle up to its first await.  The switch is disabled while it is sending.
Toggle ==
    /\ toggles < MaxToggles
    /\ view # NoData
    /\ sending = Ready
    /\ optimistic' = ~Shown
    /\ sending' = [step |-> "posting", on |-> ~Shown]
    /\ toggles' = toggles + 1
    /\ wanted' = ~Shown
    /\ atRest' = (commands = <<>> /\ reports = <<>> /\ view.version = version[Lamp])
    /\ excuses' = {}
    /\ UNCHANGED <<pollingVars, worldVars, others, faults>>

\* Fault: the payload is computed from what was shown before the click.
FaultPayload(sent) == ~sent.on

\* Fault: the payload is the intent of the last render, null for a first click.
FaultPayloadOfLastRender(sent) == NoIntent

\* The state the request asks for.
PayloadOf(sent) == sent.on

\* send_command: the light is available and the command is published.
SendCommand ==
    /\ InStep("posting")
    /\ commands' = Append(commands, PayloadOf(sending))
    /\ sending' = [sending EXCEPT !.step = "handled"]
    /\ UNCHANGED <<pollingVars, light, reports, optimistic, counters, ghosts>>

\* The answer starts `await onRefresh()`.
CommandAccepted ==
    /\ InStep("handled")
    /\ Refresh
    /\ sending' = [step |-> "refreshing", id |-> latest']
    /\ UNCHANGED <<worldVars, optimistic, counters, ghosts>>

\* The request is refused (the light is unavailable, the backend is down) or its
\* answer is lost: `finally` enables the switch, and the intent stays.
CommandFails ==
    /\ Failure
    /\ InStep("posting") \/ InStep("handled")
    /\ sending' = Ready
    /\ IF InStep("posting") THEN Loss ELSE UNCHANGED excuses
    /\ UNCHANGED <<pollingVars, worldVars, optimistic, toggles, others, wanted, atRest>>

(***************************************************************************)
(* The page's requests.                                                    *)
(***************************************************************************)
Mount ==
    /\ RunEffect
    /\ UNCHANGED <<worldVars, pageVars, counters, ghosts>>

\* The interval; the bound on requests leaves one for every click.
Poll ==
    /\ LET posting == IF InStep("posting") \/ InStep("handled") THEN 1 ELSE 0
       IN  latest + 1 + (MaxToggles - toggles) + posting <= MaxRequest
    /\ Refresh
    /\ UNCHANGED <<worldVars, pageVars, counters, ghosts>>

BackendReads(r) ==
    /\ ServerReads(r)
    /\ UNCHANGED <<worldVars, pageVars, counters, ghosts>>

\* Fault: any answer clears the intent.
FaultAnyAnswerClears == NoIntent

\* The effect on [device.state]: a report that changes the state clears the intent
\* it confirms, and no other.
Settled ==
    IF view # NoData /\ ViewOn' # ViewOn /\ optimistic = ViewOn' THEN NoIntent
    ELSE optimistic

\* Fault: a refresh that is overtaken never ends for the one who waits for it.
FaultOvertakenNeverEnds(r) ==
    IF InStep("refreshing") /\ sending.id = r.id /\ MayWrite(r) THEN Ready ELSE sending

\* `await onRefresh()` ends with the request it started, shown or not.
AfterRefresh(r) == IF InStep("refreshing") /\ sending.id = r.id THEN Ready ELSE sending

AnswerArrives(r) ==
    /\ Responds(r)
    /\ optimistic' = IF MayWrite(r) THEN Settled ELSE optimistic
    /\ sending' = AfterRefresh(r)
    /\ UNCHANGED <<worldVars, counters, ghosts>>

RequestFails(r) ==
    /\ Failure
    /\ Fails(r)
    /\ sending' = AfterRefresh(r)
    /\ UNCHANGED <<worldVars, optimistic, toggles, others, ghosts>>

(***************************************************************************)
(* The light and its reports.                                              *)
(***************************************************************************)
LightObeys ==
    /\ commands # <<>>
    /\ light' = Head(commands)
    /\ commands' = Tail(commands)
    /\ reports' = Append(reports, light')
    /\ UNCHANGED <<pollingVars, pageVars, counters, ghosts>>

LightMisses ==
    /\ Failure
    /\ commands # <<>>
    /\ commands' = Tail(commands)
    /\ Loss
    /\ UNCHANGED <<pollingVars, light, reports, pageVars, toggles, others, wanted, atRest>>

SomeoneSwitches ==
    /\ others < MaxOthers
    /\ others' = others + 1
    /\ light' = ~light
    /\ reports' = Append(reports, light')
    /\ atRest' = FALSE
    /\ excuses' = IF optimistic = NoIntent THEN excuses
                  ELSE excuses \cup {IF Quiescent THEN "left over" ELSE "overtaken"}
    /\ UNCHANGED <<pollingVars, commands, pageVars, toggles, faults, wanted>>

\* update_state, one report after the other.
ConsumeReport ==
    /\ reports # <<>>
    /\ reports' = Tail(reports)
    /\ IF Head(reports) # RowOn THEN ServerChanges(Lamp) ELSE UNCHANGED pollingVars
    /\ UNCHANGED <<light, commands, pageVars, counters, ghosts>>

\* A report is QoS 0 and may be lost; a failed update is only logged.
ReportLost ==
    /\ Failure
    /\ reports # <<>>
    /\ reports' = Tail(reports)
    /\ Loss
    /\ UNCHANGED <<pollingVars, light, commands, pageVars, toggles, others, wanted, atRest>>

LightInit ==
    /\ Init
    /\ light = FALSE
    /\ commands = <<>> /\ reports = <<>>
    /\ optimistic = NoIntent
    /\ sending = Ready
    /\ toggles = 0 /\ others = 0 /\ faults = 0
    /\ wanted = FALSE
    /\ atRest = FALSE
    /\ excuses = {}

LightNext ==
    \/ Toggle
    \/ SendCommand
    \/ CommandAccepted
    \/ CommandFails
    \/ Mount
    \/ Poll
    \/ \E r \in inflight : BackendReads(r) \/ AnswerArrives(r) \/ RequestFails(r)
    \/ LightObeys
    \/ LightMisses
    \/ SomeoneSwitches
    \/ ConsumeReport
    \/ ReportLost

\* The browser ends every request it has started, with an answer or an error.
Ends(id) ==
    \E r \in inflight : r.id = id /\ (BackendReads(r) \/ AnswerArrives(r) \/ RequestFails(r))

Fairness ==
    /\ WF_lightVars(SendCommand \/ CommandAccepted \/ CommandFails)
    /\ \A id \in 1..MaxRequest : WF_lightVars(Ends(id))

LightSpec == LightInit /\ [][LightNext]_lightVars /\ Fairness

(***************************************************************************)
(* Properties.                                                             *)
(***************************************************************************)
\* Types of the round trip; an intent exists only on a card that is shown, and the
\* refresh a click waits for has been started.
LightTypeOK ==
    /\ TypeOK
    /\ light \in BOOLEAN
    /\ commands \in Seq(BOOLEAN)
    /\ reports \in Seq(BOOLEAN)
    /\ optimistic \in BOOLEAN \cup {NoIntent}
    /\ \/ sending = Ready
       \/ sending \in [step : {"posting", "handled"}, on : BOOLEAN]
       \/ sending \in [step : {"refreshing"}, id : 1..latest]
    /\ optimistic # NoIntent => view # NoData

\* When everything has arrived and the page is up to date, the switch shows what
\* the light does, however clicks, polls, reports and other people's switches
\* overlapped.  The exceptions, each since the last click: a command or a report was
\* lost; the card still holds the intent of that click, and somebody else switched
\* the light while the click was on its way; or he did so after it had arrived,
\* with the intent left over because the page had seen no change of state (the row
\* went there and back between two polls, or the click before was lost), so that
\* the effect on [device.state] which would have cleared the intent never ran.
SwitchAgreesWhenQuiet ==
    Quiescent =>
        \/ Shown = light
        \/ "lost" \in excuses
        \/ optimistic # NoIntent /\ excuses # {}

\* The promise of the comment in LightStatCard, for a click made when nothing else
\* is on its way: the switch shows what the click asked for from then on; neither
\* snapshots from before the command nor failures turn it back, until somebody
\* switches again.
LoneClickIsKept == atRest => Shown = wanted

\* The switch never stays disabled, even when the refresh it waits for is
\* overtaken by a poll.
SwitchComesBack == sending # Ready ~> sending = Ready

\* The comment for any click (RoomStatCards.tsx: "an unconfirmed or contradicting
\* update must not clobber a pending intent"): as long as the command of the last
\* click has not reached the light, the switch shows what the click asked for.
LastCommandOnItsWay == InStep("posting") \/ (commands # <<>> /\ faults = 0)
PendingIntentIsKept == LastCommandOnItsWay => Shown = wanted
=============================================================================
