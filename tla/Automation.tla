----------------------------- MODULE Automation -----------------------------
(***************************************************************************)
(* The rules of app/automation on their two threads: door-opened-lights    *)
(* runs on the MQTT thread, at the end of consume_telemetry and behind     *)
(* the event bus; night-mode runs on the thread of the scheduler.  Rules   *)
(* know devices by the names they are configured with.                     *)
(*                                                                         *)
(* Sensors, lights, broker and Zigbee2MQTT are external.  A sensor         *)
(* reports each change and repeats its report whenever it likes.           *)
(* temperature-alert only logs and is left out, and so are rules that are  *)
(* switched off in the settings, which are read once.                      *)
(***************************************************************************)
EXTENDS Integers, Sequences, SequencesExt

CONSTANTS
    Sensor,       \* contact sensors; one at a time is called settings.door_sensor
    DoorLights,   \* settings.door_opened_lights.lights, a sequence
    NightLights,  \* settings.night_mode.lights, a sequence
    NoReport,     \* the MQTT thread has no reading in hand
    MaxOpenings,  \* bound: doors opened
    MaxHandovers, \* bound: times the name passes to another sensor
    MaxNights,    \* bound: runs of the schedule
    MaxFaults,    \* bound: losses, failures and restarts
    MaxComing     \* bound: reports on their way

Light == ToSet(DoorLights) \cup ToSet(NightLights)

ASSUME AutomationAssumption ==
    /\ DoorLights \in Seq(ToSet(DoorLights)) /\ IsInjective(DoorLights)
    /\ NightLights \in Seq(ToSet(NightLights)) /\ IsInjective(NightLights)
    /\ NoReport \notin [sensor : Sensor, closed : BOOLEAN]
    /\ {MaxOpenings, MaxHandovers, MaxNights, MaxFaults, MaxComing} \subseteq Nat

VARIABLES
    closed,     \* closed[s]: the contact of s, as it is
    named,      \* the sensor whose label is settings.door_sensor
    coming,     \* reports on their way to the MQTT thread
    reading,    \* the report consume_telemetry has in hand
    ruleName,   \* whether it was resolved to settings.door_sensor
    previous,   \* DoorOpenedLightsRule._previous_state, for settings.door_sensor
    switching,  \* lights on_telemetry_received has still to switch on
    night,      \* lights trigger_night_mode has still to switch off
    outbox,     \* commands on their way
    lit,        \* lit[l]: the light, as it is
    faults, nights,
    \* what the properties remember:
    openings,   \* doors opened
    handovers,  \* times `named` changed
    switched,   \* switched[l]: commands published by the door rule
    due         \* due[l]: what the rules make of l once everything has arrived

roomVars == <<closed, named, openings, handovers>>
ruleVars == <<reading, ruleName, previous, switching, switched>>
automationVars ==
    <<roomVars, ruleVars, coming, night, outbox, lit, faults, nights, due>>

Unclear == [l \in Light |-> "any"]
DoorIdle == coming = <<>> /\ reading = NoReport /\ switching = <<>>

\* The last thing the door rule has been told of the door, or will be.
LastHeard ==
    LET last == SelectLastInSeq(coming, LAMBDA r : r.sensor = named)
    IN IF last # 0 THEN coming[last].closed
       ELSE IF reading # NoReport /\ ruleName THEN reading.closed
       ELSE previous = "closed"

AutomationInit ==
    /\ closed \in [Sensor -> BOOLEAN]
    /\ named \in Sensor
    /\ coming = <<>> /\ reading = NoReport /\ ruleName = FALSE
    /\ previous = "unknown"
    /\ switching = <<>> /\ night = <<>> /\ outbox = <<>>
    /\ lit = [l \in Light |-> FALSE]
    /\ faults = 0 /\ nights = 0 /\ openings = 0 /\ handovers = 0
    /\ switched = [l \in Light |-> 0]
    /\ due = Unclear

SomethingFails == faults < MaxFaults /\ faults' = faults + 1

\* A sensor sends its contact.
Send(s, contact) ==
    /\ Len(coming) < MaxComing
    /\ coming' = Append(coming, [sensor |-> s, closed |-> contact])

DoorOpens(s) ==
    /\ closed[s] /\ openings < MaxOpenings
    /\ closed' = [closed EXCEPT ![s] = FALSE]
    /\ openings' = openings + 1
    /\ Send(s, FALSE)
    /\ due' = IF s # named THEN due
              ELSE [l \in Light |->
                      IF l \notin ToSet(DoorLights) THEN due[l]
                      ELSE IF LastHeard /\ l \notin ToSet(night) THEN "on" ELSE "any"]
    /\ UNCHANGED <<named, handovers, ruleVars, night, outbox, lit, faults, nights>>

DoorCloses(s) ==
    /\ ~closed[s]
    /\ closed' = [closed EXCEPT ![s] = TRUE]
    /\ Send(s, TRUE)
    /\ UNCHANGED <<named, openings, handovers, ruleVars, night, outbox, lit, faults, nights, due>>

SensorRepeats(s) ==
    /\ Send(s, closed[s])
    /\ UNCHANGED <<roomVars, ruleVars, night, outbox, lit, faults, nights, due>>

\* Another sensor gets the name the rule is configured with.
NamePasses(s) ==
    /\ s # named /\ handovers < MaxHandovers
    /\ named' = s
    /\ handovers' = handovers + 1
    /\ due' = Unclear
    /\ UNCHANGED <<closed, openings, ruleVars, coming, night, outbox, lit, faults, nights>>

\* consume_telemetry up to the identity: the event will carry the label of this moment.
TakeReport ==
    /\ reading = NoReport /\ switching = <<>> /\ coming # <<>>
    /\ reading' = Head(coming)
    /\ coming' = Tail(coming)
    /\ ruleName' = (Head(coming).sensor = named)
    /\ UNCHANGED <<roomVars, previous, switching, switched, night, outbox, lit, faults, nights,
                   due>>

\* Fault: a state that is not known counts as closed.
FaultHasOpened(contactClosed) == previous # "open" /\ ~contactClosed

\* Fault: the contact is read the wrong way round.
FaultHasClosed(contactClosed) == previous = "open" /\ contactClosed

\* The edge the rule fires on.
HasOpened(contactClosed) == previous = "closed" /\ ~contactClosed

\* write_telemetry succeeds, the event is published, and DoorOpenedLightsRule.evaluate stores
\* the contact before it switches anything.
Evaluate ==
    /\ reading # NoReport
    /\ reading' = NoReport
    /\ IF ruleName
       THEN /\ previous' = IF reading.closed THEN "closed" ELSE "open"
            /\ switching' = IF HasOpened(reading.closed) THEN DoorLights ELSE <<>>
       ELSE UNCHANGED <<previous, switching>>
    /\ UNCHANGED <<roomVars, ruleName, switched, coming, night, outbox, lit, faults, nights, due>>

\* The write fails: no event, so the rule never sees the contact.
WriteFails ==
    /\ SomethingFails /\ reading # NoReport
    /\ reading' = NoReport
    /\ due' = Unclear
    /\ UNCHANGED <<roomVars, ruleName, previous, switching, switched, coming, night, outbox, lit,
                   nights>>

Command(l, on) == [light |-> l, on |-> on]

\* One turn of the rule's loop.
SwitchOn ==
    /\ switching # <<>>
    /\ outbox' = Append(outbox, Command(Head(switching), TRUE))
    /\ switched' = [switched EXCEPT ![Head(switching)] = @ + 1]
    /\ switching' = Tail(switching)
    /\ UNCHANGED <<roomVars, reading, ruleName, previous, coming, night, lit, faults, nights, due>>

\* The publish raises, which ends the rule: the engine logs it.  The client may keep the
\* message all the same and send it after the reconnect.
SwitchOnFails ==
    /\ SomethingFails /\ switching # <<>>
    /\ \/ /\ outbox' = Append(outbox, Command(Head(switching), TRUE))
          /\ switched' = [switched EXCEPT ![Head(switching)] = @ + 1]
       \/ UNCHANGED <<outbox, switched>>
    /\ switching' = <<>>
    /\ due' = Unclear
    /\ UNCHANGED <<roomVars, reading, ruleName, previous, coming, night, lit, nights>>

\* trigger_night_mode.  What it makes of a light is clear when the door rule has nothing to do
\* and no report that is overdue would make it fire.
Midnight ==
    /\ night = <<>> /\ nights < MaxNights
    /\ nights' = nights + 1
    /\ night' = NightLights
    /\ due' = [l \in Light |->
                 IF l \notin ToSet(NightLights) THEN due[l]
                 ELSE IF l \notin ToSet(DoorLights)
                         \/ (DoorIdle /\ (previous = "closed" => closed[named]))
                      THEN "off" ELSE "any"]
    /\ UNCHANGED <<roomVars, ruleVars, coming, outbox, lit, faults>>

SwitchOff ==
    /\ night # <<>>
    /\ outbox' = Append(outbox, Command(Head(night), FALSE))
    /\ night' = Tail(night)
    /\ UNCHANGED <<roomVars, ruleVars, coming, lit, faults, nights, due>>

SwitchOffFails ==
    /\ SomethingFails /\ night # <<>>
    /\ \/ outbox' = Append(outbox, Command(Head(night), FALSE))
       \/ UNCHANGED outbox
    /\ night' = <<>>
    /\ due' = Unclear
    /\ UNCHANGED <<roomVars, ruleVars, coming, lit, nights>>

LightObeys ==
    /\ outbox # <<>>
    /\ lit' = [lit EXCEPT ![Head(outbox).light] = Head(outbox).on]
    /\ outbox' = Tail(outbox)
    /\ UNCHANGED <<roomVars, ruleVars, coming, night, faults, nights, due>>

\* The light is out of reach, or the name in the settings is no longer its topic.
LightMisses ==
    /\ SomethingFails /\ outbox # <<>>
    /\ outbox' = Tail(outbox)
    /\ due' = Unclear
    /\ UNCHANGED <<roomVars, ruleVars, coming, night, lit, nights>>

\* The connection breaks: reports come with QoS 0.
ReportsLost ==
    /\ SomethingFails /\ coming # <<>>
    /\ coming' = <<>>
    /\ due' = Unclear
    /\ UNCHANGED <<roomVars, ruleVars, night, outbox, lit, nights>>

\* Rules keep what they know in memory.
RestartRules ==
    /\ SomethingFails
    /\ coming' = <<>> /\ reading' = NoReport /\ switching' = <<>> /\ night' = <<>>
    /\ outbox' = <<>>
    /\ previous' = "unknown"
    /\ due' = Unclear
    /\ UNCHANGED <<roomVars, ruleName, switched, lit, nights>>

AutomationNext ==
    \/ \E s \in Sensor : DoorOpens(s) \/ DoorCloses(s) \/ SensorRepeats(s) \/ NamePasses(s)
    \/ TakeReport \/ Evaluate \/ WriteFails
    \/ SwitchOn \/ SwitchOnFails
    \/ Midnight \/ SwitchOff \/ SwitchOffFails
    \/ LightObeys \/ LightMisses \/ ReportsLost \/ RestartRules

AutomationSpec == AutomationInit /\ [][AutomationNext]_automationVars

-----------------------------------------------------------------------------
\* door-opened-lights switches a light on at most once for each time a door is opened, whatever
\* reports are repeated or lost, whatever fails half way and however often the process starts:
\* the contact is stored before the lights are switched, and an unknown one is not closed.  A
\* name that passes to another sensor may cost one more, as the rule compares the two contacts.
LightsComeOnOncePerOpening ==
    \A l \in Light : switched[l] <= openings + handovers

\* Once everything has arrived, the lights of the rules are as the last opening or the last
\* midnight wants them, whatever the two threads did in between, unless something failed, the
\* name passed on, or door and midnight met.  What was missed costs no more than that: the next
\* opening after a report of the closed door switches again.
LightsFollowTheRules ==
    (DoorIdle /\ night = <<>> /\ outbox = <<>>) =>
        \A l \in Light : /\ due[l] = "on" => lit[l]
                         /\ due[l] = "off" => ~lit[l]
=============================================================================
