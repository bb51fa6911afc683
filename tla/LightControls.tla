--------------------------- MODULE LightControls ----------------------------
(***************************************************************************)
(* The sliders and the colour wheel of one light (LightControls.tsx and    *)
(* ColorWheel.tsx of frontend/src/modules/devices/components), the         *)
(* commands they send and the polled device they follow.                   *)
(*                                                                         *)
(* A control is the set of the attributes it commits: {brightness},        *)
(* {colorTemp}, {hue, saturation}.  What the page polls never goes back    *)
(* (Polling, ViewIsMonotonic), so a poll shows the light as it is, and a    *)
(* command on its way stands for every delay in between.  Each command is  *)
(* a request of its own that nobody waits for, on a thread of its own in   *)
(* the backend: a later one may reach the light first.                     *)
(***************************************************************************)
EXTENDS Integers, SequencesExt

CONSTANTS
    Attribute, Value,
    Control,      \* the controls the light offers, sets of attributes
    ColorTemp,    \* the slider the colour tab hides
    Wheel,        \* the colour wheel
    Unknown,      \* the device has never reported the attribute; nothing sent yet
    Default,      \* what a control shows of an unknown attribute
    MaxGestures,  \* bound: gestures on the controls
    MaxOthers,    \* bound: changes made by somebody else
    MaxFaults     \* bound: gestures that never end, commands that are lost

ASSUME ControlAssumption ==
    /\ Control \subseteq SUBSET Attribute
    /\ \A c, d \in Control \cup {Wheel} : c # d => c \cap d = {}
    /\ Wheel # ColorTemp
    /\ Unknown \notin Value /\ Default \in Value
    /\ MaxGestures \in Nat /\ MaxOthers \in Nat /\ MaxFaults \in Nat

VARIABLES
    light, lit,        \* the light: its attributes, whether it is on
    commands,          \* commands on their way to it, in the order they were sent
    device, on,        \* the same as the page last polled them
    shown,             \* brightness, colorTemp, hue, saturation
    lastSent,          \* the lastSent...Ref
    dragging,          \* draggingRef, shared by all the controls
    tab,
    local,             \* localHue, localSaturation of the wheel
    held,              \* the controls a finger, the mouse or a key is on
    gestures, others, faults,
    wanted,            \* ghost: what the last gesture asked for, Unknown when it
                       \*   was overtaken by anything else
    crossed,           \* ghost: one held control was committed while another was held
    excused            \* ghost: the attributes whose display may differ from the light

worldVars == <<light, lit, commands>>
polledVars == <<device, on>>
panelVars == <<shown, lastSent, dragging, tab, local, held>>
counters == <<gestures, others, faults>>
ghosts == <<wanted, crossed, excused>>
vars == <<worldVars, polledVars, panelVars, counters, ghosts>>

SupportsColor == Wheel \in Control

\* f with the values v, a function on some of the attributes.
Set(f, v) == [a \in Attribute |-> IF a \in DOMAIN v THEN v[a] ELSE f[a]]

NothingWanted == [a \in Attribute |-> Unknown]

\* The tabs of a colour light: the wheel replaces the slider of the white tones.
Visible(c) ==
    /\ c = Wheel => tab = "color"
    /\ c = ColorTemp => ~SupportsColor \/ tab = "white"

Enabled(c) == Visible(c) /\ on

\* What the page shows of an attribute.
Displayed(a) == IF a \in Wheel /\ Visible(Wheel) THEN local[a] ELSE shown[a]

Count == gestures < MaxGestures /\ gestures' = gestures + 1
Fault == faults < MaxFaults /\ faults' = faults + 1

Init ==
    /\ light \in [Attribute -> Value \cup {Unknown}]
    /\ lit \in BOOLEAN
    /\ commands = <<>>
    /\ device = light /\ on = lit
    /\ shown = [a \in Attribute |-> IF light[a] = Unknown THEN Default ELSE light[a]]
    /\ lastSent = [a \in Attribute |-> Unknown]
    /\ dragging = FALSE
    /\ tab \in {"white", "color"}
    /\ local = shown
    /\ held = {}
    /\ gestures = 0 /\ others = 0 /\ faults = 0
    /\ wanted = NothingWanted
    /\ crossed = FALSE
    /\ excused = {}

(***************************************************************************)
(* Gestures.                                                               *)
(***************************************************************************)
\* beginGesture: pointerdown or keydown on a slider.
Take(c) ==
    /\ c \in Control \ ({Wheel} \cup held)
    /\ Enabled(c)
    /\ Count
    /\ held' = held \cup {c}
    /\ dragging' = TRUE
    /\ wanted' = Set(wanted, [a \in c |-> Unknown])
    /\ UNCHANGED <<worldVars, polledVars, shown, lastSent, tab, local, others, faults,
                   crossed, excused>>

\* onChange of a slider.
Slide(c, v) ==
    /\ c \in held \ {Wheel}
    /\ Enabled(c)
    /\ shown' = Set(shown, v)
    /\ UNCHANGED <<worldVars, polledVars, lastSent, dragging, tab, local, held, counters, ghosts>>

\* Fault: the command carries what was sent the last time.
FaultSendsTheLast(v) ==
    /\ dragging' = FALSE
    /\ lastSent' = Set(lastSent, v)
    /\ commands' = Append(commands, [a \in DOMAIN v |-> lastSent[a]])

\* commitBrightness, commitColorTemp, commitColor.
Commit(v) ==
    /\ dragging' = FALSE
    /\ lastSent' = Set(lastSent, v)
    /\ commands' = Append(commands, v)

\* What a commit means for the ghosts: alone if nothing is on its way.
Committed(v) ==
    /\ wanted' = IF commands = <<>> /\ device = light THEN Set(NothingWanted, v)
                 ELSE NothingWanted
    /\ crossed' = (held' # {})

\* Gestures end without a commit: draggingRef stays as it is.
Abandoned(cs) ==
    /\ held' = held \ cs
    /\ crossed' = (crossed /\ held' # {})
    /\ excused' = excused \cup UNION cs

\* mouseup, touchend or keyup on a slider.  One may come without the other half: the
\* mouseup a browser sends after a touch, the keyup of the Tab key that moved the focus.
Release(c) ==
    /\ c \in Control \ {Wheel}
    /\ Enabled(c)
    /\ IF c \in held THEN UNCHANGED gestures ELSE Count
    /\ held' = held \ {c}
    /\ LET v == [a \in c |-> shown[a]] IN Commit(v) /\ Committed(v)
    /\ UNCHANGED <<light, lit, polledVars, shown, tab, local, others, faults, excused>>

\* A gesture ends with none of these events: a cancelled touch, a key released
\* elsewhere, a slider that was disabled under the finger.
GestureLost(c) ==
    /\ c \in held \ {Wheel}
    /\ Fault
    /\ Abandoned({c})
    /\ UNCHANGED <<worldVars, polledVars, shown, lastSent, dragging, tab, local, gestures,
                   others, wanted>>

\* handlePointerDown and handlePointerMove of the wheel, with onChange of the panel.
WheelMove(v) ==
    /\ Wheel \in Control
    /\ IF Wheel \in held THEN UNCHANGED gestures ELSE Enabled(Wheel) /\ Count
    /\ held' = held \cup {Wheel}
    /\ local' = Set(local, v)
    /\ shown' = Set(shown, v)
    /\ dragging' = TRUE
    /\ wanted' = Set(wanted, [a \in Wheel |-> Unknown])
    /\ UNCHANGED <<worldVars, polledVars, lastSent, tab, others, faults, crossed, excused>>

\* handlePointerUp: the position of the last event is committed, but the panel is
\* not told of it.
WheelUp(v) ==
    /\ Wheel \in held
    /\ held' = held \ {Wheel}
    /\ local' = Set(local, v)
    /\ Commit(v) /\ Committed(v)
    /\ excused' = excused \cup {a \in Wheel : shown[a] # v[a]}
    /\ UNCHANGED <<light, lit, polledVars, shown, tab, counters>>

\* handleKeyDown: onChange and onCommit in one event.
WheelKey(v) ==
    /\ Wheel \in Control
    /\ Enabled(Wheel)
    /\ Count
    /\ local' = Set(local, v)
    /\ shown' = Set(shown, v)
    /\ UNCHANGED held
    /\ Commit(v) /\ Committed(v)
    /\ UNCHANGED <<light, lit, polledVars, tab, others, faults, excused>>

\* setTab: the wheel is mounted and unmounted with its tab, with whatever gesture is on it.
SetTab(t) ==
    /\ SupportsColor
    /\ tab # t
    /\ tab' = t
    /\ local' = shown
    /\ Abandoned(held \cap {Wheel, ColorTemp})
    /\ wanted' = [a \in Attribute |-> IF shown[a] = wanted[a] THEN wanted[a] ELSE Unknown]
    /\ UNCHANGED <<worldVars, polledVars, shown, lastSent, dragging, counters>>

(***************************************************************************)
(* The poll and the light.                                                 *)
(***************************************************************************)
\* Fault: a gesture does not keep the poll out.
FaultResyncInGesture(a) ==
    /\ light[a] # device[a]
    /\ light[a] \notin {Unknown, lastSent[a]}

\* Fault: the first gesture turns following off for good.
FaultResyncOnce(a) ==
    /\ ~dragging
    /\ light[a] # device[a]
    /\ light[a] # Unknown
    /\ lastSent[a] = Unknown

\* The effects on [device.brightness] and so on run when the value changes.
Resyncs(a) ==
    /\ ~dragging
    /\ light[a] # device[a]
    /\ light[a] \notin {Unknown, lastSent[a]}

Poll ==
    /\ <<device, on>> # <<light, lit>>
    /\ device' = light
    /\ on' = lit
    /\ shown' = [a \in Attribute |-> IF Resyncs(a) THEN light[a] ELSE shown[a]]
    /\ local' = [a \in Attribute |->
          IF Wheel \notin held /\ shown'[a] # shown[a] THEN shown'[a] ELSE local[a]]
    /\ excused' = {a \in Attribute :
          IF light[a] = device[a] THEN a \in excused
          ELSE \/ shown[a] # light[a] /\ (dragging \/ light[a] = lastSent[a])
               \/ a \in Wheel /\ local'[a] # shown'[a]}
    /\ UNCHANGED <<worldVars, lastSent, dragging, tab, held, counters, wanted, crossed>>

\* The attributes command i sets before an older command that sets them too.
Overtaken(i) == {a \in DOMAIN commands[i] : \E j \in 1..(i - 1) : a \in DOMAIN commands[j]}

\* Any command may be the next to be served.
LightObeys(i) ==
    /\ light' = Set(light, commands[i])
    /\ commands' = RemoveAt(commands, i)
    /\ excused' = excused \cup Overtaken(i)
    /\ UNCHANGED <<lit, polledVars, panelVars, counters, wanted, crossed>>

\* sendCommand is not awaited and its failure not noticed.
CommandLost(i) ==
    /\ Fault
    /\ commands' = RemoveAt(commands, i)
    /\ excused' = excused \cup DOMAIN commands[i]
    /\ wanted' = NothingWanted
    /\ UNCHANGED <<light, lit, polledVars, panelVars, gestures, others, crossed>>

SomeoneChanges(a, v) ==
    /\ others < MaxOthers
    /\ others' = others + 1
    /\ light' = [light EXCEPT ![a] = v]
    /\ excused' = excused \cup {a}
    /\ wanted' = NothingWanted
    /\ UNCHANGED <<lit, commands, polledVars, panelVars, gestures, faults, crossed>>

SomeoneSwitches ==
    /\ others < MaxOthers
    /\ others' = others + 1
    /\ lit' = ~lit
    /\ UNCHANGED <<light, commands, polledVars, panelVars, gestures, faults, ghosts>>

Next ==
    \/ \E c \in Control :
          \/ Take(c) \/ Release(c) \/ GestureLost(c)
          \/ \E v \in [c -> Value] : Slide(c, v)
    \/ \E v \in [Wheel -> Value] : WheelMove(v) \/ WheelUp(v) \/ WheelKey(v)
    \/ \E t \in {"white", "color"} : SetTab(t)
    \/ Poll \/ SomeoneSwitches
    \/ \E i \in DOMAIN commands : LightObeys(i) \/ CommandLost(i)
    \/ \E a \in Attribute, v \in Value : SomeoneChanges(a, v)

Spec == Init /\ [][Next]_vars

(***************************************************************************)
(* Properties.                                                             *)
(***************************************************************************)
Command == UNION {[c -> Value] : c \in Control}

\* The values have their types; an excuse is about an attribute.
ControlsTypeOK ==
    /\ light \in [Attribute -> Value \cup {Unknown}]
    /\ device \in [Attribute -> Value \cup {Unknown}]
    /\ lit \in BOOLEAN /\ on \in BOOLEAN /\ dragging \in BOOLEAN /\ crossed \in BOOLEAN
    /\ commands \in Seq(Command)
    /\ shown \in [Attribute -> Value]
    /\ local \in [Attribute -> Value]
    /\ lastSent \in [Attribute -> Value \cup {Unknown}]
    /\ wanted \in [Attribute -> Value \cup {Unknown}]
    /\ tab \in {"white", "color"}
    /\ held \subseteq Control
    /\ excused \subseteq Attribute
    /\ gestures \in 0..MaxGestures /\ others \in 0..MaxOthers /\ faults \in 0..MaxFaults

\* A gesture made while nothing was on its way is not turned back: until the next
\* gesture, and unless somebody else changes the light or a command is lost, the control
\* keeps showing what it asked for, whatever stale polls come in between ("committing
\* never causes an immediate resync", LightControls.tsx:40).
LoneGestureIsKept ==
    \A a \in Attribute : wanted[a] # Unknown => Displayed(a) = wanted[a]

\* A poll never moves a control under the finger, unless another control was committed
\* meanwhile (draggingRef is one flag for all of them).
PollLeavesHeldControls ==
    [][<<device, on>>' # <<device, on>> /\ ~crossed =>
          \A c \in held : \A a \in c : Displayed(a)' = Displayed(a)]_vars

Quiet == commands = <<>> /\ device = light /\ held = {} /\ ~dragging

\* Once everything has arrived, a control shows what the light has, except for the known
\* causes, each for the attribute it is about and until a poll has shown another value of it:
\* the change was polled during a gesture, it looked like the echo of a command, a command or
\* gesture was lost, the wheel was let go elsewhere than it was last moved, somebody changed
\* the light and back between two polls, or a command reached the light before an older one
\* for the same attribute, which then undid it.
ControlsAgreeWhenQuiet ==
    Quiet => \A a \in Attribute \ excused :
        device[a] = Unknown \/ Displayed(a) = device[a]

\* A polled value that "merely confirms the command we ourselves last sent"
\* (LightControls.tsx:42) is what the control shows already.
EchoConfirmsWhatIsShown ==
    Quiet => \A a \in Attribute :
        device[a] # Unknown /\ device[a] = lastSent[a] => shown[a] = device[a]
=============================================================================
