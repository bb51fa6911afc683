------------------------ MODULE LightControlsProofs -------------------------
(***************************************************************************)
(* The controls of a light, for any attributes, values and controls, and   *)
(* any number of gestures, commands, failures and other people's changes.  *)
(***************************************************************************)
EXTENDS LightControls, TLAPS

Known == Value \cup {Unknown}

(***************************************************************************)
(* Types.                                                                  *)
(***************************************************************************)
LEMMA SetType ==
  ASSUME NEW S, NEW f \in [Attribute -> S], NEW c, NEW v \in [c -> S]
  PROVE  /\ Set(f, v) \in [Attribute -> S]
         /\ \A a \in Attribute : Set(f, v)[a] = IF a \in c THEN v[a] ELSE f[a]
  BY DEF Set

\* What a control commits is a command.
LEMMA CommandType ==
  ASSUME NEW c \in Control, NEW v \in [c -> Value]
  PROVE  v \in Command
  BY DEF Command

LEMMA NothingType ==
  /\ NothingWanted \in [Attribute -> Known]
  /\ \A a \in Attribute : NothingWanted[a] = Unknown
  BY DEF NothingWanted, Known

\* What every commit does to the panel, to the commands and to the ghosts.
LEMMA CommitFacts ==
  ASSUME ControlsTypeOK, NEW c \in Control, NEW v \in [c -> Value], Commit(v), Committed(v)
  PROVE  /\ dragging' = FALSE /\ commands' = Append(commands, v) /\ commands' \in Seq(Command)
         /\ lastSent' \in [Attribute -> Known] /\ wanted' \in [Attribute -> Known]
         /\ \A a \in Attribute : lastSent'[a] = IF a \in c THEN v[a] ELSE lastSent[a]
         /\ crossed' = (held' # {}) /\ crossed' \in BOOLEAN
         /\ \A a \in Attribute : wanted'[a] # Unknown =>
               a \in c /\ wanted'[a] = v[a] /\ commands = <<>> /\ device = light
<1>1. v \in [c -> Known] /\ v \in Command
  BY CommandType DEF Known
<1>2. lastSent \in [Attribute -> Known]
  BY DEF ControlsTypeOK, Known
<1>3. /\ lastSent' \in [Attribute -> Known]
      /\ \A a \in Attribute : lastSent'[a] = IF a \in c THEN v[a] ELSE lastSent[a]
  <2>1. lastSent' = Set(lastSent, v)
    BY DEF Commit
  <2>2. QED
    BY <1>1, <1>2, <2>1, SetType
<1>4. commands' \in Seq(Command)
  BY <1>1 DEF Commit, ControlsTypeOK
<1>5. /\ Set(NothingWanted, v) \in [Attribute -> Known]
      /\ \A a \in Attribute : Set(NothingWanted, v)[a] = IF a \in c THEN v[a] ELSE Unknown
  BY <1>1, NothingType, SetType
<1>6. QED
  BY <1>3, <1>4, <1>5, NothingType DEF Commit, Committed

\* The values of a control as the panel shows them.
LEMMA ShownType ==
  ASSUME ControlsTypeOK, NEW c \in Control
  PROVE  [a \in c |-> shown[a]] \in [c -> Value]
  BY ControlAssumption DEF ControlsTypeOK

LEMMA MoveType ==
  ASSUME ControlsTypeOK, NEW c \in Control, NEW v \in [c -> Value]
  PROVE  /\ Set(shown, v) \in [Attribute -> Value] /\ Set(local, v) \in [Attribute -> Value]
         /\ \A a \in Attribute : Set(shown, v)[a] = IF a \in c THEN v[a] ELSE shown[a]
         /\ \A a \in Attribute : Set(local, v)[a] = IF a \in c THEN v[a] ELSE local[a]
<1>1. ASSUME NEW f \in [Attribute -> Value]
      PROVE  /\ Set(f, v) \in [Attribute -> Value]
             /\ \A a \in Attribute : Set(f, v)[a] = IF a \in c THEN v[a] ELSE f[a]
  BY SetType
<1>2. shown \in [Attribute -> Value] /\ local \in [Attribute -> Value]
  BY DEF ControlsTypeOK
<1>3. QED
  BY <1>1, <1>2

LEMMA ForgetType ==
  ASSUME ControlsTypeOK, NEW c
  PROVE  /\ Set(wanted, [a \in c |-> Unknown]) \in [Attribute -> Known]
         /\ \A a \in Attribute : Set(wanted, [b \in c |-> Unknown])[a]
                                = IF a \in c THEN Unknown ELSE wanted[a]
<1>1. wanted \in [Attribute -> Known] /\ [a \in c |-> Unknown] \in [c -> Known]
  BY DEF ControlsTypeOK, Known
<1>2. QED
  BY <1>1, SetType

LEMMA TakeType ==
  ASSUME ControlsTypeOK, NEW c \in Control, Take(c)
  PROVE  ControlsTypeOK'
<1>1. wanted' \in [Attribute -> Known] /\ held' \subseteq Control /\ gestures' \in 0..MaxGestures
  BY ForgetType, ControlAssumption DEF Take, Count, ControlsTypeOK
<1>2. QED
  BY <1>1 DEF Take, ControlsTypeOK, Known, worldVars, polledVars

LEMMA SlideType ==
  ASSUME ControlsTypeOK, NEW c \in Control, NEW v \in [c -> Value], Slide(c, v)
  PROVE  ControlsTypeOK'
<1>1. shown' \in [Attribute -> Value]
  BY MoveType DEF Slide
<1>2. QED
  BY <1>1 DEF Slide, ControlsTypeOK, worldVars, polledVars, counters, ghosts

LEMMA ReleaseType ==
  ASSUME ControlsTypeOK, NEW c \in Control, Release(c)
  PROVE  ControlsTypeOK'
<1> DEFINE v == [a \in c |-> shown[a]]
<1>1. v \in [c -> Value] /\ Commit(v) /\ Committed(v)
  BY ShownType DEF Release
<1>2. held' \subseteq Control /\ gestures' \in 0..MaxGestures
  BY ControlAssumption DEF Release, Count, ControlsTypeOK
<1>3. /\ dragging' \in BOOLEAN /\ commands' \in Seq(Command) /\ lastSent' \in [Attribute -> Known]
      /\ wanted' \in [Attribute -> Known] /\ crossed' \in BOOLEAN
  BY <1>1, CommitFacts
<1>4. QED
  BY <1>2, <1>3 DEF Release, ControlsTypeOK, Known, polledVars

LEMMA WheelType ==
  ASSUME ControlsTypeOK, NEW v \in [Wheel -> Value], WheelMove(v) \/ WheelUp(v) \/ WheelKey(v)
  PROVE  ControlsTypeOK'
<1>1. Wheel \in Control
  BY DEF WheelMove, WheelUp, WheelKey, ControlsTypeOK
<1>2. /\ Set(shown, v) \in [Attribute -> Value] /\ Set(local, v) \in [Attribute -> Value]
      /\ Set(wanted, [a \in Wheel |-> Unknown]) \in [Attribute -> Known]
  BY <1>1, MoveType, ForgetType
<1>3. gestures' \in 0..MaxGestures /\ held' \subseteq Control
  BY <1>1, ControlAssumption DEF WheelMove, WheelUp, WheelKey, Count, counters, ControlsTypeOK
<1>4. CASE WheelMove(v)
  BY <1>2, <1>3, <1>4 DEF WheelMove, ControlsTypeOK, Known, worldVars, polledVars
<1>5. CASE WheelUp(v) \/ WheelKey(v)
  <2>1. /\ dragging' \in BOOLEAN /\ commands' \in Seq(Command)
        /\ lastSent' \in [Attribute -> Known]
        /\ wanted' \in [Attribute -> Known] /\ crossed' \in BOOLEAN
    BY <1>1, <1>5, CommitFacts DEF WheelUp, WheelKey
  <2>2. excused' \subseteq Attribute
    BY <1>1, <1>5, ControlAssumption DEF WheelUp, WheelKey, ControlsTypeOK
  <2>3. /\ local' \in [Attribute -> Value] /\ shown' \in [Attribute -> Value]
        /\ UNCHANGED <<light, lit, device, on, tab, others, faults>>
    BY <1>2, <1>5 DEF WheelUp, WheelKey, polledVars, counters, ControlsTypeOK
  <2>4. QED
    BY <1>3, <2>1, <2>2, <2>3 DEF ControlsTypeOK, Known
<1>6. QED
  BY <1>4, <1>5

LEMMA LostType ==
  ASSUME ControlsTypeOK, NEW c \in Control, GestureLost(c)
  PROVE  ControlsTypeOK'
<1>1. excused' \subseteq Attribute /\ held' \subseteq Control /\ crossed' \in BOOLEAN
  BY ControlAssumption DEF GestureLost, Abandoned, ControlsTypeOK
<1>2. faults' \in 0..MaxFaults
  BY ControlAssumption DEF GestureLost, Fault, ControlsTypeOK
<1>3. QED
  BY <1>1, <1>2 DEF GestureLost, ControlsTypeOK, worldVars, polledVars

LEMMA TabType ==
  ASSUME ControlsTypeOK, NEW t \in {"white", "color"}, SetTab(t)
  PROVE  ControlsTypeOK'
<1>1. excused' \subseteq Attribute /\ held' \subseteq Control /\ crossed' \in BOOLEAN
  BY ControlAssumption DEF SetTab, Abandoned, ControlsTypeOK
<1>2. wanted' \in [Attribute -> Known] /\ local' \in [Attribute -> Value]
  BY DEF SetTab, ControlsTypeOK, Known
<1>3. QED
  BY <1>1, <1>2 DEF SetTab, ControlsTypeOK, Known, worldVars, polledVars, counters

LEMMA PollType ==
  ASSUME ControlsTypeOK, Poll
  PROVE  ControlsTypeOK'
<1>1. shown' \in [Attribute -> Value]
  BY DEF Poll, Resyncs, ControlsTypeOK
<1>2. local' \in [Attribute -> Value]
  BY <1>1 DEF Poll, ControlsTypeOK
<1>3. excused' \subseteq Attribute
  BY DEF Poll
<1>4. device' \in [Attribute -> Known] /\ on' \in BOOLEAN
  BY DEF Poll, ControlsTypeOK, Known
<1>5. QED
  BY <1>1, <1>2, <1>3, <1>4 DEF Poll, ControlsTypeOK, Known, worldVars, counters

\* A sequence without one of its items.
LEMMA RemovedAt ==
  ASSUME NEW S, NEW q \in Seq(S), NEW i \in DOMAIN q
  PROVE  LET r == RemoveAt(q, i)
         IN  /\ r \in Seq(S) /\ Len(r) = Len(q) - 1 /\ DOMAIN r = 1..(Len(q) - 1)
             /\ \A j \in 1..(Len(q) - 1) : r[j] = IF j < i THEN q[j] ELSE q[j + 1]
<1> DEFINE a == SubSeq(q, 1, i - 1)
           b == SubSeq(q, i + 1, Len(q))
<1>1. Len(q) \in Nat /\ i \in 1..Len(q)
  OBVIOUS
<1>2. a \in Seq(S) /\ Len(a) = i - 1 /\ \A j \in 1..(i - 1) : a[j] = q[j]
  BY <1>1
<1>3. b \in Seq(S) /\ Len(b) = Len(q) - i /\ \A j \in 1..(Len(q) - i) : b[j] = q[i + j]
  BY <1>1
<1>4. RemoveAt(q, i) = a \o b
  BY DEF RemoveAt
<1> HIDE DEF a, b
<1>5. a \o b \in Seq(S) /\ Len(a \o b) = Len(q) - 1
  BY <1>1, <1>2, <1>3
<1>6. \A j \in 1..(Len(q) - 1) : (a \o b)[j] = IF j < i THEN q[j] ELSE q[j + 1]
  <2> SUFFICES ASSUME NEW j \in 1..(Len(q) - 1)
               PROVE  (a \o b)[j] = IF j < i THEN q[j] ELSE q[j + 1]
    OBVIOUS
  <2>1. CASE j < i
    BY <1>1, <1>2, <1>3, <2>1
  <2>2. CASE ~(j < i)
    <3>1. (a \o b)[j] = b[j - (i - 1)]
      BY <1>1, <1>2, <1>3, <2>2
    <3>2. j - (i - 1) \in 1..(Len(q) - i) /\ i + (j - (i - 1)) = j + 1
      BY <1>1, <2>2
    <3>3. QED
      BY <1>3, <2>2, <3>1, <3>2
  <2>3. QED
    BY <2>1, <2>2
<1>7. DOMAIN (a \o b) = 1..(Len(q) - 1)
  BY <1>5
<1>8. QED
  BY <1>4, <1>5, <1>6, <1>7, Zenon

\* A command that is on its way, and the others when it has gone.
LEMMA CommandFacts ==
  ASSUME ControlsTypeOK, NEW i \in DOMAIN commands
  PROVE  /\ Len(commands) \in Nat \ {0} /\ i \in 1..Len(commands)
         /\ \E c \in Control : commands[i] \in [c -> Value] /\ DOMAIN commands[i] = c
         /\ DOMAIN commands[i] \subseteq Attribute
         /\ RemoveAt(commands, i) \in Seq(Command)
         /\ Len(RemoveAt(commands, i)) = Len(commands) - 1
         /\ \A j \in 1..(Len(commands) - 1) :
               RemoveAt(commands, i)[j] = IF j < i THEN commands[j] ELSE commands[j + 1]
<1>1. commands \in Seq(Command)
  BY DEF ControlsTypeOK
<1>2. /\ RemoveAt(commands, i) \in Seq(Command)
      /\ Len(RemoveAt(commands, i)) = Len(commands) - 1
      /\ \A j \in 1..(Len(commands) - 1) :
            RemoveAt(commands, i)[j] = IF j < i THEN commands[j] ELSE commands[j + 1]
  BY <1>1, RemovedAt
<1>3. Len(commands) \in Nat \ {0} /\ i \in 1..Len(commands) /\ commands[i] \in Command
  BY <1>1
<1>4. PICK c \in Control : commands[i] \in [c -> Value]
  BY <1>3 DEF Command
<1>5. DOMAIN commands[i] = c /\ c \subseteq Attribute
  BY <1>4, ControlAssumption
<1>6. QED
  BY <1>2, <1>3, <1>4, <1>5

LEMMA ObeyFacts ==
  ASSUME ControlsTypeOK, NEW i \in DOMAIN commands, LightObeys(i)
  PROVE  /\ light' \in [Attribute -> Known]
         /\ \A a \in Attribute :
               light'[a] = IF a \in DOMAIN commands[i] THEN commands[i][a] ELSE light[a]
         /\ \A a \in Attribute : a \in DOMAIN commands[i] => commands[i][a] \in Value
         /\ excused' = excused \cup Overtaken(i) /\ excused' \subseteq Attribute
<1>1. PICK c \in Control : commands[i] \in [c -> Value] /\ DOMAIN commands[i] = c
  BY CommandFacts
<1>2. light \in [Attribute -> Known] /\ commands[i] \in [c -> Known]
  BY <1>1 DEF ControlsTypeOK, Known
<1>3. light' = Set(light, commands[i]) /\ excused' = excused \cup Overtaken(i)
  BY DEF LightObeys
<1>4. excused' \subseteq Attribute
  BY <1>3, CommandFacts DEF Overtaken, ControlsTypeOK
<1>5. QED
  BY <1>1, <1>2, <1>3, <1>4, SetType

LEMMA WorldType ==
  ASSUME ControlsTypeOK,
         \/ SomeoneSwitches
         \/ \E i \in DOMAIN commands : LightObeys(i) \/ CommandLost(i)
         \/ \E a \in Attribute, v \in Value : SomeoneChanges(a, v)
  PROVE  ControlsTypeOK'
<1>1. ASSUME NEW i \in DOMAIN commands, LightObeys(i) PROVE ControlsTypeOK'
  <2>1. commands' \in Seq(Command)
    BY <1>1, CommandFacts DEF LightObeys
  <2>2. QED
    BY <1>1, <2>1, ObeyFacts
    DEF LightObeys, ControlsTypeOK, Known, polledVars, panelVars, counters
<1>2. ASSUME NEW i \in DOMAIN commands, CommandLost(i) PROVE ControlsTypeOK'
  <2>1. commands' \in Seq(Command) /\ wanted' \in [Attribute -> Known]
    BY <1>2, CommandFacts, NothingType DEF CommandLost
  <2>2. excused' \subseteq Attribute /\ faults' \in 0..MaxFaults
    BY <1>2, CommandFacts, ControlAssumption DEF CommandLost, Fault, ControlsTypeOK
  <2>3. QED
    BY <1>2, <2>1, <2>2 DEF CommandLost, ControlsTypeOK, Known, polledVars, panelVars
<1>3. CASE SomeoneSwitches
  BY <1>3, ControlAssumption
  DEF SomeoneSwitches, ControlsTypeOK, polledVars, panelVars, ghosts
<1>4. ASSUME NEW a \in Attribute, NEW v \in Value, SomeoneChanges(a, v)
      PROVE  ControlsTypeOK'
  <2>1. /\ light' \in [Attribute -> Known] /\ wanted' \in [Attribute -> Known]
        /\ excused' \subseteq Attribute
    BY <1>4, NothingType DEF SomeoneChanges, ControlsTypeOK, Known
  <2>2. others' \in 0..MaxOthers
    BY <1>4, ControlAssumption DEF SomeoneChanges, ControlsTypeOK
  <2>3. QED
    BY <1>4, <2>1, <2>2 DEF SomeoneChanges, ControlsTypeOK, Known, polledVars, panelVars
<1>5. QED
  BY <1>1, <1>2, <1>3, <1>4

LEMMA ControlsTypeStep == ControlsTypeOK /\ [Next]_vars => ControlsTypeOK'
<1> SUFFICES ASSUME ControlsTypeOK, [Next]_vars PROVE ControlsTypeOK'
  OBVIOUS
<1>1. CASE UNCHANGED vars
  BY <1>1 DEF vars, worldVars, polledVars, panelVars, counters, ghosts, ControlsTypeOK
<1>2. QED
  BY <1>1, TakeType, SlideType, ReleaseType, WheelType, LostType, TabType, PollType, WorldType
  DEF Next

LEMMA ControlsTypeStart == Init => ControlsTypeOK
<1> SUFFICES ASSUME Init PROVE ControlsTypeOK
  OBVIOUS
<1>1. shown \in [Attribute -> Value] /\ local \in [Attribute -> Value]
  BY ControlAssumption DEF Init
<1>2. commands \in Seq(Command)
  BY DEF Init
<1>3. /\ gestures \in 0..MaxGestures /\ others \in 0..MaxOthers /\ faults \in 0..MaxFaults
      /\ wanted \in [Attribute -> Known] /\ lastSent \in [Attribute -> Known]
  BY ControlAssumption, NothingType DEF Init, Known
<1>4. QED
  BY <1>1, <1>2, <1>3 DEF Init, ControlsTypeOK, Known

\* Types: sliders and the wheel always show a value, whatever the device has reported.
THEOREM ControlsTypeCorrect == Spec => []ControlsTypeOK
  BY ControlsTypeStart, ControlsTypeStep, PTL DEF Spec

(***************************************************************************)
(* Gestures.                                                               *)
(***************************************************************************)
\* The wheel is held only where it is shown; a slider under the finger has no gesture to
\* keep; and a control that is held keeps the polls out, unless another one was let go.
HeldOK ==
    /\ Wheel \in held => tab = "color"
    /\ \A c \in held \ {Wheel} : \A a \in c : wanted[a] = Unknown
    /\ held # {} /\ ~crossed => dragging

\* The only command there was has reached the light, or is the only one on its way.
Arrived(a) == commands = <<>> /\ light[a] = wanted[a]
OnItsWay(a) ==
    /\ Len(commands) = 1 /\ a \in DOMAIN commands[1] /\ commands[1][a] = wanted[a]
    /\ light[a] = device[a]

LoneOK ==
    \A a \in Attribute : wanted[a] # Unknown =>
        /\ Displayed(a) = wanted[a] /\ lastSent[a] = wanted[a]
        /\ Arrived(a) \/ OnItsWay(a)

GestureInv == ControlsTypeOK /\ HeldOK /\ LoneOK

LEMMA Disjoint ==
  \A c, d \in Control \cup {Wheel} : c # d => \A a \in c : a \notin d
  BY ControlAssumption

LEMMA DisplayedIs ==
  \A a : /\ Displayed(a) = IF a \in Wheel /\ tab = "color" THEN local[a] ELSE shown[a]
        /\ Displayed(a)' = IF a \in Wheel /\ tab' = "color" THEN local'[a] ELSE shown'[a]
  BY ControlAssumption DEF Displayed, Visible

\* A step that leaves a wanted value as it is, with everything it hangs on.
LEMMA LoneFrame ==
  ASSUME GestureInv, UNCHANGED <<light, commands, device, lastSent>>,
         \A a \in Attribute : wanted'[a] # Unknown =>
             wanted'[a] = wanted[a] /\ Displayed(a)' = Displayed(a)
  PROVE  LoneOK'
  BY DEF GestureInv, LoneOK, Arrived, OnItsWay

\* A commit: what is wanted is the only thing on its way.
LEMMA LoneCommit ==
  ASSUME GestureInv, NEW c \in Control, NEW v \in [c -> Value], Commit(v), Committed(v),
         UNCHANGED <<light, device>>, \A a \in c : Displayed(a)' = v[a]
  PROVE  LoneOK'
<1> SUFFICES ASSUME NEW a \in Attribute, wanted'[a] # Unknown
             PROVE  /\ Displayed(a)' = wanted'[a] /\ lastSent'[a] = wanted'[a]
                    /\ OnItsWay(a)'
  BY DEF LoneOK
<1>1. a \in c /\ wanted'[a] = v[a] /\ commands = <<>> /\ device = light
  BY CommitFacts DEF GestureInv
<1>2. lastSent'[a] = v[a] /\ commands' = Append(commands, v)
  BY <1>1, CommitFacts DEF GestureInv
<1>3. Len(commands') = 1 /\ commands'[1] = v
  BY <1>1, <1>2
<1>4. QED
  BY <1>1, <1>2, <1>3 DEF OnItsWay

LEMMA TakeGesture ==
  ASSUME GestureInv, NEW c \in Control, Take(c)
  PROVE  HeldOK' /\ LoneOK'
<1>1. /\ c # Wheel /\ held' = held \cup {c} /\ dragging' = TRUE
      /\ UNCHANGED <<tab, light, commands, device, lastSent, shown, local>>
      /\ \A a \in Attribute : wanted'[a] = IF a \in c THEN Unknown ELSE wanted[a]
  BY ForgetType DEF Take, worldVars, polledVars, GestureInv
<1>2. HeldOK'
  <2>1. held' \subseteq Control
    BY <1>1 DEF GestureInv, ControlsTypeOK
  <2>2. \A d \in held' \ {Wheel} : \A a \in d : wanted'[a] = Unknown
    BY <1>1, <2>1, ControlAssumption DEF GestureInv, HeldOK
  <2>3. QED
    BY <1>1, <2>2 DEF GestureInv, HeldOK
<1>3. LoneOK'
  BY <1>1, LoneFrame, DisplayedIs DEF GestureInv
<1>4. QED
  BY <1>2, <1>3

LEMMA SlideGesture ==
  ASSUME GestureInv, NEW c \in Control, NEW v \in [c -> Value], Slide(c, v)
  PROVE  HeldOK' /\ LoneOK'
<1>1. /\ c \in held \ {Wheel}
      /\ UNCHANGED <<tab, light, commands, device, lastSent, local, held, dragging, wanted, crossed>>
      /\ \A a \in Attribute : shown'[a] = IF a \in c THEN v[a] ELSE shown[a]
  BY MoveType DEF Slide, worldVars, polledVars, ghosts, GestureInv
<1>2. HeldOK'
  BY <1>1 DEF GestureInv, HeldOK
<1>3. \A a \in Attribute : wanted'[a] # Unknown => a \notin c
  BY <1>1 DEF GestureInv, HeldOK
<1>4. LoneOK'
  BY <1>1, <1>3, LoneFrame, DisplayedIs
<1>5. QED
  BY <1>2, <1>4

LEMMA ReleaseGesture ==
  ASSUME GestureInv, NEW c \in Control, Release(c)
  PROVE  HeldOK' /\ LoneOK'
<1> DEFINE v == [a \in c |-> shown[a]]
<1>1. v \in [c -> Value] /\ Commit(v) /\ Committed(v)
  BY ShownType DEF Release, GestureInv
<1>2. /\ c # Wheel /\ held' = held \ {c} /\ held \subseteq Control
      /\ UNCHANGED <<tab, light, device, shown>>
  BY DEF Release, polledVars, GestureInv, ControlsTypeOK
<1>3. /\ crossed' = (held' # {})
      /\ \A a \in Attribute : wanted'[a] # Unknown => a \in c
  BY <1>1, CommitFacts DEF GestureInv
<1>4. HeldOK'
  <2>1. \A d \in held' \ {Wheel} : \A a \in d : wanted'[a] = Unknown
    BY <1>2, <1>3, ControlAssumption
  <2>2. QED
    BY <1>2, <1>3, <2>1 DEF GestureInv, HeldOK
<1>5. \A a \in c : Displayed(a)' = v[a]
  BY <1>2, Disjoint, DisplayedIs
<1>6. QED
  BY <1>1, <1>2, <1>4, <1>5, LoneCommit

LEMMA WheelGesture ==
  ASSUME GestureInv, NEW v \in [Wheel -> Value], WheelMove(v) \/ WheelUp(v) \/ WheelKey(v)
  PROVE  HeldOK' /\ LoneOK'
<1>1. /\ Wheel \in Control /\ tab = "color" /\ held \subseteq Control
      /\ UNCHANGED <<tab, light, device>>
      /\ \A a \in Attribute : local'[a] = IF a \in Wheel THEN v[a] ELSE local[a]
  <2>1. Wheel \in Control /\ held \subseteq Control
    BY DEF WheelMove, WheelUp, WheelKey, GestureInv, ControlsTypeOK
  <2>2. tab = "color"
    BY DEF WheelMove, WheelUp, WheelKey, Enabled, Visible, GestureInv, HeldOK
  <2>3. local' = Set(local, v) /\ UNCHANGED <<tab, light, device>>
    BY DEF WheelMove, WheelUp, WheelKey, worldVars, polledVars
  <2>4. QED
    BY <2>1, <2>2, <2>3, MoveType DEF GestureInv
<1>2. CASE WheelMove(v)
  <2>1. /\ held' = held \cup {Wheel} /\ dragging' = TRUE /\ UNCHANGED <<commands, lastSent>>
        /\ \A a \in Attribute : wanted'[a] = IF a \in Wheel THEN Unknown ELSE wanted[a]
        /\ \A a \in Attribute : shown'[a] = IF a \in Wheel THEN v[a] ELSE shown[a]
    BY <1>1, <1>2, ForgetType, MoveType DEF WheelMove, worldVars, GestureInv
  <2>2. \A d \in held' \ {Wheel} : \A a \in d : wanted'[a] = Unknown
    BY <1>1, <2>1, ControlAssumption DEF GestureInv, HeldOK
  <2>3. HeldOK'
    BY <1>1, <2>1, <2>2 DEF HeldOK
  <2>4. LoneOK'
    BY <1>1, <2>1, LoneFrame, DisplayedIs
  <2>5. QED
    BY <2>3, <2>4
<1>3. CASE WheelUp(v) \/ WheelKey(v)
  <2>1. Commit(v) /\ Committed(v) /\ held' \subseteq held
    BY <1>3 DEF WheelUp, WheelKey
  <2>2. /\ crossed' = (held' # {})
        /\ \A a \in Attribute : wanted'[a] # Unknown => a \in Wheel
    BY <1>1, <2>1, CommitFacts DEF GestureInv
  <2>3. \A d \in held' \ {Wheel} : \A a \in d : wanted'[a] = Unknown
    BY <1>1, <2>1, <2>2, ControlAssumption
  <2>4. HeldOK'
    BY <1>1, <2>1, <2>2, <2>3 DEF HeldOK
  <2>5. \A a \in Wheel : Displayed(a)' = v[a]
    BY <1>1, DisplayedIs, ControlAssumption
  <2>6. QED
    BY <1>1, <2>1, <2>4, <2>5, LoneCommit
<1>4. QED
  BY <1>2, <1>3

LEMMA LostGesture ==
  ASSUME GestureInv, NEW c \in Control, GestureLost(c)
  PROVE  HeldOK' /\ LoneOK'
<1>1. /\ held' = held \ {c} /\ crossed' = (crossed /\ held' # {})
      /\ UNCHANGED <<light, commands, device, shown, lastSent, dragging, tab, local, wanted>>
  BY DEF GestureLost, Abandoned, worldVars, polledVars
<1>2. HeldOK'
  BY <1>1 DEF GestureInv, HeldOK
<1>3. LoneOK'
  BY <1>1, LoneFrame, DisplayedIs
<1>4. QED
  BY <1>2, <1>3

LEMMA TabGesture ==
  ASSUME GestureInv, NEW t \in {"white", "color"}, SetTab(t)
  PROVE  HeldOK' /\ LoneOK'
<1>1. /\ held' \subseteq held \ {Wheel} /\ crossed' = (crossed /\ held' # {}) /\ local' = shown
      /\ UNCHANGED <<light, commands, device, shown, lastSent, dragging>>
      /\ \A a \in Attribute : wanted'[a] = IF shown[a] = wanted[a] THEN wanted[a] ELSE Unknown
  BY DEF SetTab, Abandoned, worldVars, polledVars
<1>2. HeldOK'
  <2>1. \A d \in held' \ {Wheel} : \A a \in d : wanted'[a] = Unknown
    BY <1>1, ControlAssumption DEF GestureInv, HeldOK, ControlsTypeOK
  <2>2. QED
    BY <1>1, <2>1 DEF GestureInv, HeldOK
<1>3. \A a \in Attribute : wanted'[a] # Unknown =>
          wanted'[a] = wanted[a] /\ Displayed(a)' = Displayed(a)
  <2>1. SUFFICES ASSUME NEW a \in Attribute, wanted'[a] # Unknown
                 PROVE  wanted'[a] = wanted[a] /\ Displayed(a)' = Displayed(a)
    OBVIOUS
  <2>2. wanted[a] # Unknown /\ wanted'[a] = wanted[a] /\ shown[a] = wanted[a]
    BY <1>1, <2>1
  <2>3. Displayed(a) = wanted[a]
    BY <2>2 DEF GestureInv, LoneOK
  <2>4. QED
    BY <1>1, <2>2, <2>3, DisplayedIs
<1>4. LoneOK'
  BY <1>1, <1>3, LoneFrame
<1>5. QED
  BY <1>2, <1>4

\* A poll changes a control only when the light is neither as it was nor as it was told.
LEMMA PollFacts ==
  ASSUME ControlsTypeOK, Poll
  PROVE  /\ device' = light
         /\ UNCHANGED <<light, commands, lastSent, dragging, tab, held, wanted, crossed>>
         /\ \A a \in Attribute :
               /\ ~Resyncs(a) => shown'[a] = shown[a] /\ local'[a] = local[a]
               /\ Resyncs(a) => shown'[a] = light[a]
               /\ Wheel \notin held /\ shown'[a] # shown[a] => local'[a] = shown'[a]
  BY DEF Poll, worldVars

LEMMA PollGesture ==
  ASSUME GestureInv, Poll
  PROVE  HeldOK' /\ LoneOK'
<1>1. HeldOK'
  BY PollFacts DEF GestureInv, HeldOK
<1>2. ASSUME NEW a \in Attribute, wanted'[a] # Unknown
      PROVE  /\ Displayed(a)' = wanted'[a] /\ lastSent'[a] = wanted'[a]
             /\ Arrived(a)' \/ OnItsWay(a)'
  <2>1. /\ wanted'[a] = wanted[a] /\ Displayed(a) = wanted[a] /\ lastSent[a] = wanted[a]
        /\ Arrived(a) \/ OnItsWay(a)
    BY <1>2, PollFacts DEF GestureInv, LoneOK
  <2>2. ~Resyncs(a)
    BY <2>1 DEF Resyncs, Arrived, OnItsWay
  <2>3. Displayed(a)' = Displayed(a)
    BY <2>2, PollFacts, DisplayedIs DEF GestureInv
  <2>4. Arrived(a)' \/ OnItsWay(a)'
    BY <2>1, PollFacts DEF GestureInv, Arrived, OnItsWay
  <2>5. QED
    BY <2>1, <2>3, <2>4, PollFacts DEF GestureInv
<1>3. QED
  BY <1>1, <1>2 DEF LoneOK

LEMMA WorldGesture ==
  ASSUME GestureInv,
         \/ SomeoneSwitches
         \/ \E i \in DOMAIN commands : LightObeys(i) \/ CommandLost(i)
         \/ \E a \in Attribute, v \in Value : SomeoneChanges(a, v)
  PROVE  HeldOK' /\ LoneOK'
<1>1. /\ UNCHANGED <<device, shown, lastSent, dragging, tab, local, held, crossed>>
      /\ wanted' = wanted \/ wanted' = NothingWanted
  BY DEF LightObeys, CommandLost, SomeoneSwitches, SomeoneChanges, polledVars, panelVars, ghosts
<1>2. HeldOK'
  BY <1>1, NothingType, ControlAssumption DEF GestureInv, HeldOK, ControlsTypeOK
<1>3. CASE wanted' = NothingWanted
  BY <1>2, <1>3, NothingType DEF LoneOK
<1>4. CASE SomeoneSwitches
  <2>1. UNCHANGED <<light, commands, wanted>>
    BY <1>4 DEF SomeoneSwitches, ghosts
  <2>2. QED
    BY <1>1, <1>2, <2>1, LoneFrame, DisplayedIs
<1>5. ASSUME NEW i \in DOMAIN commands, LightObeys(i) PROVE LoneOK'
  <2>1. ASSUME NEW a \in Attribute, wanted'[a] # Unknown
        PROVE  /\ Displayed(a)' = wanted'[a] /\ lastSent'[a] = wanted'[a]
               /\ Arrived(a)'
    <3>1. wanted' = wanted /\ commands # <<>> /\ commands' = RemoveAt(commands, i)
      BY <1>5 DEF LightObeys
    <3>2. Displayed(a) = wanted[a] /\ lastSent[a] = wanted[a] /\ OnItsWay(a)
      BY <2>1, <3>1 DEF GestureInv, LoneOK, Arrived
    <3>3. light'[a] = wanted[a] /\ commands' = <<>>
      <4>1. i = 1 /\ RemoveAt(commands, i) \in Seq(Command) /\ Len(RemoveAt(commands, i)) = 0
        BY <3>2, CommandFacts DEF OnItsWay, GestureInv
      <4>2. commands' = <<>>
        BY <1>5, <4>1 DEF LightObeys
      <4>3. QED
        BY <1>5, <3>2, <4>1, <4>2, ObeyFacts DEF OnItsWay, GestureInv
    <3>4. QED
      BY <1>1, <3>1, <3>2, <3>3, DisplayedIs DEF Arrived
  <2>2. QED
    BY <1>2, <2>1 DEF LoneOK
<1>6. QED
  BY <1>2, <1>3, <1>4, <1>5 DEF CommandLost, SomeoneChanges

LEMMA GestureStep == GestureInv /\ [Next]_vars => GestureInv'
<1> SUFFICES ASSUME GestureInv, [Next]_vars PROVE GestureInv'
  OBVIOUS
<1>1. ControlsTypeOK'
  BY ControlsTypeStep DEF GestureInv
<1>2. CASE UNCHANGED vars
  <2>1. /\ UNCHANGED <<light, commands, device, lastSent, tab, held, dragging, crossed>>
        /\ UNCHANGED <<wanted, shown, local>>
    BY <1>2 DEF vars, worldVars, polledVars, panelVars, ghosts
  <2>2. HeldOK' /\ LoneOK'
    BY <2>1, LoneFrame, DisplayedIs DEF GestureInv, HeldOK
  <2>3. QED
    BY <1>1, <2>2 DEF GestureInv
<1>3. CASE Next
  <2>1. HeldOK' /\ LoneOK'
    BY <1>3, TakeGesture, SlideGesture, ReleaseGesture, WheelGesture, LostGesture, TabGesture,
       PollGesture, WorldGesture DEF Next
  <2>2. QED
    BY <1>1, <2>1 DEF GestureInv
<1>4. QED
  BY <1>2, <1>3

LEMMA GestureStart == Init => GestureInv
  BY ControlsTypeStart, NothingType DEF Init, GestureInv, HeldOK, LoneOK

THEOREM GestureInvariance == Spec => []GestureInv
  BY GestureStart, GestureStep, PTL DEF Spec

\* A gesture made at rest is kept on the screen until something else happens to the light.
THEOREM LoneGestureIsNotTurnedBack == Spec => []LoneGestureIsKept
<1>1. GestureInv => LoneGestureIsKept
  BY DEF GestureInv, LoneOK, LoneGestureIsKept
<1>2. QED
  BY <1>1, GestureInvariance, PTL

\* A poll moves no control that is held while draggingRef is set for it.
THEOREM HeldControlsAreLeftAlone == Spec => PollLeavesHeldControls
<1>1. ASSUME GestureInv, [Next]_vars, <<device, on>>' # <<device, on>>, ~crossed
      PROVE  \A c \in held : \A a \in c : Displayed(a)' = Displayed(a)
  <2>1. Poll
    BY <1>1 DEF Next, Take, Release, GestureLost, Slide, WheelMove, WheelUp, WheelKey, SetTab,
                LightObeys, CommandLost, SomeoneSwitches, SomeoneChanges, vars, polledVars
  <2>2. SUFFICES ASSUME NEW c \in held, NEW a \in c PROVE Displayed(a)' = Displayed(a)
    OBVIOUS
  <2>3. a \in Attribute /\ dragging
    BY <1>1, ControlAssumption DEF GestureInv, HeldOK, ControlsTypeOK
  <2>4. ~Resyncs(a)
    BY <2>3 DEF Resyncs
  <2>5. QED
    BY <1>1, <2>1, <2>3, <2>4, PollFacts, DisplayedIs DEF GestureInv
<1>2. QED
  BY <1>1, GestureInvariance, PTL DEF Spec, PollLeavesHeldControls

(***************************************************************************)
(* The controls and the light agree in the end.                            *)
(***************************************************************************)
\* A command about the attribute is on its way.
Touched(a) == \E i \in 1..Len(commands) : a \in DOMAIN commands[i]

\* A control of the attribute is held.
Owned(a) == \E c \in held : a \in c

\* The last command about the attribute carries what was last sent of it: none has overtaken it.
LastSentIsLast(a) ==
    \A i \in 1..Len(commands) :
        a \in DOMAIN commands[i] /\ (\A j \in (i + 1)..Len(commands) : a \notin DOMAIN commands[j])
            => commands[i][a] = lastSent[a]

\* What the device has once reported it keeps reporting.
KnownOK == \A a \in Attribute : light[a] = Unknown => device[a] = Unknown

\* The wheel and the panel agree.
WheelOK ==
    tab = "color" => \A a \in Attribute \ excused : a \in Wheel => local[a] = shown[a]

\* While commands are on their way the control shows what was polled last, or what the last of
\* them asks for; afterwards it shows what the light has.
AgreeOK ==
    \A a \in Attribute \ excused : ~Owned(a) =>
        /\ Touched(a) => \/ Displayed(a) = device[a]
                         \/ Displayed(a) = lastSent[a] /\ LastSentIsLast(a)
        /\ ~Touched(a) /\ light[a] = device[a] => device[a] = Unknown \/ Displayed(a) = device[a]

ControlsInv == GestureInv /\ KnownOK /\ WheelOK /\ AgreeOK

\* A command is added at the end.
LEMMA AppendOrder ==
  ASSUME ControlsTypeOK, NEW c \in Control, NEW v \in [c -> Value], Commit(v), Committed(v),
         NEW a \in Attribute
  PROVE  /\ Touched(a)' <=> Touched(a) \/ a \in c
         /\ a \in c \/ LastSentIsLast(a) => LastSentIsLast(a)'
<1>1. /\ commands' = Append(commands, v) /\ DOMAIN v = c /\ commands \in Seq(Command)
      /\ lastSent'[a] = IF a \in c THEN v[a] ELSE lastSent[a]
  BY CommitFacts DEF ControlsTypeOK
<1> DEFINE n == Len(commands)
<1>2. /\ n \in Nat /\ Len(commands') = n + 1 /\ commands'[n + 1] = v
      /\ \A i \in 1..n : commands'[i] = commands[i]
  BY <1>1
<1>3. Touched(a)' <=> Touched(a) \/ a \in c
  BY <1>1, <1>2 DEF Touched
<1>4. ASSUME a \in c \/ LastSentIsLast(a), NEW i \in 1..(n + 1), a \in DOMAIN commands'[i],
             \A j \in (i + 1)..(n + 1) : a \notin DOMAIN commands'[j]
      PROVE  commands'[i][a] = lastSent'[a]
  <2>1. CASE a \in c
    <3>1. i = n + 1
      BY <1>1, <1>2, <1>4, <2>1
    <3>2. QED
      BY <1>1, <1>2, <2>1, <3>1
  <2>2. CASE a \notin c
    <3>1. i \in 1..n
      BY <1>1, <1>2, <1>4, <2>2
    <3>2. a \in DOMAIN commands[i] /\ \A j \in (i + 1)..n : a \notin DOMAIN commands[j]
      BY <1>2, <1>4, <3>1
    <3>3. commands[i][a] = lastSent[a]
      BY <1>4, <2>2, <3>1, <3>2 DEF LastSentIsLast
    <3>4. QED
      BY <1>1, <1>2, <2>2, <3>1, <3>3
  <2>3. QED
    BY <2>1, <2>2
<1>5. a \in c \/ LastSentIsLast(a) => LastSentIsLast(a)'
  BY <1>2, <1>4 DEF LastSentIsLast
<1>6. QED
  BY <1>3, <1>5

\* A command goes, the first or another: unless it was the last about the attribute, the last
\* one is still there.
LEMMA RemovedOrder ==
  ASSUME ControlsTypeOK, NEW k \in DOMAIN commands, commands' = RemoveAt(commands, k),
         UNCHANGED lastSent, NEW a \in Attribute
  PROVE  /\ Touched(a) <=> Touched(a)' \/ a \in DOMAIN commands[k]
         /\ \/ a \notin DOMAIN commands[k]
            \/ Touched(a)' /\ \A j \in 1..(k - 1) : a \notin DOMAIN commands[j]
            => (LastSentIsLast(a) => LastSentIsLast(a)')
         /\ a \in DOMAIN commands[k] /\ ~Touched(a)' /\ LastSentIsLast(a)
            => commands[k][a] = lastSent[a]
<1> DEFINE n == Len(commands)
<1>1. /\ n \in Nat \ {0} /\ k \in 1..n /\ Len(commands') = n - 1
      /\ \A j \in 1..(n - 1) : commands'[j] = IF j < k THEN commands[j] ELSE commands[j + 1]
  BY CommandFacts
<1>2. /\ \A j \in 1..(k - 1) : j \in 1..(n - 1) /\ commands[j] = commands'[j]
      /\ \A j \in (k + 1)..n : j - 1 \in k..(n - 1) /\ commands[j] = commands'[j - 1]
  <2>1. ASSUME NEW j \in 1..(k - 1) PROVE j \in 1..(n - 1) /\ commands[j] = commands'[j]
    <3>1. j \in 1..(n - 1) /\ j < k
      BY <1>1
    <3>2. QED
      BY <1>1, <3>1
  <2>2. ASSUME NEW j \in (k + 1)..n PROVE j - 1 \in k..(n - 1) /\ commands[j] = commands'[j - 1]
    <3>1. j - 1 \in k..(n - 1) /\ j - 1 \in 1..(n - 1) /\ ~(j - 1 < k) /\ (j - 1) + 1 = j
      BY <1>1
    <3>2. commands'[j - 1] = commands[(j - 1) + 1]
      BY <1>1, <3>1
    <3>3. QED
      BY <3>1, <3>2
  <2>3. QED
    BY <2>1, <2>2
<1>3. \A j \in 1..n : j = k \/ j \in 1..(k - 1) \/ j \in (k + 1)..n
  BY <1>1
<1>4. ASSUME Touched(a)' PROVE Touched(a)
  <2>1. PICK j \in 1..(n - 1) : a \in DOMAIN commands'[j]
    BY <1>1, <1>4 DEF Touched
  <2>2. j \in 1..n /\ j + 1 \in 1..n
    BY <1>1
  <2>3. QED
    BY <1>1, <2>1, <2>2 DEF Touched
<1>5. ASSUME NEW j \in 1..n, j # k, a \in DOMAIN commands[j] PROVE Touched(a)'
  <2>1. PICK m \in 1..(n - 1) : commands'[m] = commands[j]
    <3>1. CASE j \in 1..(k - 1)
      BY <1>2, <3>1
    <3>2. CASE j \in (k + 1)..n
      <4>1. j - 1 \in 1..(n - 1)
        BY <1>1, <3>2
      <4>2. QED
        BY <1>2, <3>2, <4>1
    <3>3. QED
      BY <1>3, <1>5, <3>1, <3>2
  <2>2. QED
    BY <1>1, <1>5, <2>1 DEF Touched
<1>6. Touched(a) <=> Touched(a)' \/ a \in DOMAIN commands[k]
  BY <1>1, <1>4, <1>5 DEF Touched
<1>7. ASSUME a \in DOMAIN commands[k], ~Touched(a)', LastSentIsLast(a)
      PROVE  commands[k][a] = lastSent[a]
  <2>1. \A j \in (k + 1)..n : a \notin DOMAIN commands[j]
    <3>1. SUFFICES ASSUME NEW j \in (k + 1)..n PROVE a \notin DOMAIN commands[j]
      OBVIOUS
    <3>2. j \in 1..n /\ j # k
      BY <1>1
    <3>3. QED
      BY <1>5, <1>7, <3>2
  <2>2. QED
    BY <1>1, <1>7, <2>1 DEF LastSentIsLast
<1>8. ASSUME \/ a \notin DOMAIN commands[k]
             \/ Touched(a)' /\ \A j \in 1..(k - 1) : a \notin DOMAIN commands[j],
             LastSentIsLast(a), NEW i \in 1..(n - 1), a \in DOMAIN commands'[i],
             \A j \in (i + 1)..(n - 1) : a \notin DOMAIN commands'[j]
      PROVE  commands'[i][a] = lastSent[a]
  <2>1. CASE i < k
    <3>1. i \in 1..(k - 1) /\ i \in 1..n /\ commands'[i] = commands[i]
      BY <1>1, <2>1
    <3>2. a \notin DOMAIN commands[k]
      BY <1>8, <3>1
    <3>3. ASSUME NEW j \in (i + 1)..n PROVE a \notin DOMAIN commands[j]
      <4>1. CASE j \in 1..(k - 1)
        <5>1. j \in (i + 1)..(n - 1)
          BY <1>1, <4>1
        <5>2. QED
          BY <1>2, <1>8, <4>1, <5>1
      <4>2. CASE j \in (k + 1)..n
        <5>1. j - 1 \in (i + 1)..(n - 1)
          BY <1>1, <2>1, <4>2
        <5>2. QED
          BY <1>2, <1>8, <4>2, <5>1
      <4>3. j \in 1..n
        BY <1>1
      <4>4. QED
        BY <1>3, <3>2, <4>1, <4>2, <4>3
    <3>4. QED
      BY <1>8, <3>1, <3>3 DEF LastSentIsLast
  <2>2. CASE ~(i < k)
    <3>1. i + 1 \in 1..n /\ commands'[i] = commands[i + 1]
      BY <1>1, <2>2
    <3>2. ASSUME NEW j \in ((i + 1) + 1)..n PROVE a \notin DOMAIN commands[j]
      <4>1. j \in (k + 1)..n /\ j - 1 \in (i + 1)..(n - 1)
        BY <1>1, <2>2
      <4>2. QED
        BY <1>2, <1>8, <4>1
    <3>3. QED
      BY <1>8, <3>1, <3>2 DEF LastSentIsLast
  <2>3. QED
    BY <2>1, <2>2
<1>9. \/ a \notin DOMAIN commands[k]
      \/ Touched(a)' /\ \A j \in 1..(k - 1) : a \notin DOMAIN commands[j]
      => (LastSentIsLast(a) => LastSentIsLast(a)')
  BY <1>1, <1>8 DEF LastSentIsLast
<1>10. QED
  BY <1>6, <1>7, <1>9

\* What agreed goes on agreeing when nothing about it changes.
LEMMA AgreeFrame ==
  ASSUME ControlsInv, UNCHANGED <<light, device, commands, lastSent>>,
         \A a \in Attribute \ excused' : a \notin excused /\ (Owned(a) => Owned(a)'),
         \A a \in Attribute \ excused' :
             ~Owned(a)' => Displayed(a)' = Displayed(a)
  PROVE  AgreeOK' /\ KnownOK'
<1>1. \A a \in Attribute :
          (Touched(a)' <=> Touched(a)) /\ (LastSentIsLast(a)' <=> LastSentIsLast(a))
  BY DEF Touched, LastSentIsLast
<1>2. AgreeOK'
  BY <1>1 DEF AgreeOK, ControlsInv
<1>3. QED
  BY <1>2 DEF ControlsInv, KnownOK

\* A commit is shown where it was made, and leaves the rest as it was.
LEMMA AgreeCommit ==
  ASSUME ControlsInv, NEW c \in Control, NEW v \in [c -> Value], Commit(v), Committed(v),
         UNCHANGED <<light, device>>, excused \subseteq excused',
         held' = held \/ held' = held \ {c},
         \A a \in c : Displayed(a)' = v[a],
         \A a \in Attribute \ c : Displayed(a)' = Displayed(a)
  PROVE  AgreeOK' /\ KnownOK'
<1>1. /\ \A a \in Attribute : Touched(a)' <=> Touched(a) \/ a \in c
      /\ \A a \in Attribute : a \in c \/ LastSentIsLast(a) => LastSentIsLast(a)'
      /\ \A a \in Attribute : lastSent'[a] = IF a \in c THEN v[a] ELSE lastSent[a]
  BY AppendOrder, CommitFacts DEF ControlsInv, GestureInv
<1>2. ASSUME NEW a \in Attribute \ excused', ~Owned(a)'
      PROVE  /\ Touched(a)' => \/ Displayed(a)' = device'[a]
                               \/ Displayed(a)' = lastSent'[a] /\ LastSentIsLast(a)'
             /\ ~Touched(a)' /\ light'[a] = device'[a]
                   => device'[a] = Unknown \/ Displayed(a)' = device'[a]
  <2>1. CASE a \in c
    BY <1>1, <2>1
  <2>2. CASE a \notin c
    <3>1. a \notin excused /\ ~Owned(a)
      BY <1>2, <2>2 DEF Owned
    <3>2. QED
      BY <1>1, <2>2, <3>1 DEF ControlsInv, AgreeOK
  <2>3. QED
    BY <2>1, <2>2
<1>3. QED
  BY <1>1, <1>2 DEF AgreeOK, ControlsInv, KnownOK

LEMMA SliderAgrees ==
  ASSUME ControlsInv, NEW c \in Control,
         \/ Take(c) \/ Release(c) \/ GestureLost(c)
         \/ \E v \in [c -> Value] : Slide(c, v)
  PROVE  AgreeOK' /\ KnownOK' /\ WheelOK'
<1>1. ControlsTypeOK
  BY DEF ControlsInv, GestureInv
<1>2. c # Wheel /\ \A a \in c : a \notin Wheel
  BY <1>1, Disjoint DEF Take, Release, GestureLost, Slide
<1>3. CASE Take(c)
  <2>1. /\ held' = held \cup {c}
        /\ UNCHANGED <<light, device, commands, lastSent, excused, shown, local, tab>>
    BY <1>3 DEF Take, worldVars, polledVars
  <2>2. WheelOK'
    BY <2>1 DEF ControlsInv, WheelOK
  <2>3. QED
    BY <2>1, <2>2, AgreeFrame, DisplayedIs DEF Owned
<1>4. CASE Release(c)
  <2> DEFINE v == [a \in c |-> shown[a]]
  <2>1. v \in [c -> Value] /\ Commit(v) /\ Committed(v)
    BY <1>1, <1>4, ShownType DEF Release
  <2>2. held' = held \ {c} /\ UNCHANGED <<light, device, excused, shown, local, tab>>
    BY <1>1, <1>2, <1>4 DEF Release, polledVars
  <2>3. WheelOK'
    BY <2>2 DEF ControlsInv, WheelOK
  <2>4. \A a \in c : Displayed(a)' = v[a]
    BY <1>2, <2>2, DisplayedIs
  <2>5. \A a \in Attribute \ c : Displayed(a)' = Displayed(a)
    BY <2>2, DisplayedIs
  <2>6. AgreeOK' /\ KnownOK'
    BY <2>1, <2>2, <2>4, <2>5, AgreeCommit
  <2>7. QED
    BY <2>3, <2>6
<1>5. CASE GestureLost(c)
  <2>1. /\ held' = held \ {c} /\ excused' = excused \cup c
        /\ UNCHANGED <<light, device, commands, lastSent, shown, local, tab>>
    BY <1>5 DEF GestureLost, Abandoned, worldVars, polledVars
  <2>2. WheelOK'
    BY <2>1 DEF ControlsInv, WheelOK
  <2>3. QED
    BY <2>1, <2>2, AgreeFrame, DisplayedIs DEF Owned
<1>6. ASSUME NEW v \in [c -> Value], Slide(c, v)
      PROVE  AgreeOK' /\ KnownOK' /\ WheelOK'
  <2>1. /\ c \in held /\ UNCHANGED <<light, device, commands, lastSent, excused, local, tab, held>>
        /\ \A a \in Attribute : shown'[a] = IF a \in c THEN v[a] ELSE shown[a]
    BY <1>1, <1>6, MoveType DEF Slide, worldVars, polledVars, ghosts
  <2>2. WheelOK'
    BY <1>2, <2>1 DEF ControlsInv, WheelOK
  <2>3. \A a \in Attribute : ~Owned(a)' => Displayed(a)' = Displayed(a)
    BY <2>1, DisplayedIs DEF Owned
  <2>4. QED
    BY <2>1, <2>2, <2>3, AgreeFrame DEF Owned
<1>7. QED
  BY <1>3, <1>4, <1>5, <1>6

LEMMA WheelAgrees ==
  ASSUME ControlsInv, NEW v \in [Wheel -> Value], WheelMove(v) \/ WheelUp(v) \/ WheelKey(v)
  PROVE  AgreeOK' /\ KnownOK' /\ WheelOK'
<1>1. ControlsTypeOK /\ HeldOK
  BY DEF ControlsInv, GestureInv
<1>2. Wheel \in Control /\ tab = "color" /\ UNCHANGED <<tab, light, device>>
  BY <1>1 DEF WheelMove, WheelUp, WheelKey, Enabled, Visible, HeldOK, ControlsTypeOK, worldVars,
              polledVars
<1>3. \A a \in Attribute : local'[a] = IF a \in Wheel THEN v[a] ELSE local[a]
  BY <1>1, <1>2, MoveType DEF WheelMove, WheelUp, WheelKey
<1>4. CASE WheelMove(v)
  <2>1. /\ held' = held \cup {Wheel} /\ UNCHANGED <<commands, lastSent, excused>>
        /\ \A a \in Attribute : shown'[a] = IF a \in Wheel THEN v[a] ELSE shown[a]
    BY <1>1, <1>2, <1>4, MoveType DEF WheelMove, worldVars
  <2>2. WheelOK'
    BY <1>3, <2>1 DEF WheelOK
  <2>3. \A a \in Attribute : ~Owned(a)' => Displayed(a)' = Displayed(a)
    BY <1>2, <1>3, <2>1, DisplayedIs DEF Owned
  <2>4. QED
    BY <1>2, <2>1, <2>2, <2>3, AgreeFrame DEF Owned
<1>5. CASE WheelUp(v) \/ WheelKey(v)
  <2>1. /\ Commit(v) /\ Committed(v) /\ excused \subseteq excused'
        /\ held' = held \/ held' = held \ {Wheel}
    BY <1>5 DEF WheelUp, WheelKey
  <2>2. \A a \in Wheel : Displayed(a)' = v[a]
    BY <1>2, <1>3, DisplayedIs, ControlAssumption
  <2>3. /\ \A a \in Attribute \ Wheel : shown'[a] = shown[a]
        /\ \A a \in Attribute \ excused' : a \in Wheel => shown'[a] = v[a]
    <3>1. CASE WheelUp(v)
      BY <3>1 DEF WheelUp
    <3>2. CASE WheelKey(v)
      BY <1>1, <1>2, <3>2, MoveType DEF WheelKey
    <3>3. QED
      BY <1>5, <3>1, <3>2
  <2>4. \A a \in Attribute \ Wheel : Displayed(a)' = Displayed(a)
    BY <2>3, DisplayedIs
  <2>5. WheelOK'
    BY <1>3, <2>3 DEF WheelOK
  <2>6. AgreeOK' /\ KnownOK'
    BY <1>2, <2>1, <2>2, <2>4, AgreeCommit
  <2>7. QED
    BY <2>5, <2>6
<1>6. QED
  BY <1>4, <1>5

LEMMA TabAgrees ==
  ASSUME ControlsInv, NEW t \in {"white", "color"}, SetTab(t)
  PROVE  AgreeOK' /\ KnownOK' /\ WheelOK'
<1>1. /\ held' = held \ (held \cap {Wheel, ColorTemp})
      /\ excused' = excused \cup UNION (held \cap {Wheel, ColorTemp}) /\ local' = shown
      /\ UNCHANGED <<light, device, commands, lastSent, shown>>
  BY DEF SetTab, Abandoned, worldVars, polledVars
<1>2. WheelOK'
  BY <1>1 DEF WheelOK
<1>3. \A a \in Attribute \ excused' : Displayed(a)' = Displayed(a)
  <2>1. SUFFICES ASSUME NEW a \in Attribute \ excused' PROVE Displayed(a)' = Displayed(a)
    OBVIOUS
  <2>2. Displayed(a)' = shown[a]
    BY <1>1, DisplayedIs
  <2>3. Displayed(a) = shown[a]
    BY <1>1, DisplayedIs DEF ControlsInv, WheelOK
  <2>4. QED
    BY <2>2, <2>3
<1>4. \A a \in Attribute \ excused' : a \notin excused /\ (Owned(a) => Owned(a)')
  BY <1>1 DEF Owned
<1>5. QED
  BY <1>1, <1>2, <1>3, <1>4, AgreeFrame

LEMMA PollAgrees ==
  ASSUME ControlsInv, Poll
  PROVE  AgreeOK' /\ KnownOK' /\ WheelOK'
<1>1. ControlsTypeOK
  BY DEF ControlsInv, GestureInv
<1>2. \A a \in Attribute : a \notin excused' =>
          IF light[a] = device[a] THEN a \notin excused
          ELSE /\ shown[a] = light[a] \/ (~dragging /\ light[a] # lastSent[a])
               /\ a \in Wheel => local'[a] = shown'[a]
  BY DEF Poll
<1>3. ASSUME NEW a \in Attribute \ excused', light[a] = device[a]
      PROVE  a \notin excused /\ shown'[a] = shown[a] /\ local'[a] = local[a]
  <2>1. ~Resyncs(a)
    BY <1>3 DEF Resyncs
  <2>2. QED
    BY <1>1, <1>2, <1>3, <2>1, PollFacts
<1>4. ASSUME NEW a \in Attribute \ excused', light[a] # device[a]
      PROVE  shown'[a] = light[a] /\ (a \in Wheel => local'[a] = shown'[a])
  <2>1. light[a] # Unknown
    BY <1>4 DEF ControlsInv, KnownOK
  <2>2. Resyncs(a) \/ shown[a] = light[a]
    BY <1>2, <1>4, <2>1 DEF Resyncs
  <2>3. QED
    BY <1>1, <1>2, <1>4, <2>2, PollFacts
<1>5. WheelOK'
  BY <1>1, <1>3, <1>4, PollFacts DEF ControlsInv, WheelOK
<1>6. AgreeOK'
  <2>1. SUFFICES ASSUME NEW a \in Attribute \ excused', ~Owned(a)'
                 PROVE  /\ Touched(a)' => \/ Displayed(a)' = device'[a]
                                          \/ Displayed(a)' = lastSent'[a] /\ LastSentIsLast(a)'
                        /\ ~Touched(a)' /\ light'[a] = device'[a]
                              => device'[a] = Unknown \/ Displayed(a)' = device'[a]
    BY DEF AgreeOK
  <2>2. CASE light[a] # device[a]
    BY <1>1, <1>4, <2>2, PollFacts, DisplayedIs
  <2>3. CASE light[a] = device[a]
    <3>1. a \notin excused /\ ~Owned(a) /\ (Touched(a)' <=> Touched(a))
          /\ (LastSentIsLast(a)' <=> LastSentIsLast(a))
      BY <1>1, <1>3, <2>1, <2>3, PollFacts DEF Owned, Touched, LastSentIsLast
    <3>2. Displayed(a)' = Displayed(a)
      BY <1>1, <1>3, <2>3, PollFacts, DisplayedIs
    <3>3. device'[a] = device[a] /\ light'[a] = light[a] /\ lastSent'[a] = lastSent[a]
      BY <1>1, <2>3, PollFacts
    <3>4. QED
      BY <3>1, <3>2, <3>3 DEF ControlsInv, AgreeOK
  <2>4. QED
    BY <2>2, <2>3
<1>7. KnownOK'
  BY <1>1, PollFacts DEF ControlsInv, KnownOK
<1>8. QED
  BY <1>5, <1>6, <1>7

LEMMA ObeyAgrees ==
  ASSUME ControlsInv, NEW i \in DOMAIN commands, LightObeys(i)
  PROVE  AgreeOK' /\ KnownOK' /\ WheelOK'
<1>1. ControlsTypeOK
  BY DEF ControlsInv, GestureInv
<1>2. /\ commands' = RemoveAt(commands, i) /\ excused' = excused \cup Overtaken(i)
      /\ UNCHANGED <<device, shown, local, tab, lastSent, held>>
  BY DEF LightObeys, polledVars, panelVars
<1>3. KnownOK'
  BY <1>1, <1>2, ObeyFacts, ControlAssumption DEF ControlsInv, KnownOK
<1>4. WheelOK'
  BY <1>2 DEF ControlsInv, WheelOK
<1>5. AgreeOK'
  <2>1. SUFFICES ASSUME NEW a \in Attribute \ excused', ~Owned(a)
                 PROVE  /\ Touched(a)' => \/ Displayed(a)' = device[a]
                                          \/ Displayed(a)' = lastSent[a] /\ LastSentIsLast(a)'
                        /\ ~Touched(a)' /\ light'[a] = device[a]
                              => device[a] = Unknown \/ Displayed(a)' = device[a]
    BY <1>2 DEF AgreeOK, Owned
  <2>2. Displayed(a)' = Displayed(a)
    BY <1>2, DisplayedIs
  <2>3. /\ Touched(a) => \/ Displayed(a) = device[a]
                         \/ Displayed(a) = lastSent[a] /\ LastSentIsLast(a)
        /\ ~Touched(a) /\ light[a] = device[a] => device[a] = Unknown \/ Displayed(a) = device[a]
    BY <1>2, <2>1 DEF ControlsInv, AgreeOK
  <2>4. light'[a] = IF a \in DOMAIN commands[i] THEN commands[i][a] ELSE light[a]
    BY <1>1, ObeyFacts
  <2>5. a \in DOMAIN commands[i] => \A j \in 1..(i - 1) : a \notin DOMAIN commands[j]
    BY <1>2, <2>1 DEF Overtaken
  <2>6. /\ Touched(a) <=> Touched(a)' \/ a \in DOMAIN commands[i]
        /\ a \notin DOMAIN commands[i] \/ Touched(a)' => (LastSentIsLast(a) => LastSentIsLast(a)')
        /\ a \in DOMAIN commands[i] /\ ~Touched(a)' /\ LastSentIsLast(a)
              => commands[i][a] = lastSent[a]
    BY <1>1, <1>2, <2>5, RemovedOrder
  <2>7. QED
    BY <2>2, <2>3, <2>4, <2>6
<1>6. QED
  BY <1>3, <1>4, <1>5

LEMMA LostAgrees ==
  ASSUME ControlsInv, NEW i \in DOMAIN commands, CommandLost(i)
  PROVE  AgreeOK' /\ KnownOK' /\ WheelOK'
<1>1. /\ commands' = RemoveAt(commands, i)
      /\ excused' = excused \cup DOMAIN commands[i]
      /\ UNCHANGED <<light, device, shown, local, tab, lastSent, held>>
  BY DEF CommandLost, polledVars, panelVars
<1>2. \A a \in Attribute :
          /\ Touched(a) <=> Touched(a)' \/ a \in DOMAIN commands[i]
          /\ a \notin DOMAIN commands[i] => (LastSentIsLast(a) => LastSentIsLast(a)')
  BY <1>1, RemovedOrder DEF ControlsInv, GestureInv
<1>3. KnownOK' /\ WheelOK'
  BY <1>1 DEF ControlsInv, KnownOK, WheelOK
<1>4. ASSUME NEW a \in Attribute \ excused'
      PROVE  /\ a \notin excused /\ (Touched(a)' <=> Touched(a)) /\ (Owned(a)' <=> Owned(a))
             /\ Displayed(a)' = Displayed(a) /\ (LastSentIsLast(a) => LastSentIsLast(a)')
  BY <1>1, <1>2, <1>4, DisplayedIs DEF Owned
<1>5. AgreeOK'
  BY <1>1, <1>4 DEF ControlsInv, AgreeOK
<1>6. QED
  BY <1>3, <1>5

LEMMA OthersAgree ==
  ASSUME ControlsInv,
         SomeoneSwitches \/ \E b \in Attribute, v \in Value : SomeoneChanges(b, v)
  PROVE  AgreeOK' /\ KnownOK' /\ WheelOK'
<1>1. /\ excused \subseteq excused'
      /\ UNCHANGED <<commands, device, shown, local, tab, lastSent, held>>
  BY DEF SomeoneSwitches, SomeoneChanges, polledVars, panelVars, ghosts
<1>2. ASSUME NEW a \in Attribute
      PROVE  (a \notin excused' => light'[a] = light[a]) /\ (light'[a] = Unknown => light[a] = Unknown)
  <2>1. CASE SomeoneSwitches
    BY <2>1 DEF SomeoneSwitches
  <2>2. ASSUME NEW b \in Attribute, NEW v \in Value, SomeoneChanges(b, v)
        PROVE  /\ a \notin excused' => light'[a] = light[a]
               /\ light'[a] = Unknown => light[a] = Unknown
    BY <2>2, ControlAssumption DEF SomeoneChanges, ControlsInv, GestureInv, ControlsTypeOK
  <2>3. QED
    BY <2>1, <2>2
<1>3. KnownOK' /\ WheelOK'
  BY <1>1, <1>2 DEF ControlsInv, KnownOK, WheelOK
<1>4. ASSUME NEW a \in Attribute \ excused'
      PROVE  /\ a \notin excused /\ (Touched(a)' <=> Touched(a)) /\ (Owned(a)' <=> Owned(a))
             /\ Displayed(a)' = Displayed(a) /\ (LastSentIsLast(a)' <=> LastSentIsLast(a))
  BY <1>1, <1>4, DisplayedIs DEF Owned, Touched, LastSentIsLast
<1>5. AgreeOK'
  BY <1>1, <1>2, <1>4 DEF ControlsInv, AgreeOK
<1>6. QED
  BY <1>3, <1>5

LEMMA ControlsStep == ControlsInv /\ [Next]_vars => ControlsInv'
<1> SUFFICES ASSUME ControlsInv, [Next]_vars PROVE ControlsInv'
  OBVIOUS
<1>1. GestureInv'
  BY GestureStep DEF ControlsInv
<1>2. CASE UNCHANGED vars
  <2>1. /\ UNCHANGED <<light, device, commands, lastSent, excused, shown, local, tab, held>>
    BY <1>2 DEF vars, worldVars, polledVars, panelVars, ghosts
  <2>2. WheelOK'
    BY <2>1 DEF ControlsInv, WheelOK
  <2>3. AgreeOK' /\ KnownOK'
    BY <2>1, AgreeFrame, DisplayedIs DEF Owned
  <2>4. QED
    BY <1>1, <2>2, <2>3 DEF ControlsInv
<1>3. CASE Next
  <2>1. AgreeOK' /\ KnownOK' /\ WheelOK'
    BY <1>3, SliderAgrees, WheelAgrees, TabAgrees, PollAgrees, ObeyAgrees, LostAgrees, OthersAgree
    DEF Next
  <2>2. QED
    BY <1>1, <2>1 DEF ControlsInv
<1>4. QED
  BY <1>2, <1>3

LEMMA ControlsStart == Init => ControlsInv
<1> SUFFICES ASSUME Init PROVE ControlsInv
  OBVIOUS
<1>1. GestureInv
  BY GestureStart
<1>2. commands = <<>> /\ device = light /\ local = shown /\ excused = {}
  BY DEF Init
<1>3. \A a \in Attribute : ~Touched(a)
  BY <1>2 DEF Touched
<1>4. \A a \in Attribute : device[a] = Unknown \/ Displayed(a) = device[a]
  BY DisplayedIs DEF Init
<1>5. QED
  BY <1>1, <1>2, <1>3, <1>4 DEF ControlsInv, KnownOK, WheelOK, AgreeOK

\* When everything has arrived, the panel shows the light, outside the excuses listed with
\* the property: no order of gestures, commands and polls leaves it wrong otherwise.
THEOREM ControlsAgree == Spec => []ControlsAgreeWhenQuiet
<1>1. ControlsInv => ControlsAgreeWhenQuiet
  <2>1. SUFFICES ASSUME ControlsInv, Quiet, NEW a \in Attribute \ excused
                 PROVE  device[a] = Unknown \/ Displayed(a) = device[a]
    BY DEF ControlsAgreeWhenQuiet
  <2>2. ~Touched(a) /\ ~Owned(a) /\ light[a] = device[a]
    BY <2>1 DEF Quiet, Touched, Owned
  <2>3. QED
    BY <2>1, <2>2 DEF ControlsInv, AgreeOK
<1>2. QED
  BY <1>1, ControlsStart, ControlsStep, PTL DEF Spec
=============================================================================
