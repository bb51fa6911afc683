---------------------------- MODULE ThreadProofs ----------------------------
(***************************************************************************)
(* Proofs about the threads of the backend that run beside the pipeline:   *)
(* the automation rules, for any sensors and lights, and the event streams *)
(* of the dashboards, for any streams and executor threads.                *)
(***************************************************************************)
EXTENDS Automation, EventStreams, FiniteSetTheorems, TLAPS

Report == [sensor : Sensor, closed : BOOLEAN]

\* The types in parts, one for each kind of value.
FlagsType ==
    /\ closed \in [Sensor -> BOOLEAN] /\ ruleName \in BOOLEAN /\ lit \in [Light -> BOOLEAN]

QueuesType ==
    /\ named \in Sensor /\ coming \in Seq(Report) /\ reading \in Report \cup {NoReport}
    /\ switching \in Seq(Light) /\ night \in Seq(Light)
    /\ outbox \in Seq([light : Light, on : BOOLEAN])

CountsType ==
    /\ openings \in Nat /\ handovers \in Nat /\ faults \in Nat /\ nights \in Nat
    /\ switched \in [Light -> Nat]

WordsType ==
    /\ previous \in {"unknown", "closed", "open"}
    /\ due \in [Light -> {"on", "off", "any"}]

AutomationTypeOK == FlagsType /\ QueuesType /\ CountsType /\ WordsType

\* The loops of the rules are over what is left of the lights in the settings, and
\* the MQTT thread reads nothing while it is in one.
LoopsOK ==
    /\ IsInjective(switching) /\ ToSet(switching) \subseteq ToSet(DoorLights)
    /\ IsInjective(night) /\ ToSet(night) \subseteq ToSet(NightLights)
    /\ reading # NoReport => switching = <<>>

\* The report in hand is for the door rule.
InHand == reading # NoReport /\ ruleName

\* Sensor s has nothing on its way after position i.
Silent(s, i) == \A k \in (i + 1)..Len(coming) : coming[k].sensor # s

\* The next report of s after position i is of an open contact.
SaysOpen(s, i) ==
    \E j \in (i + 1)..Len(coming) :
        /\ coming[j].sensor = s /\ ~coming[j].closed
        /\ \A k \in (i + 1)..(j - 1) : coming[k].sensor # s

\* What s says next after position i, which is its contact as it is when nothing is on its way.
NextIsOpen(s, i) == SaysOpen(s, i) \/ (Silent(s, i) /\ ~closed[s])

\* The reports on their way that are followed by an opening.
Edges ==
    {i \in 1..Len(coming) : coming[i].closed /\ NextIsOpen(coming[i].sensor, i)}

\* The door rule will fire, or has the report in hand that makes it fire, before any opening
\* that Edges counts.
Armed == IF InHand THEN reading.closed ELSE previous = "closed"

Fires ==
    \/ InHand /\ previous = "closed" /\ ~reading.closed
    \/ Armed /\ NextIsOpen(named, 0)

Left(l) == IF l \in ToSet(switching) THEN 1 ELSE 0

\* The turns the reports on their way may still cause.
Debt == Cardinality(Edges) + (IF Fires THEN 1 ELSE 0)

\* Every opening or handover pays for one turn of the loop: done, to be done, or still to be
\* caused by what is on its way.
Charge(l) == switched[l] + Left(l) + Debt

PaidFor == \A l \in Light : Charge(l) <= openings + handovers

EdgeInv == AutomationTypeOK /\ LoopsOK /\ PaidFor

-----------------------------------------------------------------------------
\* The reports on their way make the rule fire.
WillFire ==
    \/ InHand /\ previous = "closed" /\ ~reading.closed
    \/ \E j \in 1..Len(coming) :
          /\ coming[j].sensor = named /\ ~coming[j].closed
          /\ \/ previous = "closed"
             \/ InHand /\ reading.closed
             \/ \E i \in 1..(j - 1) : coming[i].sensor = named /\ coming[i].closed

\* They would, if the sensor repeated its contact now.
MayFire ==
    \/ WillFire
    \/ /\ ~closed[named]
       /\ \/ previous = "closed"
          \/ InHand /\ reading.closed
          \/ \E i \in 1..Len(coming) : coming[i].sensor = named /\ coming[i].closed

\* No command on its way is about l.
NoneFor(l) == \A j \in 1..Len(outbox) : outbox[j].light # l

\* What the light will be once the commands have arrived.
WillBe(l, on) ==
    \/ lit[l] = on /\ NoneFor(l)
    \/ \E i \in 1..Len(outbox) :
          /\ outbox[i] = Command(l, on)
          /\ \A j \in (i + 1)..Len(outbox) : outbox[j].light # l

OnOK(l) ==
    due[l] = "on" => /\ l \in ToSet(DoorLights) /\ l \notin ToSet(night)
                     /\ WillFire \/ l \in ToSet(switching) \/ WillBe(l, TRUE)

OffOK(l) ==
    due[l] = "off" => /\ l \in ToSet(NightLights) /\ l \notin ToSet(switching)
                      /\ l \in ToSet(DoorLights) => ~MayFire
                      /\ l \in ToSet(night) \/ WillBe(l, FALSE)

DueInv == AutomationTypeOK /\ LoopsOK /\ \A l \in Light : OnOK(l) /\ OffOK(l)

-----------------------------------------------------------------------------
\* Lemmas about sequences.

LEMMA TailFacts ==
  ASSUME NEW S, NEW q \in Seq(S), q # <<>>
  PROVE  /\ Tail(q) \in Seq(S) /\ Head(q) \in S /\ Head(q) = q[1]
         /\ Len(q) \in Nat /\ Len(q) >= 1 /\ Len(Tail(q)) = Len(q) - 1
         /\ \A i \in 1..Len(Tail(q)) : Tail(q)[i] = q[i + 1]
  OBVIOUS

LEMMA AppendFacts ==
  ASSUME NEW S, NEW q \in Seq(S), NEW x \in S
  PROVE  /\ Append(q, x) \in Seq(S) /\ Len(q) \in Nat /\ Len(Append(q, x)) = Len(q) + 1
         /\ Append(q, x)[Len(q) + 1] = x
         /\ \A i \in 1..Len(q) : Append(q, x)[i] = q[i]
  OBVIOUS

LEMMA ToSetFacts ==
  ASSUME NEW S, NEW q \in Seq(S)
  PROVE  /\ ToSet(q) \subseteq S
         /\ \A x : x \in ToSet(q) <=> \E i \in 1..Len(q) : q[i] = x
  BY DEF ToSet

LEMMA EmptyFacts ==
  ToSet(<<>>) = {} /\ IsInjective(<<>>) /\ Len(<<>>) = 0 /\ \A S : <<>> \in Seq(S)
  BY DEF ToSet, IsInjective

\* What is left of a loop after one turn.
LEMMA LoopTurn ==
  ASSUME NEW S, NEW q \in Seq(S), q # <<>>, IsInjective(q)
  PROVE  /\ IsInjective(Tail(q)) /\ ToSet(Tail(q)) = ToSet(q) \ {Head(q)}
         /\ Head(q) \in ToSet(q)
<1>1. /\ Tail(q) \in Seq(S) /\ Head(q) = q[1] /\ Len(q) \in Nat /\ Len(q) >= 1
      /\ Len(Tail(q)) = Len(q) - 1
      /\ \A i \in 1..Len(Tail(q)) : Tail(q)[i] = q[i + 1]
  BY TailFacts
<1>2. DOMAIN q = 1..Len(q) /\ DOMAIN Tail(q) = 1..Len(Tail(q))
  BY <1>1
<1>3. IsInjective(Tail(q))
  BY <1>1, <1>2 DEF IsInjective
<1>4. Head(q) \in ToSet(q)
  BY <1>1, <1>2 DEF ToSet
<1>5. ASSUME NEW x \in ToSet(Tail(q)) PROVE x \in ToSet(q) \ {Head(q)}
  <2>1. PICK i \in 1..Len(Tail(q)) : Tail(q)[i] = x
    BY <1>2, <1>5 DEF ToSet
  <2>2. q[i + 1] = x /\ i + 1 \in 1..Len(q) /\ i + 1 # 1
    BY <1>1, <2>1
  <2>3. QED
    BY <1>1, <1>2, <2>2 DEF ToSet, IsInjective
<1>6. ASSUME NEW x \in ToSet(q), x # Head(q) PROVE x \in ToSet(Tail(q))
  <2>1. PICK i \in 1..Len(q) : q[i] = x
    BY <1>2, <1>6 DEF ToSet
  <2>2. i - 1 \in 1..Len(Tail(q)) /\ Tail(q)[i - 1] = x
    BY <1>1, <1>6, <2>1
  <2>3. QED
    BY <1>2, <2>2 DEF ToSet
<1>7. QED
  BY <1>3, <1>4, <1>5, <1>6

LEMMA LightLists ==
  /\ DoorLights \in Seq(Light) /\ NightLights \in Seq(Light)
  /\ ToSet(DoorLights) \subseteq Light /\ ToSet(NightLights) \subseteq Light
  BY AutomationAssumption DEF Light

-----------------------------------------------------------------------------
\* Types and loops.

LEMMA AutomationStart ==
  ASSUME AutomationInit
  PROVE  AutomationTypeOK /\ LoopsOK
<1>1. FlagsType
  BY Zenon DEF AutomationInit, FlagsType
<1>2. QueuesType
  BY DEF AutomationInit, QueuesType
<1>3. CountsType
  BY DEF AutomationInit, CountsType
<1>4. WordsType
  BY DEF AutomationInit, WordsType, Unclear
<1>5. switching = <<>> /\ night = <<>> /\ reading = NoReport
  BY DEF AutomationInit
<1>6. LoopsOK
  BY <1>5, EmptyFacts, Zenon DEF LoopsOK
<1>7. QED
  BY <1>1, <1>2, <1>3, <1>4, <1>6 DEF AutomationTypeOK

LEMMA FlagsStep ==
  ASSUME AutomationTypeOK, AutomationNext
  PROVE  FlagsType'
<1> USE DEF roomVars, ruleVars
<1>1. closed' \in [Sensor -> BOOLEAN]
  <2>1. closed' = closed \/ \E s \in Sensor, b \in BOOLEAN : closed' = [closed EXCEPT ![s] = b]
    BY Zenon
    DEF AutomationNext, DoorOpens, DoorCloses, SensorRepeats, NamePasses, TakeReport, Evaluate,
        WriteFails, SwitchOn, SwitchOnFails, Midnight, SwitchOff, SwitchOffFails, LightObeys,
        LightMisses, ReportsLost, RestartRules
  <2>2. QED
    BY <2>1 DEF AutomationTypeOK, FlagsType
<1>2. ruleName' \in BOOLEAN
  <2>1. ruleName' = ruleName \/ ruleName' = (Head(coming).sensor = named)
    BY Zenon
    DEF AutomationNext, DoorOpens, DoorCloses, SensorRepeats, NamePasses, TakeReport, Evaluate,
        WriteFails, SwitchOn, SwitchOnFails, Midnight, SwitchOff, SwitchOffFails, LightObeys,
        LightMisses, ReportsLost, RestartRules
  <2>2. QED
    BY <2>1 DEF AutomationTypeOK, FlagsType
<1>3. lit' \in [Light -> BOOLEAN]
  <2>1. lit' = lit \/ LightObeys
    BY Zenon
    DEF AutomationNext, DoorOpens, DoorCloses, SensorRepeats, NamePasses, TakeReport, Evaluate,
        WriteFails, SwitchOn, SwitchOnFails, Midnight, SwitchOff, SwitchOffFails,
        LightMisses, ReportsLost, RestartRules
  <2>2. CASE LightObeys
    <3>1. outbox \in Seq([light : Light, on : BOOLEAN]) /\ outbox # <<>>
      BY <2>2 DEF LightObeys, AutomationTypeOK, QueuesType
    <3>2. Head(outbox) \in [light : Light, on : BOOLEAN]
      BY <3>1, TailFacts
    <3>3. Head(outbox).on \in BOOLEAN
      BY <3>2
    <3>4. QED
      BY <2>2, <3>3 DEF LightObeys, AutomationTypeOK, FlagsType
  <2>3. QED
    BY <2>1, <2>2 DEF AutomationTypeOK, FlagsType
<1>4. QED
  BY <1>1, <1>2, <1>3 DEF FlagsType

\* What the steps make of the queues.
LEMMA QueuesStep ==
  ASSUME AutomationTypeOK, AutomationNext
  PROVE  QueuesType'
<1> DEFINE Known == [light : Light, on : BOOLEAN]
<1> USE DEF roomVars, ruleVars
<1>1. \A l \in Light, on \in BOOLEAN : Append(outbox, Command(l, on)) \in Seq(Known)
  BY DEF AutomationTypeOK, QueuesType, Command
<1>2. ASSUME NEW s \in Sensor, DoorOpens(s) \/ DoorCloses(s) \/ SensorRepeats(s)
      PROVE  QueuesType'
  <2>1. \A b \in BOOLEAN : Append(coming, [sensor |-> s, closed |-> b]) \in Seq(Report)
    BY DEF AutomationTypeOK, QueuesType, Report
  <2>2. closed[s] \in BOOLEAN
    BY DEF AutomationTypeOK, FlagsType
  <2>3. coming' \in Seq(Report)
    BY <1>2, <2>1, <2>2 DEF DoorOpens, DoorCloses, SensorRepeats, Send
  <2>4. UNCHANGED <<named, reading, switching, night, outbox>>
    BY <1>2 DEF DoorOpens, DoorCloses, SensorRepeats
  <2>5. QED
    BY <2>3, <2>4 DEF AutomationTypeOK, QueuesType
<1>3. ASSUME NEW s \in Sensor, NamePasses(s) PROVE QueuesType'
  BY <1>3 DEF NamePasses, AutomationTypeOK, QueuesType
<1>4. CASE TakeReport
  BY <1>4, TailFacts DEF TakeReport, AutomationTypeOK, QueuesType
<1>5. CASE Evaluate
  <2>1. switching' \in {switching, DoorLights, <<>>} /\ reading' = NoReport
    BY <1>5, Zenon DEF Evaluate
  <2>2. switching' \in Seq(Light)
    BY <2>1, LightLists, EmptyFacts, Zenon DEF AutomationTypeOK, QueuesType
  <2>3. UNCHANGED <<named, coming, night, outbox>>
    BY <1>5 DEF Evaluate
  <2>4. QED
    BY <2>1, <2>2, <2>3 DEF AutomationTypeOK, QueuesType
<1>6. CASE WriteFails \/ ReportsLost \/ RestartRules
  <2>1. /\ coming' \in {coming, <<>>} /\ reading' \in {reading, NoReport} /\ named' = named
        /\ switching' \in {switching, <<>>} /\ night' \in {night, <<>>}
        /\ outbox' \in {outbox, <<>>}
    BY <1>6 DEF WriteFails, ReportsLost, RestartRules
  <2>2. /\ coming' \in Seq(Report) /\ switching' \in Seq(Light) /\ night' \in Seq(Light)
        /\ outbox' \in Seq(Known)
    BY <2>1, EmptyFacts, Zenon DEF AutomationTypeOK, QueuesType
  <2>3. QED
    BY <2>1, <2>2 DEF AutomationTypeOK, QueuesType
<1>7. CASE SwitchOn \/ SwitchOnFails
  <2>1. Head(switching) \in Light /\ Tail(switching) \in Seq(Light)
    BY <1>7, TailFacts DEF SwitchOn, SwitchOnFails, AutomationTypeOK, QueuesType
  <2>2. outbox' \in Seq(Known)
    BY <1>1, <1>7, <2>1 DEF SwitchOn, SwitchOnFails, AutomationTypeOK, QueuesType
  <2>3. switching' \in {Tail(switching), <<>>} /\ UNCHANGED <<named, coming, reading, night>>
    BY <1>7 DEF SwitchOn, SwitchOnFails
  <2>4. switching' \in Seq(Light)
    BY <2>1, <2>3, EmptyFacts, Zenon
  <2>5. QED
    BY <2>2, <2>3, <2>4 DEF AutomationTypeOK, QueuesType
<1>8. CASE Midnight
  BY <1>8, LightLists DEF Midnight, AutomationTypeOK, QueuesType
<1>9. CASE SwitchOff \/ SwitchOffFails
  <2>1. Head(night) \in Light /\ Tail(night) \in Seq(Light)
    BY <1>9, TailFacts DEF SwitchOff, SwitchOffFails, AutomationTypeOK, QueuesType
  <2>2. outbox' \in Seq(Known)
    BY <1>1, <1>9, <2>1 DEF SwitchOff, SwitchOffFails, AutomationTypeOK, QueuesType
  <2>3. night' \in {Tail(night), <<>>} /\ UNCHANGED <<named, coming, reading, switching>>
    BY <1>9 DEF SwitchOff, SwitchOffFails
  <2>4. night' \in Seq(Light)
    BY <2>1, <2>3, EmptyFacts, Zenon
  <2>5. QED
    BY <2>2, <2>3, <2>4 DEF AutomationTypeOK, QueuesType
<1>10. CASE LightObeys \/ LightMisses
  <2>1. outbox' \in Seq(Known) /\ UNCHANGED <<named, coming, reading, switching, night>>
    BY <1>10, TailFacts DEF LightObeys, LightMisses, AutomationTypeOK, QueuesType
  <2>2. QED
    BY <2>1 DEF AutomationTypeOK, QueuesType
<1>11. QED
  BY <1>2, <1>3, <1>4, <1>5, <1>6, <1>7, <1>8, <1>9, <1>10 DEF AutomationNext

LEMMA CountsStep ==
  ASSUME AutomationTypeOK, AutomationNext
  PROVE  CountsType'
<1> USE DEF roomVars, ruleVars
<1>1. /\ openings' \in {openings, openings + 1} /\ handovers' \in {handovers, handovers + 1}
      /\ faults' \in {faults, faults + 1} /\ nights' \in {nights, nights + 1}
  BY DEF AutomationNext, DoorOpens, DoorCloses, SensorRepeats, NamePasses, TakeReport, Evaluate,
        WriteFails, SwitchOn, SwitchOnFails, Midnight, SwitchOff, SwitchOffFails, LightObeys,
        LightMisses, ReportsLost, RestartRules, SomethingFails
<1>2. switched' = switched \/ switched' = [switched EXCEPT ![Head(switching)] = @ + 1]
  BY DEF AutomationNext, DoorOpens, DoorCloses, SensorRepeats, NamePasses, TakeReport, Evaluate,
        WriteFails, SwitchOn, SwitchOnFails, Midnight, SwitchOff, SwitchOffFails, LightObeys,
        LightMisses, ReportsLost, RestartRules, SomethingFails
<1>3. QED
  BY <1>1, <1>2 DEF AutomationTypeOK, CountsType

LEMMA WordsStep ==
  ASSUME AutomationTypeOK, AutomationNext
  PROVE  WordsType'
<1> USE DEF roomVars, ruleVars
<1>1. previous' \in {previous, "unknown", "closed", "open"}
  BY DEF AutomationNext, DoorOpens, DoorCloses, SensorRepeats, NamePasses, TakeReport, Evaluate,
        WriteFails, SwitchOn, SwitchOnFails, Midnight, SwitchOff, SwitchOffFails, LightObeys,
        LightMisses, ReportsLost, RestartRules
<1>2. due' \in {due, Unclear} \/ Midnight \/ \E s \in Sensor : DoorOpens(s)
  BY DEF AutomationNext, DoorCloses, SensorRepeats, NamePasses, TakeReport, Evaluate,
        WriteFails, SwitchOn, SwitchOnFails, SwitchOff, SwitchOffFails, LightObeys,
        LightMisses, ReportsLost, RestartRules
<1>3. CASE Midnight \/ \E s \in Sensor : DoorOpens(s)
  BY <1>1, <1>3 DEF Midnight, DoorOpens, AutomationTypeOK, WordsType
<1>4. QED
  BY <1>1, <1>2, <1>3 DEF Unclear, AutomationTypeOK, WordsType

LEMMA TypeStep ==
  ASSUME AutomationTypeOK, [AutomationNext]_automationVars
  PROVE  AutomationTypeOK'
<1>1. CASE AutomationNext
  BY <1>1, FlagsStep, QueuesStep, CountsStep, WordsStep DEF AutomationTypeOK
<1>2. CASE UNCHANGED automationVars
  BY <1>2
  DEF automationVars, roomVars, ruleVars, AutomationTypeOK, FlagsType, QueuesType, CountsType,
      WordsType
<1>3. QED
  BY <1>1, <1>2

LEMMA LoopsStep ==
  ASSUME AutomationTypeOK, LoopsOK, [AutomationNext]_automationVars
  PROVE  LoopsOK'
<1> USE DEF roomVars, ruleVars
<1>1. CASE UNCHANGED <<switching, night, reading>>
  BY <1>1 DEF LoopsOK
<1>2. CASE TakeReport
  BY <1>2 DEF TakeReport, LoopsOK
<1>3. CASE Evaluate
  BY <1>3, EmptyFacts, AutomationAssumption DEF Evaluate, LoopsOK
<1>4. CASE WriteFails \/ RestartRules
  BY <1>4, EmptyFacts DEF WriteFails, RestartRules, LoopsOK
<1>5. CASE SwitchOn \/ SwitchOnFails
  <2>1. IsInjective(Tail(switching)) /\ ToSet(Tail(switching)) \subseteq ToSet(DoorLights)
    BY <1>5, LoopTurn DEF SwitchOn, SwitchOnFails, AutomationTypeOK, QueuesType, LoopsOK
  <2>2. QED
    BY <1>5, <2>1, EmptyFacts DEF SwitchOn, SwitchOnFails, LoopsOK
<1>6. CASE Midnight
  BY <1>6, AutomationAssumption DEF Midnight, LoopsOK
<1>7. CASE SwitchOff \/ SwitchOffFails
  <2>1. IsInjective(Tail(night)) /\ ToSet(Tail(night)) \subseteq ToSet(NightLights)
    BY <1>7, LoopTurn DEF SwitchOff, SwitchOffFails, AutomationTypeOK, QueuesType, LoopsOK
  <2>2. QED
    BY <1>7, <2>1, EmptyFacts DEF SwitchOff, SwitchOffFails, LoopsOK
<1>8. QED
  BY <1>1, <1>2, <1>3, <1>4, <1>5, <1>6, <1>7
  DEF AutomationNext, automationVars, DoorOpens, DoorCloses, SensorRepeats, NamePasses,
      LightObeys, LightMisses, ReportsLost

-----------------------------------------------------------------------------
\* Openings on their way.

LEMMA ReportFacts ==
  ASSUME AutomationTypeOK
  PROVE  /\ Len(coming) \in Nat
         /\ \A i \in 1..Len(coming) : coming[i].sensor \in Sensor /\ coming[i].closed \in BOOLEAN
         /\ \A s \in Sensor : closed[s] \in BOOLEAN
<1>1. coming \in Seq(Report)
  BY DEF AutomationTypeOK, QueuesType
<1>2. Len(coming) \in Nat /\ \A i \in 1..Len(coming) : coming[i] \in Report
  BY <1>1
<1>3. \A s \in Sensor : closed[s] \in BOOLEAN
  BY DEF AutomationTypeOK, FlagsType
<1>4. QED
  BY <1>2, <1>3 DEF Report

LEMMA EdgesAreFinite ==
  ASSUME AutomationTypeOK
  PROVE  IsFiniteSet(Edges) /\ Cardinality(Edges) \in Nat
<1>1. Len(coming) \in Nat
  BY ReportFacts
<1>2. IsFiniteSet(1..Len(coming))
  BY <1>1, FS_Interval
<1>3. QED
  BY <1>2, FS_Subset, FS_CardinalityType DEF Edges

\* What a new report of s does to what is said after a position.
LEMMA SaidAfterSend ==
  ASSUME AutomationTypeOK, NEW s \in Sensor, NEW c \in BOOLEAN,
         coming' = Append(coming, [sensor |-> s, closed |-> c]),
         NEW t \in Sensor, NEW i \in 0..Len(coming)
  PROVE  /\ Silent(t, i)' <=> Silent(t, i) /\ t # s
         /\ SaysOpen(t, i)' <=> SaysOpen(t, i) \/ (t = s /\ ~c /\ Silent(s, i))
<1> DEFINE n == Len(coming)
<1>1. /\ n \in Nat /\ Len(coming') = n + 1
      /\ coming'[n + 1].sensor = s /\ coming'[n + 1].closed = c
      /\ \A k \in 1..n : coming'[k] = coming[k]
  BY DEF AutomationTypeOK, QueuesType, Report
<1> HIDE DEF n
<1>2. i \in Nat /\ i <= n /\ Len(coming) = n
  BY <1>1 DEF n
<1>3. Silent(t, i)' <=> Silent(t, i) /\ t # s
  BY <1>1, <1>2 DEF Silent
<1>4. ASSUME SaysOpen(t, i) PROVE SaysOpen(t, i)'
  BY <1>1, <1>2, <1>4 DEF SaysOpen
<1>5. ASSUME t = s, ~c, Silent(s, i) PROVE SaysOpen(t, i)'
  <2>1. n + 1 \in (i + 1)..Len(coming')
    BY <1>1, <1>2
  <2>2. \A k \in (i + 1)..(n + 1 - 1) : coming'[k].sensor # s
    BY <1>1, <1>2, <1>5 DEF Silent
  <2>3. QED
    BY <1>1, <1>5, <2>1, <2>2 DEF SaysOpen
<1>6. ASSUME SaysOpen(t, i)' PROVE SaysOpen(t, i) \/ (t = s /\ ~c /\ Silent(s, i))
  <2>1. PICK j \in (i + 1)..Len(coming') :
               /\ coming'[j].sensor = t /\ ~coming'[j].closed
               /\ \A k \in (i + 1)..(j - 1) : coming'[k].sensor # t
    BY <1>6 DEF SaysOpen
  <2>2. CASE j <= n
    <3>1. j \in (i + 1)..n /\ \A k \in (i + 1)..(j - 1) : k \in 1..n
      BY <1>1, <1>2, <2>1, <2>2
    <3>2. QED
      BY <1>1, <1>2, <2>1, <3>1 DEF SaysOpen
  <2>3. CASE j = n + 1
    <3>1. \A k \in (i + 1)..n : coming[k].sensor # t
      BY <1>1, <1>2, <2>1, <2>3
    <3>2. QED
      BY <1>1, <1>2, <2>1, <2>3, <3>1 DEF Silent
  <2>4. QED
    BY <1>1, <1>2, <2>1, <2>2, <2>3
<1>7. QED
  BY <1>3, <1>4, <1>5, <1>6

\* A report is sent, and the contact is what it says.
LEMMA EdgesAfterSend ==
  ASSUME AutomationTypeOK, NEW s \in Sensor, NEW c \in BOOLEAN,
         coming' = Append(coming, [sensor |-> s, closed |-> c]),
         closed' = [closed EXCEPT ![s] = c]
  PROVE  /\ \A t \in Sensor, i \in 0..Len(coming) :
               NextIsOpen(t, i)' => NextIsOpen(t, i) \/ (t = s /\ ~c /\ closed[s] /\ Silent(s, i))
         /\ \A i \in Edges' :
               \/ i \in Edges
               \/ ~c /\ closed[s] /\ i \in 1..Len(coming) /\ coming[i].sensor = s /\ Silent(s, i)
<1> DEFINE n == Len(coming)
<1>1. /\ n \in Nat /\ Len(coming') = n + 1
      /\ coming'[n + 1].sensor = s /\ coming'[n + 1].closed = c
      /\ \A k \in 1..n : coming'[k] = coming[k]
  BY DEF AutomationTypeOK, QueuesType, Report
<1>2. closed'[s] = c /\ \A t \in Sensor : t # s => closed'[t] = closed[t]
  BY DEF AutomationTypeOK, FlagsType
<1>3. ASSUME NEW t \in Sensor, NEW i \in 0..n, NextIsOpen(t, i)'
      PROVE  NextIsOpen(t, i) \/ (t = s /\ ~c /\ closed[s] /\ Silent(s, i))
  <2>1. /\ Silent(t, i)' <=> Silent(t, i) /\ t # s
        /\ SaysOpen(t, i)' <=> SaysOpen(t, i) \/ (t = s /\ ~c /\ Silent(s, i))
    BY SaidAfterSend
  <2>2. SaysOpen(t, i)' \/ (Silent(t, i)' /\ ~closed'[t])
    BY <1>3 DEF NextIsOpen
  <2>3. QED
    BY <1>2, <2>1, <2>2 DEF NextIsOpen
<1>4. ASSUME NEW i \in Edges'
      PROVE  \/ i \in Edges
             \/ ~c /\ closed[s] /\ i \in 1..n /\ coming[i].sensor = s /\ Silent(s, i)
  <2>1. i \in 1..(n + 1) /\ coming'[i].closed
    BY <1>1 DEF Edges
  <2>2. PICK t \in Sensor : t = coming'[i].sensor /\ NextIsOpen(t, i)'
    <3>1. coming'[i].sensor \in Sensor
      BY <1>1, <2>1, ReportFacts
    <3>2. \A t \in Sensor : t = coming'[i].sensor => NextIsOpen(t, i)'
      BY DEF Edges
    <3>3. QED
      BY <3>1, <3>2
  <2>3. CASE i = n + 1
    <3>1. c /\ t = s
      BY <1>1, <2>1, <2>2, <2>3
    <3>2. ~SaysOpen(t, i)'
      BY <1>1, <2>3 DEF SaysOpen
    <3>3. QED
      BY <1>2, <2>2, <3>1, <3>2 DEF NextIsOpen
  <2>4. CASE i \in 1..n
    <3>1. t = coming[i].sensor /\ coming[i].closed /\ i \in 0..n
      BY <1>1, <2>1, <2>2, <2>4
    <3>2. NextIsOpen(t, i) \/ (t = s /\ ~c /\ closed[s] /\ Silent(s, i))
      BY <1>3, <2>2, <3>1
    <3>3. QED
      BY <2>4, <3>1, <3>2 DEF Edges
  <2>5. QED
    BY <1>1, <2>1, <2>3, <2>4
<1>5. \A t \in Sensor, i \in 0..n :
        NextIsOpen(t, i)' => NextIsOpen(t, i) \/ (t = s /\ ~c /\ closed[s] /\ Silent(s, i))
  BY <1>3
<1>6. \A i \in Edges' :
        \/ i \in Edges
        \/ ~c /\ closed[s] /\ i \in 1..n /\ coming[i].sensor = s /\ Silent(s, i)
  BY <1>4
<1>7. QED
  BY <1>5, <1>6

LEMMA DebtType ==
  ASSUME AutomationTypeOK
  PROVE  Debt \in Nat
  BY EdgesAreFinite DEF Debt

LEMMA NextDebtType ==
  ASSUME AutomationTypeOK'
  PROVE  Debt' \in Nat
<1>1. Len(coming') \in Nat
  BY DEF AutomationTypeOK, QueuesType
<1>2. IsFiniteSet(1..Len(coming')) /\ Edges' \subseteq 1..Len(coming')
  BY <1>1, FS_Interval DEF Edges
<1>3. Cardinality(Edges') \in Nat
  BY <1>2, FS_Subset, FS_CardinalityType
<1>4. QED
  BY <1>3 DEF Debt

\* Debt when the edges are no more, and the rule fires only if it did.
LEMMA NoMoreDebt ==
  ASSUME AutomationTypeOK, Edges' \subseteq Edges, Fires' => Fires
  PROVE  Debt' <= Debt
<1>1. IsFiniteSet(Edges) /\ Cardinality(Edges) \in Nat
  BY EdgesAreFinite
<1>2. Cardinality(Edges') \in Nat /\ Cardinality(Edges') <= Cardinality(Edges)
  BY <1>1, FS_Subset, FS_CardinalityType
<1>3. QED
  BY <1>1, <1>2 DEF Debt

\* Whatever is opened may cause one turn more: through the last report of a closed contact that
\* is on its way, or without one through what the rule remembers.
LEMMA OpensDebt ==
  ASSUME AutomationTypeOK, NEW s \in Sensor, DoorOpens(s)
  PROVE  Debt' <= Debt + 1
<1>1. /\ coming' = Append(coming, [sensor |-> s, closed |-> FALSE])
      /\ closed' = [closed EXCEPT ![s] = FALSE]
      /\ UNCHANGED <<named, reading, ruleName, previous>>
  BY DEF DoorOpens, Send, ruleVars
<1>2. /\ \A t \in Sensor : NextIsOpen(t, 0)' => NextIsOpen(t, 0) \/ (t = s /\ Silent(s, 0))
      /\ \A i \in Edges' :
            i \in Edges \/ (i \in 1..Len(coming) /\ coming[i].sensor = s /\ Silent(s, i))
  <2>1. 0 \in 0..Len(coming)
    BY ReportFacts
  <2>2. /\ \A t \in Sensor, i \in 0..Len(coming) :
              NextIsOpen(t, i)' =>
                NextIsOpen(t, i) \/ (t = s /\ ~FALSE /\ closed[s] /\ Silent(s, i))
        /\ \A i \in Edges' :
              \/ i \in Edges
              \/ /\ ~FALSE /\ closed[s] /\ i \in 1..Len(coming) /\ coming[i].sensor = s
                 /\ Silent(s, i)
    <3>1. FALSE \in BOOLEAN
      OBVIOUS
    <3>2. QED
      BY <1>1, <3>1, EdgesAfterSend, Zenon
  <2>3. QED
    BY <2>1, <2>2, Zenon
<1>3. IsFiniteSet(Edges) /\ Cardinality(Edges) \in Nat /\ Len(coming) \in Nat
  BY EdgesAreFinite, ReportFacts
<1>4. CASE Edges' \subseteq Edges
  <2>1. Cardinality(Edges') \in Nat /\ Cardinality(Edges') <= Cardinality(Edges)
    BY <1>3, <1>4, FS_Subset, FS_CardinalityType
  <2>2. QED
    BY <1>3, <2>1 DEF Debt
<1>5. CASE ~(Edges' \subseteq Edges)
  <2>1. PICK m \in 1..Len(coming) : coming[m].sensor = s /\ Silent(s, m)
    BY <1>2, <1>5
  <2>2. ASSUME NEW i \in Edges', i \notin Edges PROVE i = m
    <3>1. i \in 1..Len(coming) /\ coming[i].sensor = s /\ Silent(s, i)
      BY <1>2, <2>2
    <3>2. QED
      BY <1>3, <2>1, <3>1 DEF Silent
  <2>3. Edges' \subseteq Edges \cup {m}
    BY <2>2
  <2>4. IsFiniteSet(Edges \cup {m}) /\ Cardinality(Edges \cup {m}) <= Cardinality(Edges) + 1
    <3>1. /\ IsFiniteSet(Edges \cup {m})
          /\ Cardinality(Edges \cup {m}) =
               IF m \in Edges THEN Cardinality(Edges) ELSE Cardinality(Edges) + 1
      BY <1>3, FS_AddElement
    <3>2. QED
      BY <1>3, <3>1
  <2>5. Cardinality(Edges') \in Nat /\ Cardinality(Edges') <= Cardinality(Edges) + 1
    <3>1. /\ IsFiniteSet(Edges') /\ Cardinality(Edges') <= Cardinality(Edges \cup {m})
          /\ Cardinality(Edges \cup {m}) \in Nat
      BY <2>3, <2>4, FS_Subset, FS_CardinalityType
    <3>2. QED
      BY <1>3, <2>4, <3>1, FS_CardinalityType
  <2>6. ~Silent(s, 0)
    BY <1>3, <2>1 DEF Silent
  <2>7. NextIsOpen(named, 0)' => NextIsOpen(named, 0)
    BY <1>1, <1>2, <2>6 DEF NextIsOpen, SaysOpen, Silent, AutomationTypeOK, QueuesType
  <2>8. Fires' => Fires
    BY <1>1, <2>7 DEF Fires, Armed, InHand
  <2>9. QED
    BY <1>3, <2>5, <2>8 DEF Debt
<1>6. QED
  BY <1>4, <1>5

LEMMA QuietDebt ==
  ASSUME AutomationTypeOK, NEW s \in Sensor, DoorCloses(s) \/ SensorRepeats(s)
  PROVE  Debt' <= Debt
<1>1. PICK c \in BOOLEAN :
        /\ coming' = Append(coming, [sensor |-> s, closed |-> c])
        /\ closed' = [closed EXCEPT ![s] = c]
        /\ c \/ ~closed[s]
  <2>1. CASE DoorCloses(s)
    BY <2>1 DEF DoorCloses, Send
  <2>2. CASE SensorRepeats(s)
    <3>1. closed[s] \in BOOLEAN /\ closed = [closed EXCEPT ![s] = closed[s]]
      BY DEF AutomationTypeOK, FlagsType
    <3>2. QED
      BY <2>2, <3>1 DEF SensorRepeats, Send, roomVars
  <2>3. QED
    BY <2>1, <2>2
<1>2. Edges' \subseteq Edges /\ \A t \in Sensor : NextIsOpen(t, 0)' => NextIsOpen(t, 0)
  <2>1. 0 \in 0..Len(coming)
    BY ReportFacts
  <2>2. /\ \A t \in Sensor, i \in 0..Len(coming) :
              NextIsOpen(t, i)' =>
                NextIsOpen(t, i) \/ (t = s /\ ~c /\ closed[s] /\ Silent(s, i))
        /\ \A i \in Edges' :
              \/ i \in Edges
              \/ /\ ~c /\ closed[s] /\ i \in 1..Len(coming) /\ coming[i].sensor = s
                 /\ Silent(s, i)
    BY <1>1, EdgesAfterSend, Zenon
  <2>3. ~(~c /\ closed[s])
    BY <1>1
  <2>4. \A i \in Edges' : i \in Edges
    BY <2>2, <2>3, Zenon
  <2>5. \A t \in Sensor : NextIsOpen(t, 0)' => NextIsOpen(t, 0)
    BY <2>1, <2>2, <2>3, Zenon
  <2>6. QED
    BY <2>4, <2>5, Zenon
<1>3. UNCHANGED <<named, reading, ruleName, previous>> /\ named \in Sensor
  BY DEF DoorCloses, SensorRepeats, roomVars, ruleVars, AutomationTypeOK, QueuesType
<1>4. NextIsOpen(named, 0)' => NextIsOpen(named, 0)
  BY <1>2, <1>3 DEF NextIsOpen, SaysOpen, Silent
<1>5. Fires' => Fires
  BY <1>3, <1>4 DEF Fires, Armed, InHand
<1>6. QED
  BY <1>2, <1>5, NoMoreDebt

LEMMA PassDebt ==
  ASSUME AutomationTypeOK, NEW s \in Sensor, NamePasses(s)
  PROVE  Debt' <= Debt + 1
<1>1. Edges' = Edges
  BY DEF NamePasses, Edges, NextIsOpen, SaysOpen, Silent
<1>2. QED
  BY <1>1, EdgesAreFinite DEF Debt

\* The reports on their way move up by one position.
LEMMA SaidAfterTake ==
  ASSUME AutomationTypeOK, TakeReport, NEW t, NEW i \in Nat
  PROVE  NextIsOpen(t, i)' <=> NextIsOpen(t, i + 1)
<1> DEFINE n == Len(coming)
<1>1. /\ n \in Nat /\ n >= 1 /\ Len(coming') = n - 1
      /\ \A k \in 1..(n - 1) : coming'[k] = coming[k + 1]
  BY TailFacts DEF TakeReport, AutomationTypeOK, QueuesType
<1>2. closed' = closed
  BY DEF TakeReport, roomVars
<1> HIDE DEF n
<1>3. Silent(t, i)' <=> Silent(t, i + 1)
  <2>1. ASSUME Silent(t, i)', NEW k \in (i + 1 + 1)..n PROVE coming[k].sensor # t
    <3>1. k - 1 \in (i + 1)..(n - 1) /\ coming'[k - 1] = coming[k]
      BY <1>1
    <3>2. QED
      BY <1>1, <2>1, <3>1 DEF Silent
  <2>2. ASSUME Silent(t, i + 1), NEW k \in (i + 1)..(n - 1) PROVE coming'[k].sensor # t
    <3>1. k + 1 \in (i + 1 + 1)..n /\ coming'[k] = coming[k + 1]
      BY <1>1
    <3>2. QED
      BY <1>1, <2>2, <3>1 DEF Silent, n
  <2>3. QED
    BY <1>1, <2>1, <2>2 DEF Silent, n
<1>4. ASSUME SaysOpen(t, i)' PROVE SaysOpen(t, i + 1)
  <2>1. PICK j \in (i + 1)..(n - 1) :
          /\ coming'[j].sensor = t /\ ~coming'[j].closed
          /\ \A k \in (i + 1)..(j - 1) : coming'[k].sensor # t
    BY <1>1, <1>4 DEF SaysOpen
  <2>2. j + 1 \in (i + 1 + 1)..n /\ coming'[j] = coming[j + 1]
    BY <1>1
  <2>3. ASSUME NEW k \in (i + 1 + 1)..(j + 1 - 1) PROVE coming[k].sensor # t
    <3>1. k - 1 \in (i + 1)..(j - 1) /\ coming'[k - 1] = coming[k]
      BY <1>1
    <3>2. QED
      BY <2>1, <3>1
  <2>4. QED
    BY <2>1, <2>2, <2>3 DEF SaysOpen, n
<1>5. ASSUME SaysOpen(t, i + 1) PROVE SaysOpen(t, i)'
  <2>1. PICK j \in (i + 1 + 1)..n :
          /\ coming[j].sensor = t /\ ~coming[j].closed
          /\ \A k \in (i + 1 + 1)..(j - 1) : coming[k].sensor # t
    BY <1>5 DEF SaysOpen, n
  <2>2. j - 1 \in (i + 1)..(n - 1) /\ coming'[j - 1] = coming[j]
    BY <1>1
  <2>3. ASSUME NEW k \in (i + 1)..(j - 1 - 1) PROVE coming'[k].sensor # t
    <3>1. k + 1 \in (i + 1 + 1)..(j - 1) /\ coming'[k] = coming[k + 1]
      BY <1>1
    <3>2. QED
      BY <2>1, <3>1
  <2>4. QED
    BY <1>1, <2>1, <2>2, <2>3 DEF SaysOpen
<1>6. QED
  BY <1>2, <1>3, <1>4, <1>5 DEF NextIsOpen

LEMMA EdgesAfterTake ==
  ASSUME AutomationTypeOK, TakeReport
  PROVE  /\ Cardinality(Edges') \in Nat
         /\ Cardinality(Edges') <=
               IF 1 \in Edges THEN Cardinality(Edges) - 1 ELSE Cardinality(Edges)
<1> DEFINE n == Len(coming)
           f == [i \in Edges' |-> i + 1]
<1>1. /\ n \in Nat /\ n >= 1 /\ Len(coming') = n - 1
      /\ \A k \in 1..(n - 1) : coming'[k] = coming[k + 1]
  BY TailFacts DEF TakeReport, AutomationTypeOK, QueuesType
<1>2. ASSUME NEW i \in Edges' PROVE i \in Nat /\ i >= 1 /\ i + 1 \in Edges
  <2>1. i \in 1..(n - 1) /\ coming'[i].closed /\ coming'[i] = coming[i + 1]
    BY <1>1 DEF Edges
  <2>2. \A t : t = coming'[i].sensor => NextIsOpen(t, i)'
    BY DEF Edges
  <2>3. \A t : NextIsOpen(t, i)' <=> NextIsOpen(t, i + 1)
    BY <1>1, <2>1, SaidAfterTake
  <2>4. NextIsOpen(coming[i + 1].sensor, i + 1)
    BY <2>1, <2>2, <2>3
  <2>5. QED
    BY <1>1, <2>1, <2>4 DEF Edges
<1>3. IsFiniteSet(Edges) /\ Cardinality(Edges) \in Nat
  BY EdgesAreFinite
<1>4. /\ IsFiniteSet(Edges \ {1})
      /\ Cardinality(Edges \ {1}) =
            IF 1 \in Edges THEN Cardinality(Edges) - 1 ELSE Cardinality(Edges)
  BY <1>3, FS_RemoveElement
<1>5. f \in Injection(Edges', Edges \ {1})
  <2>1. f \in [Edges' -> Edges \ {1}]
    BY <1>2
  <2>2. \A i, j \in Edges' : f[i] = f[j] => i = j
    BY <1>2
  <2>3. QED
    BY <2>1, <2>2 DEF Injection, IsInjective
<1> HIDE DEF f
<1>6. IsFiniteSet(Edges') /\ Cardinality(Edges') <= Cardinality(Edges \ {1})
  BY <1>4, <1>5, FS_Injection
<1>7. QED
  BY <1>4, <1>6, FS_CardinalityType

LEMMA TakeDebt ==
  ASSUME AutomationTypeOK, TakeReport
  PROVE  Debt' <= Debt
<1>1. /\ reading = NoReport /\ reading' = coming[1] /\ named' = named /\ previous' = previous
      /\ ruleName' = (coming[1].sensor = named)
      /\ Len(coming) \in Nat /\ Len(coming) >= 1 /\ coming[1] \in Report
  BY TailFacts DEF TakeReport, roomVars, AutomationTypeOK, QueuesType
<1>2. coming[1].closed \in BOOLEAN /\ coming[1].sensor \in Sensor /\ coming[1] # NoReport
  BY <1>1, AutomationAssumption DEF Report
<1>3. /\ Cardinality(Edges') \in Nat /\ Cardinality(Edges) \in Nat
      /\ Cardinality(Edges') <=
            IF 1 \in Edges THEN Cardinality(Edges) - 1 ELSE Cardinality(Edges)
  BY EdgesAreFinite, EdgesAfterTake
<1>4. NextIsOpen(named, 0)' <=> NextIsOpen(named, 1)
  <2>1. \A t : NextIsOpen(t, 0)' <=> NextIsOpen(t, 0 + 1)
    BY SaidAfterTake
  <2>2. NextIsOpen(named, 0)' <=> NextIsOpen(named, 0 + 1)
    BY <1>1, <2>1
  <2>3. QED
    BY <2>2
<1>5. CASE coming[1].sensor = named
  <2>1. CASE coming[1].closed
    <3>1. Fires' => NextIsOpen(named, 1)
      BY <1>1, <1>2, <1>4, <1>5, <2>1 DEF Fires, Armed, InHand
    <3>2. NextIsOpen(named, 1) => 1 \in Edges
      BY <1>1, <1>5, <2>1 DEF Edges
    <3>3. QED
      BY <1>3, <3>1, <3>2 DEF Debt
  <2>2. CASE ~coming[1].closed
    <3>1. Fires' => previous = "closed"
      BY <1>1, <1>2, <1>5, <2>2 DEF Fires, Armed, InHand
    <3>2. SaysOpen(named, 0)
      BY <1>1, <1>5, <2>2 DEF SaysOpen
    <3>3. Fires' => Fires
      BY <1>1, <3>1, <3>2 DEF Fires, Armed, InHand, NextIsOpen
    <3>4. QED
      BY <1>3, <3>3 DEF Debt
  <2>3. QED
    BY <2>1, <2>2
<1>6. CASE coming[1].sensor # named
  <2>1. Fires' => previous = "closed" /\ NextIsOpen(named, 1)
    BY <1>1, <1>4, <1>6 DEF Fires, Armed, InHand
  <2>2. SaysOpen(named, 1) => SaysOpen(named, 0)
    <3>1. ASSUME NEW j \in (1 + 1)..Len(coming),
                 \A k \in (1 + 1)..(j - 1) : coming[k].sensor # named
          PROVE  j \in (0 + 1)..Len(coming) /\ \A k \in (0 + 1)..(j - 1) : coming[k].sensor # named
      BY <1>1, <1>6, <3>1
    <3>2. QED
      BY <3>1 DEF SaysOpen
  <2>3. Silent(named, 1) => Silent(named, 0)
    BY <1>1, <1>6 DEF Silent
  <2>4. Fires' => Fires
    BY <1>1, <2>1, <2>2, <2>3 DEF Fires, Armed, InHand, NextIsOpen
  <2>5. QED
    BY <1>3, <2>4 DEF Debt
<1>7. QED
  BY <1>5, <1>6

\* Nothing that concerns the reports on their way changes.
LEMMA SameReports ==
  ASSUME UNCHANGED <<coming, closed>>
  PROVE  Edges' = Edges /\ \A t, i : NextIsOpen(t, i)' <=> NextIsOpen(t, i)
  BY DEF Edges, NextIsOpen, SaysOpen, Silent

LEMMA SameDebt ==
  ASSUME UNCHANGED <<coming, closed, named, reading, ruleName, previous>>
  PROVE  Debt' = Debt
<1>1. Edges' = Edges /\ (NextIsOpen(named, 0)' <=> NextIsOpen(named, 0))
  BY SameReports DEF NextIsOpen, SaysOpen, Silent
<1>2. Fires' <=> Fires
  BY <1>1 DEF Fires, Armed, InHand
<1>3. QED
  BY <1>1, <1>2 DEF Debt

\* What makes the rule fire is not owed any more.
LEMMA EvaluateDebt ==
  ASSUME AutomationTypeOK, Evaluate
  PROVE  /\ Debt' <= Debt
         /\ switching' # <<>> /\ switching' # switching => Debt' <= Debt - 1
<1>1. /\ reading # NoReport /\ reading' = NoReport
      /\ UNCHANGED <<coming, closed, named>>
      /\ ruleName => /\ previous' = IF reading.closed THEN "closed" ELSE "open"
                     /\ switching' = IF HasOpened(reading.closed) THEN DoorLights ELSE <<>>
      /\ ~ruleName => previous' = previous /\ switching' = switching
  BY DEF Evaluate, roomVars
<1>2. Edges' = Edges /\ (NextIsOpen(named, 0)' <=> NextIsOpen(named, 0))
  BY <1>1, SameReports DEF NextIsOpen, SaysOpen, Silent
<1>3. Cardinality(Edges) \in Nat /\ reading.closed \in BOOLEAN
  BY <1>1, EdgesAreFinite DEF AutomationTypeOK, QueuesType, Report
<1>4. Fires' => Fires
  BY <1>1, <1>2, <1>3 DEF Fires, Armed, InHand
<1>5. ASSUME switching' # <<>>, switching' # switching PROVE Fires /\ ~Fires'
  BY <1>1, <1>3, <1>5 DEF Fires, Armed, InHand, HasOpened
<1>6. QED
  BY <1>2, <1>3, <1>4, <1>5 DEF Debt

LEMMA WriteFailsDebt ==
  ASSUME AutomationTypeOK, WriteFails
  PROVE  Debt' <= Debt
<1>1. /\ reading # NoReport /\ reading' = NoReport
      /\ UNCHANGED <<coming, closed, named, previous>>
  BY DEF WriteFails, roomVars
<1>2. Edges' = Edges /\ (NextIsOpen(named, 0)' <=> NextIsOpen(named, 0))
  BY <1>1, SameReports DEF NextIsOpen, SaysOpen, Silent
<1>3. Cardinality(Edges) \in Nat /\ reading.closed \in BOOLEAN
  BY <1>1, EdgesAreFinite DEF AutomationTypeOK, QueuesType, Report
<1>4. Fires' => Fires
  BY <1>1, <1>2, <1>3 DEF Fires, Armed, InHand
<1>5. QED
  BY <1>2, <1>3, <1>4 DEF Debt

LEMMA RestartDebt ==
  ASSUME AutomationTypeOK, RestartRules
  PROVE  Debt' <= Debt
<1>1. Len(coming') = 0 /\ reading' = NoReport /\ previous' = "unknown"
  BY DEF RestartRules
<1>2. Edges' \subseteq Edges
  BY <1>1 DEF Edges
<1>3. ~Fires'
  BY <1>1 DEF Fires, Armed, InHand
<1>4. QED
  BY <1>2, <1>3, NoMoreDebt

\* Where a set of positions is not empty it has a first and a last one.
LEMMA Extremes ==
  ASSUME NEW n \in Nat, NEW S \in SUBSET (1..n), S # {}
  PROVE  /\ \E m \in S : \A k \in S : m <= k
         /\ \E m \in S : \A k \in S : k <= m
<1> DEFINE R == {p \in Nat \X Nat : p[1] < p[2]}
<1>1. IsWellFoundedOn(R, Nat)
  BY NatLessThanWellFounded, Zenon DEF OpToRel
<1>2. \A x, y \in Nat : x < y => <<x, y>> \in R
  OBVIOUS
<1> HIDE DEF R
<1>3. ASSUME NEW T \in SUBSET Nat, T # {} PROVE \E m \in T : \A k \in T : m <= k
  <2>1. PICK m \in T : \A k \in T : ~(<<k, m>> \in R)
    BY <1>1, <1>3, WFMin, Zenon
  <2>2. \A k \in T : ~(k < m)
    BY <1>2, <2>1
  <2>3. QED
    BY <2>2
<1>4. \E m \in S : \A k \in S : m <= k
  BY <1>3
<1>5. \E m \in S : \A k \in S : k <= m
  <2> DEFINE T == {n - k : k \in S}
  <2>1. T \in SUBSET Nat /\ T # {}
    <3>1. \A k \in S : n - k \in Nat
      OBVIOUS
    <3>2. QED
      BY <3>1
  <2>2. \E t \in T : \A u \in T : t <= u
    <3> HIDE DEF T
    <3> QED
      BY <1>3, <2>1
  <2>3. PICK t \in T : \A u \in T : t <= u
    BY <2>2
  <2>4. PICK m \in S : t = n - m
    BY <2>3
  <2>5. \A k \in S : n - m <= n - k
    BY <2>3, <2>4
  <2>6. QED
    BY <2>5
<1>6. QED
  BY <1>4, <1>5

\* When the contact is open and the next report says that it is closed, it is opened after some
\* report that is on its way.
LEMMA OpenedOnTheWay ==
  ASSUME AutomationTypeOK, NEW s \in Sensor, ~closed[s], ~NextIsOpen(s, 0)
  PROVE  Edges # {}
<1> DEFINE n == Len(coming)
           P == {k \in 1..n : coming[k].sensor = s}
           C == {k \in P : coming[k].closed}
<1>1. n \in Nat
  BY ReportFacts
<1>2. P # {}
  BY DEF NextIsOpen, Silent
<1>3. PICK a \in P : \A k \in P : a <= k
  BY <1>1, <1>2, Extremes
<1>4. coming[a].closed
  <2>1. \A k \in (0 + 1)..(a - 1) : coming[k].sensor # s
    BY <1>1, <1>3
  <2>2. a \in (0 + 1)..n
    BY <1>1, <1>3
  <2>3. QED
    BY <1>3, <2>1, <2>2 DEF NextIsOpen, SaysOpen
<1>5. PICK c \in C : \A k \in C : k <= c
  <2>1. C # {}
    BY <1>3, <1>4
  <2>2. QED
    BY <1>1, <2>1, Extremes
<1>6. NextIsOpen(s, c)
  <2> DEFINE N == {k \in P : k > c}
  <2>1. CASE N = {}
    <3>1. Silent(s, c)
      BY <1>1, <2>1 DEF Silent
    <3>2. QED
      BY <3>1 DEF NextIsOpen
  <2>2. CASE N # {}
    <3>1. PICK j \in N : \A k \in N : j <= k
      BY <1>1, <2>2, Extremes
    <3>2. ~coming[j].closed
      BY <1>1, <1>5, <3>1
    <3>3. \A k \in (c + 1)..(j - 1) : coming[k].sensor # s
      BY <1>1, <3>1
    <3>4. j \in (c + 1)..n
      BY <1>1, <3>1
    <3>5. QED
      BY <3>1, <3>2, <3>3, <3>4 DEF NextIsOpen, SaysOpen
  <2>3. QED
    BY <2>1, <2>2
<1>7. c \in Edges
  BY <1>5, <1>6 DEF Edges
<1>8. QED
  BY <1>7

LEMMA LostDebt ==
  ASSUME AutomationTypeOK, ReportsLost
  PROVE  Debt' <= Debt
<1>1. Len(coming') = 0 /\ UNCHANGED <<closed, named, reading, ruleName, previous>>
  BY DEF ReportsLost, roomVars, ruleVars
<1>2. IsFiniteSet(Edges) /\ Cardinality(Edges) \in Nat
  BY EdgesAreFinite
<1>3. Edges' = {} /\ Cardinality(Edges') = 0
  BY <1>1, FS_EmptySet DEF Edges
<1>4. CASE Fires' => Fires
  BY <1>2, <1>3, <1>4 DEF Debt
<1>5. CASE Fires' /\ ~Fires
  <2>1. ~NextIsOpen(named, 0) /\ ~closed[named]
    BY <1>1, <1>5 DEF Fires, Armed, InHand, NextIsOpen, SaysOpen
  <2>2. Edges # {}
    BY <2>1, OpenedOnTheWay DEF AutomationTypeOK, QueuesType
  <2>3. Cardinality(Edges) >= 1
    BY <1>2, <2>2, FS_EmptySet
  <2>4. QED
    BY <1>2, <1>3, <2>3 DEF Debt
<1>6. QED
  BY <1>4, <1>5

-----------------------------------------------------------------------------
\* One opening, one turn.

LEMMA PaidStart == AutomationInit => PaidFor
  PROOF
<1> SUFFICES ASSUME AutomationInit PROVE PaidFor
  OBVIOUS
<1>1. /\ Len(coming) = 0 /\ switching = <<>> /\ previous = "unknown" /\ reading = NoReport
      /\ openings = 0 /\ handovers = 0 /\ switched = [l \in Light |-> 0]
  BY DEF AutomationInit
<1>2. Edges = {} /\ Cardinality(Edges) = 0
  BY <1>1, FS_EmptySet DEF Edges
<1>3. ~Fires
  BY <1>1 DEF Fires, Armed, InHand
<1>4. \A l \in Light : Left(l) = 0
  BY <1>1, EmptyFacts DEF Left
<1>5. QED
  BY <1>1, <1>2, <1>3, <1>4 DEF PaidFor, Charge, Debt

\* What a step may add to the debt, and to the turns made and to be made.
LEMMA DebtStep ==
  ASSUME AutomationTypeOK, LoopsOK, AutomationNext
  PROVE  Debt' <= Debt + (openings' - openings) + (handovers' - handovers)
<1>1. Debt \in Nat /\ openings \in Nat /\ handovers \in Nat
  BY DebtType DEF AutomationTypeOK, CountsType
<1>2. ASSUME NEW s \in Sensor, DoorOpens(s) PROVE Debt' <= Debt + 1
  BY <1>2, OpensDebt
<1>3. ASSUME NEW s \in Sensor, NamePasses(s) PROVE Debt' <= Debt + 1
  BY <1>3, PassDebt
<1>4. CASE \E s \in Sensor : DoorOpens(s)
  <2>1. Debt' <= Debt + 1 /\ openings' = openings + 1 /\ handovers' = handovers
    BY <1>2, <1>4 DEF DoorOpens
  <2>2. QED
    BY <1>1, <2>1
<1>5. CASE \E s \in Sensor : NamePasses(s)
  BY <1>1, <1>3, <1>5 DEF NamePasses
<1>6. CASE \E s \in Sensor : DoorCloses(s) \/ SensorRepeats(s)
  <2>1. Debt' <= Debt /\ openings' = openings /\ handovers' = handovers
    BY <1>6, QuietDebt DEF DoorCloses, SensorRepeats, roomVars
  <2>2. QED
    BY <1>1, <2>1
<1>7. CASE TakeReport \/ Evaluate \/ WriteFails \/ ReportsLost \/ RestartRules
  <2>1. Debt' <= Debt
    BY <1>7, TakeDebt, EvaluateDebt, WriteFailsDebt, LostDebt, RestartDebt
  <2>2. openings' = openings /\ handovers' = handovers
    BY <1>7 DEF TakeReport, Evaluate, WriteFails, ReportsLost, RestartRules, roomVars
  <2>3. QED
    BY <1>1, <2>1, <2>2
<1>8. CASE \/ SwitchOn \/ SwitchOnFails \/ Midnight \/ SwitchOff \/ SwitchOffFails
           \/ LightObeys \/ LightMisses
  <2>1. /\ UNCHANGED <<coming, closed, named, reading, ruleName, previous>>
        /\ openings' = openings /\ handovers' = handovers
    BY <1>8
    DEF SwitchOn, SwitchOnFails, Midnight, SwitchOff, SwitchOffFails, LightObeys, LightMisses,
        roomVars, ruleVars
  <2>2. QED
    BY <1>1, <2>1, SameDebt
<1>9. QED
  BY <1>4, <1>5, <1>6, <1>7, <1>8 DEF AutomationNext

LEMMA TurnStep ==
  ASSUME AutomationTypeOK, LoopsOK, AutomationNext, NEW l \in Light
  PROVE  \/ switched'[l] + Left(l)' <= switched[l] + Left(l)
         \/ /\ switched'[l] + Left(l)' <= switched[l] + Left(l) + 1
            /\ Evaluate /\ switching' # <<>> /\ switching' # switching
<1>1. switched[l] \in Nat /\ Left(l) \in 0..1 /\ Left(l)' \in 0..1
  BY DEF AutomationTypeOK, CountsType, Left
<1>2. CASE UNCHANGED <<switched, switching>>
  BY <1>1, <1>2 DEF Left
<1>3. CASE switched' = switched /\ switching' = <<>>
  <2>1. Left(l)' = 0
    BY <1>3, EmptyFacts DEF Left
  <2>2. QED
    BY <1>1, <1>3, <2>1
<1>4. CASE SwitchOn \/ SwitchOnFails
  <2>1. switching # <<>> /\ switching \in Seq(Light) /\ IsInjective(switching)
    BY <1>4 DEF SwitchOn, SwitchOnFails, AutomationTypeOK, QueuesType, LoopsOK
  <2>2. /\ ToSet(Tail(switching)) = ToSet(switching) \ {Head(switching)}
        /\ Head(switching) \in ToSet(switching)
    BY <2>1, LoopTurn
  <2>3. /\ switching' = Tail(switching) \/ switching' = <<>>
        /\ switched' = switched \/ switched' = [switched EXCEPT ![Head(switching)] = @ + 1]
    BY <1>4 DEF SwitchOn, SwitchOnFails
  <2>4. ToSet(switching') \subseteq ToSet(switching) \ {Head(switching)}
    BY <2>2, <2>3, EmptyFacts
  <2>5. CASE l = Head(switching)
    <3>1. Left(l) = 1 /\ Left(l)' = 0 /\ switched'[l] <= switched[l] + 1
      BY <1>1, <2>2, <2>3, <2>4, <2>5 DEF Left, AutomationTypeOK, CountsType
    <3>2. switched'[l] \in Nat
      BY <1>1, <2>3 DEF AutomationTypeOK, CountsType
    <3>3. QED
      BY <1>1, <3>1, <3>2
  <2>6. CASE l # Head(switching)
    <3>1. switched'[l] = switched[l]
      BY <2>3, <2>6 DEF AutomationTypeOK, CountsType
    <3>2. Left(l)' <= Left(l)
      BY <2>4 DEF Left
    <3>3. QED
      BY <1>1, <3>1, <3>2
  <2>7. QED
    BY <2>5, <2>6
<1>5. CASE Evaluate
  <2>1. switched' = switched
    BY <1>5 DEF Evaluate
  <2>2. CASE switching' = switching \/ switching' = <<>>
    BY <1>2, <1>3, <2>1, <2>2
  <2>3. CASE switching' # switching /\ switching' # <<>>
    BY <1>1, <1>5, <2>1, <2>3
  <2>4. QED
    BY <2>2, <2>3
<1>6. CASE RestartRules
  BY <1>3, <1>6 DEF RestartRules
<1>7. QED
  BY <1>2, <1>4, <1>5, <1>6
  DEF AutomationNext, DoorOpens, DoorCloses, SensorRepeats, NamePasses, TakeReport, WriteFails,
      Midnight, SwitchOff, SwitchOffFails, LightObeys, LightMisses, ReportsLost, ruleVars

LEMMA Balance ==
  ASSUME NEW t \in Int, NEW d \in Int, NEW o \in Int, NEW h \in Int,
         NEW t2 \in Int, NEW d2 \in Int, NEW o2 \in Int, NEW h2 \in Int,
         t + d <= o + h, t2 <= t, d2 <= d + (o2 - o) + (h2 - h)
  PROVE  t2 + d2 <= o2 + h2
  OBVIOUS

LEMMA PaidStep ==
  ASSUME AutomationTypeOK, AutomationTypeOK', LoopsOK, PaidFor, AutomationNext
  PROVE  PaidFor'
<1> SUFFICES ASSUME NEW l \in Light PROVE (Charge(l) <= openings + handovers)'
  BY DEF PaidFor
<1>1. /\ switched[l] \in Nat /\ switched'[l] \in Nat /\ Debt \in Nat
      /\ openings \in Nat /\ openings' \in Nat /\ handovers \in Nat /\ handovers' \in Nat
  BY DebtType DEF AutomationTypeOK, CountsType
<1>2. Left(l) \in 0..1 /\ Left(l)' \in 0..1 /\ Debt' \in Int
  BY NextDebtType DEF Left
<1>3. switched[l] + Left(l) + Debt <= openings + handovers
  BY DEF PaidFor, Charge
<1>4. Debt' <= Debt + (openings' - openings) + (handovers' - handovers)
  BY DebtStep
<1>5. CASE switched'[l] + Left(l)' <= switched[l] + Left(l)
  <2>1. PICK t2 \in Int, d2 \in Int, o2 \in Int, h2 \in Int :
          /\ t2 = switched'[l] + Left(l)' /\ d2 = Debt'
          /\ o2 = openings' /\ h2 = handovers'
    BY <1>1, <1>2
  <2>2. t2 <= switched[l] + Left(l) /\ d2 <= Debt + (o2 - openings) + (h2 - handovers)
    BY <1>4, <1>5, <2>1
  <2>3. t2 + d2 <= o2 + h2
    BY <1>1, <1>2, <1>3, <2>2, Balance
  <2>4. (switched'[l] + Left(l)') + Debt' <= openings' + handovers'
    BY <2>1, <2>3
  <2>5. QED
    BY <2>4 DEF Charge
<1>6. CASE /\ switched'[l] + Left(l)' <= switched[l] + Left(l) + 1
           /\ Evaluate /\ switching' # <<>> /\ switching' # switching
  <2>1. Debt' <= Debt - 1
    BY <1>6, EvaluateDebt
  <2>2. openings' = openings /\ handovers' = handovers
    BY <1>6 DEF Evaluate, roomVars
  <2>3. QED
    BY <1>1, <1>2, <1>3, <1>6, <2>1, <2>2 DEF Charge
<1>7. QED
  BY <1>5, <1>6, TurnStep

\* The inductive invariant of the door rule's count: types, the shape of the loops, and that every
\* turn made or caused is paid for by an opening or a handover of the name.
THEOREM EdgeInvariance == AutomationSpec => []EdgeInv
<1>1. AutomationInit => EdgeInv
  BY AutomationStart, PaidStart DEF EdgeInv
<1>2. EdgeInv /\ [AutomationNext]_automationVars => EdgeInv'
  <2> SUFFICES ASSUME EdgeInv, [AutomationNext]_automationVars PROVE EdgeInv'
    OBVIOUS
  <2>1. AutomationTypeOK' /\ LoopsOK'
    BY TypeStep, LoopsStep DEF EdgeInv
  <2>2. CASE AutomationNext
    BY <2>1, <2>2, PaidStep DEF EdgeInv
  <2>3. CASE UNCHANGED automationVars
    <3>1. Debt' = Debt
      BY <2>3, SameDebt DEF automationVars, roomVars, ruleVars
    <3>2. UNCHANGED <<switched, switching, openings, handovers>>
      BY <2>3 DEF automationVars, roomVars, ruleVars
    <3>3. QED
      BY <2>1, <3>1, <3>2 DEF EdgeInv, PaidFor, Charge, Left
  <2>4. QED
    BY <2>2, <2>3
<1>3. QED
  BY <1>1, <1>2, PTL DEF AutomationSpec

\* For any sensors, lights and faults, the door rule switches no light on more often than doors
\* were opened and the name it is configured with was handed over (DoorOpenedLightsRule.evaluate).
THEOREM OncePerOpening == AutomationSpec => []LightsComeOnOncePerOpening
<1>1. EdgeInv => LightsComeOnOncePerOpening
  <2> SUFFICES ASSUME EdgeInv, NEW l \in Light PROVE switched[l] <= openings + handovers
    BY DEF LightsComeOnOncePerOpening
  <2>1. /\ switched[l] \in Nat /\ Debt \in Nat /\ Left(l) \in 0..1
        /\ openings \in Nat /\ handovers \in Nat
    BY DebtType DEF EdgeInv, AutomationTypeOK, CountsType, Left
  <2>2. QED
    BY <2>1 DEF EdgeInv, PaidFor, Charge
<1>2. QED
  BY <1>1, EdgeInvariance, PTL
-----------------------------------------------------------------------------
\* What the rules make of a light.

\* When the door was last heard of as closed, a report of the open one makes the rule fire.
LEMMA ClosedWhenHeard ==
  ASSUME AutomationTypeOK, LastHeard
  PROVE  \/ previous = "closed"
         \/ InHand /\ reading.closed
         \/ \E i \in 1..Len(coming) : coming[i].sensor = named /\ coming[i].closed
<1> DEFINE I == {i \in 1..Len(coming) : coming[i].sensor = named}
           last == IF I # {} THEN Max(I) ELSE 0
<1>1. Len(coming) \in Nat
  BY ReportFacts
<1>2. IF last # 0 THEN coming[last].closed
      ELSE IF reading # NoReport /\ ruleName THEN reading.closed ELSE previous = "closed"
  BY DEF LastHeard, SelectLastInSeq
<1>3. CASE I # {}
  <2>1. \E m \in I : \A k \in I : m >= k
    <3> HIDE DEF I
    <3>1. I \in SUBSET (1..Len(coming))
      BY DEF I
    <3>2. PICK m \in I : \A k \in I : k <= m
      BY <1>1, <1>3, <3>1, Extremes
    <3>3. \A k \in I : k \in Nat
      BY <3>1
    <3>4. QED
      BY <3>2, <3>3
  <2>2. Max(I) \in I
    BY <2>1, Zenon DEF Max
  <2>3. last \in I /\ last # 0
    BY <1>3, <2>2
  <2>4. QED
    BY <1>2, <2>3
<1>4. CASE I = {}
  <2>1. last = 0
    BY <1>4
  <2>2. QED
    BY <1>2, <2>1 DEF InHand
<1>5. QED
  BY <1>3, <1>4

\* A report that is sent takes nothing away from what makes the rule fire.
LEMMA SendKeepsFiring ==
  ASSUME AutomationTypeOK, NEW r \in Report, coming' = Append(coming, r),
         UNCHANGED <<named, reading, ruleName, previous>>, WillFire
  PROVE  WillFire'
<1>1. /\ Len(coming) \in Nat /\ Len(coming') = Len(coming) + 1
      /\ \A k \in 1..Len(coming) : coming'[k] = coming[k]
  BY AppendFacts DEF AutomationTypeOK, QueuesType
<1>2. CASE InHand /\ previous = "closed" /\ ~reading.closed
  BY <1>2 DEF WillFire, InHand
<1>3. CASE ~(InHand /\ previous = "closed" /\ ~reading.closed)
  <2>1. PICK j \in 1..Len(coming) :
           /\ coming[j].sensor = named /\ ~coming[j].closed
           /\ \/ previous = "closed"
              \/ InHand /\ reading.closed
              \/ \E i \in 1..(j - 1) : coming[i].sensor = named /\ coming[i].closed
    BY <1>3 DEF WillFire
  <2>2. j \in 1..Len(coming') /\ \A i \in 1..(j - 1) : i \in 1..Len(coming)
    BY <1>1
  <2>3. /\ coming'[j].sensor = named /\ ~coming'[j].closed
        /\ \/ previous = "closed"
           \/ InHand /\ reading.closed
           \/ \E i \in 1..(j - 1) : coming'[i].sensor = named /\ coming'[i].closed
    BY <1>1, <2>1, <2>2
  <2>4. QED
    BY <2>2, <2>3 DEF WillFire, InHand
<1>4. QED
  BY <1>2, <1>3

\* The report of an opening makes the rule fire when the door was last heard of as closed.
LEMMA OpeningFires ==
  ASSUME AutomationTypeOK, coming' = Append(coming, [sensor |-> named, closed |-> FALSE]),
         UNCHANGED <<named, reading, ruleName, previous>>, LastHeard
  PROVE  WillFire'
<1> DEFINE n == Len(coming)
<1>1. /\ n \in Nat /\ Len(coming') = n + 1
      /\ coming'[n + 1].sensor = named /\ coming'[n + 1].closed = FALSE
      /\ \A k \in 1..n : coming'[k] = coming[k]
  BY DEF AutomationTypeOK, QueuesType, Report
<1> HIDE DEF n
<1>2. Len(coming) = n
  BY DEF n
<1>3. \/ previous = "closed"
      \/ InHand /\ reading.closed
      \/ \E i \in 1..((n + 1) - 1) : coming'[i].sensor = named /\ coming'[i].closed
  BY <1>1, <1>2, ClosedWhenHeard
<1>4. n + 1 \in 1..Len(coming')
  BY <1>1
<1>5. QED
  BY <1>1, <1>3, <1>4 DEF WillFire, InHand

\* No report but that of an opening of the door can be what makes the rule fire.
LEMMA SendArmsNothing ==
  ASSUME AutomationTypeOK, NEW s \in Sensor, NEW c \in BOOLEAN,
         coming' = Append(coming, [sensor |-> s, closed |-> c]),
         closed' = [closed EXCEPT ![s] = c],
         s = named => c \/ ~closed[s],
         UNCHANGED <<named, reading, ruleName, previous>>, MayFire'
  PROVE  MayFire
<1> DEFINE n == Len(coming)
<1>1. /\ n \in Nat /\ Len(coming') = n + 1
      /\ coming'[n + 1].sensor = s /\ coming'[n + 1].closed = c
      /\ \A k \in 1..n : coming'[k] = coming[k]
  BY DEF AutomationTypeOK, QueuesType, Report
<1>2. /\ named \in Sensor /\ closed[named] \in BOOLEAN
      /\ closed'[named] = IF s = named THEN c ELSE closed[named]
  BY Zenon DEF AutomationTypeOK, QueuesType, FlagsType
<1> HIDE DEF n
<1>3. Len(coming) = n
  BY DEF n
<1>4. CASE ~closed'[named] /\ ~WillFire'
  <2>1. ~closed[named] /\ (s = named => ~c)
    BY <1>2, <1>4
  <2>2. \/ previous = "closed"
        \/ InHand /\ reading.closed
        \/ \E i \in 1..(n + 1) : coming'[i].sensor = named /\ coming'[i].closed
    BY <1>1, <1>4 DEF MayFire, InHand
  <2>3. ASSUME NEW i \in 1..(n + 1), coming'[i].sensor = named, coming'[i].closed
        PROVE  i \in 1..n
    BY <1>1, <2>1, <2>3
  <2>4. \/ previous = "closed"
        \/ InHand /\ reading.closed
        \/ \E i \in 1..n : coming[i].sensor = named /\ coming[i].closed
    BY <1>1, <2>2, <2>3
  <2>5. QED
    BY <1>3, <2>1, <2>4 DEF MayFire
<1>5. CASE InHand /\ previous = "closed" /\ ~reading.closed
  BY <1>5 DEF MayFire, WillFire
<1>6. CASE WillFire' /\ ~(InHand /\ previous = "closed" /\ ~reading.closed)
  <2>1. PICK j \in 1..(n + 1) :
           /\ coming'[j].sensor = named /\ ~coming'[j].closed
           /\ \/ previous = "closed"
              \/ InHand /\ reading.closed
              \/ \E i \in 1..(j - 1) : coming'[i].sensor = named /\ coming'[i].closed
    BY <1>1, <1>6 DEF WillFire, InHand
  <2>2. \A i \in 1..(j - 1) : i \in 1..n
    BY <1>1
  <2>3. \/ previous = "closed"
        \/ InHand /\ reading.closed
        \/ \E i \in 1..(j - 1) : coming[i].sensor = named /\ coming[i].closed
    BY <1>1, <2>1, <2>2
  <2>4. CASE j = n + 1
    <3>1. ~closed[named]
      BY <1>1, <2>1, <2>4
    <3>2. QED
      BY <1>3, <2>2, <2>3, <3>1 DEF MayFire
  <2>5. CASE j # n + 1
    <3>1. j \in 1..n
      BY <1>1, <2>5
    <3>2. coming[j].sensor = named /\ ~coming[j].closed
      BY <1>1, <2>1, <3>1
    <3>3. QED
      BY <1>3, <2>3, <3>1, <3>2 DEF MayFire, WillFire
  <2>6. QED
    BY <2>4, <2>5
<1>7. QED
  BY <1>4, <1>5, <1>6 DEF MayFire, WillFire, InHand

\* Taking a report changes nothing about what makes the rule fire.
LEMMA TakeKeepsFiring ==
  ASSUME AutomationTypeOK, TakeReport
  PROVE  (WillFire => WillFire') /\ (MayFire' => MayFire)
<1> DEFINE n == Len(coming)
<1>1. coming \in Seq(Report) /\ coming # <<>>
  BY DEF TakeReport, AutomationTypeOK, QueuesType
<1>2. /\ n \in Nat /\ n >= 1 /\ Len(coming') = n - 1
      /\ \A i \in 1..(n - 1) : coming'[i] = coming[i + 1]
      /\ reading' = coming[1] /\ coming[1] \in Report
      /\ ruleName' = (coming[1].sensor = named)
  BY <1>1, TailFacts DEF TakeReport
<1>3. /\ UNCHANGED <<named, previous, closed>> /\ ~InHand
      /\ (reading' # NoReport)
  BY <1>2, AutomationAssumption DEF TakeReport, roomVars, InHand, Report
<1>4. InHand' <=> coming[1].sensor = named
  BY <1>2, <1>3 DEF InHand
<1> DEFINE Before(j) == \/ previous = "closed"
                        \/ \E i \in 1..(j - 1) : coming[i].sensor = named /\ coming[i].closed
           After(j) == \/ previous = "closed"
                       \/ InHand' /\ coming[1].closed
                       \/ \E i \in 1..(j - 1) : coming'[i].sensor = named /\ coming'[i].closed
<1> HIDE DEF n
<1>5. ASSUME NEW j \in 1..n PROVE Before(j + 1) <=> After(j)
  <2>1. ASSUME NEW i \in 1..((j + 1) - 1), coming[i].sensor = named, coming[i].closed
        PROVE  After(j)
    <3>1. CASE i = 1
      BY <1>4, <2>1, <3>1
    <3>2. CASE i # 1
      <4>1. i - 1 \in 1..(j - 1) /\ i - 1 \in 1..(n - 1) /\ (i - 1) + 1 = i
        BY <1>2, <3>2
      <4>2. coming'[i - 1] = coming[i]
        BY <1>2, <4>1
      <4>3. QED
        BY <2>1, <4>1, <4>2
    <3>3. QED
      BY <3>1, <3>2
  <2>2. ASSUME NEW i \in 1..(j - 1), coming'[i].sensor = named, coming'[i].closed
        PROVE  Before(j + 1)
    <3>1. i + 1 \in 1..((j + 1) - 1) /\ i \in 1..(n - 1)
      BY <1>2
    <3>2. coming[i + 1] = coming'[i]
      BY <1>2, <3>1
    <3>3. QED
      BY <2>2, <3>1, <3>2
  <2>3. InHand' /\ coming[1].closed => Before(j + 1)
    <3>1. 1 \in 1..((j + 1) - 1)
      OBVIOUS
    <3>2. QED
      BY <1>4, <3>1
  <2>4. QED
    BY <2>1, <2>2, <2>3
<1>6. WillFire <=> \E j \in 1..n : /\ coming[j].sensor = named /\ ~coming[j].closed
                                   /\ Before(j)
  BY <1>3 DEF WillFire, n
<1>7. WillFire' <=> \/ InHand' /\ previous = "closed" /\ ~coming[1].closed
                    \/ \E j \in 1..(n - 1) : /\ coming'[j].sensor = named /\ ~coming'[j].closed
                                             /\ After(j)
  BY <1>2, <1>3 DEF WillFire
<1>8. MayFire <=> WillFire \/ (~closed[named] /\ Before(n + 1))
  BY <1>2, <1>3 DEF MayFire, n
<1>9. MayFire' <=> WillFire' \/ (~closed[named] /\ After(n))
  <2>1. (n - 1) \in Nat /\ 1..(n - 1) = 1..Len(coming')
    BY <1>2
  <2>2. QED
    BY <1>2, <1>3, <2>1 DEF MayFire
<1> HIDE DEF Before, After
<1>10. ASSUME WillFire PROVE WillFire'
  <2>1. PICK j \in 1..n : coming[j].sensor = named /\ ~coming[j].closed /\ Before(j)
    BY <1>6, <1>10
  <2>2. CASE j = 1
    <3>1. previous = "closed"
      BY <2>1, <2>2 DEF Before
    <3>2. QED
      BY <1>4, <1>7, <2>1, <2>2, <3>1
  <2>3. CASE j # 1
    <3>1. /\ j - 1 \in 1..(n - 1) /\ j - 1 \in 1..n /\ (j - 1) + 1 = j
          /\ coming'[j - 1] = coming[j]
      BY <1>2, <2>3
    <3>2. After(j - 1)
      BY <1>5, <2>1, <3>1
    <3>3. QED
      BY <1>7, <2>1, <3>1, <3>2
  <2>4. QED
    BY <2>2, <2>3
<1>11. ASSUME WillFire' PROVE WillFire
  <2>1. CASE InHand' /\ previous = "closed" /\ ~coming[1].closed
    <3>1. 1 \in 1..n /\ Before(1)
      BY <1>2, <2>1 DEF Before
    <3>2. QED
      BY <1>4, <1>6, <2>1, <3>1
  <2>2. CASE ~(InHand' /\ previous = "closed" /\ ~coming[1].closed)
    <3>1. PICK j \in 1..(n - 1) :
             coming'[j].sensor = named /\ ~coming'[j].closed /\ After(j)
      BY <1>7, <1>11, <2>2
    <3>2. j \in 1..n /\ j + 1 \in 1..n /\ coming'[j] = coming[j + 1]
      BY <1>2
    <3>3. Before(j + 1)
      BY <1>5, <3>1, <3>2
    <3>4. QED
      BY <1>6, <3>1, <3>2, <3>3
  <2>3. QED
    BY <2>1, <2>2
<1>12. Before(n + 1) <=> After(n)
  BY <1>2, <1>5
<1>13. QED
  BY <1>8, <1>9, <1>10, <1>11, <1>12

\* Evaluate fires the rule or leaves it to fire later, and arms nothing.
LEMMA EvaluateFires ==
  ASSUME AutomationTypeOK, LoopsOK, Evaluate
  PROVE  /\ WillFire => WillFire' \/ switching' = DoorLights
         /\ MayFire' => MayFire
         /\ switching' # DoorLights => switching' = <<>>
         /\ ~WillFire => switching' = <<>>
<1>1. /\ reading # NoReport /\ switching = <<>> /\ reading \in Report
      /\ UNCHANGED <<closed, named, coming>> /\ ~InHand'
  BY DEF Evaluate, LoopsOK, roomVars, InHand, AutomationTypeOK, QueuesType
<1>2. CASE ~ruleName
  <2>1. previous' = previous /\ switching' = <<>> /\ ~InHand
    BY <1>1, <1>2 DEF Evaluate, InHand
  <2>2. QED
    BY <1>1, <2>1 DEF WillFire, MayFire
<1>3. CASE ruleName
  <2>1. InHand /\ reading.closed \in BOOLEAN
    BY <1>1, <1>3 DEF InHand, Report
  <2>2. previous' = "closed" <=> reading.closed
    BY <1>3, <2>1 DEF Evaluate
  <2>3. switching' = IF previous = "closed" /\ ~reading.closed THEN DoorLights ELSE <<>>
    BY <1>3, <2>1 DEF Evaluate, HasOpened
  <2>4. ASSUME WillFire, ~(previous = "closed" /\ ~reading.closed) PROVE WillFire'
    BY <1>1, <2>1, <2>2, <2>4 DEF WillFire
  <2>5. ASSUME WillFire' PROVE WillFire
    BY <1>1, <2>1, <2>2, <2>5 DEF WillFire
  <2>6. ASSUME MayFire' PROVE MayFire
    BY <1>1, <2>1, <2>2, <2>5, <2>6 DEF MayFire
  <2>7. (previous = "closed" /\ ~reading.closed) => WillFire
    BY <2>1 DEF WillFire
  <2>8. QED
    BY <2>3, <2>4, <2>6, <2>7
<1>4. QED
  BY <1>2, <1>3

\* A command for a light decides what that one will be, and nothing about the others.
LEMMA CommandSent ==
  ASSUME AutomationTypeOK, NEW h \in Light, NEW b \in BOOLEAN,
         outbox' = Append(outbox, Command(h, b)), lit' = lit, NEW l \in Light
  PROVE  /\ WillBe(h, b)'
         /\ \A on \in BOOLEAN : l # h /\ WillBe(l, on) => WillBe(l, on)'
<1> DEFINE n == Len(outbox)
<1>1. /\ n \in Nat /\ Len(outbox') = n + 1 /\ outbox'[n + 1] = Command(h, b)
      /\ \A k \in 1..n : outbox'[k] = outbox[k]
  BY DEF AutomationTypeOK, QueuesType, Command
<1>2. Command(h, b).light = h
  BY DEF Command
<1>3. Len(outbox) = n
  OBVIOUS
<1> HIDE DEF n
<1>4. WillBe(h, b)'
  <2>1. n + 1 \in 1..Len(outbox') /\ \A j \in ((n + 1) + 1)..Len(outbox') : FALSE
    BY <1>1
  <2>2. QED
    BY <1>1, <2>1 DEF WillBe
<1>5. ASSUME NEW on \in BOOLEAN, l # h, WillBe(l, on) PROVE WillBe(l, on)'
  <2>1. outbox'[n + 1].light # l
    BY <1>1, <1>2, <1>5
  <2>2. CASE lit[l] = on /\ NoneFor(l)
    <3>1. NoneFor(l)'
      BY <1>1, <1>3, <2>1, <2>2 DEF NoneFor
    <3>2. QED
      BY <2>2, <3>1 DEF WillBe
  <2>3. CASE ~(lit[l] = on /\ NoneFor(l))
    <3>1. PICK i \in 1..n : /\ outbox[i] = Command(l, on)
                            /\ \A j \in (i + 1)..n : outbox[j].light # l
      BY <1>3, <1>5, <2>3 DEF WillBe
    <3>2. i \in 1..Len(outbox') /\ outbox'[i] = Command(l, on)
      BY <1>1, <3>1
    <3>3. ASSUME NEW j \in (i + 1)..Len(outbox') PROVE outbox'[j].light # l
      <4>1. CASE j = n + 1
        BY <2>1, <4>1
      <4>2. CASE j # n + 1
        <5>1. j \in (i + 1)..n /\ j \in 1..n
          BY <1>1, <4>2
        <5>2. QED
          BY <1>1, <3>1, <5>1
      <4>3. QED
        BY <4>1, <4>2
    <3>4. QED
      BY <3>2, <3>3 DEF WillBe
  <2>4. QED
    BY <2>2, <2>3
<1>6. QED
  BY <1>4, <1>5

\* A light that obeys becomes what it would be.
LEMMA CommandObeyed ==
  ASSUME AutomationTypeOK, LightObeys, NEW l \in Light, NEW on \in BOOLEAN, WillBe(l, on)
  PROVE  WillBe(l, on)'
<1> DEFINE n == Len(outbox)
<1>1. outbox \in Seq([light : Light, on : BOOLEAN]) /\ outbox # <<>>
  BY DEF LightObeys, AutomationTypeOK, QueuesType
<1>2. /\ n \in Nat /\ n >= 1 /\ Len(outbox') = n - 1 /\ Head(outbox) = outbox[1]
      /\ \A k \in 1..(n - 1) : outbox'[k] = outbox[k + 1]
  BY <1>1, TailFacts DEF LightObeys
<1>3. outbox[1].light \in Light /\ lit' = [lit EXCEPT ![outbox[1].light] = outbox[1].on]
  <2>1. Head(outbox) \in [light : Light, on : BOOLEAN]
    BY <1>1, TailFacts
  <2>2. QED
    BY <1>2, <2>1 DEF LightObeys
<1>4. lit \in [Light -> BOOLEAN]
  BY DEF AutomationTypeOK, FlagsType
<1>5. outbox[1].light = l => lit'[l] = outbox[1].on
  BY <1>3, <1>4, Zenon
<1>6. outbox[1].light # l => lit'[l] = lit[l]
  BY <1>3, <1>4, Zenon
<1>7. Len(outbox) = n
  OBVIOUS
<1> HIDE DEF n
<1>8. CASE lit[l] = on /\ NoneFor(l)
  <2>1. outbox[1].light # l
    BY <1>2, <1>7, <1>8 DEF NoneFor
  <2>2. \A k \in 1..(n - 1) : k + 1 \in 1..n
    BY <1>2
  <2>3. NoneFor(l)'
    BY <1>2, <1>7, <1>8, <2>2 DEF NoneFor
  <2>4. lit'[l] = on
    BY <1>6, <1>8, <2>1
  <2>5. QED
    BY <2>3, <2>4 DEF WillBe
<1>9. CASE ~(lit[l] = on /\ NoneFor(l))
  <2>1. PICK i \in 1..n : /\ outbox[i] = Command(l, on)
                          /\ \A j \in (i + 1)..n : outbox[j].light # l
    BY <1>7, <1>9 DEF WillBe
  <2>2. CASE i = 1
    <3>1. outbox[1].light = l /\ outbox[1].on = on
      BY <2>1, <2>2 DEF Command
    <3>2. \A k \in 1..(n - 1) : k + 1 \in (i + 1)..n
      BY <1>2, <2>2
    <3>3. NoneFor(l)'
      BY <1>2, <2>1, <3>2 DEF NoneFor
    <3>4. lit'[l] = on
      BY <1>5, <3>1
    <3>5. QED
      BY <3>3, <3>4 DEF WillBe
  <2>3. CASE i # 1
    <3>1. i - 1 \in 1..(n - 1) /\ (i - 1) + 1 = i
      BY <1>2, <2>3
    <3>2. outbox'[i - 1] = Command(l, on) /\ i - 1 \in 1..Len(outbox')
      BY <1>2, <2>1, <3>1
    <3>3. ASSUME NEW j \in ((i - 1) + 1)..Len(outbox') PROVE outbox'[j].light # l
      <4>1. j \in 1..(n - 1) /\ j + 1 \in (i + 1)..n
        BY <1>2, <3>1
      <4>2. QED
        BY <1>2, <2>1, <4>1
    <3>4. QED
      BY <3>2, <3>3 DEF WillBe
  <2>4. QED
    BY <2>2, <2>3
<1>10. QED
  BY <1>8, <1>9

\* What a step leaves alone says the same of the rules and of a light.
LEMMA SameFiring ==
  ASSUME UNCHANGED <<closed, named, coming, reading, ruleName, previous>>
  PROVE  (WillFire' <=> WillFire) /\ (MayFire' <=> MayFire)
  BY DEF WillFire, MayFire, InHand

LEMMA SameCommands ==
  ASSUME UNCHANGED <<outbox, lit>>, NEW l \in Light, NEW on \in BOOLEAN
  PROVE  WillBe(l, on)' <=> WillBe(l, on)
  BY DEF WillBe, NoneFor

LEMMA NothingClear ==
  ASSUME due' = Unclear, NEW l \in Light
  PROVE  OnOK(l)' /\ OffOK(l)'
<1>1. due'[l] = "any"
  BY DEF Unclear
<1>2. QED
  BY <1>1 DEF OnOK, OffOK

\* A report is sent.
LEMMA SendDue ==
  ASSUME DueInv, NEW s \in Sensor, DoorOpens(s) \/ DoorCloses(s) \/ SensorRepeats(s),
         NEW l \in Light
  PROVE  OnOK(l)' /\ OffOK(l)'
<1>1. AutomationTypeOK /\ OnOK(l) /\ OffOK(l) /\ closed[s] \in BOOLEAN /\ named \in Sensor
  BY DEF DueInv, AutomationTypeOK, FlagsType, QueuesType
<1>2. UNCHANGED <<named, reading, ruleName, previous, switching, night, outbox, lit>>
  BY DEF DoorOpens, DoorCloses, SensorRepeats, roomVars, ruleVars
<1>3. PICK c \in BOOLEAN : coming' = Append(coming, [sensor |-> s, closed |-> c])
  BY <1>1 DEF DoorOpens, DoorCloses, SensorRepeats, Send
<1>4. [sensor |-> s, closed |-> c] \in Report
  BY DEF Report
<1>5. WillFire => WillFire'
  BY <1>1, <1>2, <1>3, <1>4, SendKeepsFiring
<1>6. \A on \in BOOLEAN : WillBe(l, on)' <=> WillBe(l, on)
  BY <1>2, SameCommands
<1>7. CASE DoorOpens(s) /\ s = named
  <2>1. coming' = Append(coming, [sensor |-> named, closed |-> FALSE])
    BY <1>7 DEF DoorOpens, Send
  <2>2. LastHeard => WillFire'
    BY <1>1, <1>2, <2>1, OpeningFires
  <2>3. CASE l \notin ToSet(DoorLights)
    <3>1. due'[l] = due[l]
      BY <1>7, <2>3, Zenon DEF DoorOpens
    <3>2. QED
      BY <1>1, <1>2, <1>6, <2>3, <3>1 DEF OnOK, OffOK
  <2>4. CASE l \in ToSet(DoorLights)
    <3>1. due'[l] = IF LastHeard /\ l \notin ToSet(night) THEN "on" ELSE "any"
      BY <1>7, <2>4, Zenon DEF DoorOpens
    <3>2. QED
      BY <1>2, <2>2, <2>4, <3>1 DEF OnOK, OffOK
  <2>5. QED
    BY <2>3, <2>4
<1>8. CASE ~(DoorOpens(s) /\ s = named)
  <2>1. due' = due
    BY <1>8 DEF DoorOpens, DoorCloses, SensorRepeats
  <2>2. PICK d \in BOOLEAN :
           /\ coming' = Append(coming, [sensor |-> s, closed |-> d])
           /\ closed' = [closed EXCEPT ![s] = d]
           /\ s = named => d \/ ~closed[s]
    <3>1. closed = [closed EXCEPT ![s] = closed[s]]
      BY <1>1, Zenon DEF AutomationTypeOK, FlagsType
    <3>2. QED
      BY <1>1, <1>8, <3>1, Zenon DEF DoorOpens, DoorCloses, SensorRepeats, Send, roomVars
  <2>3. MayFire' => MayFire
    BY <1>1, <1>2, <2>2, SendArmsNothing
  <2>4. QED
    BY <1>1, <1>2, <1>5, <1>6, <2>1, <2>3 DEF OnOK, OffOK
<1>9. QED
  BY <1>7, <1>8

LEMMA ReadDue ==
  ASSUME DueInv, TakeReport \/ Evaluate, NEW l \in Light
  PROVE  OnOK(l)' /\ OffOK(l)'
<1>1. AutomationTypeOK /\ LoopsOK /\ OnOK(l) /\ OffOK(l)
  BY DEF DueInv
<1>2. UNCHANGED <<night, outbox, lit, due>>
  BY DEF TakeReport, Evaluate
<1>3. \A on \in BOOLEAN : WillBe(l, on)' <=> WillBe(l, on)
  BY <1>2, SameCommands
<1>4. CASE TakeReport
  <2>1. switching' = switching
    BY <1>4 DEF TakeReport
  <2>2. (WillFire => WillFire') /\ (MayFire' => MayFire)
    BY <1>1, <1>4, TakeKeepsFiring
  <2>3. QED
    BY <1>1, <1>2, <1>3, <2>1, <2>2 DEF OnOK, OffOK
<1>5. CASE Evaluate
  <2>1. /\ WillFire => WillFire' \/ switching' = DoorLights
        /\ MayFire' => MayFire
        /\ switching' # DoorLights => switching' = <<>>
        /\ ~WillFire => switching' = <<>>
    BY <1>1, <1>5, EvaluateFires
  <2>2. switching = <<>> /\ l \notin ToSet(switching)
    BY <1>1, <1>5, EmptyFacts DEF Evaluate, LoopsOK
  <2>3. WillFire => MayFire
    BY DEF MayFire
  <2>4. ToSet(<<>>) = {}
    BY EmptyFacts
  <2>5. OnOK(l)'
    BY <1>1, <1>2, <1>3, <2>1, <2>2 DEF OnOK
  <2>6. OffOK(l)'
    <3>1. ASSUME due[l] = "off" PROVE l \notin ToSet(switching')
      <4>1. CASE l \in ToSet(DoorLights)
        BY <1>1, <2>1, <2>3, <2>4, <3>1, <4>1 DEF OffOK
      <4>2. CASE l \notin ToSet(DoorLights)
        BY <2>1, <2>4, <4>2
      <4>3. QED
        BY <4>1, <4>2
    <3>2. QED
      BY <1>1, <1>2, <1>3, <2>1, <3>1 DEF OffOK
  <2>7. QED
    BY <2>5, <2>6
<1>6. QED
  BY <1>4, <1>5

LEMMA SwitchDue ==
  ASSUME DueInv, SwitchOn \/ SwitchOff, NEW l \in Light
  PROVE  OnOK(l)' /\ OffOK(l)'
<1>1. AutomationTypeOK /\ LoopsOK /\ OnOK(l) /\ OffOK(l)
  BY DEF DueInv
<1>2. UNCHANGED <<closed, named, coming, reading, ruleName, previous, lit, due>>
  BY DEF SwitchOn, SwitchOff, roomVars, ruleVars
<1>3. (WillFire' <=> WillFire) /\ (MayFire' <=> MayFire)
  BY <1>2, SameFiring
<1>4. CASE SwitchOn
  <2>1. switching \in Seq(Light) /\ switching # <<>> /\ IsInjective(switching)
    BY <1>1, <1>4 DEF SwitchOn, AutomationTypeOK, QueuesType, LoopsOK
  <2>2. /\ ToSet(switching') = ToSet(switching) \ {Head(switching)}
        /\ Head(switching) \in ToSet(switching) /\ Head(switching) \in Light
    BY <1>4, <2>1, LoopTurn, TailFacts DEF SwitchOn
  <2>3. PICK k \in Light : k = Head(switching)
    BY <2>2
  <2>4. outbox' = Append(outbox, Command(k, TRUE)) /\ TRUE \in BOOLEAN
    BY <1>4, <2>3 DEF SwitchOn
  <2>5. /\ WillBe(k, TRUE)'
        /\ \A on \in BOOLEAN : l # k /\ WillBe(l, on) => WillBe(l, on)'
    BY <1>1, <1>2, <2>4, CommandSent
  <2>6. night' = night
    BY <1>4 DEF SwitchOn
  <2>7. OnOK(l)'
    <3>1. CASE l = k
      BY <1>1, <1>2, <1>3, <2>5, <2>6, <3>1 DEF OnOK
    <3>2. CASE l # k
      BY <1>1, <1>2, <1>3, <2>2, <2>3, <2>5, <2>6, <3>2 DEF OnOK
    <3>3. QED
      BY <3>1, <3>2
  <2>8. OffOK(l)'
    BY <1>1, <1>2, <1>3, <2>2, <2>3, <2>5, <2>6 DEF OffOK
  <2>9. QED
    BY <2>7, <2>8
<1>5. CASE SwitchOff
  <2>1. night \in Seq(Light) /\ night # <<>> /\ IsInjective(night)
    BY <1>1, <1>5 DEF SwitchOff, AutomationTypeOK, QueuesType, LoopsOK
  <2>2. /\ ToSet(night') = ToSet(night) \ {Head(night)}
        /\ Head(night) \in ToSet(night) /\ Head(night) \in Light
    BY <1>5, <2>1, LoopTurn, TailFacts DEF SwitchOff
  <2>3. PICK k \in Light : k = Head(night)
    BY <2>2
  <2>4. outbox' = Append(outbox, Command(k, FALSE)) /\ FALSE \in BOOLEAN
    BY <1>5, <2>3 DEF SwitchOff
  <2>5. /\ WillBe(k, FALSE)'
        /\ \A on \in BOOLEAN : l # k /\ WillBe(l, on) => WillBe(l, on)'
    BY <1>1, <1>2, <2>4, CommandSent
  <2>6. switching' = switching
    BY <1>5 DEF SwitchOff, ruleVars
  <2>7. OnOK(l)'
    BY <1>1, <1>2, <1>3, <2>2, <2>3, <2>5, <2>6 DEF OnOK
  <2>8. OffOK(l)'
    <3>1. CASE l = k
      BY <1>1, <1>2, <1>3, <2>5, <2>6, <3>1 DEF OffOK
    <3>2. CASE l # k
      BY <1>1, <1>2, <1>3, <2>2, <2>3, <2>5, <2>6, <3>2 DEF OffOK
    <3>3. QED
      BY <3>1, <3>2
  <2>9. QED
    BY <2>7, <2>8
<1>6. QED
  BY <1>4, <1>5

LEMMA MidnightDue ==
  ASSUME DueInv, Midnight, NEW l \in Light
  PROVE  OnOK(l)' /\ OffOK(l)'
<1>1. AutomationTypeOK /\ LoopsOK /\ OnOK(l) /\ OffOK(l)
  BY DEF DueInv
<1>2. /\ UNCHANGED <<closed, named, coming, reading, ruleName, previous, switching, outbox, lit>>
      /\ night' = NightLights
  BY DEF Midnight, roomVars, ruleVars
<1>3. (WillFire' <=> WillFire) /\ (MayFire' <=> MayFire)
  BY <1>2, SameFiring
<1>4. \A on \in BOOLEAN : WillBe(l, on)' <=> WillBe(l, on)
  BY <1>2, SameCommands
<1>5. CASE l \notin ToSet(NightLights)
  <2>1. due'[l] = due[l]
    BY <1>5, Zenon DEF Midnight
  <2>2. QED
    BY <1>1, <1>2, <1>3, <1>4, <1>5, <2>1 DEF OnOK, OffOK
<1>6. CASE l \in ToSet(NightLights)
  <2>1. due'[l] = IF l \notin ToSet(DoorLights)
                     \/ (DoorIdle /\ (previous = "closed" => closed[named]))
                  THEN "off" ELSE "any"
    BY <1>6, Zenon DEF Midnight
  <2>2. CASE l \notin ToSet(DoorLights)
    <3>1. l \notin ToSet(switching)
      BY <1>1, <2>2 DEF LoopsOK
    <3>2. QED
      BY <1>2, <1>6, <2>1, <2>2, <3>1 DEF OnOK, OffOK
  <2>3. CASE l \in ToSet(DoorLights) /\ DoorIdle /\ (previous = "closed" => closed[named])
    <3>1. l \notin ToSet(switching)
      BY <2>3, EmptyFacts DEF DoorIdle
    <3>2. Len(coming) = 0 /\ ~InHand
      BY <2>3, EmptyFacts DEF DoorIdle, InHand
    <3>3. ~MayFire
      BY <2>3, <3>2 DEF MayFire, WillFire
    <3>4. QED
      BY <1>2, <1>3, <1>6, <2>1, <2>3, <3>1, <3>3 DEF OnOK, OffOK
  <2>4. CASE due'[l] = "any"
    BY <2>4 DEF OnOK, OffOK
  <2>5. QED
    BY <2>1, <2>2, <2>3, <2>4
<1>7. QED
  BY <1>5, <1>6

LEMMA ObeyDue ==
  ASSUME DueInv, LightObeys, NEW l \in Light
  PROVE  OnOK(l)' /\ OffOK(l)'
<1>1. AutomationTypeOK /\ OnOK(l) /\ OffOK(l)
  BY DEF DueInv
<1>2. UNCHANGED <<closed, named, coming, reading, ruleName, previous, switching, night, due>>
  BY DEF LightObeys, roomVars, ruleVars
<1>3. (WillFire' <=> WillFire) /\ (MayFire' <=> MayFire)
  BY <1>2, SameFiring
<1>4. \A on \in BOOLEAN : WillBe(l, on) => WillBe(l, on)'
  BY <1>1, CommandObeyed
<1>5. QED
  BY <1>1, <1>2, <1>3, <1>4 DEF OnOK, OffOK

\* The inductive invariant of what the lights are due: a light that is due on is in the loop, on
\* its way or about to be made so by a report that will fire the rule; one that is due off is still
\* to be switched off or on its way, and no report can make the rule fire.
THEOREM DueInvariance == AutomationSpec => []DueInv
<1>1. AutomationInit => DueInv
  <2> SUFFICES ASSUME AutomationInit PROVE DueInv
    OBVIOUS
  <2>1. \A l \in Light : due[l] = "any"
    BY DEF AutomationInit, Unclear
  <2>2. QED
    BY <2>1, AutomationStart DEF DueInv, OnOK, OffOK
<1>2. DueInv /\ [AutomationNext]_automationVars => DueInv'
  <2> SUFFICES ASSUME DueInv, [AutomationNext]_automationVars PROVE DueInv'
    OBVIOUS
  <2>1. AutomationTypeOK' /\ LoopsOK'
    BY TypeStep, LoopsStep DEF DueInv
  <2>2. ASSUME NEW l \in Light PROVE OnOK(l)' /\ OffOK(l)'
    <3>1. CASE \E s \in Sensor : DoorOpens(s) \/ DoorCloses(s) \/ SensorRepeats(s)
      BY <3>1, SendDue
    <3>2. CASE TakeReport \/ Evaluate
      BY <3>2, ReadDue
    <3>3. CASE SwitchOn \/ SwitchOff
      BY <3>3, SwitchDue
    <3>4. CASE Midnight
      BY <3>4, MidnightDue
    <3>5. CASE LightObeys
      BY <3>5, ObeyDue
    <3>6. CASE \/ \E s \in Sensor : NamePasses(s)
               \/ WriteFails \/ SwitchOnFails \/ SwitchOffFails \/ LightMisses \/ ReportsLost
               \/ RestartRules
      <4>1. due' = Unclear
        BY <3>6
        DEF NamePasses, WriteFails, SwitchOnFails, SwitchOffFails, LightMisses, ReportsLost,
            RestartRules
      <4>2. QED
        BY <4>1, NothingClear
    <3>7. CASE UNCHANGED automationVars
      <4>1. UNCHANGED <<closed, named, coming, reading, ruleName, previous, switching, night,
                        outbox, lit, due>>
        BY <3>7 DEF automationVars, roomVars, ruleVars
      <4>2. QED
        BY <4>1, SameFiring, SameCommands DEF DueInv, OnOK, OffOK
    <3>8. QED
      BY <3>1, <3>2, <3>3, <3>4, <3>5, <3>6, <3>7 DEF AutomationNext
  <2>3. QED
    BY <2>1, <2>2 DEF DueInv
<1>3. QED
  BY <1>1, <1>2, PTL DEF AutomationSpec

\* For any sensors, lights and interleaving of the two threads, once everything has arrived the
\* lights are as the last opening or the last midnight wants them (DoorOpenedLightsRule,
\* trigger_night_mode), unless something failed, the name passed on, or the two met.
THEOREM LightsFollow == AutomationSpec => []LightsFollowTheRules
<1>1. DueInv => LightsFollowTheRules
  <2> SUFFICES ASSUME DueInv, DoorIdle, night = <<>>, outbox = <<>>, NEW l \in Light
               PROVE  (due[l] = "on" => lit[l]) /\ (due[l] = "off" => ~lit[l])
    BY DEF LightsFollowTheRules
  <2>1. /\ Len(coming) = 0 /\ ~InHand /\ ToSet(switching) = {} /\ ToSet(night) = {}
        /\ Len(outbox) = 0
    BY EmptyFacts DEF DoorIdle, InHand
  <2>2. ~WillFire
    BY <2>1 DEF WillFire
  <2>3. \A on \in BOOLEAN : WillBe(l, on) => lit[l] = on
    BY <2>1 DEF WillBe
  <2>4. OnOK(l) /\ OffOK(l)
    BY DEF DueInv
  <2>5. due[l] = "on" => lit[l] = TRUE
    BY <2>1, <2>2, <2>3, <2>4 DEF OnOK
  <2>6. due[l] = "off" => lit[l] = FALSE
    BY <2>1, <2>2, <2>3, <2>4 DEF OffOK
  <2>7. QED
    BY <2>5, <2>6
<1>2. QED
  BY <1>1, DueInvariance, PTL

-----------------------------------------------------------------------------
(***************************************************************************)
(* The event streams.  A stream makes one call at a time, so at most one   *)
(* event is out of its queue, and it is behind what has been told and      *)
(* before what is queued.  What is owed and has not been received is the   *)
(* event in publication, with the publisher still to come.                 *)
(***************************************************************************)
\* What the variables of the streams hold.
StreamsTypeOK ==
    /\ subscribers \in Seq(Stream) /\ waiting \in Seq(Stream) /\ running \subseteq Stream
    /\ published \in 0..MaxEvents
    /\ publishing = NoEvent \/ (publishing = published /\ published \in Event)
    /\ position \in Nat \ {0}
    /\ phase \in [Stream -> {"new", "opened", "waiting", "gone"}]
    /\ queue \in [Stream -> Seq(Event)] /\ told \in [Stream -> Seq(Event)]
    /\ answer \in [Stream -> {<<>>, <<NoEvent>>} \cup {<<e>> : e \in Event}]
    /\ owed \in [Stream -> SUBSET Event]

\* A stream subscribes once, when it opens, and stays on the list while it is open.
SubscribedOnce ==
    /\ \A i, j \in DOMAIN subscribers : subscribers[i] = subscribers[j] => i = j
    /\ \A i \in DOMAIN subscribers : phase[subscribers[i]] # "new"
    /\ \A s \in Stream : IsOpen(s) => \E i \in DOMAIN subscribers : subscribers[i] = s

\* A stream makes one call at a time, and none while an answer waits for it.
OneCallEach ==
    /\ \A i, j \in DOMAIN waiting : waiting[i] = waiting[j] => i = j
    /\ \A i \in DOMAIN waiting :
          /\ phase[waiting[i]] = "waiting" /\ waiting[i] \notin running
          /\ answer[waiting[i]] = <<>>
    /\ \A s \in running : phase[s] \in {"waiting", "gone"} /\ answer[s] = <<>>

\* Nothing is put to a stream before it opens, and nothing is answered before it starts.
QuietBefore ==
    \A s \in Stream :
        /\ phase[s] # "waiting" => told[s] = <<>> /\ answer[s] = <<>>
        /\ phase[s] = "new" => queue[s] = <<>> /\ owed[s] = {}

\* publish() has still to come to s.
ToCome(s) ==
    /\ publishing # NoEvent
    /\ \E i \in DOMAIN subscribers : i >= position /\ subscribers[i] = s

\* What s has received is in order; what it is owed it has received, or the publisher is on its way.
InOrder(s) ==
    /\ \A i, j \in DOMAIN Received(s) : i < j => Received(s)[i] < Received(s)[j]
    /\ \A i \in DOMAIN Received(s) :
          Received(s)[i] <= published /\ (ToCome(s) => Received(s)[i] # publishing)
    /\ \A e \in owed[s] :
          \/ \E i \in DOMAIN Received(s) : Received(s)[i] = e
          \/ ToCome(s) /\ e = publishing

StreamsInv ==
    /\ StreamsTypeOK
    /\ SubscribedOnce
    /\ OneCallEach
    /\ QuietBefore
    /\ \A s \in Stream : IsOpen(s) => InOrder(s)

\* list.remove takes out the first item equal to the argument: the only one here.
LEMMA OnePlace ==
  ASSUME NEW S, NEW q \in Seq(S), NEW i \in DOMAIN q,
         \A j, k \in DOMAIN q : q[j] = q[k] => j = k
  PROVE  LET I == {k \in 1..Len(q) : q[k] = q[i]} IN I # {} /\ Min(I) = i
<1> DEFINE I == {k \in 1..Len(q) : q[k] = q[i]}
<1>1. Len(q) \in Nat /\ DOMAIN q = 1..Len(q)
  OBVIOUS
<1>2. I = {i}
  BY <1>1
<1>3. Min({i}) = i
  BY <1>1 DEF Min
<1>4. QED
  BY <1>2, <1>3

LEMMA RemovedAt ==
  ASSUME NEW S, NEW q \in Seq(S), NEW i \in DOMAIN q
  PROVE  LET r == RemoveAt(q, i)
         IN  /\ r \in Seq(S) /\ Len(r) = Len(q) - 1 /\ DOMAIN r = 1..(Len(q) - 1)
             /\ \A j \in 1..(Len(q) - 1) : r[j] = IF j < i THEN q[j] ELSE q[j + 1]
<1> DEFINE a == SubSeq(q, 1, i - 1)
           b == SubSeq(q, i + 1, Len(q))
<1>1. Len(q) \in Nat /\ i \in 1..Len(q)
  OBVIOUS
<1>2. a \in Seq(S) /\ Len(a) = i - 1 /\ \A j \in 1..(i - 1) : a[j] = q[j]
  BY <1>1
<1>3. b \in Seq(S) /\ Len(b) = Len(q) - i /\ \A j \in 1..(Len(q) - i) : b[j] = q[i + j]
  BY <1>1
<1>4. RemoveAt(q, i) = a \o b
  BY DEF RemoveAt
<1> HIDE DEF a, b
<1>5. a \o b \in Seq(S) /\ Len(a \o b) = Len(q) - 1
  BY <1>1, <1>2, <1>3
<1>6. \A j \in 1..(Len(q) - 1) : (a \o b)[j] = IF j < i THEN q[j] ELSE q[j + 1]
  <2> SUFFICES ASSUME NEW j \in 1..(Len(q) - 1)
               PROVE  (a \o b)[j] = IF j < i THEN q[j] ELSE q[j + 1]
    OBVIOUS
  <2>1. CASE j < i
    BY <1>1, <1>2, <1>3, <2>1
  <2>2. CASE ~(j < i)
    <3>1. (a \o b)[j] = b[j - (i - 1)]
      BY <1>1, <1>2, <1>3, <2>2
    <3>2. j - (i - 1) \in 1..(Len(q) - i) /\ i + (j - (i - 1)) = j + 1
      BY <1>1, <2>2
    <3>3. QED
      BY <1>3, <2>2, <3>1, <3>2
  <2>3. QED
    BY <2>1, <2>2
<1>7. QED
  BY <1>4, <1>5, <1>6

LEMMA RemovedFirst ==
  ASSUME NEW S, NEW q \in Seq(S), NEW i \in DOMAIN q,
         \A j, k \in DOMAIN q : q[j] = q[k] => j = k
  PROVE  LET r == RemoveFirst(q, q[i])
         IN  /\ r \in Seq(S) /\ Len(r) = Len(q) - 1 /\ DOMAIN r = 1..(Len(q) - 1)
             /\ \A j \in 1..(Len(q) - 1) : r[j] = IF j < i THEN q[j] ELSE q[j + 1]
<1>1. LET I == {k \in 1..Len(q) : q[k] = q[i]} IN I # {} /\ Min(I) = i
  BY OnePlace
<1>2. \E k \in 1..Len(q) : q[k] = q[i]
  OBVIOUS
<1> DEFINE r == RemoveAt(q, i)
<1>3. RemoveFirst(q, q[i]) = r
  BY <1>1, <1>2 DEF RemoveFirst, SelectInSeq
<1>4. /\ r \in Seq(S) /\ Len(r) = Len(q) - 1 /\ DOMAIN r = 1..(Len(q) - 1)
      /\ \A j \in 1..(Len(q) - 1) : r[j] = IF j < i THEN q[j] ELSE q[j + 1]
  BY RemovedAt
<1> HIDE DEF r
<1>5. QED
  BY <1>3, <1>4, Zenon

\* What is left keeps its order and has everything but the removed item, each once.
LEMMA LeftOver ==
  ASSUME NEW S, NEW q \in Seq(S), NEW e,
         \A j, k \in DOMAIN q : q[j] = q[k] => j = k
  PROVE  LET r == RemoveFirst(q, e)
         IN  /\ r \in Seq(S)
             /\ \A j, k \in DOMAIN r : r[j] = r[k] => j = k
             /\ \A j \in DOMAIN r : r[j] # e /\ \E k \in DOMAIN q : q[k] = r[j]
             /\ \A k \in DOMAIN q : q[k] # e => \E j \in DOMAIN r : r[j] = q[k]
<1>1. Len(q) \in Nat /\ DOMAIN q = 1..Len(q)
  OBVIOUS
<1>2. CASE \E i \in DOMAIN q : q[i] = e
  <2>1. PICK i \in DOMAIN q : q[i] = e
    BY <1>2
  <2> DEFINE r == RemoveFirst(q, e)
  <2>2. /\ r \in Seq(S) /\ DOMAIN r = 1..(Len(q) - 1)
        /\ \A j \in 1..(Len(q) - 1) : r[j] = IF j < i THEN q[j] ELSE q[j + 1]
    BY <2>1, RemovedFirst
  <2> HIDE DEF r
  <2>3. \A j \in DOMAIN r : \E k \in DOMAIN q : q[k] = r[j] /\ k # i /\ k = IF j < i THEN j ELSE j + 1
    BY <1>1, <2>2
  <2>4. \A j \in DOMAIN r : r[j] # e /\ \E k \in DOMAIN q : q[k] = r[j]
    BY <2>1, <2>3
  <2>5. \A j, k \in DOMAIN r : r[j] = r[k] => j = k
    <3> SUFFICES ASSUME NEW j \in DOMAIN r, NEW k \in DOMAIN r, r[j] = r[k] PROVE j = k
      OBVIOUS
    <3>1. PICK m \in DOMAIN q : q[m] = r[j] /\ m = IF j < i THEN j ELSE j + 1
      BY <2>3
    <3>2. PICK n \in DOMAIN q : q[n] = r[k] /\ n = IF k < i THEN k ELSE k + 1
      BY <2>3
    <3>3. m = n
      BY <3>1, <3>2
    <3>4. QED
      BY <1>1, <2>1, <2>2, <3>1, <3>2, <3>3
  <2>6. \A k \in DOMAIN q : q[k] # e => \E j \in DOMAIN r : r[j] = q[k]
    <3> SUFFICES ASSUME NEW k \in DOMAIN q, q[k] # e PROVE \E j \in DOMAIN r : r[j] = q[k]
      OBVIOUS
    <3>1. k # i
      BY <2>1
    <3>2. CASE k < i
      BY <1>1, <2>1, <2>2, <3>2
    <3>3. CASE k > i
      <4>1. k - 1 \in DOMAIN r /\ r[k - 1] = q[k]
        BY <1>1, <2>1, <2>2, <3>3
      <4>2. QED
        BY <4>1
    <3>4. QED
      BY <1>1, <3>1, <3>2, <3>3
  <2>7. QED
    BY <2>2, <2>4, <2>5, <2>6 DEF r
<1>3. CASE ~ \E i \in DOMAIN q : q[i] = e
  <2>1. RemoveFirst(q, e) = q
    BY <1>1, <1>3 DEF RemoveFirst
  <2>2. QED
    BY <1>3, <2>1
<1>4. QED
  BY <1>2, <1>3

LEMMA SomethingThere ==
  ASSUME NEW S, NEW q \in Seq(S), q # <<>>
  PROVE  /\ Head(q) \in S /\ Tail(q) \in Seq(S) /\ <<Head(q)>> \o Tail(q) = q
         /\ 1 \in DOMAIN q /\ q[1] = Head(q) /\ DOMAIN Tail(q) = 1..(Len(q) - 1)
         /\ \A i \in DOMAIN Tail(q) : i + 1 \in DOMAIN q /\ Tail(q)[i] = q[i + 1]
<1>1. Len(q) \in Nat \ {0}
  OBVIOUS
<1>2. Head(q) \in S /\ Tail(q) \in Seq(S) /\ Len(Tail(q)) = Len(q) - 1
  BY <1>1
<1>3. 1 \in DOMAIN q /\ q[1] = Head(q) /\ DOMAIN Tail(q) = 1..(Len(q) - 1)
  BY <1>1
<1>4. \A i \in DOMAIN Tail(q) : i + 1 \in DOMAIN q /\ Tail(q)[i] = q[i + 1]
  BY <1>1
<1>5. <<Head(q)>> \o Tail(q) = q
  BY <1>1
<1>6. QED
  BY <1>2, <1>3, <1>4, <1>5

LEMMA StreamFacts ==
  ASSUME StreamsTypeOK, NEW s \in Stream
  PROVE  /\ InReply(s) \in Seq(Event) /\ queue[s] \in Seq(Event) /\ told[s] \in Seq(Event)
         /\ Received(s) \in Seq(Event)
         /\ answer[s] = <<>> => InReply(s) = <<>>
<1>1. queue[s] \in Seq(Event) /\ told[s] \in Seq(Event)
  BY DEF StreamsTypeOK
<1>2. answer[s] \in {<<>>, <<NoEvent>>} \cup {<<e>> : e \in Event}
  BY DEF StreamsTypeOK
<1>3. InReply(s) \in Seq(Event)
  <2>1. CASE answer[s] \in {<<>>, <<NoEvent>>}
    <3>1. InReply(s) = <<>>
      BY <2>1, Zenon DEF InReply
    <3>2. QED
      BY <3>1
  <2>2. CASE answer[s] \in {<<e>> : e \in Event}
    <3>1. PICK e \in Event : answer[s] = <<e>>
      BY <2>2
    <3>2. <<e>> \in Seq(Event)
      OBVIOUS
    <3>3. QED
      BY <3>1, <3>2 DEF InReply
  <2>3. QED
    BY <1>2, <2>1, <2>2
<1>4. answer[s] = <<>> => InReply(s) = <<>>
  BY DEF InReply
<1>5. Received(s) \in Seq(Event)
  BY <1>1, <1>3 DEF Received
<1>6. QED
  BY <1>1, <1>3, <1>4, <1>5

LEMMA AddedToJoined ==
  \A a, b \in Seq(Event) : \A e \in Event : a \o Append(b, e) = Append(a \o b, e)
OBVIOUS

LEMMA JoinedInTurn ==
  \A a, b, c \in Seq(Event) : (a \o b) \o c = a \o (b \o c)
OBVIOUS

LEMMA StreamsStart == StreamsInit => StreamsInv
<1> SUFFICES ASSUME StreamsInit PROVE StreamsInv
  OBVIOUS
<1> USE DEF StreamsInit
<1>1. StreamsTypeOK
  <2>1. <<>> \in Seq(Stream) /\ <<>> \in Seq(Event)
    OBVIOUS
  <2>2. 0 \in 0..MaxEvents
    BY StreamAssumption
  <2>3. QED
    BY <2>1, <2>2 DEF StreamsTypeOK
<1>2. SubscribedOnce
  BY DEF SubscribedOnce, IsOpen
<1>3. OneCallEach
  BY DEF OneCallEach
<1>4. QuietBefore
  BY DEF QuietBefore
<1>5. \A s \in Stream : ~IsOpen(s)
  BY DEF IsOpen
<1>6. QED
  BY <1>1, <1>2, <1>3, <1>4, <1>5 DEF StreamsInv

LEMMA ReturnType ==
  ASSUME StreamsTypeOK, NEW s \in Stream, NEW r \in Event \cup {NoEvent}, Returns(s, r)
  PROVE  (running \subseteq Stream)'
         /\ (answer \in [Stream -> {<<>>, <<NoEvent>>} \cup {<<e>> : e \in Event}])'
<1>1. <<r>> \in {<<>>, <<NoEvent>>} \cup {<<e>> : e \in Event}
  OBVIOUS
<1> DEFINE A == {<<>>, <<NoEvent>>} \cup {<<e>> : e \in Event}
<1>2. answer \in [Stream -> A] /\ running \subseteq Stream
  BY DEF StreamsTypeOK
<1> HIDE DEF A
<1>3. answer' \in [Stream -> A]
  BY <1>1, <1>2 DEF Returns, A
<1>4. QED
  BY <1>2, <1>3 DEF Returns, A

LEMMA StreamsType ==
  ASSUME StreamsInv, StreamsNext
  PROVE  StreamsTypeOK'
<1>1. StreamsTypeOK
  BY DEF StreamsInv
<1> DEFINE A == {<<>>, <<NoEvent>>} \cup {<<e>> : e \in Event}
           P == {"new", "opened", "waiting", "gone"}
<1>2. /\ subscribers \in Seq(Stream) /\ waiting \in Seq(Stream) /\ running \subseteq Stream
      /\ published \in 0..MaxEvents /\ position \in Nat \ {0}
      /\ publishing = NoEvent \/ (publishing = published /\ published \in Event)
      /\ phase \in [Stream -> P]
      /\ queue \in [Stream -> Seq(Event)] /\ told \in [Stream -> Seq(Event)]
      /\ answer \in [Stream -> A] /\ owed \in [Stream -> SUBSET Event] /\ <<>> \in A
  BY <1>1 DEF StreamsTypeOK
<1>3. SUFFICES
      /\ subscribers' \in Seq(Stream) /\ waiting' \in Seq(Stream) /\ running' \subseteq Stream
      /\ published' \in 0..MaxEvents /\ position' \in Nat \ {0}
      /\ publishing' = NoEvent \/ (publishing' = published' /\ published' \in Event)
      /\ phase' \in [Stream -> P]
      /\ queue' \in [Stream -> Seq(Event)] /\ told' \in [Stream -> Seq(Event)]
      /\ answer' \in [Stream -> A] /\ owed' \in [Stream -> SUBSET Event]
  BY DEF StreamsTypeOK
<1> HIDE DEF A
<1> USE DEF busVars, poolVars
<1>4. CASE Publish
  <2>1. published' = published + 1 /\ published' \in Event /\ published' \in 0..MaxEvents
    BY <1>2, <1>4, StreamAssumption DEF Publish, Event
  <2>2. owed' \in [Stream -> SUBSET Event]
    BY <1>2, <1>4, <2>1 DEF Publish
  <2>3. QED
    BY <1>2, <1>4, <2>1, <2>2 DEF Publish
<1>5. CASE NextHandler
  <2>1. CASE position <= Len(subscribers)
    <3>1. subscribers[position] \in Stream
      BY <1>2, <2>1
    <3>2. publishing \in Event
      BY <1>2, <1>5 DEF NextHandler
    <3>3. Append(queue[subscribers[position]], publishing) \in Seq(Event)
      BY <1>2, <3>1, <3>2
    <3>4. queue' \in [Stream -> Seq(Event)]
      BY <1>2, <1>5, <2>1, <3>1, <3>3 DEF NextHandler
    <3>5. QED
      BY <1>2, <1>5, <2>1, <3>4 DEF NextHandler
  <2>2. CASE ~(position <= Len(subscribers))
    BY <1>2, <1>5, <2>2 DEF NextHandler
  <2>3. QED
    BY <2>1, <2>2
<1>6. CASE ThreadTakes
  <2>1. Head(waiting) \in Stream /\ Tail(waiting) \in Seq(Stream)
    BY <1>2, <1>6, SomethingThere DEF ThreadTakes
  <2>2. QED
    BY <1>2, <1>6, <2>1 DEF ThreadTakes
<1>7. ASSUME NEW s \in Stream, Open(s) PROVE StreamsTypeOK'
  <2>1. phase' \in [Stream -> P] /\ Append(subscribers, s) \in Seq(Stream)
    BY <1>2, <1>7 DEF Open
  <2>2. QED
    BY <1>2, <1>7, <2>1 DEF Open, StreamsTypeOK, A
<1>8. ASSUME NEW s \in Stream, Start(s) PROVE StreamsTypeOK'
  <2>1. phase' \in [Stream -> P] /\ Append(waiting, s) \in Seq(Stream)
    BY <1>2, <1>8 DEF Start
  <2>2. QED
    BY <1>2, <1>8, <2>1 DEF Start, AskAgain, StreamsTypeOK, A
<1>9. ASSUME NEW s \in Stream, Resume(s) PROVE StreamsTypeOK'
  <2>1. Append(waiting, s) \in Seq(Stream) /\ told[s] \o InReply(s) \in Seq(Event)
    BY <1>1, <1>2, StreamFacts
  <2>2. answer' \in [Stream -> A] /\ told' \in [Stream -> Seq(Event)]
    BY <1>2, <1>9, <2>1 DEF Resume
  <2>3. QED
    BY <1>2, <1>9, <2>1, <2>2 DEF Resume, AskAgain, StreamsTypeOK, A
<1>10. ASSUME NEW s \in Stream, Leave(s) PROVE StreamsTypeOK'
  <2>1. RemoveFirst(subscribers, s) \in Seq(Stream) /\ RemoveFirst(waiting, s) \in Seq(Stream)
    BY <1>2, LeftOver DEF StreamsInv, SubscribedOnce, OneCallEach
  <2>2. phase' \in [Stream -> P] /\ answer' \in [Stream -> A] /\ owed' \in [Stream -> SUBSET Event]
    BY <1>2, <1>10 DEF Leave
  <2>3. <<>> \in Seq(Event)
    OBVIOUS
  <2>4. told' \in [Stream -> Seq(Event)]
    BY <1>2, <1>10, <2>3 DEF Leave
  <2>5. QED
    BY <1>2, <1>10, <2>1, <2>2, <2>4 DEF Leave, Unsubscribe, StreamsTypeOK, A
<1>11. ASSUME NEW s \in Stream, LeaveEarly(s) PROVE StreamsTypeOK'
  <2>1. phase' \in [Stream -> P] /\ owed' \in [Stream -> SUBSET Event]
    BY <1>2, <1>11 DEF LeaveEarly
  <2>2. QED
    BY <1>2, <1>11, <2>1 DEF LeaveEarly, StreamsTypeOK, A
<1>12. ASSUME NEW s \in Stream, GetsEvent(s) PROVE StreamsTypeOK'
  <2>1. Head(queue[s]) \in Event /\ Tail(queue[s]) \in Seq(Event)
    BY <1>2, <1>12, SomethingThere DEF GetsEvent
  <2>2. running' \subseteq Stream /\ answer' \in [Stream -> A]
    BY <1>1, <1>12, <2>1, ReturnType DEF GetsEvent, A
  <2>3. queue' \in [Stream -> Seq(Event)]
    BY <1>2, <1>12, <2>1 DEF GetsEvent
  <2>4. QED
    BY <1>2, <1>12, <2>2, <2>3 DEF GetsEvent, StreamsTypeOK, A
<1>13. ASSUME NEW s \in Stream, TimesOut(s) PROVE StreamsTypeOK'
  <2>1. running' \subseteq Stream /\ answer' \in [Stream -> A]
    BY <1>1, <1>13, ReturnType DEF TimesOut, A
  <2>2. QED
    BY <1>2, <1>13, <2>1 DEF TimesOut, StreamsTypeOK, A
<1>14. QED
  <2>1. StreamsTypeOK' =>
      /\ subscribers' \in Seq(Stream) /\ waiting' \in Seq(Stream) /\ running' \subseteq Stream
      /\ published' \in 0..MaxEvents /\ position' \in Nat \ {0}
      /\ publishing' = NoEvent \/ (publishing' = published' /\ published' \in Event)
      /\ phase' \in [Stream -> P]
      /\ queue' \in [Stream -> Seq(Event)] /\ told' \in [Stream -> Seq(Event)]
      /\ answer' \in [Stream -> A] /\ owed' \in [Stream -> SUBSET Event]
    BY DEF StreamsTypeOK, A
  <2>2. QED
    BY <1>4, <1>5, <1>6, <1>7, <1>8, <1>9, <1>10, <1>11, <1>12, <1>13, <2>1 DEF StreamsNext

LEMMA ListStep ==
  ASSUME StreamsInv, StreamsNext
  PROVE  SubscribedOnce'
<1>1. StreamsTypeOK /\ SubscribedOnce
  BY DEF StreamsInv
<1>2. /\ subscribers \in Seq(Stream)
      /\ phase \in [Stream -> {"new", "opened", "waiting", "gone"}]
  BY <1>1 DEF StreamsTypeOK
<1>3. CASE UNCHANGED <<subscribers, phase>>
  BY <1>1, <1>3 DEF SubscribedOnce, IsOpen
<1>4. ASSUME NEW s \in Stream, Open(s) PROVE SubscribedOnce'
  <2> DEFINE n == Len(subscribers)
  <2>1. n \in Nat /\ DOMAIN subscribers = 1..n /\ \A i \in 1..n : subscribers[i] \in Stream
    BY <1>2
  <2>2. /\ subscribers' = Append(subscribers, s) /\ DOMAIN subscribers' = 1..(n + 1)
        /\ subscribers'[n + 1] = s /\ \A i \in 1..n : subscribers'[i] = subscribers[i]
    BY <1>2, <1>4 DEF Open
  <2>3. phase[s] = "new" /\ phase' = [phase EXCEPT ![s] = "opened"]
    BY <1>4 DEF Open
  <2> HIDE DEF n
  <2>4. \A i \in 1..n : subscribers[i] # s
    BY <1>1, <2>1, <2>3 DEF SubscribedOnce
  <2>5. \A i \in 1..(n + 1) : i \in 1..n \/ i = n + 1
    BY <2>1
  <2>6. \A i, j \in DOMAIN subscribers' : subscribers'[i] = subscribers'[j] => i = j
    BY <1>1, <2>1, <2>2, <2>4, <2>5 DEF SubscribedOnce
  <2>7. \A i \in DOMAIN subscribers' : phase'[subscribers'[i]] # "new"
    BY <1>1, <1>2, <2>1, <2>2, <2>3, <2>5 DEF SubscribedOnce
  <2>8. ASSUME NEW u \in Stream, IsOpen(u)'
        PROVE  \E i \in DOMAIN subscribers' : subscribers'[i] = u
    <3>1. CASE u = s
      <4>1. n + 1 \in DOMAIN subscribers'
        BY <2>1, <2>2
      <4>2. QED
        BY <2>2, <3>1, <4>1
    <3>2. CASE u # s
      <4>1. IsOpen(u)
        BY <1>2, <2>3, <2>8, <3>2 DEF IsOpen
      <4>2. PICK i \in DOMAIN subscribers : subscribers[i] = u
        BY <1>1, <4>1 DEF SubscribedOnce
      <4>3. i \in DOMAIN subscribers' /\ subscribers'[i] = u
        BY <2>1, <2>2, <4>2
      <4>4. QED
        BY <4>3
    <3>3. QED
      BY <3>1, <3>2
  <2>9. QED
    BY <2>6, <2>7, <2>8 DEF SubscribedOnce
<1>5. ASSUME NEW s \in Stream, Leave(s) PROVE SubscribedOnce'
  <2>1. phase' = [phase EXCEPT ![s] = "gone"] /\ subscribers' = RemoveFirst(subscribers, s)
    BY <1>5 DEF Leave, Unsubscribe
  <2>2. /\ \A j, k \in DOMAIN subscribers' : subscribers'[j] = subscribers'[k] => j = k
        /\ \A j \in DOMAIN subscribers' :
              subscribers'[j] # s /\ \E k \in DOMAIN subscribers : subscribers[k] = subscribers'[j]
        /\ \A k \in DOMAIN subscribers :
              subscribers[k] # s => \E j \in DOMAIN subscribers' : subscribers'[j] = subscribers[k]
    BY <1>1, <1>2, <2>1, LeftOver DEF SubscribedOnce
  <2>3. \A i \in DOMAIN subscribers : subscribers[i] \in Stream
    BY <1>2
  <2>4. \A i \in DOMAIN subscribers' : phase'[subscribers'[i]] # "new"
    BY <1>1, <1>2, <2>1, <2>2, <2>3 DEF SubscribedOnce
  <2>5. ASSUME NEW u \in Stream, IsOpen(u)'
        PROVE  \E i \in DOMAIN subscribers' : subscribers'[i] = u
    <3>1. u # s /\ IsOpen(u)
      BY <1>2, <2>1, <2>5 DEF IsOpen
    <3>2. PICK k \in DOMAIN subscribers : subscribers[k] = u
      BY <1>1, <3>1 DEF SubscribedOnce
    <3>3. QED
      BY <2>2, <3>1, <3>2
  <2>6. QED
    BY <2>2, <2>4, <2>5 DEF SubscribedOnce
<1>6. ASSUME NEW s \in Stream, Start(s) \/ LeaveEarly(s) PROVE SubscribedOnce'
  <2>1. /\ subscribers' = subscribers /\ phase[s] = "opened"
        /\ phase' = [phase EXCEPT ![s] = "waiting"] \/ phase' = [phase EXCEPT ![s] = "gone"]
    BY <1>6 DEF Start, LeaveEarly, busVars
  <2>2. \A u \in Stream : (phase'[u] = "new" => phase[u] = "new") /\ (IsOpen(u)' => IsOpen(u))
    BY <1>2, <2>1 DEF IsOpen
  <2>3. \A i \in DOMAIN subscribers : subscribers[i] \in Stream
    BY <1>2
  <2>4. QED
    BY <1>1, <2>1, <2>2, <2>3 DEF SubscribedOnce
<1>7. CASE Publish \/ NextHandler \/ ThreadTakes
  BY <1>3, <1>7 DEF Publish, NextHandler, ThreadTakes, busVars, poolVars
<1>8. ASSUME NEW s \in Stream, Resume(s) \/ GetsEvent(s) \/ TimesOut(s) PROVE SubscribedOnce'
  BY <1>3, <1>8 DEF Resume, GetsEvent, TimesOut, busVars, poolVars
<1>9. QED
  BY <1>4, <1>5, <1>6, <1>7, <1>8 DEF StreamsNext

LEMMA CallsStep ==
  ASSUME StreamsInv, StreamsNext
  PROVE  OneCallEach' /\ QuietBefore'
<1>1. StreamsTypeOK /\ OneCallEach /\ QuietBefore /\ StreamsTypeOK'
  BY StreamsType DEF StreamsInv
<1>2. /\ waiting \in Seq(Stream) /\ running \subseteq Stream
      /\ \A i \in DOMAIN waiting : waiting[i] \in Stream
  BY <1>1 DEF StreamsTypeOK
<1>3. /\ phase \in [Stream -> {"new", "opened", "waiting", "gone"}]
      /\ DOMAIN answer = Stream /\ DOMAIN told = Stream /\ DOMAIN queue = Stream
      /\ DOMAIN owed = Stream
  BY <1>1 DEF StreamsTypeOK
<1> USE DEF busVars, poolVars
<1>4. ASSUME NEW s \in Stream, phase[s] = "opened" \/ answer[s] # <<>>
      PROVE  s \notin running /\ \A i \in DOMAIN waiting : waiting[i] # s
  BY <1>1, <1>2, <1>4 DEF OneCallEach
<1>5. ASSUME NEW s \in Stream, Start(s) \/ Resume(s) PROVE OneCallEach' /\ QuietBefore'
  <2> DEFINE n == Len(waiting)
  <2>1. n \in Nat /\ DOMAIN waiting = 1..n
    BY <1>2
  <2>2. /\ waiting' = Append(waiting, s) /\ DOMAIN waiting' = 1..(n + 1)
        /\ waiting'[n + 1] = s /\ \A i \in 1..n : waiting'[i] = waiting[i]
    BY <1>2, <1>5 DEF Start, Resume, AskAgain
  <2>3. s \notin running /\ \A i \in 1..n : waiting[i] # s
    BY <1>4, <1>5, <2>1 DEF Start, Resume
  <2> HIDE DEF n
  <2>4. /\ \A u \in Stream : u # s => phase'[u] = phase[u] /\ answer'[u] = answer[u] /\ told'[u] = told[u]
        /\ phase'[s] = "waiting" /\ answer'[s] = <<>> /\ running' = running
        /\ queue' = queue /\ owed' = owed
    BY <1>1, <1>3, <1>5 DEF Start, Resume, QuietBefore
  <2>5. \A i \in 1..(n + 1) : i \in 1..n \/ i = n + 1
    BY <2>1
  <2>6. \A i, j \in DOMAIN waiting' : waiting'[i] = waiting'[j] => i = j
    BY <1>1, <2>1, <2>2, <2>3, <2>5 DEF OneCallEach
  <2>7. \A i \in DOMAIN waiting' :
           /\ phase'[waiting'[i]] = "waiting" /\ waiting'[i] \notin running'
           /\ answer'[waiting'[i]] = <<>>
    BY <1>1, <1>2, <2>1, <2>2, <2>3, <2>4, <2>5 DEF OneCallEach
  <2>8. \A u \in running' : phase'[u] \in {"waiting", "gone"} /\ answer'[u] = <<>>
    BY <1>1, <1>2, <2>3, <2>4 DEF OneCallEach
  <2>9. QuietBefore'
    BY <1>1, <2>4 DEF QuietBefore
  <2>10. QED
    BY <2>6, <2>7, <2>8, <2>9 DEF OneCallEach
<1>6. CASE ThreadTakes
  <2>1. /\ waiting # <<>> /\ running' = running \cup {Head(waiting)} /\ waiting' = Tail(waiting)
        /\ UNCHANGED <<phase, queue, answer, told, owed>>
    BY <1>6 DEF ThreadTakes
  <2>2. /\ 1 \in DOMAIN waiting /\ waiting[1] = Head(waiting)
        /\ DOMAIN waiting' = 1..(Len(waiting) - 1) /\ Len(waiting) \in Nat
        /\ \A i \in DOMAIN waiting' : i + 1 \in DOMAIN waiting /\ waiting'[i] = waiting[i + 1]
    BY <1>2, <2>1, SomethingThere
  <2>3. \A i, j \in DOMAIN waiting' : waiting'[i] = waiting'[j] => i = j
    <3> SUFFICES ASSUME NEW i \in DOMAIN waiting', NEW j \in DOMAIN waiting',
                        waiting'[i] = waiting'[j]
                 PROVE  i = j
      OBVIOUS
    <3>1. i + 1 = j + 1
      BY <1>1, <2>2 DEF OneCallEach
    <3>2. QED
      BY <2>2, <3>1
  <2>4. \A i \in DOMAIN waiting' : waiting'[i] # waiting[1]
    <3> SUFFICES ASSUME NEW i \in DOMAIN waiting', waiting'[i] = waiting[1] PROVE FALSE
      OBVIOUS
    <3>1. i + 1 = 1
      BY <1>1, <2>2 DEF OneCallEach
    <3>2. QED
      BY <2>2, <3>1
  <2>5. \A i \in DOMAIN waiting' :
           /\ phase'[waiting'[i]] = "waiting" /\ waiting'[i] \notin running'
           /\ answer'[waiting'[i]] = <<>>
    BY <1>1, <2>1, <2>2, <2>4 DEF OneCallEach
  <2>6. \A u \in running' : phase'[u] \in {"waiting", "gone"} /\ answer'[u] = <<>>
    BY <1>1, <2>1, <2>2 DEF OneCallEach
  <2>7. QED
    BY <1>1, <2>1, <2>3, <2>5, <2>6 DEF OneCallEach, QuietBefore
<1>7. ASSUME NEW s \in Stream, Leave(s) PROVE OneCallEach' /\ QuietBefore'
  <2>1. waiting' = RemoveFirst(waiting, s) /\ running' = running /\ queue' = queue /\ phase[s] = "waiting"
    BY <1>7 DEF Leave
  <2>2. /\ \A j, k \in DOMAIN waiting' : waiting'[j] = waiting'[k] => j = k
        /\ \A j \in DOMAIN waiting' :
              waiting'[j] # s /\ \E k \in DOMAIN waiting : waiting[k] = waiting'[j]
    BY <1>1, <1>2, <2>1, LeftOver DEF OneCallEach
  <2>3. /\ \A u \in Stream : u # s =>
              /\ phase'[u] = phase[u] /\ answer'[u] = answer[u] /\ told'[u] = told[u]
              /\ owed'[u] \subseteq owed[u]
        /\ phase'[s] = "gone" /\ answer'[s] = <<>> /\ told'[s] = <<>>
    BY <1>3, <1>7 DEF Leave
  <2>4. \A i \in DOMAIN waiting' :
           /\ phase'[waiting'[i]] = "waiting" /\ waiting'[i] \notin running'
           /\ answer'[waiting'[i]] = <<>>
    BY <1>1, <1>2, <2>1, <2>2, <2>3 DEF OneCallEach
  <2>5. \A u \in running' : phase'[u] \in {"waiting", "gone"} /\ answer'[u] = <<>>
    BY <1>1, <1>2, <2>1, <2>3 DEF OneCallEach
  <2>6. QuietBefore'
    BY <1>1, <2>1, <2>3 DEF QuietBefore
  <2>7. QED
    BY <2>2, <2>4, <2>5, <2>6 DEF OneCallEach
<1>8. ASSUME NEW s \in Stream, Open(s) \/ LeaveEarly(s) PROVE OneCallEach' /\ QuietBefore'
  <2>1. /\ waiting' = waiting /\ running' = running /\ answer' = answer /\ told' = told
        /\ queue' = queue /\ phase[s] \in {"new", "opened"}
    BY <1>8 DEF Open, LeaveEarly
  <2>2. /\ \A u \in Stream : u # s => phase'[u] = phase[u] /\ owed'[u] = owed[u]
        /\ phase'[s] \in {"opened", "gone"}
    BY <1>3, <1>8 DEF Open, LeaveEarly
  <2>3. OneCallEach'
    BY <1>1, <1>2, <2>1, <2>2 DEF OneCallEach
  <2>4. QuietBefore'
    BY <1>1, <2>1, <2>2 DEF QuietBefore
  <2>5. QED
    BY <2>3, <2>4
<1>9. ASSUME NEW s \in Stream, GetsEvent(s) \/ TimesOut(s) PROVE OneCallEach' /\ QuietBefore'
  <2>1. /\ waiting' = waiting /\ running' = running \ {s} /\ s \in running
        /\ phase' = phase /\ told' = told /\ owed' = owed
        /\ \A u \in Stream : u # s => queue'[u] = queue[u]
    BY <1>3, <1>9 DEF GetsEvent, TimesOut, Returns
  <2>2. phase[s] \in {"waiting", "gone"} /\ \A i \in DOMAIN waiting : waiting[i] # s
    BY <1>1, <2>1 DEF OneCallEach
  <2>3. \A u \in Stream : u # s \/ phase[s] = "gone" => answer'[u] = answer[u]
    BY <1>3, <1>9 DEF GetsEvent, TimesOut, Returns
  <2>4. OneCallEach'
    BY <1>1, <1>2, <2>1, <2>2, <2>3 DEF OneCallEach
  <2>5. QuietBefore'
    BY <1>1, <2>1, <2>2, <2>3 DEF QuietBefore
  <2>6. QED
    BY <2>4, <2>5
<1>10. CASE Publish
  <2>1. /\ waiting' = waiting /\ running' = running /\ phase' = phase /\ told' = told
        /\ queue' = queue /\ answer' = answer
        /\ \A u \in Stream : phase[u] = "new" => owed'[u] = owed[u]
    BY <1>10 DEF Publish, IsOpen
  <2>2. QED
    BY <1>1, <2>1 DEF OneCallEach, QuietBefore
<1>11. CASE NextHandler
  <2>1. /\ waiting' = waiting /\ running' = running /\ phase' = phase /\ told' = told
        /\ owed' = owed /\ answer' = answer
    BY <1>11 DEF NextHandler
  <2>2. \A u \in Stream : phase[u] = "new" => queue'[u] = queue[u]
    <3>1. SUFFICES ASSUME NEW u \in Stream, phase[u] = "new", position <= Len(subscribers)
                   PROVE  queue'[u] = queue[u]
      BY <1>11 DEF NextHandler
    <3>2. position \in DOMAIN subscribers
      BY <1>1, <3>1 DEF StreamsTypeOK
    <3>3. subscribers[position] # u
      BY <3>1, <3>2 DEF StreamsInv, SubscribedOnce
    <3>4. QED
      BY <1>3, <1>11, <3>1, <3>3 DEF NextHandler
  <2>3. QED
    BY <1>1, <2>1, <2>2 DEF OneCallEach, QuietBefore
<1>12. QED
  BY <1>5, <1>6, <1>7, <1>8, <1>9, <1>10, <1>11 DEF StreamsNext

LEMMA ItemsOf ==
  ASSUME NEW S, NEW q \in Seq(S)
  PROVE  /\ Len(q) \in Nat /\ DOMAIN q = 1..Len(q)
         /\ \A i \in DOMAIN q : q[i] \in S
OBVIOUS

LEMMA EventNumbers == \A e \in Event : e \in Nat
BY StreamAssumption DEF Event

LEMMA SameOrder ==
  ASSUME NEW s \in Stream, InOrder(s), Received(s)' = Received(s), owed'[s] = owed[s],
         published' = published, publishing' = publishing, ToCome(s)' <=> ToCome(s)
  PROVE  InOrder(s)'
BY DEF InOrder

\* An event is added once, behind all that came before it.
LEMMA AddedLast ==
  ASSUME NEW s \in Stream, StreamsTypeOK, InOrder(s), ToCome(s), ~ToCome(s)',
         Received(s)' = Append(Received(s), publishing), owed'[s] = owed[s],
         published' = published
  PROVE  InOrder(s)'
<1> DEFINE n == Len(Received(s))
<1>1. Received(s) \in Seq(Event) /\ n \in Nat /\ DOMAIN Received(s) = 1..n
  BY StreamFacts
<1>2. publishing = published /\ published \in Event /\ published \in Nat
  BY EventNumbers DEF StreamsTypeOK, ToCome
<1>3. /\ DOMAIN Received(s)' = 1..(n + 1) /\ Received(s)'[n + 1] = publishing
      /\ \A i \in 1..n : Received(s)'[i] = Received(s)[i]
  BY <1>1, <1>2
<1>4. \A i \in 1..n : Received(s)[i] < published
  <2> SUFFICES ASSUME NEW i \in 1..n PROVE Received(s)[i] < published
    OBVIOUS
  <2>1. Received(s)[i] \in Nat
    BY <1>1, ItemsOf, EventNumbers
  <2>2. Received(s)[i] <= published /\ Received(s)[i] # published
    BY <1>1, <1>2 DEF InOrder
  <2>3. QED
    BY <1>2, <2>1, <2>2
<1> HIDE DEF n
<1>5. \A i \in 1..(n + 1) : i \in 1..n \/ i = n + 1
  BY <1>1
<1>6. ASSUME NEW i \in 1..(n + 1), NEW j \in 1..(n + 1), i < j
      PROVE  Received(s)'[i] < Received(s)'[j]
  <2>1. i \in 1..n
    BY <1>1, <1>6
  <2>2. CASE j \in 1..n
    BY <1>1, <1>3, <1>6, <2>1, <2>2 DEF InOrder
  <2>3. CASE j = n + 1
    BY <1>2, <1>3, <1>4, <2>1, <2>3
  <2>4. QED
    BY <1>5, <2>2, <2>3
<1>7. \A i \in 1..(n + 1) : Received(s)'[i] <= published
  <2> SUFFICES ASSUME NEW i \in 1..(n + 1) PROVE Received(s)'[i] <= published
    OBVIOUS
  <2>1. CASE i \in 1..n
    BY <1>1, <1>3, <2>1 DEF InOrder
  <2>2. CASE i = n + 1
    BY <1>2, <1>3, <2>2
  <2>3. QED
    BY <1>5, <2>1, <2>2
<1>8. ASSUME NEW e \in owed[s]
      PROVE  \E i \in 1..(n + 1) : Received(s)'[i] = e
  <2>1. CASE \E i \in 1..n : Received(s)[i] = e
    BY <1>1, <1>3, <2>1
  <2>2. CASE e = publishing
    BY <1>1, <1>3, <2>2
  <2>3. QED
    BY <1>1, <1>8, <2>1, <2>2 DEF InOrder
<1>9. QED
  BY <1>3, <1>6, <1>7, <1>8 DEF InOrder

\* Nothing comes to anybody twice: the publisher passes one place at a time.
LEMMA HandlerOrder ==
  ASSUME StreamsInv, NextHandler, NEW s \in Stream, IsOpen(s)'
  PROVE  InOrder(s)'
<1>1. StreamsTypeOK /\ SubscribedOnce /\ IsOpen(s) /\ InOrder(s)
  BY DEF StreamsInv, NextHandler, IsOpen
<1>2. /\ subscribers \in Seq(Stream) /\ Len(subscribers) \in Nat
      /\ DOMAIN subscribers = 1..Len(subscribers) /\ position \in Nat \ {0}
      /\ publishing = published /\ published \in Event /\ publishing # NoEvent
      /\ DOMAIN queue = Stream
  BY <1>1 DEF StreamsTypeOK, NextHandler
<1>3. /\ subscribers' = subscribers /\ published' = published /\ told' = told
      /\ answer' = answer /\ owed' = owed
  BY DEF NextHandler
<1>4. CASE position <= Len(subscribers)
  <2>1. /\ queue' = [queue EXCEPT ![subscribers[position]] = Append(@, publishing)]
        /\ position' = position + 1 /\ publishing' = publishing
    BY <1>4 DEF NextHandler
  <2>2. position \in DOMAIN subscribers
    BY <1>2, <1>4
  <2>3. CASE subscribers[position] = s
    <3>1. ToCome(s)
      BY <1>2, <2>2, <2>3 DEF ToCome
    <3>2. \A i \in DOMAIN subscribers : subscribers[i] = s => i = position
      BY <1>1, <2>2, <2>3 DEF SubscribedOnce
    <3>3. ~ToCome(s)'
      BY <1>2, <1>3, <2>1, <3>2 DEF ToCome
    <3>4. queue'[s] = Append(queue[s], publishing) /\ InReply(s)' = InReply(s)
      BY <1>2, <1>3, <2>1, <2>3 DEF InReply
    <3>5. Received(s)' = Append(Received(s), publishing)
      <4>1. /\ InReply(s) \in Seq(Event) /\ queue[s] \in Seq(Event) /\ told[s] \in Seq(Event)
        BY <1>1, StreamFacts
      <4>2. told[s] \o InReply(s) \in Seq(Event)
        BY <4>1
      <4>3. (told[s] \o InReply(s)) \o Append(queue[s], publishing)
                = Append((told[s] \o InReply(s)) \o queue[s], publishing)
        <5>1. publishing \in Event
          BY <1>2
        <5>2. QED
          BY <4>1, <4>2, <5>1, AddedToJoined
      <4>4. Received(s)' = (told[s] \o InReply(s)) \o Append(queue[s], publishing)
        BY <1>3, <3>4 DEF Received
      <4>5. QED
        BY <4>3, <4>4 DEF Received
    <3>6. QED
      BY <1>1, <1>3, <3>1, <3>3, <3>5, AddedLast
  <2>4. CASE subscribers[position] # s
    <3>1. Received(s)' = Received(s)
      BY <1>2, <1>3, <2>1, <2>4 DEF Received, InReply
    <3>2. \A i \in DOMAIN subscribers :
              i >= position /\ subscribers[i] = s <=> i >= position + 1 /\ subscribers[i] = s
      BY <1>2, <2>4
    <3>3. ToCome(s)' <=> ToCome(s)
      BY <1>2, <1>3, <2>1, <3>2 DEF ToCome
    <3>4. QED
      BY <1>1, <1>3, <2>1, <3>1, <3>3, SameOrder
  <2>5. QED
    BY <2>3, <2>4
<1>5. CASE ~(position <= Len(subscribers))
  <2>1. publishing' = NoEvent /\ queue' = queue
    BY <1>5 DEF NextHandler
  <2>2. ~ToCome(s)
    BY <1>2, <1>5 DEF ToCome
  <2>3. ~ToCome(s)'
    BY <2>1 DEF ToCome
  <2>4. Received(s)' = Received(s)
    BY <1>3, <2>1 DEF Received, InReply
  <2>5. QED
    BY <1>1, <1>3, <2>2, <2>3, <2>4 DEF InOrder
<1>6. QED
  BY <1>4, <1>5

LEMMA PublishOrder ==
  ASSUME StreamsInv, Publish, NEW s \in Stream, IsOpen(s)'
  PROVE  InOrder(s)'
<1>1. StreamsTypeOK /\ SubscribedOnce /\ IsOpen(s) /\ InOrder(s)
  BY DEF StreamsInv, Publish, IsOpen
<1>2. /\ publishing = NoEvent /\ published' = published + 1 /\ publishing' = published + 1
      /\ position' = 1 /\ published \in Nat
      /\ subscribers' = subscribers /\ owed'[s] = owed[s] \cup {published + 1}
  BY <1>1 DEF Publish, StreamsTypeOK, busVars, poolVars
<1>3. Received(s)' = Received(s)
  BY DEF Publish, Received, InReply
<1>4. ToCome(s)'
  <2>1. PICK i \in DOMAIN subscribers : subscribers[i] = s
    BY <1>1 DEF SubscribedOnce
  <2>2. i >= 1
    BY <1>1 DEF StreamsTypeOK
  <2>3. publishing' # NoEvent
    BY <1>2, StreamAssumption
  <2>4. QED
    BY <1>2, <2>1, <2>2, <2>3 DEF ToCome
<1>5. \A i \in DOMAIN Received(s) : Received(s)[i] \in Nat /\ Received(s)[i] <= published
  <2>1. Received(s) \in Seq(Event)
    BY <1>1, StreamFacts
  <2>2. \A i \in DOMAIN Received(s) : Received(s)[i] \in Nat
    BY <2>1, ItemsOf, EventNumbers
  <2>3. QED
    BY <1>1, <2>2 DEF InOrder
<1>6. \A i \in DOMAIN Received(s) :
         Received(s)[i] <= published + 1 /\ Received(s)[i] # published + 1
  BY <1>2, <1>5
<1>7. \A e \in owed[s] : \E i \in DOMAIN Received(s) : Received(s)[i] = e
  BY <1>1, <1>2 DEF InOrder, ToCome
<1>8. QED
  BY <1>1, <1>2, <1>3, <1>4, <1>6, <1>7 DEF InOrder

\* Whoever was still to be reached is reached yet, but for the one that moves up past the publisher.
LEMMA LeaveOrder ==
  ASSUME StreamsInv, NEW u \in Stream, Leave(u), NEW s \in Stream, IsOpen(s)'
  PROVE  InOrder(s)'
<1>1. StreamsTypeOK /\ SubscribedOnce
  BY DEF StreamsInv
<1>2. /\ subscribers \in Seq(Stream) /\ Len(subscribers) \in Nat
      /\ DOMAIN subscribers = 1..Len(subscribers) /\ position \in Nat \ {0}
      /\ phase \in [Stream -> {"new", "opened", "waiting", "gone"}]
      /\ DOMAIN told = Stream /\ DOMAIN answer = Stream
  BY <1>1 DEF StreamsTypeOK
<1>3. /\ phase' = [phase EXCEPT ![u] = "gone"] /\ phase[u] = "waiting"
      /\ subscribers' = RemoveFirst(subscribers, u)
      /\ published' = published /\ publishing' = publishing /\ position' = position
      /\ queue' = queue
  BY DEF Leave, Unsubscribe
<1>4. s # u /\ IsOpen(s) /\ InOrder(s)
  BY <1>2, <1>3 DEF IsOpen, StreamsInv
<1>5. Received(s)' = Received(s)
  BY <1>2, <1>3, <1>4 DEF Leave, Received, InReply
<1>6. owed'[s] = IF s \in Skipped(u) THEN owed[s] \ {publishing} ELSE owed[s]
  BY <1>4 DEF Leave
<1>7. PICK i \in DOMAIN subscribers : subscribers[i] = u
  BY <1>1, <1>3 DEF SubscribedOnce, IsOpen
<1>8. PICK k \in DOMAIN subscribers : subscribers[k] = s
  BY <1>1, <1>4 DEF SubscribedOnce
<1> DEFINE n == Len(subscribers)
           m == IF k < i THEN k ELSE k - 1
<1>9. /\ DOMAIN subscribers' = 1..(n - 1)
      /\ \A j \in 1..(n - 1) : subscribers'[j] = IF j < i THEN subscribers[j] ELSE subscribers[j + 1]
  <2>1. \A j, l \in DOMAIN subscribers : subscribers[j] = subscribers[l] => j = l
    BY <1>1 DEF SubscribedOnce
  <2>2. LET r == RemoveFirst(subscribers, subscribers[i])
        IN  /\ r \in Seq(Stream) /\ Len(r) = Len(subscribers) - 1
            /\ DOMAIN r = 1..(Len(subscribers) - 1)
            /\ \A j \in 1..(Len(subscribers) - 1) :
                  r[j] = IF j < i THEN subscribers[j] ELSE subscribers[j + 1]
    <3>1. subscribers \in Seq(Stream)
      BY <1>2
    <3>2. QED
      BY <1>7, <2>1, <3>1, RemovedFirst
  <2>3. QED
    BY <1>3, <1>7, <2>2
<1>10. k # i /\ k \in 1..n /\ i \in 1..n /\ n \in Nat
  BY <1>2, <1>4, <1>7, <1>8
<1>11. m \in 1..(n - 1) /\ subscribers'[m] = s
  BY <1>8, <1>9, <1>10
<1>12. \A j \in DOMAIN subscribers : subscribers[j] = s => j = k
  BY <1>1, <1>8 DEF SubscribedOnce
<1>13. \A j \in 1..(n - 1) : subscribers'[j] = s => j = m
  <2> SUFFICES ASSUME NEW j \in 1..(n - 1), subscribers'[j] = s PROVE j = m
    OBVIOUS
  <2>1. CASE j < i
    <3>1. j = k
      BY <1>2, <1>9, <1>10, <1>12, <2>1
    <3>2. QED
      BY <2>1, <3>1
  <2>2. CASE ~(j < i)
    <3>1. j + 1 = k
      BY <1>2, <1>9, <1>10, <1>12, <2>2
    <3>2. QED
      BY <1>10, <2>2, <3>1
  <2>3. QED
    BY <2>1, <2>2
<1> HIDE DEF n, m
<1>14. ToCome(s) <=> publishing # NoEvent /\ k >= position
  BY <1>8, <1>12 DEF ToCome
<1>15. ToCome(s)' <=> publishing # NoEvent /\ m >= position
  BY <1>3, <1>9, <1>11, <1>13 DEF ToCome
<1>16. ToCome(s)' => ToCome(s)
  BY <1>2, <1>10, <1>14, <1>15 DEF m
<1>17. ASSUME ToCome(s), ~ToCome(s)' PROVE publishing \notin owed'[s]
  <2>1. k = position /\ i < position
    BY <1>2, <1>10, <1>14, <1>15, <1>17 DEF m
  <2>2. LET I == {j \in 1..Len(subscribers) : subscribers[j] = subscribers[i]}
        IN  I # {} /\ Min(I) = i
    BY <1>1, <1>2, <1>7, OnePlace DEF SubscribedOnce
  <2>3. SelectInSeq(subscribers, LAMBDA x : x = u) = i
    BY <1>7, <2>2 DEF SelectInSeq
  <2>4. publishing # NoEvent /\ position <= Len(subscribers) /\ s = subscribers[position]
    BY <1>2, <1>8, <1>14, <1>17, <2>1
  <2>5. s \in Skipped(u)
    BY <2>1, <2>3, <2>4 DEF Skipped
  <2>6. QED
    BY <1>6, <2>5
<1>18. /\ \A j, l \in DOMAIN Received(s) : j < l => Received(s)[j] < Received(s)[l]
       /\ \A j \in DOMAIN Received(s) :
             Received(s)[j] <= published /\ (ToCome(s)' => Received(s)[j] # publishing)
  BY <1>4, <1>16 DEF InOrder
<1>19. ASSUME NEW e \in owed'[s]
       PROVE  (\E j \in DOMAIN Received(s) : Received(s)[j] = e) \/ (ToCome(s)' /\ e = publishing)
  <2>1. e \in owed[s]
    BY <1>6, <1>19
  <2>2. (\E j \in DOMAIN Received(s) : Received(s)[j] = e) \/ (ToCome(s) /\ e = publishing)
    BY <1>4, <2>1 DEF InOrder
  <2>3. QED
    BY <1>17, <1>19, <2>2
<1>20. QED
  BY <1>3, <1>5, <1>18, <1>19 DEF InOrder

\* What is in hand when a wait ends was at the head of the queue, and nothing was in hand before.
LEMMA AnswerOrder ==
  ASSUME StreamsInv, NEW u \in Stream, GetsEvent(u) \/ TimesOut(u), NEW s \in Stream, IsOpen(s)'
  PROVE  Received(s)' = Received(s)
<1>1. StreamsTypeOK /\ OneCallEach
  BY DEF StreamsInv
<1>2. DOMAIN answer = Stream /\ DOMAIN queue = Stream /\ DOMAIN told = Stream
  BY <1>1 DEF StreamsTypeOK
<1>3. told' = told /\ phase' = phase /\ u \in running /\ answer[u] = <<>>
  BY <1>1 DEF GetsEvent, TimesOut, OneCallEach
<1>4. CASE s # u
  <2>1. queue'[s] = queue[s] /\ answer'[s] = answer[s]
    BY <1>2, <1>4 DEF GetsEvent, TimesOut, Returns
  <2>2. QED
    BY <1>3, <2>1 DEF Received, InReply
<1>5. CASE s = u
  <2>1. phase[u] = "waiting"
    BY <1>1, <1>3, <1>5 DEF IsOpen, OneCallEach
  <2>2. queue[u] \in Seq(Event) /\ told[u] \in Seq(Event) /\ InReply(u) = <<>>
    BY <1>1, <1>3, StreamFacts
  <2>3. CASE GetsEvent(u)
    <3> DEFINE h == Head(queue[u])
               t == Tail(queue[u])
    <3>1. h \in Event /\ t \in Seq(Event) /\ <<h>> \o t = queue[u]
      BY <2>2, <2>3, SomethingThere DEF GetsEvent
    <3>2. queue'[u] = t /\ answer'[u] = <<h>>
      BY <1>2, <2>1, <2>3 DEF GetsEvent, Returns
    <3> HIDE DEF h, t
    <3>3. h # NoEvent
      BY <3>1, EventNumbers, StreamAssumption
    <3>4. InReply(u)' = <<h>>
      BY <3>2, <3>3 DEF InReply
    <3>5. <<h>> \in Seq(Event)
      BY <3>1
    <3>6. (told[u] \o <<h>>) \o t = told[u] \o (<<h>> \o t)
      BY <2>2, <3>1, <3>5, JoinedInTurn
    <3>7. told[u] \o <<>> = told[u]
      BY <2>2
    <3>8. Received(u)' = (told[u] \o <<h>>) \o t
      BY <1>3, <3>2, <3>4 DEF Received
    <3>9. Received(u) = told[u] \o queue[u]
      BY <2>2, <3>7 DEF Received
    <3>10. QED
      BY <1>5, <3>1, <3>6, <3>8, <3>9
  <2>4. CASE TimesOut(u)
    <3>1. queue'[u] = queue[u] /\ answer'[u] = <<NoEvent>>
      BY <1>2, <2>1, <2>4 DEF TimesOut, Returns
    <3>2. InReply(u)' = <<>>
      BY <3>1 DEF InReply
    <3>3. QED
      BY <1>3, <1>5, <2>2, <3>1, <3>2 DEF Received
  <2>5. QED
    BY <2>3, <2>4
<1>6. QED
  BY <1>4, <1>5

LEMMA ResumeOrder ==
  ASSUME StreamsInv, NEW u \in Stream, Resume(u), NEW s \in Stream
  PROVE  Received(s)' = Received(s)
<1>1. StreamsTypeOK
  BY DEF StreamsInv
<1>2. DOMAIN answer = Stream /\ DOMAIN told = Stream /\ queue' = queue
  BY <1>1 DEF StreamsTypeOK, Resume
<1>3. CASE s # u
  BY <1>2, <1>3 DEF Resume, Received, InReply
<1>4. CASE s = u
  <2>1. told'[u] = told[u] \o InReply(u) /\ answer'[u] = <<>>
    BY <1>2 DEF Resume
  <2>2. InReply(u)' = <<>>
    BY <2>1 DEF InReply
  <2>3. told[u] \o InReply(u) \in Seq(Event)
    BY <1>1, StreamFacts
  <2>4. (told[u] \o InReply(u)) \o <<>> = told[u] \o InReply(u)
    BY <2>3
  <2>5. QED
    BY <1>2, <1>4, <2>1, <2>2, <2>4 DEF Received
<1>5. QED
  BY <1>3, <1>4

LEMMA OpenOrder ==
  ASSUME StreamsInv, NEW u \in Stream, Open(u), NEW s \in Stream, IsOpen(s)'
  PROVE  InOrder(s)'
<1>1. StreamsTypeOK /\ QuietBefore /\ SubscribedOnce
  BY DEF StreamsInv
<1>2. /\ phase[u] = "new" /\ phase' = [phase EXCEPT ![u] = "opened"]
      /\ subscribers' = Append(subscribers, u)
      /\ published' = published /\ publishing' = publishing /\ position' = position
      /\ queue' = queue /\ answer' = answer /\ told' = told /\ owed' = owed
  BY DEF Open
<1>3. Received(s)' = Received(s)
  BY <1>2 DEF Received, InReply
<1>4. CASE s = u
  <2>1. told[s] = <<>> /\ answer[s] = <<>> /\ queue[s] = <<>> /\ owed[s] = {}
    BY <1>1, <1>2, <1>4 DEF QuietBefore
  <2>2. InReply(s) = <<>>
    BY <1>1, <2>1, StreamFacts
  <2>3. Received(s) = <<>>
    BY <2>1, <2>2 DEF Received
  <2>4. DOMAIN Received(s) = {}
    BY <2>3
  <2>5. QED
    BY <1>2, <1>3, <2>1, <2>4 DEF InOrder
<1>5. CASE s # u
  <2> DEFINE n == Len(subscribers)
  <2>1. /\ n \in Nat /\ DOMAIN subscribers = 1..n /\ DOMAIN subscribers' = 1..(n + 1)
        /\ subscribers'[n + 1] = u /\ \A i \in 1..n : subscribers'[i] = subscribers[i]
    BY <1>1, <1>2 DEF StreamsTypeOK
  <2>2. IsOpen(s) /\ InOrder(s)
    BY <1>1, <1>2, <1>5 DEF IsOpen, StreamsTypeOK, StreamsInv
  <2> HIDE DEF n
  <2>3. \A i \in 1..(n + 1) : i \in 1..n \/ i = n + 1
    BY <2>1
  <2>4. (\E i \in 1..(n + 1) : i >= position /\ subscribers'[i] = s)
          <=> \E i \in 1..n : i >= position /\ subscribers[i] = s
    BY <1>5, <2>1, <2>3
  <2>5. ToCome(s)' <=> ToCome(s)
    BY <1>2, <2>1, <2>4 DEF ToCome
  <2>6. QED
    BY <1>2, <1>3, <2>2, <2>5, SameOrder
<1>6. QED
  BY <1>4, <1>5

LEMMA OrderStep ==
  ASSUME StreamsInv, StreamsNext, NEW s \in Stream, IsOpen(s)'
  PROVE  InOrder(s)'
<1>1. StreamsTypeOK /\ QuietBefore
  BY DEF StreamsInv
<1>2. /\ phase \in [Stream -> {"new", "opened", "waiting", "gone"}]
      /\ DOMAIN owed = Stream
  BY <1>1 DEF StreamsTypeOK
<1>3. ASSUME UNCHANGED busVars, IsOpen(s), owed'[s] = owed[s], Received(s)' = Received(s)
      PROVE  InOrder(s)'
  <2>1. InOrder(s)
    BY <1>3 DEF StreamsInv
  <2>2. ToCome(s)' <=> ToCome(s)
    BY <1>3 DEF ToCome, busVars
  <2>3. QED
    BY <1>3, <2>1, <2>2, SameOrder DEF busVars
<1>4. ASSUME NEW u \in Stream, Start(u) \/ LeaveEarly(u) PROVE InOrder(s)'
  <2>1. /\ UNCHANGED <<busVars, queue, answer, told>> /\ phase[u] = "opened"
        /\ phase' = [phase EXCEPT ![u] = "waiting"] \/ phase' = [phase EXCEPT ![u] = "gone"]
    BY <1>4 DEF Start, LeaveEarly, poolVars
  <2>2. IsOpen(s) /\ owed'[s] = owed[s]
    BY <1>2, <1>4, <2>1 DEF IsOpen, Start, LeaveEarly
  <2>3. Received(s)' = Received(s)
    BY <2>1 DEF Received, InReply
  <2>4. QED
    BY <1>3, <2>1, <2>2, <2>3
<1>5. CASE ThreadTakes
  <2>1. UNCHANGED <<busVars, phase, queue, answer, told, owed>>
    BY <1>5 DEF ThreadTakes
  <2>2. Received(s)' = Received(s) /\ IsOpen(s)
    BY <2>1 DEF Received, InReply, IsOpen
  <2>3. QED
    BY <1>3, <2>1, <2>2
<1>6. ASSUME NEW u \in Stream, GetsEvent(u) \/ TimesOut(u) PROVE InOrder(s)'
  <2>1. UNCHANGED <<busVars, phase, owed>>
    BY <1>6 DEF GetsEvent, TimesOut
  <2>2. IsOpen(s)
    BY <2>1 DEF IsOpen
  <2>3. QED
    BY <1>3, <1>6, <2>1, <2>2, AnswerOrder
<1>7. ASSUME NEW u \in Stream, Resume(u) PROVE InOrder(s)'
  <2>1. UNCHANGED <<busVars, phase, owed>>
    BY <1>7 DEF Resume
  <2>2. IsOpen(s)
    BY <2>1 DEF IsOpen
  <2>3. QED
    BY <1>3, <1>7, <2>1, <2>2, ResumeOrder
<1>8. QED
  BY <1>4, <1>5, <1>6, <1>7, PublishOrder, HandlerOrder, LeaveOrder, OpenOrder DEF StreamsNext

\* What is on its way to whom, whoever opens, waits and leaves meanwhile (EventBus.publish,
\* stream_device_events).
THEOREM StreamsInvariance == StreamsSpec => []StreamsInv
<1>1. StreamsInit => StreamsInv
  BY StreamsStart
<1>2. StreamsInv /\ [StreamsNext]_streamVars => StreamsInv'
  <2> SUFFICES ASSUME StreamsInv, [StreamsNext]_streamVars PROVE StreamsInv'
    OBVIOUS
  <2>1. CASE StreamsNext
    <3>1. StreamsTypeOK'
      BY <2>1, StreamsType
    <3>2. SubscribedOnce'
      BY <2>1, ListStep
    <3>3. OneCallEach' /\ QuietBefore'
      BY <2>1, CallsStep
    <3>4. \A s \in Stream : IsOpen(s)' => InOrder(s)'
      BY <2>1, OrderStep
    <3>5. QED
      BY <3>1, <3>2, <3>3, <3>4 DEF StreamsInv
  <2>2. CASE UNCHANGED streamVars
    <3> USE <2>2 DEF streamVars, busVars, poolVars
    <3>1. StreamsTypeOK' /\ SubscribedOnce' /\ OneCallEach' /\ QuietBefore'
      BY DEF StreamsInv, StreamsTypeOK, SubscribedOnce, OneCallEach, QuietBefore, IsOpen
    <3>2. \A s \in Stream : IsOpen(s)' => InOrder(s)'
      <4> SUFFICES ASSUME NEW s \in Stream, IsOpen(s)' PROVE InOrder(s)'
        OBVIOUS
      <4>1. IsOpen(s) /\ Received(s)' = Received(s) /\ (ToCome(s)' <=> ToCome(s))
        BY DEF IsOpen, ToCome, Received, InReply
      <4>2. InOrder(s)
        BY <4>1 DEF StreamsInv
      <4>3. QED
        BY <4>1, <4>2, SameOrder
    <3>3. QED
      BY <3>1, <3>2 DEF StreamsInv
  <2>3. QED
    BY <2>1, <2>2
<1>3. QED
  BY <1>1, <1>2, PTL DEF StreamsSpec

\* For any streams, threads and changes, every change published while a stream is open is on its
\* way to its client, once and in order (EventBus.publish and stream_device_events).
THEOREM StreamsTell == StreamsSpec => []StreamsTellEveryChange
<1>1. StreamsInv => StreamsTellEveryChange
  <2> SUFFICES ASSUME StreamsInv, NEW s \in Stream, IsOpen(s)
               PROVE  /\ \A i, j \in DOMAIN Received(s) :
                            i < j => Received(s)[i] < Received(s)[j]
                      /\ publishing = NoEvent => owed[s] \subseteq ToSet(Received(s))
    BY DEF StreamsTellEveryChange
  <2>1. InOrder(s)
    BY DEF StreamsInv
  <2>2. ASSUME publishing = NoEvent, NEW e \in owed[s] PROVE e \in ToSet(Received(s))
    <3>1. \E i \in DOMAIN Received(s) : Received(s)[i] = e
      BY <2>1, <2>2 DEF InOrder, ToCome
    <3>2. QED
      BY <3>1 DEF ToSet
  <2>3. QED
    BY <2>1, <2>2 DEF InOrder
<1>2. QED
  BY <1>1, StreamsInvariance, PTL
=============================================================================
