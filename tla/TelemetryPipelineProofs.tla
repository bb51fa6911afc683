---------------------- MODULE TelemetryPipelineProofs ----------------------
(***************************************************************************)
(* The properties of TelemetryPipeline, for any devices, names and REST    *)
(* threads and any bounds.  Any device may be given any name: what is      *)
(* known by a name has borne it (OwnedInv), and two devices that have      *)
(* borne the same one are the exceptions the properties name.              *)
(***************************************************************************)
EXTENDS TelemetryPipeline, DeviceRegistryProofs

NamesOfDevices == [Ieee -> Name \cup {NotPaired}]
Message ==
    [kind : {"devices"}, names : NamesOfDevices]
        \cup [kind : {"reading"}, topic : Name, source : Ieee]
Rename == [from : Name, to : Name, ieee : Ieee]
InHand == [step : {"report", "write"}, topic : Name, source : Ieee,
           identity : Ieee \cup {Nobody}]

\* PipelineTypeOK with the queues as sequences.
QueueTypeOK ==
    /\ z2m \in NamesOfDevices /\ retained \in NamesOfDevices
    /\ inbox \in Seq(Message)
    /\ consumer \in InHand \cup {Idle}
    /\ worker \in [Worker -> Rename \cup {Idle}]
    /\ requests \in Seq(Rename)
    /\ reported \in [Ieee -> Ieee \cup {Null}]
    /\ points \subseteq [tag : Name, source : Ieee]
    /\ borne \in [Ieee -> SUBSET Name]

PipelineInv == RegistryInv /\ QueueTypeOK

-----------------------------------------------------------------------------
(***************************************************************************)
(* The registry inside the pipeline.                                       *)
(***************************************************************************)
\* What the consumer makes of a list is a sync of the registry.
LEMMA ConsumedList ==
    ASSUME ConsumeDevices
    PROVE  \E list \in DeviceList :
              /\ SyncDevices(list)
              /\ list \in ListsOf(Head(inbox).names)
              /\ drifted' = drifted \ Listed(list)
BY DEF ConsumeDevices, ListsOf

LEMMA MayNameType == \A a \in Ieee : MayName[a] \subseteq Name
BY PipelineAssumption

\* Every step of the pipeline is a step of the registry or leaves it alone.
LEMMA RegistryStep == [PipelineNext]_pipelineVars => [Next]_vars
<1> SUFFICES ASSUME [PipelineNext]_pipelineVars PROVE [Next]_vars
  OBVIOUS
<1>1. CASE ConsumeDevices
  BY <1>1, ConsumedList DEF Next
<1>2. CASE \E w \in Worker, a \in Ieee : \E n \in MayName[a] : RenameCommits(w, a, n)
  BY <1>2, MayNameType DEF RenameCommits, Next
<1>3. CASE \E a \in Ieee : DeleteRequest(a)
  BY <1>3 DEF DeleteRequest, Next
<1>4. CASE \E a \in Ieee : \E n \in MayName[a] \cup {NotPaired} : Z2MChange(a, n)
  BY <1>4 DEF Z2MChange, registryVars
<1>5. CASE Z2MRename \/ Z2MMissesRename \/ Z2MPublishList
           \/ \E a \in Ieee : Z2MPublishReading(a)
  BY <1>5 DEF Z2MRename, Z2MMissesRename, Z2MPublishList, Z2MPublishReading, registryVars
<1>6. CASE ConsumeDevicesFails \/ IdentifyReading
  BY <1>6 DEF ConsumeDevicesFails, IdentifyReading, registryVars
<1>7. CASE (\E carried \in BOOLEAN : ReportState(carried))
           \/ \E written \in BOOLEAN : WriteReading(written)
  BY <1>7 DEF ReportState, WriteReading, registryVars
<1>8. CASE (\E w \in Worker : RenamePublishes(w) \/ RenamePublishFails(w))
  BY <1>8 DEF RenamePublishes, RenamePublishFails, registryVars
<1>9. CASE Reconnect \/ Restart
  BY <1>9 DEF Reconnect, Restart, registryVars
<1>10. CASE UNCHANGED pipelineVars
  BY <1>10 DEF pipelineVars, vars
<1> QED
  BY <1>1, <1>2, <1>3, <1>4, <1>5, <1>6, <1>7, <1>8, <1>9, <1>10 DEF PipelineNext

-----------------------------------------------------------------------------
(***************************************************************************)
(* Types.                                                                  *)
(***************************************************************************)
LEMMA ListMessageType ==
    ASSUME NEW names \in NamesOfDevices
    PROVE  ListMessage(names) \in Message /\ IsList(ListMessage(names))
BY DEF ListMessage, IsList, Message

LEMMA ReadingType ==
    ASSUME NEW a \in Ieee, QueueTypeOK, a \in Paired
    PROVE  Reading(a) \in Message /\ ~IsList(Reading(a))
BY DEF Reading, IsList, Message, QueueTypeOK, NamesOfDevices, Paired

\* The message in front: a list, or a reading.
LEMMA HeadMessage ==
    ASSUME QueueTypeOK, inbox # <<>>
    PROVE  /\ Head(inbox) \in Message
           /\ Tail(inbox) \in Seq(Message)
           /\ IsList(Head(inbox)) => Head(inbox).names \in NamesOfDevices
           /\ ~IsList(Head(inbox)) => /\ Head(inbox).topic \in Name
                                      /\ Head(inbox).source \in Ieee
<1>1. Head(inbox) \in Message /\ Tail(inbox) \in Seq(Message)
  BY DEF QueueTypeOK
<1> QED BY <1>1 DEF Message, IsList

LEMMA HeadRequest ==
    ASSUME QueueTypeOK, requests # <<>>
    PROVE  Head(requests) \in Rename /\ Tail(requests) \in Seq(Rename)
BY DEF QueueTypeOK

LEMMA BorneType ==
    ASSUME QueueTypeOK, z2m' \in NamesOfDevices, borne' = NamesBorne
    PROVE  borne' \in [Ieee -> SUBSET Name]
BY DEF NamesBorne, NamesOfDevices, QueueTypeOK

LEMMA Z2MType ==
    ASSUME QueueTypeOK,
           \/ \E a \in Ieee : \E n \in MayName[a] \cup {NotPaired} : Z2MChange(a, n)
           \/ Z2MRename \/ Z2MMissesRename \/ Z2MPublishList
           \/ \E a \in Ieee : Z2MPublishReading(a)
    PROVE  QueueTypeOK'
<1>1. CASE \E a \in Ieee : \E n \in MayName[a] \cup {NotPaired} : Z2MChange(a, n)
  <2>a. PICK a \in Ieee : \E n \in MayName[a] \cup {NotPaired} : Z2MChange(a, n)
    BY <1>1
  <2>1. PICK n \in MayName[a] \cup {NotPaired} : Z2MChange(a, n)
    BY <2>a
  <2>2. n \in Name \cup {NotPaired}
    BY MayNameType
  <2>3. z2m' \in NamesOfDevices /\ borne' = NamesBorne
    BY <2>1, <2>2 DEF QueueTypeOK, Z2MChange, NamesOfDevices
  <2> QED BY <2>1, <2>3, BorneType DEF QueueTypeOK, Z2MChange
<1>2. CASE Z2MRename
  <2>1. Head(requests).to \in Name /\ Tail(requests) \in Seq(Rename)
    BY <1>2, HeadRequest DEF Z2MRename, Rename
  <2>2. z2m' \in NamesOfDevices
    BY <1>2, <2>1 DEF Z2MRename, NamesOfDevices, QueueTypeOK
  <2> QED BY <1>2, <2>1, <2>2, BorneType DEF QueueTypeOK, Z2MRename
<1>3. CASE Z2MMissesRename
  BY <1>3, HeadRequest DEF QueueTypeOK, Z2MMissesRename
<1>4. CASE Z2MPublishList
  <2>1. ListMessage(z2m) \in Message
    BY ListMessageType DEF QueueTypeOK
  <2> QED BY <1>4, <2>1 DEF QueueTypeOK, Z2MPublishList
<1>5. CASE \E a \in Ieee : Z2MPublishReading(a)
  <2>1. PICK a \in Ieee : Z2MPublishReading(a)
    BY <1>5
  <2>2. Reading(a) \in Message
    BY <2>1, ReadingType DEF Z2MPublishReading
  <2> QED BY <2>1, <2>2 DEF QueueTypeOK, Z2MPublishReading
<1> QED BY <1>1, <1>2, <1>3, <1>4, <1>5

LEMMA ThreadType ==
    ASSUME PipelineInv,
           \/ ConsumeDevices \/ ConsumeDevicesFails \/ IdentifyReading
           \/ \E carried \in BOOLEAN : ReportState(carried)
           \/ \E written \in BOOLEAN : WriteReading(written)
    PROVE  QueueTypeOK'
<1>1. QueueTypeOK
  BY DEF PipelineInv
<1>2. CASE ConsumeDevices
  BY <1>1, <1>2, HeadMessage DEF ConsumeDevices, QueueTypeOK
<1>3. CASE ConsumeDevicesFails
  BY <1>1, <1>3, HeadMessage DEF ConsumeDevicesFails, QueueTypeOK
<1>4. CASE IdentifyReading
  <2>1. Head(inbox).topic \in Name /\ Head(inbox).source \in Ieee
    BY <1>1, <1>4, HeadMessage DEF IdentifyReading
  <2>2. Resolve(Head(inbox).topic) \in Ieee \cup {Nobody}
    BY <2>1, ResolvedIsRegistered DEF PipelineInv, Registered
  <2>3. consumer' \in InHand
    BY <1>4, <2>1, <2>2 DEF IdentifyReading, InHand
  <2> QED BY <1>1, <1>4, <2>3, HeadMessage DEF IdentifyReading, QueueTypeOK
<1>5. CASE \E carried \in BOOLEAN : ReportState(carried)
  <2>1. PICK carried \in BOOLEAN : ReportState(carried)
    BY <1>5
  <2>2. consumer \in InHand
    BY <1>1, <2>1 DEF ReportState, QueueTypeOK
  <2>3. consumer' \in InHand
    BY <2>1, <2>2 DEF ReportState, InHand
  <2>4. reported' \in [Ieee -> Ieee \cup {Null}]
    BY <1>1, <2>1, <2>2 DEF ReportState, QueueTypeOK, InHand
  <2> QED BY <1>1, <2>1, <2>3, <2>4 DEF ReportState, QueueTypeOK
<1>6. CASE \E written \in BOOLEAN : WriteReading(written)
  <2>1. PICK written \in BOOLEAN : WriteReading(written)
    BY <1>6
  <2>2. consumer \in InHand
    BY <1>1, <2>1 DEF WriteReading, QueueTypeOK
  <2>3. TagOf(consumer) \in Name /\ consumer.source \in Ieee
    BY <2>2, RegistryAssumption DEF TagOf, InHand
  <2>4. points' \subseteq [tag : Name, source : Ieee]
    BY <1>1, <2>1, <2>3 DEF WriteReading, QueueTypeOK
  <2> QED BY <1>1, <2>1, <2>4 DEF WriteReading, QueueTypeOK
<1> QED BY <1>2, <1>3, <1>4, <1>5, <1>6

\* What a committed rename leaves in the hands of its thread.
LEMMA CommittedRename ==
    ASSUME PipelineInv, NEW w \in Worker, NEW a \in Ieee, NEW n \in MayName[a],
           RenameCommits(w, a, n)
    PROVE  /\ n \in Name /\ a \in Registered /\ device[a].friendly_name \in Name
           /\ UpdateDevice(a, n, Null)
           /\ device[a].friendly_name # n =>
                 worker' = [worker EXCEPT ![w] =
                    [from |-> device[a].friendly_name, to |-> n, ieee |-> a]]
           /\ device[a].friendly_name = n => worker' = worker
           /\ worker' \in [Worker -> Rename \cup {Idle}]
<1>1. n \in Name /\ UpdateDevice(a, n, Null)
  BY MayNameType DEF RenameCommits
<1>2. a \in Registered /\ device[a].friendly_name \in Name
  BY <1>1, RowFacts DEF UpdateDevice, PipelineInv, RegistryInv
<1>3. [from |-> device[a].friendly_name, to |-> n, ieee |-> a] \in Rename
  BY <1>1, <1>2 DEF Rename
<1> QED BY <1>1, <1>2, <1>3 DEF RenameCommits, PipelineInv, QueueTypeOK

LEMMA RequestType ==
    ASSUME PipelineInv,
           \/ \E w \in Worker, a \in Ieee : \E n \in MayName[a] : RenameCommits(w, a, n)
           \/ \E w \in Worker : RenamePublishes(w) \/ RenamePublishFails(w)
           \/ \E a \in Ieee : DeleteRequest(a)
    PROVE  QueueTypeOK'
<1>1. QueueTypeOK
  BY DEF PipelineInv
<1>2. CASE \E w \in Worker, a \in Ieee : \E n \in MayName[a] : RenameCommits(w, a, n)
  <2>a. PICK w \in Worker, a \in Ieee : \E n \in MayName[a] : RenameCommits(w, a, n)
    BY <1>2
  <2>1. PICK n \in MayName[a] : RenameCommits(w, a, n)
    BY <2>a
  <2>2. worker' \in [Worker -> Rename \cup {Idle}]
    BY <2>1, CommittedRename
  <2>3. borne' \in [Ieee -> SUBSET Name]
    BY <1>1, <2>1, MayNameType DEF RenameCommits, QueueTypeOK
  <2> QED BY <1>1, <2>1, <2>2, <2>3 DEF RenameCommits, QueueTypeOK
<1>3. CASE \E w \in Worker : RenamePublishes(w) \/ RenamePublishFails(w)
  <2>1. PICK w \in Worker : RenamePublishes(w) \/ RenamePublishFails(w)
    BY <1>3
  <2>2. worker[w] \in Rename /\ worker' = [worker EXCEPT ![w] = Idle]
    BY <1>1, <2>1 DEF RenamePublishes, RenamePublishFails, QueueTypeOK
  <2>3. worker' \in [Worker -> Rename \cup {Idle}]
    BY <1>1, <2>2 DEF QueueTypeOK
  <2>4. Append(requests, worker[w]) \in Seq(Rename)
    BY <1>1, <2>2 DEF QueueTypeOK
  <2> QED BY <1>1, <2>1, <2>3, <2>4 DEF RenamePublishes, RenamePublishFails, QueueTypeOK
<1>4. CASE \E a \in Ieee : DeleteRequest(a)
  BY <1>1, <1>4 DEF DeleteRequest, QueueTypeOK
<1> QED BY <1>2, <1>3, <1>4

LEMMA SessionType ==
    ASSUME QueueTypeOK, Reconnect \/ Restart
    PROVE  QueueTypeOK'
<1>1. <<ListMessage(retained)>> \in Seq(Message)
  BY ListMessageType DEF QueueTypeOK
<1>2. CASE Reconnect
  BY <1>1, <1>2 DEF Reconnect, QueueTypeOK
<1>3. CASE Restart
  <2>1. PICK sent \in 0..Len(requests) : requests' = SubSeq(requests, 1, sent)
    BY <1>3 DEF Restart
  <2>2. Len(requests) \in Nat /\ \A i \in 1..Len(requests) : requests[i] \in Rename
    BY DEF QueueTypeOK
  <2>3. \A i \in 1..sent : requests[i] \in Rename
    BY <2>2
  <2>4. SubSeq(requests, 1, sent) \in Seq(Rename)
    BY <2>1, <2>2, <2>3 DEF QueueTypeOK
  <2> QED BY <1>1, <1>3, <2>1, <2>4 DEF Restart, QueueTypeOK
<1> QED BY <1>2, <1>3

LEMMA PipelineStep == PipelineInv /\ [PipelineNext]_pipelineVars => PipelineInv'
<1> SUFFICES ASSUME PipelineInv, [PipelineNext]_pipelineVars PROVE PipelineInv'
  OBVIOUS
<1>1. RegistryInv'
  BY RegistryStep, NextInv DEF PipelineInv
<1>2. QueueTypeOK
  BY DEF PipelineInv
<1>3. CASE UNCHANGED pipelineVars
  BY <1>1, <1>2, <1>3 DEF PipelineInv, QueueTypeOK, pipelineVars
<1> QED
  BY <1>1, <1>2, <1>3, Z2MType, ThreadType, RequestType, SessionType DEF PipelineInv, PipelineNext

LEMMA PipelineStart == PipelineInit => PipelineInv
<1> SUFFICES ASSUME PipelineInit PROVE PipelineInv
  OBVIOUS
<1>1. RegistryInv
  BY InitInv DEF PipelineInit
<1>2. QueueTypeOK
  BY DEF PipelineInit, QueueTypeOK, NamesOfDevices
<1> QED BY <1>1, <1>2 DEF PipelineInv

\* The inductive invariant of the pipeline's types: that of the registry, and queues that
\* hold nothing but messages and requests.
THEOREM PipelineInvariance == PipelineSpec => []PipelineInv
BY PipelineStart, PipelineStep, PTL DEF PipelineSpec

\* Messages, requests, readings in hand and stored points keep their types, for any number of
\* threads, devices and events.
THEOREM PipelineTypeCorrect == PipelineSpec => []PipelineTypeOK
<1>1. PipelineInv => PipelineTypeOK
  <2> SUFFICES ASSUME PipelineInv PROVE PipelineTypeOK
    OBVIOUS
  <2>1. TypeOK /\ QueueTypeOK
    BY DEF PipelineInv, RegistryInv
  <2>2. \A i \in DOMAIN inbox : inbox[i] \in Message
    BY <2>1 DEF QueueTypeOK
  <2>3. \A i \in DOMAIN inbox :
           IF IsList(inbox[i]) THEN inbox[i].names \in NamesOfDevices
           ELSE inbox[i].topic \in Name /\ inbox[i].source \in Ieee
    BY <2>2 DEF Message, IsList
  <2> QED BY <2>1, <2>3 DEF PipelineTypeOK, QueueTypeOK, NamesOfDevices, InHand, Rename
<1> QED BY <1>1, PipelineInvariance, PTL

\* The pipeline runs the registry: what DeviceRegistryProofs says of every run of the
\* registry holds of the registry between the MQTT thread and the REST threads.
THEOREM PipelineRunsRegistry == PipelineSpec => Spec
<1>1. PipelineInit => Init
  BY DEF PipelineInit
<1> QED BY <1>1, RegistryStep, PTL DEF PipelineSpec, Spec

-----------------------------------------------------------------------------
(***************************************************************************)
(* What is known by a name has borne it.                                   *)
(***************************************************************************)
OwnedBy(names) == \A a \in Ieee : names[a] \in Bears(a) \cup {NotPaired}
OwnMessage ==
    {m \in Message : IF IsList(m) THEN OwnedBy(m.names) ELSE m.topic \in Bears(m.source)}
OwnRename == {r \in Rename : r.to \in Bears(r.ieee) /\ r.to # r.from}

\* Labels, aliases, messages and requests hold names of the device they are about.
OwnedRegistry ==
    /\ \A a \in Registered : device[a].friendly_name \in Bears(a)
    /\ \A n \in Name : alias[n] # Nobody => n \in Bears(alias[n])

OwnedQueues ==
    /\ OwnedBy(z2m) /\ OwnedBy(retained)
    /\ inbox \in Seq(OwnMessage)
    /\ worker \in [Worker -> OwnRename \cup {Idle}]
    /\ requests \in Seq(OwnRename)

OwnedInv == PipelineInv /\ OwnedRegistry /\ OwnedQueues

LEMMA BearsNames ==
    ASSUME QueueTypeOK, NEW a \in Ieee
    PROVE  Bears(a) \subseteq Name
BY RegistryAssumption DEF Bears, QueueTypeOK

\* A name that was borne stays borne.
LEMMA BearsStays ==
    ASSUME QueueTypeOK, [PipelineNext]_pipelineVars, NEW a \in Ieee
    PROVE  Bears(a) \subseteq Bears(a)'
<1>1. borne \in [Ieee -> SUBSET Name]
  BY DEF QueueTypeOK
<1>2. CASE borne' = NamesBorne
  BY <1>2 DEF NamesBorne, Bears
<1>3. CASE \E w \in Worker, b \in Ieee : \E n \in MayName[b] : RenameCommits(w, b, n)
  <2>1. PICK b \in Ieee, n \in Name : borne' = [borne EXCEPT ![b] = @ \cup {n}]
    BY <1>3, MayNameType DEF RenameCommits
  <2> QED BY <1>1, <2>1 DEF Bears
<1>4. CASE borne' = borne
  BY <1>4 DEF Bears
<1> QED BY <1>2, <1>3, <1>4
    DEF PipelineNext, Z2MChange, Z2MRename, Z2MMissesRename, Z2MPublishList,
        Z2MPublishReading, ConsumeDevices, ConsumeDevicesFails, IdentifyReading, ReportState,
        WriteReading, RenamePublishes, RenamePublishFails, DeleteRequest, Reconnect, Restart,
        pipelineVars

\* So do names that were shared.
LEMMA SharedStays ==
    ASSUME QueueTypeOK, [PipelineNext]_pipelineVars, NEW s \in Ieee, NEW t
    PROVE  /\ SharesAName(s) => SharesAName(s)'
           /\ Confused(s, t) => Confused(s, t)'
<1>1. \A a \in Ieee : Bears(a) \subseteq Bears(a)'
  BY BearsStays
<1>2. ASSUME NEW b \in Ieee, Bears(s) \cap Bears(b) # {}
      PROVE  Bears(s)' \cap Bears(b)' # {} /\ Bears(b)' \cap Bears(s)' # {}
  BY <1>1, <1>2
<1> QED BY <1>1, <1>2 DEF SharesAName, Confused

LEMMA OwnedSetsStay ==
    ASSUME QueueTypeOK, [PipelineNext]_pipelineVars
    PROVE  /\ \A names : OwnedBy(names) => OwnedBy(names)'
           /\ OwnMessage \subseteq OwnMessage'
           /\ OwnRename \subseteq OwnRename'
<1>1. \A a \in Ieee : Bears(a) \subseteq Bears(a)'
  BY BearsStays
<1>2. ASSUME NEW names, OwnedBy(names) PROVE OwnedBy(names)'
  BY <1>1, <1>2 DEF OwnedBy
<1>3. ASSUME NEW m \in OwnMessage PROVE m \in OwnMessage'
  <2>1. m \in Message
    BY <1>3 DEF OwnMessage
  <2>2. CASE IsList(m)
    BY <1>2, <1>3, <2>1, <2>2 DEF OwnMessage, IsList
  <2>3. CASE ~IsList(m)
    <3>1. m.source \in Ieee /\ m.topic \in Bears(m.source)
      BY <1>3, <2>1, <2>3 DEF OwnMessage, Message, IsList
    <3> QED BY <1>1, <2>1, <2>3, <3>1 DEF OwnMessage, IsList
  <2> QED BY <2>2, <2>3
<1>4. ASSUME NEW r \in OwnRename PROVE r \in OwnRename'
  <2>1. r \in Rename /\ r.ieee \in Ieee
    BY <1>4 DEF OwnRename, Rename
  <2> QED BY <1>1, <1>4, <2>1 DEF OwnRename
<1> QED BY <1>2, <1>3, <1>4

\* A name that is claimed in a sync is one an entry of its device has recorded.
LEMMA SyncedClaim ==
    ASSUME NEW list \in DeviceList, SyncDevices(list), NEW n \in Name, alias'[n] # alias[n]
    PROVE  \E i \in DOMAIN list :
              alias'[n] = list[i].ieee_address /\ n \in Recorded(list, i)
<1> DEFINE claimants == {i \in DOMAIN list : n \in Recorded(list, i)}
           first == CHOOSE i \in claimants : \A j \in claimants : i <= j
<1>1. alias'[n] = IF alias[n] # Nobody \/ claimants = {} THEN alias[n]
                  ELSE list[first].ieee_address
  BY DEF SyncDevices, SyncedAlias
<1>2. claimants # {} => first \in claimants
  <2>1. claimants \in SUBSET Nat
    BY ListFacts
  <2>2. claimants # {} => \E i \in claimants : \A j \in claimants : i <= j
    BY <2>1, LeastExists
  <2> QED BY <2>2
<1> HIDE DEF first
<1> QED BY <1>1, <1>2

\* What an entry of a list that is consumed says.
LEMMA ListedName ==
    ASSUME NEW names \in NamesOfDevices, NEW list \in ListsOf(names)
    PROVE  /\ list \in DeviceList
           /\ Listed(list) = {a \in Ieee : names[a] # NotPaired}
           /\ \A i \in DOMAIN list : /\ list[i].ieee_address \in Ieee
                                     /\ list[i].friendly_name \in Name
                                     /\ list[i].friendly_name = names[list[i].ieee_address]
BY ListFacts DEF ListsOf

LEMMA SyncOwned ==
    ASSUME OwnedInv, NEW names \in NamesOfDevices, OwnedBy(names),
           NEW list \in ListsOf(names), SyncDevices(list), borne' = borne
    PROVE  OwnedRegistry'
<1>1. TypeOK /\ OwnedRegistry /\ list \in DeviceList
  BY ListedName DEF OwnedInv, PipelineInv, RegistryInv
<1>2. \A i \in DOMAIN list : /\ list[i].ieee_address \in Ieee
                             /\ list[i].friendly_name \in Bears(list[i].ieee_address)
  BY ListedName, PipelineAssumption DEF OwnedBy
<1>3. ASSUME NEW a \in Registered' PROVE device'[a].friendly_name \in Bears(a)
  <2>1. CASE a \in Listed(list)
    <3>1. PICK i \in DOMAIN list : list[i].ieee_address = a
      BY <2>1 DEF Listed
    <3>2. device'[a].friendly_name = list[i].friendly_name
      BY <1>1, <3>1, SyncedListed
    <3> QED BY <1>2, <3>1, <3>2
  <2>2. CASE a \notin Listed(list)
    <3>1. a \in Ieee /\ a \in Registered
      BY <1>1, <2>2, SyncedRegistered DEF Registered
    <3> QED BY <1>1, <2>2, <3>1, SyncedUnlisted DEF OwnedRegistry
  <2> QED BY <2>1, <2>2
<1>4. ASSUME NEW n \in Name, alias'[n] # Nobody PROVE n \in Bears(alias'[n])
  <2>1. CASE alias'[n] = alias[n]
    BY <1>1, <1>4, <2>1 DEF OwnedRegistry
  <2>2. CASE alias'[n] # alias[n]
    <3>1. PICK i \in DOMAIN list :
             alias'[n] = list[i].ieee_address /\ n \in Recorded(list, i)
      BY <1>1, <2>2, SyncedClaim
    <3>2. list[i].ieee_address \in Ieee
      BY <1>2
    <3>3. n \in Bears(list[i].ieee_address)
      BY <1>1, <1>2, <3>1, <3>2 DEF Recorded, OwnedRegistry, Registered
    <3> QED BY <3>1, <3>3
  <2> QED BY <2>1, <2>2
<1> QED BY <1>3, <1>4 DEF OwnedRegistry, Bears

LEMMA RenameOwned ==
    ASSUME OwnedInv, [PipelineNext]_pipelineVars,
           NEW w \in Worker, NEW a \in Ieee, NEW n \in MayName[a], RenameCommits(w, a, n)
    PROVE  OwnedRegistry' /\ n \in Bears(a)'
<1>1. TypeOK /\ OwnedRegistry /\ QueueTypeOK /\ n \in Name /\ UpdateDevice(a, n, Null)
  BY MayNameType DEF OwnedInv, PipelineInv, RegistryInv, RenameCommits
<1>2. n \in Bears(a)' /\ \A b \in Ieee : Bears(b) \subseteq Bears(b)'
  BY <1>1, BearsStays DEF RenameCommits, Bears, QueueTypeOK
<1>3. a \in Registered /\ device[a].friendly_name \in Bears(a)'
  BY <1>1, <1>2 DEF UpdateDevice, OwnedRegistry
<1>4. /\ Registered' = Registered
      /\ \A b \in Ieee \ {a} : device'[b] = device[b]
      /\ device'[a].friendly_name = n
  BY <1>1, RenameFacts
<1>5. \A m \in Name : \/ alias'[m] = alias[m]
                      \/ alias'[m] = a /\ m \in {device[a].friendly_name, n}
  BY <1>1 DEF UpdateDevice, RememberNames
<1>6. \A b \in Registered' : device'[b].friendly_name \in Bears(b)'
  BY <1>1, <1>2, <1>4 DEF OwnedRegistry, Registered
<1>7. ASSUME NEW m \in Name, alias'[m] # Nobody PROVE m \in borne'[alias'[m]] \cup {alias'[m]}
  <2>1. CASE alias'[m] = a /\ m \in {device[a].friendly_name, n}
    BY <1>2, <1>3, <2>1 DEF Bears
  <2>2. CASE alias'[m] = alias[m]
    <3>1. alias[m] \in Ieee /\ m \in Bears(alias[m])
      BY <1>1, <1>7, <2>2 DEF TypeOK, OwnedRegistry
    <3>2. m \in borne'[alias[m]] \cup {alias[m]}
      BY <1>2, <3>1 DEF Bears
    <3> QED BY <2>2, <3>2
  <2> QED BY <1>5, <2>1, <2>2
<1> QED BY <1>2, <1>6, <1>7 DEF OwnedRegistry, Bears

LEMMA DeleteOwned ==
    ASSUME OwnedInv, NEW a \in Ieee, DeleteDevice(a), borne' = borne
    PROVE  OwnedRegistry'
<1>1. TypeOK /\ OwnedRegistry
  BY DEF OwnedInv, PipelineInv, RegistryInv
<1>2. /\ Registered' = Registered \ {a} /\ Registered \subseteq Ieee
      /\ \A b \in Ieee \ {a} : device'[b] = device[b]
      /\ \A n \in Name : alias'[n] = IF alias[n] = a THEN Nobody ELSE alias[n]
  BY <1>1, DeleteFacts DEF Registered
<1> QED BY <1>1, <1>2 DEF OwnedRegistry, Bears

\* A topic of a device leads to a device that has borne it, or to none.
LEMMA OwnTopic ==
    ASSUME OwnedInv, NEW s \in Ieee, NEW t \in Bears(s), Resolve(t) # Nobody
    PROVE  /\ Resolve(t) \in Registered /\ Resolve(t) \in Ieee
           /\ t \in Bears(Resolve(t))
<1>1. t \in Name /\ TypeOK /\ RegistryInv /\ OwnedRegistry
  BY BearsNames DEF OwnedInv, PipelineInv, RegistryInv
<1>2. Resolve(t) \in Registered /\ Registered \subseteq Ieee
  BY <1>1, ResolvedIsRegistered DEF Registered
<1>3. CASE t \in Registered
  BY <1>2, <1>3 DEF Resolve, Bears
<1>4. CASE t \notin Registered /\ Labelled(t) # {}
  <2>1. Resolve(t) \in Labelled(t)
    BY <1>1, <1>4, LowestIdWins DEF Resolve
  <2> QED BY <1>1, <1>2, <2>1 DEF Labelled, OwnedRegistry
<1>5. CASE t \notin Registered /\ Labelled(t) = {}
  BY <1>1, <1>2, <1>5 DEF Resolve, OwnedRegistry
<1> QED BY <1>3, <1>4, <1>5

-----------------------------------------------------------------------------
(***************************************************************************)
(* The messages on their way.                                              *)
(***************************************************************************)
LEMMA TailElements ==
    ASSUME NEW S, NEW q \in Seq(S), q # <<>>
    PROVE  /\ \A i \in DOMAIN Tail(q) : i + 1 \in DOMAIN q /\ Tail(q)[i] = q[i + 1]
           /\ \A i \in DOMAIN q : \/ i = 1 /\ q[i] = Head(q)
                                  \/ i - 1 \in DOMAIN Tail(q) /\ Tail(q)[i - 1] = q[i]
           /\ DOMAIN q = 1..Len(q) /\ 1 \in DOMAIN q
OBVIOUS

LEMMA AppendElements ==
    ASSUME NEW S, NEW q \in Seq(S), NEW m \in S
    PROVE  /\ \A i \in DOMAIN q : i \in DOMAIN Append(q, m) /\ Append(q, m)[i] = q[i]
           /\ \A i \in DOMAIN Append(q, m) : \/ i \in DOMAIN q
                                             \/ i = Len(q) + 1
           /\ Len(q) + 1 \in DOMAIN Append(q, m) /\ Append(q, m)[Len(q) + 1] = m
           /\ \A i \in DOMAIN q : i < Len(q) + 1
OBVIOUS

\* What a step does to the messages on their way.
LEMMA InboxStep ==
    ASSUME QueueTypeOK, [PipelineNext]_pipelineVars
    PROVE  \/ inbox' = inbox /\ retained' = retained
           \/ /\ inbox' = Append(inbox, ListMessage(z2m))
              /\ retained' = z2m /\ z2m' = z2m
           \/ /\ \E a \in Paired : inbox' = Append(inbox, Reading(a))
              /\ retained' = retained /\ z2m' = z2m
           \/ /\ inbox # <<>> /\ inbox' = Tail(inbox)
              /\ retained' = retained /\ z2m' = z2m
              /\ ConsumeDevices \/ ConsumeDevicesFails \/ ~IsList(Head(inbox))
           \/ /\ inbox' = <<ListMessage(retained)>>
              /\ retained' = retained /\ z2m' = z2m
              /\ Reconnect \/ Restart
<1>1. CASE \E a \in Ieee : \E n \in MayName[a] \cup {NotPaired} : Z2MChange(a, n)
  BY <1>1 DEF Z2MChange
<1>2. CASE Z2MRename \/ Z2MMissesRename
  BY <1>2 DEF Z2MRename, Z2MMissesRename
<1>3. CASE Z2MPublishList
  BY <1>3 DEF Z2MPublishList
<1>4. CASE \E a \in Ieee : Z2MPublishReading(a)
  BY <1>4 DEF Z2MPublishReading
<1>5. CASE ConsumeDevices
  BY <1>5 DEF ConsumeDevices
<1>6. CASE ConsumeDevicesFails
  BY <1>6 DEF ConsumeDevicesFails
<1>7. CASE IdentifyReading
  BY <1>7 DEF IdentifyReading
<1>8. CASE (\E carried \in BOOLEAN : ReportState(carried))
           \/ \E written \in BOOLEAN : WriteReading(written)
  BY <1>8 DEF ReportState, WriteReading
<1>9. CASE \E w \in Worker, a \in Ieee : \E n \in MayName[a] : RenameCommits(w, a, n)
  BY <1>9 DEF RenameCommits
<1>10. CASE (\E w \in Worker : RenamePublishes(w) \/ RenamePublishFails(w))
            \/ \E a \in Ieee : DeleteRequest(a)
  BY <1>10 DEF RenamePublishes, RenamePublishFails, DeleteRequest
<1>11. CASE Reconnect \/ Restart
  BY <1>11 DEF Reconnect, Restart
<1>12. CASE UNCHANGED pipelineVars
  BY <1>12 DEF pipelineVars
<1> QED
  BY <1>1, <1>2, <1>3, <1>4, <1>5, <1>6, <1>7, <1>8, <1>9, <1>10, <1>11, <1>12 DEF PipelineNext

-----------------------------------------------------------------------------
(***************************************************************************)
(* The queues stay owned.                                                  *)
(***************************************************************************)
LEMMA OwnHead ==
    ASSUME OwnedQueues
    PROVE  /\ inbox # <<>> => /\ Head(inbox) \in OwnMessage
                              /\ Tail(inbox) \in Seq(OwnMessage)
           /\ requests # <<>> => /\ Head(requests) \in OwnRename
                                 /\ Tail(requests) \in Seq(OwnRename)
BY DEF OwnedQueues

LEMMA OwnListMessage ==
    ASSUME NEW names \in NamesOfDevices, OwnedBy(names)
    PROVE  ListMessage(names) \in OwnMessage
BY ListMessageType DEF OwnMessage, ListMessage

\* Where a step changes Zigbee2MQTT's names, the names are recorded as borne.
LEMMA NamesStep ==
    ASSUME QueueTypeOK, [PipelineNext]_pipelineVars
    PROVE  /\ z2m' = z2m \/ borne' = NamesBorne
           /\ retained' = retained \/ retained' = z2m
BY DEF PipelineNext, Z2MChange, Z2MRename, Z2MMissesRename, Z2MPublishList,
       Z2MPublishReading, ConsumeDevices, ConsumeDevicesFails, IdentifyReading, ReportState,
       WriteReading, RenameCommits, RenamePublishes, RenamePublishFails, DeleteRequest,
       Reconnect, Restart, pipelineVars

LEMMA OwnInbox ==
    ASSUME OwnedInv, [PipelineNext]_pipelineVars
    PROVE  inbox' \in Seq(OwnMessage)
<1>1. OwnedQueues /\ QueueTypeOK /\ inbox \in Seq(OwnMessage)
  BY DEF OwnedInv, OwnedQueues, PipelineInv
<1>2. ListMessage(z2m) \in OwnMessage /\ ListMessage(retained) \in OwnMessage
  BY <1>1, OwnListMessage DEF OwnedQueues, QueueTypeOK
<1>3. \A a \in Paired : Reading(a) \in OwnMessage
  <2>1. ASSUME NEW a \in Paired PROVE z2m[a] \in Bears(a) /\ a \in Ieee
    BY <1>1 DEF OwnedQueues, OwnedBy, Paired
  <2> QED BY <1>1, <2>1, ReadingType DEF OwnMessage, Reading
<1>4. CASE inbox # <<>> /\ inbox' = Tail(inbox)
  BY <1>1, <1>4
<1>5. CASE \E a \in Paired : inbox' = Append(inbox, Reading(a))
  <2>1. PICK a \in Paired : inbox' = Append(inbox, Reading(a))
    BY <1>5
  <2>2. Reading(a) \in OwnMessage
    BY <1>3
  <2> QED BY <1>1, <2>1, <2>2
<1>6. CASE inbox' = Append(inbox, ListMessage(z2m))
  <2> DEFINE m == ListMessage(z2m)
  <2>1. m \in OwnMessage /\ inbox' = Append(inbox, m)
    BY <1>2, <1>6
  <2> HIDE DEF m
  <2> QED BY <1>1, <2>1
<1>7. CASE inbox' = <<ListMessage(retained)>>
  <2> DEFINE m == ListMessage(retained)
  <2>1. m \in OwnMessage /\ inbox' = <<m>>
    BY <1>2, <1>7
  <2> HIDE DEF m
  <2> QED BY <2>1
<1> QED BY <1>1, <1>4, <1>5, <1>6, <1>7, InboxStep

\* What a thread holds of a rename was asked for with a name the device then bears.
LEMMA OwnWorker ==
    ASSUME OwnedInv, [PipelineNext]_pipelineVars
    PROVE  worker' \in [Worker -> OwnRename' \cup {Idle}]
<1>1. PipelineInv /\ QueueTypeOK /\ worker \in [Worker -> OwnRename \cup {Idle}]
  BY DEF OwnedInv, OwnedQueues, PipelineInv
<1>2. OwnRename \subseteq OwnRename'
  BY <1>1, OwnedSetsStay
<1>3. CASE \E w \in Worker, a \in Ieee : \E n \in MayName[a] : RenameCommits(w, a, n)
  <2>1. PICK w \in Worker, a \in Ieee : \E n \in MayName[a] : RenameCommits(w, a, n)
    BY <1>3
  <2>2. PICK n \in MayName[a] : RenameCommits(w, a, n)
    BY <2>1
  <2>3. /\ n \in Name /\ device[a].friendly_name \in Name
        /\ device[a].friendly_name # n =>
              worker' = [worker EXCEPT ![w] =
                 [from |-> device[a].friendly_name, to |-> n, ieee |-> a]]
        /\ device[a].friendly_name = n => worker' = worker
    BY <1>1, <2>2, CommittedRename
  <2>4. n \in Bears(a)'
    BY <2>2, RenameOwned
  <2>5. device[a].friendly_name # n =>
           [from |-> device[a].friendly_name, to |-> n, ieee |-> a] \in OwnRename'
    BY <2>3, <2>4 DEF OwnRename, Rename, Bears
  <2> QED BY <1>1, <1>2, <2>3, <2>5
<1>4. CASE \E w \in Worker : worker' = [worker EXCEPT ![w] = Idle]
  BY <1>1, <1>2, <1>4
<1>5. CASE worker' = [w \in Worker |-> Idle] \/ worker' = worker
  BY <1>1, <1>2, <1>5
<1> QED BY <1>3, <1>4, <1>5
    DEF PipelineNext, Z2MChange, Z2MRename, Z2MMissesRename, Z2MPublishList,
        Z2MPublishReading, ConsumeDevices, ConsumeDevicesFails, IdentifyReading, ReportState,
        WriteReading, RenamePublishes, RenamePublishFails, DeleteRequest, Reconnect, Restart,
        pipelineVars

LEMMA OwnRequests ==
    ASSUME OwnedInv, [PipelineNext]_pipelineVars
    PROVE  requests' \in Seq(OwnRename)
<1>1. /\ QueueTypeOK /\ OwnedQueues /\ requests \in Seq(OwnRename)
      /\ worker \in [Worker -> OwnRename \cup {Idle}]
  BY DEF OwnedInv, OwnedQueues, PipelineInv
<1>2. CASE Z2MRename \/ Z2MMissesRename
  BY <1>1, <1>2, OwnHead DEF Z2MRename, Z2MMissesRename
<1>3. CASE \E w \in Worker : RenamePublishes(w) \/ RenamePublishFails(w)
  BY <1>1, <1>3 DEF RenamePublishes, RenamePublishFails
<1>4. CASE Restart
  <2>1. PICK sent \in 0..Len(requests) : requests' = SubSeq(requests, 1, sent)
    BY <1>4 DEF Restart
  <2>2. Len(requests) \in Nat /\ \A i \in 1..Len(requests) : requests[i] \in OwnRename
    BY <1>1
  <2>3. \A i \in 1..sent : requests[i] \in OwnRename
    BY <2>2
  <2> QED BY <1>1, <2>1, <2>2, <2>3
<1> QED BY <1>1, <1>2, <1>3, <1>4
    DEF PipelineNext, Z2MChange, Z2MPublishList, Z2MPublishReading, ConsumeDevices,
        ConsumeDevicesFails, IdentifyReading, ReportState, WriteReading, RenameCommits,
        DeleteRequest, Reconnect, pipelineVars

LEMMA OwnedQueuesStep ==
    ASSUME OwnedInv, [PipelineNext]_pipelineVars
    PROVE  OwnedQueues'
<1>1. QueueTypeOK /\ OwnedBy(z2m) /\ OwnedBy(retained)
  BY DEF OwnedInv, OwnedQueues, PipelineInv
<1>2. /\ \A names : OwnedBy(names) => OwnedBy(names)'
      /\ OwnMessage \subseteq OwnMessage' /\ OwnRename \subseteq OwnRename'
  BY <1>1, OwnedSetsStay
<1>3. OwnedBy(retained)'
  BY <1>1, <1>2, NamesStep DEF OwnedBy
<1>4. OwnedBy(z2m)'
  <2>1. CASE z2m' = z2m
    BY <1>1, <1>2, <2>1 DEF OwnedBy
  <2>2. CASE borne' = NamesBorne
    BY <2>2 DEF OwnedBy, NamesBorne, Bears
  <2> QED BY <1>1, <2>1, <2>2, NamesStep
<1>5. inbox' \in Seq(OwnMessage')
  <2>1. inbox' \in Seq(OwnMessage)
    BY OwnInbox
  <2>2. \A i \in 1..Len(inbox') : inbox'[i] \in OwnMessage'
    BY <1>2, <2>1
  <2> QED BY <2>1, <2>2
<1>6. requests' \in Seq(OwnRename')
  <2>1. requests' \in Seq(OwnRename)
    BY OwnRequests
  <2>2. \A i \in 1..Len(requests') : requests'[i] \in OwnRename'
    BY <1>2, <2>1
  <2> QED BY <2>1, <2>2
<1> QED BY <1>3, <1>4, <1>5, <1>6, OwnWorker DEF OwnedQueues

LEMMA OwnedStep ==
    ASSUME OwnedInv, [PipelineNext]_pipelineVars
    PROVE  OwnedInv'
<1>1. PipelineInv' /\ PipelineInv /\ QueueTypeOK /\ TypeOK /\ OwnedRegistry /\ OwnedQueues
  BY PipelineStep DEF OwnedInv, PipelineInv, RegistryInv
<1>2. CASE ConsumeDevices
  <2>1. Head(inbox).names \in NamesOfDevices /\ OwnedBy(Head(inbox).names)
    BY <1>1, <1>2, HeadMessage, OwnHead DEF ConsumeDevices, OwnMessage
  <2>2. PICK list \in ListsOf(Head(inbox).names) : SyncDevices(list)
    BY <1>2 DEF ConsumeDevices
  <2>3. borne' = borne
    BY <1>2 DEF ConsumeDevices
  <2> QED BY <2>1, <2>2, <2>3, <1>1, SyncOwned, OwnedQueuesStep DEF OwnedInv
<1>3. CASE \E w \in Worker, a \in Ieee : \E n \in MayName[a] : RenameCommits(w, a, n)
  <2>1. PICK w \in Worker, a \in Ieee : \E n \in MayName[a] : RenameCommits(w, a, n)
    BY <1>3
  <2>2. PICK n \in MayName[a] : RenameCommits(w, a, n)
    BY <2>1
  <2> QED BY <1>1, <2>2, RenameOwned, OwnedQueuesStep DEF OwnedInv
<1>4. CASE \E a \in Ieee : DeleteRequest(a)
  BY <1>1, <1>4, DeleteOwned, OwnedQueuesStep DEF OwnedInv, DeleteRequest
<1>5. CASE UNCHANGED <<device, alias>>
  <2>1. \A a \in Ieee : Bears(a) \subseteq Bears(a)'
    BY <1>1, BearsStays
  <2>2. \A a \in Registered' : device'[a].friendly_name \in Bears(a)'
    BY <1>1, <1>5, <2>1 DEF OwnedRegistry, Registered, IsRegistered
  <2>3. ASSUME NEW n \in Name, alias'[n] # Nobody PROVE n \in borne'[alias'[n]] \cup {alias'[n]}
    <3>1. alias[n] \in Ieee /\ n \in Bears(alias[n]) /\ alias'[n] = alias[n]
      BY <1>1, <1>5, <2>3 DEF TypeOK, OwnedRegistry
    <3>2. n \in borne'[alias[n]] \cup {alias[n]}
      BY <2>1, <3>1 DEF Bears
    <3> QED BY <3>1, <3>2
  <2>4. OwnedRegistry'
    BY <2>2, <2>3 DEF OwnedRegistry, Bears
  <2> QED BY <1>1, <2>4, OwnedQueuesStep DEF OwnedInv
<1> QED BY <1>2, <1>3, <1>4, <1>5
    DEF PipelineNext, Z2MChange, Z2MRename, Z2MMissesRename, Z2MPublishList,
        Z2MPublishReading, ConsumeDevicesFails, IdentifyReading, ReportState, WriteReading,
        RenamePublishes, RenamePublishFails, Reconnect, Restart, pipelineVars, registryVars,
        vars

LEMMA OwnedStart == PipelineInit => OwnedInv
<1> SUFFICES ASSUME PipelineInit PROVE OwnedInv
  OBVIOUS
<1>1. OwnedRegistry
  BY DEF PipelineInit, Init, OwnedRegistry, Registered, IsRegistered
<1>2. OwnedQueues
  BY DEF PipelineInit, OwnedQueues, OwnedBy
<1> QED BY <1>1, <1>2, PipelineStart DEF OwnedInv

-----------------------------------------------------------------------------
(***************************************************************************)
(* The last list on its way is the retained one.                           *)
(***************************************************************************)
LastList ==
    \A i \in DOMAIN inbox : IsList(inbox[i]) =>
        \/ inbox[i].names = retained
        \/ \E j \in DOMAIN inbox : j > i /\ IsList(inbox[j])

LEMMA LastListStep ==
    ASSUME QueueTypeOK, LastList, [PipelineNext]_pipelineVars
    PROVE  LastList'
<1>1. inbox \in Seq(Message)
  BY DEF QueueTypeOK
<1>2. ASSUME NEW m \in Message, inbox' = Append(inbox, m),
             \/ retained' = retained
             \/ IsList(m) /\ m.names = retained',
             IsList(m) => m.names = retained'
      PROVE  LastList'
  <2> SUFFICES ASSUME NEW i \in DOMAIN inbox', IsList(inbox'[i])
               PROVE  \/ inbox'[i].names = retained'
                      \/ \E j \in DOMAIN inbox' : j > i /\ IsList(inbox'[j])
    BY DEF LastList, IsList
  <2>1. CASE i = Len(inbox) + 1
    BY <1>1, <1>2, <2>1, AppendElements
  <2>2. CASE i \in DOMAIN inbox
    <3>1. /\ inbox'[i] = inbox[i] /\ i < Len(inbox) + 1
          /\ Len(inbox) + 1 \in DOMAIN inbox' /\ inbox'[Len(inbox) + 1] = m
          /\ \A j \in DOMAIN inbox : j \in DOMAIN inbox' /\ inbox'[j] = inbox[j]
      BY <1>1, <1>2, <2>2, AppendElements
    <3>2. \/ inbox[i].names = retained
          \/ \E j \in DOMAIN inbox : j > i /\ IsList(inbox[j])
      BY <2>2, <3>1 DEF LastList
    <3>3. CASE IsList(m)
      BY <1>1, <2>2, <3>1, <3>3
    <3> QED BY <1>2, <3>1, <3>2, <3>3
  <2> QED BY <1>1, <1>2, <2>1, <2>2, AppendElements
<1>3. CASE inbox' = inbox /\ retained' = retained
  BY <1>3 DEF LastList
<1>4. CASE inbox' = Append(inbox, ListMessage(z2m)) /\ retained' = z2m
  <2>1. ListMessage(z2m) \in Message /\ ListMessage(z2m).names = z2m
        /\ IsList(ListMessage(z2m))
    BY ListMessageType DEF QueueTypeOK, ListMessage
  <2> QED BY <1>2, <1>4, <2>1
<1>5. CASE (\E a \in Paired : inbox' = Append(inbox, Reading(a))) /\ retained' = retained
  <2>1. PICK a \in Paired : inbox' = Append(inbox, Reading(a))
    BY <1>5
  <2>2. Reading(a) \in Message /\ ~IsList(Reading(a))
    BY ReadingType DEF Paired
  <2> QED BY <1>2, <1>5, <2>1, <2>2
<1>6. CASE inbox # <<>> /\ inbox' = Tail(inbox) /\ retained' = retained
  <2> SUFFICES ASSUME NEW i \in DOMAIN inbox', IsList(inbox'[i]), inbox'[i].names # retained'
               PROVE  \E j \in DOMAIN inbox' : j > i /\ IsList(inbox'[j])
    BY DEF LastList, IsList
  <2>1. i + 1 \in DOMAIN inbox /\ inbox'[i] = inbox[i + 1] /\ i \in Nat
    BY <1>1, <1>6, TailElements
  <2>2. PICK j \in DOMAIN inbox : j > i + 1 /\ IsList(inbox[j])
    BY <1>6, <2>1 DEF LastList
  <2>3. j \in Nat /\ i \in Nat /\ i >= 1
    BY <1>1, <1>6, <2>1
  <2>4. j - 1 \in DOMAIN inbox' /\ inbox'[j - 1] = inbox[j]
    BY <1>1, <1>6, <2>2, <2>3, TailElements
  <2> QED BY <2>2, <2>3, <2>4
<1>7. CASE inbox' = <<ListMessage(retained)>> /\ retained' = retained
  BY <1>7 DEF LastList, ListMessage
<1> QED BY <1>3, <1>4, <1>5, <1>6, <1>7, InboxStep

-----------------------------------------------------------------------------
(***************************************************************************)
(* Labels.                                                                 *)
(***************************************************************************)
Waiting(r) ==
    \/ \E i \in DOMAIN requests : requests[i] = r
    \/ \E w \in Worker : worker[w] = r

\* A rename is on its way that finds device a under the name it has in Zigbee2MQTT.
RenameWaits(a) == \E r \in Rename : Waiting(r) /\ r.ieee = a /\ r.from = z2m[a]

\* What will yet bring label and name together, unless they agree.
Agrees(a) ==
    \/ device[a].friendly_name = z2m[a]
    \/ SharesAName(a)
    \/ ListOnItsWay
    \/ RenameWaits(a)

LabelsInv == \A a \in (Paired \cap Registered) \ drifted : Agrees(a)

LEMMA IdleIsNoRename == Idle \notin Rename
BY PipelineAssumption DEF Rename

\* A change of Zigbee2MQTT's names is followed by a list.
LEMMA ChangeIsPublished ==
    ASSUME QueueTypeOK,
           \/ \E a \in Ieee : \E n \in MayName[a] \cup {NotPaired} : Z2MChange(a, n)
           \/ Z2MRename,
           z2m' # z2m
    PROVE  ListOnItsWay'
BY DEF Z2MChange, Z2MRename, ListOnItsWay

\* A list leaves only by being consumed.
LEMMA ListStays ==
    ASSUME QueueTypeOK, ListOnItsWay, z2m' = z2m,
           \/ inbox' = inbox /\ retained' = retained
           \/ inbox' = Append(inbox, ListMessage(z2m))
           \/ (\E a \in Paired : inbox' = Append(inbox, Reading(a))) /\ retained' = retained
           \/ /\ inbox # <<>> /\ ~IsList(Head(inbox))
              /\ inbox' = Tail(inbox) /\ retained' = retained
           \/ inbox' = <<ListMessage(retained)>>
    PROVE  ListOnItsWay'
<1>1. inbox \in Seq(Message)
  BY DEF QueueTypeOK
<1>2. CASE inbox' = inbox /\ retained' = retained
  BY <1>2 DEF ListOnItsWay
<1>3. CASE inbox' = Append(inbox, ListMessage(z2m))
  BY <1>1, <1>3, ListMessageType, AppendElements DEF ListOnItsWay, QueueTypeOK, IsList
<1>4. CASE (\E a \in Paired : inbox' = Append(inbox, Reading(a))) /\ retained' = retained
  <2>1. PICK a \in Paired : inbox' = Append(inbox, Reading(a))
    BY <1>4
  <2>2. Reading(a) \in Message
    BY ReadingType DEF Paired
  <2>3. \A i \in DOMAIN inbox : i \in DOMAIN inbox' /\ inbox'[i] = inbox[i]
    BY <1>1, <2>1, <2>2, AppendElements
  <2> QED BY <1>4, <2>3 DEF ListOnItsWay, IsList
<1>5. CASE inbox # <<>> /\ inbox' = Tail(inbox) /\ retained' = retained /\ ~IsList(Head(inbox))
  <2>1. \A i \in DOMAIN inbox : IsList(inbox[i]) =>
           i - 1 \in DOMAIN inbox' /\ inbox'[i - 1] = inbox[i]
    BY <1>1, <1>5, TailElements
  <2> QED BY <1>5, <2>1 DEF ListOnItsWay, IsList
<1>6. CASE inbox' = <<ListMessage(retained)>>
  BY <1>6 DEF ListOnItsWay, IsList, ListMessage
<1> QED BY <1>2, <1>3, <1>4, <1>5, <1>6

\* A list consumed with none behind it was the retained one.
LEMMA LastListConsumed ==
    ASSUME QueueTypeOK, LastList, inbox # <<>>, IsList(Head(inbox)), inbox' = Tail(inbox),
           retained' = retained, z2m' = z2m, ~ListOnItsWay'
    PROVE  Head(inbox).names = z2m
<1>1. inbox \in Seq(Message) /\ retained = z2m
  BY DEF QueueTypeOK, ListOnItsWay
<1>2. \A i \in DOMAIN inbox' : ~IsList(inbox'[i])
  BY DEF ListOnItsWay, IsList
<1>3. 1 \in DOMAIN inbox /\ inbox[1] = Head(inbox)
  BY <1>1
<1>4. ASSUME NEW j \in DOMAIN inbox, j > 1 PROVE ~IsList(inbox[j])
  <2>1. j # 1
    BY <1>1, <1>4
  <2>2. j - 1 \in DOMAIN inbox' /\ inbox'[j - 1] = inbox[j]
    BY <1>1, <2>1, TailElements
  <2> QED BY <1>2, <2>2
<1> QED BY <1>1, <1>3, <1>4 DEF LastList

\* The label of a listed device is the listed name.
LEMMA ConsumedLabel ==
    ASSUME PipelineInv, ConsumeDevices, NEW a \in Ieee, Head(inbox).names[a] # NotPaired
    PROVE  a \in Registered' /\ device'[a].friendly_name = Head(inbox).names[a]
<1>1. TypeOK /\ QueueTypeOK
  BY DEF PipelineInv, RegistryInv
<1>2. Head(inbox).names \in NamesOfDevices
  BY <1>1, HeadMessage DEF ConsumeDevices
<1>3. PICK list \in ListsOf(Head(inbox).names) : SyncDevices(list)
  BY DEF ConsumeDevices
<1>4. list \in DeviceList /\ a \in Listed(list)
  BY <1>2, <1>3, ListedName
<1>5. PICK i \in DOMAIN list : list[i].ieee_address = a
  BY <1>4 DEF Listed
<1>6. device'[a].friendly_name = list[i].friendly_name
  BY <1>1, <1>3, <1>4, <1>5, SyncedListed
<1> QED BY <1>1, <1>2, <1>3, <1>4, <1>5, <1>6, ListedName, SyncedRegistered

LEMMA LabelsZ2M ==
    ASSUME OwnedInv, LabelsInv, [PipelineNext]_pipelineVars,
           \/ \E a \in Ieee : \E n \in MayName[a] \cup {NotPaired} : Z2MChange(a, n)
           \/ Z2MRename
    PROVE  LabelsInv'
<1>1. QueueTypeOK /\ UNCHANGED <<registryVars, worker, drifted, inbox, retained>>
  BY DEF OwnedInv, PipelineInv, Z2MChange, Z2MRename
<1>2. CASE z2m' # z2m
  BY <1>1, <1>2, ChangeIsPublished DEF LabelsInv, Agrees
<1>3. CASE z2m' = z2m
  <2>1. CASE \E a \in Ieee : \E n \in MayName[a] \cup {NotPaired} : Z2MChange(a, n)
    <3>1. PICK a \in Ieee : \E n \in MayName[a] \cup {NotPaired} : Z2MChange(a, n)
      BY <2>1
    <3>2. PICK n \in MayName[a] \cup {NotPaired} : Z2MChange(a, n)
      BY <3>1
    <3> QED BY <1>1, <1>3, <3>2 DEF Z2MChange, QueueTypeOK, NamesOfDevices
  <2>2. CASE Z2MRename
    <3> DEFINE r == Head(requests)
    <3>1. /\ r \in OwnRename /\ requests \in Seq(OwnRename)
          /\ requests # <<>> /\ requests' = Tail(requests)
      BY <2>2, OwnHead DEF OwnedInv, OwnedQueues, Z2MRename
    \* A request that finds its device and is refused asks for another one's name.
    <3>2. ASSUME NEW a \in Paired, r.ieee = a, r.from = z2m[a] PROVE SharesAName(a)
      <4>1. r.to \in Bears(a) /\ r.to # r.from /\ a \in Ieee /\ r.to \in Name
        BY <3>1, <3>2 DEF OwnRename, Rename, Paired
      <4>2. NameInUse(r.to)
        BY <1>3, <2>2, <3>2, <4>1 DEF Z2MRename
      <4>3. PICK b \in Paired : z2m[b] = r.to
        BY <4>2 DEF NameInUse
      <4>4. b \in Ieee /\ r.to \in Bears(b)
        BY <4>1, <4>3, PipelineAssumption DEF OwnedInv, OwnedQueues, OwnedBy, Paired
      <4> QED BY <3>2, <4>1, <4>3, <4>4 DEF SharesAName
    <3> HIDE DEF r
    <3>3. ASSUME NEW a \in Paired, RenameWaits(a) PROVE SharesAName(a) \/ RenameWaits(a)'
      <4>1. PICK q \in Rename : Waiting(q) /\ q.ieee = a /\ q.from = z2m[a]
        BY <3>3 DEF RenameWaits
      <4> SUFFICES ASSUME ~SharesAName(a) PROVE RenameWaits(a)'
        OBVIOUS
      <4>2. q # r
        BY <3>2, <4>1
      <4>3. \A i \in DOMAIN requests : requests[i] = q =>
               i - 1 \in DOMAIN requests' /\ requests'[i - 1] = q
        BY <3>1, <4>2, TailElements DEF r
      <4>4. Waiting(q)'
        BY <1>1, <4>1, <4>3 DEF Waiting
      <4> QED BY <1>3, <4>1, <4>4 DEF RenameWaits
    <3>4. \A a \in Paired : SharesAName(a) => SharesAName(a)'
      BY <1>1, SharedStays DEF Paired
    <3> QED BY <1>1, <1>3, <3>3, <3>4
        DEF LabelsInv, Agrees, Paired, Registered, IsRegistered, ListOnItsWay, IsList,
            registryVars, vars
  <2> QED BY <2>1, <2>2
<1> QED BY <1>2, <1>3

\* Device a keeps its excuse where the label, Zigbee2MQTT's name and what is waiting stay.
LEMMA AgreesFrame ==
    ASSUME NEW a \in Ieee, a \in Paired \cap Registered, LabelsInv, a \notin drifted,
           z2m' = z2m, device'[a].friendly_name = device[a].friendly_name,
           ListOnItsWay => ListOnItsWay', SharesAName(a) => SharesAName(a)',
           \A r \in Rename : Waiting(r) /\ r.ieee = a => Waiting(r)'
    PROVE  Agrees(a)'
<1>1. Agrees(a)
  BY DEF LabelsInv
<1>2. RenameWaits(a) => RenameWaits(a)'
  BY DEF RenameWaits
<1> QED BY <1>1, <1>2 DEF Agrees

LEMMA LabelsQueues ==
    ASSUME OwnedInv, LabelsInv, [PipelineNext]_pipelineVars,
           \/ Z2MMissesRename \/ Z2MPublishList \/ IdentifyReading
           \/ \E a \in Ieee : Z2MPublishReading(a)
           \/ \E carried \in BOOLEAN : ReportState(carried)
           \/ \E written \in BOOLEAN : WriteReading(written)
           \/ \E w \in Worker : RenamePublishes(w) \/ RenamePublishFails(w)
           \/ Reconnect \/ Restart
           \/ UNCHANGED pipelineVars
    PROVE  LabelsInv'
<1>1. /\ QueueTypeOK /\ UNCHANGED <<z2m, device>>
      /\ requests \in Seq(OwnRename) /\ worker \in [Worker -> OwnRename \cup {Idle}]
  BY DEF OwnedInv, OwnedQueues, PipelineInv, Z2MMissesRename, Z2MPublishList, IdentifyReading,
     Z2MPublishReading, ReportState, WriteReading, RenamePublishes, RenamePublishFails,
     Reconnect, Restart, pipelineVars, registryVars, vars
<1>2. /\ Paired' = Paired /\ Registered' = Registered /\ Paired \subseteq Ieee
      /\ drifted \subseteq drifted'
  BY <1>1 DEF Z2MMissesRename, Z2MPublishList, IdentifyReading,
     Z2MPublishReading, ReportState, WriteReading, RenamePublishes, RenamePublishFails,
     Reconnect, Restart, pipelineVars, Paired, Registered, IsRegistered
<1>3. ListOnItsWay => ListOnItsWay'
  <2>1. CASE Z2MPublishList
    BY <1>1, <2>1, ListStays DEF Z2MPublishList
  <2>2. CASE \E a \in Ieee : Z2MPublishReading(a)
    BY <1>1, <2>2, ListStays DEF Z2MPublishReading
  <2>3. CASE IdentifyReading
    BY <1>1, <2>3, ListStays DEF IdentifyReading
  <2>4. CASE Reconnect \/ Restart
    BY <1>1, <2>4, ListStays DEF Reconnect, Restart
  <2>5. CASE UNCHANGED <<inbox, retained>>
    BY <1>1, <2>5, ListStays
  <2> QED BY <2>1, <2>2, <2>3, <2>4, <2>5
      DEF Z2MMissesRename, ReportState, WriteReading, RenamePublishes, RenamePublishFails,
          pipelineVars
<1>4. ASSUME NEW a \in Ieee, a \notin drifted', NEW r \in Rename, Waiting(r), r.ieee = a
      PROVE  Waiting(r)'
  <2>1. r # Idle
    BY IdleIsNoRename
  <2>2. CASE Z2MMissesRename
    <3>1. requests # <<>> /\ requests' = Tail(requests) /\ worker' = worker
          /\ Head(requests) # r
      BY <1>4, <2>2 DEF Z2MMissesRename
    <3>2. \A i \in DOMAIN requests : requests[i] = r =>
             i - 1 \in DOMAIN requests' /\ requests'[i - 1] = r
      BY <1>1, <3>1, TailElements
    <3> QED BY <1>4, <3>1, <3>2 DEF Waiting
  <2>3. CASE \E w \in Worker : RenamePublishes(w) \/ RenamePublishFails(w)
    <3>1. PICK w \in Worker : RenamePublishes(w) \/ RenamePublishFails(w)
      BY <2>3
    <3>2. worker[w] \in OwnRename /\ worker' = [worker EXCEPT ![w] = Idle]
      BY <1>1, <3>1 DEF RenamePublishes, RenamePublishFails
    <3>3. \A v \in Worker : v # w => worker'[v] = worker[v]
      BY <1>1, <3>2
    <3>4. CASE requests' = Append(requests, worker[w])
      <4>1. /\ \A i \in DOMAIN requests : i \in DOMAIN requests' /\ requests'[i] = requests[i]
            /\ Len(requests) + 1 \in DOMAIN requests'
            /\ requests'[Len(requests) + 1] = worker[w]
        BY <1>1, <3>2, <3>4, AppendElements
      <4> QED BY <1>4, <3>3, <4>1 DEF Waiting
    <3>5. CASE requests' = requests /\ worker[w].ieee \in drifted'
      BY <1>4, <3>3, <3>5 DEF Waiting
    <3> QED BY <3>1, <3>4, <3>5 DEF RenamePublishes, RenamePublishFails
  <2>4. CASE Restart
    <3>1. PICK sent \in 0..Len(requests) :
             /\ requests' = SubSeq(requests, 1, sent)
             /\ drifted' = drifted \cup {q.ieee : q \in
                   {requests[i] : i \in (sent + 1)..Len(requests)}
                      \cup ({worker[w] : w \in Worker} \ {Idle})}
      BY <2>4 DEF Restart
    <3>2. ~\E w \in Worker : worker[w] = r
      BY <1>4, <2>1, <3>1
    <3>3. PICK i \in DOMAIN requests : requests[i] = r
      BY <1>4, <3>2 DEF Waiting
    <3>4. i \in 1..Len(requests) /\ i \notin (sent + 1)..Len(requests)
      BY <1>1, <1>4, <3>1, <3>3
    <3>5. i \in 1..sent /\ sent \in Nat /\ sent <= Len(requests)
      BY <1>1, <3>1, <3>4
    <3>6. i \in DOMAIN requests' /\ requests'[i] = r
      BY <1>1, <3>1, <3>3, <3>5
    <3> QED BY <3>6 DEF Waiting
  <2>5. CASE UNCHANGED <<requests, worker>>
    BY <1>4, <2>5 DEF Waiting
  <2> QED BY <2>2, <2>3, <2>4, <2>5
      DEF Z2MPublishList, IdentifyReading, Z2MPublishReading, ReportState, WriteReading,
          Reconnect, pipelineVars
<1>5. ASSUME NEW a \in Paired \cap Registered, a \notin drifted' PROVE Agrees(a)'
  BY <1>1, <1>2, <1>3, <1>4, <1>5, AgreesFrame, SharedStays
<1> QED BY <1>2, <1>5 DEF LabelsInv

LEMMA LabelsRegistry ==
    ASSUME OwnedInv, LastList, LabelsInv, [PipelineNext]_pipelineVars,
           \/ ConsumeDevices \/ ConsumeDevicesFails
           \/ \E w \in Worker, a \in Ieee : \E n \in MayName[a] : RenameCommits(w, a, n)
           \/ \E a \in Ieee : DeleteRequest(a)
    PROVE  LabelsInv'
<1>1. /\ QueueTypeOK /\ TypeOK /\ PipelineInv
      /\ requests \in Seq(OwnRename) /\ worker \in [Worker -> OwnRename \cup {Idle}]
      /\ z2m \in NamesOfDevices /\ UNCHANGED z2m /\ Paired' = Paired /\ Paired \subseteq Ieee
  BY DEF OwnedInv, OwnedQueues, QueueTypeOK, PipelineInv, RegistryInv, ConsumeDevices,
     ConsumeDevicesFails, RenameCommits, DeleteRequest, Paired
<1>2. CASE ConsumeDevices
  <2> SUFFICES ASSUME NEW a \in (Paired \cap Registered') \ drifted', ~ListOnItsWay'
               PROVE  device'[a].friendly_name = z2m[a]
    BY <1>1 DEF LabelsInv, Agrees
  <2>1. Head(inbox).names = z2m
    BY <1>1, <1>2, LastListConsumed DEF ConsumeDevices
  <2> QED BY <1>1, <1>2, <2>1, ConsumedLabel DEF Paired
<1>3. CASE ConsumeDevicesFails
  <2> SUFFICES ASSUME NEW a \in (Paired \cap Registered') \ drifted', ~ListOnItsWay'
               PROVE  FALSE
    BY <1>1 DEF LabelsInv, Agrees
  <2>1. Head(inbox).names = z2m
    BY <1>1, <1>3, LastListConsumed DEF ConsumeDevicesFails
  <2> QED BY <1>1, <1>3, <2>1 DEF ConsumeDevicesFails, Paired
<1>4. CASE \E w \in Worker, a \in Ieee : \E n \in MayName[a] : RenameCommits(w, a, n)
  <2>1. PICK w \in Worker, a \in Ieee : \E n \in MayName[a] : RenameCommits(w, a, n)
    BY <1>4
  <2>2. PICK n \in MayName[a] : RenameCommits(w, a, n)
    BY <2>1
  <2>3. /\ n \in Name /\ a \in Registered
        /\ UpdateDevice(a, n, Null)
        /\ device[a].friendly_name # n =>
              worker' = [worker EXCEPT ![w] =
                 [from |-> device[a].friendly_name, to |-> n, ieee |-> a]]
        /\ device[a].friendly_name = n => worker' = worker
    BY <1>1, <2>2, CommittedRename
  <2>4. /\ Registered' = Registered
        /\ \A b \in Ieee \ {a} : device'[b] = device[b]
        /\ device'[a].friendly_name = n
    BY <1>1, <2>3, RenameFacts
  <2>5. /\ worker[w] = Idle
        /\ UNCHANGED <<requests, drifted, inbox, retained, z2m>>
    BY <2>2 DEF RenameCommits
  <2>6. ASSUME NEW r \in Rename, Waiting(r) PROVE Waiting(r)'
    <3>1. r # Idle
      BY IdleIsNoRename
    <3>2. \A v \in Worker : worker[v] = r => worker'[v] = r
      BY <1>1, <2>3, <2>5, <3>1
    <3> QED BY <2>5, <2>6, <3>2 DEF Waiting
  <2>7. ListOnItsWay => ListOnItsWay'
    BY <2>5 DEF ListOnItsWay, IsList
  <2>8. ASSUME NEW b \in Paired \cap Registered, b \notin drifted PROVE Agrees(b)'
    <3>1. CASE device'[b].friendly_name = device[b].friendly_name
      BY <1>1, <2>5, <2>6, <2>7, <2>8, <3>1, AgreesFrame, SharedStays
    <3>2. CASE b = a /\ device[a].friendly_name # n
      <4>1. Agrees(a)
        BY <2>8, <3>2 DEF LabelsInv
      <4>2. RenameWaits(a) => RenameWaits(a)'
        BY <2>5, <2>6 DEF RenameWaits
      <4>3. device[a].friendly_name \in Name
        BY <1>1, <2>3, RowFacts DEF PipelineInv, RegistryInv
      <4>4. [from |-> device[a].friendly_name, to |-> n, ieee |-> a] \in Rename
        BY <2>3, <4>3 DEF Rename
      <4>5. PICK r \in Rename :
               r.ieee = a /\ r.from = device[a].friendly_name /\ worker'[w] = r
        BY <1>1, <2>3, <3>2, <4>4
      <4>6. Waiting(r)'
        BY <4>5 DEF Waiting
      <4>7. device[a].friendly_name = z2m[a] => RenameWaits(a)'
        BY <2>5, <4>5, <4>6 DEF RenameWaits
      <4>8. SharesAName(a) => SharesAName(a)'
        BY <1>1, SharedStays
      <4> QED BY <2>7, <3>2, <4>1, <4>2, <4>7, <4>8 DEF Agrees
    <3> QED BY <1>1, <2>4, <2>8, <3>1, <3>2
  <2> QED BY <1>1, <2>4, <2>5, <2>8 DEF LabelsInv
<1>5. CASE \E a \in Ieee : DeleteRequest(a)
  <2>1. PICK a \in Ieee : DeleteRequest(a)
    BY <1>5
  <2>2. Registered' = Registered \ {a} /\ \A b \in Ieee \ {a} : device'[b] = device[b]
    BY <1>1, <2>1, DeleteFacts DEF DeleteRequest
  <2>3. UNCHANGED <<requests, worker, drifted, inbox, retained, z2m>>
    BY <2>1 DEF DeleteRequest
  <2>4. /\ \A r \in Rename : Waiting(r) => Waiting(r)'
        /\ ListOnItsWay => ListOnItsWay'
    BY <2>3 DEF Waiting, ListOnItsWay, IsList
  <2>5. ASSUME NEW b \in Paired \cap Registered', b \notin drifted PROVE Agrees(b)'
    BY <1>1, <2>2, <2>3, <2>4, <2>5, AgreesFrame, SharedStays
  <2> QED BY <1>1, <2>3, <2>5 DEF LabelsInv
<1> QED BY <1>2, <1>3, <1>4, <1>5

LEMMA LabelsStep ==
    ASSUME OwnedInv, LastList, LabelsInv, [PipelineNext]_pipelineVars
    PROVE  LabelsInv'
<1>1. CASE \/ \E a \in Ieee : \E n \in MayName[a] \cup {NotPaired} : Z2MChange(a, n)
           \/ Z2MRename
  BY <1>1, LabelsZ2M
<1>2. CASE \/ Z2MMissesRename \/ Z2MPublishList \/ IdentifyReading
           \/ \E a \in Ieee : Z2MPublishReading(a)
           \/ \E carried \in BOOLEAN : ReportState(carried)
           \/ \E written \in BOOLEAN : WriteReading(written)
           \/ \E w \in Worker : RenamePublishes(w) \/ RenamePublishFails(w)
           \/ Reconnect \/ Restart
           \/ UNCHANGED pipelineVars
  BY <1>2, LabelsQueues
<1>3. CASE \/ ConsumeDevices \/ ConsumeDevicesFails
           \/ \E w \in Worker, a \in Ieee : \E n \in MayName[a] : RenameCommits(w, a, n)
           \/ \E a \in Ieee : DeleteRequest(a)
  BY <1>3, LabelsRegistry
<1> QED BY <1>1, <1>2, <1>3 DEF PipelineNext

LEMMA StartInvs == PipelineInit => LastList /\ LabelsInv
<1> SUFFICES ASSUME PipelineInit PROVE LastList /\ LabelsInv
  OBVIOUS
<1>1. inbox = <<>> /\ Paired = {}
  BY DEF PipelineInit, Paired
<1> QED BY <1>1 DEF LastList, LabelsInv

\* The label and the MQTT name of a device agree when nothing is on its way, in whatever
\* order renames in the app, renames in Zigbee2MQTT, syncs, lost sessions and restarts
\* interleave, unless a request was lost since the last list or the device has shared a name
\* with another one: for any devices, names, threads and queues.
THEOREM LabelsConverge == PipelineSpec => []LabelsAgreeWhenQuiet
<1> DEFINE I == OwnedInv /\ LastList /\ LabelsInv
<1>1. PipelineInit => I
  BY OwnedStart, StartInvs
<1>2. I /\ [PipelineNext]_pipelineVars => I'
  <2> SUFFICES ASSUME I, [PipelineNext]_pipelineVars PROVE I'
    OBVIOUS
  <2>1. QueueTypeOK
    BY DEF OwnedInv, PipelineInv
  <2> QED BY <2>1, OwnedStep, LastListStep, LabelsStep
<1>3. I => LabelsAgreeWhenQuiet
  <2> SUFFICES ASSUME OwnedInv, LabelsInv, Quiescent,
                      NEW a \in (Paired \cap Registered) \ drifted
               PROVE  device[a].friendly_name = z2m[a] \/ SharesAName(a)
    BY DEF LabelsAgreeWhenQuiet
  <2>1. Agrees(a)
    BY DEF LabelsInv
  <2>2. ~ListOnItsWay
    BY DEF Quiescent, ListOnItsWay
  <2>3. ~RenameWaits(a)
    BY IdleIsNoRename DEF Quiescent, RenameWaits, Waiting
  <2> QED BY <2>1, <2>2, <2>3 DEF Agrees
<1> HIDE DEF I
<1> QED BY <1>1, <1>2, <1>3, PTL DEF PipelineSpec

-----------------------------------------------------------------------------
(***************************************************************************)
(* Readings.                                                               *)
(***************************************************************************)
\* The history of device s is read from tag t.
Known(s, t) == s \in Registered /\ t \in TelemetryKeys(s)

\* A list that names device s t is on its way, or has yet to be sent.
Named(s, t) ==
    \/ retained # z2m /\ z2m[s] = t
    \/ \E i \in DOMAIN inbox : IsList(inbox[i]) /\ inbox[i].names[s] = t

Found(s, t) == s \in missed \/ Confused(s, t) \/ Known(s, t) \/ Named(s, t)

\* A reading of s may yet be filed under t, or is.
Trace(s, t) ==
    \/ z2m[s] = t
    \/ \E i \in DOMAIN inbox : /\ ~IsList(inbox[i])
                               /\ inbox[i].source = s /\ inbox[i].topic = t
    \/ consumer # Idle /\ consumer.source = s /\ TagOf(consumer) = t
    \/ [tag |-> t, source |-> s] \in points

ReadingsInv == \A s \in Ieee, t \in Name : Trace(s, t) => Found(s, t)

\* No step but a delete takes a tag from the history of a device, unless another one has
\* had it as its name.
LEMMA KnownStays ==
    ASSUME OwnedInv, OwnedInv', [PipelineNext]_pipelineVars,
           NEW s \in Ieee, NEW t \in Name, Known(s, t), s \in Registered'
    PROVE  Known(s, t)' \/ Confused(s, t)'
<1>1. RegistryInv /\ TypeOK /\ OwnedRegistry /\ OwnedRegistry' /\ [Next]_vars
  BY RegistryStep DEF OwnedInv, PipelineInv, RegistryInv
<1>2. s \in Registered \cap Registered' /\ t \in TelemetryKeys(s)
  BY DEF Known
<1>3. t \in Bears(s)'
  <2>1. t \in Bears(s)
    BY <1>1, <1>2, RegistryAssumption DEF TelemetryKeys, Aliases, OwnedRegistry, Bears
  <2> QED BY <2>1, BearsStays DEF OwnedInv, PipelineInv
<1>4. CASE alias'[t] \in Ieee \ {s}
  <2>1. alias'[t] # Nobody
    BY <1>4, RegistryAssumption
  <2>2. t \in borne'[alias'[t]] \cup {alias'[t]}
    BY <1>1, <2>1 DEF OwnedRegistry, Bears
  <2> QED BY <1>3, <1>4, <2>2 DEF Confused, Bears
<1>5. CASE alias'[t] \notin Ieee \ {s}
  <2>1. t \in TelemetryKeys(s)'
    BY <1>1, <1>2, <1>5, KeyKept
  <2> QED BY <1>2, <2>1 DEF Known
<1> QED BY <1>4, <1>5

\* A device leaves the registry only by being deleted.
LEMMA KnownOrMissed ==
    ASSUME OwnedInv, OwnedInv', [PipelineNext]_pipelineVars,
           NEW s \in Ieee, NEW t \in Name, Known(s, t)
    PROVE  Known(s, t)' \/ Confused(s, t)' \/ s \in missed'
<1>1. TypeOK /\ s \in Registered
  BY DEF OwnedInv, PipelineInv, RegistryInv, Known
<1>2. CASE ConsumeDevices
  <2>1. PICK list \in DeviceList : SyncDevices(list)
    BY <1>2, ConsumedList
  <2> QED BY <1>1, <2>1, SyncedRegistered, KnownStays
<1>3. CASE \E w \in Worker, a \in Ieee : \E n \in MayName[a] : RenameCommits(w, a, n)
  <2>1. PICK w \in Worker, a \in Ieee : \E n \in MayName[a] : RenameCommits(w, a, n)
    BY <1>3
  <2>2. PICK n \in MayName[a] : RenameCommits(w, a, n)
    BY <2>1
  <2>3. Registered' = Registered
    BY <1>1, <2>2, MayNameType, RenameFacts DEF RenameCommits
  <2> QED BY <1>1, <2>3, KnownStays
<1>4. CASE \E a \in Ieee : DeleteRequest(a)
  <2>1. PICK a \in Ieee : DeleteRequest(a)
    BY <1>4
  <2>2. Registered' = Registered \ {a} /\ missed' = missed \cup {a}
    BY <1>1, <2>1, DeleteFacts DEF DeleteRequest
  <2> QED BY <1>1, <2>2, KnownStays
<1>5. CASE UNCHANGED device
  <2>1. s \in Registered'
    BY <1>1, <1>5 DEF Registered, IsRegistered
  <2> QED BY <2>1, KnownStays
<1> QED BY <1>2, <1>3, <1>4, <1>5
    DEF PipelineNext, Z2MChange, Z2MRename, Z2MMissesRename, Z2MPublishList,
        Z2MPublishReading, ConsumeDevicesFails, IdentifyReading, ReportState, WriteReading,
        RenamePublishes, RenamePublishFails, Reconnect, Restart, pipelineVars, registryVars,
        vars

LEMMA MissedGrows == [PipelineNext]_pipelineVars => missed \subseteq missed'
BY DEF PipelineNext, Z2MChange, Z2MRename, Z2MMissesRename, Z2MPublishList,
       Z2MPublishReading, ConsumeDevices, ConsumeDevicesFails, IdentifyReading, ReportState,
       WriteReading, RenameCommits, RenamePublishes, RenamePublishFails, DeleteRequest,
       Reconnect, Restart, pipelineVars

\* A name in a list on its way is recorded when the list is consumed, and comes again with
\* the retained list when the session is lost; else the device counts as missed.
LEMMA NamedStays ==
    ASSUME OwnedInv, [PipelineNext]_pipelineVars, NEW s \in Ieee, NEW t \in Name, Named(s, t)
    PROVE  Found(s, t)'
<1>1. QueueTypeOK /\ inbox \in Seq(Message) /\ PipelineInv /\ missed \subseteq missed'
  BY MissedGrows DEF OwnedInv, PipelineInv, QueueTypeOK
<1>2. CASE retained # z2m /\ z2m[s] = t
  <2>1. z2m' = z2m
    BY <1>2 DEF PipelineNext, Z2MChange, Z2MRename, Z2MMissesRename, Z2MPublishList,
       Z2MPublishReading, ConsumeDevices, ConsumeDevicesFails, IdentifyReading, ReportState,
       WriteReading, RenameCommits, RenamePublishes, RenamePublishFails, DeleteRequest,
       Reconnect, Restart, pipelineVars
  <2>2. CASE retained' = retained
    BY <1>2, <2>1, <2>2 DEF Found, Named
  <2>3. CASE inbox' = Append(inbox, ListMessage(z2m))
    <3>1. /\ ListMessage(z2m) \in Message /\ IsList(ListMessage(z2m))
          /\ ListMessage(z2m).names = z2m
      BY <1>1, ListMessageType DEF QueueTypeOK, ListMessage
    <3>2. Len(inbox) + 1 \in DOMAIN inbox' /\ inbox'[Len(inbox) + 1] = ListMessage(z2m)
      BY <1>1, <2>3, <3>1, AppendElements
    <3>3. Named(s, t)'
      BY <1>2, <3>1, <3>2 DEF Named, IsList
    <3> QED BY <3>3 DEF Found
  <2> QED BY <1>1, <2>2, <2>3, InboxStep
<1>3. ASSUME NEW i \in DOMAIN inbox, IsList(inbox[i]), inbox[i].names[s] = t
      PROVE  Found(s, t)'
  <2>1. ASSUME NEW j \in DOMAIN inbox', inbox'[j] = inbox[i] PROVE Found(s, t)'
    BY <1>3, <2>1 DEF Found, Named, IsList
  <2>2. CASE inbox' = inbox
    BY <2>1, <2>2
  <2>3. CASE \/ inbox' = Append(inbox, ListMessage(z2m))
             \/ \E a \in Paired : inbox' = Append(inbox, Reading(a))
    <3>1. PICK m \in Message : inbox' = Append(inbox, m)
      BY <1>1, <2>3, ListMessageType, ReadingType DEF QueueTypeOK, Paired
    <3> QED BY <1>1, <2>1, <3>1, AppendElements
  <2>4. CASE /\ inbox # <<>> /\ inbox' = Tail(inbox)
             /\ ConsumeDevices \/ ConsumeDevicesFails \/ ~IsList(Head(inbox))
    <3>1. CASE i = 1 /\ inbox[i] = Head(inbox)
      <4>1. t # NotPaired
        BY PipelineAssumption
      <4>2. CASE ConsumeDevices
        <5>1. Known(s, t)'
          BY <1>1, <1>3, <3>1, <4>1, <4>2, ConsumedLabel DEF Known, TelemetryKeys
        <5> QED BY <5>1 DEF Found
      <4>3. CASE ConsumeDevicesFails
        BY <1>3, <3>1, <4>1, <4>3 DEF ConsumeDevicesFails, Found
      <4> QED BY <1>3, <2>4, <3>1, <4>2, <4>3
    <3>2. CASE i - 1 \in DOMAIN Tail(inbox) /\ Tail(inbox)[i - 1] = inbox[i]
      BY <2>1, <2>4, <3>2
    <3> QED BY <1>1, <2>4, <3>1, <3>2, TailElements
  <2>5. CASE Reconnect \/ Restart
    <3>1. inbox' = <<ListMessage(retained)>> /\ missed' = missed \cup Superseded
      BY <2>5 DEF Reconnect, Restart
    <3>2. CASE retained[s] = t
      BY <3>1, <3>2 DEF Found, Named, ListMessage, IsList
    <3>3. CASE retained[s] # t
      BY <1>3, <3>1, <3>3, PipelineAssumption DEF Superseded, Found
    <3> QED BY <3>2, <3>3
  <2> QED BY <1>1, <2>2, <2>3, <2>4, <2>5, InboxStep
<1> QED BY <1>2, <1>3 DEF Named

LEMMA FoundStays ==
    ASSUME OwnedInv, OwnedInv', [PipelineNext]_pipelineVars,
           NEW s \in Ieee, NEW t \in Name, Found(s, t)
    PROVE  Found(s, t)'
<1>1. Confused(s, t) => Confused(s, t)'
  BY SharedStays DEF OwnedInv, PipelineInv
<1> QED BY <1>1, KnownOrMissed, MissedGrows, NamedStays DEF Found

\* A trace is new only where it was found before the step, or is found after it.
LEMMA TraceStep ==
    ASSUME OwnedInv, [PipelineNext]_pipelineVars,
           NEW s \in Ieee, NEW t \in Name, Trace(s, t)'
    PROVE  Trace(s, t) \/ Found(s, t) \/ Found(s, t)'
<1>1. QueueTypeOK /\ OwnedQueues /\ inbox \in Seq(Message)
  BY DEF OwnedInv, PipelineInv, QueueTypeOK
<1>2. CASE z2m'[s] = t /\ z2m[s] # t
  <2>1. ListOnItsWay' /\ retained' # z2m'
    BY <1>2 DEF PipelineNext, Z2MChange, Z2MRename, Z2MMissesRename, Z2MPublishList,
       Z2MPublishReading, ConsumeDevices, ConsumeDevicesFails, IdentifyReading, ReportState,
       WriteReading, RenameCommits, RenamePublishes, RenamePublishFails, DeleteRequest,
       Reconnect, Restart, pipelineVars, ListOnItsWay
  <2> QED BY <1>2, <2>1 DEF Found, Named
<1>3. ASSUME NEW i \in DOMAIN inbox', ~IsList(inbox'[i]),
             inbox'[i].source = s, inbox'[i].topic = t
      PROVE  Trace(s, t)
  <2>1. ASSUME NEW j \in DOMAIN inbox, inbox[j] = inbox'[i] PROVE Trace(s, t)
    BY <1>3, <2>1 DEF Trace, IsList
  <2>2. CASE inbox' = inbox
    BY <2>1, <2>2
  <2>3. CASE inbox' = Append(inbox, ListMessage(z2m))
    <3>1. ListMessage(z2m) \in Message /\ IsList(ListMessage(z2m))
      BY <1>1, ListMessageType DEF QueueTypeOK
    <3>2. i \in DOMAIN inbox
      BY <1>1, <1>3, <2>3, <3>1, AppendElements DEF IsList
    <3> QED BY <1>1, <2>1, <2>3, <3>1, <3>2, AppendElements
  <2>4. CASE \E a \in Paired : inbox' = Append(inbox, Reading(a))
    <3>1. PICK a \in Paired : inbox' = Append(inbox, Reading(a))
      BY <2>4
    <3>2. Reading(a) \in Message
      BY <1>1, ReadingType DEF Paired
    <3>3. CASE i \in DOMAIN inbox
      BY <1>1, <2>1, <3>1, <3>2, <3>3, AppendElements
    <3>4. CASE i = Len(inbox) + 1
      BY <1>1, <1>3, <3>1, <3>2, <3>4, AppendElements DEF Reading, Trace
    <3> QED BY <1>1, <1>3, <3>1, <3>2, <3>3, <3>4, AppendElements
  <2>5. CASE inbox # <<>> /\ inbox' = Tail(inbox)
    BY <1>1, <1>3, <2>1, <2>5, TailElements
  <2>6. CASE inbox' = <<ListMessage(retained)>>
    BY <1>3, <2>6 DEF ListMessage, IsList
  <2> QED BY <1>1, <2>2, <2>3, <2>4, <2>5, <2>6, InboxStep
<1>4. CASE consumer' # Idle /\ consumer'.source = s /\ TagOf(consumer)' = t
  <2>1. CASE IdentifyReading
    <3> DEFINE m == Head(inbox)
    <3>1. /\ inbox # <<>> /\ ~IsList(m) /\ m.source \in Ieee /\ m.topic \in Bears(m.source)
          /\ m = inbox[1] /\ 1 \in DOMAIN inbox
      BY <1>1, <2>1, HeadMessage, OwnHead, TailElements DEF IdentifyReading, OwnMessage
    <3>2. /\ consumer'.source = m.source /\ consumer'.topic = m.topic
          /\ consumer'.identity \in {Resolve(m.topic), Nobody}
      BY <2>1 DEF IdentifyReading
    <3>3. CASE consumer'.identity = Nobody
      BY <1>4, <3>1, <3>2, <3>3 DEF TagOf, Trace
    <3>4. CASE consumer'.identity # Nobody
      <4>1. /\ t = Resolve(m.topic) /\ t # Nobody
            /\ m.topic \in Bears(s) /\ m.source = s
        BY <1>4, <3>1, <3>2, <3>4 DEF TagOf
      <4>2. t \in Registered /\ t \in Ieee /\ m.topic \in Bears(t)
        BY <4>1, OwnTopic
      <4>3. CASE t = s
        BY <4>2, <4>3 DEF Found, Known, TelemetryKeys
      <4>4. CASE t # s
        BY <4>1, <4>2, <4>4 DEF Found, Confused, Bears
      <4> QED BY <4>3, <4>4
    <3> QED BY <3>3, <3>4
  <2>2. CASE \E carried \in BOOLEAN : ReportState(carried)
    <3>1. PICK carried \in BOOLEAN : ReportState(carried)
      BY <2>2
    <3>2. consumer \in InHand /\ consumer # Idle
      BY <1>1, <3>1 DEF ReportState, QueueTypeOK
    <3>3. /\ consumer'.source = consumer.source /\ consumer'.topic = consumer.topic
          /\ consumer'.identity = consumer.identity
      BY <3>1, <3>2 DEF ReportState, InHand
    <3> QED BY <1>4, <3>2, <3>3 DEF Trace, TagOf
  <2>3. CASE consumer' = consumer
    BY <1>4, <2>3 DEF Trace, TagOf
  <2> QED BY <1>4, <2>1, <2>2, <2>3
      DEF PipelineNext, Z2MChange, Z2MRename, Z2MMissesRename, Z2MPublishList,
          Z2MPublishReading, ConsumeDevices, ConsumeDevicesFails, WriteReading, RenameCommits,
          RenamePublishes, RenamePublishFails, DeleteRequest, Reconnect, Restart, pipelineVars
<1>5. CASE [tag |-> t, source |-> s] \in points'
  <2>1. CASE points' = points
    BY <1>5, <2>1 DEF Trace
  <2>2. CASE \E written \in BOOLEAN : WriteReading(written)
    <3>1. [tag |-> t, source |-> s] \notin points =>
             /\ consumer # Idle
             /\ [tag |-> t, source |-> s] = [tag |-> TagOf(consumer), source |-> consumer.source]
      BY <1>5, <2>2 DEF WriteReading
    <3> QED BY <3>1 DEF Trace
  <2> QED BY <2>1, <2>2
      DEF PipelineNext, Z2MChange, Z2MRename, Z2MMissesRename, Z2MPublishList,
          Z2MPublishReading, ConsumeDevices, ConsumeDevicesFails, IdentifyReading, ReportState,
          RenameCommits, RenamePublishes, RenamePublishFails, DeleteRequest, Reconnect,
          Restart, pipelineVars
<1> QED BY <1>2, <1>3, <1>4, <1>5 DEF Trace, IsList

LEMMA ReadingsStep ==
    ASSUME OwnedInv, OwnedInv', ReadingsInv, [PipelineNext]_pipelineVars
    PROVE  ReadingsInv'
<1>1. ASSUME NEW s \in Ieee, NEW t \in Name, Trace(s, t)' PROVE Found(s, t)'
  BY <1>1, TraceStep, FoundStays DEF ReadingsInv
<1> QED BY <1>1 DEF ReadingsInv

LEMMA ReadingsStart == PipelineInit => ReadingsInv
<1> SUFFICES ASSUME PipelineInit, NEW s \in Ieee, NEW t \in Name PROVE ~Trace(s, t)
  BY DEF ReadingsInv
<1> QED BY PipelineAssumption DEF PipelineInit, Trace

\* Every stored reading is found by asking for its device, unless the list that names it is
\* still on its way, the device was deleted, a list that names it failed or was skipped, or
\* the reading is filed under the address or a name of a device that has had a name of this
\* one: for any devices, names, threads, queues and orders of events.
THEOREM ReadingsAreFound == PipelineSpec => []NoOrphanedReadings
<1> DEFINE I == OwnedInv /\ ReadingsInv
<1>1. PipelineInit => I
  BY OwnedStart, ReadingsStart
<1>2. I /\ [PipelineNext]_pipelineVars => I'
  <2> SUFFICES ASSUME I, [PipelineNext]_pipelineVars PROVE I'
    OBVIOUS
  <2>1. OwnedInv'
    BY OwnedStep
  <2> QED BY <2>1, ReadingsStep
<1>3. I => NoOrphanedReadings
  <2> SUFFICES ASSUME OwnedInv, ReadingsInv, NEW p \in points, p.source \notin missed,
                      ~Confused(p.source, p.tag), ~ListOnItsWay
               PROVE  p.source \in Registered /\ p.tag \in QueryKeys(p.source)
    BY DEF NoOrphanedReadings
  <2>1. p.source \in Ieee /\ p.tag \in Name /\ p = [tag |-> p.tag, source |-> p.source]
    BY DEF OwnedInv, PipelineInv, QueueTypeOK
  <2>2. Trace(p.source, p.tag)
    BY <2>1 DEF Trace
  <2>3. Found(p.source, p.tag)
    BY <2>1, <2>2 DEF ReadingsInv
  <2>4. Known(p.source, p.tag)
    BY <2>3 DEF Found, Named, ListOnItsWay
  <2>5. Resolve(p.source) = p.source /\ p.source # Nobody
    BY <2>1, <2>4, RegistryAssumption DEF Known, Resolve
  <2> QED BY <2>4, <2>5 DEF Known, QueryKeys
<1> HIDE DEF I
<1> QED BY <1>1, <1>2, <1>3, PTL DEF PipelineSpec
=============================================================================
