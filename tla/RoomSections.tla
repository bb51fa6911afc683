---------------------------- MODULE RoomSections ----------------------------
(***************************************************************************)
(* The history sections of a room (frontend/src/modules/home/pages/        *)
(* RoomDetailPage.tsx and components/RoomHistorySections.tsx): the page    *)
(* polls the devices, the sections poll the latest values of those devices *)
(* in one request, whose answers are matched to the devices by position.   *)
(***************************************************************************)
EXTENDS Integers, Sequences, FiniteSets, SequencesExt

CONSTANTS
    MaxDevice,   \* devices have the ids 1..MaxDevice
    InRoom,      \* the devices of the room
    FieldsOf,    \* per device: the kinds of section its values are good for
    NoRequest,   \* no answer under way
    NoLatest,    \* null: no values for the device
    MaxMoves     \* bound: registrations, removals and polls

ASSUME SectionsAssumption ==
    InRoom \subseteq 1..MaxDevice /\ MaxMoves \in Nat /\ NoLatest \notin 1..MaxDevice

VARIABLES
    registered,   \* the server: the devices it knows
    readingsSent, \* the newest answer with the devices that is under way
    roomDevices,  \* the devices of the room that the page has, by id
    latestSent,   \* the newest request for values, or none: the devices it asks for
    latestByDevice, \* its answers: the device each value is of, or NoLatest
    moves

sectionVars == <<registered, readingsSent, roomDevices, latestSent, latestByDevice, moves>>

Move == moves < MaxMoves /\ moves' = moves + 1

\* A device is paired with the Zigbee network, or leaves it.
Register(d) ==
    /\ Move
    /\ registered' = (registered \ {d}) \cup ({d} \ registered)
    /\ UNCHANGED <<readingsSent, roomDevices, latestSent, latestByDevice>>

\* getDeviceReadings, for the poll of the page.
ReadingsServed ==
    /\ Move
    /\ readingsSent' = registered
    /\ UNCHANGED <<registered, roomDevices, latestSent, latestByDevice>>

\* Fault: the values are asked for again when the number of devices has changed.
FaultRekeyed(ds) == Len(ds) # Len(roomDevices)

\* The key of the poll for the values.
Rekeyed(ds) == ds # roomDevices

DevicesArrive ==
    /\ readingsSent # NoRequest
    /\ LET ds == SetToSortSeq(readingsSent \cap InRoom, <)
       IN  /\ latestSent' = IF Rekeyed(ds) THEN {ds} ELSE latestSent
           /\ roomDevices' = ds
    /\ readingsSent' = NoRequest
    /\ UNCHANGED <<registered, latestByDevice, moves>>

\* useDeviceLatest, by its interval.
PollLatest ==
    /\ Move
    /\ latestSent' = {roomDevices}
    /\ UNCHANGED <<registered, readingsSent, roomDevices, latestByDevice>>

\* A request that fails is a null among the answers, the others count.
ValuesArrive ==
    /\ \E ds \in latestSent : \E failed \in SUBSET DOMAIN ds :
           latestByDevice' = [i \in DOMAIN ds |-> IF i \in failed THEN NoLatest ELSE ds[i]]
    /\ latestSent' = {}
    /\ UNCHANGED <<registered, readingsSent, roomDevices, moves>>

\* A section for every kind of value the device at that position has an answer for.
LatestAt(i) == IF i \in DOMAIN latestByDevice THEN latestByDevice[i] ELSE NoLatest

Sections ==
    {s \in [device : InRoom, latest : InRoom, kind : UNION {FieldsOf[d] : d \in InRoom}] :
        \E i \in DOMAIN roomDevices :
            s.device = roomDevices[i] /\ s.latest = LatestAt(i) /\ s.kind \in FieldsOf[s.latest]}

SectionsInit ==
    /\ registered = InRoom /\ readingsSent = NoRequest
    /\ roomDevices = <<>> /\ latestSent = {} /\ latestByDevice = <<>> /\ moves = 0

SectionsNext ==
    \/ \E d \in 1..MaxDevice : Register(d)
    \/ ReadingsServed \/ DevicesArrive \/ PollLatest \/ ValuesArrive

SectionsSpec == SectionsInit /\ [][SectionsNext]_sectionVars

(***************************************************************************)
(* Properties.                                                             *)
(***************************************************************************)
\* A section shows the values of the device it is headed with, whatever devices have come and
\* gone, as soon as the request for the values has been answered: until then an answer for
\* other devices is matched to those of the page by position.
SectionsMeanTheirDevice == latestSent = {} => \A s \in Sections : s.latest = s.device
=============================================================================
