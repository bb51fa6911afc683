--------------------------- MODULE DeviceRegistry ---------------------------
(***************************************************************************)
(* The device registry of backend-python: the `device` and `device_alias`  *)
(* tables of schema.sql, and the service methods that write them           *)
(* (app/device/service.py).  A device is known by its immutable ieee       *)
(* address; friendly_name is a label anyone may change, and every label it *)
(* has carried is kept as an alias, so that an MQTT topic named after an   *)
(* old label still resolves.                                               *)
(*                                                                         *)
(* Each service method runs in one database transaction and is one action  *)
(* here; TelemetryPipeline interleaves them with the MQTT consumers.       *)
(***************************************************************************)
EXTENDS Integers, Sequences, FiniteSets

CONSTANTS
    Ieee,          \* hardware addresses
    Name,          \* non-blank names; Z2M's default name of a device is its address
    Type,          \* DeviceType
    DerivedType,   \* DerivedType[a]: what determine_type makes of a's Z2M description
    Null,          \* a request that names no type
    Nobody,        \* the claimant of a name that is in no alias row
    NotRegistered, \* the row of a device that is not in the table
    MaxId          \* bound: the ids the `device` sequence hands out

ASSUME RegistryAssumption ==
    /\ Ieee \subseteq Name
    /\ IsFiniteSet(Ieee)
    /\ DerivedType \in [Ieee -> Type]
    /\ Null \notin Type
    /\ Nobody \notin Ieee
    /\ MaxId \in Nat

VARIABLES
    device,   \* device[a]: the row with ieee_address a, or NotRegistered
    alias,    \* alias[n]: the ieee_address of the alias row for n, or Nobody
    nextId    \* the next value of the id sequence

vars == <<device, alias, nextId>>

Row == [id : 1..MaxId, friendly_name : Name, type : Type, available : BOOLEAN]

\* A row is a record and NotRegistered is not.
ASSUME RowAssumption == NotRegistered \notin Row

\* One entry of zigbee2mqtt/bridge/devices: the fields the registry reads.
Payload == [ieee_address : Ieee, friendly_name : Name]

\* Zigbee2MQTT lists each paired device once, and its names are unique.
DeviceList ==
    {list \in UNION {[1..k -> Payload] : k \in 0..Cardinality(Ieee)} :
        \A i, j \in DOMAIN list : i # j =>
            /\ list[i].ieee_address # list[j].ieee_address
            /\ list[i].friendly_name # list[j].friendly_name}

IsRegistered(a) == device[a] # NotRegistered

Registered == {a \in Ieee : IsRegistered(a)}

(***************************************************************************)
(* Resolving a topic name, an address or a former name to a device.        *)
(***************************************************************************)
Labelled(n) == {a \in Registered : device[a].friendly_name = n}

\* friendly_name is not unique in the schema: the lowest id wins.
FindByFriendlyName(n) ==
    CHOOSE a \in Labelled(n) : \A b \in Labelled(n) : device[a].id <= device[b].id

\* Fault: the alias table is asked before the labels.
FaultAliasBeforeLabel(n) ==
    IF n \in Registered THEN n
    ELSE IF alias[n] # Nobody \/ Labelled(n) = {} THEN alias[n]
    ELSE FindByFriendlyName(n)

\* The address first, then a current label, then an alias.
Resolve(n) ==
    IF n \in Registered THEN n
    ELSE IF Labelled(n) # {} THEN FindByFriendlyName(n)
    ELSE alias[n]

Aliases(a) == {n \in Name : alias[n] = a}

\* Fault: the history of a device is read under its current names alone.
FaultCurrentNamesOnly(a) == {a, device[a].friendly_name}

\* Every InfluxDB device_id tag the history of a registered device is read from.
TelemetryKeys(a) == {a, device[a].friendly_name} \cup Aliases(a)

(***************************************************************************)
(* sync_devices: one pass over the list Zigbee2MQTT publishes.  The        *)
(* entries of a list are distinct devices, so what an entry sees of its    *)
(* own row is what the row held before the pass; what it sees of the       *)
(* aliases is what the entries before it left.                             *)
(***************************************************************************)
Listed(list) == {list[i].ieee_address : i \in DOMAIN list}

EntryOf(list, a) == CHOOSE i \in DOMAIN list : list[i].ieee_address = a

FirstSeen(list) == {j \in DOMAIN list : ~IsRegistered(list[j].ieee_address)}

FirstSeenBefore(list, i) == {j \in FirstSeen(list) : j < i}

\* z2m_mapper.to_entity: a device seen for the first time starts as available.
ToEntity(payload, id) ==
    [id |-> id, friendly_name |-> payload.friendly_name,
     type |-> DerivedType[payload.ieee_address], available |-> TRUE]

\* Fault: a listed device is replaced by a fresh row, with a fresh id.
FaultRowReplaced(payload, row) == ToEntity(payload, nextId)

\* Fault: a listed device is taken to be online.
FaultListedMeansOnline(payload, row) ==
    [row EXCEPT !.friendly_name = payload.friendly_name,
                !.type = DerivedType[payload.ieee_address], !.available = TRUE]

\* Fault: the label someone chose in the app survives a sync.
FaultLabelKept(payload, row) == [row EXCEPT !.type = DerivedType[payload.ieee_address]]

\* z2m_mapper.update_entity_from_payload: availability belongs to another topic.
UpdateEntityFromPayload(payload, row) ==
    [row EXCEPT !.friendly_name = payload.friendly_name,
                !.type = DerivedType[payload.ieee_address]]

SyncedRow(list, i) ==
    LET a == list[i].ieee_address IN
    IF IsRegistered(a)
    THEN UpdateEntityFromPayload(list[i], device[a])
    ELSE ToEntity(list[i], nextId + Cardinality(FirstSeenBefore(list, i)))

\* mark_unavailable_not_in; an empty list names every row.
MarkUnavailable(a) ==
    IF IsRegistered(a) THEN [device[a] EXCEPT !.available = FALSE] ELSE device[a]

SyncedDevice(list) ==
    [a \in Ieee |-> IF a \in Listed(list) THEN SyncedRow(list, EntryOf(list, a))
                    ELSE MarkUnavailable(a)]

\* Fault: a sync forgets the label it overwrites.
FaultOldLabelForgotten(list, i) == {list[i].friendly_name}

\* Fault: the name of a device seen for the first time is not recorded.
FaultFirstNameForgotten(list, i) ==
    LET a == list[i].ieee_address IN
    IF IsRegistered(a) THEN {list[i].friendly_name, device[a].friendly_name} ELSE {}

\* The names entry i has recorded: its new label and, when it differs, the old one.
Recorded(list, i) ==
    LET a == list[i].ieee_address IN
    {list[i].friendly_name}
        \cup (IF IsRegistered(a) THEN {device[a].friendly_name} ELSE {})

\* add_alias, ON CONFLICT DO NOTHING: a free name goes to the first entry that
\* records it, and a name that is taken stays with whoever holds it.
SyncedAlias(list) ==
    [n \in Name |->
        LET claimants == {i \in DOMAIN list : n \in Recorded(list, i)} IN
        IF alias[n] # Nobody \/ claimants = {} THEN alias[n]
        ELSE list[CHOOSE i \in claimants : \A j \in claimants : i <= j].ieee_address]

\* Fault: the id of a row that was deleted is handed out again.
FaultIdsCountRows(list) == 1 + Cardinality(Registered \cup Listed(list))

SyncedNextId(list) == nextId + Cardinality(FirstSeen(list))

SyncDevices(list) ==
    /\ nextId' = SyncedNextId(list)
    /\ nextId' <= MaxId + 1
    /\ alias' = SyncedAlias(list)
    /\ device' = SyncedDevice(list)

(***************************************************************************)
(* The REST handlers and the availability consumer.                        *)
(***************************************************************************)
\* Fault: ON CONFLICT DO UPDATE, the last claimant wins.
FaultLastClaimantWins(names, a) ==
    [n \in Name |-> IF n \in names THEN a ELSE alias[n]]

\* _remember_name for each of `names`, all for device a.
RememberNames(names, a) ==
    [n \in Name |-> IF n \in names /\ alias[n] = Nobody THEN a ELSE alias[n]]

\* The transaction of PUT /api/devices/{id}.  A type of Null leaves the type alone.
UpdateDevice(a, friendlyName, type) ==
    /\ a \in Registered
    /\ device' = [device EXCEPT ![a].friendly_name = friendlyName,
                                ![a].type = IF type = Null THEN @ ELSE type]
    /\ alias' = IF device[a].friendly_name # friendlyName
                THEN RememberNames({device[a].friendly_name, friendlyName}, a)
                ELSE alias
    /\ UNCHANGED nextId

\* DELETE /api/devices/{id}; device_alias has ON DELETE CASCADE.
DeleteDevice(a) ==
    /\ a \in Registered
    /\ device' = [device EXCEPT ![a] = NotRegistered]
    /\ alias' = [n \in Name |-> IF alias[n] = a THEN Nobody ELSE alias[n]]
    /\ UNCHANGED nextId

\* An availability message for topic n; an unknown name is ignored.
UpdateAvailability(n, online) ==
    /\ Resolve(n) # Nobody
    /\ device' = [device EXCEPT ![Resolve(n)].available = online]
    /\ UNCHANGED <<alias, nextId>>

Init ==
    /\ device = [a \in Ieee |-> NotRegistered]
    /\ alias = [n \in Name |-> Nobody]
    /\ nextId = 1

Next ==
    \/ \E list \in DeviceList : SyncDevices(list)
    \/ \E a \in Ieee, n \in Name, t \in Type \cup {Null} : UpdateDevice(a, n, t)
    \/ \E a \in Ieee : DeleteDevice(a)
    \/ \E n \in Name, online \in BOOLEAN : UpdateAvailability(n, online)

Spec == Init /\ [][Next]_vars

(***************************************************************************)
(* Properties.                                                             *)
(***************************************************************************)
\* Rows, aliases and ids have the types schema.sql gives them, and every id in
\* use was handed out by the sequence.
TypeOK ==
    /\ device \in [Ieee -> Row \cup {NotRegistered}]
    /\ alias \in [Name -> Ieee \cup {Nobody}]
    /\ nextId \in 1..(MaxId + 1)
    /\ \A a \in Registered : device[a].id < nextId

\* The registry implements the ledger of names: claims point at rows that exist,
\* never pass from one device to another, and end only with the device's row.
Ledger == INSTANCE NameLedger WITH members <- Registered, claim <- alias
LedgerSpec == Ledger!Spec

\* Renames, in the app or in Zigbee2MQTT, never cut a device off from readings
\* filed under one of its names: a tag leaves the set its history is read from
\* only when the name is recorded as another device's.
HistoryKeysAreKept ==
    [][\A a \in Registered \cap Registered' : \A n \in TelemetryKeys(a) :
          n \in TelemetryKeys(a)' \/ alias'[n] \in Ieee \ {a}]_vars

\* A topic passes from one device to another only when the new device has just
\* been given the name (or the address) or the old one has just lost it; deletes,
\* syncs and renames that concern other names never reroute it.
TopicsChangeHandsOnlyByRelabelling ==
    [][\A n \in Name :
          LET old == Resolve(n)
              new == Resolve(n)'
          IN  old # Nobody /\ new # Nobody /\ old # new =>
                \/ new \in Labelled(n)' \ Labelled(n)
                \/ new = n
                \/ old \notin Registered'
                \/ old \in Labelled(n) \ Labelled(n)']_vars

\* The retained list is delivered again on every reconnect, and QoS 1 may deliver
\* it twice: a second pass over the same list finds nothing to do.
UpToDateWith(list) ==
    /\ Listed(list) \subseteq Registered
    /\ SyncedDevice(list) = device
    /\ SyncedAlias(list) = alias
SyncIsIdempotent ==
    [][\A list \in DeviceList : SyncDevices(list) => UpToDateWith(list)']_vars

\* After a sync the names in the list route to their devices: never to another
\* device of the list, whatever aliases were recorded before, unless the name is
\* that other device's address.
SyncRoutesListedNames ==
    [][\A list \in DeviceList : SyncDevices(list) =>
          \A i \in DOMAIN list :
             LET target == Resolve(list[i].friendly_name)' IN
             \/ target = list[i].ieee_address
             \/ target = list[i].friendly_name
             \/ target \notin Listed(list)]_vars

\* Availability is owned by the availability topic: neither a sync nor a rename
\* brings a registered device back online.
OnlyAvailabilityBringsOnline ==
    [][\A a \in Registered \cap Registered' :
          ~device[a].available /\ device'[a].available =>
             \E n \in Name : UpdateAvailability(n, TRUE)]_vars
=============================================================================
