------------------------- MODULE TelemetryPipeline --------------------------
(***************************************************************************)
(* The registry at work.  Zigbee2MQTT publishes the device list and the    *)
(* readings under the names it knows; the backend's single MQTT thread     *)
(* consumes them in order, one message in several transactions             *)
(* (app/mqtt/consumers.py); REST threads rename and delete devices in      *)
(* between and pass renames on to Zigbee2MQTT, best effort                 *)
(* (DeviceService._request_z2m_rename); InfluxDB keeps every reading under *)
(* the tag the consumer chose, and a query unions the tags of a device     *)
(* (app/telemetry/router.py).                                              *)
(*                                                                         *)
(* A reading carries the device it came from, which the code never sees:   *)
(* it is what the properties compare the filing with.                      *)
(***************************************************************************)
EXTENDS DeviceRegistry

CONSTANTS
    Worker,     \* REST threads
    MayName,    \* MayName[a]: the names people and Zigbee2MQTT give device a
    Idle,       \* a worker or consumer with nothing in hand
    NotPaired,  \* the Z2M name of a device outside the Zigbee network
    MaxInputs,  \* bound: outside events (renames, pairings, readings, faults ...)
    MaxInbox    \* bound: messages on their way to the backend

ASSUME PipelineAssumption ==
    /\ MayName \in [Ieee -> SUBSET Name]
    /\ NotPaired \notin Name
    /\ Idle \notin [from : Name, to : Name, ieee : Ieee]
    /\ MaxInputs \in Nat /\ MaxInbox \in Nat

VARIABLES
    z2m,       \* z2m[a]: the name Zigbee2MQTT publishes device a under
    retained,  \* the device list retained on bridge/devices
    inbox,     \* messages delivered to the MQTT thread, oldest first
    consumer,  \* the reading the MQTT thread is working on, or Idle
    worker,    \* worker[w]: the rename committed but not yet published, or Idle
    requests,  \* rename requests on their way to Zigbee2MQTT
    reported,  \* reported[a]: whose state the row's `state` column holds, or Null
    points,    \* InfluxDB: each reading's device_id tag and its source
    inputs,    \* how many outside events there have been
    missed,    \* history: devices that were deleted, or named in a list that failed or
               \* that a later list took the place of before it was delivered
    drifted,   \* history: devices whose label was left to differ from Z2M's name
    borne      \* history: borne[a], the names device a has had, as its Z2M name or label

registryVars == vars
pipelineVars == <<device, alias, nextId, z2m, retained, inbox, consumer, worker,
                  requests, reported, points, inputs, missed, drifted, borne>>

Paired == {a \in Ieee : z2m[a] # NotPaired}

ListMessage(names) == [kind |-> "devices", names |-> names]
Reading(a) == [kind |-> "reading", topic |-> z2m[a], source |-> a]

IsList(m) == m.kind = "devices"

\* The tags the history of identifier x is read from: an identifier that resolves
\* to no device is queried as it is.
QueryKeys(x) == IF Resolve(x) # Nobody THEN TelemetryKeys(Resolve(x)) ELSE {x}

Input ==
    /\ inputs < MaxInputs
    /\ inputs' = inputs + 1

(***************************************************************************)
(* Zigbee2MQTT.                                                            *)
(***************************************************************************)
NameInUse(n) == \E a \in Paired : z2m[a] = n

\* The names the devices have had, after a change of z2m.
NamesBorne == [a \in Ieee |-> borne[a] \cup ({z2m'[a]} \ {NotPaired})]

\* A device joins, leaves, or is renamed by hand; the new list follows.  Z2M
\* deals with one event at a time, so the list is out before the next change.
Z2MChange(a, n) ==
    /\ Input
    /\ retained = z2m
    /\ n # z2m[a]
    /\ \/ n = NotPaired
       \/ n \in MayName[a] /\ ~NameInUse(n)
    /\ z2m' = [z2m EXCEPT ![a] = n]
    /\ borne' = NamesBorne
    /\ UNCHANGED <<registryVars, retained, inbox, consumer, worker, requests,
                   reported, points, missed, drifted>>

\* A rename request names a device by what it is called, not by who it is.  It is
\* refused when no device has the old name or another one has the new name.
Z2MRename ==
    /\ requests # <<>>
    /\ retained = z2m
    /\ LET r == Head(requests)
           named == {b \in Paired : z2m[b] = r.from}
       IN  z2m' = IF NameInUse(r.to) THEN z2m
                  ELSE [b \in Ieee |-> IF b \in named THEN r.to ELSE z2m[b]]
    /\ borne' = NamesBorne
    /\ requests' = Tail(requests)
    /\ UNCHANGED <<registryVars, retained, inbox, consumer, worker,
                   reported, points, inputs, missed, drifted>>

\* Zigbee2MQTT is not there when the request arrives.
Z2MMissesRename ==
    /\ Input
    /\ requests # <<>>
    /\ drifted' = drifted \cup {Head(requests).ieee}
    /\ requests' = Tail(requests)
    /\ UNCHANGED <<registryVars, z2m, retained, inbox, consumer, worker,
                   reported, points, missed, borne>>

Z2MPublishList ==
    /\ retained # z2m
    /\ Len(inbox) < MaxInbox
    /\ retained' = z2m
    /\ inbox' = Append(inbox, ListMessage(z2m))
    /\ UNCHANGED <<registryVars, z2m, consumer, worker, requests,
                   reported, points, inputs, missed, drifted, borne>>

Z2MPublishReading(a) ==
    /\ Input
    /\ a \in Paired
    /\ Len(inbox) < MaxInbox
    /\ inbox' = Append(inbox, Reading(a))
    /\ UNCHANGED <<registryVars, z2m, retained, consumer, worker, requests,
                   reported, points, missed, drifted, borne>>

(***************************************************************************)
(* The MQTT thread.                                                        *)
(***************************************************************************)
\* The entries of a list come in an order of Zigbee2MQTT's choosing.
ListsOf(names) ==
    {list \in DeviceList :
        /\ Listed(list) = {a \in Ieee : names[a] # NotPaired}
        /\ \A i \in DOMAIN list : list[i].friendly_name = names[list[i].ieee_address]}

ConsumeDevices ==
    /\ consumer = Idle /\ inbox # <<>> /\ IsList(Head(inbox))
    /\ \E list \in ListsOf(Head(inbox).names) :
          /\ SyncDevices(list)
          /\ drifted' = drifted \ Listed(list)
    /\ inbox' = Tail(inbox)
    /\ UNCHANGED <<z2m, retained, consumer, worker, requests, reported, points,
                   inputs, missed, borne>>

\* The transaction fails and rolls back; the consumer logs it and goes on.
ConsumeDevicesFails ==
    /\ Input
    /\ consumer = Idle /\ inbox # <<>> /\ IsList(Head(inbox))
    /\ LET listed == {a \in Ieee : Head(inbox).names[a] # NotPaired} IN
          /\ missed' = missed \cup listed
          /\ drifted' = drifted \cup listed
    /\ inbox' = Tail(inbox)
    /\ UNCHANGED <<registryVars, z2m, retained, consumer, worker, requests,
                   reported, points, borne>>

\* The topic name is resolved in a transaction of its own.  A lookup that fails
\* counts as no match: the reading is kept, under the raw name.
IdentifyReading ==
    /\ consumer = Idle /\ inbox # <<>> /\ ~IsList(Head(inbox))
    /\ LET m == Head(inbox) IN
       \/ /\ consumer' = [step |-> "report", topic |-> m.topic, source |-> m.source,
                          identity |-> Resolve(m.topic)]
          /\ UNCHANGED inputs
       \/ /\ Input
          /\ consumer' = [step |-> "report", topic |-> m.topic, source |-> m.source,
                          identity |-> Nobody]
    /\ inbox' = Tail(inbox)
    /\ UNCHANGED <<registryVars, z2m, retained, worker, requests, reported, points,
                   missed, drifted, borne>>

\* update_state and update_light_state: by address, a no-op when the row is gone.
\* Not every reading carries a state, and a failure is only logged.
ReportState(carried) ==
    /\ consumer # Idle /\ consumer.step = "report"
    /\ LET a == consumer.identity IN
       reported' = IF carried /\ a \in Registered
                   THEN [reported EXCEPT ![a] = consumer.source] ELSE reported
    /\ consumer' = [consumer EXCEPT !.step = "write"]
    /\ UNCHANGED <<registryVars, z2m, retained, inbox, worker, requests, points,
                   inputs, missed, drifted, borne>>

\* Fault: a reading that matches no device is filed without a name.
FaultNoFallback(r) == r.identity

\* The tag the reading is filed under.
TagOf(r) == IF r.identity # Nobody THEN r.identity ELSE r.topic

\* Without known fields, or when InfluxDB refuses the point, nothing is written.
WriteReading(written) ==
    /\ consumer # Idle /\ consumer.step = "write"
    /\ points' = IF written
                 THEN points \cup {[tag |-> TagOf(consumer), source |-> consumer.source]}
                 ELSE points
    /\ consumer' = Idle
    /\ UNCHANGED <<registryVars, z2m, retained, inbox, worker, requests, reported,
                   inputs, missed, drifted, borne>>

(***************************************************************************)
(* REST requests.                                                          *)
(***************************************************************************)
\* PUT /api/devices/{id}: the label changes and commits; the request to Z2M is
\* still in the thread's hands.  A PUT of the label the device has asks nothing.
RenameCommits(w, a, name) ==
    /\ Input
    /\ worker[w] = Idle
    /\ UpdateDevice(a, name, Null)
    /\ worker' = IF device[a].friendly_name # name
                 THEN [worker EXCEPT ![w] = [from |-> device[a].friendly_name,
                                             to |-> name, ieee |-> a]]
                 ELSE worker
    /\ borne' = [borne EXCEPT ![a] = @ \cup {name}]
    /\ UNCHANGED <<z2m, retained, inbox, consumer, requests, reported, points,
                   missed, drifted>>

RenamePublishes(w) ==
    /\ worker[w] # Idle
    /\ requests' = Append(requests, worker[w])
    /\ worker' = [worker EXCEPT ![w] = Idle]
    /\ UNCHANGED <<registryVars, z2m, retained, inbox, consumer, reported, points,
                   inputs, missed, drifted, borne>>

\* The broker cannot be reached: the error is logged and nothing is tried again.
\* The MQTT client keeps the request all the same once it has been started, and
\* sends it when the connection is back.
RenamePublishFails(w) ==
    /\ Input
    /\ worker[w] # Idle
    /\ \/ /\ requests' = Append(requests, worker[w])
          /\ UNCHANGED drifted
       \/ /\ drifted' = drifted \cup {worker[w].ieee}
          /\ UNCHANGED requests
    /\ worker' = [worker EXCEPT ![w] = Idle]
    /\ UNCHANGED <<registryVars, z2m, retained, inbox, consumer, reported, points,
                   missed, borne>>

DeleteRequest(a) ==
    /\ Input
    /\ DeleteDevice(a)
    /\ reported' = [reported EXCEPT ![a] = Null]
    /\ missed' = missed \cup {a}
    /\ UNCHANGED <<z2m, retained, inbox, consumer, worker, requests, points, drifted, borne>>

(***************************************************************************)
(* The session: readings are QoS 0 and the session is clean, so what was   *)
(* on its way is lost; the retained list comes again.                      *)
(***************************************************************************)
\* Only the last list is retained: a name that appears in an earlier one alone has
\* come and gone without the registry.
Superseded ==
    {a \in Ieee : \E i \in DOMAIN inbox :
        IsList(inbox[i]) /\ inbox[i].names[a] \notin {retained[a], NotPaired}}

Reconnect ==
    /\ Input
    /\ consumer = Idle
    /\ inbox' = <<ListMessage(retained)>>
    /\ missed' = missed \cup Superseded
    /\ UNCHANGED <<registryVars, z2m, retained, consumer, worker, requests, reported,
                   points, drifted, borne>>

\* The process stops between any two transactions and starts again.  Requests its
\* MQTT client has not sent yet, the latest ones, go with it.
Restart ==
    /\ Input
    /\ consumer' = Idle
    /\ worker' = [w \in Worker |-> Idle]
    /\ \E sent \in 0..Len(requests) :
          LET unsent == {requests[i] : i \in (sent + 1)..Len(requests)}
                           \cup ({worker[w] : w \in Worker} \ {Idle})
          IN  /\ requests' = SubSeq(requests, 1, sent)
              /\ drifted' = drifted \cup {r.ieee : r \in unsent}
    /\ inbox' = <<ListMessage(retained)>>
    /\ missed' = missed \cup Superseded
    /\ UNCHANGED <<registryVars, z2m, retained, reported, points, borne>>

PipelineInit ==
    /\ Init
    /\ z2m = [a \in Ieee |-> NotPaired]
    /\ retained = z2m
    /\ inbox = <<>>
    /\ consumer = Idle
    /\ worker = [w \in Worker |-> Idle]
    /\ requests = <<>>
    /\ reported = [a \in Ieee |-> Null]
    /\ points = {}
    /\ inputs = 0
    /\ missed = {}
    /\ drifted = {}
    /\ borne = [a \in Ieee |-> {}]

PipelineNext ==
    \/ \E a \in Ieee : \E n \in MayName[a] \cup {NotPaired} : Z2MChange(a, n)
    \/ Z2MRename
    \/ Z2MMissesRename
    \/ Z2MPublishList
    \/ \E a \in Ieee : Z2MPublishReading(a)
    \/ ConsumeDevices
    \/ ConsumeDevicesFails
    \/ IdentifyReading
    \/ \E carried \in BOOLEAN : ReportState(carried)
    \/ \E written \in BOOLEAN : WriteReading(written)
    \/ \E w \in Worker, a \in Ieee : \E n \in MayName[a] : RenameCommits(w, a, n)
    \/ \E w \in Worker : RenamePublishes(w) \/ RenamePublishFails(w)
    \/ \E a \in Ieee : DeleteRequest(a)
    \/ Reconnect
    \/ Restart

PipelineSpec == PipelineInit /\ [][PipelineNext]_pipelineVars

(***************************************************************************)
(* Properties.                                                             *)
(***************************************************************************)
PipelineTypeOK ==
    /\ TypeOK
    /\ z2m \in [Ieee -> Name \cup {NotPaired}]
    /\ retained \in [Ieee -> Name \cup {NotPaired}]
    /\ \A i \in DOMAIN inbox :
          IF IsList(inbox[i]) THEN inbox[i].names \in [Ieee -> Name \cup {NotPaired}]
          ELSE inbox[i].topic \in Name /\ inbox[i].source \in Ieee
    /\ consumer = Idle \/ consumer \in [step : {"report", "write"}, topic : Name,
                                        source : Ieee, identity : Ieee \cup {Nobody}]
    /\ reported \in [Ieee -> Ieee \cup {Null}]
    /\ points \subseteq [tag : Name, source : Ieee]
    /\ borne \in [Ieee -> SUBSET Name]
    /\ \A w \in Worker :
          worker[w] = Idle \/ worker[w] \in [from : Name, to : Name, ieee : Ieee]

ListOnItsWay == retained # z2m \/ \E i \in DOMAIN inbox : IsList(inbox[i])

\* A device is called by the names it has had, and by its address.
Bears(a) == borne[a] \cup {a}

\* Device a has shared a name with another one, if at another time.
SharesAName(a) == \E b \in Ieee \ {a} : Bears(a) \cap Bears(b) # {}

\* Tag t is a name of another device, and device s has shared a name with that one.
Confused(s, t) ==
    \E b \in Ieee \ {s} : t \in Bears(b) /\ Bears(b) \cap Bears(s) # {}

\* Every stored reading is found by asking for its device: what was filed under a
\* bare name (before discovery, or while the database was down) is picked up once
\* the list that names the device has been consumed, and renames, requests refused
\* or lost, reconnects and restarts do not cut it off again.  It may stay unfound
\*   - when the device was deleted, when the sync of a list that names it failed, or
\*     when a reconnect or a restart skipped a list with a name it has lost since
\*     (`missed`);
\*   - when it is filed under the address or a name of another device that has had
\*     a name of this one: a topic leads to the device that carries it as label,
\*     before the one it is an alias of, and an alias stays with its first holder
\*     (DeviceService._resolve, add_alias).
NoOrphanedReadings ==
    \A p \in points :
        \/ p.source \in missed
        \/ Confused(p.source, p.tag)
        \/ ListOnItsWay
        \/ p.source \in Registered /\ p.tag \in QueryKeys(p.source)

\* When nothing is on its way, the label and the MQTT name of a device agree, in
\* whatever order renames made in the app, renames made in Zigbee2MQTT and syncs
\* interleaved, unless a request was lost since the last list, or the device has
\* shared a name with another one: a request may then be refused, or rename the
\* other device.
Quiescent ==
    /\ retained = z2m /\ requests = <<>>
    /\ \A i \in DOMAIN inbox : ~IsList(inbox[i])
    /\ \A w \in Worker : worker[w] = Idle
LabelsAgreeWhenQuiet ==
    Quiescent => \A a \in (Paired \cap Registered) \ drifted :
                    device[a].friendly_name = z2m[a] \/ SharesAName(a)

\* A rename asked for one device renames that device (the docstring of
\* _request_z2m_rename: "Ask Zigbee2MQTT to rename the device").
RenamesHitTheirDevice ==
    [][\A b \in Ieee : requests # <<>> /\ requests' = Tail(requests) /\ z2m'[b] # z2m[b]
          => b = Head(requests).ieee]_pipelineVars

\* Z2M may go on publishing a device under the name it had before a rename: as long
\* as that name is kept as the device's alias, its topic leads to the device
\* (README.md of backend-python: "the old name stays in `device_alias`, so the
\* inbound resolver ... still resolves the old topic").
OldTopicsStillResolve ==
    \A a \in Paired \cap Registered :
        device[a].friendly_name # z2m[a] /\ alias[z2m[a]] = a => Resolve(z2m[a]) = a

\* No device inherits the history of another (README.md of backend-python, on aliases
\* being unique: "Without this, two devices that held the same name at different times
\* would inherit each other's history"): a reading filed under a name that is recorded
\* as its device's, and that the device has given up, is not read as another device's.
NoInheritedHistory ==
    \A p \in points : \A b \in Registered \ {p.source} :
        /\ p.source \in Registered /\ alias[p.tag] = p.source
        /\ device[p.source].friendly_name # p.tag
        => p.tag \notin QueryKeys(b)
=============================================================================
