----------------------------- MODULE DevicePage -----------------------------
(***************************************************************************)
(* The page of one device (frontend/src/modules/devices/pages/             *)
(* DeviceDetailPage.tsx): it polls the device, and every handler that      *)
(* changes it awaits the command and then a refresh of its own, while      *)
(* polls go on and may overtake that refresh.  The page stays mounted when *)
(* the history jumps to another device.                                    *)
(***************************************************************************)
EXTENDS Integers, FiniteSets

CONSTANTS
    DeviceId, Label,
    NoDevice,       \* no device: not loaded, not on the server, no page
    NotYet,         \* no form; no answer
    MaxDeviceSteps  \* bound: gestures, polls, failures and other clients' changes

\* Of the five types: one the page can switch and one it cannot.
Switchable == "LIGHT"
DeviceKinds == {Switchable, "SENSOR"}
DeviceForm == [label : Label, kind : DeviceKinds]
Entity == [label : Label, kind : DeviceKinds, version : Nat \ {0}]

ASSUME DeviceAssumption ==
    /\ MaxDeviceSteps \in Nat /\ Label # {}
    /\ NoDevice \notin DeviceId \cup Entity \cup {NotYet}
    /\ NotYet \notin DeviceForm \cup Entity

VARIABLES
    entity,        \* the server: per device [label, kind, version]
    deviceUrl,     \* the device the page is for, NoDevice on another page
    entityShown,   \* `device`: [id, is]
    deviceFailed,  \* `deviceError`
    editingDevice, deviceForm, savingDevice, sendingState, deletingDevice, editError,
    deviceCalls,   \* commands without an answer; those of a page that is gone are not `mine`
    fetches,       \* requests for the device; those a handler awaits are `of` that handler
    deviceSteps,
    promised       \* ghost: the device and the version the last save was answered with

deviceVars == <<entity, deviceUrl, entityShown, deviceFailed, editingDevice, deviceForm,
                savingDevice, sendingState, deletingDevice, editError, deviceCalls, fetches,
                deviceSteps, promised>>

shownVars == <<deviceUrl, entityShown, deviceFailed>>
editVars == <<editingDevice, deviceForm, editError>>
pendingVars == <<savingDevice, sendingState, deletingDevice>>

DeviceStep == deviceSteps < MaxDeviceSteps /\ deviceSteps' = deviceSteps + 1

\* The early returns of the JSX: an error, no device, the page.
DeviceShown == deviceUrl # NoDevice /\ ~deviceFailed /\ entityShown # NoDevice

(***************************************************************************)
(* usePolling: the newest request is the only one that writes.  A poll     *)
(* that is not the newest has no effect any more and is left out; a        *)
(* request that a handler awaits ends that handler all the same.           *)
(***************************************************************************)
\* Fault: any request may write.
FaultSuperseded == fetches

Superseded == {[f EXCEPT !.newest = FALSE] : f \in {g \in fetches : g.of # "poll"}}

Refresh(who, id) == Superseded \cup {[of |-> who, id |-> id, newest |-> TRUE, got |-> NotYet]}

PollDevice ==
    /\ deviceUrl # NoDevice
    /\ DeviceStep
    /\ fetches' = Refresh("poll", deviceUrl)
    /\ UNCHANGED <<entity, shownVars, editVars, pendingVars, deviceCalls, promised>>

FetchServed(f) ==
    /\ f.got = NotYet
    /\ fetches' = (fetches \ {f}) \cup {[f EXCEPT !.got = entity[f.id]]}
    /\ UNCHANGED <<entity, shownVars, editVars, pendingVars, deviceCalls, deviceSteps, promised>>

\* The handler goes on: a refresh throws nothing.
Awaited(who) ==
    /\ savingDevice' = (savingDevice /\ who # "save")
    /\ sendingState' = (sendingState /\ who # "command")
    /\ IF who = "save" THEN editingDevice' = FALSE /\ deviceForm' = NotYet
       ELSE UNCHANGED <<editingDevice, deviceForm>>
    /\ UNCHANGED <<deletingDevice, editError>>

FetchAnswered(f) ==
    /\ f.got \notin {NotYet, NoDevice}
    /\ fetches' = fetches \ {f}
    /\ IF f.newest THEN entityShown' = [id |-> f.id, is |-> f.got] /\ deviceFailed' = FALSE
       ELSE UNCHANGED <<entityShown, deviceFailed>>
    /\ Awaited(f.of)
    /\ UNCHANGED <<entity, deviceUrl, deviceCalls, deviceSteps, promised>>

\* No answer, or a 404.
FetchFails(f) ==
    /\ DeviceStep
    /\ fetches' = fetches \ {f}
    /\ deviceFailed' = (deviceFailed \/ f.newest)
    /\ Awaited(f.of)
    /\ UNCHANGED <<entity, deviceUrl, entityShown, deviceCalls, promised>>

(***************************************************************************)
(* The page comes, changes its device and goes.                            *)
(***************************************************************************)
OpenDevice(d) ==
    /\ deviceUrl = NoDevice
    /\ DeviceStep
    /\ deviceUrl' = d
    /\ fetches' = Refresh("poll", d)
    /\ UNCHANGED <<entity, entityShown, deviceFailed, editVars, pendingVars, deviceCalls, promised>>

\* The same component with another id: its effect runs again, its state stays.
JumpDevice(d) ==
    /\ deviceUrl \notin {NoDevice, d}
    /\ DeviceStep
    /\ deviceUrl' = d
    /\ fetches' = Refresh("poll", d)
    /\ UNCHANGED <<entity, entityShown, deviceFailed, editVars, pendingVars, deviceCalls, promised>>

Unmounted(calls) ==
    /\ deviceUrl' = NoDevice /\ entityShown' = NoDevice /\ deviceFailed' = FALSE
    /\ editingDevice' = FALSE /\ deviceForm' = NotYet /\ editError' = FALSE
    /\ savingDevice' = FALSE /\ sendingState' = FALSE /\ deletingDevice' = FALSE
    /\ fetches' = {} /\ promised' = NoDevice
    /\ deviceCalls' = {[c EXCEPT !.mine = FALSE] : c \in calls}

LeaveDevice ==
    /\ deviceUrl # NoDevice
    /\ DeviceStep
    /\ Unmounted(deviceCalls)
    /\ UNCHANGED entity

(***************************************************************************)
(* The handlers of the page.                                               *)
(***************************************************************************)
SendDevice(op, form) ==
    deviceCalls' = deviceCalls \cup
        {[op |-> op, id |-> entityShown.id, form |-> form, version |-> 0, mine |-> TRUE]}

\* handleSetState: the buttons Turn On and Turn Off.
HandleSetState ==
    /\ DeviceShown /\ ~sendingState
    /\ entityShown.is.kind = Switchable
    /\ DeviceStep
    /\ sendingState' = TRUE
    /\ SendDevice("command", NotYet)
    /\ UNCHANGED <<entity, shownVars, editVars, savingDevice, deletingDevice, fetches, promised>>

HandleStartEdit ==
    /\ DeviceShown /\ ~editingDevice
    /\ DeviceStep
    /\ deviceForm' = [label |-> entityShown.is.label, kind |-> entityShown.is.kind]
    /\ editError' = FALSE /\ editingDevice' = TRUE
    /\ UNCHANGED <<entity, shownVars, pendingVars, deviceCalls, fetches, promised>>

\* The inputs of the form: they are not disabled while it is saved.
FormShown == DeviceShown /\ editingDevice /\ deviceForm # NotYet

ChangeForm(form) ==
    /\ FormShown
    /\ form # deviceForm /\ (form.label = deviceForm.label \/ form.kind = deviceForm.kind)
    /\ DeviceStep
    /\ deviceForm' = form
    /\ UNCHANGED <<entity, shownVars, editingDevice, editError, pendingVars, deviceCalls, fetches,
                   promised>>

HandleCancelEdit ==
    /\ FormShown /\ ~savingDevice
    /\ DeviceStep
    /\ editingDevice' = FALSE /\ deviceForm' = NotYet /\ editError' = FALSE
    /\ UNCHANGED <<entity, shownVars, pendingVars, deviceCalls, fetches, promised>>

HandleSaveEdit ==
    /\ FormShown /\ ~savingDevice
    /\ DeviceStep
    /\ editError' = FALSE /\ savingDevice' = TRUE
    /\ SendDevice("save", deviceForm)
    /\ UNCHANGED <<entity, shownVars, editingDevice, deviceForm, sendingState, deletingDevice,
                   fetches, promised>>

\* handleDelete, confirmed.
HandleDelete ==
    /\ DeviceShown /\ ~deletingDevice
    /\ DeviceStep
    /\ deletingDevice' = TRUE
    /\ SendDevice("delete", NotYet)
    /\ UNCHANGED <<entity, shownVars, editVars, savingDevice, sendingState, fetches, promised>>

(***************************************************************************)
(* The server and the other clients.                                       *)
(***************************************************************************)
Saved(e, form) == [label |-> form.label, kind |-> form.kind, version |-> e.version + 1]

\* A command for a device that is no longer there is refused.
DeviceCallServed(c) ==
    /\ c.version = 0 /\ entity[c.id] # NoDevice
    /\ entity' = CASE c.op = "save" -> [entity EXCEPT ![c.id] = Saved(@, c.form)]
                   [] c.op = "delete" -> [entity EXCEPT ![c.id] = NoDevice]
                   [] c.op = "command" -> entity
    /\ deviceCalls' = (deviceCalls \ {c}) \cup
                          {[c EXCEPT !.version = IF c.op = "save" THEN entity'[c.id].version ELSE 1]}
    /\ UNCHANGED <<shownVars, editVars, pendingVars, fetches, deviceSteps, promised>>

SomeoneEditsDevice(d, form) ==
    /\ entity[d] # NoDevice
    /\ form.label # entity[d].label /\ form.kind = entity[d].kind
    /\ DeviceStep
    /\ entity' = [entity EXCEPT ![d] = Saved(@, form)]
    /\ UNCHANGED <<shownVars, editVars, pendingVars, deviceCalls, fetches, promised>>

(***************************************************************************)
(* The handlers go on.                                                     *)
(***************************************************************************)
\* Fault: the save is over when it is answered.
FaultCallContinues(c) ==
    /\ c.version # 0 /\ c.op # "delete"
    /\ deviceCalls' = deviceCalls \ {c}
    /\ promised' = [id |-> c.id, version |-> c.version]
    /\ Awaited(c.op)
    /\ UNCHANGED <<entity, shownVars, fetches, deviceSteps>>

\* await refreshDevice(): the device of the page as it is now.  A page that is gone sees none
\* of it.
CallContinues(c) ==
    /\ c.version # 0 /\ c.op # "delete"
    /\ deviceCalls' = deviceCalls \ {c}
    /\ fetches' = IF c.mine THEN Refresh(c.op, deviceUrl) ELSE fetches
    /\ promised' = IF c.mine /\ c.op = "save" THEN [id |-> c.id, version |-> c.version]
                   ELSE promised
    /\ UNCHANGED <<entity, shownVars, editVars, pendingVars, deviceSteps>>

\* navigate('/devices'), from whatever page is shown by then.
DeleteContinues(c) ==
    /\ c.version # 0 /\ c.op = "delete"
    /\ Unmounted(deviceCalls \ {c})
    /\ UNCHANGED <<entity, deviceSteps>>

\* Fault: only an answer enables the buttons again.
FaultSettled(op) == UNCHANGED pendingVars

\* The finally of a handler whose command has failed.
Settled(op) ==
    /\ savingDevice' = (savingDevice /\ op # "save")
    /\ sendingState' = (sendingState /\ op # "command")
    /\ deletingDevice' = (deletingDevice /\ op # "delete")

\* No answer: the command may have been served all the same.  Only a save has a message.
DeviceCallFails(c) ==
    /\ DeviceStep
    /\ deviceCalls' = deviceCalls \ {c}
    /\ IF c.mine THEN Settled(c.op) /\ editError' = (editError \/ c.op = "save")
       ELSE UNCHANGED <<pendingVars, editError>>
    /\ UNCHANGED <<entity, shownVars, editingDevice, deviceForm, fetches, promised>>

DevicePageInit ==
    /\ entity = [d \in DeviceId |-> [label |-> CHOOSE l \in Label : TRUE, kind |-> Switchable,
                                     version |-> 1]]
    /\ deviceUrl = NoDevice /\ entityShown = NoDevice /\ deviceFailed = FALSE
    /\ editingDevice = FALSE /\ deviceForm = NotYet /\ editError = FALSE
    /\ savingDevice = FALSE /\ sendingState = FALSE /\ deletingDevice = FALSE
    /\ deviceCalls = {} /\ fetches = {} /\ deviceSteps = 0 /\ promised = NoDevice

DevicePageNext ==
    \/ \E d \in DeviceId : OpenDevice(d) \/ JumpDevice(d)
    \/ LeaveDevice \/ PollDevice
    \/ HandleSetState \/ HandleStartEdit \/ HandleCancelEdit \/ HandleSaveEdit \/ HandleDelete
    \/ \E form \in DeviceForm : ChangeForm(form)
    \/ \E f \in fetches : FetchServed(f) \/ FetchAnswered(f) \/ FetchFails(f)
    \/ \E c \in deviceCalls :
           DeviceCallServed(c) \/ CallContinues(c) \/ DeleteContinues(c) \/ DeviceCallFails(c)
    \/ \E d \in DeviceId, form \in DeviceForm : SomeoneEditsDevice(d, form)

DevicePageSpec == DevicePageInit /\ [][DevicePageNext]_deviceVars

(***************************************************************************)
(* Properties.                                                             *)
(***************************************************************************)
PendingOps(op) ==
    {c \in deviceCalls : c.mine /\ c.op = op} \cup {f \in fetches : f.of = op}

\* A button is disabled exactly while one request of its handler is under way, however the
\* request ends, whichever poll overtakes the refresh, and wherever the page has gone: none
\* stays disabled and no handler runs twice at the same time.
ButtonsMeanPending ==
    \A op \in {"save", "command", "delete"} :
        Cardinality(PendingOps(op)) =
            IF (op = "save" /\ savingDevice) \/ (op = "command" /\ sendingState)
                 \/ (op = "delete" /\ deletingDevice)
            THEN 1 ELSE 0

\* Once the form of a save has closed the page shows what was saved, or something newer: not
\* an answer from before the save, although the refresh the save awaited may have been
\* overtaken by a poll.  Until then the newest request is still under way, or it has failed
\* and the page says so.
ShowsWhatWasSaved ==
    promised # NoDevice /\ ~savingDevice /\ DeviceShown /\ entityShown.id = promised.id =>
        entityShown.is.version >= promised.version \/ \E f \in fetches : f.newest
=============================================================================
