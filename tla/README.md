# smart-home-core: a TLA+ model of the home hub

smart-home-core is a small home hub. A Python backend (FastAPI, PostgreSQL, InfluxDB, MQTT)
keeps a registry of Zigbee devices, files their readings, passes commands on to them and runs a
few automation rules; a React frontend polls it. This directory models the parts of it that are
hard to test: who a name belongs to when devices are renamed on two sides at once, what a lost or
repeated message does, and what a page shows when answers overtake each other.

Paths below are relative to the repository (`src/` in `PROJECT.json`); `app/` is
`backend-python/app/`. The Quarkus backend under `backend/` is the implementation the Python one was ported
from. It is not modelled.

## 1. Inventory

### Backend

| Component | State | Operations | Talks to |
|---|---|---|---|
| Device registry (`app/device/service.py`, `repository.py`, `z2m_mapper.py`, `identity.py`, `schema.sql`) | tables `device` (row per ieee address: id, label, type, availability, reported state) and `device_alias` (name, globally unique, to ieee address) | `sync_devices`, `update_device`, `delete_device`, `update_availability`, `update_state`, `update_light_state`, `resolve_identity` | called by the MQTT thread and the REST threads; publishes `DevicesSyncedEvent`, `DeviceStateChangedEvent` |
| Rename propagation (`_request_z2m_rename`, `app/mqtt/publisher.py`) | nothing of its own; the request waits in the paho client | publish after commit, log a failure | Zigbee2MQTT, which renames and publishes a new list |
| MQTT client and consumers (`app/mqtt/client.py`, `consumers.py`) | one connection, one thread; the set of names warned about | `consume_devices`, `consume_telemetry`, `consume_availability`, `consume_bridge_state`, `consume_rename_response`, reconnect | registry, InfluxDB, event bus |
| Telemetry store and queries (`app/telemetry/`) | InfluxDB points by tag `device_id` | `write_telemetry`, `get_latest`, `get_history` | registry (`resolve_identity`, `telemetry_keys`) |
| Commands (`app/device/router.py`, `command_service.py`) | none | availability check, routing, publish to the label's topic | registry, publisher |
| Bridge state and health (`app/mqtt/bridge_state.py`, `health.py`) | whether Zigbee2MQTT is online | set, read | MQTT thread, REST |
| Event bus and event stream (`app/common/events.py`, `app/device/router.py`) | subscriber lists; one unbounded queue for each open stream | subscribe, unsubscribe, publish, stream | MQTT thread, event loop, executor |
| Automation (`app/automation/`) | registered rules; the previous contact state of a door; scheduler jobs | `evaluate` for each event, night mode job | event bus, commands |
| Recipes (`app/recipe/`) | recipe, ingredients, steps, tags | create, update (delete and insert children), delete, find-or-create of tags | frontend |
| Lists and calendar (`app/shopping/`, `app/todo/`, `app/calendar/`) | rows | create, full update, delete, delete checked | frontend |

### Frontend

| Component | State | Operations |
|---|---|---|
| `usePolling` (`frontend/src/hooks/usePolling.ts`) | data, error, loading, the number of the last request | render with new deps, effect, refresh (interval, visibility, after a command), answer, failure |
| Light toggle (`RoomStatCards.tsx`) | the optimistic state, `sending` | toggle, report |
| Light controls (`LightControls.tsx`, `ColorWheel.tsx`) | values shown, values last sent, one flag for every gesture, the tab | take, slide, release, wheel and its keys, tab, report |
| Device page (`DeviceDetailPage.tsx`) | the device, a form copied from it, a pending flag per handler | edit, save, command, delete, poll, jump in the history |
| Timelines (`contactSegments.ts`, `ContactTimelineCard.tsx`, `telemetry.ts`) | points of a range, the range, the newest report | choose a range, poll, draw |
| Room page (`RoomDetailPage.tsx`, `RoomHistorySections.tsx`) | the devices of the room, their latest values by position | poll both |
| Room layout (`RoomOverviewPage.tsx`, `roomLayoutStorage.ts`) | layout in `localStorage`, a flag that suppresses one save | edit, change, reset, what the grid reports by itself |
| Cook mode (`useCookProgress.ts`, its four pages) | progress per recipe in memory and in `localStorage` | open, resume, step, servings, tick, finish, start over, fit to an edited recipe |
| Screen lock (`useWakeLock.ts`) | a wake lock | acquire, release, hidden and shown tab |
| Recipe form (`RecipeFormPage.tsx` and its editors) | the form, whether it is loaded or being saved | load, edit, submit |
| Recipe list and page (`RecipesPage.tsx`, `CookPickerPage.tsx`, `RecipeDetailPage.tsx`) | search and tags, the list, the recipe with servings | filter, poll, view, servings, delete |
| Lists (`ShoppingListPage.tsx`, `TodoListPage.tsx`, `CalendarPage.tsx`) | a snapshot of the list, a form | add, toggle by a full PUT, delete, clear |

### How they interact, and what is hard

* **Identity.** A device has an immutable ieee address, a *label* (`friendly_name`) that people
  change in the app, and the *MQTT name* Zigbee2MQTT publishes it under, which may be changed
  there. The label is pushed to Zigbee2MQTT by a best-effort request, and pulled back by every
  device list. Former names are kept as aliases so that old topics and old readings still lead to
  the device. Names can be reused.
* **Threads.** All MQTT messages are consumed by one thread, one after the other, each in several
  transactions. REST requests run in a thread pool and commit in between. A rename is committed
  first and published afterwards, outside the transaction.
* **Delivery.** Readings are QoS 0 with a clean session: a lost connection or a restart loses
  them. The device list is retained and comes again with every reconnect. A publish without a
  connection is reported as failed but may still be delivered later.
* **Failure.** A consumer that fails only logs. A sync that fails leaves no trace until the
  next list.
* **Frontend.** Requests overlap and answers come in any order. A handler awaits its command and then
  a refresh of its own, which a poll may overtake. A jump in the history between two pages of one kind keeps the
  component with its state and changes only the address. What is in `localStorage` was written by another tab, an older
  version, or never.

What makes each part correct: the registry never gives a name away and never loses one while the
device exists; a message on a topic leads to the device that publishes there; a reading that was
stored can be found; labels and MQTT names converge; availability is owned by its topic; a page never
goes back to older data nor shows one device's data as another's; what somebody has just set on a page is not turned
back by an answer from before; a form is saved once, to what it was loaded from; what is kept in the
browser survives reloads and is fit for use whatever it is. `PROJECT.json` lists the hazards
one by one with the properties that cover them, or the reason why none does.

## 2. Modules

| Module | Models | Role |
|---|---|---|
| `NameLedger` | what the registry promises about names (`backend-python/README.md`, "first claimant wins") | abstract specification |
| `DeviceRegistry` | `device`, `device_alias` and the service methods, one action per transaction | component |
| `DeviceRegistryProofs` | | theorems about `DeviceRegistry` |
| `TelemetryPipeline` | `DeviceRegistry` between Zigbee2MQTT, the broker, the MQTT thread, the REST threads and InfluxDB | composition (EXTENDS `DeviceRegistry`) |
| `TelemetryPipelineProofs` | | theorems about `TelemetryPipeline` (EXTENDS `DeviceRegistryProofs`) |
| `Automation` | the door rule on the MQTT thread and the midnight rule on the scheduler's, their sensors and lights | component |
| `EventStreams` | the event bus, `/api/devices/events` and the executor its streams wait on | component |
| `RecipeStore` | the transactions on recipes and tags, statement by statement | component (EXTENDS `Recipes`) |
| `MonotonicView` | a view of changing data that never goes back | abstract specification |
| `Polling` | `usePolling` over a server whose data changes | component |
| `LightToggle` | the switch of a light and the round trip of its command and report | composition (EXTENDS `Polling`) |
| `LightToggleProofs` | | theorems about `Polling` and `LightToggle` |
| `LightControls` | the sliders, the wheel and the tabs of a light, their commands and the polled light | component |
| `LightControlsProofs` | | theorems about `LightControls` |
| `KeptProgress` | one progress for each recipe, changed by cooking alone | abstract specification |
| `Recipes` | names, amounts and times of the recipe pages | operators |
| `CookMode` | the pages of cook mode, memory and `localStorage` | component (EXTENDS `Recipes`), implements `KeptProgress` |
| `CookModeProofs` | | theorems about `CookMode` |
| `WakeLock` | the screen lock of the steps page | component |
| `RecipeForm` | the form of a recipe with its editors and requests | component (EXTENDS `Recipes`) |
| `RecipeBrowse` | the two lists of recipes and the page of one | component (EXTENDS `Recipes`) |
| `RoomLayout` | the layout of the room cards | component |
| `SharedLists` | the shopping, to-do and calendar pages over lists several clients share | component |
| `DevicePage` | the page of one device and its four handlers | component |
| `Timeline` | the bar, the badge and "last opened" of a contact or a switch | component and algorithm |
| `RoomSections` | the sections of a room and the values matched to them | component |
| `ThreadProofs` | | theorems about `Automation` and `EventStreams` |
| `RecipeProofs` | | theorems about `RecipeStore`, `WakeLock`, `RecipeForm` and `RecipeBrowse` |
| `DashboardProofs` | | theorems about `RoomLayout`, `SharedLists`, `DevicePage`, `RoomSections` and `Timeline` |
| `MCDeviceRegistry`, `MCTelemetryPipeline`, `MCPolling`, `MCLightToggle` | | instances for TLC |
| `MCLightControls`, `MCRecipes`, `MCDashboard` | | instances for TLC; the last two explore several pages, one at a time; so do `MCTelemetryPipeline` (with `Automation`) and `MCPolling` (with `EventStreams`) |

### DeviceRegistry

`device[a]` is the row of address `a` (or `NotRegistered`), `alias[n]` the address the alias row of
`n` points at (or `Nobody`), `nextId` the next value of the id sequence. Uniqueness of the two
keys is the unique constraint of `schema.sql`; that a name has at most one claimant is therefore
given, and what is checked is *which* claimant.

* `SyncDevices(list)` is the whole of `sync_devices`: every entry of the list, the aliases it records (`ON
  CONFLICT DO NOTHING`), and `mark_unavailable_not_in`. The code loops over the list; entries
  are distinct devices, so the row an entry updates is the one from before the loop, while an alias goes to the first
  entry that records it. Both are written as functions of the list instead of a loop.
* `UpdateDevice`, `DeleteDevice`, `UpdateAvailability` are the other transactions. A delete
  cascades to the aliases.
* `Resolve(n)` is the order of `_resolve`: address, label (lowest id), alias. `TelemetryKeys(a)` is
  the set `telemetry_keys` builds.

Left out: the columns nobody compares (vendor, model, exposes, times) and the light columns. Lists with
duplicate addresses or names are not considered: Zigbee2MQTT does not publish them.

### TelemetryPipeline

Adds the name Zigbee2MQTT knows (`z2m`), the retained list, the messages on their way to the MQTT
thread (`inbox`), the reading in hand (`consumer`, between the transactions of
`consume_telemetry`), the rename a REST thread has committed and not yet published (`worker`), the
requests on their way (`requests`), the device whose state a row shows (`reported`) and the stored
points. A reading carries the device it came from, which the program never sees and the
properties compare with.

Zigbee2MQTT and the broker are external and modelled from what the backend relies on: names are unique
there, a rename to a name in use is refused (`consume_rename_response` handles that answer), a rename or a pairing
publishes a new retained list, a request may be missed while it is down. `Reconnect` loses the
readings on their way, `Restart` also the requests not yet sent.

Three ghost variables record what the properties must excuse, and only that: `missed`, the devices
that were deleted, that the sync of a list naming them failed for, or that lost a name on a list skipped at a
reconnect or a restart; `drifted`, those whose last rename request was lost (until a sync lists
them again); and `borne`, the names a device has had in the app or in Zigbee2MQTT. Names may be shared: `Confused`
and `SharesAName` say when that matters, because `_resolve` asks labels before aliases and an alias stays with its first holder.

### Automation

`closed` is each contact as it is, `coming` the reports on their way, `reading` the one `consume_telemetry` has in hand, `previous`
the rule's memory, `switching` and `night` the lights the two rules have still to command, `outbox` and `lit` the commands on
their way and the lights. `TakeReport` fixes the name the event will carry, `Evaluate` is the event with everything the
door rule does before its loop, and `SwitchOn` a turn of that loop, so that the scheduler's thread may come between any two lights. Failures are
separate actions and counted: a write that fails drops the event, a publish that fails ends the rule but may be sent
all the same, messages are lost, a restart forgets `previous`. `named` may pass from one sensor to another, as a rename
does it. A rule that is switched off and `temperature-alert`, which only logs, are left out.

The ghost `due` is what the rules make of each light: "any" after a failure, a handover, or when door and midnight
meet. `openings` and `switched` count doors opened and commands published.

### EventStreams

Three kinds of threads. The MQTT thread walks the subscriber list by position (`Publish`, `NextHandler`), as a
Python loop over a list does. The event loop opens streams (`Open`), takes the first item (`Start`), goes on after an answer (`Resume`) and
closes them: `Leave` when the generator has started, whose `finally` unsubscribes, and `LeaveEarly` when it has not, in which case
nothing does and the queue stays subscribed. The executor has `Threads` threads; `waiting` are calls no
thread has taken, `running` those in `events.get`. A client that leaves cancels the first kind only, so a thread may wait for
nobody until its 15 seconds are over. Each step is one access to what the threads share.

### RecipeStore

`at[t]` is the statement transaction `t` is about to execute. `Load` is `session.get`, `WriteRecipe` the flush of the
recipe, `StartDelete` and `EndDelete` a `DELETE ... WHERE recipe_id`, whose rows are fixed when it starts and which waits for
whoever has deleted one of them, `InsertRows` the ingredients and steps, `FindTag` and `CreateTag` the two
halves of `find_or_create`, `Commit` and `Fail` the ends of `transaction()`. Locks, waits, the unique tag name and the
deadlock detector are PostgreSQL's. A save writes one row to each table; the title stands for the columns. An UPDATE writes only the
columns that differ from the ones loaded, which is what SQLAlchemy sends.

### Polling

The steps are turns of the browser's event loop. `fetcher` is the target of the committed render,
`effect` the deps the effect last ran with, `latest` the number of the last request, `inflight` the requests
without an answer. `RunEffect` and `Refresh` start requests; `ServerReads` is the moment the
server looks at its data; `Responds` and `Fails` are the two outcomes. Unmounting ends the
behaviour. Intervals are not timed: a refresh may come at any moment.

### LightToggle

The card of a light on the room page, around the hook: `optimistic` is `optimisticOn`, `sending` says
where `handleToggle` stands (posting, handled by the backend, or waiting for the refresh it
started). `light`, `commands` and `reports` are the light and what is on its way to it and from it.
The `state` column changes exactly when `Polling` counts a change, so its value is the parity of
the count and a snapshot of the page carries the state it was taken in.

* `Toggle` is `handleToggle` up to its first `await`; `SendCommand` the POST with the publish behind it;
  `CommandAccepted` its answer, which starts `await onRefresh()`; `CommandFails` the error path.
* `Mount`, `Poll`, `BackendReads`, `AnswerArrives` and `RequestFails` are the steps of the hook. An
  answer that is shown also runs the effect on `device.state` (`Settled`); an answer or
  an error ends the `await` of the request it belongs to, shown or not.
* `LightObeys`, `LightMisses`, `SomeoneSwitches`, `ConsumeReport` and `ReportLost` are the light, the
  broker and the consumer of its reports.

A click that fails leaves the optimistic state in place, as the code does (it sets it before the
request and clears it only on a report). Three ghosts remember what the last click wanted, whether it
was made while nothing was on its way, and what has happened since that may leave the switch wrong (`excuses`): "lost",
a command or report; "overtaken", somebody else switched while the click was on its way; "left over", somebody switched when
everything had arrived and the card still held the intent, because the page had seen no change of state that would have cleared it.

### LightControls

A control is the set of attributes it commits, so that the wheel is `{hue, saturation}`. `shown` are the states
`brightness`, `colorTemp`, `hue`, `saturation` of the panel, `local` the ones the wheel keeps for itself, `lastSent`
the refs, `dragging` the one ref all controls share. `Take`, `Slide`, `Release` are the events of a slider,
`WheelMove`, `WheelUp`, `WheelKey` those of the wheel, `SetTab` mounts and unmounts the wheel with whatever gesture is on
it. `Poll` contains the effects on the device's values, which follow it in the same commit. What the page polls never goes back
(`ViewSpec` of `Polling`), so a poll shows the light as it is, and `commands` stands for every delay in
between. Commands are requests of their own that nobody awaits, so the light may be given any of them next (`RemoveAt`), and
what it is given before an older one for the same attribute is undone by that (`Overtaken`). Values are members of a small set; the geometry of the wheel and the conversion to colours are left out.

The ghost `wanted` is what a gesture made at rest asked for; `crossed` says that a control was committed while
another one was held (the shared ref is cleared then); `excused` are the attributes for which the code has a reason to differ
from the light. It has six, named at `ControlsAgreeWhenQuiet`.

### CookMode, WakeLock

`stored` is the `localStorage` entry of each recipe, with `Junk` for one that is no JSON and `old` for one past
`MAX_AGE_MS`; `progress` and `resume` are the state and the ref of `useCookProgress`, which every page mounts anew (`Mount`,
`Read`, `Sanitize`). `Apply` changes memory and storage together, as `apply` does. `RecipeArrives` is the
answer of the poll with the effect that fits the step to a recipe that has become shorter; `Jump` is a change of the address
under a mounted page, where the recipe shown is still the old one: on the steps page the same effect then fits the new recipe's step to the
old recipe and `apply` writes it. `OtherTab`, `Expire`, `StorageFills`,
`RecipeEdited` and `PollFails` are the rest of the world.

`KeptProgress` has one progress per recipe. Its steps are a click that sets one of the three fields, a start
from nothing, a fit to a recipe that lost steps, a jump in the history, which may take back the step of the recipe jumped to and nothing
else (`JumpTo`), and a loss, which is allowed only to recipes in `loose`: those whose entry
something else than the page has touched, or which could not be written. The refinement maps the progress of a recipe to the page's while
it is open and to what its entry would be read as otherwise: that links, going back to another page, and reloads stutter is the
whole point. `clicks` makes a click or a jump visible to the abstract specification, so that no click may do two things.

In `WakeLock` a request for a lock is answered later or never, `Granted` checks whether the page is still there, and the browser
takes every lock back when the tab is hidden.

### RecipeForm, RecipeBrowse

`RecipeForm` is the page with the editors of its lines and tags, whose inputs stay enabled while it is saved, and
with the requests `loads` and `saves`. A request of a page that has gone is not `mine` any more; its answer still navigates,
because `navigate` is called after the `await`. `Jump` changes the address under a mounted form, which keeps what is on it; `astray` says that
the recipe of the new address has not come as the last load yet, and ends with it or with the form. `RecipeBrowse` has the lists (with `usePolling` reduced
to what `Polling` shows of it: only the newest request writes; `Matches` is the search condition of the repository) and the page of a recipe, whose amounts and times are
computed by `Recipes`: in hundredths, with the tolerance that picks a fraction.

### RoomLayout

`grid` is what the grid shows and `report` that it will call `onLayoutChange` by itself, which it does when it has made another layout
of its props; `suppress` is `suppressNextSaveRef`. The grid is external and its own layout is one value, `Automatic`. A full storage refuses what is written (`fits`): a layout the user arranges is then shown and not stored, and a report of the grid
throws out of an effect and takes the page down until it is loaded again (`ReportFails`, `Load`). `swallowed` and
`adopted` mark the two cases in which the ref is not matched to the report it was meant for.

### SharedLists, DevicePage, Timeline, RoomSections

`SharedLists` is three pages of one shape; `listKind` says which, and they differ in the inputs of the form, in which
of them are cleared, and in what a row offers. Every handler sends its command and asks for the list again after the
answer; an edit or a delete of an item that has gone is answered with 404 (`Refused`, `CallRefused`). `DevicePage` keeps every request a handler awaits, since an overtaken refresh still ends its handler (`Awaited`);
a poll that has been overtaken has no effect any more and is dropped.
`Timeline` has the loop of `buildStateSegments` (`CutUpTo`, with `Cut` for its body) and the two cards that use it, over points that were asked for
in a window that has moved on since. `RoomSections` keeps for every value the device it is of, which the program does not,
and matches by position as the program does.

## 3. Runs

| Run | Checks | Bounds |
|---|---|---|
| `registry` | `TypeOK`, `LedgerSpec`, `HistoryKeysAreKept`, `TopicsChangeHandsOnlyByRelabelling`, `SyncIsIdempotent`, `SyncRoutesListedNames`, `OnlyAvailabilityBringsOnline` | 2 devices, 4 names (the two addresses and two more), 3 ids |
| `pipeline` | `NoOrphanedReadings`, `LabelsAgreeWhenQuiet`; `LightsComeOnOncePerOpening`, `LightsFollowTheRules` | 2 devices, 5 names (the first may be named `n1` or `n2`, the second its address or `n2`), 2 REST threads, 6 outside events, 2 messages on their way, 3 ids; 2 sensors, 2 lights, 2 openings, 1 handover of the name, 1 midnight, 1 failure or restart, 2 reports on their way |
| `polling` | `ViewSpec`, `LoadedDataIsOfTheTarget`; `StreamsTellEveryChange`, `EventsReachTheirClient` | 2 targets, 2 changes to each, 4 requests; 3 streams, 1 executor thread, 2 events |
| `light` | `SwitchAgreesWhenQuiet`, `LoneClickIsKept`, `SwitchComesBack` | 1 light, 2 clicks, 1 switch by someone else, 1 failure, 5 requests, 3 changes |
| `rename_target` | violation of `RenamesHitTheirDevice` | as `pipeline`, every name shared |
| `old_topic` | violation of `OldTopicsStillResolve` | as `pipeline`, every name shared |
| `inherited_history` | violation of `NoInheritedHistory` | as `pipeline`, every name shared but the addresses |
| `pending_intent` | violation of `PendingIntentIsKept` | as `light`, 3 clicks, no failure, nobody else |
| `recipes` | `ProgressIsKept`, `StepShownExists`; `NoLockOutlivesThePage`, `ScreenStaysOn`; `OneFormOneRecipe`, `SavesWhatItLoaded`; `ListAnswersTheFilter`, `DeletesWhatIsConfirmed`, `QuantitiesAreRight`; `StoredRecipeIsOneSave` | 2 recipes of up to 2 steps, 2 servings, 2 outside events in cook mode; 4 lock requests; 4 edits, 2 forms, 3 lines; 2 requests or changes on the lists, amounts of a quarter and a whole; 3 transactions on 2 recipes, 2 titles, 2 tags, each one of 5 requests |
| `dashboard` | `LoneGestureIsKept`, `PollLeavesHeldControls`, `ControlsAgreeWhenQuiet`; `LastClickWins`, `ListIsFreshWhenQuiet`; `LayoutIsKept`; `ButtonsMeanPending`, `ShowsWhatWasSaved`; `TimelineTellsTheHistory`, `BadgeAgreesWithBar`, `LastOpeningIsTrue`; `SectionsMeanTheirDevice` | 2 gestures, 1 change by others, 1 fault on a colour light; 2 items, 4 events; 2 layouts; 2 devices, 7 events; 5 instants, 2 ranges; 4 devices, 3 of them in the room, 7 events |
| `confirmed_value` | violation of `EchoConfirmsWhatIsShown` | one slider, 2 gestures, nobody else, no fault |
| `untouched_layout` | violation of `OnlyUserChangesAreSaved` | 2 layouts |

Type invariants of the hook, the toggle, the controls, cook mode and the pipeline are proved (section 4) and not checked again;
the registry's is checked, because the names it keeps apart are data.

**Why the bounds are enough.** Every property of the registry relates two devices and one name;
two devices may exchange a name, hold it at different times or be renamed to each other's address.
Three ids let one device be deleted and come back while the other keeps its row. In the pipeline six
outside events cover, for example, pairing, reading, rename in the app, rename in Zigbee2MQTT, fault, reading; everything inside
(consuming, publishing, delivering) is free and not counted. Four requests give two on each side of
a change of target. Three streams are a publisher's position with one subscriber before and one behind it, and more streams than
threads. Two sensors and two openings let the name pass between an opening and the next; two lights are one a loop may fail between.
Three transactions are two that meet on one recipe or tag and one that sees what they left. In `light` two clicks, a switch at the wall and a lost message meet in every
order, and the bound on requests always leaves one for the refresh after a click, so that liveness is not an
artefact of the bound. The pages of `recipes` and of `dashboard` share no state, so each is explored by itself
(`page`) and the run is the sum and not the product of them. In `recipes` two outside events are, for example, another
tab and an edit around any number of clicks, since the clicks of cook mode are not bounded at all. On the
device page seven events are opening, editing, saving, a poll that overtakes the refresh, a failure and a jump. Five instants hold a
range of two and one of four, with reports before, in and after the window. Seven moves of `RoomSections` let a device leave, another come and
two polls pass in between. The theorems below remove the bounds: every invariant and every action property of the runs holds
for all values of the constants, the `Max...` constants among them, which are arbitrary natural numbers there. The bounds matter for the two
liveness properties alone.

In `pipeline` each device may have a name of its own and one that both may have (`MCPartlyShared`), so that devices that have shared a name and
devices that have not both occur, and one may change into the other. The properties except the former by what has happened (`borne`), not by what people may
choose; the proofs assume nothing about names. The three violation runs of the pipeline let either device have any name.

**Symmetry.** Devices and the two neutral names are interchangeable in `registry`, REST threads and sensors in `pipeline`; neither
checks liveness, so it is sound. `light` and `polling`, which do, have no symmetry.

**Deadlock** checking is off: nothing has to happen in these systems, and the bounds stop every
behaviour sooner or later.

### What the runs show

* `registry`: the alias table is a ledger. Claims never pass from one device to another and end with
  the row, a name leaves a device's history only when it is recorded as another's, topics change hands
  only by relabelling or deletion, a repeated list is harmless, and availability is not
  touched by syncs but to take unlisted devices offline.
* `pipeline`: however syncs, renames on both sides, faults and restarts interleave, a stored reading is found
  under its device once the list on its way is consumed, unless the device was deleted, a list that named it failed or was
  skipped at a reconnect or restart, or the tag is a name of a device it has shared a name with; and when nothing is on its way labels and MQTT names agree,
  unless a request was lost or a name was shared. The lights of a rule are as the last opening or
midnight wants them, whatever the two threads did in between, and one opening switches a light on at most once, whatever is repeated,
lost or restarted: the contact is stored before the lights are switched, and an unknown contact is not a closed one.
* `polling`: however answers, failures and changes of target overlap, the page shows no older data after newer and no target's data as
another's. Event streams that come and go lose no change but one: when a stream closes while an event is being
published, the subscriber that moves up to the publisher's position is passed over. What a stream has been given reaches its client with fewer
threads than streams, also while threads wait for clients that have gone.
* `rename_target`: a rename names its device by the previous label. After a rename of A to B's MQTT name was refused, the
  next rename of A renames B.
* `old_topic`: after a rename that did not reach Zigbee2MQTT, giving the old name to another device
  takes over the topic of the first.
* `inherited_history`: a device that is given a name another device held first, and has given up, reads the points that were
  filed under it, although the alias still says whose they are.
* `light`: however clicks, polls, reports and switches at the wall overlap, the switch shows what
  the light does once everything has arrived, unless a message was lost or somebody else switched in one of the two
  cases below; a click made at rest is not turned back by late snapshots or failures; the switch is never left disabled.
* `pending_intent`: with clicks in quick succession the report that confirms an earlier
  click clears the intent of a later one that is still on its way, and the switch jumps back.
* `recipes`: progress is changed by cooking alone, whatever is stored, edited or reloaded, but for jumps between two steps pages, and the step shown
  exists; no lock outlives its page and the screen stays on; one form makes one recipe unless an answer
  was lost, and is saved to where it was loaded from, but for a form that was jumped into and has not got its recipe yet; lists come to rest on the filter that is selected;
  only what was confirmed is deleted; amounts are right up to the fractions' tolerance. In the database the
children of a recipe are those of its last save, whatever saves, deletes and failures overlap, because the flush locks the recipe first; its
columns too, unless another save was committed meanwhile.
* `dashboard`: a gesture made at rest is not turned back and a poll does not move a control under the finger; items end as last
  clicked; an arranged layout is kept; buttons of the device page are disabled exactly while their request is under way, and
  after a save the page does not show an older device; bars, badges and "last opened" tell the reported history;
  sections are headed by the device whose values they show.
* `confirmed_value`: with two gestures in flight a poll between their echoes moves the slider back, and the second echo is then
  taken for a confirmation of what is no longer shown: the slider stays wrong.
* `untouched_layout`: entering edit mode without a layout mounts the grid, which reports its own layout, and that is saved.

What the properties excuse is part of what they say. `NoOrphanedReadings` and `LabelsAgreeWhenQuiet` except devices that have shared a name:
say d1 publishes as n1, its rename to n2 is lost and d2 is then labelled n1; `_resolve` asks labels before aliases, and the readings of d1 go to d2.
`SwitchAgreesWhenQuiet` excepts lost messages, a switch by somebody else while a click is on its way, and one made later while an intent is
left over: after ON, OFF and both reports between two polls `device.state` has not changed on the page, so the effect that clears
the intent never ran, and the next change by others is hidden. `ControlsAgreeWhenQuiet` excepts a change polled during a gesture or taken
for an echo, what was lost, a wheel let go elsewhere than it was last moved, a change there and back between two polls, and a
command that overtook an older one. `ProgressIsKept` excepts entries from elsewhere or that could not be written, and a jump from one recipe's steps page to
another's, which takes the step of the second back to the length of the first and stores it.
`LayoutIsKept` excepts a full storage until a change is saved again, a reset that changed nothing on the
grid, after which the next change is not saved, and a grid mounted in edit mode without a layout (the finding above).
`LastClickWins` excepts requests for one item that overtake each other on different connections; `SavesWhatItLoaded` a form
that was jumped into, which is saved as the recipe it was jumped from until the recipe of the new address has come as the last load; forms opened afterwards are
not excused; `SectionsMeanTheirDevice` the
time until the request for the values has been answered; `NoLockOutlivesThePage` two acquisitions that overlap, of
which the ref can only hold one; `StoredRecipeIsOneSave` the columns of a save that another one overtook, which keep what that one wrote where
they were not changed; `StreamsTellEveryChange` the subscriber `publish` passes over; `LightsFollowTheRules` whatever failed. Each of these is what the code does, and each is named at its property.

**Fairness** is assumed where liveness is checked, and of what the runtime drives, never of a user, a device or a network peer.
`LightSpec`, for `SwitchComesBack`: weak fairness of the continuation of `handleToggle` (the POST is answered or fails) and of every
request on its own (the browser ends each with an answer or an error; `fetch` is not cancelled). Neither the
light, nor its reports, nor the interval is assumed to go on. `StreamsSpec`, for `EventsReachTheirClient`: the publisher walks its list to the
end, a free executor thread takes the next call, `events.get` returns or times out, and the event loop starts and
resumes streams; clients may stay or leave and devices may be silent. The other promises need none: the code retries
nothing, so they are of the form "whenever everything has arrived, then".

## 4. Proofs

`DeviceRegistryProofs` proves every property the `registry` run checks, for every set of addresses
and names, every `MaxId` and every list. The assumptions are `RegistryAssumption` (addresses are
names, finitely many; the null values are not names, types or addresses) and `RowAssumption` (a row is not
`NotRegistered`).

* The inductive invariant `RegistryInv` adds to the types that every alias points at a row that
  exists and that ids are distinct. Neither is needed by TLC, both are needed by induction: without the
  first a deleted device would keep names, without the second the lowest id would not be unique and
  `FindByFriendlyName` not determined.
* A sync is a function of the list. The lemmas `EntryFacts`, `SyncedListed`, `SyncedUnlisted`,
  `SyncedNames` say what it makes of a row and of a name; every theorem uses those and not the definitions.
  `LeastExists` gives the first entry that claims a name and the label with the lowest id;
  `FirstSeenCounts` shows that fresh ids are distinct.
* `ImplementsLedger` maps every step to a step of `NameLedger`: a delete to `Forget`, the rest to `Record`.
* `SyncIdempotence` computes the second pass from the result of the first.

`LightToggleProofs` begins with the hook and proves the three properties of the hook for every set of targets and all bounds.
The invariant says why numbering requests is enough: only the last request may write, what was shown
when it started is no newer than what the server reads for it later, and once the effect has run that request
is for the current target.

The round trip of a switch builds on them: `PollingStep` shows that every step of the round trip is a step of the
hook or leaves its variables alone, so `NextInv` and `ViewStep` carry over (`LightViewIsMonotonic`).
`LoneClickIsNotTurnedBack` needs an invariant over the queues: after a click at rest every command
and report on its way asks for what the click wanted, so the row changes at most once; the page is
either up to date or one change behind and still showing the intent. `SnapshotFacts` takes
from `PollingInv` that the one answer that may still be shown is from before or after that change.

`SwitchAgrees` needs more (`RoundTripInv`): once the last command has been obeyed without a loss (`Reached`), the last report on its way says what the light does, and
without one the row does (`RowFollows`); without an excuse the last command, posted, on its way or done, is the intent (`LightFollows`). At rest the queues are
empty and the two meet.

`TelemetryPipelineProofs` proves the two properties of the pipeline for any devices, threads and bounds.

* `PipelineInv` is `RegistryInv` with the types of all that is on its way. `PipelineRunsRegistry` is the reason the former carries over:
  every step is a step of the registry or leaves its tables alone.
* Nothing is assumed about names. `OwnedInv` says instead that whatever names a device (labels, aliases, messages, requests) uses a name it has borne,
  so that a name taken by another device shows in `borne`; and what has been borne stays so (`BearsStays`, `SharedStays`).
* `ReadingsAreFound` rests on `ReadingsInv`: a tag a reading of a device is, or may yet be, filed under (`Trace`) is in that device's
  history, or a list that says so is on its way, unless one of the exceptions holds (`Found`).
* `LabelsConverge` rests on `LabelsInv`: where label and MQTT name differ, a list is on its way or a rename is waiting that finds the
  device under its name of the moment, or a name has been shared (`Agrees`). `LastList` says that the newest list on its way is the retained one.

`CookModeProofs`: `CookInv` adds to the types that a page and its recipe come and go together (`PlaceOK`) and that the page shows what it would
read back from its entry, unless somebody else has touched that (`Agree`); reloads and navigation stutter because of the latter, and after a jump
page and entry agree on the step that was taken back.
`LightControlsProofs`: `GestureInv` says that a held control keeps the polls out
(`HeldOK`) and that the one command of a lone gesture is on its way or has arrived (`LoneOK`); `ControlsInv` adds that the last command about an
attribute carries what was last sent of it, for attributes without an excuse (`LastSentIsLast`), whatever the order they are served in, and what a control may show until it has arrived (`AgreeOK`).

`ThreadProofs`, about the door rule and the midnight rule:

* `LightsComeOnOncePerOpening` needs an invariant that pays for every turn of the loop before it is taken (`PaidFor`): the
  commands published for a light, the turn still left of the loop, and the turns the reports on their way may yet cause (`Debt`) are no
  more than the doors opened and the names handed over. `Debt` counts the reports of a closed contact that an open one follows
  (`Edges`), and one more if the rule will fire first (`Fires`); a report repeated or dropped leaves no edge that was not there.
* `LightsFollowTheRules`: a light that is due on is on once the commands on their way have arrived, or is in the loop, or a report
  is on its way that makes the rule fire (`OnOK`); one that is due off is off then, or in the loop of midnight, and nothing on its way makes the
  door rule fire for it (`OffOK`).

and about event streams: `StreamsInv` says that a stream is subscribed once (`SubscribedOnce`) and waits in one place (`OneCallEach`), that what it has
received, in the three places between the bus and its client, is in order, and that what it is owed is there or the publisher has still to come past
it (`ToCome`). `LeftOver` is what `list.remove` makes of a list whose items differ.

`RecipeProofs`:

* `StoreInv`: a transaction that has written a recipe holds its row until it ends (`OneHolder`, `HeldRecipe`); what it deletes is what is
  stored, what it inserts is what its job says (`DeletesOK`, `InsertsOK`), and the title it writes is its job's unless it was overtaken
  (`TitlesOK`).
* `WakeInv`: a page waits for one request or has one lock and the ref knows it (`OneOK`); a page that has gone does neither (`GoneOK`) and a visible
  one does (`HeldOK`).
* `FormInv`: a form for a new recipe is a credit that its one request spends; recipes made, requests not yet served and credits are no more than forms opened
  and answers lost (`CreditInv`). What a form that is not `astray` holds and sends is from the recipe of its address (`OriginInv`).
* `BrowseInv`: the newest query asks for what is selected, and a list that is neither loading nor failed answers it (`ListOK`); every delete on its
  way was confirmed. `ScaledAmount` and the lemmas after it bound the rounding of quantities for all natural amounts and servings; the fractions
  are shown within their tolerance.

`DashboardProofs`:

* `LayoutInv`: what the grid shows and the page has loaded in each mode (`GridOK`, `LoadedOK`), that the ref is set for a report under way
  (`SuppressOK`), and that a report that will be saved is about what the user arranged (`ReportOK`).
* `ListsInv`: a click that differs from the last wish for its item is older than one that does not (`WishOK`), and once no served call is unanswered
  the newest list is the server's (`FreshOK`).
* `ButtonsInv`: a handler is idle, has its one call under way, or awaits the one refresh that call asked for. `SavedInv`: what a save was answered with
  is on the server, in the newest answer, and on the page once that has arrived.
* `SectionsInv`: the newest request for values asks for the devices of the page; once it is answered, each value is its device's.
* `TimelineInv`: the card has all reports of one window that has ended (`points`), and later reports are after it. What `buildStateSegments`
  makes of the points is shown by induction over the instants of its loop: the segments up to an instant
  follow each other without a gap (`Row`), each says what had been reported (`Told`), and an inactive one starts with each opening
  (`OpenOK`). `LoopRuns` shows that the recursive function is defined at all, and `EveryNumber` stands for the induction rule: it is
  stated for a set of numbers where the library's rule is stated for an operator, and follows from the well-foundedness of `<`.

The assumptions of these modules keep special values apart from data and give constants their types (`CookAssumption`, `LightAssumption`,
`ControlAssumption`, `LayoutAssumption`, `PipelineAssumption`, `DeviceAssumption`, `ListAssumption`, `RecipeFormAssumption`,
`BrowseAssumption`). Four say more: lights are named once in each rule's settings (`AutomationAssumption`), the executor has a thread
(`StreamAssumption`), no tag is named twice in a save, since `_persist_tags` drops duplicates (`StoreAssumption`), and one range is the longest
(`TimelineAssumption`). TLC evaluates them all in the runs.

Model-checked only: the liveness properties `SwitchComesBack` and `EventsReachTheirClient`, since liveness under fairness and `ENABLED` are out of the
prover's reach. No module here declares a RECURSIVE operator.

## 5. Plan

The order was: registry and pipeline with the hook (`DeviceRegistry`, `TelemetryPipeline`, `Polling`), the pages that send commands
(`LightToggle`, `LightControls`), what browsers keep (`CookMode`, `WakeLock`, `RoomLayout`), the pages over shared
data (`SharedLists`, `DevicePage`, `Timeline`, `RoomSections`, `RecipeForm`, `RecipeBrowse`), then the backend's other threads (`Automation`,
`EventStreams`, `RecipeStore`). All of it is done. Left, most important first:

1. `MqttSession`: retained availability and device list, the order of subscriptions, bridge state, topics with levels. Availability in
   the registry converges to the retained value (liveness, weak fairness of the MQTT thread).
2. `RegistryIsolation`: the statements of a sync against a delete and a rename, the way `RecipeStore` does it for recipes.
3. `CommandPath`: check, route and publish against renames and availability, with the parsing of a command.
4. The fields of a reading: normalisation, the merge of `/latest`, the order of `/history`; pagination.

## 6. Not modelled

* Bridge state and health: one flag, set by one topic and read by two endpoints.
* Pagination: arithmetic on a page number.
* The text matching of the recipe search (the lists say which recipes match, not how), and the reads of a recipe: several statements without a transaction of their own, so a read that
  overlaps a save may be a mixture of two saves. Nothing in the code or its documents promises otherwise.
* The contents of readings, HTTP and JSON parsing, the conversion of colours.
* Rendering: the shell, the theme, dialogs, charts' curves, the grid of all devices; they keep no state that two steps relate.
* Dates of the calendar; its page is modelled as a shared list.
* The infrastructure: PostgreSQL, InfluxDB, Mosquitto and Zigbee2MQTT appear through what the backend relies on.
* The Quarkus backend, which the Python one replaces.

`PROJECT.json` gives the status of every component.
