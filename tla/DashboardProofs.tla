-------------------------- MODULE DashboardProofs ---------------------------
(***************************************************************************)
(* Proofs about the pages of the dashboard: the layout of the rooms for    *)
(* any layouts a user may arrange, the shared lists for any items and      *)
(* clients, the page of a device for any devices, the sections of a room   *)
(* for any devices in it, and the timeline for any ranges and reports.     *)
(***************************************************************************)
EXTENDS RoomSections, RoomLayout, SharedLists, DevicePage, Timeline,
        FiniteSetTheorems, TLAPS

-----------------------------------------------------------------------------
\* The layout of the rooms.

LayoutTypeOK ==
    /\ readings \in BOOLEAN /\ editing \in BOOLEAN /\ suppress \in BOOLEAN
    /\ report \in BOOLEAN /\ swallowed \in BOOLEAN /\ adopted \in BOOLEAN

\* The grid shows the layout of the page, or its own one; without a grid there is none.
GridOK ==
    /\ GridShown => grid = IF layouts = Absent THEN Automatic ELSE layouts
    /\ ~GridShown => grid = Absent /\ ~report

\* Until the rooms are loaded the page has the layout it has read, or none after a reset.
LoadedOK == ~readings => layouts = wished /\ ~adopted

\* The ref is set only for a report that is under way, or has been forgotten.
SuppressOK == suppress => swallowed \/ report

\* A report that will be saved is about what the user has arranged.
ReportOK ==
    report /\ editing /\ ~suppress /\ ~swallowed /\ ~adopted => grid = wished

LayoutInv ==
    /\ LayoutTypeOK /\ wished # Broken
    /\ GridOK /\ LoadedOK /\ SuppressOK /\ ReportOK /\ LayoutIsKept

LEMMA LoadFacts == /\ \A e : e # Broken => LoadRoomLayout(e) = e
                   /\ \A e : LoadRoomLayout(e) # Broken
  BY LayoutAssumption DEF LoadRoomLayout

LEMMA LayoutStart == LayoutInit => LayoutInv
  BY LayoutAssumption, LoadFacts
  DEF LayoutInit, LayoutInv, LayoutTypeOK, GridShown, GridOK, LoadedOK, SuppressOK, ReportOK,
      LayoutIsKept, LoadRoomLayout

\* The grid after the page has changed under it.
LEMMA FollowFacts ==
  ASSUME Follow, readings' \in BOOLEAN, editing' \in BOOLEAN
  PROVE  /\ GridOK' /\ report' \in BOOLEAN
         /\ report' => GridShown' /\ grid' # grid
         /\ GridShown' /\ ~report' => grid' = grid
<1>1. CASE GridShown'
  <2>1. /\ grid' = IF layouts' = Absent THEN Automatic ELSE layouts'
        /\ report' = (grid # grid')
    BY <1>1 DEF Follow
  <2>2. GridOK'
    BY <1>1, <2>1 DEF GridOK
  <2>3. report' \in BOOLEAN /\ (report' <=> grid # grid')
    BY <2>1
  <2>4. QED
    BY <1>1, <2>2, <2>3
<1>2. CASE ~GridShown'
  BY <1>2 DEF Follow, GridOK
<1>3. QED
  BY <1>1, <1>2

LEMMA ReportStep ==
  ASSUME LayoutInv, Report
  PROVE  LayoutInv'
<1>1. /\ report /\ GridShown /\ readings /\ layouts' = grid /\ report' = FALSE /\ grid # Absent
      /\ UNCHANGED <<readings, editing, grid, wished, swallowed, adopted>>
  BY LayoutAssumption DEF LayoutInv, GridOK, GridShown, Report, HandleLayoutChange
<1>2. GridShown' /\ GridOK'
  BY <1>1 DEF GridShown, GridOK
<1>3. suppress' \in BOOLEAN /\ LayoutTypeOK'
  BY <1>1 DEF Report, HandleLayoutChange, LayoutInv, LayoutTypeOK
<1>4. SuppressOK'
  BY <1>1 DEF Report, HandleLayoutChange, Suppressed, LayoutInv, LayoutTypeOK, SuppressOK
<1>5. LayoutIsKept'
  BY <1>1, LoadFacts
  DEF Report, HandleLayoutChange, Suppressed, LayoutInv, LayoutTypeOK, ReportOK, LayoutIsKept
<1>6. QED
  BY <1>1, <1>2, <1>3, <1>4, <1>5 DEF LayoutInv, LoadedOK, ReportOK

LEMMA ArrangeStep ==
  ASSUME LayoutInv, NEW l \in Arranged, NEW fits \in BOOLEAN, Arrange(l, fits)
  PROVE  LayoutInv'
<1>1. /\ ~report /\ GridShown /\ readings /\ editing /\ layouts' = l /\ grid' = l /\ wished' = l
      /\ swallowed' = ((swallowed /\ suppress) \/ ~fits) /\ adopted' = FALSE
      /\ l # Absent /\ l # Broken
      /\ UNCHANGED <<readings, editing, report>>
  BY LayoutAssumption DEF Arrange, HandleLayoutChange, GridShown
<1>2. GridOK' /\ LoadedOK'
  BY <1>1 DEF GridShown, GridOK, LoadedOK
<1>3. suppress' = FALSE /\ (swallowed' \/ layoutEntry' = l)
  BY <1>1 DEF Arrange, HandleLayoutChange, Suppressed, LayoutInv, LayoutTypeOK, SuppressOK
<1>4. QED
  BY <1>1, <1>2, <1>3, LoadFacts
  DEF LayoutInv, LayoutTypeOK, SuppressOK, ReportOK, LayoutIsKept

LEMMA ResetStep ==
  ASSUME LayoutInv, HandleReset
  PROVE  LayoutInv'
<1>1. /\ layoutEntry' = Absent /\ suppress' = TRUE /\ layouts' = Absent /\ wished' = Absent
      /\ UNCHANGED <<readings, editing>> /\ Follow
      /\ swallowed' = ~report' /\ adopted' = FALSE
  BY DEF HandleReset
<1>2. GridOK' /\ report' \in BOOLEAN
  BY <1>1, FollowFacts DEF LayoutInv, LayoutTypeOK
<1>3. QED
  BY <1>1, <1>2, LoadFacts, LayoutAssumption
  DEF LayoutInv, LayoutTypeOK, LoadedOK, SuppressOK, ReportOK, LayoutIsKept

\* The page is switched to or from edit mode, or the rooms arrive.
LEMMA ShowStep ==
  ASSUME LayoutInv, ToggleEditing \/ ReadingsArrive
  PROVE  LayoutInv'
<1>1. /\ ~report /\ UNCHANGED <<layouts, suppress, layoutEntry, wished, swallowed>> /\ Follow
      /\ readings' \in BOOLEAN /\ editing' \in BOOLEAN
      /\ adopted' = (adopted \/ (report' /\ editing' /\ layouts = Absent))
      /\ readings => readings'
  BY DEF ToggleEditing, ReadingsArrive, LayoutInv, LayoutTypeOK, GridOK, GridShown
<1>2. /\ GridOK' /\ report' \in BOOLEAN
      /\ report' => GridShown' /\ grid' # grid
  BY <1>1, FollowFacts
<1>3. ASSUME report', layouts # Absent PROVE grid' = wished
  <2>1. grid' = layouts /\ grid # layouts
    BY <1>1, <1>2, <1>3 DEF GridOK
  <2>2. ~GridShown
    BY <1>3, <2>1 DEF LayoutInv, GridOK
  <2>3. ~readings
    BY <1>3, <2>2 DEF GridShown
  <2>4. QED
    BY <2>1, <2>3 DEF LayoutInv, LoadedOK
<1>4. ReportOK'
  BY <1>1, <1>3 DEF ReportOK
<1>5. readings \/ (~adopted /\ layouts = wished)
  BY DEF LayoutInv, LoadedOK
<1>6. LoadedOK'
  <2>1. ~readings' => ~report'
    BY <1>2 DEF GridShown
  <2>2. QED
    BY <1>1, <1>5, <2>1 DEF LoadedOK
<1>7. QED
  BY <1>1, <1>2, <1>4, <1>6
  DEF LayoutInv, LayoutTypeOK, SuppressOK, LayoutIsKept

LEMMA ReloadStep ==
  ASSUME LayoutInv, ReloadLayout \/ ReportFails
  PROVE  LayoutInv'
<1>0. Load
  BY DEF ReloadLayout, ReportFails
<1>1. GridOK'
  BY <1>0 DEF Load, GridOK, GridShown
<1>2. LayoutIsKept' /\ wished' # Broken
  BY <1>0, LoadFacts DEF Load, LayoutIsKept
<1>3. QED
  BY <1>0, <1>1, <1>2 DEF Load, LayoutInv, LayoutTypeOK, LoadedOK, SuppressOK, ReportOK

THEOREM LayoutInvariance == LayoutSpec => []LayoutInv
<1>1. LayoutInv /\ [LayoutNext]_layoutVars => LayoutInv'
  <2>1. LayoutInv /\ LayoutNext => LayoutInv'
    BY ReportStep, ArrangeStep, ResetStep, ShowStep, ReloadStep DEF LayoutNext
  <2>2. LayoutInv /\ UNCHANGED layoutVars => LayoutInv'
    BY DEF layoutVars, LayoutInv, LayoutTypeOK, GridOK, GridShown, LoadedOK, SuppressOK, ReportOK,
           LayoutIsKept
  <2>3. QED
    BY <2>1, <2>2
<1>2. QED
  BY <1>1, LayoutStart, PTL DEF LayoutSpec

\* What the user has arranged survives a reload, whatever the grid reports by itself, but
\* for the two exceptions the property names.
THEOREM ArrangedLayoutIsKept == LayoutSpec => []LayoutIsKept
<1>1. LayoutInv => LayoutIsKept
  BY DEF LayoutInv
<1>2. QED
  BY <1>1, LayoutInvariance, PTL

-----------------------------------------------------------------------------
\* The shared lists.

ListCall ==
    [op : {"post", "put", "delete", "clear"}, id : 0..MaxItems, done : BOOLEAN,
     served : BOOLEAN, nr : Nat]

ListsTypeOK ==
    /\ items \subseteq Item /\ created \in Nat
    /\ onPage \in {NoList} \cup SUBSET Item
    /\ listing \in {Idle, Unserved} \cup SUBSET Item
    /\ calls \subseteq ListCall
    /\ clicks \in Nat
    /\ intent \in [ItemIds -> BOOLEAN \cup {NoList}]
    /\ stale \in BOOLEAN

\* Nothing is known of an item that has not been created yet, and calls are numbered as they come.
IdsOK ==
    /\ \A i \in items : i.id <= created
    /\ onPage # NoList => \A i \in onPage : i.id <= created
    /\ listing \notin {Idle, Unserved} => \A i \in listing : i.id <= created
    /\ \A k \in ItemIds : intent[k] # NoList => k <= created
    /\ \A c \in calls : c.nr < clicks

\* Once the calls that were served are answered, the newest list is the one of the server.
FreshOK ==
    ~stale /\ (\A c \in calls : ~c.served) /\ listing # Unserved =>
        items = IF listing = Idle THEN onPage ELSE listing

\* The wishes for item k the server has not looked at.
Wishes(k) == {c \in calls : c.op = "put" /\ ~c.served /\ c.id = k}

\* The item, while it is there, is what it was last clicked to, or will be: a wish that differs
\* from it is older than one that does not.
WishOK(k) ==
    k \notin meddled /\ intent[k] # NoList /\ (\E i \in items : i.id = k) =>
        /\ Wishes(k) = {} => \A i \in items : i.id = k => i.done = intent[k]
        /\ \A c \in Wishes(k) :
              c.done = intent[k] \/ \E d \in Wishes(k) : c.nr < d.nr /\ d.done = intent[k]

ListsInv == ListsTypeOK /\ IdsOK /\ FreshOK /\ \A k \in ItemIds : WishOK(k)

LEMMA ListsStart == ListsInit => ListsInv
<1> SUFFICES ASSUME ListsInit PROVE ListsInv
  OBVIOUS
<1>1. ListsTypeOK
  <2>1. items \subseteq Item
    BY ListAssumption DEF ListsInit, Item, ItemIds
  <2>2. intent \in [ItemIds -> BOOLEAN \cup {NoList}] /\ stale \in BOOLEAN
    BY Zenon DEF ListsInit
  <2>3. QED
    BY <2>1, <2>2 DEF ListsInit, ListsTypeOK
<1>2. IdsOK
  BY DEF ListsInit, IdsOK
<1>3. FreshOK
  BY DEF ListsInit, FreshOK
<1>4. \A k \in ItemIds : WishOK(k)
  BY DEF ListsInit, WishOK
<1>5. QED
  BY <1>1, <1>2, <1>3, <1>4 DEF ListsInv

\* The list is asked for, arrives or does not.
LEMMA ListStep ==
  ASSUME ListsInv, PollItems \/ ListServed \/ ListAnswered \/ ListRequestFails
  PROVE  ListsInv'
<1>1. ListsTypeOK /\ IdsOK /\ FreshOK
  BY DEF ListsInv
<1>2. UNCHANGED <<items, created, calls, intent, meddled>> /\ clicks' \in {clicks, clicks + 1}
  BY DEF PollItems, ListServed, ListAnswered, ListRequestFails, Gesture, Untouched
<1>3. ListsTypeOK'
  <2>1. stale' \in {stale, TRUE, FALSE}
    BY Zenon DEF PollItems, ListServed, ListAnswered, ListRequestFails, Untouched
  <2>2. stale' \in BOOLEAN
    BY <1>1, <2>1 DEF ListsTypeOK
  <2>3. /\ onPage' \in {NoList} \cup SUBSET Item
        /\ listing' \in {Idle, Unserved} \cup SUBSET Item
    BY <1>1 DEF ListsTypeOK, PollItems, ListServed, ListAnswered, ListRequestFails
  <2>4. QED
    BY <1>1, <1>2, <2>2, <2>3 DEF ListsTypeOK
<1>4. IdsOK'
  BY <1>1, <1>2
  DEF ListsTypeOK, IdsOK, PollItems, ListServed, ListAnswered, ListRequestFails, ListCall
<1>5. FreshOK'
  <2>1. CASE PollItems \/ ListRequestFails
    BY <1>1, <2>1 DEF FreshOK, PollItems, ListRequestFails
  <2>2. CASE ListServed
    <3>1. listing' = items /\ items' = items
      BY <2>2 DEF ListServed
    <3>2. items \notin {Idle, Unserved}
      BY <1>1, ListAssumption DEF ListsTypeOK
    <3>3. QED
      BY <3>1, <3>2 DEF FreshOK
  <2>3. CASE ListAnswered
    BY <1>1, <2>3 DEF FreshOK, ListAnswered, Untouched
  <2>4. QED
    BY <2>1, <2>2, <2>3
<1>6. ASSUME NEW k \in ItemIds PROVE WishOK(k)'
  BY <1>2 DEF ListsInv, WishOK, Wishes
<1>7. QED
  BY <1>3, <1>4, <1>5, <1>6 DEF ListsInv

\* A handler sends its request; a toggle also says what the item is wished to be.
LEMMA CallSent ==
  ASSUME ListsInv, NEW op \in {"post", "put", "delete", "clear"}, NEW id \in 0..MaxItems,
         NEW wish \in BOOLEAN, Call(op, id, wish),
         \/ op # "put" /\ intent' = intent
         \/ /\ op = "put" /\ id \in ItemIds /\ id <= created
            /\ intent' = [intent EXCEPT ![id] = wish]
  PROVE  ListsInv'
<1> DEFINE new == [op |-> op, id |-> id, done |-> wish, served |-> FALSE, nr |-> clicks]
<1>1. ListsTypeOK /\ IdsOK /\ FreshOK
  BY DEF ListsInv
<1>2. /\ calls' = calls \cup {new} /\ clicks' = clicks + 1
      /\ UNCHANGED <<listKind, items, created, onPage, listing, meddled, stale>>
  BY DEF Call, Gesture
<1>3. new \in ListCall /\ new.op = op /\ new.id = id /\ new.done = wish /\ ~new.served
      /\ new.nr = clicks
  BY <1>1 DEF ListCall, ListsTypeOK
<1> HIDE DEF new
<1>4. ListsTypeOK'
  BY <1>1, <1>2, <1>3 DEF ListsTypeOK
<1>5. IdsOK'
  <2>1. \A k \in ItemIds : intent'[k] # NoList => k <= created
    BY <1>1, <1>2 DEF IdsOK, ListsTypeOK
  <2>2. \A c \in calls' : c.nr < clicks'
    BY <1>1, <1>2, <1>3 DEF IdsOK, ListsTypeOK, ListCall
  <2>3. QED
    BY <1>1, <1>2, <2>1, <2>2 DEF IdsOK
<1>6. FreshOK'
  BY <1>1, <1>2, <1>3 DEF FreshOK
<1>7. ASSUME NEW k \in ItemIds PROVE WishOK(k)'
  <2>1. WishOK(k)
    BY DEF ListsInv
  <2>2. CASE op = "put" /\ k = id
    <3>1. intent'[k] = wish /\ Wishes(k)' = Wishes(k) \cup {new}
      BY <1>1, <1>2, <1>3, <2>2 DEF Wishes, ListsTypeOK
    <3>2. \A c \in Wishes(k) : c.nr < new.nr
      BY <1>1, <1>3 DEF Wishes, IdsOK
    <3>3. QED
      BY <1>3, <3>1, <3>2 DEF WishOK
  <2>3. CASE ~(op = "put" /\ k = id)
    <3>1. Wishes(k)' = Wishes(k)
      BY <1>2, <1>3, <2>3 DEF Wishes
    <3>2. intent'[k] = intent[k]
      BY <1>1, <2>3 DEF ListsTypeOK
    <3>3. QED
      BY <1>2, <2>1, <3>1, <3>2 DEF WishOK
  <2>4. QED
    BY <2>2, <2>3
<1>8. QED
  BY <1>4, <1>5, <1>6, <1>7 DEF ListsInv

LEMMA RowFacts ==
  ASSUME ListsInv, onPage # NoList, NEW i \in onPage
  PROVE  i.id \in ItemIds /\ i.id \in 0..MaxItems /\ i.id <= created /\ (~i.done) \in BOOLEAN
<1>1. i \in Item /\ i.id <= created
  BY DEF ListsInv, ListsTypeOK, IdsOK
<1>2. i.id \in ItemIds
  BY <1>1 DEF Item
<1>3. i.id \in 0..MaxItems
  BY <1>2, ListAssumption DEF ItemIds
<1>4. (~i.done) \in BOOLEAN
  BY Zenon
<1>5. QED
  BY <1>1, <1>2, <1>3, <1>4, Zenon

LEMMA PageStep ==
  ASSUME ListsInv, onPage # NoList, ShoppingListPage \/ TodoListPage \/ CalendarPage
  PROVE  ListsInv'
<1>1. \/ Call("post", 0, FALSE) /\ intent' = intent
      \/ Call("clear", 0, FALSE) /\ intent' = intent
      \/ \E i \in onPage :
            \/ Call("delete", i.id, FALSE) /\ intent' = intent
            \/ Call("put", i.id, ~i.done) /\ intent' = [intent EXCEPT ![i.id] = ~i.done]
  BY Zenon
  DEF ShoppingListPage, TodoListPage, CalendarPage, NewShoppingItem, NewTodoItem,
      NewCalendarEvent, NewItem, ClearDone, ShoppingItemRow, TodoItemRow, CalendarEventRow,
      Toggle, Delete
<1>2. 0 \in 0..MaxItems /\ FALSE \in BOOLEAN
  BY ListAssumption
<1>3. CASE Call("post", 0, FALSE) /\ intent' = intent
  BY <1>2, <1>3, CallSent
<1>4. CASE Call("clear", 0, FALSE) /\ intent' = intent
  BY <1>2, <1>4, CallSent
<1>5. ASSUME NEW i \in onPage, Call("delete", i.id, FALSE), intent' = intent PROVE ListsInv'
  <2>1. PICK k \in 0..MaxItems : k = i.id
    BY <1>5, RowFacts
  <2>2. Call("delete", k, FALSE)
    BY <1>5, <2>1
  <2>3. QED
    BY <1>2, <1>5, <2>2, CallSent
<1>6. ASSUME NEW i \in onPage, Call("put", i.id, ~i.done),
             intent' = [intent EXCEPT ![i.id] = ~i.done]
      PROVE  ListsInv'
  <2>1. PICK k \in ItemIds, wish \in BOOLEAN : k = i.id /\ wish = ~i.done
    BY <1>6, RowFacts
  <2>2. k \in 0..MaxItems /\ k <= created
    BY <2>1, RowFacts
  <2>3. Call("put", k, wish) /\ intent' = [intent EXCEPT ![k] = wish]
    BY <1>6, <2>1
  <2>4. QED
    BY <2>1, <2>2, <2>3, CallSent
<1>7. QED
  BY <1>1, <1>3, <1>4, <1>5, <1>6

\* What the server makes of a command for the other items.
LEMMA AppliedFacts ==
  ASSUME ListsInv, NEW c \in calls, c.op = "post" => created < MaxItems
  PROVE  /\ Applied(c) \subseteq Item
         /\ \A i \in Applied(c) :
               \/ \E j \in items : j.id = i.id /\ j.done = i.done /\ ~(c.op = "put" /\ c.id = i.id)
               \/ c.op = "put" /\ i.id = c.id /\ i.done = c.done
                     /\ \E j \in items : j.id = i.id
               \/ c.op = "post" /\ i.id = created + 1
<1>1. c \in ListCall /\ items \subseteq Item /\ created \in Nat
  BY DEF ListsInv, ListsTypeOK
<1>2. CASE c.op = "put"
  <2>1. Applied(c) = {IF i.id = c.id THEN [i EXCEPT !.done = c.done] ELSE i : i \in items}
    BY <1>2 DEF Applied
  <2>2. ASSUME NEW j \in items
        PROVE  /\ j \in Item
               /\ j.id = c.id => /\ [j EXCEPT !.done = c.done] \in Item
                                 /\ [j EXCEPT !.done = c.done].id = j.id
                                 /\ [j EXCEPT !.done = c.done].done = c.done
    BY <1>1 DEF Item, ListCall
  <2>3. QED
    BY <1>2, <2>1, <2>2
<1>3. CASE c.op = "post"
  <2>1. Applied(c) = items \cup {[id |-> created + 1, done |-> FALSE]}
    BY <1>3 DEF Applied
  <2>2. created + 1 \in ItemIds
    BY <1>1, <1>3, ListAssumption DEF ItemIds
  <2>3. [id |-> created + 1, done |-> FALSE] \in Item
    BY <2>2 DEF Item
  <2>4. ASSUME NEW i \in Applied(c)
        PROVE  \/ i \in items /\ ~(c.op = "put" /\ c.id = i.id)
               \/ c.op = "post" /\ i.id = created + 1
    BY <1>3, <2>1, <2>4
  <2>5. Applied(c) \subseteq Item
    BY <1>1, <2>1, <2>3
  <2>6. QED
    BY <2>4, <2>5, Zenon
<1>4. CASE c.op \in {"delete", "clear"}
  <2>1. Applied(c) \subseteq items
    BY <1>4 DEF Applied
  <2>2. QED
    BY <1>1, <1>4, <2>1
<1>5. QED
  BY <1>1, <1>2, <1>3, <1>4 DEF ListCall

LEMMA ServeStep ==
  ASSUME ListsInv, NEW c \in calls, CallServed(c)
  PROVE  ListsInv'
<1> DEFINE answered == [c EXCEPT !.served = TRUE]
<1>1. ListsTypeOK /\ IdsOK /\ FreshOK /\ c \in ListCall
  BY DEF ListsInv, ListsTypeOK
<1>2. /\ ~c.served /\ (c.op = "post" => created < MaxItems)
      /\ items' = Applied(c)
      /\ created' = created + (IF c.op = "post" THEN 1 ELSE 0)
      /\ calls' = (calls \ {c}) \cup {answered}
      /\ meddled' = meddled \cup (IF Overtakes(c) THEN {c.id} ELSE {})
      /\ UNCHANGED <<onPage, listing, clicks, intent, stale>>
  BY DEF CallServed
<1>3. answered \in ListCall /\ answered.served /\ answered.nr = c.nr
  BY <1>1 DEF ListCall
<1> HIDE DEF answered
<1>4. /\ items' \subseteq Item
      /\ \A i \in items' :
            \/ \E j \in items : j.id = i.id /\ j.done = i.done /\ ~(c.op = "put" /\ c.id = i.id)
            \/ c.op = "put" /\ i.id = c.id /\ i.done = c.done /\ \E j \in items : j.id = i.id
            \/ c.op = "post" /\ i.id = created + 1
  BY <1>2, AppliedFacts
<1>5. created' \in Nat /\ created <= created' /\ (c.op = "post" => created' = created + 1)
  BY <1>1, <1>2 DEF ListsTypeOK
<1>6. ListsTypeOK'
  BY <1>1, <1>2, <1>3, <1>4, <1>5 DEF ListsTypeOK
<1>7. IdsOK'
  <2>1. \A n \in Int : n <= created => n <= created'
    BY <1>1, <1>5 DEF ListsTypeOK
  <2>2. \A i \in Item : i.id \in Int
    BY ListAssumption DEF Item, ItemIds
  <2>3. ASSUME NEW i \in items' PROVE i.id <= created'
    <3>1. CASE c.op = "post" /\ i.id = created + 1
      BY <1>1, <1>5, <3>1 DEF ListsTypeOK
    <3>2. CASE \E j \in items : j.id = i.id
      BY <1>1, <2>1, <2>2, <3>2 DEF IdsOK, ListsTypeOK
    <3>3. QED
      BY <1>4, <3>1, <3>2
  <2>4. onPage # NoList => \A i \in onPage : i.id <= created'
    BY <1>1, <2>1, <2>2 DEF IdsOK, ListsTypeOK
  <2>5. listing \notin {Idle, Unserved} => \A i \in listing : i.id <= created'
    BY <1>1, <2>1, <2>2 DEF IdsOK, ListsTypeOK
  <2>6. \A k \in ItemIds : intent[k] # NoList => k <= created'
    BY <1>1, <2>1 DEF IdsOK, ItemIds
  <2>7. \A d \in calls' : d.nr < clicks
    BY <1>1, <1>2, <1>3 DEF IdsOK
  <2>8. QED
    BY <1>2, <2>3, <2>4, <2>5, <2>6, <2>7 DEF IdsOK
<1>8. FreshOK'
  BY <1>2, <1>3 DEF FreshOK
<1>9. ASSUME NEW k \in ItemIds PROVE WishOK(k)'
  <2> SUFFICES ASSUME k \notin meddled', intent[k] # NoList, \E i \in items' : i.id = k
               PROVE  /\ Wishes(k)' = {} => \A i \in items' : i.id = k => i.done = intent[k]
                      /\ \A w \in Wishes(k)' :
                            \/ w.done = intent[k]
                            \/ \E d \in Wishes(k)' : w.nr < d.nr /\ d.done = intent[k]
    BY <1>2 DEF WishOK
  <2>0. k # created + 1
    BY <1>1 DEF IdsOK, ListsTypeOK, ItemIds
  <2>1. /\ Wishes(k) = {} => \A i \in items : i.id = k => i.done = intent[k]
        /\ \A w \in Wishes(k) :
              w.done = intent[k] \/ \E d \in Wishes(k) : w.nr < d.nr /\ d.done = intent[k]
    <3>1. \E i \in items : i.id = k
      BY <1>4, <2>0
    <3>2. QED
      BY <1>2, <3>1 DEF ListsInv, WishOK
  <2>2. Wishes(k)' = Wishes(k) \ {c}
    BY <1>2, <1>3 DEF Wishes
  <2>3. c \in Wishes(k) <=> c.op = "put" /\ c.id = k
    BY <1>2 DEF Wishes
  <2>5. ASSUME Wishes(k)' = {}, NEW i \in items', i.id = k PROVE i.done = intent[k]
    <3>1. CASE c \in Wishes(k)
      <4>1. Wishes(k) = {c} /\ c.nr \in Nat
        BY <1>1, <2>2, <2>5, <3>1 DEF ListCall
      <4>2. c.done = intent[k]
        BY <2>1, <4>1
      <4>3. QED
        BY <1>4, <2>0, <2>3, <2>5, <3>1, <4>2
    <3>2. CASE c \notin Wishes(k)
      BY <1>4, <2>0, <2>1, <2>2, <2>3, <2>5, <3>2
    <3>3. QED
      BY <3>1, <3>2
  <2>6. ASSUME NEW w \in Wishes(k)', w.done # intent[k]
        PROVE  \E d \in Wishes(k)' : w.nr < d.nr /\ d.done = intent[k]
    <3>1. PICK d \in Wishes(k) : w.nr < d.nr /\ d.done = intent[k]
      BY <2>1, <2>2, <2>6
    <3>2. d # c
      <4> SUFFICES ASSUME d = c PROVE FALSE
        OBVIOUS
      <4>1. /\ w \in calls /\ ~w.served /\ w.nr < c.nr /\ w.op = "put" /\ c.op = "put"
            /\ w.id = c.id /\ w.done # c.done /\ c.id = k
        BY <2>2, <2>6, <3>1 DEF Wishes
      <4>2. Overtakes(c)
        BY <4>1 DEF Overtakes
      <4>3. QED
        BY <1>2, <4>1, <4>2
    <3>3. QED
      BY <2>2, <3>1, <3>2
  <2>7. QED
    BY <2>5, <2>6
<1>10. QED
  BY <1>6, <1>7, <1>8, <1>9 DEF ListsInv

LEMMA AnswerStep ==
  ASSUME ListsInv, NEW c \in calls, CallAnswered(c) \/ CallRefused(c) \/ CallFails(c)
  PROVE  ListsInv'
<1>1. ListsTypeOK /\ IdsOK /\ FreshOK /\ c \in ListCall
  BY DEF ListsInv, ListsTypeOK
<1>2. /\ calls' = calls \ {c} /\ meddled \subseteq meddled' /\ clicks' \in {clicks, clicks + 1}
      /\ UNCHANGED <<items, created, onPage, intent>>
  BY DEF CallAnswered, CallRefused, CallFails, Gesture, Untouched
<1>3. ListsTypeOK'
  BY <1>1, <1>2 DEF ListsTypeOK, CallAnswered, CallRefused, CallFails, ListCall, Untouched
<1>4. IdsOK'
  BY <1>1, <1>2 DEF ListsTypeOK, IdsOK, CallAnswered, CallRefused, CallFails, ListCall
<1>5. FreshOK'
  <2>1. CASE CallAnswered(c)
    BY <2>1 DEF FreshOK, CallAnswered
  <2>2. CASE CallFails(c) /\ c.served
    BY <1>1, <2>2 DEF FreshOK, CallFails, ListsTypeOK
  <2>3. CASE CallFails(c) /\ ~c.served
    BY <1>1, <1>2, <2>3 DEF FreshOK, CallFails, ListsTypeOK
  <2>4. CASE CallRefused(c)
    BY <1>1, <1>2, <2>4 DEF FreshOK, CallRefused, Untouched
  <2>5. QED
    BY <2>1, <2>2, <2>3, <2>4
<1>6. ASSUME NEW k \in ItemIds PROVE WishOK(k)'
  <2>1. WishOK(k)
    BY DEF ListsInv
  <2>2. CASE c \notin Wishes(k)
    <3>1. Wishes(k)' = Wishes(k)
      BY <1>2, <2>2 DEF Wishes
    <3>2. QED
      BY <1>2, <2>1, <3>1 DEF WishOK
  <2>3. CASE c \in Wishes(k)
    <3>1. (CallFails(c) \/ CallRefused(c)) /\ c.id = k
      BY <2>3 DEF Wishes, CallAnswered
    <3>2. CASE CallFails(c)
      BY <3>1, <3>2 DEF CallFails, WishOK
    <3>3. CASE CallRefused(c)
      BY <1>2, <2>3, <3>1, <3>3 DEF CallRefused, Refused, Wishes, WishOK
    <3>4. QED
      BY <3>1, <3>2, <3>3
  <2>4. QED
    BY <2>2, <2>3
<1>7. QED
  BY <1>3, <1>4, <1>5, <1>6 DEF ListsInv

LEMMA OtherStep ==
  ASSUME ListsInv, NEW i \in items, OtherClient(i)
  PROVE  ListsInv'
<1> DEFINE turned == [i EXCEPT !.done = ~@]
<1>1. ListsTypeOK /\ IdsOK /\ i \in Item
  BY DEF ListsInv, ListsTypeOK
<1>2. /\ items' \in {items \ {i}, (items \ {i}) \cup {turned}}
      /\ meddled' = meddled \cup {i.id} /\ stale' = TRUE /\ clicks' = clicks + 1
      /\ UNCHANGED <<created, onPage, listing, calls, intent>>
  BY DEF OtherClient, Gesture
<1>3. turned \in Item /\ turned.id = i.id
  BY <1>1 DEF Item
<1> HIDE DEF turned
<1>4. ListsTypeOK'
  BY <1>1, <1>2, <1>3 DEF ListsTypeOK
<1>5. IdsOK'
  <2>1. \A j \in items' : j.id <= created
    BY <1>1, <1>2, <1>3 DEF IdsOK
  <2>2. \A c \in calls : c.nr < clicks + 1
    BY <1>1 DEF IdsOK, ListsTypeOK, ListCall
  <2>3. QED
    BY <1>1, <1>2, <2>1, <2>2 DEF IdsOK
<1>6. FreshOK'
  BY <1>2 DEF FreshOK
<1>7. ASSUME NEW k \in ItemIds PROVE WishOK(k)'
  BY <1>2, <1>3 DEF ListsInv, WishOK, Wishes
<1>8. QED
  BY <1>4, <1>5, <1>6, <1>7 DEF ListsInv

\* The inductive invariant of the lists: what is known of items and calls, that the newest list is
\* the one of the server, and that the newest wish for an item is the last click on it.
THEOREM ListsInvariance == ListsSpec => []ListsInv
<1>1. ListsInv /\ [ListsNext]_listsVars => ListsInv'
  <2> SUFFICES ASSUME ListsInv, [ListsNext]_listsVars PROVE ListsInv'
    OBVIOUS
  <2>1. ASSUME NEW f, Type(f) PROVE ListsInv'
    <3>1. UNCHANGED <<items, created, onPage, listing, calls, intent, meddled, stale>>
          /\ clicks' = clicks + 1
      BY <2>1 DEF Type, Gesture, Untouched
    <3>2. ListsTypeOK' /\ IdsOK' /\ FreshOK'
      BY <3>1 DEF ListsInv, ListsTypeOK, IdsOK, FreshOK, ListCall
    <3>3. \A k \in ItemIds : WishOK(k)'
      BY <3>1 DEF ListsInv, WishOK, Wishes
    <3>4. QED
      BY <3>2, <3>3 DEF ListsInv
  <2>2. CASE UNCHANGED listsVars
    BY <2>2 DEF listsVars, ListsInv, ListsTypeOK, IdsOK, FreshOK, WishOK, Wishes
  <2>3. QED
    BY <2>1, <2>2, ListStep, PageStep, ServeStep, AnswerStep, OtherStep DEF ListsNext
<1>2. QED
  BY <1>1, ListsStart, PTL DEF ListsSpec

\* For any clients and any order in which requests are served, an item ends up as it was last
\* clicked (handleToggle of ShoppingListPage and TodoListPage).
THEOREM LastClick == ListsSpec => []LastClickWins
<1>1. ListsInv => LastClickWins
  <2> SUFFICES ASSUME ListsInv, calls = {}, NEW i \in items, i.id \notin meddled,
                      intent[i.id] # NoList
               PROVE  i.done = intent[i.id]
    BY DEF LastClickWins
  <2>1. i.id \in ItemIds
    BY DEF ListsInv, ListsTypeOK, Item
  <2>2. Wishes(i.id) = {}
    BY DEF Wishes
  <2>3. QED
    BY <2>1, <2>2 DEF ListsInv, WishOK
<1>2. QED
  BY <1>1, ListsInvariance, PTL

\* When everything is answered the page shows the list of the server (the refresh after each
\* command), for any number of items and commands.
THEOREM ListIsFresh == ListsSpec => []ListIsFreshWhenQuiet
<1>1. ListsInv => ListIsFreshWhenQuiet
  BY ListAssumption DEF ListsInv, FreshOK, ListIsFreshWhenQuiet
<1>2. QED
  BY <1>1, ListsInvariance, PTL

-----------------------------------------------------------------------------
(***************************************************************************)
(* The sections of a room.                                                 *)
(***************************************************************************)
\* The newest request asks for the devices of the page, and once it is answered every value of
\* a device of the page is its own.
SectionsInv ==
    /\ latestSent \in {{}, {roomDevices}}
    /\ latestSent = {} =>
           \A i \in DOMAIN roomDevices : LatestAt(i) \in {NoLatest, roomDevices[i]}

LEMMA SectionsStep == ASSUME SectionsInv, [SectionsNext]_sectionVars PROVE SectionsInv'
<1>1. CASE DevicesArrive
  <2>1. PICK ds : /\ latestSent' = IF Rekeyed(ds) THEN {ds} ELSE latestSent
                  /\ roomDevices' = ds
    BY <1>1 DEF DevicesArrive
  <2>2. UNCHANGED latestByDevice
    BY <1>1 DEF DevicesArrive
  <2>3. QED
    BY <2>1, <2>2 DEF SectionsInv, Rekeyed, LatestAt
<1>2. CASE PollLatest
  BY <1>2 DEF PollLatest, SectionsInv
<1>3. CASE ValuesArrive
  <2>1. PICK failed \in SUBSET DOMAIN roomDevices : latestByDevice' =
            [i \in DOMAIN roomDevices |-> IF i \in failed THEN NoLatest ELSE roomDevices[i]]
    BY <1>3 DEF ValuesArrive, SectionsInv
  <2>2. latestSent' = {} /\ UNCHANGED roomDevices
    BY <1>3 DEF ValuesArrive
  <2>3. QED
    BY <2>1, <2>2 DEF SectionsInv, LatestAt
<1>4. CASE (\E d \in 1..MaxDevice : Register(d)) \/ ReadingsServed \/ UNCHANGED sectionVars
  BY <1>4 DEF Register, ReadingsServed, sectionVars, SectionsInv, LatestAt
<1>5. QED
  BY <1>1, <1>2, <1>3, <1>4 DEF SectionsNext

\* For any devices of a room and any order of polls, registrations and answers, a section shows
\* the values of its own device once the request for them is answered (useDeviceLatest of
\* RoomDetailPage and the matching by position of RoomHistorySections).
THEOREM SectionsOfTheirDevice == SectionsSpec => []SectionsMeanTheirDevice
<1>1. SectionsInit => SectionsInv
  BY DEF SectionsInit, SectionsInv
<1>2. SectionsInv /\ [SectionsNext]_sectionVars => SectionsInv'
  BY SectionsStep
<1>3. SectionsInv => SectionsMeanTheirDevice
  <2> SUFFICES ASSUME SectionsInv, latestSent = {}, NEW s \in Sections PROVE s.latest = s.device
    BY DEF SectionsMeanTheirDevice
  <2>1. PICK i \in DOMAIN roomDevices : s.device = roomDevices[i] /\ s.latest = LatestAt(i)
    BY DEF Sections
  <2>2. s.latest \in InRoom
    BY DEF Sections
  <2>3. s.latest # NoLatest
    BY <2>2, SectionsAssumption
  <2>4. QED
    BY <2>1, <2>3 DEF SectionsInv
<1>4. QED
  BY <1>1, <1>2, <1>3, PTL DEF SectionsSpec

-----------------------------------------------------------------------------
(***************************************************************************)
(* The page of one device.                                                 *)
(***************************************************************************)
DeviceOps == {"save", "command", "delete"}
DeviceCall ==
    [op : DeviceOps, id : DeviceId, form : DeviceForm \cup {NotYet}, version : Nat, mine : BOOLEAN]
DeviceFetch ==
    [of : {"poll", "save", "command"}, id : DeviceId, newest : BOOLEAN,
     got : Entity \cup {NotYet, NoDevice}]

PageTypeOK ==
    /\ entity \in [DeviceId -> Entity \cup {NoDevice}]
    /\ deviceUrl \in DeviceId \cup {NoDevice}
    /\ entityShown \in {NoDevice} \cup [id : DeviceId, is : Entity]
    /\ deviceForm \in DeviceForm \cup {NotYet}
    /\ savingDevice \in BOOLEAN /\ sendingState \in BOOLEAN /\ deletingDevice \in BOOLEAN
    /\ deviceCalls \subseteq DeviceCall
    /\ \A c \in deviceCalls : c.op = "save" => c.form \in DeviceForm
    /\ fetches \subseteq DeviceFetch
    /\ promised \in {NoDevice} \cup [id : DeviceId, version : Nat]

\* A handler of the page that is shown has either its command or the refresh after it open.
OwnCalls(op) == {c \in deviceCalls : c.mine /\ c.op = op}
OwnFetches(op) == {f \in fetches : f.of = op}
Busy(op) ==
    \/ op = "save" /\ savingDevice
    \/ op = "command" /\ sendingState
    \/ op = "delete" /\ deletingDevice
One(S) == \E x \in S : S = {x}
ButtonOK(op) ==
    \/ Busy(op) /\ One(OwnCalls(op)) /\ OwnFetches(op) = {}
    \/ Busy(op) /\ OwnCalls(op) = {} /\ One(OwnFetches(op))
    \/ ~Busy(op) /\ OwnCalls(op) = {} /\ OwnFetches(op) = {}

ButtonsInv ==
    /\ PageTypeOK
    /\ \A c \in deviceCalls : c.mine => deviceUrl # NoDevice
    /\ \A op \in DeviceOps : ButtonOK(op)

\* What a save was answered with is on the server, unless the device is gone: in the newest
\* answer, and so on the page once that has arrived.
Holds(id, version) == entity[id] # NoDevice => entity[id].version >= version
SavesHold ==
    \A c \in deviceCalls : c.op = "save" /\ c.version # 0 => Holds(c.id, c.version)
PromiseHolds ==
    promised # NoDevice =>
        /\ Holds(promised.id, promised.version)
        /\ \A f \in fetches :
               f.newest /\ f.id = promised.id /\ f.got \notin {NotYet, NoDevice} =>
                   f.got.version >= promised.version
        /\ \/ \E f \in fetches : f.newest
           \/ deviceFailed
           \/ entityShown # NoDevice /\ entityShown.id = promised.id =>
                  entityShown.is.version >= promised.version

SavedInv == ButtonsInv /\ SavesHold /\ PromiseHolds

LEMMA SameButton ==
  ASSUME NEW op \in DeviceOps,
         op = "save" => (savingDevice' <=> savingDevice),
         op = "command" => (sendingState' <=> sendingState),
         op = "delete" => (deletingDevice' <=> deletingDevice)
  PROVE  Busy(op)' <=> Busy(op)
<1>1. CASE op = "save"
  BY <1>1 DEF Busy
<1>2. CASE op = "command"
  BY <1>2 DEF Busy
<1>3. CASE op = "delete"
  BY <1>3 DEF Busy
<1>4. QED
  BY <1>1, <1>2, <1>3 DEF DeviceOps

LEMMA PageStart == DevicePageInit => SavedInv
<1> SUFFICES ASSUME DevicePageInit PROVE SavedInv
  OBVIOUS
<1>1. (CHOOSE l \in Label : TRUE) \in Label
  BY DeviceAssumption
<1>2. [label |-> CHOOSE l \in Label : TRUE, kind |-> Switchable, version |-> 1] \in Entity
  BY <1>1 DEF Entity, DeviceKinds
<1>3. entity \in [DeviceId -> Entity \cup {NoDevice}]
  BY <1>2 DEF DevicePageInit
<1>4. PageTypeOK
  BY <1>3 DEF DevicePageInit, PageTypeOK
<1>5. \A op \in DeviceOps : ButtonOK(op)
  BY DEF DevicePageInit, ButtonOK, OwnCalls, OwnFetches, Busy
<1>6. QED
  BY <1>4, <1>5 DEF DevicePageInit, SavedInv, ButtonsInv, SavesHold, PromiseHolds

\* A request that supersedes the others: it is the only one that still writes, and the handlers
\* that await theirs go on waiting.
LEMMA RefreshFacts ==
  ASSUME PageTypeOK, NEW who \in {"poll", "save", "command"}, NEW id \in DeviceId
  PROVE  /\ Refresh(who, id) \subseteq DeviceFetch
         /\ \E f \in Refresh(who, id) : f.newest
         /\ \A f \in Refresh(who, id) : f.newest => f.got = NotYet
         /\ \A op \in DeviceOps :
               /\ OwnFetches(op) = {} /\ op # who => {f \in Refresh(who, id) : f.of = op} = {}
               /\ OwnFetches(op) = {} /\ op = who => One({f \in Refresh(who, id) : f.of = op})
               /\ One(OwnFetches(op)) /\ op # who => One({f \in Refresh(who, id) : f.of = op})
<1> DEFINE late(g) == [g EXCEPT !.newest = FALSE]
           new == [of |-> who, id |-> id, newest |-> TRUE, got |-> NotYet]
<1>1. \A g \in fetches : late(g) \in DeviceFetch /\ ~late(g).newest /\ late(g).of = g.of
  BY DEF PageTypeOK, DeviceFetch
<1>2. new \in DeviceFetch /\ new.newest /\ new.got = NotYet /\ new.of = who
  BY DEF DeviceFetch
<1>3. Refresh(who, id) = {late(g) : g \in {h \in fetches : h.of # "poll"}} \cup {new}
  BY DEF Refresh, Superseded
<1> HIDE DEF late, new
<1>4. ASSUME NEW op \in DeviceOps
      PROVE  {f \in Refresh(who, id) : f.of = op} =
                 {late(g) : g \in OwnFetches(op)} \cup (IF op = who THEN {new} ELSE {})
  BY <1>1, <1>2, <1>3 DEF OwnFetches, DeviceOps
<1>5. QED
  BY <1>1, <1>2, <1>3, <1>4 DEF One

LEMMA RefreshKeepsButtons ==
  ASSUME ButtonsInv, NEW id \in DeviceId, fetches' = Refresh("poll", id),
         deviceUrl' \in DeviceId,
         UNCHANGED <<entity, entityShown, editVars, pendingVars, deviceCalls, promised>>
  PROVE  ButtonsInv'
<1>1. PageTypeOK'
  BY RefreshFacts DEF ButtonsInv, PageTypeOK, editVars, pendingVars
<1>2. deviceUrl' # NoDevice
  BY DeviceAssumption
<1>3. ASSUME NEW op \in DeviceOps PROVE ButtonOK(op)'
  <2>1. ButtonOK(op) /\ op # "poll"
    BY DEF ButtonsInv, DeviceOps
  <2>2. OwnFetches(op)' = {f \in Refresh("poll", id) : f.of = op} /\ OwnCalls(op)' = OwnCalls(op)
        /\ Busy(op)' = Busy(op)
    BY DEF OwnFetches, OwnCalls, Busy, pendingVars
  <2>3. /\ OwnFetches(op) = {} => OwnFetches(op)' = {}
        /\ One(OwnFetches(op)) => One(OwnFetches(op))'
    BY <2>1, <2>2, RefreshFacts DEF ButtonsInv, One
  <2>4. QED
    BY <2>1, <2>2, <2>3 DEF ButtonOK, One
<1>4. QED
  BY <1>1, <1>2, <1>3 DEF ButtonsInv

LEMMA FetchServedKeepsButtons ==
  ASSUME ButtonsInv, NEW f \in fetches, FetchServed(f)
  PROVE  ButtonsInv'
<1> DEFINE g == [f EXCEPT !.got = entity[f.id]]
<1>1. f \in DeviceFetch
  BY DEF ButtonsInv, PageTypeOK
<1>2. entity[f.id] \in Entity \cup {NoDevice}
  BY <1>1 DEF ButtonsInv, PageTypeOK, DeviceFetch
<1>3. g \in DeviceFetch /\ g.of = f.of
  BY <1>1, <1>2 DEF DeviceFetch
<1>4. fetches' = (fetches \ {f}) \cup {g}
      /\ UNCHANGED <<entity, shownVars, editVars, pendingVars, deviceCalls, promised>>
  BY DEF FetchServed
<1> HIDE DEF g
<1>5. PageTypeOK'
  BY <1>3, <1>4 DEF ButtonsInv, PageTypeOK, shownVars, editVars, pendingVars
<1>6. ASSUME NEW op \in DeviceOps PROVE ButtonOK(op)'
  <2>1. OwnFetches(op)' = (OwnFetches(op) \ {f}) \cup (IF f.of = op THEN {g} ELSE {})
    BY <1>3, <1>4 DEF OwnFetches
  <2>2. f.of = op => f \in OwnFetches(op)
    BY DEF OwnFetches
  <2>3. OwnCalls(op)' = OwnCalls(op) /\ Busy(op)' = Busy(op)
    BY <1>4 DEF OwnCalls, Busy, pendingVars
  <2>4. OwnFetches(op) = {} => OwnFetches(op)' = {}
    BY <2>1, <2>2
  <2>5. One(OwnFetches(op)) => One(OwnFetches(op))'
    <3>1. CASE f.of = op
      BY <2>1, <2>2, <3>1 DEF One
    <3>2. CASE f.of # op
      <4>1. OwnFetches(op)' = OwnFetches(op)
        BY <2>1, <3>2 DEF OwnFetches
      <4>2. QED
        BY <4>1 DEF One
    <3>3. QED
      BY <3>1, <3>2
  <2>6. ButtonOK(op)
    BY DEF ButtonsInv
  <2>7. QED
    BY <2>3, <2>4, <2>5, <2>6 DEF ButtonOK, One
<1>7. QED
  BY <1>4, <1>5, <1>6 DEF ButtonsInv, shownVars

\* The answer a handler awaits, or its failure, ends that handler.
LEMMA FetchEndsHandler ==
  ASSUME ButtonsInv, NEW f \in fetches, FetchAnswered(f) \/ FetchFails(f)
  PROVE  ButtonsInv'
<1>1. f \in DeviceFetch /\ f.id \in DeviceId /\ f.got \in Entity \cup {NotYet, NoDevice}
  BY DEF ButtonsInv, PageTypeOK, DeviceFetch
<1>2. fetches' = fetches \ {f} /\ Awaited(f.of)
      /\ UNCHANGED <<entity, deviceUrl, deviceCalls, promised>>
  BY DEF FetchAnswered, FetchFails
<1>3. entityShown' \in {NoDevice} \cup [id : DeviceId, is : Entity]
  <2>1. f.got \notin {NotYet, NoDevice} => [id |-> f.id, is |-> f.got] \in [id : DeviceId, is : Entity]
    BY <1>1
  <2>2. QED
    BY <2>1 DEF FetchAnswered, FetchFails, ButtonsInv, PageTypeOK
<1>4. /\ savingDevice' \in BOOLEAN /\ sendingState' \in BOOLEAN /\ deletingDevice' \in BOOLEAN
  BY <1>2, Zenon DEF Awaited, ButtonsInv, PageTypeOK
<1>5. deviceForm' \in DeviceForm \cup {NotYet}
  BY <1>2 DEF Awaited, ButtonsInv, PageTypeOK
<1>6. PageTypeOK'
  BY <1>2, <1>3, <1>4, <1>5 DEF ButtonsInv, PageTypeOK
<1>7. ASSUME NEW op \in DeviceOps PROVE ButtonOK(op)'
  <2>1. OwnFetches(op)' = OwnFetches(op) \ {f} /\ OwnCalls(op)' = OwnCalls(op)
    BY <1>2 DEF OwnFetches, OwnCalls
  <2>2. ButtonOK(op)
    BY DEF ButtonsInv
  <2>3. CASE f.of = op
    <3>1. f \in OwnFetches(op)
      BY <2>3 DEF OwnFetches
    <3>2. OwnFetches(op)' = {} /\ OwnCalls(op)' = {}
      BY <2>1, <2>2, <3>1 DEF ButtonOK, One
    <3>3. ~Busy(op)'
      BY <1>1, <1>2, <2>3 DEF Awaited, Busy, DeviceFetch
    <3>4. QED
      BY <3>2, <3>3 DEF ButtonOK
  <2>4. CASE f.of # op
    <3>1. OwnFetches(op)' = OwnFetches(op)
      BY <2>1, <2>4 DEF OwnFetches
    <3>2. op = "save" => (savingDevice' <=> savingDevice)
      BY <1>2, <2>4 DEF Awaited
    <3>3. op = "command" => (sendingState' <=> sendingState)
      BY <1>2, <2>4 DEF Awaited
    <3>4. op = "delete" => (deletingDevice' <=> deletingDevice)
      BY <1>2, <2>4 DEF Awaited
    <3>5. Busy(op)' <=> Busy(op)
      BY <3>2, <3>3, <3>4, SameButton
    <3>6. QED
      BY <2>1, <2>2, <3>1, <3>5 DEF ButtonOK, One
  <2>5. QED
    BY <2>3, <2>4
<1>8. QED
  BY <1>2, <1>6, <1>7 DEF ButtonsInv

\* A page that is gone owns nothing.
LEMMA UnmountKeepsButtons ==
  ASSUME ButtonsInv, NEW gone \in SUBSET deviceCalls, Unmounted(gone), UNCHANGED entity
  PROVE  ButtonsInv'
<1> DEFINE orphan(c) == [c EXCEPT !.mine = FALSE]
<1>1. \A c \in gone : orphan(c) \in DeviceCall /\ ~orphan(c).mine
                      /\ orphan(c).op = c.op /\ orphan(c).form = c.form
  <2>1. \A c \in gone : c \in DeviceCall
    BY DEF ButtonsInv, PageTypeOK
  <2>2. QED
    BY <2>1 DEF DeviceCall
<1>2. deviceCalls' = {orphan(c) : c \in gone}
  BY DEF Unmounted
<1> HIDE DEF orphan
<1>3. \A c \in deviceCalls' :
          c \in DeviceCall /\ ~c.mine /\ (c.op = "save" => c.form \in DeviceForm)
  BY <1>1, <1>2 DEF ButtonsInv, PageTypeOK
<1>4. PageTypeOK'
  BY <1>3 DEF Unmounted, ButtonsInv, PageTypeOK
<1>5. \A op \in DeviceOps : ButtonOK(op)'
  BY <1>3 DEF Unmounted, ButtonOK, OwnCalls, OwnFetches, Busy
<1>6. QED
  BY <1>3, <1>4, <1>5 DEF ButtonsInv

\* A handler that sends its command is busy with exactly that one.
LEMMA SendKeepsButtons ==
  ASSUME ButtonsInv, HandleSetState \/ HandleSaveEdit \/ HandleDelete
  PROVE  ButtonsInv'
<1>1. PICK o \in DeviceOps, form \in DeviceForm \cup {NotYet} :
          /\ SendDevice(o, form) /\ ~Busy(o) /\ (o = "save" => form \in DeviceForm)
          /\ savingDevice' = (savingDevice \/ o = "save")
          /\ sendingState' = (sendingState \/ o = "command")
          /\ deletingDevice' = (deletingDevice \/ o = "delete")
  <2>1. CASE HandleSetState
    <3>1. SendDevice("command", NotYet) /\ ~Busy("command") /\ sendingState' = TRUE
          /\ UNCHANGED <<savingDevice, deletingDevice>>
      BY <2>1 DEF HandleSetState, Busy
    <3>2. "command" \in DeviceOps
      BY DEF DeviceOps
    <3>3. /\ savingDevice' = (savingDevice \/ "command" = "save")
          /\ sendingState' = (sendingState \/ "command" = "command")
          /\ deletingDevice' = (deletingDevice \/ "command" = "delete")
      BY <3>1 DEF ButtonsInv, PageTypeOK
    <3>4. QED
      BY <3>1, <3>2, <3>3
  <2>2. CASE HandleSaveEdit
    <3>1. SendDevice("save", deviceForm) /\ ~Busy("save") /\ savingDevice' = TRUE
          /\ UNCHANGED <<sendingState, deletingDevice>>
      BY <2>2 DEF HandleSaveEdit, Busy
    <3>2. "save" \in DeviceOps /\ deviceForm \in DeviceForm
      BY <2>2 DEF DeviceOps, HandleSaveEdit, FormShown, ButtonsInv, PageTypeOK
    <3>3. /\ savingDevice' = (savingDevice \/ "save" = "save")
          /\ sendingState' = (sendingState \/ "save" = "command")
          /\ deletingDevice' = (deletingDevice \/ "save" = "delete")
      BY <3>1 DEF ButtonsInv, PageTypeOK
    <3>4. QED
      BY <3>1, <3>2, <3>3
  <2>3. CASE HandleDelete
    <3>1. SendDevice("delete", NotYet) /\ ~Busy("delete") /\ deletingDevice' = TRUE
          /\ UNCHANGED <<sendingState, savingDevice>>
      BY <2>3 DEF HandleDelete, Busy
    <3>2. "delete" \in DeviceOps
      BY DEF DeviceOps
    <3>3. /\ savingDevice' = (savingDevice \/ "delete" = "save")
          /\ sendingState' = (sendingState \/ "delete" = "command")
          /\ deletingDevice' = (deletingDevice \/ "delete" = "delete")
      BY <3>1 DEF ButtonsInv, PageTypeOK
    <3>4. QED
      BY <3>1, <3>2, <3>3
  <2>4. QED
    BY <2>1, <2>2, <2>3
<1> DEFINE new ==
        [op |-> o, id |-> entityShown.id, form |-> form, version |-> 0, mine |-> TRUE]
<1>2. DeviceShown
      /\ UNCHANGED <<entity, deviceUrl, entityShown, deviceForm, fetches, promised>>
  BY DEF HandleSetState, HandleSaveEdit, HandleDelete, FormShown, shownVars, editVars
<1>3. entityShown.id \in DeviceId
  BY <1>2 DEF DeviceShown, ButtonsInv, PageTypeOK
<1>4. new \in DeviceCall /\ new.mine /\ new.op = o /\ new.form = form
  BY <1>3 DEF DeviceCall
<1>5. deviceCalls' = deviceCalls \cup {new}
  BY <1>1 DEF SendDevice
<1> HIDE DEF new
<1>6. /\ savingDevice' \in BOOLEAN /\ sendingState' \in BOOLEAN /\ deletingDevice' \in BOOLEAN
  BY <1>1, Zenon
<1>7. PageTypeOK'
  BY <1>1, <1>2, <1>4, <1>5, <1>6 DEF ButtonsInv, PageTypeOK
<1>8. ASSUME NEW op \in DeviceOps PROVE ButtonOK(op)'
  <2>1. ButtonOK(op) /\ OwnFetches(op)' = OwnFetches(op)
    BY <1>2 DEF ButtonsInv, OwnFetches
  <2>2. CASE op = o
    <3>1. OwnCalls(op) = {} /\ OwnFetches(op)' = {}
      BY <1>1, <2>1, <2>2 DEF ButtonOK
    <3>2. OwnCalls(op)' = {new}
      BY <1>4, <1>5, <2>2, <3>1 DEF OwnCalls
    <3>3. Busy(op)'
      BY <1>1, <2>2 DEF Busy, DeviceOps
    <3>4. QED
      BY <3>1, <3>2, <3>3 DEF ButtonOK, One
  <2>3. CASE op # o
    <3>1. OwnCalls(op)' = OwnCalls(op)
      BY <1>4, <1>5, <2>3 DEF OwnCalls
    <3>2. op = "save" => (savingDevice' <=> savingDevice)
      BY <1>1, <2>3
    <3>3. op = "command" => (sendingState' <=> sendingState)
      BY <1>1, <2>3
    <3>4. op = "delete" => (deletingDevice' <=> deletingDevice)
      BY <1>1, <2>3
    <3>5. Busy(op)' <=> Busy(op)
      BY <3>2, <3>3, <3>4, SameButton
    <3>6. QED
      BY <2>1, <3>1, <3>5 DEF ButtonOK, One
  <2>4. QED
    BY <2>2, <2>3
<1>9. QED
  BY <1>2, <1>4, <1>5, <1>7, <1>8 DEF ButtonsInv, DeviceShown

\* What happens to a call: it is answered, it is over, or its answer is lost.
LEMMA CallServedKeepsButtons ==
  ASSUME ButtonsInv, NEW c \in deviceCalls, DeviceCallServed(c)
  PROVE  ButtonsInv' /\ \A d \in DeviceId : entity'[d] # NoDevice =>
             entity[d] # NoDevice /\ entity'[d].version >= entity[d].version
<1>1. c \in DeviceCall /\ c.id \in DeviceId /\ c.op \in DeviceOps
      /\ (c.op = "save" => c.form \in DeviceForm)
  BY DEF ButtonsInv, PageTypeOK, DeviceCall
<1>2. entity[c.id] \in Entity /\ entity \in [DeviceId -> Entity \cup {NoDevice}]
  BY <1>1 DEF DeviceCallServed, ButtonsInv, PageTypeOK
<1>3. c.op = "save" => Saved(entity[c.id], c.form) \in Entity
                       /\ Saved(entity[c.id], c.form).version >= entity[c.id].version
  BY <1>1, <1>2 DEF Saved, Entity, DeviceForm
<1>4. \/ c.op = "save" /\ entity' = [entity EXCEPT ![c.id] = Saved(entity[c.id], c.form)]
      \/ c.op = "delete" /\ entity' = [entity EXCEPT ![c.id] = NoDevice]
      \/ c.op = "command" /\ entity' = entity
  BY <1>1 DEF DeviceCallServed, DeviceOps
<1>5. entity' \in [DeviceId -> Entity \cup {NoDevice}]
  BY <1>1, <1>2, <1>3, <1>4
<1>6. ASSUME NEW d \in DeviceId, entity'[d] # NoDevice
      PROVE  entity[d] # NoDevice /\ entity'[d].version >= entity[d].version
  <2>0. c.op \in {"delete", "command"} => entity'[d] = entity[d]
    BY <1>1, <1>2, <1>4, <1>6
  <2>1. /\ entity[d] # NoDevice
        /\ \/ entity'[d] = entity[d]
           \/ c.op = "save" /\ d = c.id /\ entity'[d] = Saved(entity[c.id], c.form)
    BY <1>1, <1>2, <1>4, <1>6, <2>0 DEF DeviceOps, DeviceCallServed
  <2>2. entity[d] \in Entity
    BY <1>2, <2>1
  <2>3. entity[d].version >= entity[d].version
    BY <2>2 DEF Entity
  <2>4. QED
    BY <1>3, <2>1, <2>3
<1>7. PICK v \in Nat \ {0} :
          /\ deviceCalls' = (deviceCalls \ {c}) \cup {[c EXCEPT !.version = v]}
          /\ c.op = "save" => v = entity'[c.id].version
  <2>1. CASE c.op = "save"
    <3>1. entity'[c.id] = Saved(entity[c.id], c.form)
      BY <1>1, <1>2, <1>4, <2>1
    <3>2. entity'[c.id].version \in Nat \ {0}
      BY <1>3, <2>1, <3>1 DEF Entity
    <3>3. QED
      BY <2>1, <3>2 DEF DeviceCallServed
  <2>2. CASE c.op # "save"
    BY <2>2 DEF DeviceCallServed
  <2>3. QED
    BY <2>1, <2>2
<1> DEFINE answered == [c EXCEPT !.version = v]
<1>8. answered \in DeviceCall /\ answered.mine = c.mine /\ answered.op = c.op
      /\ answered.form = c.form
  BY <1>1, <1>7 DEF DeviceCall
<1>9. deviceCalls' = (deviceCalls \ {c}) \cup {answered}
  BY <1>7
<1> HIDE DEF answered
<1>10. UNCHANGED <<shownVars, editVars, pendingVars, fetches, promised>>
  BY DEF DeviceCallServed
<1>11. PageTypeOK'
  BY <1>1, <1>5, <1>8, <1>9, <1>10
  DEF ButtonsInv, PageTypeOK, shownVars, editVars, pendingVars
<1>12. ASSUME NEW op \in DeviceOps PROVE ButtonOK(op)'
  <2>1. ButtonOK(op) /\ OwnFetches(op)' = OwnFetches(op) /\ Busy(op)' = Busy(op)
    BY <1>10 DEF ButtonsInv, OwnFetches, Busy, pendingVars
  <2>2. CASE c.mine /\ c.op = op
    <3>1. c \in OwnCalls(op)
      BY <2>2 DEF OwnCalls
    <3>2. OwnCalls(op)' = (OwnCalls(op) \ {c}) \cup {answered}
      BY <1>8, <1>9, <2>2 DEF OwnCalls
    <3>3. QED
      BY <2>1, <3>1, <3>2 DEF ButtonOK, One
  <2>3. CASE ~(c.mine /\ c.op = op)
    <3>1. OwnCalls(op)' = OwnCalls(op)
      BY <1>8, <1>9, <2>3 DEF OwnCalls
    <3>2. QED
      BY <2>1, <3>1 DEF ButtonOK, One
  <2>4. QED
    BY <2>2, <2>3
<1>13. \A d \in deviceCalls' : d.mine => deviceUrl' # NoDevice
  BY <1>8, <1>9, <1>10 DEF ButtonsInv, shownVars
<1>14. QED
  BY <1>6, <1>11, <1>12, <1>13 DEF ButtonsInv

\* The refresh that a handler awaits takes the place of its command.
LEMMA ContinueKeepsButtons ==
  ASSUME ButtonsInv, NEW c \in deviceCalls, CallContinues(c)
  PROVE  ButtonsInv'
<1>1. c \in DeviceCall /\ c.id \in DeviceId /\ c.op \in {"save", "command"} /\ c.version \in Nat
  BY DEF ButtonsInv, PageTypeOK, DeviceCall, CallContinues, DeviceOps
<1>2. c.mine => deviceUrl \in DeviceId
  BY DEF ButtonsInv, PageTypeOK
<1>3. deviceCalls' = deviceCalls \ {c}
      /\ UNCHANGED <<entity, shownVars, editVars, pendingVars>>
  BY DEF CallContinues
<1>4. fetches' \subseteq DeviceFetch
  BY <1>1, <1>2, RefreshFacts DEF CallContinues, ButtonsInv, PageTypeOK
<1>5. promised' \in {NoDevice} \cup [id : DeviceId, version : Nat]
  BY <1>1 DEF CallContinues, ButtonsInv, PageTypeOK
<1>6. PageTypeOK'
  BY <1>3, <1>4, <1>5 DEF ButtonsInv, PageTypeOK, shownVars, editVars, pendingVars
<1>7. ASSUME NEW op \in DeviceOps PROVE ButtonOK(op)'
  <2>1. ButtonOK(op) /\ Busy(op)' = Busy(op)
    BY <1>3 DEF ButtonsInv, Busy, pendingVars
  <2>2. CASE ~c.mine
    <3>1. OwnCalls(op)' = OwnCalls(op) /\ OwnFetches(op)' = OwnFetches(op)
      BY <1>3, <2>2 DEF OwnCalls, OwnFetches, CallContinues
    <3>2. QED
      BY <2>1, <3>1 DEF ButtonOK, One
  <2>3. CASE c.mine
    <3>1. OwnFetches(op)' = {f \in Refresh(c.op, deviceUrl) : f.of = op}
      BY <2>3 DEF OwnFetches, CallContinues
    <3>2. CASE op = c.op
      <4>1. c \in OwnCalls(op)
        BY <2>3, <3>2 DEF OwnCalls
      <4>2. OwnCalls(op) = {c} /\ OwnFetches(op) = {} /\ Busy(op)
        BY <2>1, <4>1 DEF ButtonOK, One
      <4>3. OwnCalls(op)' = {}
        BY <1>3, <4>2 DEF OwnCalls
      <4>4. One(OwnFetches(op)')
        BY <1>1, <1>2, <2>3, <3>1, <3>2, <4>2, RefreshFacts DEF ButtonsInv
      <4>5. QED
        BY <2>1, <4>2, <4>3, <4>4 DEF ButtonOK, One
    <3>3. CASE op # c.op
      <4>1. OwnCalls(op)' = OwnCalls(op)
        BY <1>3, <3>3 DEF OwnCalls
      <4>2. PICK who \in {"poll", "save", "command"}, id \in DeviceId :
                who = c.op /\ id = deviceUrl
        BY <1>1, <1>2, <2>3
      <4>3. /\ OwnFetches(op) = {} => {f \in Refresh(who, id) : f.of = op} = {}
            /\ One(OwnFetches(op)) => One({f \in Refresh(who, id) : f.of = op})
        BY <3>3, <4>2, RefreshFacts DEF ButtonsInv
      <4>4. QED
        BY <2>1, <3>1, <4>1, <4>2, <4>3 DEF ButtonOK, One
    <3>4. QED
      BY <3>2, <3>3
  <2>4. QED
    BY <2>2, <2>3
<1>8. QED
  BY <1>3, <1>6, <1>7 DEF ButtonsInv, shownVars

LEMMA FailureKeepsButtons ==
  ASSUME ButtonsInv, NEW c \in deviceCalls, DeviceCallFails(c)
  PROVE  ButtonsInv'
<1>1. c.op \in DeviceOps
  BY DEF ButtonsInv, PageTypeOK, DeviceCall
<1>2. deviceCalls' = deviceCalls \ {c}
      /\ UNCHANGED <<entity, shownVars, deviceForm, fetches, promised>>
  BY DEF DeviceCallFails
<1>3. /\ savingDevice' \in BOOLEAN /\ sendingState' \in BOOLEAN /\ deletingDevice' \in BOOLEAN
  <2>1. CASE c.mine
    BY <2>1, Zenon DEF DeviceCallFails, Settled
  <2>2. CASE ~c.mine
    BY <2>2, Zenon DEF DeviceCallFails, pendingVars, ButtonsInv, PageTypeOK
  <2>3. QED
    BY <2>1, <2>2, Zenon
<1>4. PageTypeOK'
  BY <1>2, <1>3 DEF ButtonsInv, PageTypeOK, shownVars
<1>5. ASSUME NEW op \in DeviceOps PROVE ButtonOK(op)'
  <2>1. ButtonOK(op) /\ OwnFetches(op)' = OwnFetches(op)
    BY <1>2 DEF ButtonsInv, OwnFetches
  <2>2. CASE c.mine /\ op = c.op
    <3>1. c \in OwnCalls(op)
      BY <2>2 DEF OwnCalls
    <3>2. OwnCalls(op) = {c} /\ OwnFetches(op) = {}
      BY <2>1, <3>1 DEF ButtonOK, One
    <3>3. OwnCalls(op)' = {}
      BY <1>2, <3>2 DEF OwnCalls
    <3>4. ~Busy(op)'
      BY <2>2 DEF Busy, DeviceCallFails, Settled
    <3>5. QED
      BY <2>1, <3>2, <3>3, <3>4 DEF ButtonOK
  <2>3. CASE ~(c.mine /\ op = c.op)
    <3>1. OwnCalls(op)' = OwnCalls(op)
      BY <1>2, <2>3 DEF OwnCalls
    <3>2. op = "save" => (savingDevice' <=> savingDevice)
      BY <2>3 DEF DeviceCallFails, Settled, pendingVars
    <3>3. op = "command" => (sendingState' <=> sendingState)
      BY <2>3 DEF DeviceCallFails, Settled, pendingVars
    <3>4. op = "delete" => (deletingDevice' <=> deletingDevice)
      BY <2>3 DEF DeviceCallFails, Settled, pendingVars
    <3>5. Busy(op)' <=> Busy(op)
      BY <3>2, <3>3, <3>4, SameButton
    <3>6. QED
      BY <2>1, <3>1, <3>5 DEF ButtonOK, One
  <2>4. QED
    BY <2>2, <2>3
<1>6. QED
  BY <1>2, <1>4, <1>5 DEF ButtonsInv, shownVars

\* Only the page, another client and the server's answer touch what the buttons stand for.
LEMMA ButtonsStep == ASSUME ButtonsInv, [DevicePageNext]_deviceVars PROVE ButtonsInv'
<1>1. ASSUME NEW d \in DeviceId, OpenDevice(d) \/ JumpDevice(d) PROVE ButtonsInv'
  <2>1. deviceUrl' = d /\ fetches' = Refresh("poll", d)
        /\ UNCHANGED <<entity, entityShown, editVars, pendingVars, deviceCalls, promised>>
    BY <1>1 DEF OpenDevice, JumpDevice
  <2>2. QED
    BY <2>1, RefreshKeepsButtons
<1>2. CASE PollDevice
  <2>1. deviceUrl \in DeviceId /\ deviceUrl' = deviceUrl /\ fetches' = Refresh("poll", deviceUrl)
        /\ UNCHANGED <<entity, entityShown, editVars, pendingVars, deviceCalls, promised>>
    BY <1>2 DEF PollDevice, shownVars, ButtonsInv, PageTypeOK
  <2>2. PICK d \in DeviceId : d = deviceUrl
    BY <2>1
  <2>3. deviceUrl' \in DeviceId /\ fetches' = Refresh("poll", d)
    BY <2>1, <2>2
  <2>4. QED
    BY <2>1, <2>3, RefreshKeepsButtons
<1>3. CASE LeaveDevice
  <2>1. Unmounted(deviceCalls) /\ UNCHANGED entity
    BY <1>3 DEF LeaveDevice
  <2>2. PICK gone \in SUBSET deviceCalls : gone = deviceCalls
    OBVIOUS
  <2>3. Unmounted(gone)
    BY <2>1, <2>2
  <2>4. QED
    BY <2>1, <2>3, UnmountKeepsButtons
<1>4. ASSUME NEW c \in deviceCalls, DeleteContinues(c) PROVE ButtonsInv'
  <2>1. Unmounted(deviceCalls \ {c}) /\ UNCHANGED entity
    BY <1>4 DEF DeleteContinues
  <2>2. PICK gone \in SUBSET deviceCalls : gone = deviceCalls \ {c}
    OBVIOUS
  <2>3. Unmounted(gone)
    BY <2>1, <2>2
  <2>4. QED
    BY <2>1, <2>3, UnmountKeepsButtons
<1>5. ASSUME /\ entity' \in [DeviceId -> Entity \cup {NoDevice}]
             /\ deviceForm' \in DeviceForm \cup {NotYet}
             /\ UNCHANGED <<shownVars, pendingVars, deviceCalls, fetches, promised>>
      PROVE  ButtonsInv'
  <2>1. PageTypeOK'
    BY <1>5 DEF ButtonsInv, PageTypeOK, shownVars, pendingVars
  <2>2. ASSUME NEW op \in DeviceOps PROVE ButtonOK(op)'
    <3>1. Busy(op)' = Busy(op) /\ OwnCalls(op)' = OwnCalls(op) /\ OwnFetches(op)' = OwnFetches(op)
      BY <1>5 DEF Busy, OwnCalls, OwnFetches, pendingVars
    <3>2. ButtonOK(op)
      BY DEF ButtonsInv
    <3>3. QED
      BY <3>1, <3>2 DEF ButtonOK, One
  <2>3. QED
    BY <1>5, <2>1, <2>2 DEF ButtonsInv, shownVars
<1>6. CASE HandleStartEdit
  <2>1. [label |-> entityShown.is.label, kind |-> entityShown.is.kind] \in DeviceForm
    BY <1>6 DEF HandleStartEdit, DeviceShown, ButtonsInv, PageTypeOK, Entity, DeviceForm
  <2>2. QED
    BY <1>5, <1>6, <2>1 DEF HandleStartEdit, ButtonsInv, PageTypeOK
<1>7. CASE HandleCancelEdit \/ (\E form \in DeviceForm : ChangeForm(form)) \/ UNCHANGED deviceVars
  BY <1>5, <1>7
  DEF HandleCancelEdit, ChangeForm, deviceVars, shownVars, pendingVars, ButtonsInv, PageTypeOK
<1>8. ASSUME NEW d \in DeviceId, NEW form \in DeviceForm, SomeoneEditsDevice(d, form)
      PROVE  ButtonsInv'
  <2>1. entity' = [entity EXCEPT ![d] = Saved(entity[d], form)] /\ entity[d] \in Entity
        /\ UNCHANGED <<shownVars, editVars, pendingVars, deviceCalls, fetches, promised>>
    BY <1>8 DEF SomeoneEditsDevice, ButtonsInv, PageTypeOK
  <2>2. Saved(entity[d], form) \in Entity
    BY <2>1 DEF Saved, Entity, DeviceForm
  <2>3. entity' \in [DeviceId -> Entity \cup {NoDevice}]
    BY <2>1, <2>2 DEF ButtonsInv, PageTypeOK
  <2>4. QED
    BY <1>5, <2>1, <2>3 DEF ButtonsInv, PageTypeOK, editVars
<1>9. QED
  BY <1>1, <1>2, <1>3, <1>4, <1>6, <1>7, <1>8, FetchServedKeepsButtons, FetchEndsHandler,
     SendKeepsButtons, CallServedKeepsButtons, ContinueKeepsButtons, FailureKeepsButtons
  DEF DevicePageNext

\* The inductive invariant of the buttons: each handler that is busy has exactly one request.
THEOREM ButtonsInvariance == DevicePageSpec => []ButtonsInv
<1>1. DevicePageInit => ButtonsInv
  BY PageStart DEF SavedInv
<1>2. ButtonsInv /\ [DevicePageNext]_deviceVars => ButtonsInv'
  BY ButtonsStep
<1>3. QED
  BY <1>1, <1>2, PTL DEF DevicePageSpec

\* For any devices, a button of the page of a device is disabled exactly while its handler has a
\* request under way (savingDevice, sendingState and deletingDevice of DeviceDetailPage).
THEOREM ButtonsArePending == DevicePageSpec => []ButtonsMeanPending
<1>1. ButtonsInv => ButtonsMeanPending
  <2> SUFFICES ASSUME ButtonsInv PROVE ButtonsMeanPending
    OBVIOUS
  <2>1. \A op \in {"save", "command", "delete"} :
            Cardinality(PendingOps(op)) =
                IF (op = "save" /\ savingDevice) \/ (op = "command" /\ sendingState)
                     \/ (op = "delete" /\ deletingDevice)
                THEN 1 ELSE 0
    <3> TAKE op \in {"save", "command", "delete"}
    <3>1. ButtonOK(op) /\ PendingOps(op) = OwnCalls(op) \cup OwnFetches(op)
      BY DEF ButtonsInv, PendingOps, OwnCalls, OwnFetches, DeviceOps
    <3>2. CASE Busy(op)
      <4>1. PICK x : PendingOps(op) = {x}
        BY <3>1, <3>2 DEF ButtonOK, One
      <4>2. Cardinality(PendingOps(op)) = 1
        BY <4>1, FS_Singleton
      <4>3. QED
        BY <3>2, <4>2, Zenon DEF Busy
    <3>3. CASE ~Busy(op)
      <4>1. PendingOps(op) = {}
        BY <3>1, <3>3 DEF ButtonOK
      <4>2. Cardinality(PendingOps(op)) = 0
        BY <4>1, FS_EmptySet
      <4>3. QED
        BY <3>3, <4>2, Zenon DEF Busy
    <3>4. QED
      BY <3>2, <3>3
  <2>2. QED
    BY <2>1 DEF ButtonsMeanPending
<1>2. QED
  BY <1>1, ButtonsInvariance, PTL

-----------------------------------------------------------------------------
\* The version of a device on the server never goes back while the device is there.
Grows ==
    \A d \in DeviceId : entity'[d] # NoDevice =>
        entity[d] # NoDevice /\ entity'[d].version >= entity[d].version

LEMMA HoldsOn ==
  ASSUME PageTypeOK, PageTypeOK', Grows, NEW d \in DeviceId, NEW v \in Nat, Holds(d, v)
  PROVE  Holds(d, v)'
<1> SUFFICES ASSUME entity'[d] # NoDevice PROVE entity'[d].version >= v
  BY DEF Holds
<1>1. entity[d] \in Entity /\ entity'[d] \in Entity
  BY DEF PageTypeOK, Grows
<1>2. entity[d].version \in Nat /\ entity'[d].version \in Nat
  BY <1>1 DEF Entity
<1>3. entity[d].version >= v /\ entity'[d].version >= entity[d].version
  BY DEF Holds, Grows
<1>4. QED
  BY <1>2, <1>3

LEMMA SameGrows == ASSUME PageTypeOK, UNCHANGED entity PROVE Grows
<1>1. \A d \in DeviceId : entity[d] # NoDevice => entity[d].version \in Nat
  BY DEF PageTypeOK, Entity
<1>2. QED
  BY <1>1 DEF Grows

LEMMA SavesKept ==
  ASSUME SavedInv, ButtonsInv', Grows,
         \A c \in deviceCalls' : c.op = "save" /\ c.version # 0 =>
             \/ Holds(c.id, c.version)'
             \/ \E b \in deviceCalls : b.op = "save" /\ b.version = c.version /\ b.id = c.id
  PROVE  SavesHold'
<1> SUFFICES ASSUME NEW c \in deviceCalls', c.op = "save", c.version # 0
             PROVE  Holds(c.id, c.version)'
  BY DEF SavesHold
<1>1. CASE \E b \in deviceCalls : b.op = "save" /\ b.version = c.version /\ b.id = c.id
  <2>1. PICK b \in deviceCalls : b.op = "save" /\ b.version = c.version /\ b.id = c.id
    BY <1>1
  <2>2. PICK d \in DeviceId, v \in Nat : d = b.id /\ v = b.version
    BY DEF SavedInv, ButtonsInv, PageTypeOK, DeviceCall
  <2>3. Holds(d, v)
    BY <2>1, <2>2 DEF SavedInv, SavesHold
  <2>4. Holds(d, v)'
    BY <2>3, HoldsOn DEF SavedInv, ButtonsInv
  <2>5. QED
    BY <2>1, <2>2, <2>4
<1>2. QED
  BY <1>1

\* A step that leaves the page and its requests alone.
LEMMA PromiseKept ==
  ASSUME SavedInv, ButtonsInv', Grows,
         UNCHANGED <<fetches, promised, deviceFailed, entityShown>>
  PROVE  PromiseHolds'
<1> SUFFICES ASSUME promised # NoDevice PROVE Holds(promised.id, promised.version)'
  BY DEF SavedInv, PromiseHolds
<1>1. PICK d \in DeviceId, v \in Nat : d = promised.id /\ v = promised.version
  BY DEF SavedInv, ButtonsInv, PageTypeOK
<1>2. Holds(d, v)
  BY <1>1 DEF SavedInv, PromiseHolds
<1>3. Holds(d, v)'
  BY <1>2, HoldsOn DEF SavedInv, ButtonsInv
<1>4. QED
  BY <1>1, <1>3

\* A step that asks for the device again.
LEMMA PromiseRefreshed ==
  ASSUME \E f \in fetches' : f.newest,
         \A f \in fetches' : f.newest => f.got = NotYet,
         promised' # NoDevice => Holds(promised.id, promised.version)'
  PROVE  PromiseHolds'
BY DEF PromiseHolds

LEMMA FetchServedKeepsPromise ==
  ASSUME SavedInv, ButtonsInv', NEW f \in fetches, FetchServed(f)
  PROVE  PromiseHolds'
<1> DEFINE g == [f EXCEPT !.got = entity[f.id]]
<1>1. f \in DeviceFetch
  BY DEF SavedInv, ButtonsInv, PageTypeOK
<1>2. g.newest = f.newest /\ g.id = f.id /\ g.got = entity[f.id]
  BY <1>1 DEF DeviceFetch
<1>3. fetches' = (fetches \ {f}) \cup {g}
      /\ UNCHANGED <<entity, promised, deviceFailed, entityShown>>
  BY DEF FetchServed, shownVars
<1> HIDE DEF g
<1> SUFFICES ASSUME promised # NoDevice PROVE PromiseHolds'
  BY <1>3 DEF PromiseHolds
<1>4. Holds(promised.id, promised.version)
  BY DEF SavedInv, PromiseHolds
<1>5. Holds(promised.id, promised.version)'
  BY <1>3, <1>4 DEF Holds
<1>6. ASSUME NEW h \in fetches', h.newest, h.id = promised.id, h.got \notin {NotYet, NoDevice}
      PROVE  h.got.version >= promised.version
  <2>1. CASE h = g
    BY <1>2, <1>4, <1>6, <2>1 DEF Holds
  <2>2. CASE h \in fetches
    BY <1>6, <2>2 DEF SavedInv, PromiseHolds
  <2>3. QED
    BY <1>3, <2>1, <2>2
<1>7. (\E h \in fetches : h.newest) => \E h \in fetches' : h.newest
  BY <1>2, <1>3
<1>8. QED
  BY <1>3, <1>5, <1>6, <1>7 DEF SavedInv, PromiseHolds

LEMMA FetchEndKeepsPromise ==
  ASSUME SavedInv, ButtonsInv', NEW f \in fetches, FetchAnswered(f) \/ FetchFails(f)
  PROVE  PromiseHolds'
<1>1. fetches' = fetches \ {f} /\ UNCHANGED <<entity, promised>>
  BY DEF FetchAnswered, FetchFails
<1> SUFFICES ASSUME promised # NoDevice PROVE PromiseHolds'
  BY <1>1 DEF PromiseHolds
<1>2. Holds(promised.id, promised.version)'
  BY <1>1 DEF SavedInv, PromiseHolds, Holds
<1>3. \A h \in fetches' : h.newest /\ h.id = promised.id /\ h.got \notin {NotYet, NoDevice} =>
          h.got.version >= promised.version
  BY <1>1 DEF SavedInv, PromiseHolds
<1>4. \/ \E h \in fetches' : h.newest
      \/ deviceFailed'
      \/ entityShown' # NoDevice /\ entityShown'.id = promised.id =>
             entityShown'.is.version >= promised.version
  <2>1. CASE ~f.newest
    <3>1. (deviceFailed' <=> deviceFailed) /\ entityShown' = entityShown
      BY <2>1 DEF FetchAnswered, FetchFails
    <3>2. (\E h \in fetches : h.newest) => \E h \in fetches' : h.newest
      BY <1>1, <2>1
    <3>3. QED
      BY <3>1, <3>2 DEF SavedInv, PromiseHolds
  <2>2. CASE f.newest /\ FetchAnswered(f)
    <3>1. entityShown' = [id |-> f.id, is |-> f.got] /\ f.got \notin {NotYet, NoDevice}
      BY <2>2 DEF FetchAnswered
    <3>2. f.id = promised.id => f.got.version >= promised.version
      BY <2>2, <3>1 DEF SavedInv, PromiseHolds
    <3>3. QED
      BY <3>1, <3>2
  <2>3. CASE f.newest /\ FetchFails(f)
    BY <2>3 DEF FetchFails
  <2>4. QED
    BY <2>1, <2>2, <2>3
<1>5. QED
  BY <1>1, <1>2, <1>3, <1>4 DEF PromiseHolds

LEMMA ContinueKeepsPromise ==
  ASSUME SavedInv, ButtonsInv', NEW c \in deviceCalls, CallContinues(c)
  PROVE  PromiseHolds'
<1>1. UNCHANGED <<entity, shownVars>>
  BY DEF CallContinues
<1>2. CASE ~c.mine
  <2>1. UNCHANGED <<fetches, promised, deviceFailed, entityShown>>
    BY <1>2 DEF CallContinues, shownVars
  <2>2. QED
    BY <1>1, <2>1, SameGrows, PromiseKept DEF SavedInv, ButtonsInv
<1>3. CASE c.mine
  <2>1. PICK who \in {"poll", "save", "command"}, id \in DeviceId :
            who = c.op /\ id = deviceUrl
    BY <1>3 DEF CallContinues, SavedInv, ButtonsInv, PageTypeOK, DeviceCall, DeviceOps
  <2>2. fetches' = Refresh(who, id)
    BY <1>3, <2>1 DEF CallContinues
  <2>3. (\E f \in fetches' : f.newest) /\ \A f \in fetches' : f.newest => f.got = NotYet
    BY <2>2, RefreshFacts DEF SavedInv, ButtonsInv
  <2>4. CASE c.op = "save"
    <3>1. promised' = [id |-> c.id, version |-> c.version]
      BY <1>3, <2>4 DEF CallContinues
    <3>2. Holds(c.id, c.version)
      BY <2>4 DEF CallContinues, SavedInv, SavesHold
    <3>3. Holds(promised.id, promised.version)'
      BY <1>1, <3>1, <3>2 DEF Holds
    <3>4. QED
      BY <2>3, <3>3, PromiseRefreshed
  <2>5. CASE c.op # "save"
    <3>1. promised' = promised
      BY <2>5 DEF CallContinues
    <3>2. promised' # NoDevice => Holds(promised.id, promised.version)'
      BY <1>1, <3>1 DEF SavedInv, PromiseHolds, Holds
    <3>3. QED
      BY <2>3, <3>2, PromiseRefreshed
  <2>6. QED
    BY <2>4, <2>5
<1>4. QED
  BY <1>2, <1>3

LEMMA SavedStep == ASSUME SavedInv, [DevicePageNext]_deviceVars PROVE SavedInv'
<1>1. ButtonsInv'
  BY ButtonsStep DEF SavedInv
<1>2. UNCHANGED entity => Grows
  BY SameGrows DEF SavedInv, ButtonsInv
<1>3. ASSUME UNCHANGED entity, deviceCalls' \subseteq deviceCalls PROVE SavesHold'
  BY <1>1, <1>2, <1>3, SavesKept
<1>4. ASSUME UNCHANGED <<entity, deviceCalls, fetches, promised, deviceFailed, entityShown>>
      PROVE  SavedInv'
  BY <1>1, <1>2, <1>3, <1>4, PromiseKept DEF SavedInv
<1>5. ASSUME UNCHANGED <<entity, deviceCalls, promised>>, NEW id \in DeviceId,
             fetches' = Refresh("poll", id)
      PROVE  SavedInv'
  <2>1. (\E f \in fetches' : f.newest) /\ \A f \in fetches' : f.newest => f.got = NotYet
    BY <1>5, RefreshFacts DEF SavedInv, ButtonsInv
  <2>2. promised' # NoDevice => Holds(promised.id, promised.version)'
    BY <1>5 DEF SavedInv, PromiseHolds, Holds
  <2>3. QED
    BY <1>1, <1>3, <1>5, <2>1, <2>2, PromiseRefreshed DEF SavedInv
<1>6. CASE (\E d \in DeviceId : OpenDevice(d) \/ JumpDevice(d)) \/ PollDevice
  BY <1>5, <1>6 DEF OpenDevice, JumpDevice, PollDevice, SavedInv, ButtonsInv, PageTypeOK
<1>7. ASSUME NEW gone \in SUBSET deviceCalls, Unmounted(gone), UNCHANGED entity PROVE SavedInv'
  <2>1. \A c \in gone : /\ [c EXCEPT !.mine = FALSE].op = c.op
                        /\ [c EXCEPT !.mine = FALSE].id = c.id
                        /\ [c EXCEPT !.mine = FALSE].version = c.version
    <3>1. \A c \in gone : c \in DeviceCall
      BY DEF SavedInv, ButtonsInv, PageTypeOK
    <3>2. QED
      BY <3>1 DEF DeviceCall
  <2>2. ASSUME NEW c \in deviceCalls'
        PROVE  \E b \in deviceCalls : b.op = c.op /\ b.version = c.version /\ b.id = c.id
    BY <1>7, <2>1 DEF Unmounted
  <2>3. SavesHold'
    BY <1>1, <1>2, <1>7, <2>2, SavesKept
  <2>4. QED
    BY <1>1, <1>7, <2>3 DEF SavedInv, PromiseHolds, Unmounted
<1>8. CASE LeaveDevice
  <2>1. Unmounted(deviceCalls) /\ UNCHANGED entity
    BY <1>8 DEF LeaveDevice
  <2>2. PICK gone \in SUBSET deviceCalls : gone = deviceCalls
    OBVIOUS
  <2>3. Unmounted(gone)
    BY <2>1, <2>2
  <2>4. QED
    BY <1>7, <2>1, <2>3
<1>9. ASSUME NEW c \in deviceCalls, DeleteContinues(c) PROVE SavedInv'
  <2>1. Unmounted(deviceCalls \ {c}) /\ UNCHANGED entity
    BY <1>9 DEF DeleteContinues
  <2>2. PICK gone \in SUBSET deviceCalls : gone = deviceCalls \ {c}
    OBVIOUS
  <2>3. Unmounted(gone)
    BY <2>1, <2>2
  <2>4. QED
    BY <1>7, <2>1, <2>3
<1>10. CASE HandleSetState \/ HandleSaveEdit \/ HandleDelete
  <2>1. PICK o, form : SendDevice(o, form)
    BY <1>10 DEF HandleSetState, HandleSaveEdit, HandleDelete
  <2>2. UNCHANGED <<entity, fetches, promised, deviceFailed, entityShown>>
    BY <1>10 DEF HandleSetState, HandleSaveEdit, HandleDelete, shownVars
  <2>3. \A c \in deviceCalls' : c \in deviceCalls \/ c.version = 0
    BY <2>1 DEF SendDevice
  <2>4. SavesHold'
    BY <1>1, <1>2, <2>2, <2>3, SavesKept
  <2>5. QED
    BY <1>1, <1>2, <2>2, <2>4, PromiseKept DEF SavedInv
<1>11. CASE HandleStartEdit \/ HandleCancelEdit \/ (\E form \in DeviceForm : ChangeForm(form))
            \/ UNCHANGED deviceVars
  BY <1>4, <1>11 DEF HandleStartEdit, HandleCancelEdit, ChangeForm, deviceVars, shownVars
<1>12. ASSUME NEW d \in DeviceId, NEW form \in DeviceForm, SomeoneEditsDevice(d, form)
       PROVE  SavedInv'
  <2>1. entity' = [entity EXCEPT ![d] = Saved(entity[d], form)] /\ entity[d] # NoDevice
        /\ UNCHANGED <<shownVars, deviceCalls, fetches, promised>>
    BY <1>12 DEF SomeoneEditsDevice
  <2>2. \A e \in DeviceId : entity[e] # NoDevice => entity[e].version \in Nat
    BY DEF SavedInv, ButtonsInv, PageTypeOK, Entity
  <2>3. Saved(entity[d], form).version >= entity[d].version
    BY <2>1, <2>2 DEF Saved
  <2>4. Grows
    BY <2>1, <2>2, <2>3 DEF Grows, SavedInv, ButtonsInv, PageTypeOK
  <2>5. SavesHold'
    BY <1>1, <2>1, <2>4, SavesKept
  <2>6. QED
    BY <1>1, <2>1, <2>4, <2>5, PromiseKept DEF SavedInv, shownVars
<1>13. ASSUME NEW c \in deviceCalls, DeviceCallServed(c) PROVE SavedInv'
  <2>1. Grows
    BY <1>13, CallServedKeepsButtons DEF Grows, SavedInv
  <2>2. UNCHANGED <<fetches, promised, deviceFailed, entityShown>>
    BY <1>13 DEF DeviceCallServed, shownVars
  <2>3. PICK v : /\ deviceCalls' = (deviceCalls \ {c}) \cup {[c EXCEPT !.version = v]}
                 /\ c.op = "save" => v = entity'[c.id].version
    BY <1>13 DEF DeviceCallServed
  <2>4. c \in DeviceCall
    BY DEF SavedInv, ButtonsInv, PageTypeOK
  <2>5. c.op = "save" => Holds(c.id, v)'
    <3>1. c.id \in DeviceId
      BY <2>4 DEF DeviceCall
    <3>2. entity'[c.id] # NoDevice => entity'[c.id].version \in Nat
      BY <1>1, <3>1 DEF ButtonsInv, PageTypeOK, Entity
    <3>3. entity'[c.id] # NoDevice => entity'[c.id].version >= entity'[c.id].version
      BY <3>2
    <3>4. QED
      BY <2>3, <3>3 DEF Holds
  <2>6. [c EXCEPT !.version = v].id = c.id /\ [c EXCEPT !.version = v].version = v
        /\ [c EXCEPT !.version = v].op = c.op
    BY <2>4 DEF DeviceCall
  <2>7. SavesHold'
    BY <1>1, <2>1, <2>3, <2>5, <2>6, SavesKept
  <2>8. QED
    BY <1>1, <2>1, <2>2, <2>7, PromiseKept DEF SavedInv
<1>14. ASSUME NEW c \in deviceCalls, DeviceCallFails(c) PROVE SavedInv'
  <2>1. deviceCalls' \subseteq deviceCalls
        /\ UNCHANGED <<entity, fetches, promised, deviceFailed, entityShown>>
    BY <1>14 DEF DeviceCallFails, shownVars
  <2>2. QED
    BY <1>1, <1>2, <1>3, <2>1, PromiseKept DEF SavedInv
<1>15. ASSUME NEW c \in deviceCalls, CallContinues(c) PROVE SavedInv'
  <2>1. deviceCalls' \subseteq deviceCalls /\ UNCHANGED entity
    BY <1>15 DEF CallContinues
  <2>2. QED
    BY <1>1, <1>3, <1>15, <2>1, ContinueKeepsPromise DEF SavedInv
<1>16. ASSUME NEW f \in fetches, FetchServed(f) \/ FetchAnswered(f) \/ FetchFails(f)
       PROVE  SavedInv'
  <2>1. UNCHANGED <<entity, deviceCalls>>
    BY <1>16 DEF FetchServed, FetchAnswered, FetchFails
  <2>2. PromiseHolds'
    BY <1>1, <1>16, FetchServedKeepsPromise, FetchEndKeepsPromise
  <2>3. QED
    BY <1>1, <1>3, <2>1, <2>2 DEF SavedInv
<1>17. QED
  BY <1>6, <1>8, <1>9, <1>10, <1>11, <1>12, <1>13, <1>14, <1>15, <1>16 DEF DevicePageNext

\* The inductive invariant of the page of a device: what a save was answered with is kept by the
\* server, by the newest answer and by the page.
THEOREM SavedInvariance == DevicePageSpec => []SavedInv
<1>1. QED
  BY PageStart, SavedStep, PTL DEF DevicePageSpec

\* For any devices, polls and other clients, the page shows what was saved once the form has
\* closed, or its newest request is still under way (handleSaveEdit of DeviceDetailPage and the
\* requests that usePolling numbers).
THEOREM SavedIsShown == DevicePageSpec => []ShowsWhatWasSaved
<1>1. SavedInv => ShowsWhatWasSaved
  BY DEF SavedInv, PromiseHolds, ShowsWhatWasSaved, DeviceShown
<1>2. QED
  BY <1>1, SavedInvariance, PTL

-----------------------------------------------------------------------------
(***************************************************************************)
(* The timeline.  A set of numbers that has 0 and the successor of each of *)
(* its members has every number: with it the loop of buildStateSegments is *)
(* reasoned about instant by instant.                                      *)
(***************************************************************************)
LEMMA EveryNumber ==
  ASSUME NEW B, 0 \in B, \A n \in Nat : n \in B => n + 1 \in B
  PROVE  \A n \in Nat : n \in B
<1> DEFINE R == {p \in Nat \X Nat : p[1] < p[2]}
           Bad == {n \in Nat : n \notin B}
<1>1. IsWellFoundedOn(R, Nat)
  BY NatLessThanWellFounded, Zenon DEF OpToRel
<1>2. SUFFICES ASSUME Bad # {} PROVE FALSE
  OBVIOUS
<1>3. PICK n \in Bad : \A m \in Bad : ~(<<m, n>> \in R)
  <2>1. Bad \subseteq Nat
    OBVIOUS
  <2> HIDE DEF Bad, R
  <2>2. QED
    BY <1>1, <1>2, <2>1, WFMin, Zenon
<1>4. n \in Nat /\ n # 0 /\ n \notin B
  BY <1>3
<1>5. n - 1 \in Nat /\ n - 1 < n
  BY <1>4
<1>6. n - 1 \in B
  BY <1>3, <1>4, <1>5
<1>7. (n - 1) + 1 \in B
  BY <1>5, <1>6
<1>8. QED
  BY <1>4, <1>7

-----------------------------------------------------------------------------
\* The points of a card: reports of a contact, no two of the same instant.
Point == [time : 1..MaxClock, on : BOOLEAN]

Points(ps) ==
    /\ ps \subseteq Point
    /\ \A p, q \in ps : p.time = q.time => p = q

Segment == [active : BOOLEAN, start : Int, end : Int]

Accumulator == [segments : Seq(Segment), start : Int, on : BOOLEAN]

LEMMA SegmentTypes ==
  ASSUME NEW s \in Seq(Segment)
  PROVE  /\ Len(s) \in Nat /\ DOMAIN s = 1..Len(s)
         /\ \A i \in 1..Len(s) : s[i] \in Segment /\ s[i].start \in Int /\ s[i].end \in Int
                                  /\ s[i].active \in BOOLEAN
<1>1. Len(s) \in Nat /\ DOMAIN s = 1..Len(s) /\ \A i \in 1..Len(s) : s[i] \in Segment
  OBVIOUS
<1>2. \A x \in Segment : x.start \in Int /\ x.end \in Int /\ x.active \in BOOLEAN
  BY DEF Segment
<1>3. QED
  BY <1>1, <1>2

LEMMA AccumulatorTypes ==
  ASSUME NEW acc \in Accumulator
  PROVE  acc.segments \in Seq(Segment) /\ acc.start \in Int /\ acc.on \in BOOLEAN
BY DEF Accumulator

\* What the body of the loop makes of acc at instant t.
Turn(ps, acc, t) ==
    IF \E p \in ps : p.time = t THEN Cut(acc, CHOOSE p \in ps : p.time = t) ELSE acc

AtFirst(ps, from) == [segments |-> <<>>, start |-> from, on |-> Earliest(ps).on]

\* The loop runs to its end: there is a function that its turns define.
LEMMA LoopRuns ==
  ASSUME NEW ps, NEW from
  PROVE  LET c == CutUpTo(ps, from)
         IN  c = [t \in 0..MaxClock |-> IF t = 0 THEN AtFirst(ps, from) ELSE Turn(ps, c[t - 1], t)]
<1> DEFINE Run(g, n) ==
             g = [t \in 0..n |-> IF t = 0 THEN AtFirst(ps, from) ELSE Turn(ps, g[t - 1], t)]
           B == {n \in Nat : \E g : Run(g, n)}
<1>1. 0 \in B
  <2> DEFINE g == [t \in 0..0 |-> AtFirst(ps, from)]
  <2>1. \A t \in 0..0 : t = 0
    OBVIOUS
  <2>2. Run(g, 0)
    BY <2>1, Zenon
  <2>3. QED
    BY <2>2, Zenon
<1>2. ASSUME NEW n \in Nat, n \in B PROVE n + 1 \in B
  <2>1. PICK g : Run(g, n)
    BY <1>2
  <2> DEFINE h == [t \in 0..(n + 1) |-> IF t <= n THEN g[t] ELSE Turn(ps, g[n], n + 1)]
  <2>2. ASSUME NEW t \in 0..(n + 1)
        PROVE  h[t] = IF t = 0 THEN AtFirst(ps, from) ELSE Turn(ps, h[t - 1], t)
    <3>1. CASE t = 0
      BY <2>1, <3>1
    <3>2. CASE t \in 1..n
      <4>1. h[t] = g[t] /\ h[t - 1] = g[t - 1] /\ g[t] = Turn(ps, g[t - 1], t)
        BY <2>1, <3>2
      <4>2. QED
        BY <3>2, <4>1
    <3>3. CASE t = n + 1
      <4>1. h[t] = Turn(ps, g[n], n + 1) /\ h[t - 1] = g[n] /\ t # 0
        BY <3>3
      <4>2. QED
        BY <3>3, <4>1
    <3>4. QED
      BY <3>1, <3>2, <3>3
  <2>3. h = [t \in 0..(n + 1) |-> h[t]]
    OBVIOUS
  <2> HIDE DEF h
  <2>4. Run(h, n + 1)
    BY <2>2, <2>3, Zenon
  <2>5. n + 1 \in Nat
    OBVIOUS
  <2>6. QED
    BY <2>4, <2>5, Zenon
<1>3. MaxClock \in B
  <2> HIDE DEF B
  <2>1. \A n \in Nat : n \in B
    BY <1>1, <1>2, EveryNumber
  <2>2. QED
    BY <2>1, TimelineAssumption
<1>4. PICK g : Run(g, MaxClock)
  BY <1>3
<1> DEFINE C(f) == f = [t \in 0..MaxClock |->
                      IF t = 0 THEN [segments |-> <<>>, start |-> from, on |-> Earliest(ps).on]
                      ELSE IF \E p \in ps : p.time = t
                           THEN Cut(f[t - 1], CHOOSE p \in ps : p.time = t)
                           ELSE f[t - 1]]
<1>5. \A f : C(f) <=> Run(f, MaxClock)
  BY DEF AtFirst, Turn
<1>6. C(g)
  BY <1>4, <1>5
<1>7. CutUpTo(ps, from) = CHOOSE f : C(f)
  BY Zenon DEF CutUpTo
<1>8. C(CutUpTo(ps, from))
  <2> HIDE DEF C
  <2>1. QED
    BY <1>6, <1>7, Zenon
<1>9. QED
  <2> HIDE DEF C
  <2>1. Run(CutUpTo(ps, from), MaxClock)
    BY <1>5, <1>8
  <2>2. QED
    BY <2>1

LEMMA Least ==
  ASSUME NEW T, T \subseteq Nat, T # {}
  PROVE  \E m \in T : \A k \in T : m <= k
<1> DEFINE R == {p \in Nat \X Nat : p[1] < p[2]}
<1>1. IsWellFoundedOn(R, Nat)
  BY NatLessThanWellFounded, Zenon DEF OpToRel
<1>2. PICK m \in T : \A k \in T : ~(<<k, m>> \in R)
  <2> HIDE DEF R
  <2>1. QED
    BY <1>1, WFMin, Zenon
<1>3. \A k \in T : ~(k < m)
  BY <1>2
<1>4. QED
  BY <1>3

LEMMA Ends ==
  ASSUME NEW ps, ps \subseteq Point, ps # {}
  PROVE  /\ Earliest(ps) \in ps /\ \A q \in ps : Earliest(ps).time <= q.time
         /\ Newest(ps) \in ps /\ \A q \in ps : q.time <= Newest(ps).time
<1>1. \A p \in ps : p.time \in 1..MaxClock /\ p.time \in Nat
  BY DEF Point
<1>2. \E p \in ps : \A q \in ps : p.time <= q.time
  <2> DEFINE T == {p.time : p \in ps}
  <2>1. PICK m \in T : \A k \in T : m <= k
    BY <1>1, Least
  <2>2. QED
    BY <2>1
<1>3. \E p \in ps : \A q \in ps : q.time <= p.time
  <2> DEFINE T == {MaxClock - p.time : p \in ps}
  <2>1. T \subseteq Nat /\ T # {}
    BY <1>1, TimelineAssumption
  <2>2. PICK m \in T : \A k \in T : m <= k
    BY <2>1, Least
  <2>3. PICK p \in ps : m = MaxClock - p.time
    BY <2>2
  <2>4. ASSUME NEW q \in ps PROVE q.time <= p.time
    <3>1. MaxClock - p.time <= MaxClock - q.time
      BY <2>2, <2>3
    <3>2. QED
      BY <1>1, <3>1, TimelineAssumption
  <2>5. QED
    BY <2>4
<1>4. Earliest(ps) \in ps /\ \A q \in ps : Earliest(ps).time <= q.time
  BY <1>2, Zenon DEF Earliest
<1>5. Newest(ps) \in ps /\ \A q \in ps : q.time <= Newest(ps).time
  BY <1>3, Zenon DEF Newest
<1>6. QED
  BY <1>4, <1>5

\* What was reported last by t, with the first report standing for the time before it.
State(ps, t) == IF UpTo(ps, t) # {} THEN Newest(UpTo(ps, t)).on ELSE Earliest(ps).on

LEMMA NewestIsLast ==
  ASSUME NEW ps, Points(ps), NEW p \in ps, NEW t \in Int,
         p.time <= t, \A q \in ps : q.time <= t => q.time <= p.time
  PROVE  Newest(UpTo(ps, t)) = p /\ State(ps, t) = p.on
<1>1. UpTo(ps, t) \subseteq Point /\ p \in UpTo(ps, t) /\ UpTo(ps, t) \subseteq ps
  BY DEF Points, UpTo
<1>2. /\ Newest(UpTo(ps, t)) \in UpTo(ps, t)
      /\ \A q \in UpTo(ps, t) : q.time <= Newest(UpTo(ps, t)).time
  BY <1>1, Ends
<1>3. PICK n \in ps : n = Newest(UpTo(ps, t)) /\ n.time <= t /\ p.time <= n.time
  BY <1>1, <1>2 DEF UpTo
<1>4. n.time <= p.time /\ n.time \in Nat /\ p.time \in Nat
  BY <1>3 DEF Points, Point
<1>5. n = p
  BY <1>3, <1>4 DEF Points
<1>6. QED
  BY <1>1, <1>3, <1>5 DEF State

LEMMA StateAt ==
  ASSUME NEW ps, Points(ps), NEW p \in ps
  PROVE  State(ps, p.time) = p.on
<1>1. p.time \in Int /\ p.time <= p.time
  BY DEF Points, Point
<1>2. QED
  BY <1>1, NewestIsLast

LEMMA StateStays ==
  ASSUME NEW ps, NEW t \in Int, \A p \in ps : p.time # t /\ p.time \in Int
  PROVE  State(ps, t) = State(ps, t - 1) /\ UpTo(ps, t) = UpTo(ps, t - 1)
<1>1. UpTo(ps, t) = UpTo(ps, t - 1)
  BY DEF UpTo
<1>2. QED
  BY <1>1 DEF State

-----------------------------------------------------------------------------
\* The segments so far follow each other without a gap from the start of the window to the start
\* of the segment in hand, and each says what had been reported at its instants.
Row(acc, from, t) ==
    LET s == acc.segments
        n == Len(acc.segments)
    IN  /\ acc.start = from \/ (from < acc.start /\ acc.start <= t)
        /\ n = 0 => acc.start = from
        /\ n > 0 => s[1].start = from /\ s[n].end = acc.start
        /\ \A i \in 1..n : s[i].start < s[i].end /\ s[i].end <= acc.start
        /\ \A i \in 1..(n - 1) : s[i].end = s[i + 1].start
        /\ \A i, j \in 1..n : i < j => s[i].end <= s[j].start

Told(acc, ps, t) ==
    LET s == acc.segments
    IN  /\ acc.on = State(ps, t)
        /\ \A x \in Int : x <= t =>
              /\ acc.start <= x => acc.on = State(ps, x)
              /\ \A i \in 1..Len(s) :
                    s[i].start <= x /\ x < s[i].end => s[i].active = State(ps, x)

CutOK(acc, ps, from, t) == acc \in Accumulator /\ Row(acc, from, t) /\ Told(acc, ps, t)

LEMMA RowFrom ==
  ASSUME NEW acc, NEW from \in Int, NEW t \in Int, acc \in Accumulator, Row(acc, from, t),
         Len(acc.segments) > 0
  PROVE  from < acc.start
<1> DEFINE s == acc.segments
           n == Len(acc.segments)
<1>1. n \in Nat /\ acc.start \in Int /\ \A i \in 1..n : s[i].start \in Int /\ s[i].end \in Int
  BY SegmentTypes, AccumulatorTypes
<1>2. s[1].start = from /\ \A i \in 1..n : s[i].start < s[i].end /\ s[i].end <= acc.start
  BY DEF Row
<1>3. 1 \in 1..n
  BY <1>1
<1> HIDE DEF s, n
<1>4. s[1].start < s[1].end /\ s[1].end <= acc.start /\ s[1].end \in Int
  BY <1>1, <1>2, <1>3
<1>5. QED
  BY <1>1, <1>2, <1>4

\* Nothing was reported at the instant.
LEMMA PassInstant ==
  ASSUME NEW ps, Points(ps), NEW from \in Int, NEW t \in Int, NEW acc,
         CutOK(acc, ps, from, t - 1), \A p \in ps : p.time # t
  PROVE  CutOK(acc, ps, from, t)
<1>1. acc \in Accumulator /\ acc.start \in Int
  BY DEF CutOK, Accumulator
<1>2. State(ps, t) = State(ps, t - 1)
  BY StateStays DEF Points, Point
<1>3. Row(acc, from, t)
  BY <1>1 DEF CutOK, Row
<1>4. acc.start = from \/ acc.start < t
  BY <1>1 DEF CutOK, Row
<1> DEFINE s == acc.segments
<1>5. \A i \in 1..Len(s) : s[i].end \in Int /\ s[i].end <= acc.start /\ acc.start < t
  <2> SUFFICES ASSUME NEW i \in 1..Len(s)
               PROVE  s[i].end \in Int /\ s[i].end <= acc.start /\ acc.start < t
    OBVIOUS
  <2>1. Len(s) \in Nat /\ Len(s) > 0 /\ s[i].end \in Int
    BY <1>1, SegmentTypes, AccumulatorTypes
  <2>2. from < acc.start
    BY <1>1, <2>1, RowFrom DEF CutOK
  <2>3. s[i].end <= acc.start
    BY DEF CutOK, Row
  <2>4. QED
    BY <1>1, <1>4, <2>1, <2>2, <2>3
<1>6. acc.on = State(ps, t - 1)
  BY DEF CutOK, Told
<1>7. ASSUME NEW x \in Int, x <= t
      PROVE  /\ acc.start <= x => acc.on = State(ps, x)
             /\ \A i \in 1..Len(s) : s[i].start <= x /\ x < s[i].end => s[i].active = State(ps, x)
  <2>1. CASE x = t
    BY <1>1, <1>2, <1>5, <1>6, <2>1
  <2>2. CASE x <= t - 1
    BY <2>2 DEF CutOK, Told
  <2>3. QED
    BY <1>7, <2>1, <2>2
<1>8. QED
  BY <1>1, <1>2, <1>3, <1>6, <1>7 DEF CutOK, Told

\* A point is cut in.
LEMMA CutInstant ==
  ASSUME NEW ps, Points(ps), NEW from \in Int, NEW t \in Int, NEW acc,
         CutOK(acc, ps, from, t - 1), NEW p \in ps, p.time = t
  PROVE  CutOK(Cut(acc, p), ps, from, t)
<1> DEFINE S == Segment
           s == acc.segments
           n == Len(acc.segments)
<1>1. PICK a \in Seq(S), b \in Int, c \in BOOLEAN :
          acc = [segments |-> a, start |-> b, on |-> c]
  BY DEF CutOK, Accumulator
<1>2. acc.segments = a /\ acc.start = b /\ acc.on = c
  BY <1>1
<1>3. State(ps, t) = p.on /\ p.on \in BOOLEAN
  BY StateAt DEF Points, Point
<1>4. /\ n \in Nat /\ \A i \in 1..n : s[i] \in S
      /\ \A i \in 1..n : s[i].start \in Int /\ s[i].end \in Int
  BY <1>2, SegmentTypes
<1>5. /\ acc.start = from \/ (from < acc.start /\ acc.start <= t - 1)
      /\ n = 0 => acc.start = from
      /\ n > 0 => s[1].start = from /\ s[n].end = acc.start
      /\ \A i \in 1..n : s[i].start < s[i].end /\ s[i].end <= acc.start
      /\ \A i \in 1..(n - 1) : s[i].end = s[i + 1].start
      /\ \A i, j \in 1..n : i < j => s[i].end <= s[j].start
  BY DEF CutOK, Row
<1>6. /\ acc.on = State(ps, t - 1)
      /\ \A x \in Int : x <= t - 1 =>
            /\ acc.start <= x => acc.on = State(ps, x)
            /\ \A i \in 1..n : s[i].start <= x /\ x < s[i].end => s[i].active = State(ps, x)
  BY DEF CutOK, Told
<1>7. n > 0 => from < acc.start
  BY <1>4, RowFrom DEF CutOK
<1>8. CASE t <= acc.start
  <2>1. Cut(acc, p) = [segments |-> a, start |-> b, on |-> p.on]
    BY <1>1, <1>8 DEF Cut
  <2>2. acc.start = from /\ n = 0
    BY <1>2, <1>4, <1>5, <1>7, <1>8
  <2>3. Cut(acc, p) \in Accumulator
    BY <1>3, <2>1 DEF Accumulator
  <2>4. Row(Cut(acc, p), from, t)
    BY <1>2, <1>5, <2>1, <2>2 DEF Row
  <2>5. Told(Cut(acc, p), ps, t)
    <3>1. \A x \in Int : x <= t /\ b <= x => x = t
      BY <1>2, <1>8
    <3>2. QED
      BY <1>2, <1>3, <2>1, <2>2, <3>1 DEF Told
  <2>6. QED
    BY <2>3, <2>4, <2>5 DEF CutOK
<1>9. \A x \in Int : x <= t => x = t \/ x <= t - 1
  OBVIOUS
<1>10. CASE ~(t <= acc.start) /\ p.on = acc.on
  <2>1. Cut(acc, p) = acc
    BY <1>10 DEF Cut
  <2>2. Row(acc, from, t)
    <3>1. acc.start \in Int
      BY <1>2
    <3>2. acc.start = from \/ (from < acc.start /\ acc.start <= t)
      BY <1>5, <3>1
    <3>3. QED
      BY <1>5, <3>2 DEF Row
  <2>3. Told(acc, ps, t)
    <3>1. ASSUME NEW x \in Int, x <= t
          PROVE  /\ acc.start <= x => acc.on = State(ps, x)
                 /\ \A i \in 1..n : s[i].start <= x /\ x < s[i].end => s[i].active = State(ps, x)
      <4>1. CASE x = t
        BY <1>2, <1>3, <1>4, <1>5, <1>10, <4>1
      <4>2. CASE x <= t - 1
        BY <1>6, <4>2
      <4>3. QED
        BY <1>9, <3>1, <4>1, <4>2
    <3>2. QED
      BY <1>3, <1>10, <3>1 DEF Told
  <2>4. QED
    BY <2>1, <2>2, <2>3 DEF CutOK
<1>11. CASE ~(t <= acc.start) /\ p.on # acc.on
  <2> DEFINE e == [active |-> c, start |-> b, end |-> t]
             r == Append(a, e)
  <2>1. Cut(acc, p) = [segments |-> r, start |-> t, on |-> p.on]
    BY <1>1, <1>11 DEF Cut
  <2>2. e \in S
    BY DEF Segment
  <2> HIDE DEF e
  <2>3. /\ r \in Seq(S) /\ Len(r) = n + 1 /\ r[n + 1] = e
        /\ \A i \in 1..n : r[i] = s[i]
    BY <1>2, <2>2
  <2> HIDE DEF r
  <2>4. e.active = acc.on /\ e.start = acc.start /\ e.end = t /\ acc.start \in Int
    BY <1>2 DEF e
  <2> HIDE DEF s, n
  <2>5. \A i \in 1..(n + 1) : i \in 1..n \/ i = n + 1
    BY <1>4
  <2>6. from < t
    BY <1>5, <1>11, <2>4
  <2>7. n + 1 > 0 => r[1].start = from /\ r[n + 1].end = t
    <3>1. CASE n = 0
      BY <1>5, <2>3, <2>4, <3>1
    <3>2. CASE n > 0
      <4>1. 1 \in 1..n
        BY <1>4, <3>2
      <4>2. QED
        BY <1>5, <2>3, <2>4, <3>2, <4>1
    <3>3. QED
      BY <1>4, <3>1, <3>2
  <2>8. ASSUME NEW i \in 1..(n + 1)
        PROVE  r[i].start < r[i].end /\ r[i].end <= t
    <3>1. CASE i \in 1..n
      <4>1. s[i].start < s[i].end /\ s[i].end <= acc.start /\ s[i].end \in Int
        BY <1>4, <1>5, <3>1
      <4>2. QED
        BY <1>11, <2>3, <2>4, <3>1, <4>1
    <3>2. CASE i = n + 1
      BY <1>11, <2>3, <2>4, <3>2
    <3>3. QED
      BY <2>5, <3>1, <3>2
  <2>9. ASSUME NEW i \in 1..n PROVE r[i].end = r[i + 1].start
    <3>1. CASE i \in 1..(n - 1)
      <4>1. i + 1 \in 1..n
        BY <1>4, <3>1
      <4>2. QED
        BY <1>5, <2>3, <3>1, <4>1
    <3>2. CASE i = n
      <4>1. n > 0
        BY <3>2
      <4>2. QED
        BY <1>5, <2>3, <2>4, <3>2, <4>1
    <3>3. QED
      BY <1>4, <3>1, <3>2
  <2>10. ASSUME NEW i \in 1..(n + 1), NEW j \in 1..(n + 1), i < j
         PROVE  r[i].end <= r[j].start
    <3>1. i \in 1..n
      BY <1>4, <2>10
    <3>2. CASE j \in 1..n
      BY <1>5, <2>3, <2>10, <3>1, <3>2
    <3>3. CASE j = n + 1
      BY <1>5, <2>3, <2>4, <3>1, <3>3
    <3>4. QED
      BY <2>5, <3>2, <3>3
  <2>11. Row(Cut(acc, p), from, t)
    <3>1. (n + 1) - 1 = n /\ n + 1 # 0
      BY <1>4
    <3>2. QED
      BY <2>1, <2>3, <2>6, <2>7, <2>8, <2>9, <2>10, <3>1 DEF Row
  <2>12. ASSUME NEW x \in Int, x <= t
         PROVE  /\ t <= x => p.on = State(ps, x)
                /\ \A i \in 1..(n + 1) :
                      r[i].start <= x /\ x < r[i].end => r[i].active = State(ps, x)
    <3>1. t <= x => p.on = State(ps, x)
      <4>1. t <= x => x = t
        BY <2>12
      <4>2. QED
        BY <1>3, <4>1
    <3>2. ASSUME NEW i \in 1..(n + 1), r[i].start <= x, x < r[i].end
          PROVE  r[i].active = State(ps, x)
      <4>1. x <= t - 1
        <5>1. r[i].end <= t /\ r[i].end \in Int
          BY <2>3, <2>8, SegmentTypes
        <5>2. QED
          BY <3>2, <5>1
      <4>2. CASE i \in 1..n
        BY <1>6, <2>3, <3>2, <4>1, <4>2
      <4>3. CASE i = n + 1
        BY <1>6, <2>3, <2>4, <3>2, <4>1, <4>3
      <4>4. QED
        BY <2>5, <4>2, <4>3
    <3>3. QED
      BY <3>1, <3>2
  <2>13. Told(Cut(acc, p), ps, t)
    <3>1. State(ps, t) = p.on
      BY <1>3
    <3>2. QED
      BY <2>1, <2>3, <2>12, <3>1 DEF Told
  <2>14. Cut(acc, p) \in Accumulator
    BY <1>3, <2>1, <2>3 DEF Accumulator
  <2>15. QED
    BY <2>11, <2>13, <2>14 DEF CutOK
<1>12. QED
  BY <1>8, <1>10, <1>11

\* What buildStateSegments has made of the points up to any instant.
LEMMA LoopCuts ==
  ASSUME NEW ps, Points(ps), ps # {}, NEW from \in Int, NEW n \in 0..MaxClock
  PROVE  CutOK(CutUpTo(ps, from)[n], ps, from, n)
<1> DEFINE c == CutUpTo(ps, from)
           B == {t \in Nat : t <= MaxClock => CutOK(c[t], ps, from, t)}
<1>1. c = [t \in 0..MaxClock |-> IF t = 0 THEN AtFirst(ps, from) ELSE Turn(ps, c[t - 1], t)]
  BY LoopRuns
<1> HIDE DEF c
<1>2. Earliest(ps) \in ps /\ Earliest(ps).on \in BOOLEAN
  BY Ends DEF Points, Point
<1>3. \A p \in ps : p.time \in 1..MaxClock
  BY DEF Points, Point
<1>4. \A x \in Int : x <= 0 => State(ps, x) = Earliest(ps).on
  <2> SUFFICES ASSUME NEW x \in Int, x <= 0 PROVE State(ps, x) = Earliest(ps).on
    OBVIOUS
  <2>1. UpTo(ps, x) = {}
    BY <1>3 DEF UpTo
  <2>2. QED
    BY <2>1 DEF State
<1>5. 0 \in B
  <2> DEFINE e == Earliest(ps).on
  <2>1. e \in BOOLEAN /\ \A x \in Int : x <= 0 => State(ps, x) = e
    BY <1>2, <1>4
  <2>2. AtFirst(ps, from) = [segments |-> <<>>, start |-> from, on |-> e]
    BY DEF AtFirst
  <2> HIDE DEF e
  <2>3. <<>> \in Seq(Segment) /\ Len(<<>>) = 0
    OBVIOUS
  <2>4. AtFirst(ps, from) \in Accumulator
    BY <2>1, <2>2, <2>3 DEF Accumulator
  <2>5. Row(AtFirst(ps, from), from, 0)
    BY <2>2, <2>3 DEF Row
  <2>6. Told(AtFirst(ps, from), ps, 0)
    BY <2>1, <2>2, <2>3 DEF Told
  <2>7. 0 \in 0..MaxClock
    BY TimelineAssumption
  <2>8. c[0] = AtFirst(ps, from)
    BY <1>1, <2>7
  <2>9. QED
    BY <2>4, <2>5, <2>6, <2>8 DEF CutOK
<1>6. ASSUME NEW m \in Nat, m \in B PROVE m + 1 \in B
  <2> SUFFICES ASSUME m + 1 <= MaxClock PROVE CutOK(c[m + 1], ps, from, m + 1)
    OBVIOUS
  <2>1. CutOK(c[m], ps, from, (m + 1) - 1) /\ m + 1 \in Int
    <3>1. m <= MaxClock /\ (m + 1) - 1 = m
      BY TimelineAssumption
    <3>2. QED
      BY <1>6, <3>1
  <2>2. c[m + 1] = Turn(ps, c[m], m + 1)
    <3>1. m + 1 \in 0..MaxClock /\ m + 1 # 0 /\ (m + 1) - 1 = m
      BY TimelineAssumption
    <3>2. c[m + 1] = IF m + 1 = 0 THEN AtFirst(ps, from) ELSE Turn(ps, c[(m + 1) - 1], m + 1)
      BY <1>1, <3>1
    <3>3. QED
      BY <3>1, <3>2
  <2>3. CASE \E p \in ps : p.time = m + 1
    <3>1. PICK p \in ps : p.time = m + 1 /\ p = CHOOSE q \in ps : q.time = m + 1
      BY <2>3
    <3>2. c[m + 1] = Cut(c[m], p)
      BY <2>2, <2>3, <3>1 DEF Turn
    <3>3. CutOK(Cut(c[m], p), ps, from, m + 1)
      BY <2>1, <3>1, CutInstant
    <3>4. QED
      BY <3>2, <3>3
  <2>4. CASE ~ \E p \in ps : p.time = m + 1
    <3>1. c[m + 1] = c[m]
      BY <2>2, <2>4 DEF Turn
    <3>2. CutOK(c[m], ps, from, m + 1)
      BY <2>1, <2>4, PassInstant
    <3>3. QED
      BY <3>1, <3>2
  <2>5. QED
    BY <2>3, <2>4
<1>7. \A t \in Nat : t \in B
  <2> HIDE DEF B
  <2>1. QED
    BY <1>5, <1>6, EveryNumber
<1>8. n \in Nat /\ n <= MaxClock
  BY TimelineAssumption
<1>9. CutOK(c[n], ps, from, n)
  BY <1>7, <1>8
<1>10. QED
  BY <1>9 DEF c

\* The segments of a window: without a gap, and each as the points have it at every instant of the
\* window a report may have.
LEMMA SegmentsTell ==
  ASSUME NEW ps, Points(ps), ps # {}, NEW from \in Int, NEW to \in Int
  PROVE  LET s == BuildStateSegments(ps, from, to)
             n == Len(s)
         IN  /\ s \in Seq(Segment) /\ n \in Nat /\ n > 0
             /\ s[1].start = from /\ s[n].end = to
             /\ s[n].active = State(ps, MaxClock)
             /\ \A i \in 1..(n - 1) : s[i].start < s[i].end /\ s[i].end = s[i + 1].start
             /\ \A i, j \in 1..n : i < j => s[i].start < s[j].start
             /\ \A x \in Int : x <= MaxClock =>
                    \A i \in 1..n : s[i].start <= x /\ (x < s[i].end \/ i = n) =>
                        s[i].active = State(ps, x)
<1> DEFINE acc == CutUpTo(ps, from)[MaxClock]
           a == acc.segments
           m == Len(a)
           e == [active |-> acc.on, start |-> acc.start, end |-> to]
           s == Append(a, e)
<1>1. CutOK(acc, ps, from, MaxClock)
  <2>1. MaxClock \in 0..MaxClock
    BY TimelineAssumption
  <2>2. QED
    BY <2>1, LoopCuts
<1>2. BuildStateSegments(ps, from, to) = s
  BY DEF BuildStateSegments
<1> HIDE DEF acc
<1>3. /\ a \in Seq(Segment) /\ m \in Nat /\ acc.start \in Int /\ acc.on \in BOOLEAN
      /\ \A i \in 1..m : a[i].start \in Int /\ a[i].end \in Int
  BY <1>1, SegmentTypes, AccumulatorTypes DEF CutOK
<1>4. /\ m = 0 => acc.start = from
      /\ m > 0 => a[1].start = from /\ a[m].end = acc.start
      /\ \A i \in 1..m : a[i].start < a[i].end /\ a[i].end <= acc.start
      /\ \A i \in 1..(m - 1) : a[i].end = a[i + 1].start
      /\ \A i, j \in 1..m : i < j => a[i].end <= a[j].start
  BY <1>1 DEF CutOK, Row
<1>5. /\ acc.on = State(ps, MaxClock)
      /\ \A x \in Int : x <= MaxClock =>
            /\ acc.start <= x => acc.on = State(ps, x)
            /\ \A i \in 1..m : a[i].start <= x /\ x < a[i].end => a[i].active = State(ps, x)
  BY <1>1 DEF CutOK, Told
<1>6. e \in Segment /\ e.active = acc.on /\ e.start = acc.start /\ e.end = to
  BY <1>3 DEF Segment
<1> HIDE DEF e
<1>7. /\ s \in Seq(Segment) /\ Len(s) = m + 1 /\ s[m + 1] = e
      /\ \A i \in 1..m : s[i] = a[i]
  BY <1>3, <1>6
<1> HIDE DEF a, s, m
<1>8. \A i \in 1..(m + 1) : i \in 1..m \/ i = m + 1
  BY <1>3
<1>9. s[1].start = from
  <2>1. CASE m = 0
    BY <1>4, <1>6, <1>7, <2>1
  <2>2. CASE m > 0
    <3>1. 1 \in 1..m
      BY <1>3, <2>2
    <3>2. QED
      BY <1>4, <1>7, <2>2, <3>1
  <2>3. QED
    BY <1>3, <2>1, <2>2
<1>10. ASSUME NEW i \in 1..m PROVE s[i].start < s[i].end /\ s[i].end = s[i + 1].start
  <2>1. s[i].start < s[i].end
    BY <1>4, <1>7
  <2>2. CASE i \in 1..(m - 1)
    <3>1. i + 1 \in 1..m
      BY <1>3, <2>2
    <3>2. QED
      BY <1>4, <1>7, <2>1, <2>2, <3>1
  <2>3. CASE i = m
    BY <1>3, <1>4, <1>6, <1>7, <2>1, <2>3
  <2>4. QED
    BY <1>3, <2>2, <2>3
<1>11. ASSUME NEW i \in 1..(m + 1), NEW j \in 1..(m + 1), i < j PROVE s[i].start < s[j].start
  <2>1. i \in 1..m
    BY <1>3, <1>11
  <2>2. a[i].start < a[i].end /\ a[i].end <= acc.start /\ a[i].start \in Int /\ a[i].end \in Int
    BY <1>3, <1>4, <2>1
  <2>3. CASE j \in 1..m
    <3>1. a[i].end <= a[j].start /\ a[j].start \in Int
      BY <1>3, <1>4, <1>11, <2>1, <2>3
    <3>2. QED
      BY <1>7, <2>1, <2>2, <2>3, <3>1
  <2>4. CASE j = m + 1
    BY <1>3, <1>6, <1>7, <2>1, <2>2, <2>4
  <2>5. QED
    BY <1>8, <2>3, <2>4
<1>12. ASSUME NEW x \in Int, x <= MaxClock, NEW i \in 1..(m + 1),
              s[i].start <= x, x < s[i].end \/ i = m + 1
       PROVE  s[i].active = State(ps, x)
  <2>1. CASE i \in 1..m
    <3>1. i # m + 1
      BY <1>3, <2>1
    <3>2. QED
      BY <1>5, <1>7, <1>12, <2>1, <3>1
  <2>2. CASE i = m + 1
    BY <1>5, <1>6, <1>7, <1>12, <2>2
  <2>3. QED
    BY <1>8, <2>1, <2>2
<1>13. s[m + 1].end = to /\ s[m + 1].active = State(ps, MaxClock)
  BY <1>5, <1>6, <1>7
<1>14. m + 1 \in Nat /\ m + 1 > 0 /\ (m + 1) - 1 = m
  BY <1>3
<1>15. QED
  BY <1>2, <1>7, <1>9, <1>10, <1>11, <1>12, <1>13, <1>14

-----------------------------------------------------------------------------
\* The reports that found the door open after one that found it closed, and the first if it did.
Openings(ps) ==
    {p \in ps : ~p.on /\ (p = Earliest(ps) \/ Newest(UpTo(ps, p.time - 1)).on)}

\* An inactive segment of acc, or the one in hand, starts at x.
StartsOpen(acc, x) ==
    \/ \E i \in 1..Len(acc.segments) : ~acc.segments[i].active /\ acc.segments[i].start = x
    \/ ~acc.on /\ acc.start = x

OpenedBy(ps, t, x) ==
    \E p \in Openings(ps) : p.time = x /\ (p.time <= t \/ p = Earliest(ps))

OpenOK(acc, ps, t) == \A x \in Int : StartsOpen(acc, x) <=> OpenedBy(ps, t, x)

LEMMA OpensAt ==
  ASSUME NEW ps, Points(ps), NEW p \in ps, Earliest(ps).time < p.time
  PROVE  p \in Openings(ps) <=> ~p.on /\ State(ps, p.time - 1)
<1>1. Earliest(ps) \in ps /\ p # Earliest(ps)
  <2>1. Earliest(ps) \in ps /\ p.time \in Int
    BY Ends DEF Points, Point
  <2>2. QED
    BY <2>1
<1>2. p.time \in Int /\ Earliest(ps).time \in Int
  BY <1>1 DEF Points, Point
<1>3. Earliest(ps) \in UpTo(ps, p.time - 1)
  BY <1>1, <1>2 DEF UpTo
<1>4. State(ps, p.time - 1) = Newest(UpTo(ps, p.time - 1)).on
  BY <1>3 DEF State
<1>5. QED
  BY <1>1, <1>4 DEF Openings

\* A point is cut in: an inactive segment starts with it if it is an opening.
LEMMA OpenCut ==
  ASSUME NEW ps, Points(ps), NEW t \in Int, NEW acc,
         CutOK(acc, ps, Earliest(ps).time, t - 1), OpenOK(acc, ps, t - 1),
         NEW p \in ps, p.time = t
  PROVE  OpenOK(Cut(acc, p), ps, t)
<1> DEFINE n == Len(acc.segments)
           f == Earliest(ps).time
<1>1. PICK a \in Seq(Segment), b \in Int, c \in BOOLEAN :
          acc = [segments |-> a, start |-> b, on |-> c]
  BY DEF CutOK, Accumulator
<1>2. acc.segments = a /\ acc.start = b /\ acc.on = c /\ n \in Nat
  BY <1>1
<1>3. /\ Earliest(ps) \in ps /\ f \in Int /\ f <= t /\ p.on \in BOOLEAN
      /\ Earliest(ps).on \in BOOLEAN
  BY Ends DEF Points, Point
<1>4. /\ acc.start = f \/ (f < acc.start /\ acc.start <= t - 1)
      /\ n = 0 => acc.start = f
  BY DEF CutOK, Row
<1>5. n > 0 => f < acc.start
  BY <1>2, <1>3, RowFrom DEF CutOK
<1>6. acc.on = State(ps, t - 1)
  BY DEF CutOK, Told
<1>7. \A q \in ps : q.time = t => q = p
  BY DEF Points
<1>8. \A q \in ps : q.time \in Int
  BY DEF Points, Point
<1>9. CASE t <= acc.start
  <2>1. acc.start = f /\ n = 0 /\ t = f /\ p = Earliest(ps)
    <3>1. acc.start = f /\ n = 0 /\ t = f
      BY <1>2, <1>3, <1>4, <1>5, <1>9
    <3>2. QED
      BY <1>3, <1>7, <3>1
  <2>2. Cut(acc, p) = [segments |-> a, start |-> b, on |-> p.on]
    BY <1>1, <1>9 DEF Cut
  <2>3. ASSUME NEW x \in Int PROVE StartsOpen(Cut(acc, p), x) <=> ~p.on /\ f = x
    <3>1. 1..Len(a) = {} /\ b = f
      BY <1>2, <2>1
    <3>2. /\ Cut(acc, p).segments = a /\ Cut(acc, p).start = b
          /\ Cut(acc, p).on = p.on
      BY <2>2
    <3> HIDE DEF f
    <3>3. QED
      BY <3>1, <3>2, Zenon DEF StartsOpen
  <2>4. ASSUME NEW q \in ps, q.time <= t \/ q = Earliest(ps) PROVE q = p
    <3>1. f <= q.time
      BY Ends DEF Points
    <3>2. QED
      BY <1>3, <1>7, <1>8, <2>1, <2>4, <3>1
  <2>5. p \in Openings(ps) <=> ~p.on
    BY <2>1 DEF Openings
  <2>6. Openings(ps) \subseteq ps
    BY DEF Openings
  <2>7. ASSUME NEW x \in Int PROVE OpenedBy(ps, t, x) <=> ~p.on /\ f = x
    BY <2>1, <2>4, <2>5, <2>6 DEF OpenedBy
  <2>8. QED
    BY <2>3, <2>7 DEF OpenOK
<1>10. CASE ~(t <= acc.start)
  <2>1. f < t
    BY <1>2, <1>3, <1>4, <1>10
  <2>2. p \in Openings(ps) <=> ~p.on /\ acc.on
    BY <1>6, <2>1, OpensAt
  <2>3. p # Earliest(ps)
    BY <2>1, <1>3
  <2>4. ASSUME NEW x \in Int
        PROVE  OpenedBy(ps, t, x) <=> OpenedBy(ps, t - 1, x) \/ (~p.on /\ acc.on /\ x = t)
    <3>1. \A q \in Openings(ps) : q \in ps /\ q.time \in Int
      BY <1>8 DEF Openings
    <3>2. \A q \in Openings(ps) :
              (q.time <= t \/ q = Earliest(ps)) <=> (q.time <= t - 1 \/ q = Earliest(ps)) \/ q = p
      BY <1>7, <3>1
    <3>3. p \in Openings(ps) /\ p.time = x <=> ~p.on /\ acc.on /\ x = t
      BY <2>2
    <3>4. QED
      BY <3>2, <3>3 DEF OpenedBy
  <2>5. CASE p.on = acc.on
    <3>1. Cut(acc, p) = acc
      BY <1>10, <2>5 DEF Cut
    <3>2. ~(~p.on /\ acc.on)
      BY <2>5
    <3>3. QED
      BY <2>4, <3>1, <3>2 DEF OpenOK
  <2>6. CASE p.on # acc.on
    <3> DEFINE e == [active |-> c, start |-> b, end |-> t]
               r == Append(a, e)
    <3>1. Cut(acc, p) = [segments |-> r, start |-> t, on |-> p.on]
      BY <1>1, <1>10, <2>6 DEF Cut
    <3>2. e \in Segment /\ e.active = c /\ e.start = b
      BY DEF Segment
    <3> HIDE DEF e
    <3>3. Len(r) = n + 1 /\ r[n + 1] = e /\ \A i \in 1..n : r[i] = a[i]
      BY <1>2, <3>2
    <3> HIDE DEF r, n
    <3>4. \A i \in 1..(n + 1) : i \in 1..n \/ i = n + 1
      BY <1>2
    <3>5. n + 1 \in 1..(n + 1) /\ 1..n \subseteq 1..(n + 1)
      BY <1>2
    <3>6. ASSUME NEW x \in Int
          PROVE  (\E i \in 1..(n + 1) : ~r[i].active /\ r[i].start = x)
                   <=> StartsOpen(acc, x)
      <4>1. StartsOpen(acc, x) <=>
                (\E i \in 1..n : ~a[i].active /\ a[i].start = x) \/ (~c /\ b = x)
        BY <1>2 DEF StartsOpen, n
      <4>2. QED
        BY <3>2, <3>3, <3>4, <3>5, <4>1
    <3>7. ASSUME NEW x \in Int
          PROVE  StartsOpen(Cut(acc, p), x) <=> StartsOpen(acc, x) \/ (~p.on /\ t = x)
      BY <3>1, <3>3, <3>6 DEF StartsOpen
    <3>8. ~p.on => acc.on
      BY <1>2, <1>3, <2>6
    <3>9. QED
      BY <2>4, <3>7, <3>8 DEF OpenOK
  <2>7. QED
    BY <2>5, <2>6
<1>11. QED
  BY <1>9, <1>10

LEMMA LoopOpens ==
  ASSUME NEW ps, Points(ps), ps # {}, NEW n \in 0..MaxClock
  PROVE  OpenOK(CutUpTo(ps, Earliest(ps).time)[n], ps, n)
<1> DEFINE from == Earliest(ps).time
           c == CutUpTo(ps, from)
           B == {t \in Nat : t <= MaxClock => OpenOK(c[t], ps, t)}
<1>1. c = [t \in 0..MaxClock |-> IF t = 0 THEN AtFirst(ps, from) ELSE Turn(ps, c[t - 1], t)]
  <2> HIDE DEF from
  <2>1. QED
    BY LoopRuns
<1>2. Earliest(ps) \in ps /\ Earliest(ps).on \in BOOLEAN /\ from \in Int
  BY Ends DEF Points, Point
<1>3. \A p \in ps : p.time \in 1..MaxClock
  BY DEF Points, Point
<1>4. \A m \in 0..MaxClock : CutOK(c[m], ps, from, m)
  BY <1>2, LoopCuts
<1> HIDE DEF c
<1>5. 0 \in B
  <2> DEFINE e == Earliest(ps).on
  <2>1. AtFirst(ps, from) = [segments |-> <<>>, start |-> from, on |-> e]
    BY DEF AtFirst
  <2>2. Len(<<>>) = 0 /\ 1..0 = {}
    OBVIOUS
  <2>3. ASSUME NEW x \in Int
        PROVE  StartsOpen(AtFirst(ps, from), x) <=> ~e /\ from = x
    <3> HIDE DEF e, from
    <3>1. QED
      BY <2>1, <2>2 DEF StartsOpen
  <2>4. ASSUME NEW x \in Int PROVE OpenedBy(ps, 0, x) <=> ~e /\ from = x
    <3>1. \A q \in Openings(ps) : q \in ps /\ ~(q.time <= 0)
      BY <1>3 DEF Openings
    <3>2. Earliest(ps) \in Openings(ps) <=> ~e
      BY <1>2 DEF Openings
    <3>3. QED
      BY <3>1, <3>2 DEF OpenedBy
  <2>5. 0 \in 0..MaxClock
    BY TimelineAssumption
  <2>6. c[0] = AtFirst(ps, from)
    BY <1>1, <2>5
  <2>7. QED
    BY <2>3, <2>4, <2>6 DEF OpenOK
<1>6. ASSUME NEW m \in Nat, m \in B PROVE m + 1 \in B
  <2> SUFFICES ASSUME m + 1 <= MaxClock PROVE OpenOK(c[m + 1], ps, m + 1)
    OBVIOUS
  <2>1. /\ OpenOK(c[m], ps, (m + 1) - 1) /\ CutOK(c[m], ps, from, (m + 1) - 1)
        /\ m + 1 \in Int
    <3>1. m <= MaxClock /\ (m + 1) - 1 = m /\ m \in 0..MaxClock
      BY TimelineAssumption
    <3>2. QED
      BY <1>4, <1>6, <3>1
  <2>2. c[m + 1] = Turn(ps, c[m], m + 1)
    <3>1. m + 1 \in 0..MaxClock /\ m + 1 # 0 /\ (m + 1) - 1 = m
      BY TimelineAssumption
    <3>2. c[m + 1] = IF m + 1 = 0 THEN AtFirst(ps, from) ELSE Turn(ps, c[(m + 1) - 1], m + 1)
      BY <1>1, <3>1
    <3>3. QED
      BY <3>1, <3>2
  <2>3. CASE \E p \in ps : p.time = m + 1
    <3>1. PICK p \in ps : p.time = m + 1 /\ p = CHOOSE q \in ps : q.time = m + 1
      BY <2>3
    <3>2. c[m + 1] = Cut(c[m], p)
      BY <2>2, <2>3, <3>1 DEF Turn
    <3>3. OpenOK(Cut(c[m], p), ps, m + 1)
      BY <2>1, <3>1, OpenCut
    <3>4. QED
      BY <3>2, <3>3
  <2>4. CASE ~ \E p \in ps : p.time = m + 1
    <3>1. c[m + 1] = c[m]
      BY <2>2, <2>4 DEF Turn
    <3>2. \A q \in Openings(ps) : q.time \in Int /\ q.time # m + 1
      BY <1>3, <2>4 DEF Openings
    <3>3. \A x \in Int : OpenedBy(ps, m + 1, x) <=> OpenedBy(ps, (m + 1) - 1, x)
      <4>1. \A q \in Openings(ps) : q.time <= m + 1 <=> q.time <= (m + 1) - 1
        BY <3>2
      <4>2. QED
        BY <4>1 DEF OpenedBy
    <3>4. QED
      BY <2>1, <3>1, <3>3 DEF OpenOK
  <2>5. QED
    BY <2>3, <2>4
<1>7. \A t \in Nat : t \in B
  <2> HIDE DEF B
  <2>1. QED
    BY <1>5, <1>6, EveryNumber
<1>8. n \in Nat /\ n <= MaxClock
  BY TimelineAssumption
<1>9. OpenOK(c[n], ps, n)
  BY <1>7, <1>8
<1>10. QED
  BY <1>9 DEF c

\* The inactive segments from the first point on start with the openings.
LEMMA SegmentsOpen ==
  ASSUME NEW ps, Points(ps), ps # {}, NEW to \in Int, NEW x \in Int
  PROVE  LET s == BuildStateSegments(ps, Earliest(ps).time, to)
         IN  (\E i \in 1..Len(s) : ~s[i].active /\ s[i].start = x)
               <=> \E p \in Openings(ps) : p.time = x
<1> DEFINE from == Earliest(ps).time
           acc == CutUpTo(ps, from)[MaxClock]
           a == acc.segments
           m == Len(a)
           e == [active |-> acc.on, start |-> acc.start, end |-> to]
           s == Append(a, e)
<1>1. CutOK(acc, ps, from, MaxClock) /\ OpenOK(acc, ps, MaxClock)
  <2>1. MaxClock \in 0..MaxClock
    BY TimelineAssumption
  <2>2. from \in Int
    BY Ends DEF Points, Point
  <2>3. QED
    BY <2>1, <2>2, LoopCuts, LoopOpens
<1>2. BuildStateSegments(ps, from, to) = s
  BY DEF BuildStateSegments
<1> HIDE DEF acc, from
<1>3. /\ a \in Seq(Segment) /\ m \in Nat /\ acc.start \in Int /\ acc.on \in BOOLEAN
  BY <1>1, SegmentTypes, AccumulatorTypes DEF CutOK
<1>4. e \in Segment /\ e.active = acc.on /\ e.start = acc.start
  BY <1>3 DEF Segment
<1> HIDE DEF e
<1>5. /\ Len(s) = m + 1 /\ s[m + 1] = e /\ \A i \in 1..m : s[i] = a[i]
  BY <1>3, <1>4
<1>6. (\A i \in 1..(m + 1) : i \in 1..m \/ i = m + 1) /\ m + 1 \in 1..(m + 1)
      /\ 1..m \subseteq 1..(m + 1)
  BY <1>3
<1>7. StartsOpen(acc, x) <=>
          (\E i \in 1..m : ~a[i].active /\ a[i].start = x) \/ (~acc.on /\ acc.start = x)
  BY DEF StartsOpen
<1> HIDE DEF a, s, m
<1>8. (\E i \in 1..(m + 1) : ~s[i].active /\ s[i].start = x) <=> StartsOpen(acc, x)
  BY <1>4, <1>5, <1>6, <1>7
<1>9. \A p \in Openings(ps) : p.time <= MaxClock
  BY DEF Openings, Points, Point
<1>10. OpenedBy(ps, MaxClock, x) <=> \E p \in Openings(ps) : p.time = x
  BY <1>9 DEF OpenedBy
<1>11. (\E i \in 1..Len(s) : ~s[i].active /\ s[i].start = x) <=> \E p \in Openings(ps) : p.time = x
  BY <1>1, <1>5, <1>8, <1>10 DEF OpenOK
<1>12. QED
  BY <1>2, <1>11 DEF from

-----------------------------------------------------------------------------
\* The card's points are the server's reports of one window that has already ended.
TimelineInv ==
    /\ clock \in 0..MaxClock /\ range \in Nat
    /\ Points(reports) /\ \A p \in reports : p.time <= clock
    /\ asked # Nobody => \E f, g \in Int : g <= clock /\ asked = [from |-> f, to |-> g]
    /\ pointsTo \in Int /\ pointsTo <= clock
    /\ \E f \in Int : points = {p \in reports : f <= p.time /\ p.time <= pointsTo}

LEMMA TimelineStarts == TimelineInit => TimelineInv
<1> SUFFICES ASSUME TimelineInit PROVE TimelineInv
  OBVIOUS
<1>1. range \in Nat
  <2>1. \E r \in Ranges : \A s \in Ranges : s <= r
    BY TimelineAssumption
  <2>2. range \in Ranges
    BY <2>1, Zenon DEF TimelineInit
  <2>3. QED
    BY <2>2, TimelineAssumption
<1>2. clock \in 0..MaxClock
  BY TimelineAssumption DEF TimelineInit
<1>3. points = {p \in reports : 0 <= p.time /\ p.time <= pointsTo}
  BY DEF TimelineInit
<1>4. QED
  BY <1>1, <1>2, <1>3 DEF TimelineInit, TimelineInv, Points

\* A report is of the instant it comes in at, after every window asked for.
LEMMA TickKeeps ==
  ASSUME TimelineInv, NEW values \in {{}, {TRUE}, {FALSE}}, Tick(values)
  PROVE  TimelineInv'
<1> DEFINE new == {[time |-> clock + 1, on |-> v] : v \in values}
<1>1. /\ clock \in 0..MaxClock /\ clock < MaxClock /\ clock' = clock + 1
      /\ reports' = reports \cup new /\ range' = range /\ points' = points
      /\ pointsTo' = pointsTo /\ asked' = asked
  BY DEF TimelineInv, Tick
<1>2. clock \in Int /\ clock + 1 \in 1..MaxClock
  BY <1>1, TimelineAssumption
<1>3. \A p \in new : p.time = clock + 1 /\ p \in Point
  <2>1. \A v \in values : v \in BOOLEAN
    OBVIOUS
  <2>2. \A v \in BOOLEAN :
            /\ [time |-> clock + 1, on |-> v].time = clock + 1
            /\ [time |-> clock + 1, on |-> v] \in Point
    BY <1>2 DEF Point
  <2>3. QED
    BY <2>1, <2>2
<1>4. \A p, q \in new : p = q
  OBVIOUS
<1>5. \A p \in reports : p \in Point /\ p.time \in Int /\ p.time <= clock
  BY DEF TimelineInv, Points, Point
<1> HIDE DEF new
<1>6. Points(reports')
  <2>1. \A p, q \in reports : p.time = q.time => p = q
    BY DEF TimelineInv, Points
  <2>2. QED
    BY <1>1, <1>2, <1>3, <1>4, <1>5, <2>1 DEF Points
<1>7. \A p \in reports' : p.time <= clock'
  BY <1>1, <1>2, <1>3, <1>5
<1>8. pointsTo \in Int /\ pointsTo <= clock
  BY DEF TimelineInv
<1>9. \E f \in Int : points' = {p \in reports' : f <= p.time /\ p.time <= pointsTo'}
  <2>1. PICK f \in Int : points = {p \in reports : f <= p.time /\ p.time <= pointsTo}
    BY DEF TimelineInv
  <2>2. \A p \in new : ~(p.time <= pointsTo)
    BY <1>2, <1>3, <1>8
  <2>3. QED
    BY <1>1, <2>1, <2>2
<1>10. asked' # Nobody => \E f, g \in Int : g <= clock' /\ asked' = [from |-> f, to |-> g]
  <2> SUFFICES ASSUME asked # Nobody
               PROVE  \E f, g \in Int : g <= clock + 1 /\ asked = [from |-> f, to |-> g]
    BY <1>1
  <2>1. PICK f \in Int, g \in Int : g <= clock /\ asked = [from |-> f, to |-> g]
    BY DEF TimelineInv
  <2>2. g <= clock + 1
    BY <1>2, <2>1
  <2>3. QED
    BY <2>1, <2>2
<1>11. clock' \in 0..MaxClock /\ range' \in Nat /\ pointsTo' \in Int /\ pointsTo' <= clock'
  BY <1>1, <1>2, <1>8 DEF TimelineInv
<1>12. QED
  BY <1>6, <1>7, <1>9, <1>10, <1>11 DEF TimelineInv

LEMMA AskKeeps ==
  ASSUME TimelineInv, NEW r \in Nat, asked' = RangeBounds(r), range' \in Nat,
         UNCHANGED <<clock, reports, points, pointsTo>>
  PROVE  TimelineInv'
<1>1. clock \in Int /\ clock - r \in Int /\ clock <= clock
  BY DEF TimelineInv
<1>2. asked' = [from |-> clock - r, to |-> clock]
  BY DEF RangeBounds
<1>3. \E f, g \in Int : g <= clock' /\ asked' = [from |-> f, to |-> g]
  BY <1>1, <1>2
<1>4. QED
  BY <1>3 DEF TimelineInv

LEMMA HistoryKeeps ==
  ASSUME TimelineInv, HistoryArrives
  PROVE  TimelineInv'
<1>1. PICK f \in Int, g \in Int : g <= clock /\ asked = [from |-> f, to |-> g]
  BY DEF TimelineInv, HistoryArrives
<1>2. /\ points' = {p \in reports : f <= p.time /\ p.time <= g} /\ pointsTo' = g
      /\ asked' = Nobody /\ clock' = clock /\ reports' = reports /\ range' = range
  BY <1>1 DEF HistoryArrives
<1>3. QED
  BY <1>1, <1>2 DEF TimelineInv

\* The history has one report an instant and none from the time to come, and what the card has
\* of it is all of one window.
THEOREM TimelineInvariance == TimelineSpec => []TimelineInv
<1>1. TimelineInit => TimelineInv
  BY TimelineStarts
<1>2. TimelineInv /\ [TimelineNext]_timelineVars => TimelineInv'
  <2> SUFFICES ASSUME TimelineInv, [TimelineNext]_timelineVars PROVE TimelineInv'
    OBVIOUS
  <2>1. ASSUME NEW values \in {{}, {TRUE}, {FALSE}}, Tick(values) PROVE TimelineInv'
    BY <2>1, TickKeeps
  <2>2. CASE PollHistory
    BY <2>2, AskKeeps DEF PollHistory, TimelineInv
  <2>3. ASSUME NEW r \in Ranges, SetRange(r) PROVE TimelineInv'
    <3>1. r \in Nat
      BY TimelineAssumption
    <3>2. QED
      BY <2>3, <3>1, AskKeeps DEF SetRange
  <2>4. CASE HistoryArrives
    BY <2>4, HistoryKeeps
  <2>5. CASE HistoryFails
    BY <2>5 DEF HistoryFails, TimelineInv
  <2>6. CASE LatestServed
    BY <2>6 DEF LatestServed, TimelineInv
  <2>7. CASE LatestArrives
    BY <2>7 DEF LatestArrives, TimelineInv
  <2>8. CASE UNCHANGED timelineVars
    BY <2>8 DEF timelineVars, TimelineInv
  <2>9. QED
    BY <2>1, <2>2, <2>3, <2>4, <2>5, <2>6, <2>7, <2>8 DEF TimelineNext
<1>3. QED
  BY <1>1, <1>2, PTL DEF TimelineSpec

LEMMA HeldPoints ==
  ASSUME TimelineInv
  PROVE  /\ Points(points) /\ points \subseteq reports
         /\ clock \in Int /\ clock <= MaxClock /\ range \in Int /\ pointsTo \in Int
         /\ pointsTo <= clock
         /\ \A p \in points, q \in reports :
                p.time <= q.time /\ q.time <= pointsTo => q \in points
<1>1. PICK f \in Int : points = {p \in reports : f <= p.time /\ p.time <= pointsTo}
  BY DEF TimelineInv
<1>2. \A p \in reports : p.time \in Int
  BY DEF TimelineInv, Points, Point
<1>3. Points(points) /\ points \subseteq reports
  BY <1>1 DEF TimelineInv, Points
<1>4. clock \in Int /\ clock <= MaxClock /\ range \in Int
  BY TimelineAssumption DEF TimelineInv
<1>5. pointsTo \in Int /\ pointsTo <= clock
  BY DEF TimelineInv
<1>6. ASSUME NEW p \in points, NEW q \in reports, p.time <= q.time, q.time <= pointsTo
      PROVE  q \in points
  <2>1. f <= p.time /\ p.time \in Int /\ q.time \in Int
    BY <1>1, <1>2
  <2>2. f <= q.time
    BY <1>6, <2>1
  <2>3. QED
    BY <1>1, <1>6, <2>2
<1>7. QED
  BY <1>3, <1>4, <1>5, <1>6

\* As far back as the card's points go, they tell what the history tells.
LEMMA PointsTellReports ==
  ASSUME TimelineInv, points # {}, NEW t \in Int, Earliest(points).time <= t, t <= pointsTo
  PROVE  State(points, t) = Newest(UpTo(reports, t)).on
<1> DEFINE p == Newest(UpTo(points, t))
<1>1. /\ Points(points) /\ points \subseteq reports /\ Points(reports)
      /\ pointsTo \in Int
      /\ \A o \in points, q \in reports :
             o.time <= q.time /\ q.time <= pointsTo => q \in points
  BY HeldPoints DEF TimelineInv
<1>2. \A q \in reports : q.time \in Int
  BY <1>1 DEF Points, Point
<1>3. Earliest(points) \in UpTo(points, t) /\ UpTo(points, t) \subseteq points
  BY <1>1, Ends DEF Points, UpTo
<1>4. p \in UpTo(points, t) /\ \A q \in UpTo(points, t) : q.time <= p.time
  BY <1>1, <1>3, Ends DEF Points
<1>5. State(points, t) = p.on
  BY <1>3 DEF State
<1> HIDE DEF p
<1>6. p \in reports /\ p \in points /\ p.time <= t /\ p.time \in Int
  BY <1>1, <1>2, <1>4 DEF UpTo
<1>7. ASSUME NEW q \in reports, q.time <= t PROVE q.time <= p.time
  <2>1. CASE q.time <= p.time
    BY <2>1
  <2>2. CASE p.time <= q.time
    <3>1. q.time <= pointsTo
      BY <1>1, <1>2, <1>7
    <3>2. q \in points
      BY <1>1, <1>6, <2>2, <3>1
    <3>3. q \in UpTo(points, t)
      BY <1>7, <3>2 DEF UpTo
    <3>4. QED
      BY <1>4, <3>3
  <2>3. QED
    BY <1>2, <1>6, <2>1, <2>2
<1>8. Newest(UpTo(reports, t)) = p
  BY <1>1, <1>6, <1>7, NewestIsLast
<1>9. QED
  BY <1>5, <1>8

\* The bar fills the window without a gap and shows at every instant what the device had reported
\* by then, as far back as its points go and up to the end of the window they were asked for.
THEOREM HistoryIsTold == TimelineSpec => []TimelineTellsTheHistory
<1>1. ASSUME TimelineInv PROVE TimelineTellsTheHistory
  <2> SUFFICES ASSUME points # {}
               PROVE  LET s == Segments
                          w == RangeBounds(range)
                      IN  /\ s[1].start = w.from /\ s[Len(s)].end = w.to
                          /\ \A i \in 1..(Len(s) - 1) :
                                 s[i].start < s[i].end /\ s[i].end = s[i + 1].start
                          /\ \A t \in w.from..pointsTo : t >= Earliest(points).time =>
                                 \A i \in DOMAIN s :
                                     s[i].start <= t /\ (t < s[i].end \/ i = Len(s)) =>
                                         s[i].active = Newest(UpTo(reports, t)).on
    BY DEF TimelineTellsTheHistory
  <2> DEFINE w == RangeBounds(range)
             s == Segments
             n == Len(s)
  <2>1. PICK from \in Int, to \in Int : w = [from |-> from, to |-> to]
    BY <1>1, HeldPoints DEF RangeBounds
  <2>2. w.from = from /\ w.to = to
    BY <2>1
  <2>3. s = BuildStateSegments(points, from, to)
    BY <2>2 DEF Segments
  <2>4. /\ Points(points) /\ clock \in Int /\ clock <= MaxClock /\ pointsTo \in Int
        /\ pointsTo <= clock
    BY <1>1, HeldPoints
  <2>5. /\ s \in Seq(Segment) /\ n \in Nat
        /\ s[1].start = from /\ s[n].end = to
        /\ \A i \in 1..(n - 1) : s[i].start < s[i].end /\ s[i].end = s[i + 1].start
        /\ \A x \in Int : x <= MaxClock =>
               \A i \in 1..n : s[i].start <= x /\ (x < s[i].end \/ i = n) =>
                   s[i].active = State(points, x)
    <3> HIDE DEF s
    <3>1. QED
      BY <2>3, <2>4, SegmentsTell
  <2>6. Earliest(points).time \in Int
    BY <2>4, Ends DEF Points, Point
  <2> HIDE DEF s, w
  <2>7. DOMAIN s = 1..n
    BY <2>5
  <2>8. ASSUME NEW t \in w.from..pointsTo, t >= Earliest(points).time, NEW i \in 1..n,
               s[i].start <= t, t < s[i].end \/ i = n
        PROVE  s[i].active = Newest(UpTo(reports, t)).on
    <3>1. t \in Int /\ t <= pointsTo
      BY <2>2, <2>4
    <3>2. t <= MaxClock /\ Earliest(points).time <= t
      BY <2>4, <2>6, <2>8, <3>1, TimelineAssumption
    <3>3. s[i].active = State(points, t)
      BY <2>5, <2>8, <3>1, <3>2
    <3>4. State(points, t) = Newest(UpTo(reports, t)).on
      BY <1>1, <3>1, <3>2, PointsTellReports
    <3>5. QED
      BY <3>3, <3>4
  <2>9. QED
    BY <2>2, <2>5, <2>7, <2>8 DEF s, w
<1>2. QED
  BY <1>1, TimelineInvariance, PTL

\* The badge and the end of the bar agree once both have seen the newest report.
THEOREM BadgeAgrees == TimelineSpec => []BadgeAgreesWithBar
<1>1. ASSUME TimelineInv PROVE BadgeAgreesWithBar
  <2> SUFFICES ASSUME points # {}, currentValue # Nobody, currentValue = Newest(reports),
                      currentValue.time <= pointsTo
               PROVE  Badge = Segments[Len(Segments)].active
    BY DEF BadgeAgreesWithBar
  <2>1. /\ Points(points) /\ points \subseteq reports /\ Points(reports)
        /\ range \in Int /\ clock \in Int
        /\ \A p \in points, q \in reports :
               p.time <= q.time /\ q.time <= pointsTo => q \in points
    BY <1>1, HeldPoints DEF TimelineInv
  <2>2. currentValue \in reports /\ \A q \in reports : q.time <= currentValue.time
    BY <2>1, Ends DEF Points
  <2>3. currentValue \in points
    BY <2>1, <2>2
  <2>4. currentValue.time <= MaxClock /\ MaxClock \in Int
    BY <2>1, <2>2, TimelineAssumption DEF Points, Point
  <2>5. State(points, MaxClock) = currentValue.on
    BY <2>1, <2>2, <2>3, <2>4, NewestIsLast
  <2>6. PICK from \in Int, to \in Int : RangeBounds(range) = [from |-> from, to |-> to]
    BY <2>1 DEF RangeBounds
  <2> DEFINE s == Segments
  <2>7. s = BuildStateSegments(points, from, to)
    BY <2>6 DEF Segments
  <2>8. s[Len(s)].active = State(points, MaxClock)
    <3> HIDE DEF s
    <3>1. QED
      BY <2>1, <2>7, SegmentsTell
  <2>9. Badge = currentValue.on
    BY DEF Badge
  <2>10. QED
    BY <2>5, <2>8, <2>9
<1>2. QED
  BY <1>1, TimelineInvariance, PTL

\* "last opened" is the newest report that found the door open after one that found it closed, or
\* the first of the range if it found the door open and no later one did.
THEOREM OpeningIsTrue == TimelineSpec => []LastOpeningIsTrue
<1>1. ASSUME TimelineInv PROVE LastOpeningIsTrue
  <2> SUFFICES ASSUME points # {}
               PROVE  LastOpening = IF Openings(points) = {} THEN Nobody
                                    ELSE Newest(Openings(points)).time
    BY DEF LastOpeningIsTrue, Openings
  <2> DEFINE s == BuildStateSegments(points, Earliest(points).time, clock)
             open == {i \in DOMAIN s : ~s[i].active}
             O == Openings(points)
  <2>1. Points(points) /\ clock \in Int
    BY <1>1, HeldPoints
  <2>2. Earliest(points).time \in Int
    BY <2>1, Ends DEF Points, Point
  <2>3. /\ s \in Seq(Segment) /\ Len(s) \in Nat
        /\ \A i, j \in 1..Len(s) : i < j => s[i].start < s[j].start
    BY <2>1, <2>2, SegmentsTell
  <2>4. \A x \in Int :
            (\E i \in 1..Len(s) : ~s[i].active /\ s[i].start = x) <=> \E p \in O : p.time = x
    BY <2>1, SegmentsOpen
  <2>5. O \subseteq Point /\ \A p \in O : p.time \in Int
    BY <2>1 DEF Openings, Points, Point
  <2>6. LastOpening = IF open = {} THEN Nobody
                      ELSE s[CHOOSE i \in open : \A j \in open : j <= i].start
    BY DEF LastOpening
  <2> HIDE DEF s, O
  <2>7. DOMAIN s = 1..Len(s) /\ \A i \in 1..Len(s) : s[i].start \in Int
    BY <2>3, SegmentTypes
  <2>8. \A x \in Int : (\E i \in open : s[i].start = x) <=> \E p \in O : p.time = x
    BY <2>4, <2>7
  <2>9. \A i \in open : i \in 1..Len(s) /\ i \in Int /\ s[i].start \in Int
    BY <2>3, <2>7
  <2>10. CASE open = {}
    <3>1. O = {}
      BY <2>5, <2>8, <2>10
    <3>2. QED
      BY <2>6, <2>10, <3>1 DEF O
  <2>11. CASE open # {}
    <3>1. \E i \in open : \A j \in open : j <= i
      <4> DEFINE T == {Len(s) - i : i \in open}
      <4>1. T \subseteq Nat /\ T # {}
        BY <2>3, <2>9, <2>11
      <4>2. PICK m \in T : \A k \in T : m <= k
        BY <4>1, Least
      <4>3. PICK i \in open : m = Len(s) - i
        BY <4>2
      <4>4. ASSUME NEW j \in open PROVE j <= i
        <5>1. Len(s) - i <= Len(s) - j
          BY <4>2, <4>3
        <5>2. QED
          BY <2>3, <2>9, <5>1
      <4>5. QED
        BY <4>4
    <3>2. PICK k \in open : /\ k = CHOOSE i \in open : \A j \in open : j <= i
                            /\ \A j \in open : j <= k
      BY <3>1, Zenon
    <3> HIDE DEF open
    <3>3. LastOpening = s[k].start /\ s[k].start \in Int
      BY <2>6, <2>9, <2>11, <3>2
    <3>4. PICK p \in O : p.time = s[k].start
      BY <2>8, <3>3
    <3>5. Newest(O) \in O /\ p.time <= Newest(O).time
      BY <2>5, Ends
    <3>6. Newest(O).time <= p.time
      <4>1. PICK j \in open : s[j].start = Newest(O).time
        BY <2>5, <2>8, <3>5
      <4>2. j <= k /\ j \in 1..Len(s) /\ k \in 1..Len(s) /\ j \in Int /\ k \in Int
        BY <2>9, <3>2
      <4>3. j = k \/ s[j].start < s[k].start
        BY <2>3, <4>2
      <4>4. QED
        BY <2>9, <3>3, <3>4, <4>1, <4>3
    <3>7. Newest(O).time = s[k].start /\ O # {}
      BY <2>5, <3>4, <3>5, <3>6
    <3>8. QED
      BY <3>3, <3>7 DEF O
  <2>12. QED
    BY <2>10, <2>11
<1>2. QED
  BY <1>1, TimelineInvariance, PTL
=============================================================================
