---------------------------- MODULE SharedLists -----------------------------
(***************************************************************************)
(* The shopping list, the to-do list and the calendar (frontend/src/       *)
(* modules/shopping, todo and calendar).  The page polls the list, sends a *)
(* command for every click and asks again once it is answered.  Several    *)
(* clients share a list.                                                   *)
(***************************************************************************)
EXTENDS Integers, FiniteSets

CONSTANTS
    NoList,      \* no list on the page yet
    Idle,        \* no request for the list is open
    Unserved,    \* the server has not looked at the request yet
    MaxItems,    \* bound: items ever created
    MaxClicks    \* bound: gestures, polls, failures and other clients' changes

ItemIds == 1..MaxItems
Item == [id : ItemIds, done : BOOLEAN]

ASSUME ListAssumption ==
    /\ MaxItems \in Nat \ {0} /\ MaxClicks \in Nat
    /\ Idle # Unserved /\ NoList \notin BOOLEAN
    /\ \A list \in SUBSET Item : list \notin {Idle, Unserved, NoList}

VARIABLES
    listKind,   \* which page it is: "shopping", "todo" or "calendar"
    items,      \* the server: [id, done]; done is `checked` on the shopping list
    created,    \* the server: ids given away
    onPage,      \* `items` of the page
    listing,    \* the newest request for the list
    calls,      \* the commands without an answer
    draft,      \* the inputs of the form that are not empty
    clicks,
    intent,     \* ghost: what each item was last clicked to
    meddled,    \* ghost: items another client, a failure or an overtaken request has touched
    stale       \* ghost: the list has changed without this page's doing since it was read

listsVars == <<listKind, items, created, onPage, listing, calls, draft, clicks, intent, meddled,
               stale>>

Kinds == {"shopping", "todo", "calendar"}

InputsOf(k) ==
    CASE k = "shopping" -> {"name", "quantity"}
      [] k = "todo" -> {"title", "dueDate"}
      [] k = "calendar" -> {"title", "eventDate", "eventTime", "person", "note"}

Gesture(n) == clicks + n <= MaxClicks /\ clicks' = clicks + n
Untouched == UNCHANGED <<listKind, items, created, intent, meddled, stale>>

(***************************************************************************)
(* The list and its refresh: an older request no longer counts.            *)
(***************************************************************************)
PollItems ==
    /\ Gesture(1)
    /\ listing' = Unserved
    /\ UNCHANGED <<onPage, calls, draft>> /\ Untouched

ListServed ==
    /\ listing = Unserved
    /\ listing' = items
    /\ stale' = FALSE
    /\ UNCHANGED <<listKind, items, created, onPage, calls, draft, clicks, intent, meddled>>

ListAnswered ==
    /\ listing \notin {Idle, Unserved}
    /\ onPage' = listing
    /\ listing' = Idle
    /\ UNCHANGED <<calls, draft, clicks>> /\ Untouched

ListRequestFails ==
    /\ listing # Idle
    /\ Gesture(1)
    /\ listing' = Idle
    /\ stale' = TRUE
    /\ UNCHANGED <<listKind, items, created, onPage, calls, draft, intent, meddled>>

(***************************************************************************)
(* Commands.                                                               *)
(***************************************************************************)
\* A handler's request.
Call(op, i, done) ==
    /\ Gesture(1)
    /\ calls' = calls \cup 
          {[op |-> op, id |-> i, done |-> done, served |-> FALSE, nr |-> clicks]}
    /\ UNCHANGED <<listKind, items, created, onPage, listing, meddled, stale>>

\* Fault: the server turns the item over.
FaultApplied(c) ==
    IF c.op = "put" THEN {IF i.id = c.id THEN [i EXCEPT !.done = ~@] ELSE i : i \in items}
    ELSE items

\* What the server makes of a command.  A PUT carries the whole item.
Applied(c) ==
    CASE c.op = "post" -> items \cup {[id |-> created + 1, done |-> FALSE]}
      [] c.op = "put" -> {IF i.id = c.id THEN [i EXCEPT !.done = c.done] ELSE i : i \in items}
      [] c.op = "delete" -> {i \in items : i.id # c.id}
      [] c.op = "clear" -> {i \in items : ~i.done}

\* Each request has its own connection: an older one may be served later.
Overtakes(c) == \E d \in calls :
    ~d.served /\ d.nr < c.nr /\ d.op = "put" /\ c.op = "put" /\ d.id = c.id /\ d.done # c.done

\* An item that is gone cannot be changed or deleted: the answer is a 404.
Refused(c) == c.op \in {"put", "delete"} /\ \A i \in items : i.id # c.id

CallServed(c) ==
    /\ ~c.served /\ ~Refused(c)
    /\ c.op = "post" => created < MaxItems
    /\ items' = Applied(c)
    /\ created' = created + (IF c.op = "post" THEN 1 ELSE 0)
    /\ calls' = (calls \ {c}) \cup {[c EXCEPT !.served = TRUE]}
    /\ meddled' = meddled \cup (IF Overtakes(c) THEN {c.id} ELSE {})
    /\ UNCHANGED <<listKind, onPage, listing, draft, clicks, intent, stale>>

\* Fault: the list is asked for together with the command, not after it.
FaultCallAnswered(c) ==
    /\ c.served
    /\ calls' = calls \ {c}
    /\ UNCHANGED <<onPage, listing, draft, clicks>> /\ Untouched

\* The handler goes on: refresh().
CallAnswered(c) ==
    /\ c.served
    /\ calls' = calls \ {c}
    /\ listing' = Unserved
    /\ UNCHANGED <<onPage, draft, clicks>> /\ Untouched

\* Nobody catches it: no message, no refresh.
CallFails(c) ==
    /\ Gesture(1)
    /\ calls' = calls \ {c}
    /\ meddled' = meddled \cup {c.id}
    /\ stale' = (stale \/ c.served)
    /\ UNCHANGED <<listKind, items, created, onPage, listing, draft, intent>>

\* The 404 is an error like any other: the handler stops before its refresh().
CallRefused(c) ==
    /\ ~c.served /\ Refused(c)
    /\ calls' = calls \ {c}
    /\ UNCHANGED <<onPage, listing, draft, clicks>> /\ Untouched

OtherClient(i) ==
    /\ Gesture(1)
    /\ i \in items
    /\ items' \in {items \ {i}, (items \ {i}) \cup {[i EXCEPT !.done = ~@]}}
    /\ meddled' = meddled \cup {i.id}
    /\ stale' = TRUE
    /\ UNCHANGED <<listKind, created, onPage, listing, calls, draft, intent>>

(***************************************************************************)
(* The form.  Its inputs are empty again before the server has answered.   *)
(***************************************************************************)
Type(f) ==
    /\ f \in InputsOf(listKind) \ draft
    /\ Gesture(1)
    /\ draft' = draft \cup {f}
    /\ UNCHANGED <<onPage, listing, calls>> /\ Untouched

NewItem(k, needed, cleared) ==
    /\ listKind = k /\ needed \subseteq draft
    /\ Call("post", 0, FALSE)
    /\ draft' = draft \ cleared
    /\ UNCHANGED intent

NewShoppingItem == NewItem("shopping", {"name"}, {"name", "quantity"})
NewTodoItem == NewItem("todo", {"title"}, {"title", "dueDate"})

\* The date and the person stay for the next event.
NewCalendarEvent ==
    NewItem("calendar", {"title", "eventDate"}, {"title", "eventTime", "note"})

(***************************************************************************)
(* The rows.                                                               *)
(***************************************************************************)
\* handleToggle: what the page shows, the other way round.
Toggle(k, i) ==
    /\ listKind = k
    /\ Call("put", i.id, ~i.done)
    /\ intent' = [intent EXCEPT ![i.id] = ~i.done]
    /\ UNCHANGED draft

Delete(k, i) == listKind = k /\ Call("delete", i.id, FALSE) /\ UNCHANGED <<draft, intent>>

\* The button is there while the page shows a done item.
ClearDone(k) ==
    /\ listKind = k
    /\ \E i \in onPage : i.done
    /\ Call("clear", 0, FALSE)
    /\ UNCHANGED <<draft, intent>>

ShoppingItemRow(i) == Toggle("shopping", i) \/ Delete("shopping", i)
TodoItemRow(i) == Toggle("todo", i) \/ Delete("todo", i)
CalendarEventRow(i) == Delete("calendar", i)

ShoppingListPage ==
    NewShoppingItem \/ ClearDone("shopping") \/ \E i \in onPage : ShoppingItemRow(i)
TodoListPage == NewTodoItem \/ ClearDone("todo") \/ \E i \in onPage : TodoItemRow(i)
CalendarPage == NewCalendarEvent \/ \E i \in onPage : CalendarEventRow(i)

ListsInit ==
    /\ listKind \in Kinds
    /\ items = {[id |-> 1, done |-> FALSE]} /\ created = 1
    /\ onPage = NoList /\ listing = Unserved
    /\ calls = {} /\ draft = {} /\ clicks = 0
    /\ intent = [i \in ItemIds |-> NoList] /\ meddled = {} /\ stale = FALSE

ListsNext ==
    \/ PollItems \/ ListServed \/ ListAnswered \/ ListRequestFails
    \/ \E f \in InputsOf(listKind) : Type(f)
    \/ onPage # NoList /\ (ShoppingListPage \/ TodoListPage \/ CalendarPage)
    \/ \E c \in calls : CallServed(c) \/ CallAnswered(c) \/ CallRefused(c) \/ CallFails(c)
    \/ \E i \in items : OtherClient(i)

ListsSpec == ListsInit /\ [][ListsNext]_listsVars

(***************************************************************************)
(* Properties.                                                             *)
(***************************************************************************)
\* An item ends up as it was last clicked, however often and however quickly, while the list
\* on the page was still the old one: each click asks for what the page did not show.  (A
\* request that overtakes an older one of another wish loses to it.)
LastClickWins ==
    calls = {} =>
        \A i \in items : i.id \notin meddled /\ intent[i.id] # NoList => i.done = intent[i.id]

\* When everything is answered the page shows what the server has, unless another client has
\* changed it since or an answer was lost.
ListIsFreshWhenQuiet ==
    calls = {} /\ listing = Idle /\ ~stale => onPage = items
=============================================================================
