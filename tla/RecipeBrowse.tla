---------------------------- MODULE RecipeBrowse ----------------------------
(***************************************************************************)
(* Looking for a recipe and at one: RecipesPage and CookPickerPage, which  *)
(* list what matches a search and tags, and RecipeDetailPage, which shows  *)
(* amounts for the chosen servings and deletes.                            *)
(*                                                                         *)
(* Rendering for another search and asking for it is one step here         *)
(* (Polling has the step between them).                                    *)
(***************************************************************************)
EXTENDS Recipes

CONSTANTS
    Search,       \* what is typed into the search box; Nothing for nothing
    TagsOf,       \* the tags of each recipe
    FoundBy,      \* the searches that find each recipe
    Amount,       \* amounts of an ingredient, in hundredths
    Minutes,      \* preparation and cooking times; Nothing for none
    MaxTarget,    \* bound: servings
    MaxAsked      \* bound: requests and changes of the recipe on the detail page

ASSUME BrowseAssumption ==
    /\ TagsOf \in [Recipe -> SUBSET Tag] /\ FoundBy \in [Recipe -> SUBSET Search]
    /\ Amount # {} /\ Amount \subseteq Nat
    /\ Nothing \in Minutes /\ Minutes \subseteq Nat \cup {Nothing}
    /\ MaxTarget \in Nat \ {0} /\ MaxAsked \in Nat
    /\ Nothing \notin [hours : Nat, minutes : Nat]
    /\ \A recipes \in SUBSET Recipe : recipes # Nothing

VARIABLES
    filter,   \* the search and the selected tags
    queries,  \* requests without an answer: the filter, and whether it is the newest
    list,     \* `page`: the recipes of the last answer
    listFailed, listLoading,
    asked,
    viewed,   \* RecipeDetailPage: the id in the URL, Nothing on a list page
    dish,     \* the recipe on the page, with its id
    dishFailed,
    servings, deleting,
    deletes,  \* requests to delete: the recipe, and whether the page is still there
    onServer, \* the recipes with their amount, servingsBase and times
    confirmed \* ghost: what the user has agreed to delete

listVars == <<filter, queries, list, listFailed, listLoading>>
dishVars == <<viewed, dish, dishFailed, servings, deleting, deletes, onServer, confirmed>>
browseVars == <<listVars, asked, dishVars>>

Dish == [id : Recipe, amount : Amount, base : 1..MaxTarget, prep : Minutes, cook : Minutes]

Step == asked < MaxAsked /\ asked' = asked + 1

(***************************************************************************)
(* The lists.                                                              *)
(***************************************************************************)
\* _search_conditions of the recipe repository: all the tags, and the words in the title or
\* an ingredient; which words a recipe is found by is given.
Matches(f, r) ==
    f.tags \subseteq TagsOf[r] /\ (f.search = Nothing \/ f.search \in FoundBy[r])
Matching(f) ==
    {r \in {d.id : d \in onServer} : Matches(f, r)}

\* usePolling's refresh: only the newest request may write the state.
Ask(f) ==
    queries' = {[q EXCEPT !.newest = FALSE] : q \in queries} \cup {[filter |-> f, newest |-> TRUE]}

\* New deps: the page asks at once, and shows what it has meanwhile.
SetFilter(f) ==
    /\ viewed = Nothing /\ f # filter
    /\ Step
    /\ filter' = f
    /\ Ask(f)
    /\ listLoading' = TRUE
    /\ UNCHANGED <<list, listFailed, dishVars>>

\* SearchBox
SetSearch(s) == SetFilter([filter EXCEPT !.search = s])

\* toggleTag, the same in both pages.
ToggleTag(t) ==
    SetFilter([filter EXCEPT !.tags = IF t \in @ THEN @ \ {t} ELSE @ \cup {t}])

PollList ==
    /\ viewed = Nothing
    /\ Step
    /\ Ask(filter)
    /\ UNCHANGED <<filter, list, listFailed, listLoading, dishVars>>

\* Fault: any answer is shown.
FaultMayShow(q) == TRUE
MayShow(q) == q.newest

ListArrives(q) ==
    /\ queries' = queries \ {q}
    /\ IF MayShow(q) THEN list' = Matching(q.filter) /\ listFailed' = FALSE /\ listLoading' = FALSE
       ELSE UNCHANGED <<list, listFailed, listLoading>>
    /\ UNCHANGED <<filter, asked, dishVars>>

ListFails(q) ==
    /\ queries' = queries \ {q}
    /\ IF MayShow(q) THEN listFailed' = TRUE /\ listLoading' = FALSE
       ELSE UNCHANGED <<listFailed, listLoading>>
    /\ UNCHANGED <<filter, list, asked, dishVars>>

\* RecipeGrid and its "No recipes found."
GridShows == IF list = {} THEN {"empty"} ELSE {"cards"}

\* What RecipesPage shows under the search.
RecipesPageShows ==
    (IF listLoading /\ list = Nothing THEN {"loading"} ELSE {})
    \cup (IF listFailed THEN {"error"} ELSE {})
    \cup (IF list = Nothing THEN {} ELSE GridShows)

\* CookPickerPage does not tell a failure.
CookPickerShows ==
    (IF listLoading /\ list = Nothing THEN {"loading"} ELSE {})
    \cup (IF list # Nothing /\ list = {} THEN {"empty"} ELSE {})
    \cup (IF list # Nothing /\ list # {} THEN {"cards"} ELSE {})

(***************************************************************************)
(* The recipe.                                                             *)
(***************************************************************************)
\* A RecipeCard.
View(r) ==
    /\ viewed = Nothing /\ list # Nothing /\ r \in list
    /\ viewed' = r
    /\ dish' = Nothing /\ dishFailed' = FALSE /\ servings' = Nothing /\ deleting' = FALSE
    /\ UNCHANGED <<listVars, asked, deletes, onServer, confirmed>>

\* A jump in the history to another recipe's page keeps the component and its state.
JumpToDish(r) ==
    /\ viewed \notin {Nothing, r}
    /\ Step
    /\ viewed' = r
    /\ UNCHANGED <<listVars, dish, dishFailed, servings, deleting, deletes, onServer, confirmed>>

\* The list page is mounted anew.
BackToList ==
    /\ viewed' = Nothing
    /\ dish' = Nothing /\ dishFailed' = FALSE /\ servings' = Nothing /\ deleting' = FALSE
    /\ filter' = [search |-> Nothing, tags |-> {}]
    /\ queries' = {[filter |-> filter', newest |-> TRUE]}
    /\ list' = Nothing /\ listFailed' = FALSE /\ listLoading' = TRUE

\* What is in flight for a page that is gone no longer changes its state.
Orphans(Q) == {[q EXCEPT !.mine = FALSE] : q \in Q}

CloseDish ==
    /\ viewed # Nothing
    /\ BackToList
    /\ deletes' = Orphans(deletes)
    /\ UNCHANGED <<asked, onServer, confirmed>>

\* The poll of the recipe in the URL.
DishArrives ==
    /\ viewed # Nothing
    /\ \E d \in onServer : d.id = viewed /\ dish' = d
    /\ dishFailed' = FALSE
    /\ <<dish, dishFailed>> # <<dish', FALSE>>
    /\ UNCHANGED <<listVars, asked, viewed, servings, deleting, deletes, onServer, confirmed>>

\* The recipe is gone.
DishFails ==
    /\ viewed # Nothing /\ ~dishFailed
    /\ viewed \notin {d.id : d \in onServer}
    /\ dishFailed' = TRUE
    /\ UNCHANGED <<listVars, asked, viewed, dish, servings, deleting, deletes, onServer, confirmed>>

DishEdited(d) ==
    /\ Step
    /\ \E e \in onServer : e.id = d.id /\ e # d /\ onServer' = (onServer \ {e}) \cup {d}
    /\ UNCHANGED <<listVars, viewed, dish, dishFailed, servings, deleting, deletes, confirmed>>

\* Neither "Failed to load recipe" nor Loading.
DishShown == viewed # Nothing /\ dish # Nothing /\ ~dishFailed

TargetServings == IF servings = Nothing THEN dish.base ELSE servings

\* The column of amounts.
AmountShown == FormatAmount(ScaleAmount(dish.amount, dish.base, TargetServings))

\* The line under the title.
TimeShown == FormatTotalTime(dish.prep, dish.cook)

\* ServingsToggle
SetServings(n) ==
    /\ DishShown
    /\ n \in 1..MaxTarget /\ n \in {TargetServings - 1, TargetServings + 1}
    /\ servings' = n
    /\ UNCHANGED <<listVars, asked, viewed, dish, dishFailed, deleting, deletes, onServer, confirmed>>

\* Fault: what is deleted is the recipe in the URL.
FaultDelete ==
    /\ DishShown /\ ~deleting
    /\ confirmed' = confirmed \cup {dish.id}
    /\ deleting' = TRUE
    /\ deletes' = deletes \cup {[id |-> viewed, mine |-> TRUE]}
    /\ UNCHANGED <<listVars, asked, viewed, dish, dishFailed, servings, onServer>>

\* handleDelete, agreed to.
Delete ==
    /\ DishShown /\ ~deleting
    /\ confirmed' = confirmed \cup {dish.id}
    /\ deleting' = TRUE
    /\ deletes' = deletes \cup {[id |-> dish.id, mine |-> TRUE]}
    /\ UNCHANGED <<listVars, asked, viewed, dish, dishFailed, servings, onServer>>

\* The recipe is deleted, and the answer leads to the list from wherever the user is.
DeleteServed(q) ==
    /\ q \in deletes
    /\ deletes' = Orphans(deletes \ {q})
    /\ onServer' = {d \in onServer : d.id # q.id}
    /\ IF viewed = Nothing THEN UNCHANGED <<listVars, viewed, dish, dishFailed, servings, deleting>>
       ELSE BackToList
    /\ UNCHANGED <<asked, confirmed>>

\* The button comes back; nothing else tells of the failure.  The request may have been
\* served.
DeleteFails(q) ==
    /\ q \in deletes
    /\ deletes' = deletes \ {q}
    /\ deleting' = (deleting /\ ~q.mine)
    /\ onServer' \in {onServer, {d \in onServer : d.id # q.id}}
    /\ UNCHANGED <<listVars, asked, viewed, dish, dishFailed, servings, confirmed>>

BrowseInit ==
    /\ filter = [search |-> Nothing, tags |-> {}]
    /\ queries = {[filter |-> filter, newest |-> TRUE]}
    /\ list = Nothing /\ listFailed = FALSE /\ listLoading = TRUE
    /\ asked = 0 /\ viewed = Nothing /\ dish = Nothing /\ dishFailed = FALSE
    /\ servings = Nothing /\ deleting = FALSE /\ deletes = {} /\ confirmed = {}
    /\ onServer = {[id |-> r, amount |-> CHOOSE a \in Amount : TRUE, base |-> 1,
                    prep |-> Nothing, cook |-> Nothing] : r \in Recipe}

BrowseNext ==
    \/ \E s \in Search \cup {Nothing} : SetSearch(s)
    \/ \E t \in Tag : ToggleTag(t)
    \/ PollList
    \/ \E q \in queries : ListArrives(q) \/ ListFails(q)
    \/ \E r \in Recipe : View(r) \/ JumpToDish(r)
    \/ \E q \in deletes : DeleteServed(q) \/ DeleteFails(q)
    \/ \E d \in Dish : DishEdited(d)
    \/ \E n \in 1..MaxTarget : SetServings(n)
    \/ CloseDish \/ DishArrives \/ DishFails \/ Delete

BrowseSpec == BrowseInit /\ [][BrowseNext]_browseVars

(***************************************************************************)
(* Properties.                                                             *)
(***************************************************************************)
\* Both list pages come to rest on what the server has for the search and the tags that are
\* selected, however quickly these were changed and in whatever order the answers came; at
\* worst a recipe that has been deleted since is still there.
ListAnswersTheFilter ==
    viewed = Nothing /\ ~listLoading /\ ~listFailed /\ (\A q \in queries : ~q.newest) =>
        /\ Matching(filter) \subseteq list
        /\ \A r \in list : Matches(filter, r)
        /\ \A Shows \in {RecipesPageShows, CookPickerShows} :
              Shows = IF list = {} THEN {"empty"} ELSE {"cards"}

\* Only a recipe whose title the user has agreed to is deleted, also when the page shows one
\* recipe and its URL is already another's.
DeletesWhatIsConfirmed == Recipe \ {d.id : d \in onServer} \subseteq confirmed

\* The amounts on the page are the recipe's for the chosen servings, up to the tolerance of the
\* fractions and half a hundredth, and the time is the sum of its parts.
QuantitiesAreRight ==
    DishShown =>
        LET exact == 6 * dish.amount * TargetServings
            shown == dish.base * (6 * Hundredth * AmountShown.whole + AmountShown.fraction)
            minutes == IF TimeShown = Nothing THEN 0 ELSE 60 * TimeShown.hours + TimeShown.minutes
        IN  /\ exact - shown <= 12 * dish.base /\ shown - exact <= 12 * dish.base
            /\ minutes = (IF dish.prep = Nothing THEN 0 ELSE dish.prep)
                         + (IF dish.cook = Nothing THEN 0 ELSE dish.cook)
=============================================================================
