----------------------------- MODULE RecipeForm -----------------------------
(***************************************************************************)
(* The form of a recipe (frontend/src/modules/recipes/pages/               *)
(* RecipeFormPage.tsx) for a new one and for an edit, with its editors of  *)
(* ingredients, steps and tags.                                            *)
(***************************************************************************)
EXTENDS Recipes, SequencesExt

CONSTANTS
    New,       \* in the place of the recipe's id: /recipes/new
    Word,      \* what is typed into an input
    Blank,     \* an input nothing is typed into
    MaxLines,  \* bound: lines of an editor
    MaxEdits,  \* bound: changes and submissions by the user
    MaxVisits  \* bound: forms opened or jumped to

ASSUME RecipeFormAssumption ==
    /\ New \notin Recipe \cup {Nothing} /\ Blank \notin Word
    /\ {MaxLines, MaxEdits, MaxVisits} \subseteq Nat

VARIABLES
    catalog,   \* the server: the content of every recipe
    created,   \* the server: recipes it has created
    url,       \* New, the id of the recipe in the URL, or Nothing: another page
    form, loaded, saving,
    loads,     \* the recipes this page is still loading
    saves,     \* the requests to save: what, for which url, in which state
    edits, visits,
    origin,    \* ghost: the recipe the form holds
    astray,    \* ghost: since a jump in the history from one form to another, the
               \*   recipe of the URL has not yet come as the last one to be loaded
    newForms,  \* ghost: forms opened for a new recipe
    lost       \* ghost: answers lost after a recipe had been created

formVars == <<catalog, created, url, form, loaded, saving, loads, saves, edits, visits,
              origin, astray, newForms, lost>>

Input == Word \cup {Blank}
RecipeRequest ==
    [title : Input, ingredients : Seq(Input), steps : Seq(Input), tags : Seq(Word)]

EMPTY_REQUEST == [title |-> Blank, ingredients |-> <<>>, steps |-> <<>>, tags |-> <<>>]

(***************************************************************************)
(* The page comes and goes.                                                *)
(***************************************************************************)
Visit(u) ==
    /\ visits < MaxVisits
    /\ visits' = visits + 1
    /\ url' = u
    /\ loads' = loads \cup ({u} \ {New})
    /\ newForms' = newForms + (IF u = New THEN 1 ELSE 0)

\* Fault: the form is shown before its recipe has come.
FaultOpenForm(u) ==
    /\ url = Nothing
    /\ Visit(u)
    /\ form' = EMPTY_REQUEST /\ loaded' = TRUE /\ saving' = FALSE
    /\ origin' = New /\ astray' = FALSE
    /\ UNCHANGED <<catalog, created, saves, edits, lost>>

OpenForm(u) ==
    /\ url = Nothing
    /\ Visit(u)
    /\ form' = EMPTY_REQUEST /\ loaded' = (u = New) /\ saving' = FALSE
    /\ origin' = New /\ astray' = FALSE
    /\ UNCHANGED <<catalog, created, saves, edits, lost>>

\* A jump in the history from one form to another: the router keeps the component, and
\* with it the state.
JumpToForm(u) ==
    /\ url \notin {Nothing, u}
    /\ Visit(u)
    /\ astray' = TRUE
    /\ UNCHANGED <<catalog, created, form, loaded, saving, saves, edits, origin, lost>>

\* What is in flight for a page that is gone no longer changes its state.
Gone ==
    /\ url' = Nothing
    /\ form' = EMPTY_REQUEST /\ loaded' = FALSE /\ saving' = FALSE
    /\ loads' = {} /\ origin' = New

Cancel ==
    /\ url # Nothing
    /\ Gone
    /\ saves' = {[q EXCEPT !.mine = FALSE] : q \in saves}
    /\ UNCHANGED <<catalog, created, edits, visits, astray, newForms, lost>>

LoadArrives(r) ==
    /\ r \in loads
    /\ loads' = loads \ {r}
    /\ form' = catalog[r] /\ loaded' = TRUE /\ origin' = r
    /\ astray' = (astray /\ (r # url \/ loads' # {}))
    /\ UNCHANGED <<catalog, created, url, saving, saves, edits, visits, newForms, lost>>

\* Nobody catches it: the page goes on showing that it is loading.
LoadFails(r) ==
    /\ r \in loads
    /\ loads' = loads \ {r}
    /\ UNCHANGED <<catalog, created, url, form, loaded, saving, saves, edits, visits, origin,
                   astray, newForms, lost>>

(***************************************************************************)
(* The inputs.  They stay enabled while the form is being saved.           *)
(***************************************************************************)
Gesture == edits < MaxEdits /\ edits' = edits + 1

Change(f) ==
    /\ url # Nothing /\ loaded
    /\ Gesture
    /\ form' = f
    /\ UNCHANGED <<catalog, created, url, loaded, saving, loads, saves, visits, origin,
                   astray, newForms, lost>>

SetTitle(w) == Change([form EXCEPT !.title = w])

\* IngredientListEditor: update, remove and the button that adds a line.
Update(lines, i, w) == [lines EXCEPT ![i] = w]
Add(lines) == Append(lines, Blank)

\* move: two neighbours change places, within the list.
Move(lines, i, direction) ==
    LET target == i + direction
    IN  IF target \notin DOMAIN lines THEN lines
        ELSE [lines EXCEPT ![i] = lines[target], ![target] = lines[i]]

\* What the buttons and inputs of a list of lines can make of it.
Edited(lines) ==
    UNION {{Update(lines, i, w) : w \in Input} \cup {Move(lines, i, d) : d \in {-1, 1}}
           \cup {RemoveAt(lines, i)} : i \in DOMAIN lines}
    \cup (IF Len(lines) < MaxLines THEN {Add(lines)} ELSE {})

EditIngredients == \E lines \in Edited(form.ingredients) :
    Change([form EXCEPT !.ingredients = lines])

\* StepListEditor works like the editor of the ingredients.
EditSteps == \E lines \in Edited(form.steps) : Change([form EXCEPT !.steps = lines])

\* TagPicker: what is typed or suggested, trimmed.
AddTag(w) ==
    /\ w # Blank /\ w \notin ToSet(form.tags)
    /\ Change([form EXCEPT !.tags = Append(@, w)])

RemoveTag(w) ==
    /\ w \in ToSet(form.tags)
    /\ Change([form EXCEPT !.tags = SelectSeq(@, LAMBDA n : n # w)])

(***************************************************************************)
(* Saving.                                                                 *)
(***************************************************************************)
\* Fault: the button is not disabled.
FaultSubmit ==
    /\ url # Nothing /\ loaded /\ form.title # Blank
    /\ Gesture
    /\ saving' = TRUE
    /\ saves' = saves \cup {[to |-> url, content |-> form, origin |-> origin,
                             astray |-> astray, mine |-> TRUE, served |-> FALSE]}
    /\ UNCHANGED <<catalog, created, url, form, loaded, loads, visits, origin, astray,
                   newForms, lost>>

\* handleSubmit.  The title is a required input.
Submit ==
    /\ url # Nothing /\ loaded /\ ~saving /\ form.title # Blank
    /\ Gesture
    /\ saving' = TRUE
    /\ saves' = saves \cup {[to |-> url, content |-> form, origin |-> origin,
                             astray |-> astray, mine |-> TRUE, served |-> FALSE]}
    /\ UNCHANGED <<catalog, created, url, form, loaded, loads, visits, origin, astray,
                   newForms, lost>>

\* The server takes a PUT or a POST.
SaveServed(q) ==
    /\ q \in saves /\ ~q.served
    /\ saves' = (saves \ {q}) \cup {[q EXCEPT !.served = TRUE]}
    /\ IF q.to = New THEN created' = created + 1 /\ UNCHANGED catalog
       ELSE catalog' = [catalog EXCEPT ![q.to] = q.content] /\ UNCHANGED created
    /\ UNCHANGED <<url, form, loaded, saving, loads, edits, visits, origin, astray, newForms,
                   lost>>

\* The answer leads to the recipe's page, from wherever the user has gone meanwhile.
SaveAnswers(q) ==
    /\ q \in saves /\ q.served
    /\ saves' = {[s EXCEPT !.mine = FALSE] : s \in saves \ {q}}
    /\ Gone
    /\ UNCHANGED <<catalog, created, edits, visits, astray, newForms, lost>>

\* The request or its answer is lost, or the server refuses: the form stays and can be
\* saved again.
SaveFails(q) ==
    /\ q \in saves
    /\ saves' = saves \ {q}
    /\ saving' = (saving /\ ~q.mine)
    /\ lost' = lost + (IF q.served /\ q.to = New THEN 1 ELSE 0)
    /\ UNCHANGED <<catalog, created, url, form, loaded, loads, edits, visits, origin, astray,
                   newForms>>

FormInit ==
    /\ \E w \in Word : catalog = [r \in Recipe |->
           [title |-> w, ingredients |-> <<w, Blank>>, steps |-> <<w>>, tags |-> <<w>>]]
    /\ created = 0 /\ url = Nothing
    /\ form = EMPTY_REQUEST /\ loaded = FALSE /\ saving = FALSE
    /\ loads = {} /\ saves = {} /\ edits = 0 /\ visits = 0
    /\ origin = New /\ astray = FALSE /\ newForms = 0 /\ lost = 0

FormNext ==
    \/ \E u \in Recipe \cup {New} : OpenForm(u) \/ JumpToForm(u)
    \/ \E r \in Recipe : LoadArrives(r) \/ LoadFails(r)
    \/ \E w \in Word : SetTitle(w) \/ AddTag(w) \/ RemoveTag(w)
    \/ EditIngredients \/ EditSteps
    \/ Cancel \/ Submit
    \/ \E q \in saves : SaveServed(q) \/ SaveAnswers(q) \/ SaveFails(q)

FormSpec == FormInit /\ [][FormNext]_formVars

(***************************************************************************)
(* Properties.                                                             *)
(***************************************************************************)
\* However often the form is submitted, and whatever is typed meanwhile, one form creates one
\* recipe, and one more for every answer that got lost and was retried.
OneFormOneRecipe == created <= newForms + lost

\* A recipe is only overwritten with what was loaded from it and edited: not with an empty
\* form, and not with another recipe.  The exception: a jump in the history from one form to
\* another keeps what is on the form, and the recipe of the old URL may still arrive; until the
\* recipe of the new URL has come as the last of them, one recipe's form is saved to the other.
SavesWhatItLoaded == \A q \in saves : q.astray \/ q.to = q.origin
=============================================================================
