------------------------------ MODULE CookMode ------------------------------
(***************************************************************************)
(* Cooking from a recipe (frontend/src/modules/recipes/cook): the picker,  *)
(* the preparation page and the steps page of one tab, and the progress    *)
(* they hand to each other through localStorage (useCookProgress.ts).      *)
(*                                                                         *)
(* A poll shows the recipe as the server has it (Polling).  The effect     *)
(* that fits the step to the recipe runs right after the render that       *)
(* brought it, before any other event, and is part of that action.         *)
(***************************************************************************)
EXTENDS Recipes

CONSTANTS
    Junk,         \* an entry that is not JSON
    OtherEntries, \* entries another tab or an older version may leave
    ServingsBase, \* servingsBase of every recipe
    MaxSteps,     \* bound: steps of a recipe
    MaxServings,  \* bound: servings
    MaxOutside    \* bound: edits, other tabs, expiry, storage failures, reloads and jumps

Servings == 1..MaxServings
CookProgress ==
    [step : 0..MaxSteps, servings : Servings \cup {Nothing}, checked : SUBSET Ingredient]

\* What may be found in an entry: other versions and other tabs write there too.
\* "old" stands for an updatedAt that MAX_AGE_MS has passed.
StoredProgress ==
    [step : -1..MaxSteps, servings : (0..MaxServings) \cup {Nothing},
     checked : SUBSET Ingredient, old : BOOLEAN]

RecipeData == [steps : 0..MaxSteps, ingredients : SUBSET Ingredient]

ASSUME CookAssumption ==
    /\ Nothing # Junk /\ {Nothing, Junk} \cap StoredProgress = {}
    /\ MaxSteps \in Nat /\ MaxOutside \in Nat
    /\ MaxServings \in Nat /\ ServingsBase \in Servings
    /\ OtherEntries \subseteq StoredProgress \cup {Nothing, Junk}

VARIABLES
    stored,    \* localStorage: the entry of each recipe
    full,      \* localStorage refuses to write
    server,    \* the recipes: number of steps, ingredients
    place,     \* the page: "picker", "prep" or "steps"
    open,      \* the recipe in the URL, Nothing in the picker
    progress,  \* the state of useCookProgress
    resume,    \* resumeStepIndexRef
    seen,      \* the recipe on the page
    failed,    \* the last poll failed
    outside,
    clicks,    \* ghost: changes with every click and jump, 2 or 3 after a click that
               \*   starts over, 4 or 5 after a jump
    loose      \* ghost: the recipes whose entry and progress may differ, because
               \*   something else has touched the entry or it could not be written

storageVars == <<stored, full, loose>>
pageVars == <<place, open, progress, resume, seen, failed>>
cookVars == <<storageVars, server, pageVars, outside, clicks>>

EMPTY == [step |-> 0, servings |-> Nothing, checked |-> {}]

\* Fault: an entry is taken as it is found.
FaultTrusted(s) == [step |-> s.step, servings |-> s.servings, checked |-> s.checked]

Sanitize(s) ==
    [step |-> IF s.step > 0 THEN s.step ELSE 0,
     servings |-> IF s.servings \in Servings THEN s.servings ELSE Nothing,
     checked |-> s.checked]

\* read(): no entry, a broken one and one older than MAX_AGE_MS count as none.
Read(entry) ==
    IF entry \in {Nothing, Junk} THEN EMPTY
    ELSE IF entry.old THEN EMPTY
    ELSE Sanitize(entry)

Entry(p) == [step |-> p.step, servings |-> p.servings, checked |-> p.checked, old |-> FALSE]

\* Fault: the entry is written by an effect, which a navigation in the same commit
\* comes before.
FaultWrittenLater(r, p) ==
    /\ stored' = IF place = "prep" THEN stored ELSE [stored EXCEPT ![r] = Entry(p)]
    /\ UNCHANGED <<full, loose>>

\* write(): a failure is swallowed.
Write(r, p) ==
    /\ stored' = IF full THEN stored ELSE [stored EXCEPT ![r] = Entry(p)]
    /\ loose' = IF full THEN loose \cup {r} ELSE loose \ {r}
    /\ UNCHANGED full

\* clear()
Clear(r) ==
    /\ stored' = [stored EXCEPT ![r] = Nothing]
    /\ loose' = loose \ {r}
    /\ UNCHANGED full

Click == clicks' = IF clicks = 0 THEN 1 ELSE 0
ClickOver == clicks' = IF clicks = 2 THEN 3 ELSE 2
Jumped == clicks' = IF clicks = 4 THEN 5 ELSE 4
Beyond == outside < MaxOutside /\ outside' = outside + 1
Outside == Beyond /\ UNCHANGED clicks
Inside == UNCHANGED <<outside, clicks>>

(***************************************************************************)
(* What the pages show.                                                    *)
(***************************************************************************)
\* Neither "Failed to load recipe" nor Loading.
Ready == ~failed /\ seen # Nothing
HasSteps == Ready /\ seen.steps > 0

\* Fault: the step is taken as it was stored.
FaultAsStored(i) == i

\* Math.min(i, recipe.steps.length - 1)
AtMostLast(i) == IF i < seen.steps THEN i ELSE seen.steps - 1

StepShown == AtMostLast(progress.step)
IsLastStep == StepShown = seen.steps - 1
ResumeStep == AtMostLast(resume)
CanResume == Ready /\ ResumeStep > 0
ServingsShown == IF progress.servings = Nothing THEN ServingsBase ELSE progress.servings

(***************************************************************************)
(* Navigation.                                                             *)
(***************************************************************************)
\* A page is mounted and reads the entry as it is after the step.
Mount(p, r) ==
    /\ place' = p
    /\ open' = r
    /\ progress' = Read(stored'[r])
    /\ resume' = progress'.step
    /\ seen' = Nothing
    /\ failed' = FALSE

\* A card of the picker.
OpenRecipe(r) ==
    /\ place = "picker"
    /\ UNCHANGED <<storageVars, server>>
    /\ Mount("prep", r)
    /\ Inside

\* The browser's back button, or the link of a recipe without steps.
BackToRecipe ==
    /\ place = "steps"
    /\ UNCHANGED <<storageVars, server>>
    /\ Mount("prep", open)
    /\ Inside

\* The hooks are gone with the page.
ToPicker ==
    /\ place' = "picker"
    /\ open' = Nothing
    /\ progress' = EMPTY /\ resume' = 0 /\ seen' = Nothing /\ failed' = FALSE

\* The links to the list, or the browser's back button.
Leave ==
    /\ place # "picker"
    /\ ToPicker
    /\ UNCHANGED <<storageVars, server>>
    /\ Inside

Reload ==
    /\ place # "picker"
    /\ Outside
    /\ UNCHANGED <<storageVars, server>>
    /\ Mount(place, open)

\* openStep: the step is written and the steps page mounted in one commit.
OpenStep(i) ==
    /\ place = "prep" /\ HasSteps
    /\ Write(open, [progress EXCEPT !.step = i])
    /\ Mount("steps", open)
    /\ Click
    /\ UNCHANGED <<server, outside>>

\* The lines of the list, among them the first one for "Start cooking".
OpenListed == \E i \in 0..MaxSteps : HasSteps /\ i < seen.steps /\ OpenStep(i)

Resume == CanResume /\ OpenStep(ResumeStep)

StartOver ==
    /\ place = "prep" /\ CanResume
    /\ Clear(open)
    /\ Mount("steps", open)
    /\ ClickOver
    /\ UNCHANGED <<server, outside>>

(***************************************************************************)
(* The controls of the pages.                                              *)
(***************************************************************************)
\* apply(): memory and storage change together.
Apply(p) == progress' = p /\ Write(open, p)

Set(p) ==
    /\ Apply(p)
    /\ Click
    /\ UNCHANGED <<server, place, open, resume, seen, failed, outside>>

\* StepProgress, Back and Next.
GoTo(i) ==
    /\ place = "steps" /\ HasSteps
    /\ i \in 0..(seen.steps - 1)
    /\ Set([progress EXCEPT !.step = i])

Back == HasSteps /\ StepShown > 0 /\ GoTo(StepShown - 1)
Forward == HasSteps /\ ~IsLastStep /\ GoTo(StepShown + 1)

\* Fault: only the memory is reset.
FaultResetsMemory ==
    /\ place = "steps" /\ HasSteps /\ IsLastStep
    /\ UNCHANGED storageVars
    /\ ToPicker
    /\ ClickOver
    /\ UNCHANGED <<server, outside>>

\* "Next" on the last step: reset() and back to the list.
Finish ==
    /\ place = "steps" /\ HasSteps /\ IsLastStep
    /\ Clear(open)
    /\ ToPicker
    /\ ClickOver
    /\ UNCHANGED <<server, outside>>

\* ServingsToggle, with its lower limit.
ChangeServings(n) ==
    /\ place # "picker" /\ Ready /\ (place = "steps" => HasSteps)
    /\ n \in Servings /\ n \in {ServingsShown - 1, ServingsShown + 1}
    /\ Set([progress EXCEPT !.servings = n])

\* A line of the IngredientPanel.
ToggleIngredient(i) ==
    /\ place # "picker" /\ Ready /\ (place = "steps" => HasSteps)
    /\ i \in seen.ingredients
    /\ Set([progress EXCEPT !.checked = IF i \in @ THEN @ \ {i} ELSE @ \cup {i}])

(***************************************************************************)
(* The poll, the server and the rest of the browser.                       *)
(***************************************************************************)
\* The answer of a poll, and the effect that fits the step to a recipe that has lost
\* steps while it is being cooked.
RecipeArrives ==
    /\ place # "picker"
    /\ <<seen, failed>> # <<server[open], FALSE>>
    /\ seen' = server[open]
    /\ failed' = FALSE
    /\ IF place = "steps" /\ seen'.steps > 0 /\ progress.step >= seen'.steps
       THEN Apply([progress EXCEPT !.step = seen'.steps - 1])
       ELSE UNCHANGED <<progress, storageVars>>
    /\ UNCHANGED <<server, place, open, resume>>
    /\ Inside

PollFails ==
    /\ place # "picker" /\ ~failed
    /\ Outside
    /\ failed' = TRUE
    /\ UNCHANGED <<storageVars, server, place, open, progress, resume, seen>>

\* A jump in the history to another recipe's page keeps the page mounted.  The recipe on
\* it is the old one until the poll answers, and the effect fits the new recipe's
\* progress to it and writes it.
Jump(r) ==
    /\ place # "picker" /\ r # open
    /\ Beyond /\ Jumped
    /\ open' = r
    /\ LET loaded == Read(stored[r])
           misfit == place = "steps" /\ seen # Nothing /\ seen.steps \in 1..loaded.step
       IN  /\ resume' = loaded.step
           /\ progress' = IF misfit THEN [loaded EXCEPT !.step = seen.steps - 1] ELSE loaded
           /\ IF misfit THEN Write(r, progress') ELSE UNCHANGED storageVars
    /\ UNCHANGED <<server, place, seen, failed>>

RecipeEdited(r, data) ==
    /\ Outside
    /\ server' = [server EXCEPT ![r] = data]
    /\ UNCHANGED <<storageVars, pageVars>>

\* Another tab or an older version leaves an entry.
OtherTab(r, entry) ==
    /\ Outside
    /\ stored' = [stored EXCEPT ![r] = entry]
    /\ loose' = loose \cup {r}
    /\ UNCHANGED <<full, server, pageVars>>

Expire(r) ==
    /\ stored[r] \notin {Nothing, Junk} /\ ~stored[r].old
    /\ Outside
    /\ stored' = [stored EXCEPT ![r].old = TRUE]
    /\ loose' = loose \cup {r}
    /\ UNCHANGED <<full, server, pageVars>>

StorageFills ==
    /\ Outside
    /\ full' = ~full
    /\ UNCHANGED <<stored, loose, server, pageVars>>

CookInit ==
    /\ stored = [r \in Recipe |-> Nothing]
    /\ full = FALSE
    /\ server = [r \in Recipe |-> [steps |-> MaxSteps, ingredients |-> Ingredient]]
    /\ place = "picker" /\ open = Nothing
    /\ progress = EMPTY /\ resume = 0 /\ seen = Nothing /\ failed = FALSE
    /\ outside = 0 /\ clicks = 0 /\ loose = {}

CookNext ==
    \/ \E r \in Recipe :
          \/ OpenRecipe(r) \/ Jump(r) \/ Expire(r)
          \/ \E data \in RecipeData : RecipeEdited(r, data)
          \/ \E entry \in OtherEntries : OtherTab(r, entry)
    \/ Leave \/ BackToRecipe \/ Reload
    \/ OpenListed \/ Resume \/ StartOver
    \/ \E i \in 0..MaxSteps : GoTo(i)
    \/ Back \/ Forward \/ Finish
    \/ \E n \in Servings : ChangeServings(n)
    \/ \E i \in Ingredient : ToggleIngredient(i)
    \/ RecipeArrives \/ PollFails \/ StorageFills

CookSpec == CookInit /\ [][CookNext]_cookVars

(***************************************************************************)
(* Properties.                                                             *)
(***************************************************************************)
\* Types, with every step and every number of servings in the range of its page.
CookTypeOK ==
    /\ stored \in [Recipe -> StoredProgress \cup {Nothing, Junk}]
    /\ server \in [Recipe -> RecipeData]
    /\ full \in BOOLEAN /\ failed \in BOOLEAN
    /\ place \in {"picker", "prep", "steps"} /\ open \in Recipe \cup {Nothing}
    /\ progress \in CookProgress
    /\ resume \in 0..MaxSteps
    /\ seen \in RecipeData \cup {Nothing}
    /\ outside \in 0..MaxOutside /\ clicks \in 0..5 /\ loose \subseteq Recipe

\* The step on the page and the step offered to resume exist, whatever the storage held and
\* however the recipe was edited.
StepShownExists ==
    HasSteps => StepShown \in 0..(seen.steps - 1) /\ ResumeStep \in 0..(seen.steps - 1)

\* The progress of a recipe: the page's while it is open, the entry's otherwise.
Kept == [r \in Recipe |->
    IF open = r THEN progress ELSE Read(stored[r])]

Promise == INSTANCE KeptProgress WITH
    kept <- Kept, length <- [r \in Recipe |-> server[r].steps], Empty <- EMPTY

\* useCookProgress keeps one progress for each recipe: the links, the back button to another
\* page, reloads and polls do not change it, a finished recipe starts from nothing, and a step
\* goes back by itself only when the recipe has become shorter.  The exceptions: an entry that
\* another tab has left, that has expired or that could not be written (`loose`), and a jump in
\* the history from the steps page of one recipe to that of another, which takes the step of the
\* other back to the last one of the recipe still on the page and writes it (CookStepsPage.tsx's
\* effect runs before the poll answers): that progress is lost.  A jump changes nothing else.
ProgressIsKept == Promise!Spec
=============================================================================
