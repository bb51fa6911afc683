--------------------------- MODULE CookModeProofs ---------------------------
(***************************************************************************)
(* Proofs about cook mode: types, and the refinement of KeptProgress, for  *)
(* any recipes, ingredients and bounds.                                    *)
(***************************************************************************)
EXTENDS CookMode, TLAPS

\* A page and its recipe come and go together.
PlaceOK == open = Nothing <=> place = "picker"

\* The page and the entry of its recipe agree, unless somebody else has touched it.
Agree == \A r \in Recipe : open = r /\ r \notin loose => Read(stored[r]) = progress

CookInv == CookTypeOK /\ PlaceOK /\ Agree

StoredEntry == StoredProgress \cup {Nothing, Junk}

StorageType ==
    stored \in [Recipe -> StoredEntry] /\ loose \subseteq Recipe /\ full \in BOOLEAN

PageType ==
    /\ place \in {"picker", "prep", "steps"} /\ open \in Recipe \cup {Nothing}
    /\ progress \in CookProgress
    /\ resume \in 0..MaxSteps
    /\ seen \in RecipeData \cup {Nothing}
    /\ failed \in BOOLEAN

RestType ==
    server \in [Recipe -> RecipeData] /\ outside \in 0..MaxOutside /\ clicks \in 0..5

LEMMA TypeParts == CookTypeOK <=> StorageType /\ PageType /\ RestType
  BY DEF CookTypeOK, StorageType, PageType, RestType, StoredEntry

(***************************************************************************)
(* Entries.                                                                *)
(***************************************************************************)
LEMMA EmptyType == EMPTY \in CookProgress
  BY CookAssumption DEF EMPTY, CookProgress

LEMMA ReadType == \A e \in StoredEntry : Read(e) \in CookProgress
  BY CookAssumption, EmptyType
  DEF StoredEntry, Read, Sanitize, StoredProgress, CookProgress, Servings

LEMMA EntryType == \A p \in CookProgress : Entry(p) \in StoredProgress
  BY CookAssumption DEF Entry, CookProgress, StoredProgress, Servings

\* What the page writes it reads again.
LEMMA ReadEntry == \A p \in CookProgress : Read(Entry(p)) = p
<1> SUFFICES ASSUME NEW p \in CookProgress PROVE Read(Entry(p)) = p
  OBVIOUS
<1>1. Entry(p) \notin {Nothing, Junk}
  BY EntryType, CookAssumption
<1>2. Read(Entry(p)) = Sanitize(Entry(p))
  BY <1>1 DEF Read, Entry
<1>3. Sanitize(Entry(p)) = [step |-> p.step, servings |-> p.servings, checked |-> p.checked]
  BY CookAssumption DEF Sanitize, Entry, CookProgress
<1>4. QED
  BY <1>2, <1>3 DEF CookProgress

LEMMA ReadNothing == Read(Nothing) = EMPTY
  BY DEF Read

(***************************************************************************)
(* The operations the actions are made of.                                 *)
(***************************************************************************)
LEMMA WriteType ==
  ASSUME StorageType, NEW r \in Recipe, NEW p \in CookProgress, Write(r, p)
  PROVE  /\ StorageType'
         /\ Read(stored'[r]) \in CookProgress
         /\ \A s \in Recipe \ {r} : stored'[s] = stored[s]
         /\ loose' \ {r} = loose \ {r}
         /\ r \in loose' \/ Read(stored'[r]) = p
         /\ loose' = loose \cup {r} \/ Read(stored'[r]) = p
<1>1. Entry(p) \in StoredEntry
  BY EntryType DEF StoredEntry
<1>2. stored' \in [Recipe -> StoredEntry]
  BY <1>1 DEF Write, StorageType
<1>3. Read(stored'[r]) \in CookProgress
  BY <1>2, ReadType
<1>4. ~full => stored'[r] = Entry(p)
  BY DEF Write, StorageType
<1>5. ~full => Read(stored'[r]) = p
  BY <1>4, ReadEntry
<1>6. full => loose' = loose \cup {r}
  BY DEF Write
<1>7. QED
  BY <1>2, <1>3, <1>5, <1>6 DEF Write, StorageType

LEMMA ClearType ==
  ASSUME StorageType, NEW r \in Recipe, Clear(r)
  PROVE  /\ StorageType'
         /\ Read(stored'[r]) = EMPTY
         /\ \A s \in Recipe \ {r} : stored'[s] = stored[s]
         /\ loose' \ {r} = loose \ {r}
<1>1. stored' \in [Recipe -> StoredEntry] /\ stored'[r] = Nothing
  BY DEF Clear, StoredEntry, StorageType
<1>2. QED
  BY <1>1, ReadNothing DEF Clear, StorageType

LEMMA ClickType ==
  ASSUME clicks \in 0..5
  PROVE  /\ Click => clicks' \in {0, 1} /\ clicks' # clicks
         /\ ClickOver => clicks' \in {2, 3} /\ clicks' # clicks
         /\ Jumped => clicks' \in {4, 5} /\ clicks' # clicks
  BY DEF Click, ClickOver, Jumped

\* A page that is mounted agrees with the entry it has read.
LEMMA MountFacts ==
  ASSUME StorageType', NEW p \in {"prep", "steps"}, NEW r \in Recipe, Mount(p, r)
  PROVE  PageType' /\ PlaceOK' /\ Agree'
<1>1. progress' = Read(stored'[r]) /\ progress' \in CookProgress
  BY ReadType DEF Mount, StorageType
<1>2. PageType'
  BY <1>1 DEF Mount, PageType, CookProgress
<1>3. PlaceOK' /\ Agree'
  BY <1>1, RecipesAssumption DEF Mount, PlaceOK, Agree
<1>4. QED
  BY <1>2, <1>3

LEMMA ToPickerFacts ==
  ASSUME ToPicker
  PROVE  PageType' /\ PlaceOK' /\ Agree'
<1>1. progress' \in CookProgress
  BY EmptyType DEF ToPicker
<1>2. resume' \in 0..MaxSteps
  BY CookAssumption DEF ToPicker
<1>3. PageType'
  BY <1>1, <1>2 DEF ToPicker, PageType
<1>4. PlaceOK' /\ Agree'
  BY RecipesAssumption DEF ToPicker, PlaceOK, Agree
<1>5. QED
  BY <1>3, <1>4

\* A page that applies new progress agrees with the entry, or the entry is excused.
LEMMA ApplyFacts ==
  ASSUME CookInv, place # "picker", NEW p \in CookProgress, Apply(p),
         UNCHANGED <<place, open, resume, failed>>, seen' \in RecipeData \cup {Nothing}
  PROVE  StorageType' /\ PageType' /\ PlaceOK' /\ Agree'
<1>1. open \in Recipe
  BY TypeParts DEF CookInv, PageType, PlaceOK
<1>2. /\ StorageType'
      /\ open \in loose' \/ Read(stored'[open]) = p
  BY <1>1, TypeParts, WriteType DEF Apply, CookInv
<1>3. PageType' /\ PlaceOK'
  BY TypeParts DEF Apply, CookInv, PageType, PlaceOK
<1>4. Agree'
  BY <1>1, <1>2 DEF Apply, Agree
<1>5. QED
  BY <1>2, <1>3, <1>4

LEMMA FieldTypes ==
  ASSUME NEW p \in CookProgress
  PROVE  /\ \A i \in 0..MaxSteps : [p EXCEPT !.step = i] \in CookProgress
         /\ \A n \in Servings : [p EXCEPT !.servings = n] \in CookProgress
         /\ \A c \in SUBSET Ingredient : [p EXCEPT !.checked = c] \in CookProgress
  BY DEF CookProgress

\* The numbers of steps a page may show.
LEMMA SeenFacts ==
  ASSUME CookInv
  PROVE  /\ progress.step \in 0..MaxSteps /\ progress.servings \in Servings \cup {Nothing}
         /\ progress.checked \subseteq Ingredient
         /\ HasSteps => seen \in RecipeData /\ seen.steps \in 1..MaxSteps
         /\ seen # Nothing => seen \in RecipeData /\ seen.ingredients \subseteq Ingredient
         /\ open \in Recipe => server[open] \in RecipeData
<1>1. progress \in CookProgress /\ seen \in RecipeData \cup {Nothing}
      /\ server \in [Recipe -> RecipeData]
  BY TypeParts DEF CookInv, PageType, RestType
<1>2. HasSteps => seen \in RecipeData /\ seen.steps \in 1..MaxSteps
  BY <1>1, CookAssumption DEF HasSteps, Ready, RecipeData
<1>3. seen # Nothing => seen \in RecipeData /\ seen.ingredients \subseteq Ingredient
  BY <1>1 DEF RecipeData
<1>4. progress.step \in 0..MaxSteps /\ progress.servings \in Servings \cup {Nothing}
      /\ progress.checked \subseteq Ingredient
  BY <1>1 DEF CookProgress
<1>5. QED
  BY <1>1, <1>2, <1>3, <1>4

(***************************************************************************)
(* Every step keeps the invariant.                                         *)
(***************************************************************************)
\* Assembles the invariant of the next state.
LEMMA InvParts ==
  ASSUME StorageType', PageType', PlaceOK', Agree', RestType'
  PROVE  CookInv'
<1>1. CookTypeOK'
  BY DEF CookTypeOK, StorageType, PageType, RestType, StoredEntry
<1>2. QED
  BY <1>1 DEF CookInv

LEMMA OpenStepInv ==
  ASSUME CookInv, NEW i \in 0..MaxSteps, OpenStep(i)
  PROVE  CookInv'
<1>1. open \in Recipe /\ StorageType /\ PageType /\ RestType
  BY TypeParts DEF CookInv, PlaceOK, PageType, OpenStep
<1>2. [progress EXCEPT !.step = i] \in CookProgress
  BY <1>1, FieldTypes DEF PageType
<1>3. StorageType'
  BY <1>1, <1>2, WriteType DEF OpenStep
<1>4. PageType' /\ PlaceOK' /\ Agree'
  BY <1>1, <1>3, MountFacts DEF OpenStep
<1>5. RestType'
  BY <1>1, ClickType DEF RestType, OpenStep
<1>6. QED
  BY <1>3, <1>4, <1>5, InvParts

\* What may be set from a control.
LEMMA SetInv ==
  ASSUME CookInv, place # "picker", NEW p \in CookProgress, Set(p)
  PROVE  CookInv'
<1>1. seen \in RecipeData \cup {Nothing} /\ RestType
  BY TypeParts DEF CookInv, PageType
<1>2. StorageType' /\ PageType' /\ PlaceOK' /\ Agree'
  BY <1>1, ApplyFacts DEF Set
<1>3. RestType'
  BY <1>1, ClickType DEF RestType, Set
<1>4. QED
  BY <1>2, <1>3, InvParts

LEMMA GoToSets ==
  ASSUME CookInv, NEW i, GoTo(i)
  PROVE  /\ place # "picker" /\ [progress EXCEPT !.step = i] \in CookProgress
         /\ Set([progress EXCEPT !.step = i])
<1>1. progress \in CookProgress
  BY TypeParts DEF CookInv, PageType
<1>2. i \in 0..MaxSteps
  BY SeenFacts, CookAssumption DEF GoTo
<1>3. QED
  BY <1>1, <1>2, FieldTypes DEF GoTo

LEMMA ServingsSets ==
  ASSUME CookInv, NEW n \in Servings, ChangeServings(n)
  PROVE  /\ place # "picker" /\ [progress EXCEPT !.servings = n] \in CookProgress
         /\ Set([progress EXCEPT !.servings = n])
<1>1. progress \in CookProgress
  BY TypeParts DEF CookInv, PageType
<1>2. QED
  BY <1>1, FieldTypes DEF ChangeServings

LEMMA ToggleSets ==
  ASSUME CookInv, NEW i \in Ingredient, ToggleIngredient(i)
  PROVE  \E c \in SUBSET Ingredient :
            /\ place # "picker" /\ [progress EXCEPT !.checked = c] \in CookProgress
            /\ Set([progress EXCEPT !.checked = c])
<1> DEFINE c == IF i \in progress.checked THEN progress.checked \ {i}
               ELSE progress.checked \cup {i}
<1>1. progress \in CookProgress
  BY TypeParts DEF CookInv, PageType
<1>2. c \in SUBSET Ingredient
  BY SeenFacts
<1>3. [progress EXCEPT !.checked = c] \in CookProgress
  BY <1>1, <1>2, FieldTypes
<1>4. Set([progress EXCEPT !.checked = c])
  BY DEF ToggleIngredient
<1>5. QED
  BY <1>2, <1>3, <1>4 DEF ToggleIngredient

\* The effect that fits the step, in full.
LEMMA ArrivalFacts ==
  ASSUME CookInv, RecipeArrives
  PROVE  /\ open \in Recipe /\ seen' = server[open] /\ seen' \in RecipeData
         /\ \/ /\ seen'.steps > 0 /\ progress.step >= seen'.steps
               /\ [progress EXCEPT !.step = seen'.steps - 1] \in CookProgress
               /\ Apply([progress EXCEPT !.step = seen'.steps - 1])
            \/ UNCHANGED <<progress, storageVars>>
<1>1. open \in Recipe
  BY TypeParts DEF CookInv, PageType, PlaceOK, RecipeArrives
<1>2. seen' = server[open] /\ seen' \in RecipeData
  BY <1>1, SeenFacts DEF RecipeArrives
<1>3. ASSUME seen'.steps > 0 PROVE [progress EXCEPT !.step = seen'.steps - 1] \in CookProgress
  <2>1. seen'.steps - 1 \in 0..MaxSteps
    BY <1>2, <1>3, CookAssumption DEF RecipeData
  <2>2. progress \in CookProgress
    BY TypeParts DEF CookInv, PageType
  <2>3. QED
    BY <2>1, <2>2, FieldTypes
<1>4. QED
  BY <1>1, <1>2, <1>3 DEF RecipeArrives

LEMMA ArrivalInv ==
  ASSUME CookInv, RecipeArrives
  PROVE  CookInv'
<1>1. /\ open \in Recipe /\ seen' \in RecipeData \cup {Nothing} /\ place # "picker"
      /\ failed' \in BOOLEAN /\ UNCHANGED <<server, place, open, resume, outside, clicks>>
  BY ArrivalFacts DEF RecipeArrives, Inside
<1>2. StorageType /\ PageType /\ RestType /\ PlaceOK /\ Agree
  BY TypeParts DEF CookInv
<1>3. RestType'
  BY <1>1, <1>2 DEF RestType
<1>4. PlaceOK'
  BY <1>1, <1>2 DEF PlaceOK
<1>5. CASE UNCHANGED <<progress, storageVars>>
  <2>1. StorageType' /\ PageType' /\ Agree'
    BY <1>1, <1>2, <1>5 DEF storageVars, StorageType, PageType, Agree
  <2>2. QED
    BY <2>1, <1>3, <1>4, InvParts
<1>6. CASE ~UNCHANGED <<progress, storageVars>>
  <2>1. PICK p \in CookProgress : Apply(p)
    BY <1>6, ArrivalFacts
  <2>2. StorageType'
    BY <1>1, <1>2, <2>1, WriteType DEF Apply
  <2>3. PageType'
    BY <1>1, <1>2, <2>1 DEF Apply, PageType
  <2>4. Agree'
    BY <1>1, <1>2, <2>1, WriteType DEF Apply, Agree
  <2>5. QED
    BY <2>2, <2>3, <2>4, <1>3, <1>4, InvParts
<1>7. QED
  BY <1>5, <1>6

LEMMA JumpInv ==
  ASSUME CookInv, NEW r \in Recipe, Jump(r)
  PROVE  /\ CookInv'
         /\ \A s \in Recipe \ {r} : stored'[s] = stored[s]
         /\ loose' \ {r} = loose \ {r}
         /\ \/ progress' = Read(stored[r])
            \/ \E i \in Int : i < Read(stored[r]).step
                             /\ progress' = [Read(stored[r]) EXCEPT !.step = i]
<1> DEFINE loaded == Read(stored[r])
           misfit == place = "steps" /\ seen # Nothing /\ seen.steps \in 1..loaded.step
<1>1. StorageType /\ PageType /\ RestType /\ PlaceOK /\ Agree
  BY TypeParts DEF CookInv
<1>2. loaded \in CookProgress
  BY <1>1, ReadType DEF StorageType
<1>3. misfit => [loaded EXCEPT !.step = seen.steps - 1] \in CookProgress
  <2>1. SUFFICES ASSUME misfit PROVE seen.steps - 1 \in 0..MaxSteps
    BY <1>2, FieldTypes
  <2>2. seen.steps \in 0..MaxSteps
    BY <2>1, SeenFacts DEF RecipeData
  <2>3. QED
    BY <2>1, <2>2, CookAssumption
<1>4. progress' \in CookProgress
  BY <1>2, <1>3 DEF Jump
<1>5. /\ misfit => Write(r, progress')
      /\ ~misfit => UNCHANGED storageVars
  BY DEF Jump
<1>6. /\ StorageType'
      /\ \A s \in Recipe \ {r} : stored'[s] = stored[s]
      /\ loose' \ {r} = loose \ {r}
      /\ misfit => r \in loose' \/ Read(stored'[r]) = progress'
  <2>1. CASE misfit
    BY <1>1, <1>4, <1>5, <2>1, WriteType
  <2>2. CASE ~misfit
    BY <1>1, <1>5, <2>2 DEF storageVars, StorageType
  <2>3. QED
    BY <2>1, <2>2
<1>7. PageType'
  <2>1. resume' \in 0..MaxSteps
    BY <1>2 DEF Jump, CookProgress
  <2>2. open' \in Recipe /\ UNCHANGED <<place, seen, failed>>
    BY DEF Jump
  <2>3. QED
    BY <1>1, <1>4, <2>1, <2>2 DEF PageType
<1>8. PlaceOK'
  BY RecipesAssumption DEF Jump, PlaceOK
<1>9. Agree'
  <2>1. open' = r
    BY DEF Jump
  <2>2. ~misfit => progress' = Read(stored'[r])
    BY <1>5 DEF Jump, storageVars
  <2>3. QED
    BY <1>6, <2>1, <2>2 DEF Agree
<1>10. RestType'
  BY <1>1, ClickType, CookAssumption DEF Jump, Beyond, RestType
<1>11. \/ progress' = loaded
       \/ \E i \in Int : i < loaded.step /\ progress' = [loaded EXCEPT !.step = i]
  <2>1. CASE misfit
    <3>1. progress' = [loaded EXCEPT !.step = seen.steps - 1]
      BY <2>1 DEF Jump
    <3>2. loaded.step \in Nat /\ seen.steps \in 1..loaded.step
      BY <1>2, <2>1 DEF CookProgress
    <3>3. seen.steps - 1 \in Int /\ seen.steps - 1 < loaded.step
      BY <3>2
    <3>4. QED
      BY <3>1, <3>3
  <2>2. CASE ~misfit
    BY <2>2 DEF Jump
  <2>3. QED
    BY <2>1, <2>2
<1>12. QED
  BY <1>6, <1>7, <1>8, <1>9, <1>10, <1>11, InvParts

\* Steps that go from page to page and leave the storage as it is.
Navigation ==
    \/ \E r \in Recipe : OpenRecipe(r)
    \/ Leave \/ BackToRecipe \/ Reload

LEMMA NavigationFacts ==
  ASSUME CookInv, Navigation
  PROVE  CookInv' /\ UNCHANGED <<storageVars, server, clicks>>
<1>1. StorageType /\ PageType /\ RestType /\ PlaceOK /\ Agree
  BY TypeParts DEF CookInv
<1>2. UNCHANGED <<storageVars, server, clicks>>
  BY DEF Navigation, OpenRecipe, Leave, BackToRecipe, Reload, Inside, Outside
<1>3. RestType'
  BY <1>1, CookAssumption
  DEF Navigation, OpenRecipe, Leave, BackToRecipe, Reload, Inside, Outside, Beyond, RestType
<1>4. StorageType'
  BY <1>1, <1>2 DEF storageVars, StorageType
<1>5. PageType' /\ PlaceOK' /\ Agree'
  <2>1. ASSUME NEW r \in Recipe, OpenRecipe(r) PROVE PageType' /\ PlaceOK' /\ Agree'
    BY <1>4, <2>1, MountFacts DEF OpenRecipe
  <2>2. place # "picker" => open \in Recipe /\ place \in {"prep", "steps"}
    BY <1>1 DEF PageType, PlaceOK
  <2>3. CASE Leave
    BY <2>3, ToPickerFacts DEF Leave
  <2>4. CASE BackToRecipe
    BY <1>4, <2>2, <2>4, MountFacts DEF BackToRecipe
  <2>5. CASE Reload
    BY <1>4, <2>2, <2>5, MountFacts DEF Reload
  <2>6. QED
    BY <2>1, <2>3, <2>4, <2>5 DEF Navigation
<1>6. QED
  BY <1>2, <1>3, <1>4, <1>5, InvParts

\* Steps of the rest of the browser that leave the page alone.
Elsewhere ==
    \/ \E r \in Recipe :
          \/ Expire(r)
          \/ \E entry \in OtherEntries : OtherTab(r, entry)
    \/ StorageFills

LEMMA ElsewhereFacts ==
  ASSUME CookInv, Elsewhere
  PROVE  /\ CookInv' /\ UNCHANGED <<server, pageVars, clicks>>
         /\ loose \subseteq loose'
         /\ \A s \in Recipe \ loose' : stored'[s] = stored[s]
<1>1. StorageType /\ PageType /\ RestType /\ PlaceOK /\ Agree
  BY TypeParts DEF CookInv
<1>2. UNCHANGED <<server, pageVars, clicks>> /\ outside' \in 0..MaxOutside
  BY <1>1, CookAssumption DEF Elsewhere, Expire, OtherTab, StorageFills, Outside, Beyond, RestType
<1>3. loose \subseteq loose' /\ loose' \subseteq Recipe /\ full' \in BOOLEAN
  BY <1>1 DEF Elsewhere, Expire, OtherTab, StorageFills, StorageType
<1>4. \A s \in Recipe \ loose' : stored'[s] = stored[s]
  BY <1>1 DEF Elsewhere, Expire, OtherTab, StorageFills, StorageType
<1>5. stored' \in [Recipe -> StoredEntry]
  <2>1. ASSUME NEW r \in Recipe, Expire(r) PROVE stored' \in [Recipe -> StoredEntry]
    <3>1. stored[r] \in StoredProgress
      BY <1>1, <2>1 DEF Expire, StorageType, StoredEntry
    <3>2. [stored[r] EXCEPT !.old = TRUE] \in StoredEntry
      BY <3>1 DEF StoredProgress, StoredEntry
    <3>3. QED
      BY <1>1, <2>1, <3>2 DEF Expire, StorageType
  <2>2. ASSUME NEW r \in Recipe, NEW e \in OtherEntries, OtherTab(r, e)
        PROVE  stored' \in [Recipe -> StoredEntry]
    BY <1>1, <2>2, CookAssumption DEF OtherTab, StorageType, StoredEntry
  <2>3. CASE StorageFills
    BY <1>1, <2>3 DEF StorageFills, StorageType
  <2>4. QED
    BY <2>1, <2>2, <2>3 DEF Elsewhere
<1>6. StorageType' /\ RestType' /\ PageType' /\ PlaceOK'
  BY <1>1, <1>2, <1>3, <1>5 DEF StorageType, RestType, PageType, PlaceOK, pageVars
<1>7. Agree'
  BY <1>1, <1>2, <1>3, <1>4 DEF Agree, pageVars
<1>8. QED
  BY <1>2, <1>3, <1>4, <1>6, <1>7, InvParts

LEMMA OpenIndex ==
  ASSUME CookInv, OpenListed \/ Resume
  PROVE  \E i \in 0..MaxSteps : OpenStep(i)
<1>1. CASE OpenListed
  BY <1>1 DEF OpenListed
<1>2. CASE Resume
  <2>1. resume \in 0..MaxSteps
    BY TypeParts DEF CookInv, PageType
  <2>2. HasSteps /\ seen.steps \in 1..MaxSteps
    BY <1>2, SeenFacts DEF Resume, OpenStep
  <2>3. ResumeStep \in 0..MaxSteps
    BY <2>1, <2>2, CookAssumption DEF ResumeStep, AtMostLast
  <2>4. QED
    BY <1>2, <2>3 DEF Resume
<1>3. QED
  BY <1>1, <1>2

LEMMA CookStep ==
  ASSUME CookInv, [CookNext]_cookVars
  PROVE  CookInv'
<1>1. StorageType /\ PageType /\ RestType /\ PlaceOK /\ Agree
  BY TypeParts DEF CookInv
<1>2. CASE Navigation \/ Elsewhere
  BY <1>2, NavigationFacts, ElsewhereFacts
<1>3. ASSUME NEW r \in Recipe, Jump(r) PROVE CookInv'
  BY <1>3, JumpInv
<1>4. ASSUME NEW r \in Recipe, NEW data \in RecipeData, RecipeEdited(r, data) PROVE CookInv'
  <2>1. StorageType' /\ PageType' /\ PlaceOK' /\ Agree'
    BY <1>1, <1>4
    DEF RecipeEdited, storageVars, pageVars, StorageType, PageType, PlaceOK, Agree
  <2>2. RestType'
    BY <1>1, <1>4, CookAssumption DEF RecipeEdited, Outside, Beyond, RestType
  <2>3. QED
    BY <2>1, <2>2, InvParts
<1>5. CASE OpenListed \/ Resume
  <2>1. PICK i \in 0..MaxSteps : OpenStep(i)
    BY <1>5, OpenIndex
  <2>2. QED
    BY <2>1, OpenStepInv
<1>6. ASSUME Clear(open), clicks' \in 0..5, UNCHANGED <<server, outside>>, open \in Recipe,
             Mount("steps", open) \/ ToPicker
      PROVE  CookInv'
  <2>1. StorageType'
    BY <1>1, <1>6, ClearType
  <2>2. PageType' /\ PlaceOK' /\ Agree'
    BY <1>6, <2>1, MountFacts, ToPickerFacts
  <2>3. RestType'
    BY <1>1, <1>6 DEF RestType
  <2>4. QED
    BY <2>1, <2>2, <2>3, InvParts
<1>7. CASE StartOver \/ Finish
  <2>1. open \in Recipe
    BY <1>1, <1>7 DEF StartOver, Finish, PageType, PlaceOK
  <2>2. clicks' \in 0..5
    BY <1>1, <1>7, ClickType DEF StartOver, Finish, RestType
  <2>3. QED
    BY <1>6, <1>7, <2>1, <2>2 DEF StartOver, Finish
<1>8. ASSUME NEW i, GoTo(i) PROVE CookInv'
  BY <1>8, GoToSets, SetInv
<1>9. CASE (\E i \in 0..MaxSteps : GoTo(i)) \/ Back \/ Forward
  BY <1>8, <1>9 DEF Back, Forward
<1>10. ASSUME NEW n \in Servings, ChangeServings(n) PROVE CookInv'
  BY <1>10, ServingsSets, SetInv
<1>11. ASSUME NEW i \in Ingredient, ToggleIngredient(i) PROVE CookInv'
  BY <1>11, ToggleSets, SetInv
<1>12. CASE RecipeArrives
  BY <1>12, ArrivalInv
<1>13. CASE PollFails
  <2>1. StorageType' /\ PageType' /\ PlaceOK' /\ Agree'
    BY <1>1, <1>13 DEF PollFails, storageVars, StorageType, PageType, PlaceOK, Agree
  <2>2. RestType'
    BY <1>1, <1>13, CookAssumption DEF PollFails, Outside, Beyond, RestType
  <2>3. QED
    BY <2>1, <2>2, InvParts
<1>14. CASE UNCHANGED cookVars
  <2>1. StorageType' /\ PageType' /\ PlaceOK' /\ Agree' /\ RestType'
    BY <1>1, <1>14
    DEF cookVars, storageVars, pageVars, StorageType, PageType, PlaceOK, Agree, RestType
  <2>2. QED
    BY <2>1, InvParts
<1>15. QED
  BY <1>2, <1>3, <1>4, <1>5, <1>7, <1>9, <1>10, <1>11, <1>12, <1>13, <1>14
  DEF CookNext, Navigation, Elsewhere

LEMMA CookStart == CookInit => CookInv
<1> SUFFICES ASSUME CookInit PROVE CookInv
  OBVIOUS
<1>1. StorageType
  BY DEF CookInit, StorageType, StoredEntry
<1>2. PageType
  <2>1. progress \in CookProgress
    BY EmptyType DEF CookInit
  <2>2. resume \in 0..MaxSteps
    BY CookAssumption DEF CookInit
  <2>3. QED
    BY <2>1, <2>2 DEF CookInit, PageType
<1>3. RestType
  BY CookAssumption DEF CookInit, RestType, RecipeData
<1>4. PlaceOK /\ Agree
  BY RecipesAssumption DEF CookInit, PlaceOK, Agree
<1>5. QED
  BY <1>1, <1>2, <1>3, <1>4, TypeParts DEF CookInv

\* Whatever other tabs, edits, reloads and a full storage do, the types are kept, a page has
\* a recipe, and what the page shows is what a reload would bring back, unless something else
\* than the page has touched the entry.
THEOREM CookInvariance == CookSpec => []CookInv
<1>1. CookInv /\ [CookNext]_cookVars => CookInv'
  BY CookStep
<1>2. QED
  BY <1>1, CookStart, PTL DEF CookSpec

\* Types: the step a page keeps and the servings stay in their ranges for every entry the
\* storage may hold.
THEOREM CookTypeCorrect == CookSpec => []CookTypeOK
<1>1. CookInv => CookTypeOK
  BY DEF CookInv
<1>2. QED
  BY <1>1, CookInvariance, PTL

\* The steps page and the link to resume never point past the last step of the recipe on
\* the page (CookStepsPage, CookRecipeDetailPage).
THEOREM StepAlwaysExists == CookSpec => []StepShownExists
<1>1. CookInv => StepShownExists
  <2>1. SUFFICES ASSUME CookInv, HasSteps
                 PROVE  /\ StepShown \in 0..(seen.steps - 1)
                        /\ ResumeStep \in 0..(seen.steps - 1)
    BY DEF StepShownExists
  <2>2. seen.steps \in 1..MaxSteps /\ progress.step \in 0..MaxSteps
    BY <2>1, SeenFacts
  <2>3. resume \in 0..MaxSteps
    BY <2>1, TypeParts DEF CookInv, PageType
  <2>4. QED
    BY <2>2, <2>3, CookAssumption DEF StepShown, ResumeStep, AtMostLast
<1>2. QED
  BY <1>1, CookInvariance, PTL

(***************************************************************************)
(* useCookProgress keeps its promise.                                      *)
(***************************************************************************)
\* An excused recipe may lose its progress; all others have what their entry says.
LEMMA LoseStep ==
  ASSUME CookInv, CookInv', loose \subseteq loose', UNCHANGED server,
         clicks' \in {clicks, 0, 1},
         \A s \in Recipe \ loose' : stored'[s] = stored[s]
  PROVE  Promise!Lose
<1>1. \A s \in Recipe \ loose' : Kept[s] = Read(stored[s]) /\ Kept'[s] = Read(stored'[s])
  BY DEF CookInv, Agree, Kept
<1>2. \A s \in Recipe \ loose' : Kept'[s] = Kept[s]
  BY <1>1
<1>3. Kept' = [s \in Recipe |-> IF s \in loose' THEN Kept'[s] ELSE Kept[s]]
  BY <1>2 DEF Kept
<1>4. [r \in Recipe |-> server[r].steps]' = [r \in Recipe |-> server[r].steps]
  OBVIOUS
<1>5. QED
  BY <1>3, <1>4 DEF Promise!Lose

\* A step about the recipe on the page changes nothing of another one.
LEMMA OnlyStep ==
  ASSUME open \in Recipe, open' \in {open, Nothing}, UNCHANGED server,
         loose' \ {open} = loose \ {open},
         \A s \in Recipe \ {open} : stored'[s] = stored[s]
  PROVE  Promise!Only(open) /\ Kept[open] = progress
<1>1. \A s \in Recipe \ {open} : Kept'[s] = Kept[s]
  BY RecipesAssumption DEF Kept
<1>2. Kept' = [Kept EXCEPT ![open] = Kept'[open]]
  BY <1>1 DEF Kept
<1>3. [r \in Recipe |-> server[r].steps]' = [r \in Recipe |-> server[r].steps]
  OBVIOUS
<1>4. QED
  BY <1>2, <1>3 DEF Promise!Only, Kept

\* A click that sets one field, with the page staying where it is.
LEMMA SetCooks ==
  ASSUME CookInv, place # "picker", NEW p \in CookProgress, Set(p),
         \/ p = [progress EXCEPT !.step = p.step]
         \/ p = [progress EXCEPT !.servings = p.servings]
         \/ p = [progress EXCEPT !.checked = p.checked]
  PROVE  Promise!Cook(open) /\ open \in Recipe
<1>1. open \in Recipe /\ StorageType /\ RestType
  BY TypeParts DEF CookInv, PageType, PlaceOK
<1>2. /\ loose' \ {open} = loose \ {open}
      /\ \A s \in Recipe \ {open} : stored'[s] = stored[s]
  BY <1>1, WriteType DEF Set, Apply
<1>3. Promise!Only(open) /\ Kept[open] = progress
  BY <1>1, <1>2, OnlyStep DEF Set
<1>4. Kept'[open] = p
  BY <1>1 DEF Set, Apply, Kept
<1>5. clicks' # clicks /\ clicks' \in {0, 1}
  BY <1>1, ClickType DEF Set, RestType
<1>6. QED
  BY <1>1, <1>3, <1>4, <1>5 DEF Promise!Cook

LEMMA OpenStepCooks ==
  ASSUME CookInv, CookInv', NEW i \in 0..MaxSteps, OpenStep(i)
  PROVE  Promise!Lose \/ (open \in Recipe /\ Promise!Cook(open))
<1>1. open \in Recipe /\ StorageType /\ RestType /\ progress \in CookProgress
  BY TypeParts DEF CookInv, PageType, PlaceOK, OpenStep
<1> DEFINE p == [progress EXCEPT !.step = i]
<1>2. p \in CookProgress
  BY <1>1, FieldTypes
<1>3. /\ loose' \ {open} = loose \ {open}
      /\ \A s \in Recipe \ {open} : stored'[s] = stored[s]
      /\ loose' = loose \cup {open} \/ Read(stored'[open]) = p
  BY <1>1, <1>2, WriteType DEF OpenStep
<1>4. clicks' # clicks /\ clicks' \in {0, 1} /\ UNCHANGED server /\ open' = open
  BY <1>1, ClickType DEF OpenStep, RestType, Mount
<1>5. CASE loose' = loose \cup {open}
  BY <1>3, <1>4, <1>5, LoseStep
<1>6. CASE Read(stored'[open]) = p
  <2>1. Promise!Only(open) /\ Kept[open] = progress
    BY <1>1, <1>3, <1>4, OnlyStep
  <2>2. Kept'[open] = p
    BY <1>1, <1>6 DEF OpenStep, Mount, Kept
  <2>3. p = [progress EXCEPT !.step = p.step]
    BY <1>1 DEF CookProgress
  <2>4. QED
    BY <1>1, <1>4, <2>1, <2>2, <2>3 DEF Promise!Cook
<1>7. QED
  BY <1>3, <1>5, <1>6

LEMMA StartsOver ==
  ASSUME CookInv, StartOver \/ Finish
  PROVE  open \in Recipe /\ Promise!StartOver(open)
<1>1. open \in Recipe /\ StorageType /\ RestType
  BY TypeParts DEF CookInv, PageType, PlaceOK, StartOver, Finish
<1>2. /\ loose' \ {open} = loose \ {open}
      /\ \A s \in Recipe \ {open} : stored'[s] = stored[s]
      /\ Read(stored'[open]) = EMPTY
  BY <1>1, ClearType DEF StartOver, Finish
<1>3. clicks' # clicks /\ clicks' \in {2, 3} /\ UNCHANGED server
  BY <1>1, ClickType DEF StartOver, Finish, RestType
<1>4. open' \in {open, Nothing}
  BY DEF StartOver, Finish, Mount, ToPicker
<1>5. Promise!Only(open)
  BY <1>1, <1>2, <1>3, <1>4, OnlyStep
<1>6. Kept'[open] = EMPTY
  BY <1>1, <1>2, RecipesAssumption DEF StartOver, Finish, Mount, ToPicker, Kept
<1>7. QED
  BY <1>1, <1>3, <1>5, <1>6 DEF Promise!StartOver

LEMMA ArrivalFits ==
  ASSUME CookInv, CookInv', RecipeArrives
  PROVE  Promise!Lose \/ (open \in Recipe /\ Promise!Fit(open))
<1>1. open \in Recipe /\ StorageType /\ UNCHANGED <<server, open, clicks>>
      /\ server[open] \in RecipeData /\ progress \in CookProgress
  BY ArrivalFacts, TypeParts DEF CookInv, PageType, RecipeArrives, Inside
<1>2. CASE UNCHANGED <<progress, storageVars>>
  BY <1>1, <1>2, LoseStep DEF storageVars
<1>3. CASE ~UNCHANGED <<progress, storageVars>>
  <2> DEFINE p == [progress EXCEPT !.step = server[open].steps - 1]
  <2>1. /\ p \in CookProgress /\ Apply(p)
        /\ server[open].steps > 0 /\ progress.step >= server[open].steps
    BY <1>1, <1>3, ArrivalFacts
  <2>2. /\ loose' \ {open} = loose \ {open}
        /\ \A s \in Recipe \ {open} : stored'[s] = stored[s]
    BY <1>1, <2>1, WriteType DEF Apply
  <2>3. Promise!Only(open) /\ Kept[open] = progress
    BY <1>1, <2>2, OnlyStep
  <2>4. Kept'[open] = p
    BY <1>1, <2>1 DEF Apply, Kept
  <2>5. [r \in Recipe |-> server[r].steps][open] = server[open].steps
    BY <1>1
  <2>6. QED
    BY <1>1, <2>1, <2>3, <2>4, <2>5 DEF Promise!Fit
<1>4. QED
  BY <1>2, <1>3

\* A jump takes back at most the step of the recipe it goes to.
LEMMA JumpsTo ==
  ASSUME CookInv, NEW r \in Recipe, Jump(r)
  PROVE  Promise!JumpTo(r)
<1>1. StorageType /\ RestType /\ Agree
  BY TypeParts DEF CookInv
<1>2. /\ \A s \in Recipe \ {r} : stored'[s] = stored[s]
      /\ loose' \ {r} = loose \ {r}
  BY JumpInv
<1>3. open # r /\ open' = r /\ UNCHANGED server /\ clicks' # clicks /\ clicks' \in {4, 5}
  BY <1>1, ClickType DEF Jump, RestType
<1>4. Kept[r] = Read(stored[r]) /\ Kept'[r] = progress'
  BY <1>3 DEF Kept
<1>5. Kept[r] \in CookProgress
  BY <1>1, <1>4, ReadType DEF StorageType
<1>6. \/ Kept'[r] = Kept[r]
      \/ \E i \in Int : i < Kept[r].step /\ Kept'[r] = [Kept[r] EXCEPT !.step = i]
  BY <1>4, JumpInv
<1>7. Kept'[r] = [Kept[r] EXCEPT !.step = Kept'[r].step] /\ Kept'[r].step <= Kept[r].step
  <2>1. CASE Kept'[r] = Kept[r]
    BY <1>5, <2>1, CookAssumption DEF CookProgress
  <2>2. ASSUME NEW i \in Int, i < Kept[r].step, Kept'[r] = [Kept[r] EXCEPT !.step = i]
        PROVE  /\ Kept'[r] = [Kept[r] EXCEPT !.step = Kept'[r].step]
               /\ Kept'[r].step <= Kept[r].step
    <3>1. Kept'[r].step = i
      BY <1>5, <2>2 DEF CookProgress
    <3>2. QED
      BY <1>5, <2>2, <3>1, CookAssumption DEF CookProgress
  <2>3. QED
    BY <1>6, <2>1, <2>2
<1>8. ASSUME NEW q \in Recipe \ {r}, q \notin loose PROVE Kept'[q] = Kept[q]
  BY <1>1, <1>2, <1>3, <1>8 DEF Kept, Agree
<1>9. Kept' = [q \in Recipe |->
          IF q = r THEN [Kept[r] EXCEPT !.step = Kept'[r].step]
          ELSE IF q \in loose THEN Kept'[q] ELSE Kept[q]]
  BY <1>7, <1>8 DEF Kept
<1>10. [q \in Recipe |-> server[q].steps]' = [q \in Recipe |-> server[q].steps]
  BY <1>3
<1>11. QED
  BY <1>2, <1>3, <1>7, <1>9, <1>10 DEF Promise!JumpTo

LEMMA PromiseStep ==
  ASSUME CookInv, CookInv', [CookNext]_cookVars
  PROVE  [Promise!Next]_(Promise!vars)
<1>1. ASSUME NEW r \in Recipe,
             Promise!Cook(r) \/ Promise!StartOver(r) \/ Promise!Fit(r) \/ Promise!JumpTo(r)
      PROVE  Promise!Next
  BY <1>1 DEF Promise!Next
<1>2. CASE Navigation
  BY <1>2, NavigationFacts, LoseStep DEF storageVars, Promise!Next
<1>3. CASE Elsewhere
  BY <1>3, ElsewhereFacts, LoseStep DEF Promise!Next
<1>4. ASSUME NEW r \in Recipe, Jump(r) PROVE Promise!Next
  BY <1>1, <1>4, JumpsTo
<1>5. ASSUME NEW r \in Recipe, NEW data \in RecipeData, RecipeEdited(r, data)
      PROVE  Promise!Next
  <2>1. Kept' = Kept /\ UNCHANGED <<clicks, loose>>
    BY <1>5 DEF RecipeEdited, Outside, storageVars, pageVars, Kept
  <2>2. QED
    BY <2>1 DEF Promise!Edit, Promise!Next
<1>6. CASE OpenListed \/ Resume
  <2>1. PICK i \in 0..MaxSteps : OpenStep(i)
    BY <1>6, OpenIndex
  <2>2. QED
    BY <1>1, <2>1, OpenStepCooks DEF Promise!Next
<1>7. CASE StartOver \/ Finish
  BY <1>1, <1>7, StartsOver
<1>8. ASSUME NEW i, GoTo(i) PROVE Promise!Next
  <2> DEFINE p == [progress EXCEPT !.step = i]
  <2>1. place # "picker" /\ p \in CookProgress /\ Set(p)
    BY <1>8, GoToSets
  <2>2. p = [progress EXCEPT !.step = p.step]
    BY TypeParts DEF CookInv, PageType, CookProgress
  <2>3. QED
    BY <1>1, <2>1, <2>2, SetCooks
<1>9. CASE (\E i \in 0..MaxSteps : GoTo(i)) \/ Back \/ Forward
  BY <1>8, <1>9 DEF Back, Forward
<1>10. ASSUME NEW n \in Servings, ChangeServings(n) PROVE Promise!Next
  <2> DEFINE p == [progress EXCEPT !.servings = n]
  <2>1. place # "picker" /\ p \in CookProgress /\ Set(p)
    BY <1>10, ServingsSets
  <2>2. p = [progress EXCEPT !.servings = p.servings]
    BY TypeParts DEF CookInv, PageType, CookProgress
  <2>3. QED
    BY <1>1, <2>1, <2>2, SetCooks
<1>11. ASSUME NEW i \in Ingredient, ToggleIngredient(i) PROVE Promise!Next
  <2>1. PICK c \in SUBSET Ingredient :
            /\ place # "picker" /\ [progress EXCEPT !.checked = c] \in CookProgress
            /\ Set([progress EXCEPT !.checked = c])
    BY <1>11, ToggleSets
  <2> DEFINE p == [progress EXCEPT !.checked = c]
  <2>2. p = [progress EXCEPT !.checked = p.checked]
    BY TypeParts DEF CookInv, PageType, CookProgress
  <2>3. QED
    BY <1>1, <2>1, <2>2, SetCooks
<1>12. CASE RecipeArrives
  BY <1>1, <1>12, ArrivalFits DEF Promise!Next
<1>13. CASE PollFails \/ UNCHANGED cookVars
  <2>1. UNCHANGED <<stored, loose, server, open, progress, clicks>>
    BY <1>13 DEF PollFails, Outside, cookVars, storageVars, pageVars
  <2>2. QED
    BY <2>1, LoseStep DEF Promise!Next
<1>14. QED
  BY <1>2, <1>3, <1>4, <1>5, <1>6, <1>7, <1>9, <1>10, <1>11, <1>12, <1>13
  DEF CookNext, Navigation, Elsewhere

\* useCookProgress implements KeptProgress: whatever pages are opened, left and reloaded, a
\* recipe keeps its progress until the cook changes it, starts over or finishes, or the recipe
\* gets shorter.  The exceptions are those of ProgressIsKept: an entry somebody else has left or
\* nobody could write, and a jump in the history, which takes back at most the step of the recipe
\* it goes to.
THEOREM CookImplementsKept == CookSpec => ProgressIsKept
<1>1. CookInit => Promise!Init
  <2>1. SUFFICES ASSUME CookInit PROVE Promise!Init
    OBVIOUS
  <2>2. Kept = [r \in Recipe |-> EMPTY]
    BY <2>1, ReadNothing, RecipesAssumption DEF CookInit, Kept
  <2>3. QED
    BY <2>1, <2>2 DEF CookInit, Promise!Init
<1>2. CookInv /\ CookInv' /\ [CookNext]_cookVars => [Promise!Next]_(Promise!vars)
  BY PromiseStep
<1>3. QED
  BY <1>1, <1>2, CookInvariance, PTL DEF CookSpec, ProgressIsKept, Promise!Spec
=============================================================================
