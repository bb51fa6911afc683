------------------------------ MODULE MCRecipes -----------------------------
(***************************************************************************)
(* The pages of frontend/src/modules/recipes and the recipes in the        *)
(* database, one at a time: they share no state here, so each is explored  *)
(* for itself.                                                             *)
(***************************************************************************)
EXTENDS CookMode, WakeLock, RecipeForm, RecipeBrowse, RecipeStore

CONSTANTS soup, cake, egg, sweet, c1, stew, broth, hot

VARIABLE page

\* What another tab or an older version may leave: numbers no page would write, a step the
\* recipe may not have, no JSON.
MCOtherEntries ==
    {[step |-> -1, servings |-> 0, checked |-> {}, old |-> FALSE],
     [step |-> 2, servings |-> 2, checked |-> {egg}, old |-> FALSE], Junk}

MCTagsOf == [r \in Recipe |-> IF r = cake THEN {sweet} ELSE {}]
MCFoundBy == [r \in Recipe |-> IF r = cake THEN {c1} ELSE {}]
MCMinutes == {Nothing, 75}

\* Two saves of one recipe, its deletion, a recipe and a tag that come to be meanwhile.
MCJobs ==
    {[kind |-> "update", recipe |-> soup, title |-> stew, tags |-> <<sweet, hot>>],
     [kind |-> "update", recipe |-> soup, title |-> broth, tags |-> <<>>],
     [kind |-> "delete", recipe |-> soup, title |-> stew, tags |-> <<>>],
     [kind |-> "create", recipe |-> cake, title |-> broth, tags |-> <<hot, sweet>>],
     [kind |-> "tag", recipe |-> soup, title |-> stew, tags |-> <<sweet>>]}

MCInit ==
    /\ page \in {"cook", "wake", "form", "browse", "store"}
    /\ CookInit /\ WakeInit /\ FormInit /\ BrowseInit /\ StoreInit
    /\ recipe[soup] = stew

MCNext ==
    /\ UNCHANGED page
    /\ \/ page = "cook" /\ CookNext
          /\ UNCHANGED <<wakeVars, formVars, browseVars, storeVars>>
       \/ page = "wake" /\ WakeNext
          /\ UNCHANGED <<cookVars, formVars, browseVars, storeVars>>
       \/ page = "form" /\ FormNext
          /\ UNCHANGED <<cookVars, wakeVars, browseVars, storeVars>>
       \/ page = "browse" /\ BrowseNext
          /\ UNCHANGED <<cookVars, wakeVars, formVars, storeVars>>
       \/ page = "store" /\ StoreNext
          /\ UNCHANGED <<cookVars, wakeVars, formVars, browseVars>>

MCSpec ==
    MCInit /\ [][MCNext]_<<page, cookVars, wakeVars, formVars, browseVars, storeVars>>
=============================================================================
