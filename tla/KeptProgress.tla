---------------------------- MODULE KeptProgress ----------------------------
(***************************************************************************)
(* What useCookProgress promises: there is one progress for each recipe,   *)
(* and only cooking changes it.  Going from page to page, leaving and      *)
(* reloading do not ("Cooking progress that survives a reload or a         *)
(* mistimed tap out of the flow").  A jump in the history from one         *)
(* recipe's page to another's does (JumpTo).                               *)
(***************************************************************************)
EXTENDS Integers

CONSTANTS Recipe, Empty  \* Empty: the progress of a recipe nobody has started

VARIABLES
    kept,    \* the progress of each recipe: step, servings, checked
    length,  \* its number of steps
    clicks,  \* changes with every step of the cook and every jump in the history;
             \*   2 or 3 after a step that starts over, 4 or 5 after a jump
    loose    \* the recipes whose progress may be lost: something else than the page
             \*   has touched the storage, or it was full

vars == <<kept, length, clicks, loose>>

\* Nothing but r's entry changes.
Only(r) ==
    /\ kept' = [kept EXCEPT ![r] = kept'[r]]
    /\ loose' \ {r} = loose \ {r}
    /\ UNCHANGED length

\* A click sets one of the three fields.
Cook(r) ==
    /\ clicks' # clicks /\ clicks' \in {0, 1}
    /\ Only(r)
    /\ \/ kept'[r] = [kept[r] EXCEPT !.step = kept'[r].step]
       \/ kept'[r] = [kept[r] EXCEPT !.servings = kept'[r].servings]
       \/ kept'[r] = [kept[r] EXCEPT !.checked = kept'[r].checked]

\* A recipe is finished or started over.
StartOver(r) ==
    /\ clicks' # clicks /\ clicks' \in {2, 3}
    /\ Only(r)
    /\ kept'[r] = Empty

\* The recipe has lost steps: the progress goes back to its last one.
Fit(r) ==
    /\ length[r] > 0 /\ kept[r].step >= length[r]
    /\ kept'[r] = [kept[r] EXCEPT !.step = length[r] - 1]
    /\ Only(r)
    /\ UNCHANGED clicks

\* Recipes lose their progress; no click that starts over does only that.
Lose ==
    /\ loose \subseteq loose'
    /\ kept' = [r \in Recipe |-> IF r \in loose' THEN kept'[r] ELSE kept[r]]
    /\ clicks' \in {clicks, 0, 1}
    /\ UNCHANGED length

\* The exception: a jump to r while another recipe is on the page may take r's step
\* back to the last one that recipe has.
JumpTo(r) ==
    /\ clicks' # clicks /\ clicks' \in {4, 5}
    /\ kept' = [q \in Recipe |->
          IF q = r THEN [kept[r] EXCEPT !.step = kept'[r].step]
          ELSE IF q \in loose THEN kept'[q] ELSE kept[q]]
    /\ kept'[r].step <= kept[r].step
    /\ loose' \ {r} = loose \ {r}
    /\ UNCHANGED length

Edit == UNCHANGED <<kept, clicks, loose>>

Init == kept = [r \in Recipe |-> Empty] /\ loose = {}

Next == Edit \/ Lose \/ \E r \in Recipe : Cook(r) \/ StartOver(r) \/ Fit(r) \/ JumpTo(r)

Spec == Init /\ [][Next]_vars
=============================================================================
