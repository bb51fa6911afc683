------------------------------- MODULE Recipes ------------------------------
(***************************************************************************)
(* What the recipe pages have in common (frontend/src/modules/recipes/     *)
(* types/recipe.ts, lib): the names of things, and the amounts and times   *)
(* they show.  An amount is a number of hundredths.                        *)
(***************************************************************************)
EXTENDS Integers, FiniteSets

CONSTANTS
    Recipe, Ingredient, Tag,
    Nothing  \* null: nothing loaded, chosen, stored or on the page

ASSUME RecipesAssumption == Nothing \notin Int \cup Recipe \cup Ingredient \cup Tag

Hundredth == 100

\* scaleAmount and Math.round(amount * 100): the amount for n of base servings, rounded half
\* up to hundredths.
ScaleAmount(amount, base, n) ==
    IF base <= 0 THEN amount ELSE (2 * amount * n + base) \div (2 * base)

\* FRACTIONS, in sixths of a hundredth: a quarter, a third, a half, two thirds, three
\* quarters.
Fractions == {150, 200, 300, 400, 450}

FRACTION_TOLERANCE == 9 \* 0.015
FRACTION_LIMIT == 10 * Hundredth

Close(x, v) == x - v < FRACTION_TOLERANCE /\ v - x < FRACTION_TOLERANCE

\* Fault: a fraction that is not found stands for none.
FaultWholeOnly(r) == [whole |-> r \div Hundredth, fraction |-> 0]

\* What formatAmount writes for r hundredths: a whole number and a fraction, in sixths of a
\* hundredth, or the decimals.
FormatAmount(r) ==
    LET whole == r \div Hundredth
        near == {v \in Fractions : Close(6 * (r % Hundredth), v)}
    IN  IF r > 0 /\ r < FRACTION_LIMIT /\ near # {}
        THEN [whole |-> whole, fraction |-> CHOOSE v \in near : TRUE]
        ELSE [whole |-> whole, fraction |-> 6 * (r % Hundredth)]

\* formatTotalTime: hours and minutes, or nothing to show.
FormatTotalTime(prep, cook) ==
    LET total == (IF prep = Nothing THEN 0 ELSE prep) + (IF cook = Nothing THEN 0 ELSE cook)
    IN  IF total = 0 THEN Nothing ELSE [hours |-> total \div 60, minutes |-> total % 60]
=============================================================================
