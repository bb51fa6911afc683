CONSTANTS
    soup = soup
    cake = cake
    egg = egg
    sweet = sweet
    c1 = c1
    Nothing = Nothing
    Recipe = {soup, cake}
    Ingredient = {egg}
    Tag = {sweet}
    Junk = Junk
    OtherEntries <- MCOtherEntries
    ServingsBase = 1
    MaxSteps = 2
    MaxServings = 2
    MaxOutside = 2
    MaxRequests = 4
    New = New
    Blank = Blank
    Word = {flour}
    MaxLines = 3
    MaxEdits = 4
    MaxVisits = 2
    Search = {c1}
    TagsOf <- MCTagsOf
    FoundBy <- MCFoundBy
    Amount = {25, 100}
    Minutes <- MCMinutes
    MaxTarget = 3
    MaxAsked = 2
    stew = stew
    broth = broth
    hot = hot
    Transaction = {t1, t2, t3}
    First = First
    Title = {stew, broth}
    TagName = {sweet, hot}
    Jobs <- MCJobs
SPECIFICATION MCSpec
INVARIANT StepShownExists
INVARIANT NoLockOutlivesThePage
INVARIANT ScreenStaysOn
INVARIANT OneFormOneRecipe
INVARIANT SavesWhatItLoaded
INVARIANT ListAnswersTheFilter
INVARIANT DeletesWhatIsConfirmed
INVARIANT QuantitiesAreRight
INVARIANT StoredRecipeIsOneSave
PROPERTY ProgressIsKept
CHECK_DEADLOCK FALSE
