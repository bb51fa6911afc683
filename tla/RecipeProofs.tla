---------------------------- MODULE RecipeProofs ----------------------------
(***************************************************************************)
(* Proofs about the recipes in the database, for any recipes, tags, jobs   *)
(* and overlapping transactions.                                           *)
(***************************************************************************)
EXTENDS RecipeForm, RecipeBrowse, RecipeStore, WakeLock, FiniteSetTheorems, TLAPS

Row == [recipe : Recipe, table : Table, by : Transaction \cup {First}]

Stage == {"new", "load", "write", "insert", "find", "create", "commit", "ended"} \cup Table

TablesType ==
    /\ recipe \in [Recipe -> Title \cup {Nothing}]
    /\ children \subseteq Row
    /\ lastSave \in [Recipe -> Transaction \cup {First}]

SessionsType ==
    /\ at \in [Transaction -> Stage]
    /\ job \in [Transaction -> Jobs \cup {Nothing}]
    /\ known \in [Transaction -> Title \cup {Nothing}]
    /\ title \in [Transaction -> Title \cup {Nothing}]
    /\ sees \in [Transaction -> Seq(SUBSET Row)]
    /\ deleted \in [Transaction -> SUBSET Row]
    /\ inserted \in [Transaction -> SUBSET Row]
    /\ links \in [Transaction -> Seq(TagName)]

StoreTypeOK == TablesType /\ SessionsType

\* The statements a job of each kind goes through.
Path(kind) ==
    CASE kind = "create" -> {"insert", "find", "create", "commit", "ended"}
      [] kind = "update" -> Stage \ {"new"}
      [] kind = "delete" -> {"load", "write", "commit", "ended"}
      [] OTHER -> {"find", "create", "commit", "ended"}

OnItsPath(t) == at[t] # "new" => job[t] \in Jobs /\ at[t] \in Path(job[t].kind)

\* The lock on the row of a recipe is what everything rests on: one transaction at a time holds
\* it, and the recipe is there while it does, except when it is being created.
OneHolder ==
    \A r \in Recipe : \A t, u \in Transaction : Holds(t, r) /\ Holds(u, r) => t = u

HeldRecipe(t) ==
    \A r \in Recipe :
        Holds(t, r) => (job[t].kind = "create" <=> recipe[r] = Nothing)

Stored(r, where) == {c \in children : c.recipe = r /\ c.table \in where}

\* The tables an update has gone through.
Emptied(t) ==
    CASE at[t] = "recipe_ingredient" -> {}
      [] at[t] = "recipe_step" -> {"recipe_ingredient"}
      [] at[t] = "recipe_tag" -> {"recipe_ingredient", "recipe_step"}
      [] OTHER -> Table

\* What it deletes is what is stored.
DeletesOK(t) ==
    /\ at[t] \in Table /\ sees[t] # <<>> => sees[t] = <<Stored(job[t].recipe, {at[t]})>>
    /\ at[t] \in Table \cup {"insert", "find", "create", "commit"} /\ job[t].kind = "update" =>
          deleted[t] = Stored(job[t].recipe, Emptied(t))
    /\ at[t] \in {"new", "load", "write"} => deleted[t] = {} /\ sees[t] = <<>>
    /\ at[t] # "new" /\ job[t].kind = "create" => deleted[t] = {}

\* What it inserts is what the job says.
TagRow(t) == [recipe |-> job[t].recipe, table |-> "recipe_tag", by |-> t]

InsertsOK(t) ==
    /\ at[t] \in {"load", "write", "insert"} \cup Table /\ Saves(t) => links[t] = job[t].tags
    /\ at[t] \in {"find", "create", "commit"} /\ Saves(t) =>
          /\ Len(links[t]) <= Len(job[t].tags)
          /\ inserted[t] = {c \in RowsOf(job[t].recipe, t) :
                               c.table = "recipe_tag" => links[t] # job[t].tags}
    /\ at[t] = "commit" => job[t].kind = "delete" \/ links[t] = <<>>
    /\ at[t] = "create" => links[t] # <<>>

\* What it writes to the row is the title of the job, unless it has been overtaken.
TitlesOK(t) ==
    /\ at[t] = "write" /\ t \notin overtaken => recipe[job[t].recipe] \in {known[t], Nothing}
    /\ at[t] \in Table \cup {"insert", "find", "create", "commit"} /\ job[t].kind = "update" =>
          title[t] \in Title /\ (t \notin overtaken => title[t] = job[t].title)
    /\ at[t] \in {"find", "create", "commit"} /\ job[t].kind = "create" =>
          title[t] = job[t].title

LastSaveOK(r) == lastSave[r] # First => at[lastSave[r]] = "ended"

OwnOK(t) == OnItsPath(t) /\ HeldRecipe(t) /\ DeletesOK(t) /\ InsertsOK(t) /\ TitlesOK(t)

StoreInv ==
    /\ StoreTypeOK /\ OneHolder
    /\ \A t \in Transaction : OwnOK(t)
    /\ \A r \in Recipe : LastSaveOK(r)
    /\ StoredRecipeIsOneSave

-----------------------------------------------------------------------------
LEMMA JobFacts ==
  ASSUME NEW j \in Jobs
  PROVE  /\ j.kind \in {"create", "update", "delete", "tag"} /\ j.recipe \in Recipe
         /\ j.title \in Title /\ j.tags \in Seq(TagName) /\ j.title # Nothing
  BY StoreAssumption DEF Job

LEMMA KindFacts ==
  ASSUME StoreInv, NEW t \in Transaction, at[t] # "new"
  PROVE  /\ job[t] \in Jobs /\ job[t].recipe \in Recipe /\ job[t].title \in Title
         /\ job[t].tags \in Seq(TagName)
         /\ job[t].kind \in {"create", "update", "delete", "tag"}
         /\ at[t] \in Path(job[t].kind)
<1>1. job[t] \in Jobs /\ at[t] \in Path(job[t].kind)
  BY DEF StoreInv, OwnOK, OnItsPath
<1>2. QED
  BY <1>1, JobFacts

\* The columns of the tables in which transactions keep what they have not committed.
OtherSessions(t) ==
    \A u \in Transaction \ {t} :
        /\ at'[u] = at[u] /\ job'[u] = job[u] /\ known'[u] = known[u] /\ title'[u] = title[u]
        /\ sees'[u] = sees[u] /\ deleted'[u] = deleted[u] /\ inserted'[u] = inserted[u]
        /\ links'[u] = links[u]

\* A step of one transaction that commits nothing.
LEMMA QuietStep ==
  ASSUME StoreInv, NEW t \in Transaction, SessionsType', OtherSessions(t),
         UNCHANGED <<recipe, children, lastSave, overtaken>>,
         at[t] # "ended", OwnOK(t)',
         \A r \in Recipe : Holds(t, r)' => \A u \in Transaction \ {t} : ~Holds(u, r)
  PROVE  StoreInv'
<1>1. StoreTypeOK'
  BY DEF StoreInv, StoreTypeOK, TablesType
<1>2. ASSUME NEW u \in Transaction \ {t}, NEW r \in Recipe PROVE Holds(u, r)' <=> Holds(u, r)
  BY DEF Holds, OtherSessions
<1>3. OneHolder'
  BY <1>2 DEF OneHolder, StoreInv
<1>4. ASSUME NEW u \in Transaction \ {t} PROVE OwnOK(u)'
  <2>1. OwnOK(u)
    BY DEF StoreInv
  <2>2. OnItsPath(u)'
    BY <2>1 DEF OwnOK, OnItsPath, OtherSessions
  <2>3. HeldRecipe(u)'
    BY <1>2, <2>1 DEF OwnOK, HeldRecipe, OtherSessions
  <2>4. DeletesOK(u)'
    BY <2>1 DEF OwnOK, DeletesOK, OtherSessions, Stored, Emptied
  <2>5. InsertsOK(u)'
    BY <2>1 DEF OwnOK, InsertsOK, OtherSessions, Saves
  <2>6. TitlesOK(u)'
    BY <2>1 DEF OwnOK, TitlesOK, OtherSessions
  <2>7. QED
    BY <2>2, <2>3, <2>4, <2>5, <2>6 DEF OwnOK
<1>5. ASSUME NEW r \in Recipe, lastSave[r] # First
      PROVE  lastSave[r] \in Transaction \ {t} /\ at[lastSave[r]] = "ended"
  BY <1>5 DEF StoreInv, LastSaveOK, StoreTypeOK, TablesType
<1>6. \A r \in Recipe : LastSaveOK(r)'
  BY <1>5 DEF LastSaveOK, OtherSessions
<1>7. StoredRecipeIsOneSave'
  <2> SUFFICES ASSUME NEW r \in Recipe
               PROVE  LET rows == {c \in children : c.recipe = r}
                          by == lastSave[r]
                      IN  IF recipe[r] = Nothing THEN rows = {}
                          ELSE IF by = First THEN rows = RowsOf(r, First)
                          ELSE /\ rows = {c \in RowsOf(r, by) :
                                             c.table = "recipe_tag" => Tagged(job'[by])}
                               /\ by \notin overtaken => recipe[r] = job'[by].title
    BY DEF StoredRecipeIsOneSave, RowsOf, Tagged
  <2>1. lastSave[r] # First => job'[lastSave[r]] = job[lastSave[r]]
    BY <1>5 DEF OtherSessions
  <2>2. QED
    BY <2>1 DEF StoreInv, StoredRecipeIsOneSave
<1>8. QED
  BY <1>1, <1>3, <1>4, <1>6, <1>7 DEF StoreInv
LEMMA EmptySeq == \A S : <<>> \in Seq(S)
  OBVIOUS

LEMMA StoreStart == StoreInit => StoreInv
<1> SUFFICES ASSUME StoreInit PROVE StoreInv
  OBVIOUS
<1>1. PICK r \in Recipe, s \in Title :
        /\ recipe = [x \in Recipe |-> IF x = r THEN s ELSE Nothing]
        /\ children = RowsOf(r, First)
  BY DEF StoreInit
<1>2. \A t \in Transaction : at[t] = "new"
  BY DEF StoreInit
<1>3. TablesType
  BY <1>1 DEF StoreInit, TablesType, RowsOf, Row
<1>4. SessionsType
  <2>1. /\ at \in [Transaction -> Stage] /\ job \in [Transaction -> Jobs \cup {Nothing}]
        /\ known \in [Transaction -> Title \cup {Nothing}]
        /\ title \in [Transaction -> Title \cup {Nothing}]
        /\ deleted \in [Transaction -> SUBSET Row] /\ inserted \in [Transaction -> SUBSET Row]
    BY DEF StoreInit, Stage
  <2>2. sees \in [Transaction -> Seq(SUBSET Row)] /\ links \in [Transaction -> Seq(TagName)]
    BY EmptySeq DEF StoreInit
  <2>3. QED
    BY <2>1, <2>2 DEF SessionsType
<1>5. OneHolder /\ \A t \in Transaction : OwnOK(t)
  <2>1. \A t \in Transaction : deleted[t] = {} /\ sees[t] = <<>>
    BY DEF StoreInit
  <2>2. QED
    BY <1>2, <2>1
    DEF OneHolder, OwnOK, OnItsPath, HeldRecipe, DeletesOK, InsertsOK, TitlesOK, Holds, Table
<1>6. \A x \in Recipe : LastSaveOK(x)
  BY DEF StoreInit, LastSaveOK
<1>7. StoredRecipeIsOneSave
  <2>1. \A x \in Recipe : lastSave[x] = First
    BY DEF StoreInit
  <2>2. {c \in children : c.recipe = r} = RowsOf(r, First) /\ recipe[r] # Nothing
    BY <1>1, StoreAssumption DEF RowsOf
  <2>3. \A x \in Recipe \ {r} : {c \in children : c.recipe = x} = {} /\ recipe[x] = Nothing
    BY <1>1 DEF RowsOf
  <2>4. QED
    BY <2>1, <2>2, <2>3 DEF StoredRecipeIsOneSave
<1>8. QED
  BY <1>3, <1>4, <1>5, <1>6, <1>7 DEF StoreInv, StoreTypeOK

\* The end of a transaction leaves it nothing to keep.
LEMMA Ended ==
  ASSUME StoreInv, NEW t \in Transaction, at[t] # "new", at' = [at EXCEPT ![t] = "ended"],
         UNCHANGED <<job, known, title, sees, deleted, inserted, links>>
  PROVE  SessionsType' /\ OtherSessions(t) /\ at'[t] = "ended" /\ OwnOK(t)'
<1>1. SessionsType
  BY DEF StoreInv, StoreTypeOK
<1>2. SessionsType' /\ OtherSessions(t) /\ at'[t] = "ended"
  BY <1>1 DEF SessionsType, OtherSessions, Stage
<1>3. job[t] \in Jobs /\ job[t].kind \in {"create", "update", "delete", "tag"}
  BY KindFacts
<1>4. job[t].kind = "create" => deleted[t] = {}
  BY DEF StoreInv, OwnOK, DeletesOK
<1>5. DeletesOK(t)' /\ HeldRecipe(t)' /\ InsertsOK(t)' /\ TitlesOK(t)'
  BY <1>2, <1>4 DEF DeletesOK, HeldRecipe, InsertsOK, TitlesOK, Holds, Table
<1>6. OnItsPath(t)'
  BY <1>2, <1>3 DEF OnItsPath, Path, Stage
<1>7. QED
  BY <1>2, <1>5, <1>6 DEF OwnOK

LEMMA FailStep ==
  ASSUME StoreInv, NEW t \in Transaction, at[t] \notin {"new", "ended"}, Fail(t)
  PROVE  StoreInv'
<1>1. /\ at' = [at EXCEPT ![t] = "ended"]
      /\ UNCHANGED <<recipe, children, job, known, title, sees, deleted, inserted, links,
                     lastSave, overtaken>>
  BY DEF Fail, Goto, tables, session
<1>2. SessionsType' /\ OtherSessions(t) /\ at'[t] = "ended" /\ OwnOK(t)'
  BY <1>1, Ended
<1>3. \A r \in Recipe : ~Holds(t, r)'
  BY <1>2 DEF Holds
<1>4. QED
  BY <1>1, <1>2, <1>3, QuietStep

LEMMA BeginStep ==
  ASSUME StoreInv, NEW t \in Transaction, NEW j \in Jobs, Begin(t, j)
  PROVE  StoreInv'
<1> DEFINE next == CASE j.kind = "create" -> "insert"
                     [] j.kind = "tag" -> "find"
                     [] OTHER -> "load"
           todo == IF j.kind = "delete" THEN <<>> ELSE j.tags
<1>1. /\ at[t] = "new" /\ at' = [at EXCEPT ![t] = next]
      /\ job' = [job EXCEPT ![t] = j] /\ links' = [links EXCEPT ![t] = todo]
      /\ UNCHANGED <<recipe, children, known, title, sees, deleted, inserted, lastSave, overtaken>>
  BY DEF Begin, Goto, tables
<1>2. /\ j.kind \in {"create", "update", "delete", "tag"} /\ j.recipe \in Recipe
      /\ j.title \in Title /\ j.tags \in Seq(TagName)
  BY JobFacts
<1>3. next \in Path(j.kind) /\ next \in Stage /\ todo \in Seq(TagName)
  BY <1>2, EmptySeq DEF Path, Stage
<1> HIDE DEF next, todo
<1>4. SessionsType
  BY DEF StoreInv, StoreTypeOK
<1>5. SessionsType' /\ OtherSessions(t)
  BY <1>1, <1>3, <1>4 DEF SessionsType, OtherSessions
<1>6. at'[t] = next /\ job'[t] = j /\ links'[t] = todo
  BY <1>1, <1>4 DEF SessionsType
<1>7. deleted[t] = {} /\ sees[t] = <<>>
  BY <1>1 DEF StoreInv, OwnOK, DeletesOK
<1>8. OwnOK(t)'
  <2>1. OnItsPath(t)'
    BY <1>3, <1>6 DEF OnItsPath
  <2>2. HeldRecipe(t)'
    BY <1>1, <1>2, <1>6 DEF HeldRecipe, Holds, Begin, next
  <2>3. DeletesOK(t)'
    BY <1>1, <1>2, <1>6, <1>7 DEF DeletesOK, next, Table
  <2>4. InsertsOK(t)'
    BY <1>1, <1>2, <1>6 DEF InsertsOK, next, todo, Saves, Table
  <2>5. TitlesOK(t)'
    BY <1>1, <1>2, <1>6 DEF TitlesOK, next, Table
  <2>6. QED
    BY <2>1, <2>2, <2>3, <2>4, <2>5 DEF OwnOK
<1>9. \A r \in Recipe : Holds(t, r)' => \A u \in Transaction \ {t} : ~Holds(u, r)
  BY <1>1, <1>2, <1>6 DEF Holds, next, Begin
<1>10. QED
  BY <1>1, <1>5, <1>8, <1>9, QuietStep
LEMMA LoadStep ==
  ASSUME StoreInv, NEW t \in Transaction, Load(t)
  PROVE  StoreInv'
<1>1. at[t] = "load"
  BY DEF Load
<1>2. CASE recipe[job[t].recipe] = Nothing
  BY <1>1, <1>2, FailStep DEF Load
<1>3. CASE recipe[job[t].recipe] # Nothing
  <2>1. /\ known' = [known EXCEPT ![t] = recipe[job[t].recipe]]
        /\ at' = [at EXCEPT ![t] = "write"]
        /\ UNCHANGED <<recipe, children, job, title, sees, deleted, inserted, links, lastSave,
                       overtaken>>
    BY <1>3 DEF Load, Goto, tables
  <2>2. /\ job[t] \in Jobs /\ job[t].recipe \in Recipe /\ job[t].kind \in {"update", "delete"}
    BY <1>1, KindFacts DEF Path
  <2>3. SessionsType /\ TablesType /\ OwnOK(t)
    BY DEF StoreInv, StoreTypeOK
  <2>4. recipe[job[t].recipe] \in Title \cup {Nothing}
    BY <2>2, <2>3 DEF TablesType
  <2>5. /\ SessionsType' /\ OtherSessions(t) /\ at'[t] = "write"
        /\ known'[t] = recipe[job[t].recipe]
    BY <2>1, <2>3, <2>4 DEF SessionsType, OtherSessions, Stage
  <2>6. OnItsPath(t)' /\ HeldRecipe(t)'
    BY <2>1, <2>2, <2>5 DEF OnItsPath, HeldRecipe, Holds, Path, Stage
  <2>7. DeletesOK(t)' /\ InsertsOK(t)' /\ TitlesOK(t)'
    BY <1>1, <2>1, <2>2, <2>3, <2>5
    DEF OwnOK, DeletesOK, InsertsOK, TitlesOK, Table, Saves
  <2>8. \A r \in Recipe : ~Holds(t, r)'
    BY <2>5 DEF Holds
  <2>9. QED
    BY <1>1, <2>1, <2>5, <2>6, <2>7, <2>8, QuietStep DEF OwnOK
<1>4. QED
  BY <1>2, <1>3

LEMMA WriteStep ==
  ASSUME StoreInv, NEW t \in Transaction, WriteRecipe(t)
  PROVE  StoreInv'
<1>1. at[t] = "write" /\ Free(job[t].recipe)
  BY DEF WriteRecipe, Writable
<1>2. CASE recipe[job[t].recipe] = Nothing
  BY <1>1, <1>2, FailStep DEF WriteRecipe
<1>3. CASE recipe[job[t].recipe] # Nothing
  <2> DEFINE next == IF job[t].kind = "delete" THEN "commit" ELSE "recipe_ingredient"
             new == IF job[t].title = known[t] THEN recipe[job[t].recipe] ELSE job[t].title
  <2>1. /\ title' = [title EXCEPT ![t] = new] /\ at' = [at EXCEPT ![t] = next]
        /\ UNCHANGED <<recipe, children, job, known, sees, deleted, inserted, links, lastSave,
                       overtaken>>
    BY <1>3 DEF WriteRecipe, Goto, tables
  <2>2. /\ job[t] \in Jobs /\ job[t].recipe \in Recipe /\ job[t].kind \in {"update", "delete"}
        /\ job[t].title \in Title
    BY <1>1, KindFacts DEF Path
  <2>3. SessionsType /\ TablesType /\ OwnOK(t)
    BY DEF StoreInv, StoreTypeOK
  <2>4. new \in Title /\ (t \notin overtaken => new = job[t].title)
    BY <1>1, <1>3, <2>2, <2>3 DEF TablesType, OwnOK, TitlesOK
  <2>5. next \in Stage \ {"new"} /\ (job[t].kind = "delete" <=> next = "commit")
    BY DEF Stage, Table
  <2>6. job[t].kind = "update" => next = "recipe_ingredient"
    OBVIOUS
  <2> HIDE DEF next, new
  <2>7. SessionsType' /\ OtherSessions(t) /\ at'[t] = next /\ title'[t] = new
    BY <2>1, <2>3, <2>4, <2>5 DEF SessionsType, OtherSessions
  <2>8. OnItsPath(t)'
    BY <2>1, <2>2, <2>5, <2>6, <2>7 DEF OnItsPath, Path
  <2>9. HeldRecipe(t)'
    BY <1>3, <2>1, <2>2, <2>7 DEF HeldRecipe, Holds
  <2>10. DeletesOK(t)'
    <3>1. sees[t] = <<>>
      BY <1>1, <2>3 DEF OwnOK, DeletesOK
    <3>2. deleted[t] = {}
      BY <1>1, <2>3 DEF OwnOK, DeletesOK
    <3>3. CASE job[t].kind = "delete"
      BY <2>1, <2>5, <2>7, <3>3 DEF DeletesOK, Table
    <3>4. CASE job[t].kind = "update"
      BY <2>1, <2>6, <2>7, <3>1, <3>2, <3>4 DEF DeletesOK, Table, Emptied, Stored
    <3>5. QED
      BY <2>2, <3>3, <3>4
  <2>11. InsertsOK(t)'
    BY <1>1, <2>1, <2>2, <2>3, <2>5, <2>6, <2>7 DEF OwnOK, InsertsOK, Saves, Table
  <2>12. TitlesOK(t)'
    BY <2>1, <2>2, <2>4, <2>5, <2>6, <2>7 DEF TitlesOK, Table
  <2>13. \A r \in Recipe : Holds(t, r)' => \A u \in Transaction \ {t} : ~Holds(u, r)
    BY <1>1, <2>1 DEF Holds, Free
  <2>14. QED
    BY <1>1, <2>1, <2>7, <2>8, <2>9, <2>10, <2>11, <2>12, <2>13, QuietStep DEF OwnOK
<1>4. QED
  BY <1>2, <1>3

\* One transaction goes on and keeps the lock it has.
LEMMA HeldOn ==
  ASSUME StoreInv, NEW t \in Transaction, NEW r \in Recipe, Holds(t, r)
  PROVE  \A u \in Transaction \ {t} : ~Holds(u, r)
  BY DEF StoreInv, OneHolder

LEMMA StartDeleteStep ==
  ASSUME StoreInv, NEW t \in Transaction, StartDelete(t)
  PROVE  StoreInv'
<1> DEFINE found == {r \in children : r.recipe = job[t].recipe /\ r.table = at[t]}
<1>1. /\ at[t] \in Table /\ sees' = [sees EXCEPT ![t] = <<found>>]
      /\ UNCHANGED <<recipe, children, at, job, known, title, deleted, inserted, links, lastSave,
                     overtaken>>
  BY DEF StartDelete, tables
<1>2. SessionsType /\ TablesType /\ OwnOK(t)
  BY DEF StoreInv, StoreTypeOK
<1>3. found = Stored(job[t].recipe, {at[t]}) /\ <<found>> \in Seq(SUBSET Row)
  BY <1>2 DEF Stored, TablesType
<1> HIDE DEF found
<1>4. SessionsType' /\ OtherSessions(t) /\ sees'[t] = <<found>>
  BY <1>1, <1>2, <1>3 DEF SessionsType, OtherSessions
<1>5. OnItsPath(t)' /\ HeldRecipe(t)' /\ InsertsOK(t)' /\ TitlesOK(t)'
  BY <1>1, <1>2 DEF OwnOK, OnItsPath, HeldRecipe, InsertsOK, TitlesOK, Holds, Saves
<1>6. DeletesOK(t)'
  BY <1>1, <1>2, <1>3, <1>4 DEF OwnOK, DeletesOK, Stored, Emptied, Table
<1>7. \A r \in Recipe : Holds(t, r)' => Holds(t, r)
  BY <1>1 DEF Holds
<1>8. at[t] # "ended"
  BY <1>1 DEF Table
<1>9. QED
  BY <1>1, <1>4, <1>5, <1>6, <1>7, <1>8, HeldOn, QuietStep DEF OwnOK

LEMMA EndDeleteStep ==
  ASSUME StoreInv, NEW t \in Transaction, EndDelete(t)
  PROVE  StoreInv'
<1> DEFINE next == NextTable(at[t])
           gone == deleted[t] \cup (sees[t][1] \cap children)
<1>1. /\ at[t] \in Table /\ sees[t] # <<>>
      /\ deleted' = [deleted EXCEPT ![t] = gone]
      /\ sees' = [sees EXCEPT ![t] = <<>>] /\ at' = [at EXCEPT ![t] = next]
      /\ UNCHANGED <<recipe, children, job, known, title, inserted, links, lastSave, overtaken>>
  BY DEF EndDelete, Goto, tables
<1>2. SessionsType /\ TablesType /\ OwnOK(t)
  BY DEF StoreInv, StoreTypeOK
<1>3. /\ at[t] # "new" /\ job[t] \in Jobs /\ job[t].recipe \in Recipe /\ job[t].kind = "update"
  <2>1. at[t] # "new"
    BY <1>1 DEF Table
  <2>2. QED
    BY <1>1, <2>1, KindFacts DEF Table, Path
<1>4. /\ sees[t] = <<Stored(job[t].recipe, {at[t]})>>
      /\ deleted[t] = Stored(job[t].recipe, Emptied(t))
  BY <1>1, <1>2, <1>3 DEF OwnOK, DeletesOK
<1>5. next \in {"recipe_step", "recipe_tag", "insert"} /\ next \in Stage
  BY DEF NextTable, Stage, Table
<1>6. gone = Stored(job[t].recipe, Emptied(t) \cup {at[t]}) /\ gone \subseteq Row
  BY <1>2, <1>4 DEF Stored, TablesType
<1>8. next = "recipe_step" => Emptied(t) \cup {at[t]} = {"recipe_ingredient"}
  BY <1>1 DEF NextTable, Emptied, Table
<1>9. next = "recipe_tag" => Emptied(t) \cup {at[t]} = {"recipe_ingredient", "recipe_step"}
  BY <1>1 DEF NextTable, Emptied, Table
<1>10. next = "insert" => Emptied(t) \cup {at[t]} = Table
  BY <1>1 DEF NextTable, Emptied, Table
<1> HIDE DEF next, gone
<1>11. SessionsType'
  <2>1. <<>> \in Seq(SUBSET Row)
    BY EmptySeq
  <2>2. QED
    BY <1>1, <1>2, <1>5, <1>6, <2>1 DEF SessionsType
<1>12. /\ OtherSessions(t) /\ at'[t] = next /\ deleted'[t] = gone /\ sees'[t] = <<>>
  BY <1>1, <1>2 DEF SessionsType, OtherSessions
<1>13. OnItsPath(t)' /\ HeldRecipe(t)'
  BY <1>1, <1>2, <1>3, <1>5, <1>12
  DEF OwnOK, OnItsPath, HeldRecipe, Holds, Path, Table
<1>14. DeletesOK(t)'
  <2>1. gone = Stored(job[t].recipe, Emptied(t)')
    BY <1>5, <1>6, <1>8, <1>9, <1>10, <1>12 DEF Emptied
  <2>2. QED
    BY <1>1, <1>3, <1>5, <1>12, <2>1 DEF DeletesOK, Stored, Table
<1>15. InsertsOK(t)' /\ TitlesOK(t)'
  BY <1>1, <1>2, <1>3, <1>5, <1>12 DEF OwnOK, InsertsOK, TitlesOK, Saves, Table
<1>16. \A r \in Recipe : Holds(t, r)' => Holds(t, r)
  BY <1>1, <1>3 DEF Holds, Table
<1>17. at[t] # "ended"
  BY <1>1 DEF Table
<1>18. QED
  BY <1>1, <1>11, <1>12, <1>13, <1>14, <1>15, <1>16, <1>17, HeldOn, QuietStep DEF OwnOK

LEMMA InsertStep ==
  ASSUME StoreInv, NEW t \in Transaction, InsertRows(t)
  PROVE  StoreInv'
<1> DEFINE rows == {r \in RowsOf(job[t].recipe, t) : r.table # "recipe_tag"}
           new == IF job[t].kind = "create" THEN job[t].title ELSE title[t]
<1>1. SessionsType /\ TablesType /\ OwnOK(t)
  BY DEF StoreInv, StoreTypeOK
<1>2. /\ at[t] = "insert"
      /\ inserted' = [inserted EXCEPT ![t] = rows] /\ title' = [title EXCEPT ![t] = new]
      /\ at' = [at EXCEPT ![t] = "find"]
      /\ UNCHANGED <<recipe, children, job, known, sees, deleted, links, lastSave, overtaken>>
  BY <1>1 DEF InsertRows, Goto, tables, SessionsType
<1>3. /\ job[t] \in Jobs /\ job[t].recipe \in Recipe /\ job[t].kind \in {"create", "update"}
      /\ job[t].title \in Title /\ job[t].tags \in Seq(TagName)
  BY <1>2, KindFacts DEF Path
<1>4. rows \subseteq Row /\ new \in Title \cup {Nothing}
  BY <1>1, <1>3 DEF RowsOf, Row, SessionsType
<1>5. rows = {c \in RowsOf(job[t].recipe, t) : c.table = "recipe_tag" => links[t] # job[t].tags}
  BY <1>1, <1>2, <1>3 DEF OwnOK, InsertsOK, Saves
<1>6. job[t].kind = "create" => new = job[t].title
  OBVIOUS
<1>7. job[t].kind = "update" => new = title[t]
  OBVIOUS
<1> HIDE DEF rows, new
<1>8. SessionsType'
  BY <1>1, <1>2, <1>4 DEF SessionsType, Stage
<1>9. OtherSessions(t) /\ at'[t] = "find" /\ inserted'[t] = rows /\ title'[t] = new
  BY <1>1, <1>2 DEF SessionsType, OtherSessions
<1>10. OnItsPath(t)' /\ HeldRecipe(t)'
  BY <1>1, <1>2, <1>3, <1>9
  DEF OwnOK, OnItsPath, HeldRecipe, Holds, Path, Stage, Table
<1>11. DeletesOK(t)'
  BY <1>1, <1>2, <1>3, <1>9 DEF OwnOK, DeletesOK, Emptied, Stored, Table
<1>12. links[t] = job[t].tags /\ Len(job[t].tags) \in Nat
  BY <1>1, <1>2, <1>3 DEF OwnOK, InsertsOK, Saves
<1>13. InsertsOK(t)'
  BY <1>2, <1>3, <1>5, <1>9, <1>12 DEF InsertsOK, RowsOf
<1>14. TitlesOK(t)'
  BY <1>1, <1>2, <1>3, <1>6, <1>7, <1>9 DEF OwnOK, TitlesOK, Table
<1>15. \A r \in Recipe : Holds(t, r)' => Holds(t, r)
  BY <1>2 DEF Holds
<1>16. QED
  BY <1>2, <1>8, <1>9, <1>10, <1>11, <1>13, <1>14, <1>15, HeldOn, QuietStep DEF OwnOK

\* A tag that is found or created is linked to the recipe.
LEMMA LinkStep ==
  ASSUME StoreInv, NEW t \in Transaction, at[t] \in {"find", "create"}, links[t] # <<>>,
         links' = [links EXCEPT ![t] = Tail(@)], Linked(t), at' = [at EXCEPT ![t] = "find"],
         UNCHANGED <<recipe, children, job, known, title, sees, deleted, lastSave, overtaken>>
  PROVE  StoreInv'
<1> DEFINE rows == IF Saves(t)
                   THEN inserted[t] \cup {[recipe |-> job[t].recipe, table |-> "recipe_tag",
                                           by |-> t]}
                   ELSE inserted[t]
           todo == Tail(links[t])
<1>1. SessionsType /\ TablesType /\ OwnOK(t)
  BY DEF StoreInv, StoreTypeOK
<1>2. inserted' = [inserted EXCEPT ![t] = rows] /\ links' = [links EXCEPT ![t] = todo]
  BY <1>1 DEF Linked, SessionsType
<1>3. /\ job[t] \in Jobs /\ job[t].recipe \in Recipe /\ job[t].tags \in Seq(TagName)
      /\ job[t].kind \in {"create", "update", "tag"}
  BY KindFacts DEF Path
<1>4. rows \subseteq Row
  BY <1>1, <1>3 DEF Row, SessionsType, Table
<1>5. links[t] \in Seq(TagName)
  BY <1>1 DEF SessionsType
<1>6. todo \in Seq(TagName) /\ Len(todo) = Len(links[t]) - 1 /\ Len(links[t]) \in Nat
  BY <1>5
<1>7. Saves(t) => /\ Len(todo) < Len(job[t].tags) /\ todo # job[t].tags
                  /\ rows = {c \in RowsOf(job[t].recipe, t) :
                                c.table = "recipe_tag" => todo # job[t].tags}
  <2> SUFFICES ASSUME Saves(t)
               PROVE  /\ Len(todo) < Len(job[t].tags) /\ todo # job[t].tags
                      /\ rows = {c \in RowsOf(job[t].recipe, t) :
                                    c.table = "recipe_tag" => todo # job[t].tags}
    OBVIOUS
  <2>1. /\ Len(links[t]) <= Len(job[t].tags)
        /\ inserted[t] = {c \in RowsOf(job[t].recipe, t) :
                             c.table = "recipe_tag" => links[t] # job[t].tags}
    BY <1>1 DEF OwnOK, InsertsOK
  <2>2. Len(job[t].tags) \in Nat
    BY <1>3
  <2> HIDE DEF todo
  <2>3. Len(todo) < Len(job[t].tags) /\ todo # job[t].tags
    BY <1>6, <2>1, <2>2
  <2>4. rows = RowsOf(job[t].recipe, t)
    <3> DEFINE all == RowsOf(job[t].recipe, t)
    <3>1. /\ TagRow(t) \in all
          /\ \A c \in all : c.table = "recipe_tag" => c = TagRow(t)
      BY DEF RowsOf, Table, TagRow
    <3>2. rows = inserted[t] \cup {TagRow(t)}
      BY DEF TagRow
    <3> HIDE DEF all, rows
    <3>3. inserted[t] \subseteq all
      BY <2>1 DEF all
    <3>4. \A c \in all : c \in inserted[t] \/ c = TagRow(t)
      BY <2>1, <3>1 DEF all
    <3>5. rows = all
      BY <3>1, <3>2, <3>3, <3>4
    <3>6. QED
      BY <3>5 DEF all
  <2>5. QED
    BY <2>3, <2>4
<1> HIDE DEF rows, todo
<1>8. SessionsType'
  BY <1>1, <1>2, <1>4, <1>6 DEF SessionsType, Stage
<1>9. OtherSessions(t) /\ at'[t] = "find" /\ inserted'[t] = rows /\ links'[t] = todo
  BY <1>1, <1>2 DEF SessionsType, OtherSessions
<1>10. OnItsPath(t)' /\ HeldRecipe(t)'
  BY <1>1, <1>3, <1>9 DEF OwnOK, OnItsPath, HeldRecipe, Holds, Path, Stage, Table
<1>11. DeletesOK(t)'
  BY <1>1, <1>9 DEF OwnOK, DeletesOK, Emptied, Stored, Table
<1>12. InsertsOK(t)'
  <2>1. Saves(t)' <=> Saves(t)
    BY DEF Saves
  <2>2. Saves(t) => Len(todo) <= Len(job[t].tags)
    BY <1>3, <1>6, <1>7
  <2>3. QED
    BY <1>7, <1>9, <2>1, <2>2 DEF InsertsOK, Table, RowsOf
<1>13. TitlesOK(t)'
  BY <1>1, <1>9 DEF OwnOK, TitlesOK, Table
<1>14. \A r \in Recipe : Holds(t, r)' => Holds(t, r)
  BY <1>9 DEF Holds
<1>15. QED
  BY <1>8, <1>9, <1>10, <1>11, <1>12, <1>13, <1>14, HeldOn, QuietStep DEF OwnOK

LEMMA FindStep ==
  ASSUME StoreInv, NEW t \in Transaction, FindTag(t)
  PROVE  StoreInv'
<1>1. SessionsType /\ TablesType /\ OwnOK(t)
  BY DEF StoreInv, StoreTypeOK
<1>2. /\ at[t] = "find"
      /\ UNCHANGED <<recipe, children, job, known, title, sees, deleted, lastSave, overtaken>>
  BY DEF FindTag, tables
<1>3. CASE links[t] # <<>> /\ Head(links[t]) \in tag
  <2>1. links' = [links EXCEPT ![t] = Tail(@)] /\ Linked(t) /\ at' = at
    BY <1>3 DEF FindTag
  <2>2. at' = [at EXCEPT ![t] = "find"]
    BY <1>1, <1>2, <2>1 DEF SessionsType
  <2>3. QED
    BY <1>2, <1>3, <2>1, <2>2, LinkStep
<1>4. CASE links[t] = <<>> \/ Head(links[t]) \notin tag
  <2> DEFINE next == IF links[t] = <<>> THEN "commit" ELSE "create"
  <2>1. at' = [at EXCEPT ![t] = next] /\ inserted' = inserted /\ links' = links
    BY <1>4 DEF FindTag, Goto
  <2>2. next \in Stage /\ next \in {"commit", "create"} /\ (next = "commit" <=> links[t] = <<>>)
    BY DEF Stage
  <2> HIDE DEF next
  <2>3. SessionsType' /\ OtherSessions(t) /\ at'[t] = next
    BY <1>1, <1>2, <2>1, <2>2 DEF SessionsType, OtherSessions
  <2>4. job[t].kind \in {"create", "update", "tag"} /\ job[t] \in Jobs
    BY <1>2, KindFacts DEF Path
  <2>5. OnItsPath(t)' /\ HeldRecipe(t)'
    BY <1>1, <1>2, <2>1, <2>2, <2>3, <2>4
    DEF OwnOK, OnItsPath, HeldRecipe, Holds, Path, Stage, Table
  <2>6. DeletesOK(t)'
    BY <1>1, <1>2, <2>2, <2>3 DEF OwnOK, DeletesOK, Emptied, Stored, Table
  <2>7. InsertsOK(t)'
    BY <1>1, <1>2, <2>1, <2>2, <2>3 DEF OwnOK, InsertsOK, Table, Saves
  <2>8. TitlesOK(t)'
    BY <1>1, <1>2, <2>2, <2>3 DEF OwnOK, TitlesOK, Table
  <2>9. \A r \in Recipe : Holds(t, r)' => Holds(t, r)
    BY <1>2, <2>3 DEF Holds
  <2>10. QED
    BY <1>2, <2>1, <2>3, <2>5, <2>6, <2>7, <2>8, <2>9, HeldOn, QuietStep DEF OwnOK
<1>5. QED
  BY <1>3, <1>4

LEMMA CreateStep ==
  ASSUME StoreInv, NEW t \in Transaction, CreateTag(t)
  PROVE  StoreInv'
<1>1. at[t] = "create"
  BY DEF CreateTag
<1>2. CASE Head(links[t]) \in tag
  BY <1>1, <1>2, FailStep DEF CreateTag
<1>3. CASE Head(links[t]) \notin tag
  <2>1. links[t] # <<>>
    BY <1>1 DEF StoreInv, OwnOK, InsertsOK
  <2>2. /\ links' = [links EXCEPT ![t] = Tail(@)] /\ Linked(t) /\ at' = [at EXCEPT ![t] = "find"]
        /\ UNCHANGED <<recipe, children, job, known, title, sees, deleted, lastSave, overtaken>>
    BY <1>3 DEF CreateTag, Goto, tables
  <2>3. QED
    BY <1>1, <2>1, <2>2, LinkStep
<1>4. QED
  BY <1>2, <1>3
\* What is committed to one recipe, by the transaction that holds it, is nothing to the others but
\* to those that have loaded it and wait to write it.
LEMMA CommitLeavesOthers ==
  ASSUME StoreInv, NEW t \in Transaction, NEW r \in Recipe, Holds(t, r), OtherSessions(t),
         \A x \in Recipe \ {r} : recipe'[x] = recipe[x],
         \A c \in Row : c.recipe # r => (c \in children' <=> c \in children),
         children' \subseteq Row,
         overtaken \subseteq overtaken',
         NEW u \in Transaction \ {t},
         at[u] = "write" /\ job[u].recipe = r => recipe'[r] = Nothing \/ u \in overtaken'
  PROVE  OwnOK(u)'
<1>1. OwnOK(u) /\ TablesType
  BY DEF StoreInv, StoreTypeOK
<1>2. ~Holds(u, r)
  BY HeldOn
<1>3. /\ at'[u] = at[u] /\ job'[u] = job[u] /\ known'[u] = known[u] /\ title'[u] = title[u]
      /\ sees'[u] = sees[u] /\ deleted'[u] = deleted[u] /\ inserted'[u] = inserted[u]
      /\ links'[u] = links[u]
  BY DEF OtherSessions
<1>4. at[u] # "new" => job[u].recipe \in Recipe /\ at[u] \in Path(job[u].kind)
  BY KindFacts
<1>5. at[u] \in Table \cup {"insert", "find", "create", "commit"} /\ job[u].kind \in {"create", "update"}
      => job[u].recipe \in Recipe \ {r}
  BY <1>2, <1>4 DEF Holds, Table
<1>6. ASSUME job[u].recipe \in Recipe \ {r}, NEW where
      PROVE  Stored(job[u].recipe, where)' = Stored(job[u].recipe, where)
  BY <1>1, <1>3, <1>6 DEF Stored, TablesType
<1>7. OnItsPath(u)'
  BY <1>1, <1>3 DEF OwnOK, OnItsPath
<1>8. HeldRecipe(u)'
  <2> SUFFICES ASSUME NEW x \in Recipe, Holds(u, x)
               PROVE  job'[u].kind = "create" <=> recipe'[x] = Nothing
    BY <1>3 DEF HeldRecipe, Holds
  <2>1. x # r
    BY <1>2
  <2>2. QED
    BY <1>1, <1>3, <2>1 DEF OwnOK, HeldRecipe
<1>9. DeletesOK(u)'
  <2>1. Emptied(u)' = Emptied(u)
    BY <1>3 DEF Emptied
  <2>2. ASSUME at[u] \in Table, sees[u] # <<>>
        PROVE  sees[u] = <<Stored(job[u].recipe, {at[u]})'>>
    <3>1. job[u].kind = "update"
      BY <1>4, <2>2 DEF Table, Path
    <3>2. QED
      BY <1>1, <1>3, <1>5, <1>6, <2>2, <3>1 DEF OwnOK, DeletesOK
  <2>3. ASSUME at[u] \in Table \cup {"insert", "find", "create", "commit"}, job[u].kind = "update"
        PROVE  deleted[u] = Stored(job[u].recipe, Emptied(u))'
    BY <1>1, <1>3, <1>5, <1>6, <2>1, <2>3 DEF OwnOK, DeletesOK
  <2>4. QED
    BY <1>1, <1>3, <2>2, <2>3 DEF OwnOK, DeletesOK
<1>10. InsertsOK(u)'
  BY <1>1, <1>3 DEF OwnOK, InsertsOK, Saves
<1>11. TitlesOK(u)'
  <2>1. ASSUME at[u] = "write", u \notin overtaken'
        PROVE  recipe'[job[u].recipe] \in {known[u], Nothing}
    <3>1. CASE job[u].recipe = r
      BY <2>1, <3>1
    <3>2. CASE job[u].recipe # r
      BY <1>1, <1>4, <2>1, <3>2 DEF OwnOK, TitlesOK
    <3>3. QED
      BY <3>1, <3>2
  <2>2. QED
    BY <1>1, <1>3, <2>1 DEF OwnOK, TitlesOK
<1>12. QED
  BY <1>7, <1>8, <1>9, <1>10, <1>11 DEF OwnOK

LEMMA CommitStep ==
  ASSUME StoreInv, NEW t \in Transaction, Commit(t)
  PROVE  StoreInv'
<1> DEFINE r == job[t].recipe
<1>1. /\ at[t] = "commit" /\ at' = [at EXCEPT ![t] = "ended"]
      /\ UNCHANGED <<job, known, title, sees, deleted, inserted, links>>
  BY DEF Commit, Goto, session
<1>2. SessionsType' /\ OtherSessions(t) /\ at'[t] = "ended" /\ OwnOK(t)'
  BY <1>1, Ended
<1>3. /\ job[t] \in Jobs /\ r \in Recipe /\ job[t].title \in Title /\ job[t].tags \in Seq(TagName)
      /\ job[t].kind \in {"create", "update", "delete", "tag"}
  BY <1>1, KindFacts
<1>4. SessionsType /\ TablesType /\ OwnOK(t) /\ StoredRecipeIsOneSave
  BY DEF StoreInv, StoreTypeOK
<1>5. \A x \in Recipe : ~Holds(t, x)'
  BY <1>2 DEF Holds
<1>6. CASE job[t].kind = "tag"
  <2>1. UNCHANGED <<recipe, children, lastSave, overtaken>>
    BY <1>6 DEF Commit
  <2>2. QED
    BY <1>1, <1>2, <1>5, <2>1, QuietStep
<1>7. CASE job[t].kind # "tag"
  <2>1. Holds(t, r)
    BY <1>1, <1>7 DEF Holds
  <2>2. OneHolder'
    <3>1. \A u \in Transaction \ {t}, x \in Recipe : Holds(u, x)' <=> Holds(u, x)
      BY <1>2 DEF Holds, OtherSessions
    <3>2. QED
      BY <1>5, <3>1 DEF OneHolder, StoreInv
  <2>3. ASSUME NEW x \in Recipe, lastSave[x] # First
        PROVE  lastSave[x] \in Transaction \ {t} /\ at'[lastSave[x]] = "ended"
    BY <1>1, <1>2, <1>4, <2>3 DEF StoreInv, LastSaveOK, TablesType, OtherSessions
  <2>4. CASE job[t].kind = "delete"
    <3>1. /\ recipe' = [recipe EXCEPT ![r] = Nothing]
          /\ children' = {c \in children : c.recipe # r}
          /\ UNCHANGED <<lastSave, overtaken>>
      BY <2>4, Zenon DEF Commit
    <3> HIDE DEF r
    <3>2. recipe'[r] = Nothing /\ \A x \in Recipe \ {r} : recipe'[x] = recipe[x]
      BY <1>3, <1>4, <3>1 DEF TablesType
    <3>3. TablesType'
      BY <1>4, <3>1 DEF TablesType
    <3>4. \A c \in Row : c.recipe # r => (c \in children' <=> c \in children)
      BY <3>1
    <3>5. \A u \in Transaction \ {t} : OwnOK(u)'
      BY <1>2, <1>3, <2>1, <3>1, <3>2, <3>3, <3>4, CommitLeavesOthers DEF TablesType
    <3>6. \A x \in Recipe : LastSaveOK(x)'
      BY <2>3, <3>1 DEF LastSaveOK
    <3>7. StoredRecipeIsOneSave'
      <4> SUFFICES ASSUME NEW x \in Recipe
                   PROVE  LET rows == {c \in children' : c.recipe = x}
                              by == lastSave[x]
                          IN  IF recipe'[x] = Nothing THEN rows = {}
                              ELSE IF by = First THEN rows = RowsOf(x, First)
                              ELSE /\ rows = {c \in RowsOf(x, by) :
                                                 c.table = "recipe_tag" => Tagged(job[by])}
                                   /\ by \notin overtaken => recipe'[x] = job[by].title
        BY <1>1, <3>1 DEF StoredRecipeIsOneSave, RowsOf, Tagged
      <4>1. CASE x = r
        BY <3>1, <3>2, <4>1
      <4>2. CASE x # r
        <5>1. {c \in children' : c.recipe = x} = {c \in children : c.recipe = x}
          BY <3>1, <4>2
        <5>2. QED
          BY <1>4, <3>2, <4>2, <5>1 DEF StoredRecipeIsOneSave
      <4>3. QED
        BY <4>1, <4>2
    <3>8. QED
      BY <1>2, <2>2, <3>3, <3>5, <3>6, <3>7 DEF StoreInv, StoreTypeOK
  <2>5. CASE job[t].kind \in {"create", "update"}
    <3>1. /\ recipe' = [recipe EXCEPT ![r] = title[t]]
          /\ children' = (children \ deleted[t]) \cup inserted[t]
          /\ lastSave' = [lastSave EXCEPT ![r] = t]
          /\ overtaken' = overtaken \cup
                {u \in Transaction \ {t} :
                       at[u] \notin {"new", "load", "ended"} /\ job[u].recipe = r}
      BY <2>5 DEF Commit
    <3>2. title[t] \in Title /\ (t \notin overtaken => title[t] = job[t].title)
      BY <1>1, <1>3, <1>4, <2>5 DEF OwnOK, TitlesOK
    <3>3. deleted[t] = Stored(r, Table)
      <4>1. CASE job[t].kind = "update"
        BY <1>1, <1>4, <4>1 DEF OwnOK, DeletesOK, Emptied, Table
      <4>2. CASE job[t].kind = "create"
        <5>1. deleted[t] = {} /\ recipe[r] = Nothing
          BY <1>1, <1>3, <1>4, <2>1, <4>2 DEF OwnOK, DeletesOK, HeldRecipe
        <5>2. {c \in children : c.recipe = r} = {}
          BY <1>3, <1>4, <5>1 DEF StoredRecipeIsOneSave
        <5>3. QED
          BY <5>1, <5>2 DEF Stored
      <4>3. QED
        BY <2>5, <4>1, <4>2
    <3>4. inserted[t] = {c \in RowsOf(r, t) : c.table = "recipe_tag" => Tagged(job[t])}
      <4>1. /\ links[t] = <<>>
            /\ inserted[t] = {c \in RowsOf(r, t) : c.table = "recipe_tag" => links[t] # job[t].tags}
        BY <1>1, <1>4, <2>5 DEF OwnOK, InsertsOK, Saves
      <4>2. QED
        BY <4>1 DEF Tagged
    <3> HIDE DEF r
    <3>5. children \subseteq Row /\ \A c \in inserted[t] : c \in Row /\ c.recipe = r
      BY <1>3, <1>4, <3>4 DEF TablesType, SessionsType, RowsOf
    <3>6. recipe'[r] = title[t] /\ \A x \in Recipe \ {r} : recipe'[x] = recipe[x]
      BY <1>3, <1>4, <3>1 DEF TablesType
    <3>7. lastSave'[r] = t /\ \A x \in Recipe \ {r} : lastSave'[x] = lastSave[x]
      BY <1>3, <1>4, <3>1 DEF TablesType
    <3>8. TablesType'
      <4>1. children' \subseteq Row
        BY <3>1, <3>5
      <4>2. QED
        BY <1>3, <1>4, <3>1, <3>2, <4>1 DEF TablesType
    <3>9. {c \in children' : c.recipe = r} = inserted[t]
      BY <3>1, <3>3, <3>5 DEF Stored, Row
    <3>10. \A c \in Row : c.recipe # r => (c \in children' <=> c \in children)
      BY <3>1, <3>3, <3>5 DEF Stored
    <3>11. overtaken \subseteq overtaken' /\ (t \notin overtaken' <=> t \notin overtaken)
      BY <3>1
    <3>12. ASSUME NEW u \in Transaction \ {t}, at[u] = "write", job[u].recipe = r
           PROVE  u \in overtaken'
      BY <3>1, <3>12
    <3>13. \A u \in Transaction \ {t} : OwnOK(u)'
      BY <1>2, <1>3, <2>1, <3>6, <3>8, <3>10, <3>11, <3>12, CommitLeavesOthers DEF TablesType
    <3>14. \A x \in Recipe : LastSaveOK(x)'
      BY <1>2, <2>3, <3>7 DEF LastSaveOK
    <3>15. StoredRecipeIsOneSave'
      <4> SUFFICES ASSUME NEW x \in Recipe
                   PROVE  LET rows == {c \in children' : c.recipe = x}
                              by == lastSave'[x]
                          IN  IF recipe'[x] = Nothing THEN rows = {}
                              ELSE IF by = First THEN rows = RowsOf(x, First)
                              ELSE /\ rows = {c \in RowsOf(x, by) :
                                                 c.table = "recipe_tag" => Tagged(job[by])}
                                   /\ by \notin overtaken' => recipe'[x] = job[by].title
        BY <1>1 DEF StoredRecipeIsOneSave, RowsOf, Tagged
      <4>1. CASE x = r
        BY <3>2, <3>4, <3>6, <3>7, <3>9, <3>11, <4>1, StoreAssumption
      <4>2. CASE x # r
        <5>1. {c \in children' : c.recipe = x} = {c \in children : c.recipe = x}
          BY <3>5, <3>8, <3>10, <4>2 DEF TablesType
        <5>2. QED
          BY <1>4, <3>6, <3>7, <3>11, <4>2, <5>1 DEF StoredRecipeIsOneSave
      <4>3. QED
        BY <4>1, <4>2
    <3>16. QED
      BY <1>2, <2>2, <3>8, <3>13, <3>14, <3>15 DEF StoreInv, StoreTypeOK
  <2>6. QED
    BY <1>3, <1>7, <2>4, <2>5
<1>8. QED
  BY <1>6, <1>7

\* The inductive invariant of the recipes in the database: the lock on the row of a recipe admits
\* one transaction, which deletes what is stored of the recipe and inserts what its request says.
THEOREM StoreInvariance == StoreSpec => []StoreInv
<1>1. StoreInv /\ [StoreNext]_storeVars => StoreInv'
  <2> SUFFICES ASSUME StoreInv, [StoreNext]_storeVars PROVE StoreInv'
    OBVIOUS
  <2>1. CASE UNCHANGED storeVars
    BY <2>1
    DEF storeVars, tables, session, StoreInv, StoreTypeOK, TablesType, SessionsType, OneHolder,
        OwnOK, OnItsPath, HeldRecipe, DeletesOK, InsertsOK, TitlesOK, LastSaveOK, Holds, Stored,
        Emptied, Saves, StoredRecipeIsOneSave
  <2>2. CASE StoreNext
    <3>1. PICK t \in Transaction :
            \/ \E j \in Jobs : Begin(t, j)
            \/ Load(t) \/ WriteRecipe(t)
            \/ StartDelete(t) \/ EndDelete(t) \/ InsertRows(t)
            \/ FindTag(t) \/ CreateTag(t) \/ Deadlock(t)
            \/ Commit(t) \/ Die(t)
      BY <2>2 DEF StoreNext
    <3>2. CASE Deadlock(t) \/ Die(t)
      <4>1. at[t] \notin {"new", "ended"} /\ Fail(t)
        BY <3>2 DEF Deadlock, WaitsFor, Die, Active
      <4>2. QED
        BY <4>1, FailStep
    <3>3. QED
      BY <3>1, <3>2, BeginStep, LoadStep, WriteStep, StartDeleteStep, EndDeleteStep, InsertStep,
         FindStep, CreateStep, CommitStep
  <2>3. QED
    BY <2>1, <2>2
<1>2. QED
  BY <1>1, StoreStart, PTL DEF StoreSpec

\* For any requests that overlap, a recipe that exists has the ingredients, steps and tags of its
\* last save and no other, and its columns unless another save overtook that one
\* (RecipeService.update, create, delete and TagService.find_or_create).
THEOREM OneSave == StoreSpec => []StoredRecipeIsOneSave
<1>1. StoreInv => StoredRecipeIsOneSave
  BY DEF StoreInv
<1>2. QED
  BY <1>1, StoreInvariance, PTL

-----------------------------------------------------------------------------
(***************************************************************************)
(* The wake lock of a cook page.                                           *)
(***************************************************************************)
Request == [id : Nat \ {0}, cancelled : BOOLEAN]

WakeTypeOK ==
    /\ awake \in BOOLEAN /\ visible \in BOOLEAN /\ denied \in BOOLEAN /\ crowded \in BOOLEAN
    /\ asking \subseteq Request /\ last \in Nat /\ locks \subseteq Nat /\ sentinel \in Nat

\* The request a page is waiting for.
Open(q) == q \in asking /\ ~q.cancelled

\* Without overlaps the page has one request or one lock, and the ref knows the lock.
OneOK ==
    /\ \A p, q : Open(p) /\ Open(q) => p = q
    /\ \A q : Open(q) => locks = {}
    /\ locks \subseteq {sentinel}

\* A page that is gone waits for nothing and holds nothing.
GoneOK == ~awake => (\A q : ~Open(q)) /\ (~crowded => locks = {})

\* While the page is on the screen it has the lock, or waits for it.
HeldOK == awake /\ visible /\ ~denied => sentinel \in locks \/ \E q : Open(q)

WakeInv ==
    /\ WakeTypeOK /\ GoneOK /\ HeldOK
    /\ ~crowded => OneOK
    /\ ~visible => locks = {}

LEMMA WakeStart == WakeInit => WakeInv
<1> SUFFICES ASSUME WakeInit PROVE WakeInv
  OBVIOUS
<1>1. WakeTypeOK /\ \A q : ~Open(q)
  BY DEF WakeInit, WakeTypeOK, Open
<1>2. ~awake /\ visible /\ locks = {}
  BY DEF WakeInit
<1>3. GoneOK /\ HeldOK /\ OneOK
  BY <1>1, <1>2 DEF GoneOK, HeldOK, OneOK
<1>4. QED
  BY <1>1, <1>2, <1>3 DEF WakeInv

\* A new request.
LEMMA AcquireFacts ==
  ASSUME WakeTypeOK, Acquire
  PROVE  /\ last' \in Nat /\ asking' \subseteq Request /\ denied' = FALSE /\ crowded' \in BOOLEAN
         /\ \E p : Open(p)' /\ \A q : Open(q)' <=> Open(q) \/ q = p
         /\ ~crowded' => ~crowded /\ \A q : ~Open(q)
<1>0. PICK p : p = [id |-> last + 1, cancelled |-> FALSE]
  OBVIOUS
<1>1. /\ last' = last + 1 /\ asking' = asking \cup {p} /\ denied' = FALSE
      /\ crowded' = (crowded \/ \E q \in asking : ~q.cancelled)
  BY <1>0 DEF Acquire
<1>2. p \in Request /\ ~p.cancelled /\ last' \in Nat
  BY <1>0, <1>1 DEF WakeTypeOK, Request
<1>3. Open(p)' /\ \A q : Open(q)' <=> Open(q) \/ q = p
  <2>1. \A q : q \in asking' <=> q \in asking \/ q = p
    BY <1>1
  <2>2. QED
    BY <1>2, <2>1 DEF Open
<1>4. crowded' <=> crowded \/ \E q \in asking : ~q.cancelled
  BY <1>1
<1>5. crowded' \in BOOLEAN
  BY <1>1 DEF WakeTypeOK
<1>6. ~crowded' => ~crowded /\ \A q : ~Open(q)
  BY <1>4 DEF Open
<1>7. asking' \subseteq Request
  BY <1>1, <1>2 DEF WakeTypeOK
<1>8. \E r : Open(r)' /\ \A q : Open(q)' <=> Open(q) \/ q = r
  BY <1>3
<1>9. QED
  BY <1>1, <1>2, <1>5, <1>6, <1>7, <1>8

\* Entering the page, or showing its tab again, with nothing held.
LEMMA AcquireStep ==
  ASSUME WakeInv, Acquire, UNCHANGED <<locks, sentinel>>, awake', ~crowded => locks = {},
         awake' \in BOOLEAN, visible' \in BOOLEAN, visible' \/ UNCHANGED visible
  PROVE  WakeInv'
<1>1. /\ last' \in Nat /\ asking' \subseteq Request /\ denied' = FALSE /\ crowded' \in BOOLEAN
      /\ ~crowded' => ~crowded /\ \A q : ~Open(q)
  BY AcquireFacts DEF WakeInv
<1>2. PICK p : Open(p)' /\ \A q : Open(q)' <=> Open(q) \/ q = p
  BY AcquireFacts DEF WakeInv
<1>3. ~crowded' => OneOK'
  BY <1>1, <1>2 DEF OneOK
<1>4. HeldOK' /\ GoneOK'
  BY <1>2 DEF HeldOK, GoneOK
<1>5. QED
  BY <1>1, <1>3, <1>4 DEF WakeInv, WakeTypeOK

LEMMA LeaveStep ==
  ASSUME WakeInv, LeaveSteps
  PROVE  WakeInv'
<1>1. /\ awake' = FALSE /\ asking' = {[q EXCEPT !.cancelled = TRUE] : q \in asking}
      /\ locks' = locks \ {sentinel} /\ sentinel' = 0
      /\ UNCHANGED <<visible, last, denied, crowded>>
  BY DEF LeaveSteps
<1>2. asking' \subseteq Request /\ \A q \in asking' : q.cancelled
  BY <1>1 DEF WakeInv, WakeTypeOK, Request
<1>3. \A q : ~Open(q)'
  BY <1>2 DEF Open
<1>4. ~crowded' => locks' = {}
  BY <1>1 DEF WakeInv, OneOK
<1>5. GoneOK' /\ HeldOK' /\ (~crowded' => OneOK')
  BY <1>1, <1>3, <1>4 DEF GoneOK, HeldOK, OneOK
<1>6. QED
  BY <1>1, <1>2, <1>5 DEF WakeInv, WakeTypeOK

LEMMA GrantedStep ==
  ASSUME WakeInv, NEW q \in asking, Granted(q)
  PROVE  WakeInv'
<1>1. /\ visible /\ asking' = asking \ {q} /\ UNCHANGED <<awake, visible, last, denied, crowded>>
      /\ \A p : Open(p)' <=> Open(p) /\ p # q
  BY DEF Granted, Open
<1>2. q \in Request
  BY DEF WakeInv, WakeTypeOK
<1>3. CASE q.cancelled
  <2>1. UNCHANGED <<locks, sentinel>> /\ \A p : Open(p)' <=> Open(p)
    BY <1>1, <1>3 DEF Granted, Open
  <2>2. QED
    BY <1>1, <2>1 DEF WakeInv, WakeTypeOK, GoneOK, HeldOK, OneOK
<1>4. CASE ~q.cancelled
  <2>1. locks' = locks \cup {q.id} /\ sentinel' = q.id /\ Open(q) /\ q.id \in Nat
    BY <1>2, <1>4 DEF Granted, Open, Request
  <2>2. awake
    BY <2>1 DEF WakeInv, GoneOK
  <2>3. ~crowded' => OneOK'
    BY <1>1, <2>1 DEF WakeInv, OneOK
  <2>4. QED
    BY <1>1, <2>1, <2>2, <2>3 DEF WakeInv, WakeTypeOK, GoneOK, HeldOK
<1>5. QED
  BY <1>3, <1>4

LEMMA DeniedStep ==
  ASSUME WakeInv, NEW q \in asking, Denied(q)
  PROVE  WakeInv'
<1>1. /\ asking' = asking \ {q} /\ denied' = (denied \/ visible)
      /\ UNCHANGED <<awake, visible, last, locks, sentinel, crowded>>
      /\ \A p : Open(p)' => Open(p)
  BY DEF Denied, Open
<1>2. denied' \in BOOLEAN
  BY <1>1 DEF WakeInv, WakeTypeOK
<1>3. GoneOK' /\ HeldOK' /\ (~crowded' => OneOK')
  BY <1>1 DEF WakeInv, GoneOK, HeldOK, OneOK
<1>4. QED
  BY <1>1, <1>2, <1>3 DEF WakeInv, WakeTypeOK

\* The browser takes the locks back.
LEMMA TakenStep ==
  ASSUME WakeInv, Hide \/ TakenBack
  PROVE  WakeInv'
<1>1. /\ locks' = {} /\ UNCHANGED <<awake, asking, last, sentinel, crowded>>
      /\ visible' \in BOOLEAN /\ denied' \in BOOLEAN /\ (~visible' \/ denied')
      /\ \A q : Open(q)' <=> Open(q)
  BY DEF Hide, TakenBack, Open, WakeInv, WakeTypeOK
<1>2. GoneOK' /\ HeldOK' /\ (~crowded' => OneOK')
  BY <1>1 DEF WakeInv, GoneOK, HeldOK, OneOK
<1>3. QED
  BY <1>1, <1>2 DEF WakeInv, WakeTypeOK

LEMMA EnterStep ==
  ASSUME WakeInv, EnterSteps
  PROVE  WakeInv'
<1>1. /\ awake' = TRUE /\ Acquire /\ UNCHANGED <<visible, locks, sentinel>>
      /\ ~crowded => locks = {}
  BY DEF EnterSteps, WakeInv, GoneOK
<1>2. QED
  BY <1>1, AcquireStep DEF WakeInv, WakeTypeOK

LEMMA ShowStep ==
  ASSUME WakeInv, Show
  PROVE  WakeInv'
<1>1. ~visible /\ visible' = TRUE /\ locks = {} /\ UNCHANGED <<awake, locks, sentinel>>
  BY DEF Show, WakeInv
<1>2. CASE awake
  <2>1. Acquire
    BY <1>2 DEF Show
  <2>2. QED
    BY <1>1, <1>2, <2>1, AcquireStep DEF WakeInv, WakeTypeOK
<1>3. CASE ~awake
  <2>1. UNCHANGED <<asking, last, denied, crowded>> /\ \A q : Open(q)' <=> Open(q)
    BY <1>3 DEF Show, Open
  <2>2. QED
    BY <1>1, <1>3, <2>1 DEF WakeInv, WakeTypeOK, GoneOK, HeldOK, OneOK
<1>4. QED
  BY <1>2, <1>3

THEOREM WakeInvariance == WakeSpec => []WakeInv
<1>1. WakeInv /\ [WakeNext]_wakeVars => WakeInv'
  <2>1. WakeInv /\ WakeNext => WakeInv'
    BY EnterStep, LeaveStep, TakenStep, ShowStep, GrantedStep, DeniedStep DEF WakeNext
  <2>2. WakeInv /\ UNCHANGED wakeVars => WakeInv'
    BY DEF wakeVars, WakeInv, WakeTypeOK, Open, GoneOK, HeldOK, OneOK
  <2>3. QED
    BY <2>1, <2>2
<1>2. QED
  BY <1>1, WakeStart, PTL DEF WakeSpec

\* No lock is left behind by a page that was left, however late the browser answered.
THEOREM LocksEndWithThePage == WakeSpec => []NoLockOutlivesThePage
<1>1. WakeInv => NoLockOutlivesThePage
  BY DEF WakeInv, GoneOK, NoLockOutlivesThePage
<1>2. QED
  BY <1>1, WakeInvariance, PTL

\* The screen stays on while the steps are looked at, unless the browser has refused.
THEOREM ScreenIsHeldOn == WakeSpec => []ScreenStaysOn
<1>1. WakeInv => ScreenStaysOn
  BY DEF WakeInv, HeldOK, Open, ScreenStaysOn
<1>2. QED
  BY <1>1, WakeInvariance, PTL

-----------------------------------------------------------------------------
(***************************************************************************)
(* The form of a recipe.                                                   *)
(***************************************************************************)
SaveRequest(q) ==
    q = [to |-> q.to, content |-> q.content, origin |-> q.origin, astray |-> q.astray,
         mine |-> q.mine, served |-> q.served]

FormTypeOK ==
    /\ url \in Recipe \cup {New, Nothing}
    /\ loads \subseteq Recipe
    /\ created \in Nat /\ newForms \in Nat /\ lost \in Nat
    /\ saving \in BOOLEAN
    /\ IsFiniteSet(saves) /\ \A q \in saves : SaveRequest(q)

\* The form that is shown has at most one request to save under way, and none when its button
\* is enabled.
OneSubmission ==
    /\ \A q \in saves : q.mine => saving
    /\ \A p, q \in saves : p.mine /\ q.mine => p = q
    /\ url = Nothing => \A q \in saves : ~q.mine

\* What may still become a recipe: a request the server has not taken, and the form for a new
\* recipe that has no request under way.
ToCreate == {q \in saves : q.to = New /\ ~q.served}
FormCredit == IF url = New /\ \A q \in saves : ~(q.mine /\ q.to = New) THEN 1 ELSE 0

CreditInv ==
    /\ FormTypeOK /\ OneSubmission
    /\ created + Cardinality(ToCreate) + FormCredit <= newForms + lost

\* A form the history has not led astray holds the recipe of the URL, or will when it arrives,
\* and so did the form of every request.
OriginInv ==
    /\ url = Nothing => loads = {}
    /\ ~astray => /\ loads \subseteq {url} \ {New}
                  /\ loaded /\ url # Nothing => origin = url
    /\ \A q \in saves : q.astray \/ q.to = q.origin

FormInv == CreditInv /\ OriginInv

LEMMA ImageSize ==
  ASSUME NEW S, IsFiniteSet(S), NEW f, DOMAIN f = S
  PROVE  LET T == {f[x] : x \in S} IN IsFiniteSet(T) /\ Cardinality(T) <= Cardinality(S)
<1> DEFINE T == {f[x] : x \in S}
           g == [x \in S |-> f[x]]
<1>1. g \in Surjection(S, T)
  BY DEF Surjection
<1>2. QED
  BY <1>1, FS_Surjection

\* What becomes of the requests of a form that is gone.
LEMMA OrphanFacts ==
  ASSUME FormTypeOK, NEW Q \in SUBSET saves,
         saves' = {[q EXCEPT !.mine = FALSE] : q \in Q}
  PROVE  /\ IsFiniteSet(saves') /\ \A q \in saves' : SaveRequest(q) /\ ~q.mine
         /\ \A q \in saves' : \E p \in Q : q.to = p.to /\ q.origin = p.origin
                                          /\ q.astray = p.astray
         /\ IsFiniteSet(ToCreate') /\ ToCreate' = {[q EXCEPT !.mine = FALSE] : q \in Q \cap ToCreate}
         /\ Cardinality(ToCreate') <= Cardinality(Q \cap ToCreate)
<1> DEFINE f == [q \in saves |-> [q EXCEPT !.mine = FALSE]]
           g == [q \in Q \cap ToCreate |-> [q EXCEPT !.mine = FALSE]]
           h == [q \in Q |-> [q EXCEPT !.mine = FALSE]]
<1>1. \A q \in saves : /\ f[q].to = q.to /\ f[q].content = q.content /\ f[q].origin = q.origin
                       /\ f[q].astray = q.astray
                       /\ f[q].mine = FALSE /\ f[q].served = q.served
                       /\ SaveRequest(f[q])
  <2> TAKE q \in saves
  <2>1. PICK t, c, o, a, m, s :
            q = [to |-> t, content |-> c, origin |-> o, astray |-> a, mine |-> m, served |-> s]
    BY DEF FormTypeOK, SaveRequest
  <2>2. f[q] = [to |-> t, content |-> c, origin |-> o, astray |-> a, mine |-> FALSE, served |-> s]
    BY <2>1
  <2> HIDE DEF f
  <2>3. QED
    BY <2>1, <2>2 DEF SaveRequest
<1>2. saves' = {f[q] : q \in Q}
  OBVIOUS
<1>3. IsFiniteSet(Q) /\ IsFiniteSet(Q \cap ToCreate)
  BY FS_Subset DEF FormTypeOK
<1>4. LET T == {h[q] : q \in Q} IN IsFiniteSet(T) /\ Cardinality(T) <= Cardinality(Q)
  BY <1>3, ImageSize
<1>5. LET T == {g[q] : q \in Q \cap ToCreate}
      IN  IsFiniteSet(T) /\ Cardinality(T) <= Cardinality(Q \cap ToCreate)
  BY <1>3, ImageSize
<1>6. ToCreate' = {g[q] : q \in Q \cap ToCreate}
  <2>1. \A q \in Q \cap ToCreate : g[q] = f[q]
    BY DEF ToCreate
  <2> HIDE DEF f, g
  <2>2. ToCreate' = {f[q] : q \in Q \cap ToCreate}
    BY <1>1, <1>2 DEF ToCreate
  <2>3. QED
    BY <2>1, <2>2
<1>7. IsFiniteSet(saves')
  BY <1>4
<1> HIDE DEF f
<1>8. \A q \in saves' : /\ SaveRequest(q) /\ ~q.mine
                        /\ \E p \in Q : q.to = p.to /\ q.origin = p.origin
                                          /\ q.astray = p.astray
  BY <1>1, <1>2
<1>9. QED
  BY <1>5, <1>6, <1>7, <1>8

LEMMA SizeFacts ==
  ASSUME FormTypeOK
  PROVE  /\ IsFiniteSet(ToCreate) /\ Cardinality(ToCreate) \in Nat
         /\ FormCredit \in {0, 1}
         /\ \A Q \in SUBSET saves : Cardinality(Q \cap ToCreate) \in Nat
                /\ Cardinality(Q \cap ToCreate) <= Cardinality(ToCreate)
<1>1. IsFiniteSet(ToCreate)
  BY FS_Subset DEF ToCreate, FormTypeOK
<1>2. FormCredit \in {0, 1}
  BY DEF FormCredit
<1>3. ASSUME NEW Q \in SUBSET saves
      PROVE  Cardinality(Q \cap ToCreate) \in Nat
             /\ Cardinality(Q \cap ToCreate) <= Cardinality(ToCreate)
  BY <1>1, FS_Subset, FS_CardinalityType
<1>4. QED
  BY <1>1, <1>2, <1>3, FS_CardinalityType

\* Steps that leave the requests and the URL alone.
LEMMA SameRequests ==
  ASSUME CreditInv, UNCHANGED <<created, url, saving, saves, newForms, lost>>,
         loads' \subseteq Recipe
  PROVE  CreditInv'
BY DEF CreditInv, FormTypeOK, OneSubmission, ToCreate, FormCredit

\* A form opens, or the history jumps to it.
LEMMA VisitStep ==
  ASSUME FormInv, NEW u \in Recipe \cup {New}, OpenForm(u) \/ JumpToForm(u)
  PROVE  FormInv'
<1>1. /\ url' = u /\ loads' = loads \cup ({u} \ {New})
      /\ newForms' = newForms + (IF u = New THEN 1 ELSE 0)
      /\ UNCHANGED <<created, saves, lost>>
  BY DEF OpenForm, JumpToForm, Visit
<1>2. FormTypeOK /\ OneSubmission /\ OriginInv
  BY DEF FormInv, CreditInv
<1>3. OpenForm(u) => \A q \in saves : ~q.mine
  BY <1>2 DEF OneSubmission, OpenForm, FormInv
<1>4. saving' \in BOOLEAN /\ newForms' \in Nat
  <2>1. newForms' \in Nat
    BY <1>1, <1>2 DEF FormTypeOK
  <2>2. saving' \in {saving, FALSE}
    BY DEF OpenForm, JumpToForm
  <2>3. QED
    BY <1>2, <2>1, <2>2 DEF FormTypeOK
<1>5. FormTypeOK'
  BY <1>1, <1>2, <1>4 DEF FormTypeOK
<1>6. OneSubmission'
  <2>1. url' # Nothing
    BY <1>1, RecipesAssumption, RecipeFormAssumption
  <2>2. JumpToForm(u) => saving' = saving
    BY DEF JumpToForm
  <2>3. QED
    BY <1>1, <1>2, <1>3, <2>1, <2>2 DEF OneSubmission
<1>7. ToCreate' = ToCreate /\ FormCredit' \in {0, 1} /\ (u # New => FormCredit' = 0)
  BY <1>1 DEF ToCreate, FormCredit
<1>8. created + Cardinality(ToCreate) + FormCredit' <= newForms' + lost
  <2>1. created + Cardinality(ToCreate) + FormCredit <= newForms + lost
    BY DEF FormInv, CreditInv
  <2>2. PICK n \in Nat, k \in {0, 1}, k2 \in {0, 1}, m \in Nat :
            n = Cardinality(ToCreate) /\ k = FormCredit /\ k2 = FormCredit' /\ m = newForms'
    BY <1>2, <1>4, <1>7, SizeFacts
  <2>3. created \in Nat /\ newForms \in Nat /\ lost \in Nat
    BY <1>2 DEF FormTypeOK
  <2>4. m = newForms + 1 \/ (m = newForms /\ k2 = 0)
    BY <1>1, <1>7, <2>2, <2>3
  <2>5. created + n + k2 <= m + lost
    BY <2>1, <2>2, <2>3, <2>4
  <2>6. QED
    BY <2>2, <2>5
<1>9. CreditInv'
  BY <1>1, <1>5, <1>6, <1>7, <1>8 DEF CreditInv
<1>10. OriginInv'
  <2>1. url' # Nothing
    BY <1>1, RecipesAssumption, RecipeFormAssumption
  <2>2. ASSUME ~astray'
        PROVE  /\ loads' \subseteq {url'} \ {New}
               /\ loaded' => origin' = url'
    <3>1. OpenForm(u) /\ url = Nothing
      BY <2>2 DEF OpenForm, JumpToForm
    <3>2. QED
      BY <1>1, <1>2, <3>1 DEF OpenForm, OriginInv
  <2>3. saves' = saves /\ \A q \in saves : q.astray \/ q.to = q.origin
    BY <1>1, <1>2 DEF OriginInv
  <2>4. QED
    BY <2>1, <2>2, <2>3 DEF OriginInv
<1>11. QED
  BY <1>9, <1>10 DEF FormInv

\* The user goes to another page, or the answer to a request does.
LEMMA FormGoneStep ==
  ASSUME FormInv, Cancel \/ \E q \in saves : SaveAnswers(q)
  PROVE  FormInv'
<1>1. FormTypeOK /\ OriginInv
  BY DEF FormInv, CreditInv
<1>2. PICK Q \in SUBSET saves :
          saves' = {[q EXCEPT !.mine = FALSE] : q \in Q} /\ Gone
          /\ UNCHANGED <<created, astray, newForms, lost>>
  <2>1. CASE Cancel
    BY <2>1 DEF Cancel
  <2>2. ASSUME NEW q \in saves, SaveAnswers(q)
        PROVE  /\ saves' = {[s EXCEPT !.mine = FALSE] : s \in saves \ {q}} /\ Gone
               /\ UNCHANGED <<created, astray, newForms, lost>>
    BY <2>2 DEF SaveAnswers
  <2>3. QED
    BY <2>1, <2>2
<1>3. url' = Nothing /\ loads' = {} /\ saving' = FALSE /\ loaded' = FALSE
  BY <1>2 DEF Gone
<1>4. /\ IsFiniteSet(saves') /\ \A q \in saves' : SaveRequest(q) /\ ~q.mine
      /\ \A q \in saves' : \E p \in Q : q.to = p.to /\ q.origin = p.origin
                                          /\ q.astray = p.astray
      /\ IsFiniteSet(ToCreate') /\ Cardinality(ToCreate') <= Cardinality(Q \cap ToCreate)
  BY <1>1, <1>2, OrphanFacts
<1>5. FormTypeOK'
  BY <1>1, <1>2, <1>3, <1>4 DEF FormTypeOK
<1>6. OneSubmission'
  BY <1>4 DEF OneSubmission
<1>7. FormCredit' = 0
  BY <1>3, RecipeFormAssumption DEF FormCredit
<1>8. created + Cardinality(ToCreate') + FormCredit' <= newForms + lost
  <2>1. created + Cardinality(ToCreate) + FormCredit <= newForms + lost
    BY DEF FormInv, CreditInv
  <2>2. PICK n \in Nat, k \in {0, 1}, i \in Nat :
            n = Cardinality(ToCreate) /\ k = FormCredit /\ i = Cardinality(Q \cap ToCreate)
            /\ i <= n
    BY <1>1, SizeFacts
  <2>3. PICK m \in Nat : m = Cardinality(ToCreate')
    BY <1>4, FS_CardinalityType
  <2>4. created \in Nat /\ newForms \in Nat /\ lost \in Nat
    BY <1>1 DEF FormTypeOK
  <2>5. m <= i
    BY <1>4, <2>2, <2>3
  <2>6. created + m + 0 <= newForms + lost
    BY <2>1, <2>2, <2>4, <2>5
  <2>7. QED
    BY <1>7, <2>3, <2>6
<1>9. CreditInv'
  BY <1>2, <1>5, <1>6, <1>8 DEF CreditInv
<1>10. OriginInv'
  BY <1>1, <1>2, <1>3, <1>4 DEF OriginInv
<1>11. QED
  BY <1>9, <1>10 DEF FormInv

LEMMA SubmitStep == ASSUME FormInv, Submit PROVE FormInv'
<1> DEFINE new == [to |-> url, content |-> form, origin |-> origin, astray |-> astray,
                   mine |-> TRUE, served |-> FALSE]
<1>1. FormTypeOK /\ OneSubmission /\ OriginInv
  BY DEF FormInv, CreditInv
<1>2. /\ url # Nothing /\ loaded /\ ~saving /\ saving' = TRUE
      /\ saves' = saves \cup {new}
      /\ UNCHANGED <<created, url, loaded, loads, origin, astray, newForms, lost>>
  BY DEF Submit
<1>3. SaveRequest(new) /\ new.to = url /\ new.origin = origin /\ new.astray = astray
      /\ new.mine /\ ~new.served
  BY DEF SaveRequest
<1> HIDE DEF new
<1>4. \A q \in saves : ~q.mine
  BY <1>1, <1>2 DEF OneSubmission
<1>5. FormTypeOK'
  BY <1>1, <1>2, <1>3, FS_AddElement DEF FormTypeOK
<1>6. OneSubmission'
  BY <1>2, <1>3, <1>4 DEF OneSubmission
<1>7. ASSUME url = New PROVE CreditInv'
  <2>1. ToCreate' = ToCreate \cup {new}
    BY <1>2, <1>3, <1>7 DEF ToCreate
  <2>2. FormCredit = 1 /\ FormCredit' = 0
    BY <1>2, <1>3, <1>4, <1>7 DEF FormCredit
  <2>3. Cardinality(ToCreate') \in {Cardinality(ToCreate), Cardinality(ToCreate) + 1}
    BY <1>1, <2>1, SizeFacts, FS_AddElement
  <2>4. created + Cardinality(ToCreate) + 1 <= newForms + lost
    BY <2>2 DEF FormInv, CreditInv
  <2>5. PICK n \in Nat, m \in Nat : n = Cardinality(ToCreate) /\ m = Cardinality(ToCreate')
    BY <1>1, <2>3, SizeFacts
  <2>6. created \in Nat /\ newForms \in Nat /\ lost \in Nat
    BY <1>1 DEF FormTypeOK
  <2>7. m \in {n, n + 1} /\ created + n + 1 <= newForms + lost
    BY <2>3, <2>4, <2>5
  <2>8. created + m + 0 <= newForms + lost
    BY <2>6, <2>7
  <2>9. created' = created /\ newForms' = newForms /\ lost' = lost
    BY <1>2
  <2>10. created' + Cardinality(ToCreate') + FormCredit' <= newForms' + lost'
    BY <2>2, <2>5, <2>8, <2>9
  <2>11. QED
    BY <1>5, <1>6, <2>10 DEF CreditInv
<1>8. ASSUME url # New PROVE CreditInv'
  <2>1. ToCreate' = ToCreate
    BY <1>2, <1>3, <1>8 DEF ToCreate
  <2>2. FormCredit = 0 /\ FormCredit' = 0
    BY <1>2, <1>8 DEF FormCredit
  <2>3. PICK n \in Nat : n = Cardinality(ToCreate)
    BY <1>1, SizeFacts
  <2>4. created \in Nat /\ newForms \in Nat /\ lost \in Nat
    BY <1>1 DEF FormTypeOK
  <2>5. created + n + 0 <= newForms + lost
    BY <2>2, <2>3 DEF FormInv, CreditInv
  <2>6. created' = created /\ newForms' = newForms /\ lost' = lost /\ Cardinality(ToCreate') = n
    BY <1>2, <2>1, <2>3
  <2>7. created' + Cardinality(ToCreate') + FormCredit' <= newForms' + lost'
    BY <2>2, <2>5, <2>6
  <2>8. QED
    BY <1>5, <1>6, <2>7 DEF CreditInv
<1>9. OriginInv'
  BY <1>1, <1>2, <1>3 DEF OriginInv
<1>10. QED
  BY <1>7, <1>8, <1>9 DEF FormInv

LEMMA SaveServedStep == ASSUME FormInv, NEW q \in saves, SaveServed(q) PROVE FormInv'
<1> DEFINE answered == [q EXCEPT !.served = TRUE]
<1>1. FormTypeOK /\ OneSubmission /\ OriginInv
  BY DEF FormInv, CreditInv
<1>2. /\ ~q.served /\ saves' = (saves \ {q}) \cup {answered}
      /\ created' = created + (IF q.to = New THEN 1 ELSE 0)
      /\ UNCHANGED <<url, loaded, saving, loads, origin, astray, newForms, lost>>
  BY <1>1 DEF SaveServed, FormTypeOK
<1>3. SaveRequest(answered) /\ answered.to = q.to /\ answered.origin = q.origin
      /\ answered.astray = q.astray
      /\ answered.mine = q.mine /\ answered.served
  <2>1. PICK t, c, o, a, m, s :
            q = [to |-> t, content |-> c, origin |-> o, astray |-> a, mine |-> m, served |-> s]
    BY <1>1 DEF FormTypeOK, SaveRequest
  <2> DEFINE f == [x \in {q} |-> [x EXCEPT !.served = TRUE]]
  <2>2. f[q] = [to |-> t, content |-> c, origin |-> o, astray |-> a, mine |-> m, served |-> TRUE]
    BY <2>1
  <2>3. answered = f[q]
    OBVIOUS
  <2> HIDE DEF answered, f
  <2>4. QED
    BY <2>1, <2>2, <2>3 DEF SaveRequest
<1> HIDE DEF answered
<1>4. created' \in Nat /\ created' \in {created, created + 1}
  BY <1>1, <1>2 DEF FormTypeOK
<1>5. IsFiniteSet(saves')
  BY <1>1, <1>2, FS_AddElement, FS_RemoveElement DEF FormTypeOK
<1>6. FormTypeOK'
  BY <1>1, <1>2, <1>3, <1>4, <1>5 DEF FormTypeOK
<1>7. OneSubmission'
  BY <1>1, <1>2, <1>3 DEF OneSubmission
<1>8. FormCredit' = FormCredit
  <2>1. (\A p \in saves' : ~(p.mine /\ p.to = New)) <=> \A p \in saves : ~(p.mine /\ p.to = New)
    BY <1>2, <1>3
  <2>2. QED
    BY <1>2, <2>1 DEF FormCredit
<1>9. ASSUME q.to = New PROVE CreditInv'
  <2>1. ToCreate' = ToCreate \ {q} /\ q \in ToCreate
    BY <1>2, <1>3, <1>9 DEF ToCreate
  <2>2. Cardinality(ToCreate') = Cardinality(ToCreate) - 1
    BY <1>1, <2>1, SizeFacts, FS_RemoveElement
  <2>3. PICK n \in Nat, k \in {0, 1} : n = Cardinality(ToCreate) /\ k = FormCredit
    BY <1>1, SizeFacts
  <2>4. PICK c \in Nat : c = created'
    BY <1>4
  <2>5. created \in Nat /\ newForms \in Nat /\ lost \in Nat
    BY <1>1 DEF FormTypeOK
  <2>6. created + n + k <= newForms + lost /\ c = created + 1
    BY <1>2, <1>9, <2>3, <2>4 DEF FormInv, CreditInv
  <2>7. c + (n - 1) + k <= newForms + lost
    BY <2>5, <2>6
  <2>8. n - 1 \in Nat
    BY <1>1, <2>1, <2>3, SizeFacts, FS_EmptySet, FS_CardinalityType, FS_RemoveElement
  <2>9. PICK m \in Nat : m = n - 1
    BY <2>8
  <2>10. Cardinality(ToCreate') = m /\ FormCredit' = k /\ newForms' = newForms /\ lost' = lost
    BY <1>2, <1>8, <2>2, <2>3, <2>9
  <2>11. c + m + k <= newForms + lost
    BY <2>7, <2>9
  <2>12. created' + Cardinality(ToCreate') + FormCredit' <= newForms' + lost'
    BY <2>4, <2>10, <2>11
  <2>13. QED
    BY <1>6, <1>7, <2>12 DEF CreditInv
<1>10. ASSUME q.to # New PROVE CreditInv'
  <2>1. ToCreate' = ToCreate
    BY <1>2, <1>3, <1>10 DEF ToCreate
  <2>2. created' = created
    BY <1>1, <1>2, <1>10 DEF FormTypeOK
  <2>3. PICK n \in Nat, k \in {0, 1} : n = Cardinality(ToCreate) /\ k = FormCredit
    BY <1>1, SizeFacts
  <2>4. created \in Nat /\ newForms \in Nat /\ lost \in Nat
    BY <1>1 DEF FormTypeOK
  <2>5. created + n + k <= newForms + lost
    BY <2>3 DEF FormInv, CreditInv
  <2>6. Cardinality(ToCreate') = n /\ FormCredit' = k /\ newForms' = newForms /\ lost' = lost
    BY <1>2, <1>8, <2>1, <2>3
  <2>7. created' + Cardinality(ToCreate') + FormCredit' <= newForms' + lost'
    BY <2>2, <2>5, <2>6
  <2>8. QED
    BY <1>6, <1>7, <2>7 DEF CreditInv
<1>11. OriginInv'
  BY <1>1, <1>2, <1>3 DEF OriginInv
<1>12. QED
  BY <1>9, <1>10, <1>11 DEF FormInv

LEMMA SaveFailsStep == ASSUME FormInv, NEW q \in saves, SaveFails(q) PROVE FormInv'
<1>1. FormTypeOK /\ OneSubmission /\ OriginInv
  BY DEF FormInv, CreditInv
<1>2. /\ saves' = saves \ {q} /\ saving' = (saving /\ ~q.mine)
      /\ lost' = lost + (IF q.served /\ q.to = New THEN 1 ELSE 0)
      /\ UNCHANGED <<created, url, loaded, loads, origin, astray, newForms>>
  BY DEF SaveFails
<1>3. saving' \in BOOLEAN
  BY <1>2, Zenon
<1>4. lost' \in Nat
  BY <1>1, <1>2 DEF FormTypeOK
<1>5. IsFiniteSet(saves')
  BY <1>1, <1>2, FS_RemoveElement DEF FormTypeOK
<1>6. FormTypeOK'
  BY <1>1, <1>2, <1>3, <1>4, <1>5 DEF FormTypeOK
<1>7. OneSubmission'
  BY <1>1, <1>2 DEF OneSubmission
<1>8. ToCreate' = ToCreate \ {q} /\ FormCredit' \in {0, 1}
  BY <1>2 DEF ToCreate, FormCredit
<1>9. q.to # New => FormCredit' = FormCredit
  <2>1. q.to # New => ((\A p \in saves' : ~(p.mine /\ p.to = New))
                       <=> \A p \in saves : ~(p.mine /\ p.to = New))
    BY <1>2
  <2>2. QED
    BY <1>2, <2>1 DEF FormCredit
<1>10. PICK n \in Nat, k \in {0, 1}, k2 \in {0, 1}, d \in Nat :
           n = Cardinality(ToCreate) /\ k = FormCredit /\ k2 = FormCredit' /\ d = lost'
  BY <1>1, <1>4, <1>8, SizeFacts
<1>11. created \in Nat /\ newForms \in Nat /\ lost \in Nat
  BY <1>1 DEF FormTypeOK
<1>12. created + n + k <= newForms + lost
  BY <1>10 DEF FormInv, CreditInv
<1>13. created + Cardinality(ToCreate') + k2 <= newForms + d
  <2>1. CASE q \in ToCreate
    <3>1. Cardinality(ToCreate') = n - 1 /\ d = lost
      <4>1. IsFiniteSet(ToCreate)
        BY <1>1, SizeFacts
      <4>2. Cardinality(ToCreate \ {q}) = Cardinality(ToCreate) - 1
        BY <4>1, <2>1, FS_RemoveElement
      <4>3. ~q.served
        BY <2>1 DEF ToCreate
      <4>4. d = lost
        BY <4>3, <1>2, <1>10, <1>11
      <4>5. QED
        BY <4>2, <4>4, <1>8, <1>10
    <3>2. created + (n - 1) + k2 <= newForms + d
      BY <1>10, <1>11, <1>12, <3>1
    <3>3. QED
      BY <3>1, <3>2
  <2>2. CASE q \notin ToCreate
    <3>1. Cardinality(ToCreate') = n
      <4>1. ToCreate' = ToCreate
        BY <1>8, <2>2
      <4>2. QED
        BY <1>10, <4>1
    <3>2. d = lost + 1 \/ (d = lost /\ k2 = k)
      BY <1>2, <1>9, <1>10, <1>11, <2>2 DEF ToCreate
    <3>3. created + n + k2 <= newForms + d
      BY <1>10, <1>11, <1>12, <3>2
    <3>4. QED
      BY <3>1, <3>3
  <2>3. QED
    BY <2>1, <2>2
<1>14. CreditInv'
  BY <1>2, <1>6, <1>7, <1>10, <1>13 DEF CreditInv
<1>15. OriginInv'
  BY <1>1, <1>2 DEF OriginInv
<1>16. QED
  BY <1>14, <1>15 DEF FormInv

\* The inductive invariant of the form: a form and its unanswered request stand for at most one
\* recipe, and what is on the form is of the recipe in the URL.
THEOREM FormInvariance == FormSpec => []FormInv
<1>1. FormInit => FormInv
  <2> SUFFICES ASSUME FormInit PROVE FormInv
    OBVIOUS
  <2>1. url = Nothing /\ loads = {} /\ saves = {} /\ saving = FALSE /\ loaded = FALSE
        /\ created = 0 /\ newForms = 0 /\ lost = 0
    BY DEF FormInit
  <2>2. ToCreate = {} /\ FormCredit = 0
    BY <2>1, RecipeFormAssumption DEF ToCreate, FormCredit
  <2>3. Cardinality(ToCreate) = 0 /\ IsFiniteSet(saves)
    BY <2>1, <2>2, FS_EmptySet
  <2>4. FormTypeOK /\ OneSubmission /\ OriginInv
    BY <2>1, <2>3 DEF FormTypeOK, OneSubmission, OriginInv
  <2>5. created + Cardinality(ToCreate) + FormCredit <= newForms + lost
    BY <2>1, <2>2, <2>3
  <2>6. QED
    BY <2>4, <2>5 DEF FormInv, CreditInv
<1>2. FormInv /\ [FormNext]_formVars => FormInv'
  <2> SUFFICES ASSUME FormInv, [FormNext]_formVars PROVE FormInv'
    OBVIOUS
  <2>1. ASSUME NEW f, Change(f) PROVE FormInv'
    <3>1. UNCHANGED <<created, url, loaded, saving, loads, saves, origin, astray, newForms, lost>>
      BY <2>1 DEF Change
    <3>2. CreditInv'
      BY <3>1, SameRequests DEF FormInv, CreditInv, FormTypeOK
    <3>3. QED
      BY <3>1, <3>2 DEF FormInv, OriginInv
  <2>2. CASE EditIngredients \/ EditSteps
             \/ \E w \in Word : SetTitle(w) \/ AddTag(w) \/ RemoveTag(w)
    BY <2>1, <2>2, Zenon DEF EditIngredients, EditSteps, SetTitle, AddTag, RemoveTag
  <2>3. ASSUME NEW r \in Recipe, LoadArrives(r) \/ LoadFails(r) PROVE FormInv'
    <3>1. /\ r \in loads /\ loads' = loads \ {r}
          /\ UNCHANGED <<created, url, saving, saves, newForms, lost>>
          /\ \/ /\ loaded' = TRUE /\ origin' = r
                /\ ~astray' => ~astray \/ (r = url /\ loads' = {})
             \/ UNCHANGED <<loaded, origin, astray>>
      BY <2>3 DEF LoadArrives, LoadFails
    <3>2. CreditInv'
      BY <3>1, SameRequests DEF FormInv, CreditInv, FormTypeOK
    <3>3. OriginInv'
      BY <3>1 DEF FormInv, OriginInv
    <3>4. QED
      BY <3>2, <3>3 DEF FormInv
  <2>4. CASE UNCHANGED formVars
    <3>1. UNCHANGED <<created, url, loaded, saving, loads, saves, origin, astray, newForms, lost>>
      BY <2>4 DEF formVars
    <3>2. CreditInv'
      BY <3>1, SameRequests DEF FormInv, CreditInv, FormTypeOK
    <3>3. QED
      BY <3>1, <3>2 DEF FormInv, OriginInv
  <2>5. QED
    BY <2>2, <2>3, <2>4, VisitStep, FormGoneStep, SubmitStep, SaveServedStep, SaveFailsStep
    DEF FormNext
<1>3. QED
  BY <1>1, <1>2, PTL DEF FormSpec

\* For any number of forms, edits, jumps and lost answers, a form creates one recipe (the button
\* that is disabled while saving, in RecipeFormPage), and one more for each answer that was lost.
THEOREM OneRecipePerForm == FormSpec => []OneFormOneRecipe
<1>1. FormInv => OneFormOneRecipe
  <2> SUFFICES ASSUME FormInv PROVE created <= newForms + lost
    BY DEF OneFormOneRecipe
  <2>1. FormTypeOK /\ created + Cardinality(ToCreate) + FormCredit <= newForms + lost
    BY DEF FormInv, CreditInv
  <2>2. PICK n \in Nat, k \in {0, 1} : n = Cardinality(ToCreate) /\ k = FormCredit
    BY <2>1, SizeFacts
  <2>3. created \in Nat /\ newForms \in Nat /\ lost \in Nat
    BY <2>1 DEF FormTypeOK
  <2>4. created + n + k <= newForms + lost
    BY <2>1, <2>2
  <2>5. QED
    BY <2>2, <2>3, <2>4
<1>2. QED
  BY <1>1, FormInvariance, PTL

\* For any recipes, what is saved over a recipe was loaded from it (the `loaded` flag that keeps
\* RecipeFormPage from showing an empty form), except from a form the history was jumped in
\* before the recipe of the new URL has come as the last one to be loaded.
THEOREM SavesItsOwn == FormSpec => []SavesWhatItLoaded
<1>1. FormInv => SavesWhatItLoaded
  BY DEF FormInv, OriginInv, SavesWhatItLoaded
<1>2. QED
  BY <1>1, FormInvariance, PTL

-----------------------------------------------------------------------------
(***************************************************************************)
(* The lists and the page of a recipe.                                     *)
(***************************************************************************)
BrowseTypeOK ==
    /\ onServer \subseteq Dish
    /\ dish \in Dish \cup {Nothing}
    /\ servings \in 1..MaxTarget \cup {Nothing}
    /\ \A q \in queries : q = [filter |-> q.filter, newest |-> q.newest]
    /\ \A q \in deletes : q = [id |-> q.id, mine |-> q.mine]

OnServer == {d.id : d \in onServer}

\* The newest request asks for what is selected, and a list that is neither loading nor failed
\* has answered it.
ListOK ==
    /\ \A q \in queries : q.newest => q.filter = filter
    /\ ~listLoading /\ ~listFailed =>
           /\ list \in SUBSET Recipe
           /\ Matching(filter) \subseteq list
           /\ \A r \in list : Matches(filter, r)

DeletesAgreed == \A q \in deletes : q.id \in confirmed

BrowseInv == BrowseTypeOK /\ ListOK /\ DeletesAgreed /\ DeletesWhatIsConfirmed

LEMMA SupersededQueries ==
  ASSUME BrowseTypeOK, NEW f, Ask(f)
  PROVE  \A q \in queries' : /\ q = [filter |-> q.filter, newest |-> q.newest]
                             /\ q.newest => q.filter = f
<1> DEFINE late == [q \in queries |-> [q EXCEPT !.newest = FALSE]]
           new == [filter |-> f, newest |-> TRUE]
<1>1. \A q \in queries :
          late[q] = [filter |-> late[q].filter, newest |-> late[q].newest] /\ ~late[q].newest
  <2> TAKE q \in queries
  <2>1. PICK g, n : q = [filter |-> g, newest |-> n]
    BY DEF BrowseTypeOK
  <2>2. late[q] = [filter |-> g, newest |-> FALSE]
    BY <2>1
  <2> HIDE DEF late
  <2>3. QED
    BY <2>2
<1>2. queries' = {late[q] : q \in queries} \cup {new}
  BY DEF Ask
<1>3. new = [filter |-> new.filter, newest |-> new.newest] /\ new.filter = f
  OBVIOUS
<1> HIDE DEF late, new
<1>4. QED
  BY <1>1, <1>2, <1>3

LEMMA OrphanDeletes ==
  ASSUME BrowseTypeOK, NEW Q \in SUBSET deletes
  PROVE  \A q \in Orphans(Q) : /\ q = [id |-> q.id, mine |-> q.mine]
                               /\ \E p \in Q : q.id = p.id
<1> DEFINE orphan == [q \in deletes |-> [q EXCEPT !.mine = FALSE]]
<1>1. \A q \in deletes :
          orphan[q] = [id |-> orphan[q].id, mine |-> orphan[q].mine] /\ orphan[q].id = q.id
  <2> TAKE q \in deletes
  <2>1. PICK i, m : q = [id |-> i, mine |-> m]
    BY DEF BrowseTypeOK
  <2>2. orphan[q] = [id |-> i, mine |-> FALSE]
    BY <2>1
  <2> HIDE DEF orphan
  <2>3. QED
    BY <2>1, <2>2
<1>2. Orphans(Q) = {orphan[q] : q \in Q}
  BY DEF Orphans
<1> HIDE DEF orphan
<1>3. ASSUME NEW q \in Orphans(Q)
      PROVE  q = [id |-> q.id, mine |-> q.mine] /\ \E p \in Q : q.id = p.id
  <2>1. PICK p \in Q : q = orphan[p]
    BY <1>2
  <2>2. q = [id |-> q.id, mine |-> q.mine]
    BY <1>1, <2>1
  <2>3. q.id = p.id
    BY <1>1, <2>1
  <2>4. QED
    BY <2>2, <2>3
<1>4. QED
  BY <1>3

LEMMA ListKept ==
  ASSUME ListOK, OnServer' \subseteq OnServer,
         UNCHANGED <<filter, queries, list, listFailed, listLoading>>
  PROVE  ListOK'
<1>1. Matching(filter)' \subseteq Matching(filter)
  BY DEF Matching, OnServer, Matches
<1>2. \A r : Matches(filter, r)' <=> Matches(filter, r)
  BY DEF Matches
<1>3. QED
  BY <1>1, <1>2 DEF ListOK

LEMMA ListAnew == ASSUME BackToList PROVE ListOK'
<1>1. queries' = {[filter |-> filter', newest |-> TRUE]} /\ listLoading' = TRUE
  BY DEF BackToList
<1>2. QED
  BY <1>1 DEF ListOK

LEMMA ListAsked ==
  ASSUME BrowseInv, UNCHANGED onServer,
         PollList \/ \E f : SetFilter(f)
  PROVE  ListOK'
<1>1. CASE PollList
  <2>1. \A q \in queries' : q.newest => q.filter = filter
    BY <1>1, SupersededQueries DEF PollList, BrowseInv
  <2>2. UNCHANGED <<filter, list, listFailed, listLoading>>
    BY <1>1 DEF PollList
  <2>3. Matching(filter)' = Matching(filter) /\ \A r : Matches(filter, r)' <=> Matches(filter, r)
    BY <2>2 DEF Matching, Matches
  <2>4. QED
    BY <2>1, <2>2, <2>3 DEF ListOK, BrowseInv
<1>2. ASSUME NEW f, SetFilter(f) PROVE ListOK'
  <2>1. \A q \in queries' : q.newest => q.filter = f
    BY <1>2, SupersededQueries DEF SetFilter, BrowseInv
  <2>2. filter' = f /\ listLoading' = TRUE
    BY <1>2 DEF SetFilter
  <2>3. QED
    BY <2>1, <2>2 DEF ListOK
<1>3. QED
  BY <1>1, <1>2

LEMMA ListAnswered ==
  ASSUME BrowseInv, NEW q \in queries, ListArrives(q) \/ ListFails(q)
  PROVE  ListOK'
<1>1. queries' = queries \ {q} /\ filter' = filter /\ UNCHANGED onServer
  BY DEF ListArrives, ListFails, dishVars
<1>2. \A p \in queries' : p.newest => p.filter = filter
  BY <1>1 DEF BrowseInv, ListOK
<1>3. Matching(filter)' = Matching(filter) /\ \A r : Matches(filter, r)' <=> Matches(filter, r)
  BY <1>1 DEF Matching, Matches
<1>4. CASE ~q.newest
  <2>1. UNCHANGED <<list, listFailed, listLoading>>
    BY <1>4 DEF ListArrives, ListFails, MayShow
  <2>2. QED
    BY <1>1, <1>2, <1>3, <2>1 DEF BrowseInv, ListOK
<1>5. CASE q.newest /\ ListFails(q)
  <2>1. listFailed' = TRUE
    BY <1>5 DEF ListFails, MayShow
  <2>2. QED
    BY <1>1, <1>2, <2>1 DEF ListOK
<1>6. CASE q.newest /\ ListArrives(q)
  <2>1. list' = Matching(filter)
    BY <1>6 DEF ListArrives, MayShow, BrowseInv, ListOK
  <2>2. Matching(filter) \in SUBSET Recipe /\ \A r \in Matching(filter) : Matches(filter, r)
    BY DEF Matching, BrowseInv, BrowseTypeOK, Dish
  <2>3. QED
    BY <1>1, <1>2, <1>3, <2>1, <2>2 DEF ListOK
<1>7. QED
  BY <1>4, <1>5, <1>6

\* The recipes on the server: they are only edited and deleted.
LEMMA ServerStep ==
  ASSUME BrowseInv, BrowseNext
  PROVE  /\ onServer' \subseteq Dish /\ OnServer' \subseteq OnServer
         /\ \A r \in OnServer \ OnServer' : \E q \in deletes : q.id = r
<1>1. onServer \subseteq Dish
  BY DEF BrowseInv, BrowseTypeOK
<1>2. CASE UNCHANGED onServer
  BY <1>1, <1>2 DEF OnServer
<1>3. ASSUME NEW d \in Dish, DishEdited(d)
      PROVE  onServer' \subseteq Dish /\ OnServer' = OnServer
  <2>1. PICK e \in onServer : e.id = d.id /\ onServer' = (onServer \ {e}) \cup {d}
    BY <1>3 DEF DishEdited
  <2>2. QED
    BY <1>1, <2>1 DEF OnServer
<1>4. ASSUME NEW q \in deletes, DeleteServed(q) \/ DeleteFails(q)
      PROVE  /\ onServer' \subseteq Dish /\ OnServer' \subseteq OnServer
             /\ \A r \in OnServer \ OnServer' : q.id = r
  BY <1>1, <1>4 DEF DeleteServed, DeleteFails, OnServer
<1>5. CASE \/ \E s \in Search \cup {Nothing} : SetSearch(s)
           \/ \E t \in Tag : ToggleTag(t)
           \/ PollList
           \/ \E q \in queries : ListArrives(q) \/ ListFails(q)
  BY <1>2, <1>5
  DEF SetSearch, ToggleTag, SetFilter, PollList, ListArrives, ListFails, dishVars
<1>6. CASE \/ \E r \in Recipe : View(r) \/ JumpToDish(r)
           \/ \E n \in 1..MaxTarget : SetServings(n)
           \/ CloseDish \/ DishArrives \/ DishFails \/ Delete
  BY <1>2, <1>6
  DEF View, JumpToDish, SetServings, CloseDish, DishArrives, DishFails, Delete
<1>7. QED
  BY <1>3, <1>4, <1>5, <1>6 DEF BrowseNext

LEMMA ListOKStep == ASSUME BrowseInv, BrowseNext PROVE ListOK'
<1>1. OnServer' \subseteq OnServer /\ ListOK
  BY ServerStep DEF BrowseInv
<1>2. CASE UNCHANGED <<filter, queries, list, listFailed, listLoading>>
  BY <1>1, <1>2, ListKept
<1>3. CASE BackToList
  BY <1>3, ListAnew
<1>4. CASE PollList \/ (\E s \in Search \cup {Nothing} : SetSearch(s)) \/ \E t \in Tag : ToggleTag(t)
  <2>1. PollList \/ \E f : SetFilter(f)
    BY <1>4, Zenon DEF SetSearch, ToggleTag
  <2>2. UNCHANGED onServer
    BY <2>1 DEF PollList, SetFilter, dishVars
  <2>3. QED
    BY <2>1, <2>2, ListAsked
<1>5. CASE \E r \in Recipe : View(r) \/ JumpToDish(r)
  BY <1>2, <1>5 DEF View, JumpToDish, listVars
<1>6. CASE \E q \in deletes : DeleteServed(q) \/ DeleteFails(q)
  BY <1>2, <1>3, <1>6 DEF DeleteServed, DeleteFails, listVars
<1>7. CASE \/ \E d \in Dish : DishEdited(d)
           \/ \E n \in 1..MaxTarget : SetServings(n)
           \/ CloseDish \/ DishArrives \/ DishFails \/ Delete
  BY <1>2, <1>3, <1>7
  DEF DishEdited, SetServings, CloseDish, DishArrives, DishFails, Delete, listVars
<1>8. QED
  BY <1>4, <1>5, <1>6, <1>7, ListAnswered DEF BrowseNext

\* The page of a recipe: what it shows is a recipe the server had, and what it deletes was
\* agreed to.
LEMMA DeletesStep ==
  ASSUME BrowseInv, BrowseNext
  PROVE  /\ \A q \in deletes' : q = [id |-> q.id, mine |-> q.mine]
         /\ DeletesAgreed' /\ confirmed \subseteq confirmed'
<1>1. BrowseTypeOK /\ DeletesAgreed
  BY DEF BrowseInv
<1>2. CASE deletes' \subseteq deletes /\ UNCHANGED confirmed
  BY <1>1, <1>2 DEF BrowseTypeOK, DeletesAgreed
<1>3. ASSUME NEW Q \in SUBSET deletes, deletes' = Orphans(Q), UNCHANGED confirmed
      PROVE  /\ \A q \in deletes' : q = [id |-> q.id, mine |-> q.mine]
             /\ DeletesAgreed' /\ confirmed \subseteq confirmed'
  BY <1>1, <1>3, OrphanDeletes DEF DeletesAgreed
<1>4. CASE Delete
  <2>1. deletes' = deletes \cup {[id |-> dish.id, mine |-> TRUE]}
        /\ confirmed' = confirmed \cup {dish.id}
    BY <1>4 DEF Delete
  <2>2. QED
    BY <1>1, <2>1 DEF BrowseTypeOK, DeletesAgreed
<1>5. CASE CloseDish
  <2>1. PICK Q \in SUBSET deletes : Q = deletes
    OBVIOUS
  <2>2. deletes' = Orphans(Q) /\ UNCHANGED confirmed
    BY <1>5, <2>1 DEF CloseDish
  <2>3. QED
    BY <1>3, <2>2
<1>6. ASSUME NEW q \in deletes, DeleteServed(q)
      PROVE  /\ \A p \in deletes' : p = [id |-> p.id, mine |-> p.mine]
             /\ DeletesAgreed' /\ confirmed \subseteq confirmed'
  <2>1. PICK Q \in SUBSET deletes : Q = deletes \ {q}
    OBVIOUS
  <2>2. deletes' = Orphans(Q) /\ UNCHANGED confirmed
    BY <1>6, <2>1 DEF DeleteServed
  <2>3. QED
    BY <1>3, <2>2
<1>7. CASE \/ \E s \in Search \cup {Nothing} : SetSearch(s)
           \/ \E t \in Tag : ToggleTag(t)
           \/ PollList
           \/ \E q \in queries : ListArrives(q) \/ ListFails(q)
  BY <1>2, <1>7
  DEF SetSearch, ToggleTag, SetFilter, PollList, ListArrives, ListFails, dishVars
<1>8. CASE \/ \E r \in Recipe : View(r) \/ JumpToDish(r)
           \/ \E n \in 1..MaxTarget : SetServings(n)
           \/ \E d \in Dish : DishEdited(d)
           \/ \E q \in deletes : DeleteFails(q)
           \/ DishArrives \/ DishFails
  BY <1>2, <1>8
  DEF View, JumpToDish, SetServings, DishEdited, DeleteFails, DishArrives, DishFails
<1>9. QED
  BY <1>4, <1>5, <1>6, <1>7, <1>8 DEF BrowseNext

LEMMA DishStep ==
  ASSUME BrowseInv, BrowseNext
  PROVE  dish' \in Dish \cup {Nothing} /\ servings' \in 1..MaxTarget \cup {Nothing}
<1>1. BrowseTypeOK
  BY DEF BrowseInv
<1>2. CASE UNCHANGED dish /\ servings' \in 1..MaxTarget \cup {servings}
  BY <1>1, <1>2 DEF BrowseTypeOK
<1>3. CASE BackToList \/ (dish' = Nothing /\ servings' = Nothing)
  BY <1>3 DEF BackToList
<1>4. CASE DishArrives
  BY <1>1, <1>4 DEF DishArrives, BrowseTypeOK
<1>5. CASE \/ \E s \in Search \cup {Nothing} : SetSearch(s)
           \/ \E t \in Tag : ToggleTag(t)
           \/ PollList
           \/ \E q \in queries : ListArrives(q) \/ ListFails(q)
  BY <1>2, <1>5
  DEF SetSearch, ToggleTag, SetFilter, PollList, ListArrives, ListFails, dishVars
<1>6. CASE \E r \in Recipe : View(r) \/ JumpToDish(r)
  BY <1>2, <1>3, <1>6 DEF View, JumpToDish
<1>7. CASE \E q \in deletes : DeleteServed(q) \/ DeleteFails(q)
  BY <1>2, <1>3, <1>7 DEF DeleteServed, DeleteFails
<1>8. CASE \/ \E n \in 1..MaxTarget : SetServings(n)
           \/ \E d \in Dish : DishEdited(d)
           \/ CloseDish \/ DishFails \/ Delete
  BY <1>2, <1>3, <1>8 DEF SetServings, DishEdited, CloseDish, DishFails, Delete
<1>9. QED
  BY <1>4, <1>5, <1>6, <1>7, <1>8 DEF BrowseNext

LEMMA QueriesStep ==
  ASSUME BrowseInv, BrowseNext
  PROVE  \A q \in queries' : q = [filter |-> q.filter, newest |-> q.newest]
<1>1. BrowseTypeOK
  BY DEF BrowseInv
<1>2. CASE queries' \subseteq queries
  BY <1>1, <1>2 DEF BrowseTypeOK
<1>3. CASE BackToList
  BY <1>3 DEF BackToList
<1>4. CASE PollList \/ (\E s \in Search \cup {Nothing} : SetSearch(s)) \/ \E t \in Tag : ToggleTag(t)
  <2>1. \E f : Ask(f)
    BY <1>4, Zenon DEF SetSearch, ToggleTag, SetFilter, PollList
  <2>2. QED
    BY <1>1, <2>1, SupersededQueries
<1>5. CASE \E q \in queries : ListArrives(q) \/ ListFails(q)
  BY <1>2, <1>5 DEF ListArrives, ListFails
<1>6. CASE \E r \in Recipe : View(r) \/ JumpToDish(r)
  BY <1>2, <1>6 DEF View, JumpToDish, listVars
<1>7. CASE \E q \in deletes : DeleteServed(q) \/ DeleteFails(q)
  BY <1>2, <1>3, <1>7 DEF DeleteServed, DeleteFails, listVars
<1>8. CASE \/ \E n \in 1..MaxTarget : SetServings(n)
           \/ \E d \in Dish : DishEdited(d)
           \/ CloseDish \/ DishArrives \/ DishFails \/ Delete
  BY <1>2, <1>3, <1>8
  DEF SetServings, DishEdited, CloseDish, DishArrives, DishFails, Delete, listVars
<1>9. QED
  BY <1>4, <1>5, <1>6, <1>7, <1>8 DEF BrowseNext

LEMMA BrowseStart == BrowseInit => BrowseInv
<1> SUFFICES ASSUME BrowseInit PROVE BrowseInv
  OBVIOUS
<1>1. (CHOOSE a \in Amount : TRUE) \in Amount /\ 1 \in 1..MaxTarget /\ Nothing \in Minutes
  BY BrowseAssumption
<1>2. \A r \in Recipe : [id |-> r, amount |-> CHOOSE a \in Amount : TRUE, base |-> 1,
                         prep |-> Nothing, cook |-> Nothing] \in Dish
  BY <1>1 DEF Dish
<1>3. BrowseTypeOK
  BY <1>2 DEF BrowseInit, BrowseTypeOK
<1>4. ASSUME NEW r \in Recipe PROVE r \in OnServer
  <2>1. PICK d \in onServer : d = [id |-> r, amount |-> CHOOSE a \in Amount : TRUE, base |-> 1,
                                  prep |-> Nothing, cook |-> Nothing]
    BY DEF BrowseInit
  <2>2. d.id = r
    BY <2>1
  <2>3. QED
    BY <2>2 DEF OnServer
<1>5. QED
  BY <1>3, <1>4 DEF BrowseInit, BrowseInv, ListOK, DeletesAgreed, DeletesWhatIsConfirmed, OnServer

\* The inductive invariant of the lists and the page of a recipe: the newest request asks for what
\* is selected, and every request to delete was agreed to.
THEOREM BrowseInvariance == BrowseSpec => []BrowseInv
<1>1. BrowseInv /\ BrowseNext => BrowseInv'
  <2> SUFFICES ASSUME BrowseInv, BrowseNext PROVE BrowseInv'
    OBVIOUS
  <2>1. BrowseTypeOK'
    BY ServerStep, DeletesStep, DishStep, QueriesStep DEF BrowseTypeOK
  <2>2. DeletesWhatIsConfirmed'
    <3>1. Recipe \ OnServer \subseteq confirmed
      BY DEF BrowseInv, DeletesWhatIsConfirmed, OnServer
    <3>2. OnServer \ OnServer' \subseteq confirmed
      BY ServerStep DEF BrowseInv, DeletesAgreed
    <3>3. Recipe \ OnServer' \subseteq confirmed'
      BY <3>1, <3>2, DeletesStep
    <3>4. QED
      BY <3>3 DEF DeletesWhatIsConfirmed, OnServer
  <2>3. QED
    BY <2>1, <2>2, ListOKStep, DeletesStep DEF BrowseInv
<1>2. BrowseInv /\ UNCHANGED browseVars => BrowseInv'
  <2> SUFFICES ASSUME BrowseInv, UNCHANGED browseVars PROVE BrowseInv'
    OBVIOUS
  <2>1. UNCHANGED <<filter, queries, list, listFailed, listLoading>> /\ OnServer' = OnServer
        /\ UNCHANGED <<dish, servings, deletes, onServer, confirmed>>
    BY DEF browseVars, listVars, dishVars, OnServer
  <2>2. ListOK'
    BY <2>1, ListKept DEF BrowseInv
  <2>3. QED
    BY <2>1, <2>2 DEF BrowseInv, BrowseTypeOK, DeletesAgreed, DeletesWhatIsConfirmed
<1>3. QED
  BY <1>1, <1>2, BrowseStart, PTL DEF BrowseSpec

\* For any recipes, searches and tags, and any order of the answers, the list pages come to rest
\* on what the server has for what is selected (usePolling in RecipesPage and CookPickerPage).
THEOREM ListAnswers == BrowseSpec => []ListAnswersTheFilter
<1>1. BrowseInv => ListAnswersTheFilter
  <2> SUFFICES ASSUME BrowseInv, ~listLoading, ~listFailed
               PROVE  /\ Matching(filter) \subseteq list
                      /\ \A r \in list : Matches(filter, r)
                      /\ \A Shows \in {RecipesPageShows, CookPickerShows} :
                            Shows = IF list = {} THEN {"empty"} ELSE {"cards"}
    BY DEF ListAnswersTheFilter
  <2>1. list \in SUBSET Recipe /\ Matching(filter) \subseteq list
        /\ \A r \in list : Matches(filter, r)
    BY DEF BrowseInv, ListOK
  <2>2. list # Nothing
    BY <2>1, BrowseAssumption
  <2>3. RecipesPageShows = IF list = {} THEN {"empty"} ELSE {"cards"}
    BY <2>2 DEF RecipesPageShows, GridShows
  <2>4. CookPickerShows = IF list = {} THEN {"empty"} ELSE {"cards"}
    BY <2>2 DEF CookPickerShows
  <2>5. QED
    BY <2>1, <2>3, <2>4
<1>2. QED
  BY <1>1, BrowseInvariance, PTL

\* For any recipes and jumps in the history, a recipe that is gone was agreed to be deleted
\* (handleDelete of RecipeDetailPage).
THEOREM DeletionIsAgreed == BrowseSpec => []DeletesWhatIsConfirmed
<1>1. BrowseInv => DeletesWhatIsConfirmed
  BY DEF BrowseInv
<1>2. QED
  BY <1>1, BrowseInvariance, PTL

-----------------------------------------------------------------------------
(***************************************************************************)
(* The amounts and times on the page of a recipe.                          *)
(***************************************************************************)
LEMMA Parts ==
  ASSUME NEW r \in Nat
  PROVE  /\ 100 * (r \div 100) + (r % 100) = r /\ r \div 100 \in Nat /\ r % 100 \in 0..99
         /\ 60 * (r \div 60) + (r % 60) = r /\ r \div 60 \in Nat /\ r % 60 \in 0..59
OBVIOUS

\* scaleAmount is off by at most half a hundredth, for any amount and servings.
LEMMA ScaledAmount ==
  ASSUME NEW a \in Nat, NEW b \in Nat \ {0}, NEW n \in Nat
  PROVE  /\ ScaleAmount(a, b, n) \in Nat
         /\ 2 * (b * ScaleAmount(a, b, n)) - b <= 2 * (a * n)
         /\ 2 * (a * n) <= 2 * (b * ScaleAmount(a, b, n)) + b
<1> DEFINE x == 2 * a * n + b
           m == 2 * b
           r == x \div m
<1>1. x \in Nat /\ m \in Nat /\ m > 0
  OBVIOUS
<1> HIDE DEF x, m
<1>2. r \in Nat /\ m * r <= x /\ x < m * r + m
  BY <1>1
<1> HIDE DEF r
<1>3. m * r = 2 * (b * r)
  BY <1>2 DEF m
<1>4. x = 2 * (a * n) + b
  BY DEF x
<1>5. 2 * (b * r) - b <= 2 * (a * n) /\ 2 * (a * n) <= 2 * (b * r) + b
  BY <1>2, <1>3, <1>4 DEF m
<1>6. ScaleAmount(a, b, n) = r
  BY DEF ScaleAmount, r, x, m
<1>7. QED
  BY <1>2, <1>5, <1>6

\* formatAmount is off by less than the tolerance of the fractions, for any amount.
LEMMA FormattedAmount ==
  ASSUME NEW r \in Nat
  PROVE  /\ FormatAmount(r).whole \in Nat /\ FormatAmount(r).fraction \in Nat
         /\ 6 * r - (6 * Hundredth * FormatAmount(r).whole + FormatAmount(r).fraction) \in -8..8
<1> DEFINE w == r \div 100
           rest == r % 100
           near == {v \in Fractions : Close(6 * rest, v)}
<1>1. w \in Nat /\ rest \in Nat /\ 100 * w + rest = r
  BY Parts
<1>2. FormatAmount(r) = IF r > 0 /\ r < FRACTION_LIMIT /\ near # {}
                        THEN [whole |-> w, fraction |-> CHOOSE v \in near : TRUE]
                        ELSE [whole |-> w, fraction |-> 6 * rest]
  BY DEF FormatAmount, Hundredth
<1> HIDE DEF w, rest
<1>3. CASE FormatAmount(r) = [whole |-> w, fraction |-> 6 * rest]
  BY <1>1, <1>3 DEF Hundredth
<1>4. CASE near # {} /\ FormatAmount(r) = [whole |-> w, fraction |-> CHOOSE v \in near : TRUE]
  <2>1. PICK v \in near : v = CHOOSE u \in near : TRUE
    BY <1>4
  <2>2. v \in Nat /\ 6 * rest - v < 9 /\ v - 6 * rest < 9
    <3>1. v \in Fractions /\ Close(6 * rest, v)
      BY <2>1
    <3>2. QED
      BY <1>1, <3>1 DEF Fractions, Close, FRACTION_TOLERANCE
  <2>3. FormatAmount(r).whole = w /\ FormatAmount(r).fraction = v
    BY <1>4, <2>1
  <2>4. 6 * r - (600 * w + v) \in -8..8
    BY <1>1, <2>2
  <2>5. QED
    BY <1>1, <2>2, <2>3, <2>4 DEF Hundredth
<1>5. QED
  BY <1>2, <1>3, <1>4

LEMMA TimesBase ==
  ASSUME NEW b \in Nat, NEW d \in Int, -8 <= d, d <= 8
  PROVE  -(8 * b) <= b * d /\ b * d <= 8 * b
OBVIOUS

LEMMA AmountIsClose ==
  ASSUME NEW a \in Nat, NEW b \in Nat \ {0}, NEW n \in Nat
  PROVE  LET exact == 6 * a * n
             r == FormatAmount(ScaleAmount(a, b, n))
             shown == b * (6 * Hundredth * r.whole + r.fraction)
         IN  exact - shown <= 12 * b /\ shown - exact <= 12 * b
<1> DEFINE r == ScaleAmount(a, b, n)
           s == 6 * Hundredth * FormatAmount(r).whole + FormatAmount(r).fraction
<1>1. r \in Nat /\ 2 * (b * r) - b <= 2 * (a * n) /\ 2 * (a * n) <= 2 * (b * r) + b
  BY ScaledAmount
<1> HIDE DEF r
<1>2. s \in Nat /\ 6 * r - s \in -8..8
  BY <1>1, FormattedAmount DEF Hundredth
<1> HIDE DEF s
<1>3. -(8 * b) <= b * (6 * r - s) /\ b * (6 * r - s) <= 8 * b
  BY <1>1, <1>2, TimesBase
<1>4. b * (6 * r - s) = 6 * (b * r) - b * s
  BY <1>1, <1>2
<1>5. 6 * a * n = 6 * (a * n)
  OBVIOUS
<1>6. 6 * a * n - b * s <= 12 * b /\ b * s - 6 * a * n <= 12 * b
  <2>1. PICK p \in Int, q \in Int, t \in Int : p = a * n /\ q = b * r /\ t = b * s
    BY <1>1, <1>2
  <2>2. 2 * q - b <= 2 * p /\ 2 * p <= 2 * q + b /\ -(8 * b) <= 6 * q - t /\ 6 * q - t <= 8 * b
    BY <1>1, <1>3, <1>4, <2>1
  <2>3. 6 * p - t <= 12 * b /\ t - 6 * p <= 12 * b
    BY <2>2
  <2>4. QED
    BY <1>5, <2>1, <2>3
<1>7. QED
  BY <1>6 DEF r, s

\* For any amount, servings and times, what the page of a recipe shows is right up to the rounding
\* (scaleAmount, formatAmount and formatTotalTime of recipes/lib).
THEOREM AmountsAreRight == BrowseSpec => []QuantitiesAreRight
<1>1. BrowseInv => QuantitiesAreRight
  <2> SUFFICES ASSUME BrowseInv, DishShown
               PROVE  LET exact == 6 * dish.amount * TargetServings
                          shown == dish.base *
                                     (6 * Hundredth * AmountShown.whole + AmountShown.fraction)
                          minutes == IF TimeShown = Nothing THEN 0
                                     ELSE 60 * TimeShown.hours + TimeShown.minutes
                      IN  /\ exact - shown <= 12 * dish.base /\ shown - exact <= 12 * dish.base
                          /\ minutes = (IF dish.prep = Nothing THEN 0 ELSE dish.prep)
                                       + (IF dish.cook = Nothing THEN 0 ELSE dish.cook)
    BY DEF QuantitiesAreRight
  <2>1. dish \in Dish
    BY DEF BrowseInv, BrowseTypeOK, DishShown
  <2>2. dish.amount \in Nat /\ dish.base \in Nat \ {0} /\ TargetServings \in Nat
    BY <2>1, BrowseAssumption DEF Dish, TargetServings, BrowseInv, BrowseTypeOK
  <2>3. PICK a \in Nat, b \in Nat \ {0}, n \in Nat :
            a = dish.amount /\ b = dish.base /\ n = TargetServings
    BY <2>2
  <2>4. AmountShown = FormatAmount(ScaleAmount(a, b, n))
    BY <2>3 DEF AmountShown
  <2>5. LET exact == 6 * dish.amount * TargetServings
            shown == dish.base * (6 * Hundredth * AmountShown.whole + AmountShown.fraction)
        IN  exact - shown <= 12 * dish.base /\ shown - exact <= 12 * dish.base
    BY <2>3, <2>4, AmountIsClose
  <2> DEFINE prep == IF dish.prep = Nothing THEN 0 ELSE dish.prep
             cook == IF dish.cook = Nothing THEN 0 ELSE dish.cook
             total == prep + cook
  <2>6. prep \in Nat /\ cook \in Nat
    BY <2>1, BrowseAssumption DEF Dish
  <2>7. TimeShown = IF total = 0 THEN Nothing
                    ELSE [hours |-> total \div 60, minutes |-> total % 60]
    BY DEF TimeShown, FormatTotalTime
  <2>8. total \in Nat
    BY <2>6
  <2> HIDE DEF total
  <2>9. (IF TimeShown = Nothing THEN 0 ELSE 60 * TimeShown.hours + TimeShown.minutes) = total
    <3>1. CASE total = 0
      BY <2>7, <3>1
    <3>2. CASE total # 0
      <4>1. PICK h \in Nat, m \in Nat :
                h = total \div 60 /\ m = total % 60 /\ 60 * h + m = total
        BY <2>8, Parts
      <4>2. TimeShown = [hours |-> h, minutes |-> m]
        BY <2>7, <3>2, <4>1
      <4>3. TimeShown # Nothing
        BY <4>2, BrowseAssumption
      <4>4. QED
        BY <4>1, <4>2, <4>3
    <3>3. QED
      BY <3>1, <3>2
  <2>10. QED
    BY <2>5, <2>9 DEF total
<1>2. QED
  BY <1>1, BrowseInvariance, PTL
=============================================================================
