---------------------------- MODULE RecipeStore -----------------------------
(***************************************************************************)
(* app/recipe/service.py over PostgreSQL at read committed: creating,      *)
(* updating and deleting recipes and creating tags, statement by           *)
(* statement, since each request is a transaction of its own and they      *)
(* overlap in the thread pool.                                             *)
(*                                                                         *)
(* The database is external and modelled from what the code relies on: a   *)
(* statement sees what was committed when it started; a row that is being  *)
(* changed makes the next writer wait; a name that is being inserted makes *)
(* the next one who inserts it wait.  A save writes one row to each of the *)
(* tables of a recipe, which stands for all it has there.                  *)
(***************************************************************************)
EXTENDS Recipes, Sequences, SequencesExt

CONSTANTS
    Transaction, \* requests; each writes rows of its own
    First,       \* the save the database starts with
    Title,       \* columns of a recipe: its title stands for all of them
    TagName,     \* names of tags
    Jobs         \* what is asked for

Table == {"recipe_ingredient", "recipe_step", "recipe_tag"}
Job == [kind : {"create", "update", "delete", "tag"}, recipe : Recipe, title : Title,
        tags : Seq(TagName)]

ASSUME StoreAssumption ==
    /\ Jobs \subseteq Job /\ \A j \in Jobs : IsInjective(j.tags)
    /\ First \notin Transaction /\ Nothing \notin Title

VARIABLES
    recipe,   \* the committed rows: the title of each recipe, Nothing if there is none
    children, \* the committed rows of its tables: [recipe, table, by]
    tag,      \* the committed tags
    at,       \* at[t]: the statement t is about to execute
    job,      \* job[t]: its request
    known,    \* known[t]: the title session.get returned
    title,    \* title[t]: the title its UPDATE has left in the row, not committed
    sees,     \* sees[t]: the rows its DELETE found when it started, <<>> between statements
    deleted, inserted, \* rows, not committed
    newTags,  \* tags, not committed
    links,    \* links[t]: tags it has still to find or create
    \* what the property remembers:
    lastSave, \* lastSave[r]: who saved r last
    overtaken \* transactions during which another one has saved the same recipe

tables == <<recipe, children, tag>>
session == <<job, known, title, sees, deleted, inserted, newTags, links>>
storeVars == <<tables, at, session, lastSave, overtaken>>

RowsOf(r, by) == [recipe : {r}, table : Table, by : {by}]
Tagged(j) == j.tags # <<>>
Active(t) == at[t] \notin {"new", "ended"}

\* The row of the recipe is locked from the UPDATE or DELETE of it to the end.
Holds(t, r) == at[t] \notin {"new", "load", "write", "ended"} /\ job[t].kind # "tag"
               /\ job[t].recipe = r
Free(r) == \A t \in Transaction : ~Holds(t, r)

StoreInit ==
    /\ \E r \in Recipe, t \in Title :
          /\ recipe = [x \in Recipe |-> IF x = r THEN t ELSE Nothing]
          /\ children = RowsOf(r, First)
    /\ tag = {}
    /\ at = [t \in Transaction |-> "new"]
    /\ job = [t \in Transaction |-> Nothing]
    /\ known = job /\ title = job
    /\ sees = [t \in Transaction |-> <<>>]
    /\ deleted = [t \in Transaction |-> {}]
    /\ inserted = deleted /\ newTags = deleted
    /\ links = sees
    /\ lastSave = [r \in Recipe |-> First]
    /\ overtaken = {}

Goto(t, next) == at' = [at EXCEPT ![t] = next]
Saves(t) == job[t].kind \in {"create", "update"}

Begin(t, j) ==
    /\ at[t] = "new"
    /\ job' = [job EXCEPT ![t] = j]
    /\ Goto(t, CASE j.kind = "create" -> "insert"
                 [] j.kind = "tag" -> "find"
                 [] OTHER -> "load")
    \* Ids come from a sequence: a created recipe is one nobody has had before.
    /\ j.kind = "create" =>
          /\ recipe[j.recipe] = Nothing
          /\ j.recipe \notin {job[u].recipe : u \in {x \in Transaction : at[x] # "new"}}
    /\ links' = [links EXCEPT ![t] = IF j.kind = "delete" THEN <<>> ELSE j.tags]
    /\ UNCHANGED <<tables, known, title, sees, deleted, inserted, newTags, lastSave, overtaken>>

\* The transaction is rolled back and the request answered with an error.
Fail(t) == Goto(t, "ended") /\ UNCHANGED <<tables, session, lastSave, overtaken>>

\* session.get, or 404.
Load(t) ==
    /\ at[t] = "load"
    /\ IF recipe[job[t].recipe] = Nothing THEN Fail(t)
       ELSE /\ known' = [known EXCEPT ![t] = recipe[job[t].recipe]]
            /\ Goto(t, "write")
            /\ UNCHANGED <<tables, job, title, sees, deleted, inserted, newTags, links, lastSave,
                           overtaken>>

\* Fault: nothing is written, and nothing locked, unless the title has changed.
FaultWritable(t) == job[t].title = known[t] \/ Free(job[t].recipe)

Writable(t) == Free(job[t].recipe)

\* The flush of the recipe: an UPDATE of the columns whose value differs from the one loaded, and
\* of updated_at in any case; or its DELETE.  It waits for the row.  If that has gone, the UPDATE
\* fails and the DELETE, which is only warned of, has nothing to commit: neither changes anything.
WriteRecipe(t) ==
    /\ at[t] = "write" /\ Writable(t)
    /\ IF recipe[job[t].recipe] = Nothing THEN Fail(t)
       ELSE /\ title' = [title EXCEPT ![t] = IF job[t].title = known[t]
                                             THEN recipe[job[t].recipe] ELSE job[t].title]
            /\ Goto(t, IF job[t].kind = "delete" THEN "commit" ELSE "recipe_ingredient")
            /\ UNCHANGED <<tables, job, known, sees, deleted, inserted, newTags, links, lastSave,
                           overtaken>>

NextTable(table) ==
    CASE table = "recipe_ingredient" -> "recipe_step"
      [] table = "recipe_step" -> "recipe_tag"
      [] OTHER -> "insert"

\* DELETE FROM table WHERE recipe_id = ...: what it sees is fixed when it starts.
StartDelete(t) ==
    /\ at[t] \in Table /\ sees[t] = <<>>
    /\ sees' = [sees EXCEPT ![t] =
                   <<{r \in children : r.recipe = job[t].recipe /\ r.table = at[t]}>>]
    /\ UNCHANGED <<tables, at, job, known, title, deleted, inserted, newTags, links, lastSave,
                   overtaken>>

\* It waits for every row another transaction has deleted, and passes over those that are gone
\* then.
EndDelete(t) ==
    /\ at[t] \in Table /\ sees[t] # <<>>
    /\ \A u \in Transaction \ {t} : Active(u) => deleted[u] \cap sees[t][1] = {}
    /\ deleted' = [deleted EXCEPT ![t] = @ \cup (sees[t][1] \cap children)]
    /\ sees' = [sees EXCEPT ![t] = <<>>]
    /\ Goto(t, NextTable(at[t]))
    /\ UNCHANGED <<tables, job, known, title, inserted, newTags, links, lastSave, overtaken>>

\* _persist_ingredients and _persist_steps.
InsertRows(t) ==
    /\ at[t] = "insert"
    /\ inserted' = [inserted EXCEPT ![t] =
                       {r \in RowsOf(job[t].recipe, t) : r.table # "recipe_tag"}]
    /\ title' = [title EXCEPT ![t] = IF job[t].kind = "create" THEN job[t].title ELSE @]
    /\ Goto(t, "find")
    /\ UNCHANGED <<tables, job, known, sees, deleted, newTags, links, lastSave, overtaken>>

Linked(t) ==
    inserted' = [inserted EXCEPT ![t] =
                    IF Saves(t) THEN @ \cup {[recipe |-> job[t].recipe, table |-> "recipe_tag",
                                              by |-> t]} ELSE @]

\* The first half of find_or_create: the SELECT.
FindTag(t) ==
    /\ at[t] = "find"
    /\ IF links[t] = <<>>
       THEN Goto(t, "commit") /\ UNCHANGED <<inserted, links>>
       ELSE IF Head(links[t]) \in tag
       THEN /\ links' = [links EXCEPT ![t] = Tail(@)]
            /\ Linked(t)
            /\ UNCHANGED at
       ELSE Goto(t, "create") /\ UNCHANGED <<inserted, links>>
    /\ UNCHANGED <<tables, job, known, title, sees, deleted, newTags, lastSave, overtaken>>

\* t waits for the name u has inserted and not committed.
WaitsFor(t, u) ==
    at[t] = "create" /\ Active(u) /\ u # t /\ Head(links[t]) \in newTags[u]

\* The second half: the INSERT, which fails if the name has been committed since.
CreateTag(t) ==
    /\ at[t] = "create" /\ ~\E u \in Transaction : WaitsFor(t, u)
    /\ IF Head(links[t]) \in tag THEN Fail(t)
       ELSE /\ newTags' = [newTags EXCEPT ![t] = @ \cup {Head(links[t])}]
            /\ links' = [links EXCEPT ![t] = Tail(@)]
            /\ Linked(t)
            /\ Goto(t, "find")
            /\ UNCHANGED <<tables, job, known, title, sees, deleted, lastSave, overtaken>>

\* Two transactions that wait for each other: the database ends one of them.
Deadlock(t) ==
    /\ \E u \in Transaction : WaitsFor(t, u) /\ WaitsFor(u, t)
    /\ Fail(t)

\* The connection or the process dies.
Die(t) == Active(t) /\ Fail(t)

Commit(t) ==
    /\ at[t] = "commit"
    /\ Goto(t, "ended")
    /\ tag' = tag \cup newTags[t]
    /\ LET r == job[t].recipe
       IN CASE job[t].kind = "tag" -> UNCHANGED <<recipe, children, lastSave, overtaken>>
            [] job[t].kind = "delete" ->
                 /\ recipe' = [recipe EXCEPT ![r] = Nothing]
                 /\ children' = {c \in children : c.recipe # r} \* ON DELETE CASCADE
                 /\ UNCHANGED <<lastSave, overtaken>>
            [] OTHER ->
                 /\ recipe' = [recipe EXCEPT ![r] = title[t]]
                 /\ children' = (children \ deleted[t]) \cup inserted[t]
                 /\ lastSave' = [lastSave EXCEPT ![r] = t]
                 /\ overtaken' = overtaken \cup
                       {u \in Transaction \ {t} :
                              at[u] \notin {"new", "load", "ended"} /\ job[u].recipe = r}
    /\ UNCHANGED session

StoreNext ==
    \E t \in Transaction :
        \/ \E j \in Jobs : Begin(t, j)
        \/ Load(t) \/ WriteRecipe(t)
        \/ StartDelete(t) \/ EndDelete(t) \/ InsertRows(t)
        \/ FindTag(t) \/ CreateTag(t) \/ Deadlock(t)
        \/ Commit(t) \/ Die(t)

StoreSpec == StoreInit /\ [][StoreNext]_storeVars

-----------------------------------------------------------------------------
\* A recipe that exists has the ingredients, steps and tags of its last save and of no other, and
\* one that does not exist has none, whatever updates, deletes and failures overlap: the row of
\* the recipe is written first and makes the next save wait.  Its columns are those of the last
\* save too, unless another save was committed while that one was under way: a column that was
\* not changed is not written, and keeps what the other save put there.
StoredRecipeIsOneSave ==
    \A r \in Recipe :
        LET rows == {c \in children : c.recipe = r}
            by == lastSave[r]
        IN  IF recipe[r] = Nothing THEN rows = {}
            ELSE IF by = First THEN rows = RowsOf(r, First)
            ELSE /\ rows = {c \in RowsOf(r, by) : c.table = "recipe_tag" => Tagged(job[by])}
                 /\ by \notin overtaken => recipe[r] = job[by].title
=============================================================================
