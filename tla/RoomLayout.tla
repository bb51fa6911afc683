----------------------------- MODULE RoomLayout -----------------------------
(***************************************************************************)
(* The layout of the room cards (frontend/src/modules/home/pages/          *)
(* RoomOverviewPage.tsx, lib/roomLayoutStorage.ts): what the user arranges *)
(* in edit mode is kept in localStorage until it is reset.                 *)
(*                                                                         *)
(* The grid (react-grid-layout, external) reports the layout it has made   *)
(* of its props when it is mounted, and when its props have changed it,    *)
(* before the user can do anything else.                                   *)
(***************************************************************************)
CONSTANTS
    Arranged,  \* layouts a user makes
    Automatic, \* the layout the grid computes for itself
    Absent,    \* null: no layout, nothing stored, no grid
    Broken     \* an entry that is not JSON

ASSUME LayoutAssumption ==
    /\ Absent # Broken /\ {Absent, Broken} \cap Arranged = {}
    /\ Automatic \notin Arranged \cup {Absent, Broken}

VARIABLES
    readings,   \* the rooms have been loaded
    editing, layouts,
    suppress,   \* suppressNextSaveRef
    layoutEntry, \* localStorage
    grid,       \* the layout the grid shows
    report,     \* the grid will call onLayoutChange
    wished,     \* ghost: what the user last arranged, Absent after a reset
    swallowed,  \* ghost: a change is not saved, the storage being full or a reset that
                \*   changed nothing on the grid having left the ref set
    adopted     \* ghost: the grid was mounted in edit mode without a layout

layoutVars == <<readings, editing, layouts, suppress, layoutEntry, grid, report, wished, swallowed,
                adopted>>

\* The JSX: fluid cards, or the grid.
GridShown == readings /\ (editing \/ layouts # Absent)
CardsShown == readings /\ ~editing /\ layouts = Absent

\* loadRoomLayout
LoadRoomLayout(entry) == IF entry = Broken THEN Absent ELSE entry

\* The grid follows the page: it is mounted, unmounted or given other props.
Follow ==
    LET target == IF layouts' = Absent THEN Automatic ELSE layouts'
    IN  IF GridShown' THEN grid' = target /\ report' = (grid # target)
        ELSE grid' = Absent /\ report' = FALSE

\* Fault: the report after a reset is saved like any other.
FaultSuppressed == FALSE

Suppressed == ~editing \/ suppress

\* handleLayoutChange; nothing catches the error of a storage that is full.
HandleLayoutChange(l, fits) ==
    /\ layouts' = l
    /\ IF Suppressed THEN suppress' = FALSE /\ UNCHANGED layoutEntry
       ELSE layoutEntry' = (IF fits THEN l ELSE layoutEntry) /\ UNCHANGED suppress

Report ==
    /\ report
    /\ HandleLayoutChange(grid, TRUE)
    /\ report' = FALSE
    /\ UNCHANGED <<readings, editing, grid, wished, swallowed, adopted>>

\* A card is dragged or resized.
Arrange(l, fits) ==
    /\ GridShown /\ editing /\ ~report
    /\ l # grid
    /\ grid' = l
    /\ HandleLayoutChange(l, fits)
    /\ wished' = l
    /\ swallowed' = ((swallowed /\ suppress) \/ ~fits)
    /\ adopted' = FALSE
    /\ UNCHANGED <<readings, editing, report>>

\* Fault: the entry stays.
FaultHandleReset ==
    /\ editing /\ ~report
    /\ suppress' = TRUE
    /\ layouts' = Absent
    /\ wished' = Absent
    /\ UNCHANGED <<readings, editing, layoutEntry>>
    /\ Follow
    /\ swallowed' = ~report' /\ adopted' = FALSE

\* handleReset: the ref is meant for the report of this change.
HandleReset ==
    /\ editing /\ ~report
    /\ layoutEntry' = Absent
    /\ suppress' = TRUE
    /\ layouts' = Absent
    /\ wished' = Absent
    /\ UNCHANGED <<readings, editing>>
    /\ Follow
    /\ swallowed' = ~report' /\ adopted' = FALSE

ToggleEditing ==
    /\ ~report
    /\ editing' = ~editing
    /\ UNCHANGED <<readings, layouts, suppress, layoutEntry, wished, swallowed>>
    /\ Follow
    /\ adopted' = (adopted \/ (report' /\ editing' /\ layouts = Absent))

ReadingsArrive ==
    /\ ~readings
    /\ readings' = TRUE
    /\ UNCHANGED <<editing, layouts, suppress, layoutEntry, wished, swallowed>>
    /\ Follow
    /\ adopted' = (adopted \/ (report' /\ editing' /\ layouts = Absent))

\* The page is loaded from nothing.
Load ==
    /\ readings' = FALSE /\ editing' = FALSE
    /\ layouts' = LoadRoomLayout(layoutEntry)
    /\ suppress' = FALSE /\ swallowed' = FALSE /\ adopted' = FALSE
    /\ wished' = LoadRoomLayout(layoutEntry)
    /\ grid' = Absent /\ report' = FALSE
    /\ UNCHANGED layoutEntry

\* The page is loaded again, or left and come back to.
ReloadLayout == ~report /\ Load

\* The storage is full when the grid reports by itself: the error takes the page down.
ReportFails == report /\ ~Suppressed /\ Load

LayoutInit ==
    /\ readings = FALSE /\ editing = FALSE /\ suppress = FALSE
    /\ layoutEntry \in {Absent, Broken}
    /\ layouts = LoadRoomLayout(layoutEntry)
    /\ grid = Absent /\ report = FALSE /\ wished = Absent
    /\ swallowed = FALSE /\ adopted = FALSE

LayoutNext ==
    \/ Report \/ ReportFails \/ HandleReset \/ ToggleEditing \/ ReadingsArrive
    \/ ReloadLayout
    \/ \E l \in Arranged, fits \in BOOLEAN : Arrange(l, fits)

LayoutSpec == LayoutInit /\ [][LayoutNext]_layoutVars

(***************************************************************************)
(* Properties.                                                             *)
(***************************************************************************)
\* What the user has arranged is what a reload brings back, and after a reset it brings back
\* nothing, whatever the grid reports by itself.  Three exceptions: a full storage, until a
\* change is saved again; after a reset that changed nothing on the grid the ref still waits
\* for a report, and the next change is not saved; and a grid mounted in edit mode without a
\* layout has its own one saved.
LayoutIsKept == ~swallowed /\ ~adopted => LoadRoomLayout(layoutEntry) = wished

\* "don't persist that, only user-driven changes made while editing"
OnlyUserChangesAreSaved == layoutEntry \in Arranged \cup {Absent, Broken}
=============================================================================
