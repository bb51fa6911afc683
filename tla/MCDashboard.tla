---------------------------- MODULE MCDashboard ----------------------------
(***************************************************************************)
(* The pages of modules/devices, home, shopping, todo and calendar, one at *)
(* a time: each is explored for itself, with the state of the others as    *)
(* it is at the start.                                                     *)
(***************************************************************************)
EXTENDS LightControls, SharedLists, RoomLayout, DevicePage, Timeline, RoomSections

VARIABLE page

MCBrightness == {"brightness"}
MCColorTemp == {"colorTemp"}
MCWheel == {"hue", "saturation"}
MCControl == {MCBrightness, MCWheel}
MCAttribute == MCBrightness \cup MCWheel

\* Two sensors and a switch in the room, one device elsewhere.
MCInRoom == {1, 2, 3}
MCFieldsOf ==
    [d \in 1..4 |-> IF d = 1 THEN {"temperature", "humidity"}
                    ELSE IF d = 2 THEN {"contact"} ELSE {"state"}]

AtTheStart ==
    /\ page = "light" \/ (~lit /\ tab = "white" /\ \A a \in Attribute : light[a] = Default)
    /\ page = "lists" \/ listKind = "todo"
    /\ page = "layout" \/ layoutEntry = Absent

MCInit ==
    /\ page \in {"light", "lists", "layout", "device", "timeline", "sections"}
    /\ Init /\ ListsInit /\ LayoutInit /\ DevicePageInit /\ TimelineInit /\ SectionsInit
    /\ AtTheStart

MCNext ==
    /\ UNCHANGED page
    /\ \/ page = "light" /\ Next
          /\ UNCHANGED <<listsVars, layoutVars, deviceVars, timelineVars, sectionVars>>
       \/ page = "lists" /\ ListsNext
          /\ UNCHANGED <<vars, layoutVars, deviceVars, timelineVars, sectionVars>>
       \/ page = "layout" /\ LayoutNext
          /\ UNCHANGED <<vars, listsVars, deviceVars, timelineVars, sectionVars>>
       \/ page = "device" /\ DevicePageNext
          /\ UNCHANGED <<vars, listsVars, layoutVars, timelineVars, sectionVars>>
       \/ page = "timeline" /\ TimelineNext
          /\ UNCHANGED <<vars, listsVars, layoutVars, deviceVars, sectionVars>>
       \/ page = "sections" /\ SectionsNext
          /\ UNCHANGED <<vars, listsVars, layoutVars, deviceVars, timelineVars>>

MCSpec ==
    MCInit /\ [][MCNext]_<<page, vars, listsVars, layoutVars, deviceVars, timelineVars,
                           sectionVars>>
=============================================================================
