----------------------------- MODULE NameLedger -----------------------------
(***************************************************************************)
(* What the device registry promises about names, without saying how: a    *)
(* ledger of claims.  Every MQTT name belongs to at most one device, the   *)
(* first one to claim it keeps it, and only forgetting the device gives    *)
(* its names back.  backend-python/README.md states it as "`alias` is      *)
(* globally unique.  A name identifies at most one device, first claimant  *)
(* wins."                                                                  *)
(***************************************************************************)
CONSTANTS
    Ieee,     \* hardware addresses
    Name,     \* MQTT names; an address is itself a possible name
    Nobody    \* the claimant of an unclaimed name

VARIABLES
    members,  \* the devices the ledger knows
    claim     \* claim[n] is the device that holds name n, or Nobody

ledgerVars == <<members, claim>>

Init ==
    /\ members = {}
    /\ claim = [n \in Name |-> Nobody]

\* Devices join, and members take names that nobody holds; no name changes hands.
Record ==
    /\ members \subseteq members'
    /\ members' \subseteq Ieee
    /\ claim' = [n \in Name |-> claim'[n]]
    /\ \A n \in Name :
          \/ claim'[n] = claim[n]
          \/ claim[n] = Nobody /\ claim'[n] \in members'

\* A device is forgotten, and exactly its names are free again.
Forget(a) ==
    /\ members' = members \ {a}
    /\ claim' = [n \in Name |-> IF claim[n] = a THEN Nobody ELSE claim[n]]

Next == Record \/ \E a \in members : Forget(a)

Spec == Init /\ [][Next]_ledgerVars
=============================================================================
