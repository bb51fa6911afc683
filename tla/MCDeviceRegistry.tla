-------------------------- MODULE MCDeviceRegistry --------------------------
(***************************************************************************)
(* Two devices and two further names.  One type is enough: no property     *)
(* tells types apart.                                                      *)
(***************************************************************************)
EXTENDS DeviceRegistry, TLC

CONSTANTS d1, d2, kitchen, hall

MCIeee == {d1, d2}
MCName == {d1, d2, kitchen, hall}
MCDerivedType == [a \in MCIeee |-> "SENSOR"]

\* The two devices are alike, and so are the two names.
MCSymmetry == Permutations(MCIeee) \cup Permutations({kitchen, hall})
=============================================================================
