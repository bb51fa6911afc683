--------------------------- MODULE MCLightToggle ----------------------------
(***************************************************************************)
(* One light.                                                              *)
(***************************************************************************)
EXTENDS LightToggle

CONSTANTS lamp

MCTarget == {lamp}
=============================================================================
