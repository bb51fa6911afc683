-------------------------- MODULE MCLightControls ---------------------------
(***************************************************************************)
(* A colour light with its brightness slider and its wheel, two values of  *)
(* everything; and a plain light with two sliders.                         *)
(***************************************************************************)
EXTENDS LightControls

MCBrightness == {"brightness"}
MCColorTemp == {"colorTemp"}
MCWheel == {"hue", "saturation"}
MCColorLight == {MCBrightness, MCWheel}
MCColorAttributes == MCBrightness \cup MCWheel
MCDimmer == {MCBrightness}
=============================================================================
