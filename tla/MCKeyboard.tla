----------------------------- MODULE MCKeyboard -----------------------------
(***************************************************************************)
(* Four keys, among them a shift and an extended key, a ring of three      *)
(* entries of which two lie inside the block, and three pressed_keys. Both *)
(* are overrun.                                                            *)
(***************************************************************************)
EXTENDS Keyboard

KEY_A == 30
KEY_B == 48
MCKeys == {KEY_A, KEY_B, LEFT_SHIFT, RIGHT_CTRL}
=============================================================================
