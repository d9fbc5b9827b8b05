--------------------------- MODULE MCKeyboard ---------------------------
(* An instance of Keyboard for TLC: a key of each kind. *)
EXTENDS Keyboard

MCKeys == {"a", "keypadDot", "delete", "rightCtrl", "leftAlt", "leftShift",
           "rightShift", "capsLock", "pause"}
=========================================================================
