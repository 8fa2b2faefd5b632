----------------------------- MODULE MCKeyboard -----------------------------
(***************************************************************************)
(* A keyboard of eight keys for TLC: both shifts, caps, a letter, a keypad  *)
(* key with a character, a key without one, one beyond the table, Pause.    *)
(***************************************************************************)
EXTENDS Keyboard

PlainKeys == {"LSHIFT", "RSHIFT", "CAPS", "A", "CTRL", "NUM"}
ExtendedKeys == {"SLASH"}
=============================================================================
