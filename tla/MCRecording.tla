---- MODULE MCRecording ----
(* Three events make a drag with a notch or a key inside it, a text broken   *)
(* by a click, two scrolls that join or not, a shortcut within the session   *)
(* of an input method, or after it.                                          *)
EXTENDS Recording
====
