------------------------------- MODULE Desktop -------------------------------
(***************************************************************************)
(* What the calls of KokoroBox Desktop into the native module have in      *)
(* common: they run on libuv's worker threads, several at once and without *)
(* a lock between them, on one of three operating systems.                 *)
(***************************************************************************)

CONSTANTS
  Callers,  \* calls that may be under way at once
  Systems   \* operating systems to consider

ASSUME SystemsAssumption == Systems \subseteq {"linux", "macos", "windows"}

None == "none"

ASSUME CallersAssumption == None \notin Callers

==============================================================================
