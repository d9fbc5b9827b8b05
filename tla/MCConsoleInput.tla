------------------------- MODULE MCConsoleInput -------------------------
(* Instances of ConsoleInput for TLC; the configurations give the bounds. *)
EXTENDS ConsoleInput
=========================================================================
