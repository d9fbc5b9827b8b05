--------------------------- MODULE MCMonitor ---------------------------
(* An instance of Monitor for TLC: a line that takes two rows and more. *)
EXTENDS Monitor

MCPrompt == <<">">>
MCInput  == {"x", Space, BS, DEL, "\n", "\r", "\t"}
MCOutput == {"o", "\n", "\r", "\t"}
=========================================================================
