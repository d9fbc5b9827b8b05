-------------------------- MODULE MCSyscalls --------------------------
(***************************************************************************)
(* Processes for TLC: two that sleep, one of which kills, and one that     *)
(* passes pointers.  They have nothing to do with each other.              *)
(***************************************************************************)
EXTENDS Syscalls

MCTeams == {{1, 2}, {3}}
MCUses == <<{"sleep"}, {"sleep", "kill", "uptime"},
            {"getpid", "sbrk", "date", "read", "open", "unknown"}>>
MCStack == <<{2, M - 1}, {0, 1, 2}, Word>>
=========================================================================
