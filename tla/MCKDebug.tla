---------------------------- MODULE MCKDebug ----------------------------
(***************************************************************************)
(* Instances of KDebug for TLC.  The tables have the shape of the one the  *)
(* linker makes of the kernel's objects: entry 0 is a header; each object  *)
(* begins with an N_SO that names its source, and ends with one that has   *)
(* no name; the functions of an object come with their parameters, then    *)
(* their lines, in the order of their addresses, the first one where the   *)
(* object begins; an object in assembly has lines and no function; lines   *)
(* and functions of an included file follow an N_SOL that names it.        *)
(***************************************************************************)
EXTENDS KDebug, SequencesExt

MCTypes == {"header", "SO", "FUN", "SOL", "PSYM", "SLINE"}
MCULIM == 2

Stab(ty, value, name) == [n_type |-> ty, n_value |-> value, n_strx |-> name]

\* A function: N_FUN, its parameters, and a line.
Function(start, name, params) ==
    <<Stab("FUN", start, name)>>
        \o [i \in 1 .. params |-> Stab("PSYM", 8, "param")]
        \o <<Stab("SLINE", 0, "none")>>

CObject(start, end, mid, file, params) ==
    <<Stab("SO", start, file)>>
        \o Function(start, file \o ":first", params)
        \o Function(mid, file \o ":second", 0)
        \o <<Stab("SO", end, "none")>>

\* A header's inline function in the middle of an object.
InlineObject(start, end, mid, file, params) ==
    <<Stab("SO", start, file)>>
        \o Function(start, BadStrx, params)
        \o <<Stab("SOL", mid, "inc/x86.h")>>
        \o Function(mid, "inline", 1)
        \o <<Stab("SO", end, "none")>>

\* The same expanded inside a function's body: lines of another file between
\* lines of its own.
ExpandedObject(start, end, mid, file, params) ==
    <<Stab("SO", start, file)>>
        \o Function(start, file \o ":first", params)
        \o <<Stab("SOL", start + 1, "inc/x86.h"), Stab("SLINE", 1, "none"),
             Stab("SOL", start + 2, file), Stab("SLINE", 2, "none")>>
        \o Function(mid, file \o ":second", 0)
        \o <<Stab("SOL", mid + 1, "inc/x86.h"), Stab("SLINE", 1, "none")>>
        \o <<Stab("SO", end, "none")>>

AsmObject(start, end, mid, file, params) ==
    <<Stab("SO", start, file), Stab("SLINE", start, "none"), Stab("SLINE", mid, "none")>>

Header == <<Stab("header", 0, "none")>>

\* Two objects side by side, and the addresses around and inside them.
Objects(start, end, file, params) ==
    {CObject(start, end, start + 2, file, params),
     InlineObject(start, end, start + 3, file, params),
     ExpandedObject(start, end, start + 3, file, params),
     AsmObject(start, end, start + 1, file, params)}

Linked == {Header \o a \o b :
            a \in UNION {Objects(4, 10, "a", params) : params \in 0 .. 2},
            b \in UNION {Objects(10, 16, "b", params) : params \in 0 .. 2}}
          \cup {Header \o a \o b :
            a \in Objects(4, 9, "a", 1), b \in Objects(11, 16, "b", 1)}

MCTables == {[i \in 0 .. Len(t) - 1 |-> t[i + 1]] : t \in Linked}
MCAddrs == 1 .. 18
=========================================================================
