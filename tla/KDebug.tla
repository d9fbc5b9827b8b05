----------------------------- MODULE KDebug -----------------------------
(***************************************************************************)
(* debuginfo_eip of lab/kern/kdebug.c: from an instruction address to the  *)
(* file and the function that contain it, by one binary search among the   *)
(* N_SO entries of the symbol table and a second one, among the N_FUN      *)
(* entries of the region the first one found.  The searches are those of   *)
(* StabSearch, step by step.                                               *)
(***************************************************************************)
EXTENDS StabSearch

CONSTANTS
    ULIM,       \* addresses below it belong to user programs
    BadStrx     \* an n_strx that points outside the string table

ASSUME TypesAssumption == {"SO", "FUN", "SOL", "PSYM", "SLINE"} \subseteq Types
ASSUME ULIMAssumption == ULIM \in Nat

\* What the linker makes of the objects' tables.
Of(t, ty) == {i \in DOMAIN t : t[i].n_type = ty}
InTypeOrder(t, i, j) == t[i].n_value <= t[j].n_value /\ t[j].n_value # t[i].n_value + 1
SameFile(t, i, j) == \A k \in i + 1 .. j : t[k].n_type # "SO"
ASSUME LinkedAssumption ==
    \A t \in Tables :
        \* Entry 0 is a header; files are in the order of their addresses,
        /\ 0 \in DOMAIN t /\ 0 \notin Of(t, "SO")
        /\ \A i \in Of(t, "SO") : t[i].n_value # 0
        /\ \A i, j \in Of(t, "SO") : i < j => InTypeOrder(t, i, j)
        \* and so are the functions of a file, the first of which begins
        \* no later than the file;
        /\ \A i, j \in Of(t, "FUN") : i < j /\ SameFile(t, i, j) => InTypeOrder(t, i, j)
        /\ \A s \in Of(t, "SO"), f \in Of(t, "FUN") : s < f /\ SameFile(t, s, f) =>
                \E g \in Of(t, "FUN") \cap s + 1 .. f : t[g].n_value <= t[s].n_value
        \* the parameters of a function follow it at once, and are
        \* followed by something else than the next function or file.
        /\ \A f \in Of(t, "FUN"), p \in Of(t, "PSYM") :
                f < p /\ (\A k \in f + 1 .. p : t[k].n_type \notin {"SO", "FUN"}) =>
                    /\ \A k \in f + 1 .. p : k \in Of(t, "PSYM")
                    /\ p + 1 \in DOMAIN t
                    /\ t[p + 1].n_type \notin {"SO", "FUN"}

VARIABLES
    eip,                        \* the argument
    stabstr_ok,                 \* the string table is not empty, and ends in NUL
    info,                       \* *info
    lfile, rfile, lfun, rfun,   \* locals
    step,                       \* "entry", "file", "function", "return"
    ret                         \* "ok" (0), "fail" (-1) or "panic"

lookup == <<eip, stabstr_ok, info, lfile, rfile, lfun, rfun, step, ret>>
kvars == <<searchVars, lookup>>

LastStab == Cardinality(DOMAIN stabs) - 1
Value == [i \in DOMAIN stabs |-> stabs[i].n_value]
HasType(i, ty) == stabs[i].n_type = ty

Unknown == "<unknown>"
NameOr(i, default) == IF stabs[i].n_strx = BadStrx THEN default ELSE stabs[i].n_strx

KInit ==
    /\ stabs \in Tables
    /\ eip \in Addrs
    /\ stabstr_ok \in BOOLEAN
    /\ info = [eip_file |-> Unknown, eip_line |-> 0, eip_fn_name |-> Unknown,
               eip_fn_addr |-> eip, eip_fn_narg |-> 0]
    /\ lfile = 0 /\ rfile = 0 /\ lfun = 0 /\ rfun = 0
    /\ step = "entry" /\ ret = "ok"
    /\ type = "SO" /\ addr = 0
    /\ region_left = 0 /\ region_right = 0 /\ l = 0 /\ r = 0
    /\ any_matches = FALSE
    /\ at = "idle"
    /\ call = [left |-> 0, right |-> 0, addr |-> 0]

---------------------------------------------------------------------------
Fail(how) ==
    /\ step' = "return"
    /\ ret' = how
    /\ UNCHANGED <<searchVars, eip, stabstr_ok, info, lfun, rfun>>

\* User addresses cannot be looked up yet; the string table is checked first.
Entry ==
    /\ step = "entry"
    /\ \/ eip < ULIM /\ Fail("panic") /\ UNCHANGED <<lfile, rfile>>
       \/ eip >= ULIM /\ ~stabstr_ok /\ Fail("fail") /\ UNCHANGED <<lfile, rfile>>
       \/ /\ eip >= ULIM
          /\ stabstr_ok
          /\ Call(0, LastStab, "SO", eip)
          /\ step' = "file"
          /\ UNCHANGED <<eip, stabstr_ok, info, lfile, rfile, lfun, rfun, ret>>

\* Mutant: the function is searched in the whole table.
FileSearchedWholeTable ==
    /\ step = "file" /\ at = "done"
    /\ lfile' = region_left
    /\ rfile' = region_right
    /\ \/ region_left = 0 /\ Fail("fail")
       \/ /\ region_left # 0
          /\ Call(0, LastStab, "FUN", eip)
          /\ step' = "function"
          /\ UNCHANGED <<eip, stabstr_ok, info, lfun, rfun, ret>>

\* Mutant: a region that begins at entry 0 is taken for a file.
FileSearchedUnchecked ==
    /\ step = "file" /\ at = "done"
    /\ lfile' = region_left
    /\ rfile' = region_right
    /\ Call(region_left, region_right, "FUN", eip)
    /\ step' = "function"
    /\ UNCHANGED <<eip, stabstr_ok, info, lfun, rfun, ret>>

\* Entry 0 is never an N_SO, so a region that begins there holds no file.
FileSearched ==
    /\ step = "file" /\ at = "done"
    /\ lfile' = region_left
    /\ rfile' = region_right
    /\ \/ region_left = 0 /\ Fail("fail")
       \/ /\ region_left # 0
          /\ Call(region_left, region_right, "FUN", eip)
          /\ step' = "function"
          /\ UNCHANGED <<eip, stabstr_ok, info, lfun, rfun, ret>>

\* From the line backwards to the entry that names the source file.
\* (Mutant: included files are not looked for.)
NamesObject(i) == HasType(i, "SO") /\ Value[i] # 0

NamesFile(i) == HasType(i, "SOL") \/ (HasType(i, "SO") /\ Value[i] # 0)
FileEntries(lline) == {i \in lfile .. lline : NamesFile(i)}

\* The N_PSYM entries that follow the function's own, before the region's end.
Arguments(left, right) ==
    {i \in left + 1 .. right - 1 : \A j \in left + 1 .. i : HasType(j, "PSYM")}

\* The rest of the function, once its region is known.  The search for the
\* line number is a comment, so eip_line keeps its 0, and lline the left end
\* of the region in which the line would have been searched.
FunctionSearched ==
    /\ step = "function" /\ at = "done"
    /\ lfun' = region_left
    /\ rfun' = region_right
    /\ LET found == region_left <= region_right
           lline == IF found THEN region_left ELSE lfile
           files == FileEntries(lline)
       IN  info' = [info EXCEPT
                !.eip_fn_name = IF found THEN NameOr(region_left, @) ELSE @,
                !.eip_fn_addr = IF found THEN Value[region_left] ELSE eip,
                !.eip_file = IF files # {} THEN NameOr(MaxOf(files), @) ELSE @,
                !.eip_fn_narg = Cardinality(Arguments(region_left, region_right))]
    /\ step' = "return"
    /\ ret' = "ok"
    /\ UNCHANGED <<searchVars, eip, stabstr_ok, lfile, rfile>>

Searching == step \in {"file", "function"} /\ Search /\ UNCHANGED lookup

KNext == Entry \/ FileSearched \/ FunctionSearched \/ Searching

KSpec == KInit /\ [][KNext]_kvars /\ WF_kvars(KNext)

---------------------------------------------------------------------------
Found == step = "return" /\ ret = "ok"

\* The regions are inside the table and inside each other.
KTypeOK ==
    /\ info.eip_fn_addr \in Nat /\ info.eip_fn_narg \in Nat
    /\ ret \in {"ok", "fail", "panic"}
    /\ lfile \in 0 .. LastStab
    /\ Found => /\ lfile \in 1 .. rfile /\ rfile <= LastStab
                /\ lfun \in lfile .. rfile
                /\ rfun \in lfun - 1 .. rfile

(* The answer, from the order of the table alone: a file and a function are *)
(* the last ones that begin at or before the address.                       *)
Before(ty) == {i \in DOMAIN stabs : HasType(i, ty) /\ Value[i] <= eip}
FileEntry == MaxOf(Before("SO"))
InFile(i) == i > FileEntry /\ ~ \E j \in FileEntry + 1 .. i : HasType(j, "SO")
FunctionsBefore == {i \in Before("FUN") : InFile(i)}
FunctionEntry == MaxOf(FunctionsBefore)
ParametersOf(f) ==
    {i \in DOMAIN stabs : HasType(i, "PSYM") /\ i > f
                            /\ ~ \E j \in f + 1 .. i : j \in DOMAIN stabs
                                    /\ stabs[j].n_type \in {"SO", "FUN"}}

\* The function debuginfo_eip names is the last of its object that begins at or
\* before the address, with its address and number of arguments, and never one
\* of another object; in an object without functions the address stands for
\* itself.  The file is the one in which that function begins.
\* Two comments of the source ask for more than this, and the code does not do
\* it, for the search for the line is not written: kdebug.c:184-187 wants the
\* file of the line, which is another one where an inlined function interpolates
\* code; kdebug.c:173-175 wants -1 when no line is found, but an address between
\* two objects or past the last one is answered with 0, no function, and for a
\* file the empty name of the entry that ends an object.  So the call fails only
\* without a string table, or before the first file.
AttributionCorrect ==
    step = "return" =>
        /\ ret = "fail" <=> eip >= ULIM /\ (~stabstr_ok \/ Before("SO") = {})
        /\ ret = "panic" <=> eip < ULIM
        /\ Found /\ FunctionsBefore = {} =>
            /\ info.eip_fn_name = Unknown /\ info.eip_fn_addr = eip
            /\ info.eip_fn_narg = 0
            /\ info.eip_file = NameOr(FileEntry, Unknown)
        /\ Found /\ FunctionsBefore # {} =>
            /\ info.eip_fn_name = NameOr(FunctionEntry, Unknown)
            /\ info.eip_fn_addr = Value[FunctionEntry]
            /\ info.eip_fn_narg = Cardinality(ParametersOf(FunctionEntry))
            /\ info.eip_file = NameOr(MaxOf(
                   {i \in FileEntry .. FunctionEntry : i = FileEntry \/ HasType(i, "SOL")}), Unknown)
=========================================================================
