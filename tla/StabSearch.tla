--------------------------- MODULE StabSearch ---------------------------
(***************************************************************************)
(* stab_binsearch of lab/kern/kdebug.c: a binary search through a symbol   *)
(* table in which only the entries of one type are sorted by address, with *)
(* entries of other types in between.  One step is one turn of the loop;   *)
(* the backwards scan for an entry of the right type is part of it.        *)
(***************************************************************************)
EXTENDS Integers, FiniteSets

CONSTANTS
    Tables,     \* symbol tables: 0 .. n-1 -> [n_type, n_value]
    Types,      \* values of n_type
    Addrs       \* addresses to look up

ASSUME TablesAssumption ==
    \A t \in Tables :
        /\ IsFiniteSet(DOMAIN t) /\ DOMAIN t = 0 .. Cardinality(DOMAIN t) - 1
        /\ \A i \in DOMAIN t : t[i].n_type \in Types /\ t[i].n_value \in Nat
ASSUME AddrsAssumption == Addrs \subseteq Nat

VARIABLES
    stabs,                      \* the table
    type, addr,                 \* arguments; addr is also a local
    region_left, region_right,  \* *region_left, *region_right
    l, r, any_matches,          \* locals
    at,                         \* "idle", "loop" or "done"
    call                        \* history: the arguments of the call

regions == <<region_left, region_right>>
locals  == <<l, r, any_matches>>
searchVars == <<stabs, type, addr, regions, locals, at, call>>

Matching(i) == stabs[i].n_type = type
Matches(lo, hi) == {i \in lo .. hi : Matching(i)}
MaxOf(S) == CHOOSE i \in S : \A j \in S : j <= i

---------------------------------------------------------------------------
\* stab_binsearch(stabs, &left, &right, ty, a) is called.
Call(left, right, ty, a) ==
    /\ type' = ty
    /\ addr' = a
    /\ region_left' = left
    /\ region_right' = right
    /\ l' = left
    /\ r' = right
    /\ any_matches' = FALSE
    /\ at' = "loop"
    /\ call' = [left |-> left, right |-> right, addr |-> a]
    /\ UNCHANGED stabs

true_m == (l + r) \div 2
m == MaxOf(Matches(l, true_m))       \* where the backwards scan stops

InLoop == at = "loop" /\ l <= r
Probe == InLoop /\ Matches(l, true_m) # {}

NoMatch ==
    /\ InLoop
    /\ Matches(l, true_m) = {}
    /\ l' = true_m + 1
    /\ UNCHANGED <<stabs, type, addr, regions, r, any_matches, at, call>>

Below ==
    /\ Probe
    /\ stabs[m].n_value < addr
    /\ region_left' = m
    /\ l' = true_m + 1
    /\ any_matches' = TRUE
    /\ UNCHANGED <<stabs, type, addr, region_right, r, at, call>>

Above ==
    /\ Probe
    /\ stabs[m].n_value > addr
    /\ region_right' = m - 1
    /\ r' = m - 1
    /\ any_matches' = TRUE
    /\ UNCHANGED <<stabs, type, addr, region_left, l, at, call>>

\* Mutant: the address is not increased.
ExactWithoutIncrement ==
    /\ Probe
    /\ stabs[m].n_value = addr
    /\ region_left' = m
    /\ l' = m
    /\ any_matches' = TRUE
    /\ UNCHANGED <<stabs, type, addr, region_right, r, at, call>>

\* Mutant: an exact match ends the search.
ExactEndsSearch ==
    /\ Probe
    /\ stabs[m].n_value = addr
    /\ region_left' = m
    /\ l' = r + 1
    /\ any_matches' = TRUE
    /\ UNCHANGED <<stabs, type, addr, region_right, r, at, call>>

\* An exact match does not end the search: the loop goes on, with the next
\* address, to find *region_right.
Exact ==
    /\ Probe
    /\ stabs[m].n_value = addr
    /\ region_left' = m
    /\ l' = m
    /\ addr' = addr + 1
    /\ any_matches' = TRUE
    /\ UNCHANGED <<stabs, type, region_right, r, at, call>>

\* Mutant: the scan back from region_right does not stop at region_left.
ReturnUnbounded ==
    /\ at = "loop"
    /\ l > r
    /\ \/ /\ ~any_matches
          /\ region_right' = region_left - 1
          /\ UNCHANGED region_left
       \/ /\ any_matches
          /\ region_left' = MaxOf({-1} \cup Matches(0, region_right))
          /\ UNCHANGED region_right
    /\ at' = "done"
    /\ UNCHANGED <<stabs, type, addr, locals, call>>

\* After the loop: back from region_right to the last entry of the type, or
\* to region_left.
Return ==
    /\ at = "loop"
    /\ l > r
    /\ \/ /\ ~any_matches
          /\ region_right' = region_left - 1
          /\ UNCHANGED region_left
       \/ /\ any_matches
          /\ region_left' =
                IF region_right <= region_left THEN region_right
                ELSE MaxOf({region_left} \cup Matches(region_left + 1, region_right))
          /\ UNCHANGED region_right
    /\ at' = "done"
    /\ UNCHANGED <<stabs, type, addr, locals, call>>

Search == NoMatch \/ Below \/ Above \/ Exact \/ Return

---------------------------------------------------------------------------
(* One call, of any region of any table. *)

Init ==
    /\ stabs \in Tables
    /\ type \in Types
    /\ addr \in Addrs
    /\ region_left \in DOMAIN stabs
    /\ region_right \in DOMAIN stabs
    /\ region_left <= region_right
    /\ l = region_left
    /\ r = region_right
    /\ any_matches = FALSE
    /\ at = "loop"
    /\ call = [left |-> region_left, right |-> region_right, addr |-> addr]

Spec == Init /\ [][Search]_searchVars
FairSpec == Spec /\ WF_searchVars(Search)

---------------------------------------------------------------------------
(* What a search is for. *)

Candidates == Matches(call.left, call.right)
Containing == {i \in Candidates : stabs[i].n_value <= call.addr}

\* What the linker guarantees of N_SO and N_FUN entries.
Sorted == \A i, j \in Candidates : i < j => stabs[i].n_value <= stabs[j].n_value
\* What the code needs besides: an exact match makes it look for addr + 1.
Apart == \A i, j \in Candidates : stabs[j].n_value # stabs[i].n_value + 1

\* [region_left, region_right] runs from the last entry at or before the
\* address up to the next entry of the type.
Brackets ==
    /\ region_left = MaxOf(Containing)
    /\ \/ region_right = call.right
       \/ Matching(region_right + 1)
    /\ region_right \in region_left .. call.right
    /\ Matches(region_left + 1, region_right) = {}

\* Types, and the bounds that keep every access to stabs inside the region
\* the caller gave.
TypeOK ==
    /\ stabs \in Tables
    /\ type \in Types
    /\ call.left \in DOMAIN stabs /\ call.right \in DOMAIN stabs
    /\ call.left <= call.right
    /\ at \in {"loop", "done"}
    /\ any_matches \in BOOLEAN
    /\ addr \in Nat /\ call.addr \in Nat
    /\ l \in call.left .. call.right + 1
    /\ r \in call.left - 1 .. call.right
    /\ l <= r + 1
    /\ region_left \in call.left - 1 .. call.right
    /\ at = "loop" => region_left >= call.left
    /\ region_right \in call.left - 1 .. call.right

\* The search returns the entry that contains the address and the extent of
\* its region, and an empty region if there is no entry of the type at all.
\* The address must not precede every entry of the type: the code then leaves
\* a region that begins with no entry of the type and is not empty.
SearchCorrect ==
    at = "done" /\ Sorted /\ Apart =>
        /\ Candidates = {} => region_left = call.left /\ region_right = call.left - 1
        /\ Containing # {} => Brackets

\* The loop ends for every table, sorted or not, although an exact match
\* leaves the interval [l, r] where it was when m = l.
Terminates == <>(at = "done")
=========================================================================
