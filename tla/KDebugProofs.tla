-------------------------- MODULE KDebugProofs --------------------------
(***************************************************************************)
(* Proofs about StabSearch, for every table and every region of it, and    *)
(* about KDebug, which extends it: debuginfo_eip is right for every        *)
(* address and every table that is as the linker makes them.  Both of its  *)
(* searches have what BinarySearchCorrect asks for.                        *)
(***************************************************************************)
EXTENDS KDebug, FiniteSetTheorems, WellFoundedInduction, TLAPS

---------------------------------------------------------------------------
(* The backwards scan stops at an entry of the type if there is one. *)

LEMMA LeastExists ==
  ASSUME NEW T, T \subseteq Nat, T # {}
  PROVE  \E x \in T : \A y \in T : x <= y
<1> DEFINE R == OpToRel(<, Nat)
<1>1. IsWellFoundedOn(R, Nat)
  BY NatLessThanWellFounded
<1>2. \A x, y \in Nat : x < y => <<x, y>> \in R
  BY DEF OpToRel
<1> HIDE DEF R
<1>3. PICK x \in T : \A y \in T : ~ (<<y, x>> \in R)
  BY <1>1, WFMin
<1>4. \A y \in T : ~ (y < x)
  BY <1>2, <1>3
<1> QED
  BY <1>4

\* A non-empty set of indices has a greatest one, and MaxOf is it.
LEMMA MaxOfSet ==
  ASSUME NEW lo \in Int, NEW hi \in Int, NEW T, T \subseteq lo .. hi, T # {}
  PROVE  MaxOf(T) \in T /\ \A y \in T : y <= MaxOf(T)
<1> DEFINE U == {hi - t : t \in T}
<1>1. U \subseteq Nat /\ U # {}
  OBVIOUS
<1>2. PICK u \in U : \A v \in U : u <= v
  BY <1>1, LeastExists
<1>3. PICK x \in T : u = hi - x
  OBVIOUS
<1>4. ASSUME NEW y \in T PROVE y <= x
  <2>1. hi - y \in U
    OBVIOUS
  <2>2. hi - x <= hi - y
    BY <1>2, <1>3, <2>1
  <2> QED
    BY <2>2
<1> QED
  BY <1>4 DEF MaxOf

LEMMA TableIndices ==
  ASSUME NEW t \in Tables
  PROVE  \E n \in Nat : DOMAIN t = 0 .. n-1
BY TablesAssumption, FS_CardinalityType

---------------------------------------------------------------------------
\* The scan from true_m: m is the last entry of the type in l .. true_m.
LEMMA ScanFindsLatest ==
  ASSUME TypeOK, at = "loop", l <= r
  PROVE  /\ true_m \in l .. r
         /\ Matches(l, true_m) # {} =>
              /\ m \in l .. true_m
              /\ Matching(m)
              /\ stabs[m].n_value \in Nat
              /\ \A i \in Candidates : m < i => true_m < i
<1>1. PICK n \in Nat : DOMAIN stabs = 0 .. n-1
  BY TableIndices DEF TypeOK
<1>2. l \in Nat /\ r \in Int
  BY <1>1 DEF TypeOK
<1>3. true_m \in l .. r
  BY <1>2 DEF true_m
<1>4. ASSUME Matches(l, true_m) # {}
      PROVE  /\ m \in l .. true_m
             /\ Matching(m)
             /\ stabs[m].n_value \in Nat
             /\ \A i \in Candidates : m < i => true_m < i
  <2>1. m \in Matches(l, true_m) /\ \A i \in Matches(l, true_m) : i <= m
    BY <1>2, <1>3, <1>4, MaxOfSet DEF m, Matches
  <2>2. m \in l .. true_m /\ Matching(m)
    BY <2>1 DEF Matches
  <2>3. m \in DOMAIN stabs
    BY <1>1, <1>2, <1>3, <2>2 DEF TypeOK
  <2>4. stabs[m].n_value \in Nat
    BY <2>3, TablesAssumption DEF TypeOK
  <2>5. ASSUME NEW i \in Candidates, m < i PROVE true_m < i
    BY <1>2, <1>3, <2>1, <2>2, <2>5, <1>1 DEF Candidates, Matches, TypeOK
  <2> QED
    BY <2>2, <2>4, <2>5
<1> QED
  BY <1>3, <1>4

\* Whatever the table, the search reads no entry outside the region it was
\* given.
LEMMA InitTypeOK == Init => TypeOK
<1> SUFFICES ASSUME Init PROVE TypeOK
  OBVIOUS
<1>1. PICK n \in Nat : DOMAIN stabs = 0 .. n-1
  BY TableIndices DEF Init
<1>2. /\ call.left = region_left /\ call.right = region_right /\ call.addr = addr
      /\ stabs \in Tables /\ type \in Types /\ addr \in Nat
      /\ l = region_left /\ r = region_right /\ region_left <= region_right
      /\ region_left \in DOMAIN stabs /\ region_right \in DOMAIN stabs
      /\ at = "loop"
  BY AddrsAssumption DEF Init
<1>3. any_matches \in BOOLEAN
  BY DEF Init
<1> QED
  BY <1>1, <1>2, <1>3 DEF TypeOK

LEMMA NextTypeOK == TypeOK /\ [Search]_searchVars => TypeOK'
<1> SUFFICES ASSUME TypeOK, [Search]_searchVars PROVE TypeOK'
  OBVIOUS
<1>0. PICK n \in Nat : DOMAIN stabs = 0 .. n-1
  BY TableIndices DEF TypeOK
<1>1. CASE NoMatch
  BY <1>0, <1>1, ScanFindsLatest, SMTT(30) DEF NoMatch, InLoop, TypeOK, regions
<1>2. CASE Below
  <2>1. at = "loop" /\ l <= r /\ Matches(l, true_m) # {}
    BY <1>2 DEF Below, Probe, InLoop
  <2>2. m \in l .. r /\ true_m \in l .. r
    BY <1>0, <2>1, ScanFindsLatest DEF TypeOK
  <2>3. /\ l' = true_m + 1 /\ region_left' = m /\ any_matches' = TRUE
        /\ UNCHANGED <<stabs, type, addr, region_right, r, at, call>>
    BY <1>2 DEF Below, regions
  <2>4. /\ call.left \in Int /\ call.right \in Int
        /\ call.left <= l /\ r <= call.right /\ r \in Int /\ l \in Int
    BY <1>0 DEF TypeOK
  <2>5. l' \in call.left .. call.right + 1 /\ l' <= r' + 1
    BY <2>2, <2>3, <2>4
  <2>6. region_left' \in call.left - 1 .. call.right /\ region_left' >= call.left
    BY <2>2, <2>3, <2>4
  <2> QED
    BY <2>3, <2>5, <2>6 DEF TypeOK
<1>3. CASE Above
  <2>1. at = "loop" /\ l <= r /\ Matches(l, true_m) # {}
    BY <1>3 DEF Above, Probe, InLoop
  <2>2. m \in l .. r
    BY <1>0, <2>1, ScanFindsLatest DEF TypeOK
  <2>3. /\ r' = m - 1 /\ region_right' = m - 1 /\ any_matches' = TRUE
        /\ UNCHANGED <<stabs, type, addr, region_left, l, at, call>>
    BY <1>3 DEF Above, regions
  <2>4. /\ call.left \in Int /\ call.right \in Int
        /\ call.left <= l /\ r <= call.right /\ r \in Int /\ l \in Int
    BY <1>0 DEF TypeOK
  <2>5. r' \in call.left - 1 .. call.right /\ l' <= r' + 1
    BY <2>2, <2>3, <2>4
  <2>6. region_right' \in call.left - 1 .. call.right
    BY <2>2, <2>3, <2>4
  <2> QED
    BY <2>3, <2>5, <2>6 DEF TypeOK
<1>4. CASE Exact
  <2>1. at = "loop" /\ l <= r /\ Matches(l, true_m) # {}
    BY <1>4 DEF Exact, Probe, InLoop
  <2>2. m \in l .. r
    BY <1>0, <2>1, ScanFindsLatest DEF TypeOK
  <2>3. /\ l' = m /\ region_left' = m /\ addr' = addr + 1 /\ any_matches' = TRUE
        /\ UNCHANGED <<stabs, type, region_right, r, at, call>>
    BY <1>4 DEF Exact
  <2>4. addr' \in Nat
    BY <2>3 DEF TypeOK
  <2>5. /\ call.left \in Int /\ call.right \in Int
        /\ call.left <= l /\ r <= call.right /\ r \in Int /\ l \in Int
    BY <1>0 DEF TypeOK
  <2>6. m \in call.left .. call.right /\ m <= r + 1
    BY <2>2, <2>5
  <2>7. l' \in call.left .. call.right + 1 /\ l' <= r' + 1
    BY <2>3, <2>5, <2>6
  <2>8. region_left' \in call.left - 1 .. call.right /\ region_left' >= call.left
    BY <2>3, <2>5, <2>6
  <2> QED
    BY <2>3, <2>4, <2>7, <2>8 DEF TypeOK
<1>5. CASE Return
  <2>1. CASE ~any_matches
    <3>1. region_left' = region_left /\ region_right' = region_left - 1 /\ at' = "done"
      BY <1>5, <2>1 DEF Return
    <3> QED
      BY <1>0, <1>5, <3>1 DEF Return, TypeOK, locals
  <2>2. CASE any_matches /\ region_right <= region_left
    <3>1. region_left' = region_right /\ region_right' = region_right /\ at' = "done"
      BY <1>5, <2>2 DEF Return
    <3> QED
      BY <1>0, <1>5, <3>1 DEF Return, TypeOK, locals
  <2>3. CASE any_matches /\ ~(region_right <= region_left)
    <3> DEFINE T == {region_left} \cup Matches(region_left + 1, region_right)
    <3>1. T \subseteq region_left .. region_right /\ T # {}
      BY <1>0, <2>3 DEF Matches, TypeOK
    <3>3. region_left' = MaxOf(T) /\ UNCHANGED region_right
      BY <1>5, <2>3 DEF Return
    <3>4. region_left \in Int /\ region_right \in Int
      BY <1>0 DEF TypeOK
    <3> HIDE DEF T
    <3>2. MaxOf(T) \in region_left .. region_right
      BY <3>1, <3>4, MaxOfSet
    <3> QED
      BY <1>0, <1>5, <3>2, <3>3 DEF Return, TypeOK, locals
  <2> QED
    BY <2>1, <2>2, <2>3
<1>6. CASE UNCHANGED searchVars
  BY <1>6 DEF TypeOK, searchVars, regions, locals
<1> QED
  BY <1>1, <1>2, <1>3, <1>4, <1>5, <1>6 DEF Search

\* Whatever the table, the search reads no entry outside the region it was
\* given, and leaves region_left and region_right at most one before it.
THEOREM TypeCorrect == Spec => []TypeOK
BY InitTypeOK, NextTypeOK, PTL DEF Spec

---------------------------------------------------------------------------
(* The search is correct on sorted entries no two of which are one byte    *)
(* apart.  What lies left of l is at or before the address, what lies      *)
(* right of r is after it, and region_left and region_right remember the   *)
(* last entries that were found to be so.                                  *)

Val(i) == stabs[i].n_value
Good == Sorted /\ Apart

LeftIsBefore == \A i \in Candidates : i < l => Val(i) <= call.addr
RightIsAfter == \A i \in Candidates : r < i => Val(i) > call.addr
LeftEnd  == region_left = call.left \/ region_left \in Containing
RightEnd == region_right = r /\ (r = call.right \/ r + 1 \in Candidates)
\* The increment of addr happens once: an entry equal to the new addr would
\* be one byte after the entry that was equal to the old one.
OneIncrement ==
    \/ addr = call.addr
    \/ addr = call.addr + 1 /\ \E i \in Candidates : Val(i) = call.addr
Untouched == ~any_matches =>
    /\ region_left = call.left /\ r = call.right
    /\ \A i \in Candidates : l <= i
Touched == any_matches => Candidates # {}

LoopInv == at = "loop" /\ Good =>
    /\ LeftIsBefore /\ RightIsAfter /\ LeftEnd /\ RightEnd
    /\ OneIncrement /\ Untouched /\ Touched

\* The entries of the region, with their addresses.
LEMMA CandidateTypes ==
  ASSUME TypeOK, NEW i \in Candidates
  PROVE  i \in Nat /\ i \in call.left .. call.right /\ Matching(i) /\ Val(i) \in Nat
<1>1. PICK n \in Nat : DOMAIN stabs = 0 .. n-1
  BY TableIndices DEF TypeOK
<1>2. i \in call.left .. call.right /\ Matching(i)
  BY DEF Candidates, Matches
<1>3. i \in DOMAIN stabs
  BY <1>1, <1>2 DEF TypeOK
<1> QED
  BY <1>1, <1>2, <1>3, TablesAssumption DEF TypeOK, Val

\* What the body of the loop knows about the entry it compares.
LEMMA ProbedEntry ==
  ASSUME TypeOK, LoopInv, Good, Probe
  PROVE  /\ m \in Candidates /\ m \in l .. true_m /\ true_m \in l .. r
         /\ \A i \in Candidates : i <= true_m => Val(i) <= Val(m)
         /\ \A i \in Candidates : m <= i => Val(m) <= Val(i)
<1>1. at = "loop" /\ l <= r /\ Matches(l, true_m) # {}
  BY DEF Probe, InLoop
<1>2. /\ true_m \in l .. r /\ m \in l .. true_m /\ Matching(m)
      /\ \A i \in Candidates : m < i => true_m < i
  BY <1>1, ScanFindsLatest
<1>3. PICK n \in Nat : DOMAIN stabs = 0 .. n-1
  BY TableIndices DEF TypeOK
<1>4. m \in Candidates
  BY <1>2, <1>3 DEF Candidates, Matches, TypeOK
<1>5. ASSUME NEW i \in Candidates, i <= true_m PROVE Val(i) <= Val(m)
  <2>1. i <= m
    BY <1>2, <1>3, <1>4, <1>5, CandidateTypes DEF TypeOK
  <2> QED
    BY <1>4, <2>1, CandidateTypes DEF Good, Sorted, Val
<1>6. ASSUME NEW i \in Candidates, m <= i PROVE Val(m) <= Val(i)
  BY <1>4, <1>6, CandidateTypes DEF Good, Sorted, Val
<1> QED
  BY <1>2, <1>4, <1>5, <1>6

LEMMA LoopKeepsInv ==
  ASSUME TypeOK, LoopInv, NoMatch \/ Below \/ Above \/ Exact
  PROVE  LoopInv'
<1> SUFFICES ASSUME Good
             PROVE  /\ LeftIsBefore' /\ RightIsAfter' /\ LeftEnd' /\ RightEnd'
                    /\ OneIncrement' /\ Untouched' /\ Touched'
  BY DEF LoopInv, Good, Sorted, Apart, Candidates, Matches, Matching,
         NoMatch, Below, Above, Exact
<1>0. at = "loop" /\ l <= r
  BY DEF NoMatch, Below, Above, Exact, Probe, InLoop
<1>1. /\ LeftIsBefore /\ RightIsAfter /\ LeftEnd /\ RightEnd
      /\ OneIncrement /\ Untouched /\ Touched
  BY <1>0 DEF LoopInv
<1>2. UNCHANGED <<stabs, type, call, at>>
  BY DEF NoMatch, Below, Above, Exact
<1>3. UNCHANGED <<Candidates, Containing>>
  BY <1>2 DEF Candidates, Containing, Matches, Matching
<1>4. \A i : Val(i)' = Val(i)
  BY <1>2 DEF Val
<1>5. PICK n \in Nat : DOMAIN stabs = 0 .. n-1
  BY TableIndices DEF TypeOK
<1>6. /\ call.addr \in Nat /\ addr \in Nat /\ l \in Nat /\ r \in Int
      /\ call.left \in Nat /\ call.right \in Nat
  BY <1>5 DEF TypeOK
<1>7. CASE NoMatch
  <2>1. ASSUME NEW i \in Candidates PROVE i < l \/ true_m < i
    <3>1. i \notin l .. true_m
      BY <1>7, CandidateTypes DEF NoMatch, Matches
    <3> QED
      BY <1>0, <1>6, <3>1, ScanFindsLatest, CandidateTypes
  <2>2. true_m \in l .. r
    BY <1>0, ScanFindsLatest
  <2>3. l' = true_m + 1 /\ UNCHANGED <<addr, region_left, region_right, r, any_matches>>
    BY <1>7 DEF NoMatch, regions
  <2>4. LeftIsBefore'
    BY <1>1, <1>2, <1>3, <1>4, <1>6, <2>1, <2>2, <2>3, CandidateTypes DEF LeftIsBefore
  <2>5. Untouched'
    BY <1>1, <1>2, <1>3, <1>6, <2>1, <2>2, <2>3, CandidateTypes DEF Untouched
  <2> QED
    BY <1>1, <1>2, <1>3, <1>4, <2>3, <2>4, <2>5
    DEF RightIsAfter, LeftEnd, RightEnd, OneIncrement, Touched
<1>8. ASSUME Probe
      PROVE  /\ m \in Candidates /\ m \in l .. true_m /\ true_m \in l .. r
             /\ m \in Nat /\ Val(m) \in Nat /\ Matching(m)
             /\ \A i \in Candidates : i <= true_m => Val(i) <= Val(m)
             /\ \A i \in Candidates : m <= i => Val(m) <= Val(i)
  BY <1>8, ProbedEntry, CandidateTypes
<1>9. CASE Below
  <2>1. /\ Probe /\ Val(m) < addr
        /\ region_left' = m /\ l' = true_m + 1 /\ any_matches' = TRUE
        /\ UNCHANGED <<addr, region_right, r>>
    BY <1>9 DEF Below, Val
  <2>2. Val(m) <= call.addr
    BY <1>1, <1>6, <1>8, <2>1 DEF OneIncrement
  <2>3. LeftIsBefore'
    <3> SUFFICES ASSUME NEW i \in Candidates, i < true_m + 1
                 PROVE  Val(i) <= call.addr
      BY <1>2, <1>3, <1>4, <2>1 DEF LeftIsBefore
    <3>1. Val(i) <= Val(m)
      BY <1>6, <1>8, <2>1, CandidateTypes
    <3> QED
      BY <1>6, <1>8, <2>1, <2>2, <3>1, CandidateTypes
  <2>4. LeftEnd'
    BY <1>2, <1>3, <1>8, <2>1, <2>2 DEF LeftEnd, Containing, Val
  <2> QED
    BY <1>1, <1>2, <1>3, <1>4, <1>8, <2>1, <2>3, <2>4
    DEF RightIsAfter, RightEnd, OneIncrement, Untouched, Touched
<1>10. CASE Above
  <2>1. /\ Probe /\ Val(m) > addr
        /\ region_right' = m - 1 /\ r' = m - 1 /\ any_matches' = TRUE
        /\ UNCHANGED <<addr, region_left, l>>
    BY <1>10 DEF Above, Val
  <2>2. Val(m) > call.addr
    BY <1>1, <1>6, <1>8, <2>1 DEF OneIncrement
  <2>3. RightIsAfter'
    <3> SUFFICES ASSUME NEW i \in Candidates, m - 1 < i
                 PROVE  Val(i) > call.addr
      BY <1>2, <1>3, <1>4, <2>1 DEF RightIsAfter
    <3>1. m <= i
      BY <1>8, <2>1, CandidateTypes
    <3>2. Val(m) <= Val(i)
      BY <1>8, <2>1, <3>1
    <3> QED
      BY <1>6, <1>8, <2>1, <2>2, <3>2, CandidateTypes
  <2>4. RightEnd'
    <3>1. m - 1 + 1 = m
      BY <1>8, <2>1
    <3> QED
      BY <1>2, <1>3, <1>8, <2>1, <3>1 DEF RightEnd
  <2> QED
    BY <1>1, <1>2, <1>3, <1>4, <1>8, <2>1, <2>3, <2>4
    DEF LeftIsBefore, LeftEnd, OneIncrement, Untouched, Touched
<1>11. CASE Exact
  <2>1. /\ Probe /\ Val(m) = addr
        /\ region_left' = m /\ l' = m /\ addr' = addr + 1 /\ any_matches' = TRUE
        /\ UNCHANGED <<region_right, r>>
    BY <1>11 DEF Exact, Val
  <2>2. addr = call.addr
    <3> SUFFICES ASSUME addr = call.addr + 1,
                        NEW i \in Candidates, Val(i) = call.addr
                 PROVE  FALSE
      BY <1>1 DEF OneIncrement
    <3> QED
      BY <1>8, <2>1 DEF Good, Apart, Val
  <2>3. LeftIsBefore'
    <3> SUFFICES ASSUME NEW i \in Candidates, i < m
                 PROVE  Val(i) <= call.addr
      BY <1>2, <1>3, <1>4, <2>1 DEF LeftIsBefore
    <3>1. i <= true_m
      BY <1>6, <1>8, <2>1, CandidateTypes
    <3> QED
      BY <1>8, <2>1, <2>2, <3>1
  <2>4. LeftEnd'
    BY <1>2, <1>3, <1>6, <1>8, <2>1, <2>2 DEF LeftEnd, Containing, Val
  <2>5. OneIncrement'
    BY <1>2, <1>3, <1>4, <1>8, <2>1, <2>2 DEF OneIncrement
  <2> QED
    BY <1>1, <1>2, <1>3, <1>4, <1>8, <2>1, <2>3, <2>4, <2>5
    DEF RightIsAfter, RightEnd, Untouched, Touched
<1> QED
  BY <1>7, <1>9, <1>10, <1>11

LEMMA MaxIsUnique ==
  ASSUME TypeOK, NEW x \in Containing, \A i \in Containing : i <= x
  PROVE  MaxOf(Containing) = x
<1>1. PICK n \in Nat : DOMAIN stabs = 0 .. n-1
  BY TableIndices DEF TypeOK
<1>2. Containing \subseteq call.left .. call.right /\ call.left \in Nat /\ call.right \in Nat
  BY <1>1 DEF Containing, Candidates, Matches, TypeOK
<1>3. call.left \in Int /\ call.right \in Int /\ Containing # {}
  BY <1>2
<1>4. MaxOf(Containing) \in Containing /\ \A i \in Containing : i <= MaxOf(Containing)
  BY <1>2, <1>3, MaxOfSet
<1>5. x <= MaxOf(Containing) /\ MaxOf(Containing) <= x
  BY <1>4
<1>6. \A i \in Containing : i \in Int
  <2> SUFFICES ASSUME NEW i \in Containing PROVE i \in Int
    OBVIOUS
  <2>1. i \in call.left .. call.right
    BY <1>2
  <2> QED
    BY <1>3, <2>1
<1>7. x \in Int /\ MaxOf(Containing) \in Int
  BY <1>4, <1>6
<1> QED
  BY <1>5, <1>7

LEMMA ReturnIsCorrect ==
  ASSUME TypeOK, LoopInv, Return
  PROVE  SearchCorrect'
<1>1. UNCHANGED <<stabs, type, call, l, r>>
  BY DEF Return, locals
<1>2. UNCHANGED <<Candidates, Containing, Good>> /\ \A i : Matching(i)' = Matching(i)
  BY <1>1 DEF Candidates, Containing, Matches, Matching, Good, Sorted, Apart
<1> SUFFICES ASSUME Good
             PROVE  /\ Candidates = {} => region_left' = call.left /\ region_right' = call.left - 1
                    /\ Containing # {} => Brackets'
  BY <1>1, <1>2 DEF SearchCorrect, Good
<1>3. /\ LeftIsBefore /\ RightIsAfter /\ LeftEnd /\ RightEnd
      /\ OneIncrement /\ Untouched /\ Touched /\ l > r
  BY DEF LoopInv, Return
<1>4. PICK n \in Nat : DOMAIN stabs = 0 .. n-1
  BY TableIndices DEF TypeOK
<1>5. /\ call.addr \in Nat /\ l \in Nat /\ r \in Int /\ region_left \in Int
      /\ call.left \in Nat /\ call.right \in Nat /\ r <= call.right
  BY <1>4 DEF TypeOK
<1>6. CASE ~any_matches
  <2>1. region_left' = call.left /\ region_right' = call.left - 1
    BY <1>3, <1>6 DEF Return, Untouched
  <2>2. Candidates = {}
    BY <1>3, <1>5, <1>6, CandidateTypes DEF Untouched
  <2> QED
    BY <2>1, <2>2 DEF Containing
<1>7. CASE any_matches
  <2> SUFFICES ASSUME NEW c \in Containing PROVE Brackets'
    BY <1>3, <1>7 DEF Touched
  <2>1. \A i \in Containing : i \in Candidates /\ i \in call.left .. r
    <3> SUFFICES ASSUME NEW i \in Containing PROVE i \in Candidates /\ i \in call.left .. r
      OBVIOUS
    <3>1. i \in Candidates /\ Val(i) <= call.addr
      BY DEF Containing, Val
    <3>2. ~ (r < i)
      BY <1>3, <1>5, <3>1, CandidateTypes DEF RightIsAfter
    <3> QED
      BY <1>5, <3>1, <3>2, CandidateTypes
  <2>2. \A i \in Candidates : i <= r => i \in Containing
    BY <1>3, <1>5, CandidateTypes DEF LeftIsBefore, Containing, Val
  <2>3. region_left <= r /\ region_right = r /\ call.left <= region_left
    BY <1>3, <1>5, <2>1 DEF LeftEnd, RightEnd
  <2>4. ASSUME NEW x \in Containing, region_left' = x, region_right' = r,
               \A i \in Containing : i <= x
        PROVE  Brackets'
    <3>1. x = MaxOf(Containing) /\ x \in call.left .. r
      BY <2>1, <2>4, MaxIsUnique
    <3>2. r = call.right \/ Matching(r + 1)
      BY <1>3, CandidateTypes DEF RightEnd
    <3>3. Matches(x + 1, r) = {}
      <4> SUFFICES ASSUME NEW i \in x + 1 .. r, Matching(i) PROVE FALSE
        BY DEF Matches
      <4>1. i \in Candidates
        BY <1>5, <3>1 DEF Candidates, Matches
      <4> QED
        BY <1>5, <2>2, <2>4, <3>1, <4>1
    <3>4. (Matches(region_left + 1, region_right) = {})'
      BY <1>1, <1>2, <2>4, <3>3 DEF Matches
    <3> QED
      BY <1>1, <1>2, <1>5, <2>4, <3>1, <3>2, <3>4 DEF Brackets
  <2>5. CASE region_right <= region_left
    <3>1. region_left' = r /\ region_right' = r /\ region_left = r
      BY <1>5, <1>7, <2>3, <2>5 DEF Return
    <3>2. r \in Containing
      BY <1>3, <1>5, <2>1, <3>1 DEF LeftEnd
    <3> QED
      BY <2>1, <2>4, <3>1, <3>2
  <2>6. CASE ~(region_right <= region_left)
    <3> DEFINE T == {region_left} \cup Matches(region_left + 1, region_right)
    <3> DEFINE x == MaxOf(T)
    <3>1. T \subseteq region_left .. r /\ T # {}
      BY <1>5, <2>3 DEF Matches
    <3>2. x \in T /\ \A i \in T : i <= x
      <4> HIDE DEF T
      <4> QED
        BY <1>5, <3>1, MaxOfSet
    <3>3. region_left' = x /\ region_right' = r
      BY <1>7, <2>3, <2>6 DEF Return
    <3>4. \A i \in Containing : region_left < i => i \in T
      BY <1>5, <2>1, <2>3 DEF Candidates, Matches
    <3>5. x \in Containing
      <4>1. CASE x = region_left
        <5>1. region_left = call.left => c = region_left
          BY <1>5, <2>1, <3>2, <3>4, <4>1
        <5> QED
          BY <1>3, <4>1, <5>1 DEF LeftEnd
      <4>2. CASE x # region_left
        <5>1. x \in region_left + 1 .. r /\ Matching(x)
          BY <2>3, <3>2, <4>2 DEF Matches
        <5>2. x \in Candidates
          BY <1>5, <2>3, <5>1 DEF Candidates, Matches
        <5> QED
          BY <1>5, <2>2, <5>1, <5>2
      <4> QED
        BY <4>1, <4>2
    <3>6. \A i \in Containing : i <= x
      BY <1>5, <2>1, <3>1, <3>2, <3>4
    <3> QED
      BY <2>4, <3>3, <3>5, <3>6
  <2> QED
    BY <2>5, <2>6
<1> QED
  BY <1>6, <1>7

\* When the address precedes all entries of the type, the region is left as
\* it was at its left end, provided that no entry of the type is there.
LeftAlone == at = "done" /\ Good /\ Containing = {} /\ ~Matching(call.left) =>
    region_left = call.left

LEMMA ReturnLeavesLeft ==
  ASSUME TypeOK, LoopInv, Return
  PROVE  LeftAlone'
<1>1. UNCHANGED <<stabs, type, call, l, r>>
  BY DEF Return, locals
<1>2. UNCHANGED <<Candidates, Containing, Good>> /\ \A i : Matching(i)' = Matching(i)
  BY <1>1 DEF Candidates, Containing, Matches, Matching, Good, Sorted, Apart
<1> SUFFICES ASSUME Good, Containing = {}, ~Matching(call.left)
             PROVE  region_left' = call.left
  BY <1>1, <1>2 DEF LeftAlone
<1>3. /\ LeftIsBefore /\ LeftEnd /\ RightEnd /\ l > r
  BY DEF LoopInv, Return
<1>4. PICK n \in Nat : DOMAIN stabs = 0 .. n-1
  BY TableIndices DEF TypeOK
<1>5. /\ region_left = call.left /\ region_right = r /\ r >= call.left
      /\ call.left \in Nat /\ call.right \in Nat /\ l \in Nat /\ r \in Int /\ r <= call.right
  <2>1. /\ call.left \in Nat /\ call.right \in Nat /\ l \in Nat /\ r \in Int /\ r <= call.right
        /\ call.left <= call.right /\ r >= call.left - 1
    BY <1>4 DEF TypeOK
  <2>2. r # call.left - 1
    BY <1>3, <2>1, CandidateTypes DEF RightEnd
  <2> QED
    BY <1>3, <2>1, <2>2 DEF LeftEnd, RightEnd
<1>6. Matches(region_left + 1, region_right) = {}
  <2> SUFFICES ASSUME NEW i \in region_left + 1 .. region_right, Matching(i) PROVE FALSE
    BY DEF Matches
  <2>1. i \in Candidates /\ i < l
    BY <1>3, <1>5 DEF Candidates, Matches
  <2> QED
    BY <1>3, <2>1 DEF LeftIsBefore, Containing, Val
<1>7. MaxOf({region_left} \cup {}) = region_left
  BY <1>5 DEF MaxOf
<1> QED
  BY <1>5, <1>6, <1>7 DEF Return

---------------------------------------------------------------------------
\* A search that has just been called.
Called ==
    /\ stabs \in Tables /\ type \in Types /\ addr \in Nat /\ at = "loop" /\ any_matches = FALSE
    /\ call.left \in DOMAIN stabs /\ call.right \in DOMAIN stabs /\ call.left <= call.right
    /\ region_left = call.left /\ region_right = call.right /\ l = call.left /\ r = call.right
    /\ call.addr = addr

SearchInv == TypeOK /\ LoopInv /\ SearchCorrect /\ LeftAlone

LEMMA CalledSearchInv == Called => SearchInv
<1> SUFFICES ASSUME Called PROVE SearchInv
  OBVIOUS
<1>1. PICK n \in Nat : DOMAIN stabs = 0 .. n-1
  BY TableIndices DEF Called
<1>2. TypeOK
  <2>1. /\ call.left = region_left /\ call.right = region_right /\ call.addr = addr
        /\ stabs \in Tables /\ type \in Types /\ addr \in Nat
        /\ l = region_left /\ r = region_right /\ region_left <= region_right
        /\ region_left \in DOMAIN stabs /\ region_right \in DOMAIN stabs
        /\ at = "loop"
    BY DEF Called
  <2>2. any_matches \in BOOLEAN
    BY DEF Called
  <2> QED
    BY <1>1, <2>1, <2>2 DEF TypeOK
<1>3. \A i \in Candidates : l <= i /\ i <= r
  BY <1>2, CandidateTypes DEF Called
<1>4. /\ region_left = call.left /\ region_right = r /\ r = call.right
      /\ addr = call.addr /\ ~any_matches /\ at = "loop"
      /\ l \in Nat /\ r \in Nat
  BY <1>1 DEF Called
<1>5. LeftIsBefore /\ RightIsAfter
  BY <1>2, <1>3, <1>4, CandidateTypes DEF LeftIsBefore, RightIsAfter
<1> QED
  BY <1>2, <1>3, <1>4, <1>5
  DEF SearchInv, LoopInv, SearchCorrect, LeftAlone, LeftEnd, RightEnd, OneIncrement, Untouched, Touched

LEMMA SearchKeepsInv == SearchInv /\ [Search]_searchVars => SearchInv'
<1> SUFFICES ASSUME SearchInv, [Search]_searchVars PROVE SearchInv'
  OBVIOUS
<1>0. TypeOK /\ LoopInv /\ SearchCorrect /\ LeftAlone /\ TypeOK'
  BY NextTypeOK DEF SearchInv
<1>1. CASE NoMatch \/ Below \/ Above \/ Exact
  <2>1. at' = "loop"
    BY <1>1 DEF NoMatch, Below, Above, Exact, Probe, InLoop
  <2> QED
    BY <1>0, <1>1, <2>1, LoopKeepsInv DEF SearchInv, SearchCorrect, LeftAlone
<1>2. CASE Return
  <2>1. at' = "done"
    BY <1>2 DEF Return
  <2> QED
    BY <1>0, <1>2, <2>1, ReturnIsCorrect, ReturnLeavesLeft DEF SearchInv, LoopInv
<1>3. CASE UNCHANGED searchVars
  BY <1>0, <1>3 DEF searchVars, regions, locals, SearchInv, LoopInv, SearchCorrect, LeftAlone,
     Good, Sorted, Apart, LeftIsBefore, RightIsAfter, LeftEnd, RightEnd, OneIncrement,
     Untouched, Touched, Candidates, Containing, Matches, Matching, Val, Brackets
<1> QED
  BY <1>1, <1>2, <1>3 DEF Search

\* For every table, region and address: if the entries of the type are sorted
\* and no two are one byte apart, the search brackets the address.
THEOREM BinarySearchCorrect == Spec => []SearchCorrect
<1>1. Init => SearchInv
  <2>1. Init => Called
    BY AddrsAssumption DEF Init, Called
  <2> QED
    BY <2>1, CalledSearchInv
<1>2. SearchInv => SearchCorrect
  BY DEF SearchInv
<1> QED
  BY <1>1, <1>2, SearchKeepsInv, PTL DEF Spec

---------------------------------------------------------------------------
(* debuginfo_eip. *)

\* The table, with what LinkedAssumption says of it.
LEMMA Linked ==
  ASSUME stabs \in Tables
  PROVE  /\ LastStab \in Nat /\ DOMAIN stabs = 0 .. LastStab /\ DOMAIN Value = 0 .. LastStab
         /\ ~HasType(0, "SO")
         /\ \A i \in 0 .. LastStab : Value[i] = stabs[i].n_value /\ Value[i] \in Nat
         /\ \A i \in 0 .. LastStab : HasType(i, "SO") => Value[i] # 0
         /\ \A i, j \in 0 .. LastStab : HasType(i, "SO") /\ HasType(j, "SO") /\ i < j =>
                Value[i] <= Value[j] /\ Value[j] # Value[i] + 1
<1>1. DOMAIN stabs = 0 .. LastStab
  BY TablesAssumption DEF LastStab
<1>2. 0 \in DOMAIN stabs /\ ~HasType(0, "SO")
  BY LinkedAssumption DEF HasType, Of
<1>3. IsFiniteSet(DOMAIN stabs)
  BY TablesAssumption
<1>4. LastStab \in Nat
  <2>1. Cardinality(DOMAIN stabs) \in Nat
    BY <1>3, FS_CardinalityType
  <2> QED
    BY <1>1, <1>2, <2>1 DEF LastStab
<1>5. \A i \in 0 .. LastStab : Value[i] = stabs[i].n_value /\ Value[i] \in Nat
  BY <1>1, TablesAssumption DEF Value
<1>6. \A i \in 0 .. LastStab : HasType(i, "SO") => Value[i] # 0
  <2>1. \A i \in Of(stabs, "SO") : stabs[i].n_value # 0
    BY LinkedAssumption
  <2> QED
    BY <1>1, <1>5, <2>1 DEF HasType, Of
<1>7. \A i, j \in 0 .. LastStab : HasType(i, "SO") /\ HasType(j, "SO") /\ i < j =>
        Value[i] <= Value[j] /\ Value[j] # Value[i] + 1
  <2>1. \A i, j \in Of(stabs, "SO") : i < j => InTypeOrder(stabs, i, j)
    BY LinkedAssumption
  <2> QED
    BY <1>1, <1>5, <2>1 DEF HasType, Of, InTypeOrder
<1> QED
  BY <1>1, <1>2, <1>4, <1>5, <1>6, <1>7 DEF Value

LEMMA FunctionsOfFile ==
  ASSUME stabs \in Tables,
         NEW s \in 0 .. LastStab, HasType(s, "SO"), NEW e \in s .. LastStab,
         \A k \in s + 1 .. e : ~HasType(k, "SO")
  PROVE  /\ \A i, j \in s .. e : HasType(i, "FUN") /\ HasType(j, "FUN") /\ i < j =>
                Value[i] <= Value[j] /\ Value[j] # Value[i] + 1
         /\ \A f \in s .. e : HasType(f, "FUN") =>
                \E g \in s + 1 .. e : HasType(g, "FUN") /\ Value[g] <= Value[s]
<1>1. /\ LastStab \in Nat /\ DOMAIN stabs = 0 .. LastStab
      /\ \A i \in 0 .. LastStab : Value[i] = stabs[i].n_value
  BY Linked
<1>2. ASSUME NEW i \in s .. e, NEW j \in s .. e, HasType(i, "FUN"), HasType(j, "FUN"), i < j
      PROVE  Value[i] <= Value[j] /\ Value[j] # Value[i] + 1
  <2>1. i \in 0 .. LastStab /\ j \in 0 .. LastStab /\ SameFile(stabs, i, j)
    BY <1>1, <1>2 DEF SameFile, HasType
  <2>2. InTypeOrder(stabs, i, j)
    BY <1>1, <1>2, <2>1, LinkedAssumption DEF HasType, Of
  <2> QED
    BY <1>1, <2>1, <2>2 DEF InTypeOrder
<1>3. ASSUME NEW f \in s .. e, HasType(f, "FUN")
      PROVE  \E g \in s + 1 .. e : HasType(g, "FUN") /\ Value[g] <= Value[s]
  <2>1. s < f /\ f \in 0 .. LastStab /\ SameFile(stabs, s, f)
    BY <1>1, <1>3 DEF SameFile, HasType
  <2>2. PICK g \in s + 1 .. f : stabs[g].n_type = "FUN" /\ stabs[g].n_value <= stabs[s].n_value
    BY <1>1, <1>3, <2>1, LinkedAssumption DEF HasType, Of
  <2>3. g \in s + 1 .. e /\ g \in 0 .. LastStab
    BY <1>1, <1>3, <2>1
  <2> QED
    BY <1>1, <2>2, <2>3 DEF HasType
<1> QED
  BY <1>2, <1>3

LEMMA ParametersFollow ==
  ASSUME stabs \in Tables,
         NEW f \in 0 .. LastStab, HasType(f, "FUN"), NEW p \in ParametersOf(f)
  PROVE  /\ p \in 0 .. LastStab /\ f < p
         /\ \A k \in f + 1 .. p : HasType(k, "PSYM")
         /\ p + 1 \in 0 .. LastStab /\ ~HasType(p + 1, "SO") /\ ~HasType(p + 1, "FUN")
<1>1. LastStab \in Nat /\ DOMAIN stabs = 0 .. LastStab
  BY Linked
<1>2. p \in 0 .. LastStab /\ f < p /\ HasType(p, "PSYM")
  BY <1>1 DEF ParametersOf
<1>3. \A k \in f + 1 .. p : stabs[k].n_type \notin {"SO", "FUN"}
  <2> SUFFICES ASSUME NEW k \in f + 1 .. p PROVE stabs[k].n_type \notin {"SO", "FUN"}
    OBVIOUS
  <2>1. k \in DOMAIN stabs
    BY <1>1, <1>2
  <2> QED
    BY <2>1 DEF ParametersOf
<1> QED
  <2>1. f \in Of(stabs, "FUN") /\ p \in Of(stabs, "PSYM")
    BY <1>1, <1>2 DEF HasType, Of
  <2>2. /\ \A k \in f + 1 .. p : k \in Of(stabs, "PSYM")
        /\ p + 1 \in DOMAIN stabs
        /\ stabs[p + 1].n_type \notin {"SO", "FUN"}
    BY <1>2, <1>3, <2>1, LinkedAssumption
  <2> QED
    BY <1>1, <1>2, <2>2 DEF HasType, Of

---------------------------------------------------------------------------
(* The two searches. *)

FileFound ==
    /\ lfile = FileEntry /\ lfile \in Before("SO") /\ HasType(lfile, "SO")
    /\ lfile \in 1 .. LastStab /\ rfile \in lfile .. LastStab
    /\ rfile = LastStab \/ HasType(rfile + 1, "SO")
    /\ \A k \in lfile + 1 .. rfile : ~HasType(k, "SO")

NoInfo == info = [eip_file |-> Unknown, eip_line |-> 0, eip_fn_name |-> Unknown,
                  eip_fn_addr |-> eip, eip_fn_narg |-> 0]

\* Where the lookup is, and which search it has called.
KInv ==
    /\ stabs \in Tables /\ eip \in Nat /\ stabstr_ok \in BOOLEAN
    /\ step \in {"entry", "file", "function", "return"}
    /\ step # "return" => NoInfo /\ ret = "ok"
    /\ step \in {"file", "function"} => eip >= ULIM /\ stabstr_ok /\ SearchInv
    /\ step \in {"entry", "file"} => lfile = 0
    /\ step = "file" => type = "SO" /\ call = [left |-> 0, right |-> LastStab, addr |-> eip]
    /\ step = "function" => /\ FileFound
                            /\ type = "FUN"
                            /\ call = [left |-> lfile, right |-> rfile, addr |-> eip]
    /\ KTypeOK /\ AttributionCorrect

LEMMA InitKInv == KInit => KInv
<1> SUFFICES ASSUME KInit PROVE KInv
  OBVIOUS
<1>1. LastStab \in Nat
  BY Linked DEF KInit
<1>2. stabstr_ok \in BOOLEAN
  BY DEF KInit
<1>3. eip \in Nat /\ step = "entry" /\ ret = "ok" /\ lfile = 0 /\ stabs \in Tables /\ NoInfo
  BY AddrsAssumption DEF KInit, NoInfo
<1>4. KTypeOK
  BY <1>1, <1>3 DEF NoInfo, KTypeOK, Found
<1>5. AttributionCorrect
  BY <1>3 DEF AttributionCorrect
<1> QED
  BY <1>2, <1>3, <1>4, <1>5 DEF KInv

LEMMA EntryKeeps ==
  ASSUME KInv, Entry
  PROVE  KInv'
<1>1. /\ stabs \in Tables /\ eip \in Nat /\ NoInfo /\ ret = "ok" /\ lfile = 0 /\ step = "entry"
      /\ stabstr_ok \in BOOLEAN
  BY DEF KInv, Entry
<1>2. LastStab \in Nat /\ DOMAIN stabs = 0 .. LastStab
  BY <1>1, Linked
<1>3. CASE eip < ULIM /\ Fail("panic") /\ UNCHANGED <<lfile, rfile>>
  <2>1. /\ step' = "return" /\ ret' = "panic" /\ UNCHANGED <<stabs, eip, stabstr_ok, info, lfile>>
    BY <1>3 DEF Fail, searchVars
  <2>2. KTypeOK'
    BY <1>1, <1>2, <2>1 DEF NoInfo, KTypeOK, Found, LastStab
  <2>3. AttributionCorrect'
    BY <1>1, <1>3, <2>1, ULIMAssumption DEF AttributionCorrect, Found
  <2> QED
    BY <1>1, <2>1, <2>2, <2>3 DEF KInv
<1>4. CASE eip >= ULIM /\ ~stabstr_ok /\ Fail("fail") /\ UNCHANGED <<lfile, rfile>>
  <2>1. /\ step' = "return" /\ ret' = "fail" /\ UNCHANGED <<stabs, eip, stabstr_ok, info, lfile>>
    BY <1>4 DEF Fail, searchVars
  <2>2. KTypeOK'
    BY <1>1, <1>2, <2>1 DEF NoInfo, KTypeOK, Found, LastStab
  <2>3. AttributionCorrect'
    BY <1>1, <1>4, <2>1, ULIMAssumption DEF AttributionCorrect, Found
  <2> QED
    BY <1>1, <2>1, <2>2, <2>3 DEF KInv
<1>5. CASE /\ eip >= ULIM /\ stabstr_ok /\ Call(0, LastStab, "SO", eip) /\ step' = "file"
           /\ UNCHANGED <<eip, stabstr_ok, info, lfile, rfile, lfun, rfun, ret>>
  <2>1. Called'
    BY <1>1, <1>2, <1>5, TypesAssumption DEF Call, Called
  <2>2. SearchInv'
    BY <2>1, CalledSearchInv, PTL
  <2>3. /\ type' = "SO" /\ call' = [left |-> 0, right |-> LastStab, addr |-> eip] /\ stabs' = stabs
        /\ LastStab' = LastStab
    BY <1>5 DEF Call, LastStab
  <2>4. NoInfo'
    BY <1>1, <1>5 DEF NoInfo
  <2>5. KTypeOK'
    BY <1>1, <1>2, <1>5, <2>3 DEF NoInfo, KTypeOK, Found
  <2> QED
    BY <1>1, <1>5, <2>2, <2>3, <2>4, <2>5 DEF KInv, AttributionCorrect
<1> QED
  BY <1>3, <1>4, <1>5 DEF Entry

LEMMA SearchingKeeps ==
  ASSUME KInv, Searching
  PROVE  KInv'
<1>1. SearchInv'
  BY SearchKeepsInv DEF KInv, Searching
<1>2. UNCHANGED <<stabs, type, call, eip, stabstr_ok, info, lfile, rfile, lfun, rfun, step, ret>>
  BY DEF Searching, Search, NoMatch, Below, Above, Exact, Return, lookup
<1> QED
  BY <1>1, <1>2 DEF KInv, KTypeOK, AttributionCorrect, FileFound, NoInfo, Searching, Found,
     FileEntry, Before, HasType, Value, LastStab

---------------------------------------------------------------------------
\* The search for the file: the last N_SO at or before the address, or entry
\* 0 if there is none.
LEMMA FileSearchResult ==
  ASSUME KInv, step = "file", at = "done"
  PROVE  /\ region_left = 0 => Before("SO") = {}
         /\ region_left # 0 =>
              /\ region_left = FileEntry /\ region_left \in Before("SO") /\ HasType(region_left, "SO")
              /\ region_left \in 1 .. LastStab /\ region_right \in region_left .. LastStab
              /\ region_right = LastStab \/ HasType(region_right + 1, "SO")
              /\ \A k \in region_left + 1 .. region_right : ~HasType(k, "SO")
<1>1. /\ stabs \in Tables /\ SearchInv /\ type = "SO" /\ eip \in Nat
      /\ call = [left |-> 0, right |-> LastStab, addr |-> eip]
  BY DEF KInv
<1>2. /\ LastStab \in Nat /\ DOMAIN stabs = 0 .. LastStab /\ ~HasType(0, "SO")
      /\ \A i \in 0 .. LastStab : Value[i] = stabs[i].n_value /\ Value[i] \in Nat
      /\ \A i, j \in 0 .. LastStab : HasType(i, "SO") /\ HasType(j, "SO") /\ i < j =>
            Value[i] <= Value[j] /\ Value[j] # Value[i] + 1
  BY <1>1, Linked
<1>3. Candidates = {i \in 0 .. LastStab : HasType(i, "SO")}
  BY <1>1 DEF Candidates, Matches, Matching, HasType
<1>4. Containing = Before("SO")
  BY <1>1, <1>2, <1>3 DEF Containing, Before
<1>5. Good
  <2>1. Sorted
    <3> SUFFICES ASSUME NEW i \in Candidates, NEW j \in Candidates, i < j
                 PROVE  stabs[i].n_value <= stabs[j].n_value
      BY DEF Sorted
    <3> QED
      BY <1>2, <1>3
  <2>2. Apart
    <3> SUFFICES ASSUME NEW i \in Candidates, NEW j \in Candidates,
                        stabs[j].n_value = stabs[i].n_value + 1
                 PROVE  FALSE
      BY DEF Apart
    <3>1. /\ i \in 0 .. LastStab /\ j \in 0 .. LastStab /\ HasType(i, "SO") /\ HasType(j, "SO")
          /\ Value[j] = Value[i] + 1 /\ Value[i] \in Nat
      BY <1>2, <1>3
    <3>2. ~(i < j) /\ ~(j < i) /\ i # j
      BY <1>2, <3>1
    <3> QED
      BY <1>2, <3>1, <3>2
  <2> QED
    BY <2>1, <2>2 DEF Good
<1>6. /\ Candidates = {} => region_left = 0
      /\ Containing # {} => Brackets
      /\ Containing = {} => region_left = 0
  <2>1. ~Matching(call.left)
    BY <1>1, <1>2 DEF Matching, HasType
  <2> QED
    BY <1>1, <1>5, <2>1 DEF SearchInv, SearchCorrect, LeftAlone, Good
<1>7. ASSUME Containing # {}
      PROVE  /\ region_left = FileEntry /\ region_left \in Before("SO") /\ HasType(region_left, "SO")
             /\ region_left \in 1 .. LastStab /\ region_right \in region_left .. LastStab
             /\ region_right = LastStab \/ HasType(region_right + 1, "SO")
             /\ \A k \in region_left + 1 .. region_right : ~HasType(k, "SO")
  <2>1. Brackets
    BY <1>6, <1>7
  <2>2. region_left = FileEntry
    BY <1>4, <2>1 DEF Brackets, FileEntry
  <2>3. Before("SO") \subseteq 0 .. LastStab /\ 0 \in Int /\ LastStab \in Int /\ Before("SO") # {}
    BY <1>2, <1>4, <1>7 DEF Before
  <2>4. region_left \in Before("SO")
    BY <2>2, <2>3, MaxOfSet DEF FileEntry
  <2>5. HasType(region_left, "SO") /\ region_left \in 1 .. LastStab
    BY <1>2, <2>4 DEF Before
  <2>6. /\ region_right \in region_left .. LastStab
        /\ region_right = LastStab \/ HasType(region_right + 1, "SO")
    BY <1>1, <2>1 DEF Brackets, Matching, HasType
  <2>7. \A k \in region_left + 1 .. region_right : ~HasType(k, "SO")
    BY <1>1, <2>1 DEF Brackets, Matches, Matching, HasType
  <2> QED
    BY <2>2, <2>4, <2>5, <2>6, <2>7
<1> QED
  BY <1>4, <1>6, <1>7

LEMMA FileSearchedKeeps ==
  ASSUME KInv, FileSearched
  PROVE  KInv'
<1>1. /\ stabs \in Tables /\ eip \in Nat /\ NoInfo /\ ret = "ok" /\ step = "file" /\ at = "done"
      /\ stabstr_ok \in BOOLEAN /\ stabstr_ok /\ eip >= ULIM
      /\ lfile' = region_left /\ rfile' = region_right
  BY DEF KInv, FileSearched
<1>2. LastStab \in Nat /\ DOMAIN stabs = 0 .. LastStab
  BY <1>1, Linked
<1>3. CASE region_left = 0 /\ Fail("fail")
  <2>1. /\ step' = "return" /\ ret' = "fail" /\ UNCHANGED <<stabs, eip, stabstr_ok, info>>
    BY <1>3 DEF Fail, searchVars
  <2>2. KTypeOK'
    BY <1>1, <1>2, <1>3, <2>1 DEF NoInfo, KTypeOK, Found, LastStab
  <2>3. Before("SO")' = {}
    BY <1>1, <1>3, <2>1, FileSearchResult DEF Before, HasType, Value
  <2>4. AttributionCorrect'
    BY <1>1, <2>1, <2>3, ULIMAssumption DEF AttributionCorrect, Found
  <2> QED
    BY <1>1, <2>1, <2>2, <2>4 DEF KInv
<1>4. CASE /\ region_left # 0 /\ Call(region_left, region_right, "FUN", eip) /\ step' = "function"
           /\ UNCHANGED <<eip, stabstr_ok, info, lfun, rfun, ret>>
  <2>1. /\ type' = "FUN" /\ stabs' = stabs
        /\ call' = [left |-> region_left, right |-> region_right, addr |-> eip]
    BY <1>4 DEF Call
  <2>2. /\ region_left = FileEntry /\ region_left \in Before("SO") /\ HasType(region_left, "SO")
        /\ region_left \in 1 .. LastStab /\ region_right \in region_left .. LastStab
        /\ region_right = LastStab \/ HasType(region_right + 1, "SO")
        /\ \A k \in region_left + 1 .. region_right : ~HasType(k, "SO")
    BY <1>1, <1>4, FileSearchResult
  <2>3. Called'
    BY <1>1, <1>2, <1>4, <2>2, TypesAssumption DEF Call, Called
  <2>4. SearchInv'
    BY <2>3, CalledSearchInv, PTL
  <2>5. UNCHANGED <<FileEntry, Before("SO"), LastStab>> /\ \A k : HasType(k, "SO")' = HasType(k, "SO")
    BY <1>4, <2>1 DEF FileEntry, Before, HasType, Value, LastStab
  <2>6. FileFound'
    BY <1>1, <2>2, <2>5 DEF FileFound
  <2>7. KTypeOK' /\ NoInfo'
    BY <1>1, <1>2, <1>4, <2>2, <2>5 DEF NoInfo, KTypeOK, Found
  <2> QED
    BY <1>1, <1>4, <2>1, <2>4, <2>6, <2>7 DEF KInv, AttributionCorrect
<1> QED
  BY <1>3, <1>4 DEF FileSearched

---------------------------------------------------------------------------
\* The search for the function: the last N_FUN of the file at or before the
\* address, or an empty region if the file has none.
LEMMA FunctionSearchResult ==
  ASSUME KInv, step = "function", at = "done"
  PROVE  /\ FunctionsBefore = {} => region_left = lfile /\ region_right = lfile - 1
         /\ FunctionsBefore # {} =>
              /\ region_left = FunctionEntry /\ region_left \in FunctionsBefore
              /\ HasType(region_left, "FUN")
              /\ region_left \in lfile + 1 .. rfile /\ region_right \in region_left .. rfile
              /\ region_right = rfile \/ HasType(region_right + 1, "FUN")
<1>1. /\ stabs \in Tables /\ SearchInv /\ type = "FUN" /\ eip \in Nat /\ FileFound
      /\ call = [left |-> lfile, right |-> rfile, addr |-> eip]
  BY DEF KInv
<1>2. /\ LastStab \in Nat /\ DOMAIN stabs = 0 .. LastStab
      /\ \A i \in 0 .. LastStab : Value[i] = stabs[i].n_value /\ Value[i] \in Nat
  BY <1>1, Linked
<1>3. /\ lfile = FileEntry /\ HasType(lfile, "SO") /\ Value[lfile] <= eip
      /\ lfile \in 1 .. LastStab /\ rfile \in lfile .. LastStab
      /\ rfile = LastStab \/ HasType(rfile + 1, "SO")
      /\ \A k \in lfile + 1 .. rfile : ~HasType(k, "SO")
  BY <1>1 DEF FileFound, Before
<1>4. /\ \A i, j \in lfile .. rfile : HasType(i, "FUN") /\ HasType(j, "FUN") /\ i < j =>
            Value[i] <= Value[j] /\ Value[j] # Value[i] + 1
      /\ \A f \in lfile .. rfile : HasType(f, "FUN") =>
            \E g \in lfile + 1 .. rfile : HasType(g, "FUN") /\ Value[g] <= Value[lfile]
  <2>1. lfile \in 0 .. LastStab
    BY <1>2, <1>3
  <2> QED
    BY <1>1, <1>3, <2>1, FunctionsOfFile
<1>5. Candidates = {i \in lfile .. rfile : HasType(i, "FUN")}
  BY <1>1 DEF Candidates, Matches, Matching, HasType
<1>6. Containing = FunctionsBefore
  <2>1. ASSUME NEW i \in Containing PROVE i \in FunctionsBefore
    <3>1. /\ i \in lfile .. rfile /\ i \in 0 .. LastStab /\ HasType(i, "FUN") /\ Value[i] <= eip
      BY <1>1, <1>2, <1>3, <1>5 DEF Containing
    <3>2. i # lfile
      BY <1>3, <3>1 DEF HasType
    <3>3. InFile(i)
      BY <1>2, <1>3, <3>1, <3>2 DEF InFile
    <3> QED
      BY <1>2, <3>1, <3>3 DEF FunctionsBefore, Before
  <2>2. ASSUME NEW i \in FunctionsBefore PROVE i \in Containing
    <3>1. /\ i \in 0 .. LastStab /\ HasType(i, "FUN") /\ Value[i] <= eip
          /\ i > lfile /\ ~ \E j \in lfile + 1 .. i : HasType(j, "SO")
      BY <1>2, <1>3 DEF FunctionsBefore, Before, InFile
    <3>2. i <= rfile
      BY <1>2, <1>3, <3>1
    <3> QED
      BY <1>1, <1>2, <1>3, <1>5, <3>1, <3>2 DEF Containing
  <2> QED
    BY <2>1, <2>2
<1>7. Good
  <2>1. Sorted
    <3> SUFFICES ASSUME NEW i \in Candidates, NEW j \in Candidates, i < j
                 PROVE  stabs[i].n_value <= stabs[j].n_value
      BY DEF Sorted
    <3> QED
      BY <1>2, <1>3, <1>4, <1>5
  <2>2. Apart
    <3> SUFFICES ASSUME NEW i \in Candidates, NEW j \in Candidates,
                        stabs[j].n_value = stabs[i].n_value + 1
                 PROVE  FALSE
      BY DEF Apart
    <3>1. /\ i \in lfile .. rfile /\ j \in lfile .. rfile /\ HasType(i, "FUN") /\ HasType(j, "FUN")
          /\ i \in Int /\ j \in Int /\ Value[j] = Value[i] + 1 /\ Value[i] \in Nat
      BY <1>2, <1>3, <1>5
    <3>2. ~(i < j) /\ ~(j < i) /\ i # j
      BY <1>4, <3>1
    <3> QED
      BY <3>1, <3>2
  <2> QED
    BY <2>1, <2>2 DEF Good
<1>8. SearchCorrect
  BY <1>1 DEF SearchInv
<1>9. ASSUME FunctionsBefore = {}
      PROVE  region_left = lfile /\ region_right = lfile - 1
  <2>1. Candidates = {}
    <3> SUFFICES ASSUME NEW f \in Candidates PROVE FALSE
      OBVIOUS
    <3>1. PICK g \in lfile + 1 .. rfile : HasType(g, "FUN") /\ Value[g] <= Value[lfile]
      BY <1>4, <1>5
    <3>2. g \in lfile .. rfile /\ g \in 0 .. LastStab /\ Value[g] <= eip
      BY <1>1, <1>2, <1>3, <3>1
    <3>3. g \in Containing
      BY <1>1, <1>2, <1>5, <3>1, <3>2 DEF Containing
    <3> QED
      BY <1>6, <1>9, <3>3
  <2> QED
    BY <1>1, <1>7, <1>8, <2>1 DEF SearchCorrect, Good
<1>10. ASSUME FunctionsBefore # {}
       PROVE  /\ region_left = FunctionEntry /\ region_left \in FunctionsBefore
              /\ HasType(region_left, "FUN")
              /\ region_left \in lfile + 1 .. rfile /\ region_right \in region_left .. rfile
              /\ region_right = rfile \/ HasType(region_right + 1, "FUN")
  <2>1. Brackets
    BY <1>6, <1>7, <1>8, <1>10, <1>1 DEF SearchCorrect, SearchInv, KInv, Good
  <2>2. region_left = FunctionEntry
    BY <1>6, <2>1 DEF Brackets, FunctionEntry
  <2>3. FunctionsBefore \subseteq lfile .. rfile /\ lfile \in Int /\ rfile \in Int
    BY <1>2, <1>3, <1>5, <1>6 DEF Containing
  <2>4. region_left \in FunctionsBefore
    BY <1>10, <2>2, <2>3, MaxOfSet DEF FunctionEntry
  <2>5. HasType(region_left, "FUN") /\ region_left > lfile
    BY <1>3, <2>4 DEF FunctionsBefore, Before, InFile
  <2>6. /\ region_right \in region_left .. rfile
        /\ region_right = rfile \/ HasType(region_right + 1, "FUN")
    BY <1>1, <2>1 DEF Brackets, Matching, HasType
  <2>7. region_left \in lfile + 1 .. rfile
    BY <2>3, <2>4, <2>5
  <2> QED
    BY <2>2, <2>4, <2>5, <2>6, <2>7
<1> QED
  BY <1>9, <1>10

\* What is counted up to the end of the region are all its parameters.
LEMMA ArgumentsAreParameters ==
  ASSUME KInv, step = "function", at = "done", FunctionsBefore # {}
  PROVE  Arguments(region_left, region_right) = ParametersOf(FunctionEntry)
<1>1. /\ region_left = FunctionEntry /\ HasType(region_left, "FUN")
      /\ region_left \in lfile + 1 .. rfile /\ region_right \in region_left .. rfile
      /\ region_right = rfile \/ HasType(region_right + 1, "FUN")
  BY FunctionSearchResult
<1>2. /\ stabs \in Tables /\ LastStab \in Nat /\ DOMAIN stabs = 0 .. LastStab
      /\ lfile \in 1 .. LastStab /\ rfile \in lfile .. LastStab
      /\ rfile = LastStab \/ HasType(rfile + 1, "SO")
  BY Linked DEF KInv, FileFound
<1>3. region_left \in 0 .. LastStab
  BY <1>1, <1>2
<1>4. ASSUME NEW p \in Arguments(region_left, region_right)
      PROVE  p \in ParametersOf(region_left)
  <2>1. p \in region_left + 1 .. region_right - 1 /\ \A j \in region_left + 1 .. p : HasType(j, "PSYM")
    BY DEF Arguments
  <2>2. p \in DOMAIN stabs /\ p > region_left /\ HasType(p, "PSYM")
    BY <1>1, <1>2, <2>1
  <2> QED
    BY <2>1, <2>2 DEF ParametersOf, HasType
<1>5. ASSUME NEW p \in ParametersOf(region_left)
      PROVE  p \in Arguments(region_left, region_right)
  <2>1. /\ p \in 0 .. LastStab /\ region_left < p
        /\ \A k \in region_left + 1 .. p : HasType(k, "PSYM")
        /\ p + 1 \in 0 .. LastStab /\ ~HasType(p + 1, "SO") /\ ~HasType(p + 1, "FUN")
    BY <1>1, <1>2, <1>3, ParametersFollow
  <2>2. \A k \in region_left + 1 .. p + 1 : ~HasType(k, "SO") /\ ~HasType(k, "FUN")
    <3> SUFFICES ASSUME NEW k \in region_left + 1 .. p + 1
                 PROVE  ~HasType(k, "SO") /\ ~HasType(k, "FUN")
      OBVIOUS
    <3>1. k = p + 1 \/ k \in region_left + 1 .. p
      BY <1>3, <2>1
    <3> QED
      BY <2>1, <3>1 DEF HasType
  <2>3. p <= region_right - 1
    BY <1>1, <1>2, <2>1, <2>2
  <2> QED
    BY <1>1, <1>2, <2>1, <2>3 DEF Arguments
<1> QED
  BY <1>1, <1>4, <1>5

LEMMA FunctionSearchedKeeps ==
  ASSUME KInv, FunctionSearched
  PROVE  KInv'
<1> DEFINE found == region_left <= region_right
           lline == IF found THEN region_left ELSE lfile
           files == FileEntries(lline)
           narg  == Cardinality(Arguments(region_left, region_right))
<1>1. /\ stabs \in Tables /\ eip \in Nat /\ NoInfo /\ step = "function" /\ at = "done"
      /\ stabstr_ok \in BOOLEAN /\ stabstr_ok /\ eip >= ULIM /\ FileFound
  BY DEF KInv, FunctionSearched
<1>2. /\ lfun' = region_left /\ rfun' = region_right /\ step' = "return" /\ ret' = "ok"
      /\ UNCHANGED <<stabs, eip, stabstr_ok, lfile, rfile>>
  BY DEF FunctionSearched, searchVars
<1>3. info' = [eip_file |-> IF files # {} THEN NameOr(MaxOf(files), Unknown) ELSE Unknown,
               eip_line |-> 0,
               eip_fn_name |-> IF found THEN NameOr(region_left, Unknown) ELSE Unknown,
               eip_fn_addr |-> IF found THEN Value[region_left] ELSE eip,
               eip_fn_narg |-> narg]
  BY <1>1 DEF FunctionSearched, NoInfo
<1>4. /\ LastStab \in Nat /\ DOMAIN stabs = 0 .. LastStab
      /\ \A i \in 0 .. LastStab : Value[i] = stabs[i].n_value /\ Value[i] \in Nat
      /\ \A i \in 0 .. LastStab : HasType(i, "SO") => Value[i] # 0
  BY <1>1, Linked
<1>5. /\ lfile = FileEntry /\ lfile \in Before("SO") /\ HasType(lfile, "SO")
      /\ lfile \in 1 .. LastStab /\ rfile \in lfile .. LastStab
      /\ \A k \in lfile + 1 .. rfile : ~HasType(k, "SO")
  BY <1>1 DEF FileFound
<1>6. /\ UNCHANGED <<FunctionsBefore, FunctionEntry, FileEntry, Before("SO"), LastStab, Value>>
      /\ ParametersOf(FunctionEntry)' = ParametersOf(FunctionEntry)
      /\ \A i, d : NameOr(i, d)' = NameOr(i, d)
      /\ \A i, ty : HasType(i, ty)' = HasType(i, ty)
  BY <1>2 DEF FunctionsBefore, FunctionEntry, FileEntry, Before, InFile, LastStab, Value,
              ParametersOf, NameOr, HasType
<1>7. narg \in Nat
  <2>1. region_left \in Int /\ region_right \in Int
    BY <1>1, <1>4, <1>5, FunctionSearchResult
  <2>2. IsFiniteSet(region_left + 1 .. region_right - 1)
    BY <2>1, FS_Interval
  <2>3. Arguments(region_left, region_right) \subseteq region_left + 1 .. region_right - 1
    BY DEF Arguments
  <2> QED
    BY <2>2, <2>3, FS_Subset, FS_CardinalityType
<1>8. ret' = "fail" <=> eip >= ULIM /\ (~stabstr_ok \/ Before("SO") = {})
  BY <1>1, <1>2, <1>5
<1>9. ret' = "panic" <=> eip < ULIM
  BY <1>1, <1>2, ULIMAssumption
<1>10. CASE FunctionsBefore = {}
  <2>1. region_left = lfile /\ region_right = lfile - 1
    BY <1>1, <1>10, FunctionSearchResult
  <2>2. ~found
    BY <1>5, <2>1
  <2>3. files = {lfile}
    BY <1>4, <1>5, <2>2 DEF FileEntries, NamesFile
  <2>4. MaxOf(files) = lfile
    BY <2>3, <1>5 DEF MaxOf
  <2>5. Arguments(region_left, region_right) = {}
    BY <1>5, <2>1 DEF Arguments
  <2>6. narg = 0
    BY <2>5, FS_EmptySet
  <2>7. info' = [eip_file |-> NameOr(FileEntry, Unknown), eip_line |-> 0, eip_fn_name |-> Unknown,
                 eip_fn_addr |-> eip, eip_fn_narg |-> 0]
    BY <1>3, <1>5, <2>2, <2>3, <2>4, <2>6
  <2>8. KTypeOK'
    BY <1>1, <1>2, <1>4, <1>5, <1>6, <2>1, <2>7 DEF KTypeOK, Found
  <2>9. AttributionCorrect'
    BY <1>1, <1>2, <1>6, <1>8, <1>9, <1>10, <2>7 DEF AttributionCorrect, Found
  <2> QED
    BY <1>1, <1>2, <2>8, <2>9 DEF KInv
<1>11. CASE FunctionsBefore # {}
  <2>1. /\ region_left = FunctionEntry
        /\ region_left \in lfile + 1 .. rfile /\ region_right \in region_left .. rfile
    BY <1>1, <1>11, FunctionSearchResult
  <2>2. found
    BY <1>5, <2>1
  <2>3. files = {i \in FileEntry .. FunctionEntry : i = FileEntry \/ HasType(i, "SOL")}
    <3>1. lline = FunctionEntry
      BY <2>1, <2>2
    <3>2. \A i \in lfile .. FunctionEntry : NamesFile(i) <=> i = lfile \/ HasType(i, "SOL")
      BY <1>4, <1>5, <2>1 DEF NamesFile
    <3> QED
      BY <1>5, <3>1, <3>2 DEF FileEntries
  <2>4. files # {}
    BY <1>4, <1>5, <2>1, <2>3
  <2>5. narg = Cardinality(ParametersOf(FunctionEntry))
    BY <1>1, <1>11, ArgumentsAreParameters
  <2>6. info' = [eip_file |-> NameOr(MaxOf({i \in FileEntry .. FunctionEntry :
                                                i = FileEntry \/ HasType(i, "SOL")}), Unknown),
                 eip_line |-> 0, eip_fn_name |-> NameOr(FunctionEntry, Unknown),
                 eip_fn_addr |-> Value[FunctionEntry],
                 eip_fn_narg |-> Cardinality(ParametersOf(FunctionEntry))]
    BY <1>3, <2>1, <2>2, <2>3, <2>4, <2>5
  <2>7. Value[FunctionEntry] \in Nat
    BY <1>4, <1>5, <2>1
  <2>8. KTypeOK'
    BY <1>1, <1>2, <1>4, <1>5, <1>6, <1>7, <2>1, <2>5, <2>6, <2>7 DEF KTypeOK, Found
  <2>9. AttributionCorrect'
    <3>1. MaxOf({i \in FileEntry .. FunctionEntry : i = FileEntry \/ HasType(i, "SOL")})'
            = MaxOf({i \in FileEntry .. FunctionEntry : i = FileEntry \/ HasType(i, "SOL")})
      BY <1>6 DEF MaxOf
    <3> QED
      BY <1>1, <1>2, <1>6, <1>8, <1>9, <1>11, <2>6, <3>1 DEF AttributionCorrect, Found
  <2> QED
    BY <1>1, <1>2, <2>8, <2>9 DEF KInv
<1> QED
  BY <1>10, <1>11

---------------------------------------------------------------------------
LEMMA NextKInv == KInv /\ [KNext]_kvars => KInv'
<1> SUFFICES ASSUME KInv, [KNext]_kvars PROVE KInv'
  OBVIOUS
<1>1. CASE Entry
  BY <1>1, EntryKeeps
<1>2. CASE FileSearched
  BY <1>2, FileSearchedKeeps
<1>3. CASE FunctionSearched
  BY <1>3, FunctionSearchedKeeps
<1>4. CASE Searching
  BY <1>4, SearchingKeeps
<1>5. CASE UNCHANGED kvars
  <2>1. SearchInv => SearchInv'
    BY <1>5, SearchKeepsInv DEF kvars
  <2>2. UNCHANGED <<stabs, type, call, eip, stabstr_ok, info, lfile, rfile, lfun, rfun, step, ret>>
    BY <1>5 DEF kvars, lookup, searchVars
  <2>3. UNCHANGED <<KTypeOK, FileFound, NoInfo>>
    BY <2>2 DEF KTypeOK, FileFound, NoInfo, Found, FileEntry, Before, HasType, Value, LastStab
  <2>4. UNCHANGED AttributionCorrect
    <3>1. /\ UNCHANGED <<FunctionsBefore, FunctionEntry, FileEntry, Before("SO"), Value, Found>>
          /\ ParametersOf(FunctionEntry)' = ParametersOf(FunctionEntry)
          /\ \A i, d : NameOr(i, d)' = NameOr(i, d)
          /\ \A i, ty : HasType(i, ty)' = HasType(i, ty)
      BY <2>2 DEF FunctionsBefore, FunctionEntry, FileEntry, Before, InFile, Value, Found,
                  ParametersOf, NameOr, HasType
    <3> QED
      BY <2>2, <3>1 DEF AttributionCorrect
  <2> QED
    BY <2>1, <2>2, <2>3, <2>4 DEF KInv, LastStab
<1> QED
  BY <1>1, <1>2, <1>3, <1>4, <1>5 DEF KNext

\* For every table the linker can make and every address, the regions of
\* debuginfo_eip stay inside the table, and the function's inside the file's.
THEOREM LookupTypeCorrect == KSpec => []KTypeOK
<1>1. KInv => KTypeOK
  BY DEF KInv
<1> QED
  BY <1>1, InitKInv, NextKInv, PTL DEF KSpec

\* For every table the linker can make and every address, debuginfo_eip names
\* the last function of the last object that begins at or before the address,
\* with its parameters and the file it begins in, and fails only without a
\* string table or before the first object.
THEOREM AddressesAttributed == KSpec => []AttributionCorrect
<1>1. KInv => AttributionCorrect
  BY DEF KInv
<1> QED
  BY <1>1, InitKInv, NextKInv, PTL DEF KSpec

===========================================================================
