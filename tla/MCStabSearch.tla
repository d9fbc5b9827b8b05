-------------------------- MODULE MCStabSearch --------------------------
(* Instances of StabSearch for TLC: every small table, and the example in  *)
(* the comment of stab_binsearch.                                          *)
EXTENDS StabSearch, TLC

MCTypes == {"SO", "other"}
Addresses == 1 .. 5

Entry(t, v) == [n_type |-> t, n_value |-> v]
Entries == {Entry("SO", v) : v \in Addresses} \cup {Entry("other", 0)}

SmallTables == UNION {[0 .. n-1 -> Entries] : n \in 1 .. 4}

Ordered(t) == \A i, j \in DOMAIN t :
    i < j /\ t[i].n_type = "SO" /\ t[j].n_type = "SO" => t[i].n_value <= t[j].n_value
LongTables == {t \in [0 .. 5 -> Entries] : Ordered(t)}

\* Addresses of the example, as offsets from f0100000.
Example ==
    LET so == (0 :> 0) @@ (13 :> 64) @@ (117 :> 374) @@ (118 :> 376)
                @@ (555 :> 1618) @@ (556 :> 1620) @@ (657 :> 2121)
    IN  [i \in 0 .. 657 |-> IF i \in DOMAIN so THEN Entry("SO", so[i]) ELSE Entry("other", 0)]

MCTables == SmallTables \cup LongTables \cup {Example}
MCAddrs == Addresses \cup {388}

\* The call of the comment, the whole of each long table, and every region of
\* every small one.
MCInit ==
    /\ \/ stabs = Example /\ region_left = 0 /\ region_right = 657 /\ addr = 388
       \/ stabs \in LongTables /\ region_left = 0 /\ region_right = 5 /\ addr \in Addresses
       \/ stabs \in SmallTables /\ addr \in Addresses
    /\ type = "SO"
    /\ Init

MCSpec == MCInit /\ [][Search]_searchVars /\ WF_searchVars(Search)
=========================================================================
