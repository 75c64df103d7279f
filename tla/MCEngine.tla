------------------------------ MODULE MCEngine ------------------------------
(***************************************************************************)
(* Instance of Engine for TLC: up to two links among four locations in two *)
(* directories, to each other or to a file, by every kind of path.         *)
(***************************************************************************)
EXTENDS Engine

Locations == {<<"a", "x">>, <<"a", "y">>, <<"a", "b", "x">>, <<"a", "b", "y">>}

Targets == {Path(TRUE, l) : l \in Locations}
             \cup {Path(FALSE, n) : n \in {<<"x">>, <<"y">>, <<"b", "x">>}}

MCLinks == UNION {[L -> Targets] : L \in {M \in SUBSET Locations : Cardinality(M) <= 2}}

MCArgv0 == {Path(TRUE, <<"a", "x">>), Path(FALSE, <<"x">>), Path(FALSE, <<"a", "x">>)}

MCCwds == {<<>>, <<"a">>}

\* At most one library is missing, or lacks its symbols.
AllGood == [l \in Natives |-> "good"]

MCDisks == {AllGood} \cup {[AllGood EXCEPT ![l] = "missing"] : l \in Natives}
             \cup {[AllGood EXCEPT !["io-engine"] = "broken"]}
=============================================================================
