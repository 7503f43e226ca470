------------------------------ MODULE MCPages -------------------------------
(* Pages with two intents, of two runs, one row to a page.  The listing of *)
(* batches, the same query over another table, stays empty.                *)
EXTENDS Pages

CONSTANTS i1, i2, good, bad

MCItems == {i1, i2}
MCKind == [i \in MCItems |-> "intents"]
MCRunOf == [i \in MCItems |-> IF i = i2 THEN "other" ELSE "default"]
MCRank == [i \in MCItems |-> IF i = i1 THEN 1 ELSE 0]
MCEnding == {i1}
MCFilters == {"all", "other"}
MCFiles == {good, bad}
MCValid == {good}
=============================================================================
