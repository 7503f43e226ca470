------------------------------- MODULE MCConsole ----------------------------
(* Model values for TLC: two owners of one wallet, and one call of act()   *)
(* at a time, which may be left over from an earlier visit to the page.    *)
EXTENDS Console, TLC

CONSTANTS ann, bob, first

MCAccounts == {ann, bob}
MCActs == {first}

(* For the safety properties only: no definition tells the owners apart.   *)
Symmetry == Permutations(MCAccounts)
=============================================================================
