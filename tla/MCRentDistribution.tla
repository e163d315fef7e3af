-------------------------- MODULE MCRentDistribution --------------------------
(***************************************************************************)
(* A finite instance of RentDistribution: two properties, two accounts and *)
(* an odd rent, so that the floor of half a rent differs from the share.   *)
(* Properties and accounts are interchangeable: no action names one.       *)
(***************************************************************************)
EXTENDS RentDistribution, TLC

Symmetry == Permutations(Properties) \cup Permutations(Accounts)
===============================================================================
