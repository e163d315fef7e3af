----------------------------- MODULE MCRentYield ------------------------------
(***************************************************************************)
(* Finite instances of RentYield.                                          *)
(***************************************************************************)
EXTENDS RentYield, TLC

Symmetric == Permutations(Investors) \cup Permutations(Handlers)
===============================================================================
