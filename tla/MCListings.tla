------------------------------ MODULE MCListings ------------------------------
(***************************************************************************)
(* Finite instances of Listings.                                           *)
(***************************************************************************)
EXTENDS Listings, TLC

Stressed == [f \in Faults |-> 1]
===============================================================================
