---------------------------- MODULE MCInvestments -----------------------------
(***************************************************************************)
(* Finite instances of Investments.                                        *)
(***************************************************************************)
EXTENDS Investments
===============================================================================
