------------------------------- MODULE MCAuth -------------------------------
(* Wallets, nonces and handlers are interchangeable. *)
EXTENDS Auth, TLC

Symmetric == Permutations(Wallets) \cup Permutations(Nonces) \cup Permutations(Handlers)
=============================================================================
