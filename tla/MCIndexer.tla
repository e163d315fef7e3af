------------------------------ MODULE MCIndexer -------------------------------
(***************************************************************************)
(* Finite instances of Indexer: which faults may happen, and how often.    *)
(***************************************************************************)
EXTENDS Indexer, TLC

NoFaults == [f \in Faults |-> 0]
Concurrent == [NoFaults EXCEPT !["session"] = 1, !["refused"] = 1, !["bypass"] = 1]
Failing == [NoFaults EXCEPT !["abort"] = 1, !["crash"] = 1, !["scan"] = 1,
                            !["request"] = 1, !["refresh"] = 1]
Stressed == [NoFaults EXCEPT !["abort"] = 1, !["crash"] = 1, !["scan"] = 1, !["read"] = 1,
                             !["request"] = 1, !["refused"] = 1, !["bypass"] = 1]

Symmetric == Permutations(Wallets) \cup Permutations(Loops)
===============================================================================
