----------------------------- MODULE MCExecutor -----------------------------
(* The executor on a small instance.                                       *)
EXTENDS Executor, TLC

Symmetry == Permutations(Calls) \union Permutations(Verbs) \union Permutations(Ids)
=============================================================================
