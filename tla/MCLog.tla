------------------------------- MODULE MCLog --------------------------------
(* Instances of Log for TLC.                                               *)
EXTENDS Log, TLC

Sym == Permutations(Procs)
SymAll == Permutations(Procs) \cup Permutations(Blocks)
=============================================================================
