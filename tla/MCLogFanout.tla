---------------------------- MODULE MCLogFanout -----------------------------
(* TLC instances of LogFanout. *)
EXTENDS LogFanout, TLC

LogSymmetry == Permutations(Loggers) \union Permutations(Subs)

=============================================================================
