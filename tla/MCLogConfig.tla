---------------------------- MODULE MCLogConfig -----------------------------
(* TLC instances of LogConfig: a file at a low and one at a high level, and  *)
(* the console.                                                              *)
EXTENDS LogConfig, TLC

CONSTANTS c1, c2, quiet, loud, console

MCLevelOf == [s \in {quiet, loud, console} |->
                IF s = loud THEN 1 ELSE IF s = quiet THEN 3 ELSE 2]

ConfigSymmetry == Permutations(Loggers) \union Permutations(Callers)

=============================================================================
