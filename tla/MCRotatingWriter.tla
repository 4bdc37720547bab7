-------------------------- MODULE MCRotatingWriter --------------------------
(* TLC instances of RotatingWriter. *)
EXTENDS RotatingWriter

Config(u, n, gz, old) == [units |-> u, backups |-> n, compress |-> gz, age |-> old]

(* Limits below, at and above the length of the longest record. *)
Failing   == {Config(1, 3, FALSE, FALSE), Config(3, 2, FALSE, TRUE), Config(2, 1, TRUE, FALSE)}
Lasting   == {Config(2, 2, FALSE, TRUE), Config(1, 3, TRUE, TRUE), Config(0, 1, TRUE, FALSE)}
Rotations == Failing \union Lasting
Unlimited == {Config(1, 0, FALSE, FALSE)}

=============================================================================
