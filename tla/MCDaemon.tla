------------------------------ MODULE MCDaemon ------------------------------
(* TLC instances of Daemon. *)
EXTENDS Daemon

Runs(starts, stops, calls) ==
  [starts |-> starts, stops |-> stops, calls |-> calls, serial |-> TRUE, slow |-> FALSE, faults |-> FALSE]

OneByOne    == {Runs(3, 2, 0), Runs(2, 1, 1)}
Overlapping == {[Runs(2, 1, 0) EXCEPT !.serial = FALSE, !.slow = TRUE, !.faults = TRUE]}
InNoHurry   == {[Runs(2, 1, 0) EXCEPT !.slow = TRUE]}
AllWays     == OneByOne \union Overlapping \union InNoHurry

=============================================================================
