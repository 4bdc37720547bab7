----------------------------- MODULE MCMetrics ------------------------------
(* TLC instances of Metrics. *)
EXTENDS Metrics

(* Names over "_" < "a" < "b" < "{". *)
Names == [calls |-> <<2, 1, 2>>, time |-> <<2, 1, 3>>, up |-> <<2>>]

App == {[store |-> "private", kind |-> "gauge", key |-> [family |-> Names.up, labels |-> 0]],
        [store |-> "public",  kind |-> "info",  key |-> [family |-> Names.up, labels |-> 3]],
        [store |-> "public",  kind |-> "gauge", key |-> [family |-> Names.up \o <<1>>, labels |-> 1]]}

CallName == Names.calls
TimeName == Names.time

=============================================================================
