----------------------------- MODULE RpcPromise -----------------------------
(* What the RPC server promises about the status of a call, whatever method  *)
(* is called and however it ends.  A call has one answer, whose status is    *)
(* fixed once; it is counted at most once in rpc_calls_total; and the status *)
(* it is counted under is the one it was answered with, except that a call   *)
(* that failed after its status line was already on the wire is counted as   *)
(* a failure, and that a method may choose the status it is counted under.   *)
(* The detailed server, RpcCall, implements this module.                     *)
EXTENDS Naturals, FiniteSets

CONSTANTS
  Calls,        \* the calls a server receives
  Methods,      \* the methods it has registered
  OwnCodes      \* statuses a method may choose

VARIABLES
  answer,       \* status on the wire, 0 until it is fixed
  counted,      \* <<method, status>> the call was counted under, or <<>>
  chosen,       \* the statuses its method has chosen so far
  tally         \* rpc_calls_total: <<method, status>> -> number

Statuses == {200, 204, 400, 404, 500} \union OwnCodes
Failure  == 500
Labels   == Methods \X Statuses

vars == <<answer, counted, chosen, tally>>

TypeOK ==
  /\ answer  \in [Calls -> {0} \union Statuses]
  /\ counted \in [Calls -> {<<>>} \union Labels]
  /\ chosen  \in [Calls -> SUBSET OwnCodes]
  /\ tally   \in [Labels -> Nat]

Init ==
  /\ answer  = [r \in Calls |-> 0]
  /\ counted = [r \in Calls |-> <<>>]
  /\ chosen  = [r \in Calls |-> {}]
  /\ tally   = [l \in Labels |-> 0]

(* The status of a call is fixed, consistently with how it was counted. *)
Answer(r, s) ==
  /\ answer[r] = 0
  /\ counted[r] = <<>> \/ counted[r][2] \in {s} \union chosen[r]
  /\ answer' = [answer EXCEPT ![r] = s]
  /\ UNCHANGED <<counted, chosen, tally>>

(* The method chooses a status to be counted under. *)
Choose(r, s) ==
  /\ chosen' = [chosen EXCEPT ![r] = @ \union {s}]
  /\ UNCHANGED <<answer, counted, tally>>

(* The call is counted: under its answer, as a failure, or as was chosen. *)
Count(r, m, s) ==
  /\ counted[r] = <<>>
  /\ answer[r] \in {0, s} \/ s \in {Failure} \union chosen[r]
  /\ counted' = [counted EXCEPT ![r] = <<m, s>>]
  /\ tally'   = [tally EXCEPT ![<<m, s>>] = @ + 1]
  /\ UNCHANGED <<answer, chosen>>

Next ==
  \E r \in Calls, s \in Statuses :
    \/ Answer(r, s)
    \/ s \in OwnCodes /\ Choose(r, s)
    \/ \E m \in Methods : Count(r, m, s)

Spec == Init /\ [][Next]_vars

(* Every series of rpc_calls_total is exactly the number of calls counted    *)
(* under its labels: no call is lost from the metrics or counted twice.      *)
TallyExact ==
  \A l \in Labels : tally[l] = Cardinality({r \in Calls : counted[r] = l})

(* A call counted under a status other than failure, and other than the      *)
(* method's choice, was not answered with another one: what an operator      *)
(* reads in the metrics is what clients saw.                                 *)
CountAgreesWithAnswer ==
  \A r \in Calls :
    counted[r] # <<>> /\ answer[r] # 0
      => counted[r][2] \in {answer[r], Failure} \union chosen[r]

=============================================================================
