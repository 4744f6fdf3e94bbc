---------------------------- MODULE EsrRegister ----------------------------
(***************************************************************************)
(* What the state registry promises a payload that has its keys to itself: *)
(* a register per key.  A commit takes effect once, at the latest when it  *)
(* returns, and stays in effect until the next one; what the task reports  *)
(* is what the register holds.  The transactions behind the commits are    *)
(* sent by somebody else, at some later time, and nobody can tell.         *)
(***************************************************************************)
EXTENDS Naturals

CONSTANTS Keys,
          Ids,    \* the containers commits make
          Empty   \* the one every key starts with

VARIABLES value,    \* the container of each key and its version
          reported  \* what the task's result says of each key

Init ==
    /\ value = [k \in Keys |-> [id |-> Empty, version |-> 0]]
    /\ reported = value

\* A read, or a commit that took effect before it returned, is reported.
Report(k) ==
    /\ reported' = [reported EXCEPT ![k] = value[k]]
    /\ UNCHANGED value

\* No container is committed twice.
Commit(k, id) ==
    /\ \A x \in Keys : value[x].id # id
    /\ value' = [value EXCEPT ![k] = [id |-> id, version |-> @.version + 1]]
    /\ \/ UNCHANGED reported
       \/ reported' = [reported EXCEPT ![k] = value'[k]]

Next == \E k \in Keys : Report(k) \/ \E id \in Ids : Commit(k, id)

Spec == Init /\ [][Next]_<<value, reported>>
=============================================================================
