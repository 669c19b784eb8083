------------------------------- MODULE Shelf -------------------------------
(***************************************************************************)
(* What a workspace's contract store promises while one command at a time  *)
(* uses it: contracts come onto the shelf one by one, the one in use is    *)
(* always there, and one is thrown away only when it is not in use and     *)
(* the shelf is full.                                                      *)
(***************************************************************************)
EXTENDS Naturals, FiniteSets

CONSTANTS
  Id,        \* names of contracts
  None,      \* no contract
  MinLimit   \* the smallest number of contracts a full shelf holds

VARIABLES
  kept,      \* the contracts on the shelf
  active     \* the one in use

TypeOK == kept \subseteq Id /\ active \in kept \union {None}

Init == TypeOK

Add(k) ==
  /\ k \notin kept
  /\ kept' = kept \union {k}
  /\ UNCHANGED active

Drop(k) ==
  /\ k # active
  /\ Cardinality(kept) > MinLimit
  /\ kept' = kept \ {k}
  /\ UNCHANGED active

Select(k) ==
  /\ k \in kept
  /\ active' = k
  /\ UNCHANGED kept

Next == \E k \in Id : Add(k) \/ Drop(k) \/ Select(k)

Spec == Init /\ [][Next]_<<kept, active>>
=============================================================================
