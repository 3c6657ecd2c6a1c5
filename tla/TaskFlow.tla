------------------------------ MODULE TaskFlow ------------------------------
(***************************************************************************)
(* What a step of a workflow promises about its tasks, whatever the inputs *)
(* are and however they are combined.                                      *)
(*                                                                         *)
(* The data paths of the step become ready one by one or several at once,  *)
(* and stay ready.  A task is made for a data path only when it is ready.  *)
(* At most Concurrency tasks are made for one data path: exactly one if    *)
(* inputs are pushed by one handler at a time, and no task is ever taken   *)
(* away again.                                                             *)
(***************************************************************************)
EXTENDS Naturals

CONSTANT Concurrency  \* how many handlers push inputs into the step at once

VARIABLES
  ready,    \* the data paths all of whose inputs are there
  created   \* how many tasks each data path has

Init == created = [p \in DOMAIN created |-> 0]

Arrive ==
  /\ ready \subseteq ready'
  /\ UNCHANGED created

Create ==
  /\ UNCHANGED ready
  /\ DOMAIN created' = DOMAIN created
  /\ \A p \in DOMAIN created :
       \/ created'[p] = created[p]
       \/ p \in ready /\ created[p] < Concurrency /\ created'[p] = created[p] + 1

Next == Arrive \/ Create

Spec == Init /\ [][Next]_<<ready, created>>
=============================================================================
