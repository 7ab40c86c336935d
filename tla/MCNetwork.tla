------------------------------- MODULE MCNetwork -------------------------------
(* A small instance of Network: the last device has another application in *)
(* ChirpStack, and requests are alike.                                     *)
EXTENDS Network, TLC

CONSTANTS d3, app1, app2

TwoApplications == [d \in Device |-> IF d = d3 THEN app2 ELSE app1]

AnyOrder == Permutations(Request)
=============================================================================
