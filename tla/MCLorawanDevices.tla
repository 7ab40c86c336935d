-------------------------- MODULE MCLorawanDevices --------------------------
(* Small instances of LorawanDevices.                                      *)
EXTENDS LorawanDevices, TLC

CONSTANTS r1, r2, r3, old, e1, e2, a1, a2, c1, c2, c3, c4

(* a2 has no application in ChirpStack yet.  One device is there, in an     *)
(* application of ChirpStack that is not the one of a1: two requests that   *)
(* create the first devices of an application at once leave it like that.   *)
OldRow == [i \in Old |-> [eui |-> e1, app |-> a1, cs |-> c2]]
OldCs == [a \in App |-> IF a = a1 THEN c1 ELSE NoCs]

AnyOrder == Permutations(Request)
=============================================================================
