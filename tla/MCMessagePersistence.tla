----------------------- MODULE MCMessagePersistence -----------------------
(* Small instances of MessagePersistence.                                  *)
EXTENDS MessagePersistence

CONSTANTS m1, m2, m3, m4

(* a quiet time, then two messages of one moment and one within the hour *)
Bursty == [m \in Message |-> CASE m = m1 -> 0 [] m = m2 -> 3 [] m = m3 -> 3 [] m = m4 -> 4]
(* one message an hour *)
Steady == [m \in Message |-> CASE m = m1 -> 0 [] m = m2 -> 2 [] m = m3 -> 4]
(* all at once *)
Together == [m \in Message |-> 0]
=============================================================================
