--------------------------- MODULE MCMqttClients ---------------------------
(* Small instances of MqttClients.  The requests and clients of different  *)
(* devices share no row and no entry, only the process that runs them, so  *)
(* one device shows the interleavings that matter.                         *)
EXTENDS MqttClients

CONSTANTS d1, c1, c2, c3, plain, moved, topicless
=============================================================================
