-------------------------- MODULE MCStoreQueueTurns --------------------------
(* The events of MCStoreQueue, with the turns of the two queues counted.    *)
EXTENDS MCStoreQueue, StoreTurns
=============================================================================
