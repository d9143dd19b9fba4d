-------------------------------- MODULE MCHost --------------------------------
(* Small instances of Host: collectors with two, one and no capability.     *)
EXTENDS Host, TLC

CapsMenu == [native |-> {"spawn", "state"}, occupancy |-> {"metrics"}, bare |-> {}]
CapsOfMenu == [k \in Sources |-> CapsMenu[k]]
=============================================================================
