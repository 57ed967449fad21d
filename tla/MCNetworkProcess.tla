--------------------------- MODULE MCNetworkProcess ---------------------------
(***************************************************************************)
(* Two web processes, one of which needs two loads and may turn on serial  *)
(* loading; the network process may die once.                              *)
(***************************************************************************)
EXTENDS NetworkProcess

MCWebProcesses    == {"w1", "w2"}
MCLoads           == {"a", "b", "c"}
MCOwner           == [l \in MCLoads |-> IF l = "c" THEN "w2" ELSE "w1"]
MCSerialProcesses == {"w1"}
=============================================================================
