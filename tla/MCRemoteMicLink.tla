-------------------------- MODULE MCRemoteMicLink --------------------------
(* The instances of RemoteMicLink that TLC checks. *)
EXTENDS RemoteMicLink

SomePeers == 0 .. 20

(* A request that is late counts as trouble as long as it is on its way.     *)
LateIsTrouble == trouble + Cardinality(posts) <= MaxTrouble

============================================================================
