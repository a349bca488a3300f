-------------------------- MODULE MCPeerDiscovery --------------------------
(* Instances of PeerDiscovery for TLC. *)
EXTENDS PeerDiscovery, TLC

CONSTANTS me, alice

MCPortOf == me :> 8080 @@ alice :> 8081
=============================================================================
