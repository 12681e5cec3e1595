------------------------------ MODULE MCIoTNode ------------------------------
(* An instance of IoTNode for TLC.                                           *)
EXTENDS IoTNode, TLC

CONSTANTS hub, sensor, relay, i1, i2

\* The sensor pings the hub by its DID through a relay, whose broadcasts it too
\* hears; the hub pings whoever is at the relay's address, as "broadcast".
\* The relay hears the heartbeats of the hub.  Hub and relay would answer i1 if
\* they were asked.
TheSource == i1 :> sensor @@ i2 :> hub
TheTarget == i1 :> hub @@ i2 :> Broadcast
TheHop == i1 :> relay @@ i2 :> relay
TheNeighbours == hub :> {relay} @@ sensor :> {relay} @@ relay :> {sensor}
TheHeartbeats == {<<relay, hub>>}
TheAdmits == {<<hub, i1>>, <<relay, i1>>, <<relay, i2>>}

=============================================================================
