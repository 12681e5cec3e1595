---------------------------- MODULE MCPingHandler ----------------------------
(* Instances of PingHandler for TLC: a sensor known by vouches, a lamp that  *)
(* may be known, and a packet of each, that of the lamp stamped ahead.       *)
EXTENDS PingHandler

CONSTANTS read, unlock, sensor, lamp, v1, v2, p1, p2

Packet(id, source, kind, stamp) ==
    [id |-> id, nonce |-> id, source |-> source, kind |-> kind, stamp |-> stamp]

MCPackets == { Packet(p1, sensor, read, 0), Packet(p2, lamp, unlock, 1) }

MCRules == {
    [covers |-> {unlock}, minTrust |-> 0, priority |-> 50, zone |-> "GEEL"],
    [covers |-> {read, unlock}, minTrust |-> 0, priority |-> 50, zone |-> "ROOD"],
    [covers |-> {read, unlock}, minTrust |-> 5, priority |-> 90, zone |-> "GROEN"] }

Covers(n1, n2) == [d \in {sensor, lamp} |-> IF d = sensor THEN n1 ELSE n2]

MCVouches == {
    [id |-> v1, trust |-> 6, dids |-> Covers(1, 0), expires |-> 0],
    [id |-> v1, trust |-> 8, dids |-> Covers(0, 1), expires |-> Never],
    [id |-> v2, trust |-> 8, dids |-> Covers(1, 1), expires |-> Never] }

\* A trust below the scale, which set_device_trust clamps.
MCSettings == {<<lamp, -2>>}

=============================================================================
