------------------------------ MODULE MeshRelay ------------------------------
(***************************************************************************)
(* MeshRelay of transport/relay.py: the decision whether a node forwards a *)
(* packet, with a cache of the packets it has forwarded.  The cache is an  *)
(* OrderedDict without values: the sequence of its keys in the order of    *)
(* insertion.                                                              *)
(***************************************************************************)
EXTENDS Integers, Sequences

CONSTANTS
    PacketIds,      \* packet_id
    MaxHops,        \* max_hops
    CacheSize       \* seen_cache_size

ASSUME RelayAssumption ==
    /\ MaxHops \in Nat
    /\ CacheSize \in Nat

VARIABLES
    cache,          \* _seen, oldest first
    order           \* history: the packets taken for forwarding, in order

relayVars == <<cache, order>>

RelayInit ==
    /\ cache = <<>>
    /\ order = <<>>

SeenSet == {cache[i] : i \in DOMAIN cache}

-----------------------------------------------------------------------------
(* Mutants of MarkSeen: the cache is emptied when it is full, only checked *)
(* for being over its size, or loses its newest half.                      *)
MarkSeenClearing(id) ==
    cache' = IF Len(cache) >= CacheSize THEN <<id>> ELSE Append(cache, id)

MarkSeenLate(id) ==
    LET kept == IF Len(cache) > CacheSize
                THEN SubSeq(cache, (CacheSize \div 2) + 1, Len(cache))
                ELSE cache
    IN cache' = Append(kept, id)

MarkSeenDroppingNewest(id) ==
    LET kept == IF Len(cache) >= CacheSize
                THEN SubSeq(cache, 1, Len(cache) - (CacheSize \div 2))
                ELSE cache
    IN cache' = Append(kept, id)

\* _mark_seen: the oldest half is evicted when the cache is full.
MarkSeen(id) ==
    LET kept == IF Len(cache) >= CacheSize
                THEN SubSeq(cache, (CacheSize \div 2) + 1, Len(cache))
                ELSE cache
    IN cache' = Append(kept, id)

\* What prepare_relay finds about a packet, in the order it looks.
Drops(id, hops, mesh) ==
    \/ ~ mesh
    \/ id \in SeenSet
    \/ hops >= MaxHops

\* prepare_relay returns the packet with one hop more; when it drops the
\* packet nothing changes (a packet past its hops is not marked as seen).
PrepareRelay(id, hops, mesh) ==
    /\ ~ Drops(id, hops, mesh)
    /\ MarkSeen(id)
    /\ order' = Append(order, id)

Drop(id, hops, mesh) == Drops(id, hops, mesh) /\ UNCHANGED relayVars

RelayNext ==
    \E id \in PacketIds, h \in Nat, m \in BOOLEAN :
        PrepareRelay(id, h, m) \/ Drop(id, h, m)

RelaySpec == RelayInit /\ [][RelayNext]_relayVars

-----------------------------------------------------------------------------
(* Properties.                                                             *)

\* The cache holds the packets forwarded last, each once.
RelayTypeOK ==
    /\ cache \in Seq(PacketIds)
    /\ order \in Seq(PacketIds)
    /\ Len(cache) <= Len(order)
    /\ \A i \in DOMAIN cache : cache[i] = order[Len(order) - Len(cache) + i]

\* "max entries in seen-packets cache" (relay.py:21).
CacheBounded == Len(cache) <= CacheSize

\* How many of the packets forwarded last the cache is sure to hold.
Remembered == CacheSize - (CacheSize \div 2) + 1

\* The loop protection: a packet is forwarded a second time only after at
\* least Remembered other packets, though half of the cache goes at once
\* (relay.py:66-73).
NoLoopWithinCache ==
    \A i, j \in DOMAIN order :
        i < j /\ order[i] = order[j] => j - i > Remembered

=============================================================================
