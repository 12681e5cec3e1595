--------------------------- MODULE MeshNode_proofs ---------------------------
(***************************************************************************)
(* Proofs about the mesh: the relay alone (MeshRelay), whose cache holds   *)
(* the packets forwarded last, is bounded when it has room for two, and    *)
(* stops loops; and the node (MeshNode), whose relay behaves as MeshRelay, *)
(* whose table of peers is what was heard within the timeout, and which    *)
(* answers twice only what was stamped ahead, a window later.              *)
(***************************************************************************)
EXTENDS MeshNode, SequenceTheorems, TLAPS

-----------------------------------------------------------------------------
(* The relay.                                                              *)

USE RelayAssumption

(***************************************************************************)
(* The strengthening NoLoopWithinCache needs: the cache never holds fewer  *)
(* than Remembered packets once so many have been forwarded.               *)
(***************************************************************************)
CacheFilled == Len(cache) >= Len(order) \/ Len(cache) >= Remembered

\* The inductive invariant of the relay.
RelayInv ==
    /\ RelayTypeOK
    /\ CacheFilled
    /\ NoLoopWithinCache

Half == CacheSize \div 2

\* What is known of the half that is evicted.
LEMMA HalfBounds ==
    /\ Half \in Nat
    /\ 2 * Half <= CacheSize
    /\ CacheSize <= 2 * Half + 1
  BY DEF Half

\* What MarkSeen leaves: a suffix of the cache, with the packet behind it.
LEMMA MarkSeenSuffix ==
    ASSUME cache \in Seq(PacketIds), NEW id \in PacketIds, MarkSeen(id)
    PROVE  \E d \in Nat :
              /\ d <= Len(cache)
              /\ d = IF Len(cache) >= CacheSize THEN Half ELSE 0
              /\ cache' \in Seq(PacketIds)
              /\ Len(cache') = Len(cache) - d + 1
              /\ \A i \in 1 .. Len(cache) - d : cache'[i] = cache[i + d]
              /\ cache'[Len(cache) - d + 1] = id
  <1> DEFINE n == Len(cache)
  <1>1. n \in Nat
    OBVIOUS
  <1>2. CASE n >= CacheSize
    <2> DEFINE kept == SubSeq(cache, Half + 1, n)
    <2>1. Half <= n
      BY <1>1, <1>2, HalfBounds
    <2>2. /\ kept \in Seq(PacketIds)
          /\ Len(kept) = n - Half
          /\ \A i \in 1 .. n - Half : kept[i] = cache[i + Half]
      BY <1>1, <2>1, HalfBounds
    <2>3. cache' = Append(kept, id)
      BY <1>2 DEF MarkSeen, Half
    <2> HIDE DEF kept
    <2>4. /\ cache' \in Seq(PacketIds)
          /\ Len(cache') = n - Half + 1
          /\ \A i \in 1 .. n - Half : cache'[i] = kept[i]
          /\ cache'[n - Half + 1] = id
      BY <2>2, <2>3
    <2> QED
      BY <1>2, <2>1, <2>2, <2>4, HalfBounds
  <1>3. CASE ~ (n >= CacheSize)
    <2>1. cache' = Append(cache, id)
      BY <1>3 DEF MarkSeen
    <2>2. /\ cache' \in Seq(PacketIds)
          /\ Len(cache') = n - 0 + 1
          /\ \A i \in 1 .. n - 0 : cache'[i] = cache[i + 0]
          /\ cache'[n - 0 + 1] = id
      BY <1>1, <2>1
    <2> QED
      BY <1>3, <2>2
  <1> QED
    BY <1>2, <1>3

\* RelayInv holds at first, and is preserved.
LEMMA InitKeepsRelay == RelayInit => RelayInv
  <1> SUFFICES ASSUME RelayInit
               PROVE  RelayInv
    OBVIOUS
  <1>1. cache = <<>> /\ order = <<>>
    BY DEF RelayInit
  <1> QED
    BY <1>1 DEF RelayInv, RelayTypeOK, CacheFilled, NoLoopWithinCache

\* Every step of the relay keeps the inductive invariant of the cache.
LEMMA RelayStep == RelayInv /\ [RelayNext]_relayVars => RelayInv'
  <1> SUFFICES ASSUME RelayInv, [RelayNext]_relayVars
               PROVE  RelayInv'
    OBVIOUS
  <1>1. ASSUME NEW id \in PacketIds, NEW h \in Nat, NEW m \in BOOLEAN,
               PrepareRelay(id, h, m)
        PROVE  RelayInv'
    <2> DEFINE n == Len(order)
               s == Len(cache)
    <2>1. n \in Nat /\ s \in Nat /\ s <= n
      BY DEF RelayInv, RelayTypeOK
    <2>2. PICK d \in Nat :
              /\ d <= s
              /\ d = IF s >= CacheSize THEN Half ELSE 0
              /\ cache' \in Seq(PacketIds)
              /\ Len(cache') = s - d + 1
              /\ \A i \in 1 .. s - d : cache'[i] = cache[i + d]
              /\ cache'[s - d + 1] = id
      BY <1>1, MarkSeenSuffix DEF PrepareRelay, RelayInv, RelayTypeOK
    <2>3. order' = Append(order, id) /\ order \in Seq(PacketIds)
      BY <1>1 DEF PrepareRelay, RelayInv, RelayTypeOK
    <2>4. /\ order' \in Seq(PacketIds)
          /\ Len(order') = n + 1
          /\ DOMAIN order' = 1 .. n + 1
          /\ \A i \in 1 .. n : order'[i] = order[i]
          /\ order'[n + 1] = id
      BY <2>3
    <2> HIDE DEF n, s
    <2>5. RelayTypeOK'
      <3>1. ASSUME NEW i \in DOMAIN cache'
            PROVE  cache'[i] = order'[Len(order') - Len(cache') + i]
        <4>1. i \in 1 .. s - d + 1
          BY <2>1, <2>2
        <4>2. Len(order') - Len(cache') + i = n - (s - d) + i
          <5>1. i \in Int
            BY <2>1, <4>1
          <5>2. (n + 1) - (s - d + 1) + i = n - (s - d) + i
            BY <2>1, <5>1
          <5>3. Len(order') = n + 1 /\ Len(cache') = s - d + 1
            BY <2>2, <2>4
          <5> QED
            BY <5>2, <5>3
        <4>3. CASE i = s - d + 1
          BY <2>1, <2>2, <2>4, <4>2, <4>3
        <4>4. CASE i \in 1 .. s - d
          <5>1. i + d \in DOMAIN cache
            BY <2>1, <2>2, <4>4 DEF s, RelayInv, RelayTypeOK
          <5>2. cache[i + d] = order[n - s + (i + d)]
            BY <5>1 DEF RelayInv, RelayTypeOK, n, s
          <5>3. n - s + (i + d) \in 1 .. n /\ n - s + (i + d) = n - (s - d) + i
            BY <2>1, <2>2, <4>4
          <5> QED
            BY <2>2, <2>4, <4>2, <4>4, <5>2, <5>3
        <4> QED
          BY <2>1, <4>1, <4>3, <4>4
      <3>2. Len(cache') <= Len(order')
        BY <2>1, <2>2, <2>4
      <3> QED
        BY <2>2, <2>4, <3>1, <3>2 DEF RelayTypeOK
    <2>6. CacheFilled'
      <3>1. CASE s >= CacheSize
        <4>1. s - d + 1 >= CacheSize - Half + 1
          BY <2>1, <2>2, <3>1, HalfBounds
        <4> QED
          BY <2>2, <4>1 DEF CacheFilled, Remembered, Half
      <3>2. CASE ~ (s >= CacheSize)
        <4>1. s >= n \/ s >= Remembered
          BY DEF RelayInv, CacheFilled, s, n
        <4>2. Remembered = CacheSize - Half + 1 /\ Remembered \in Int
          BY HalfBounds DEF Remembered, Half
        <4>3. s + 1 >= n + 1 \/ s + 1 >= Remembered
          BY <2>1, <4>1, <4>2
        <4> QED
          BY <2>1, <2>2, <2>4, <3>2, <4>3 DEF CacheFilled, Remembered
      <3> QED
        BY <3>1, <3>2
    <2>7. NoLoopWithinCache'
      <3> SUFFICES ASSUME NEW i \in 1 .. n + 1, NEW j \in 1 .. n + 1,
                          i < j, order'[i] = order'[j]
                   PROVE  j - i > Remembered
        BY <2>4 DEF NoLoopWithinCache, Remembered
      <3>1. i \in 1 .. n
        BY <2>1
      <3>2. CASE j \in 1 .. n
        BY <2>3, <2>4, <3>1, <3>2 DEF RelayInv, NoLoopWithinCache, n
      <3>3. CASE j = n + 1
        <4>1. order[i] = id
          BY <2>4, <3>1, <3>3
        <4>2. id \notin SeenSet
          BY <1>1 DEF PrepareRelay, Drops
        <4>3. ~ (i > n - s)
          <5> SUFFICES ASSUME i > n - s
                       PROVE  FALSE
            OBVIOUS
          <5>1. i - (n - s) \in 1 .. s /\ n - s + (i - (n - s)) = i
            BY <2>1, <3>1
          <5>2. i - (n - s) \in DOMAIN cache
            BY <5>1 DEF s, RelayInv, RelayTypeOK
          <5>3. cache[i - (n - s)] = order[i]
            BY <5>1, <5>2 DEF RelayInv, RelayTypeOK, n, s
          <5> QED
            BY <4>1, <4>2, <5>2, <5>3 DEF SeenSet
        <4>4. s >= n \/ s >= Remembered
          BY DEF RelayInv, CacheFilled, s, n
        <4>5. Remembered \in Int
          BY HalfBounds DEF Remembered, Half
        <4> QED
          BY <2>1, <3>1, <3>3, <4>3, <4>4, <4>5
      <3> QED
        BY <2>1, <3>2, <3>3
    <2> QED
      BY <2>5, <2>6, <2>7 DEF RelayInv
  <1>2. CASE UNCHANGED relayVars
    BY <1>2 DEF relayVars, RelayInv, RelayTypeOK, CacheFilled, NoLoopWithinCache, Remembered
  <1> QED
    BY <1>1, <1>2 DEF RelayNext, Drop

(***************************************************************************)
(* A packet is forwarded again only after Remembered others: loops shorter *)
(* than that are cut, for every size of the cache.                         *)
(***************************************************************************)
THEOREM LoopsAreCut == RelaySpec => []NoLoopWithinCache
  <1>1. RelayInv => NoLoopWithinCache
    BY DEF RelayInv
  <1> QED
    BY InitKeepsRelay, RelayStep, <1>1, PTL DEF RelaySpec

(***************************************************************************)
(* A cache for two packets or more never outgrows its size.                *)
(***************************************************************************)
THEOREM CacheStaysBounded ==
    ASSUME CacheSize >= 2
    PROVE  RelaySpec => []CacheBounded
  <1>1. RelayInit => CacheBounded
    BY DEF RelayInit, CacheBounded
  <1>2. RelayInv /\ CacheBounded /\ [RelayNext]_relayVars => CacheBounded'
    <2> SUFFICES ASSUME RelayInv, CacheBounded, [RelayNext]_relayVars
                 PROVE  CacheBounded'
      OBVIOUS
    <2>1. ASSUME NEW id \in PacketIds, NEW h \in Nat, NEW m \in BOOLEAN,
                 PrepareRelay(id, h, m)
          PROVE  CacheBounded'
      <3>1. PICK d \in Nat :
                /\ d = IF Len(cache) >= CacheSize THEN Half ELSE 0
                /\ Len(cache') = Len(cache) - d + 1
        BY <2>1, MarkSeenSuffix DEF PrepareRelay, RelayInv, RelayTypeOK
      <3>2. Len(cache) \in Nat /\ Len(cache) <= CacheSize
        BY DEF RelayInv, RelayTypeOK, CacheBounded
      <3> QED
        BY <3>1, <3>2, HalfBounds DEF CacheBounded
    <2>2. CASE UNCHANGED relayVars
      BY <2>2 DEF relayVars, CacheBounded
    <2> QED
      BY <2>1, <2>2 DEF RelayNext, Drop
  <1> QED
    BY InitKeepsRelay, RelayStep, <1>1, <1>2, PTL DEF RelaySpec

USE PeerAssumption, NodeAssumption, TableAssumption

-----------------------------------------------------------------------------
(* The tasks.                                                              *)

Tasks == Seq([packet : Packets, from : Addresses])

TaskTypes == handlers \in Nat /\ tasks \in Tasks

\* Whatever happens, the tasks are of packets that may arrive.
LEMMA TasksKept == TaskTypes /\ [Next]_vars => TaskTypes'
  <1> SUFFICES ASSUME TaskTypes, [Next]_vars
               PROVE  TaskTypes'
    OBVIOUS
  <1> USE DEF TaskTypes
  <1>1. ASSUME NEW p \in Packets, NEW a \in Addresses, Receive(p, a)
        PROVE  TaskTypes'
    <2> DEFINE new == [i \in 1 .. handlers |-> [packet |-> p, from |-> a]]
    <2>1. tasks' = tasks \o new /\ handlers' = handlers
      BY <1>1 DEF Receive
    <2>2. new \in [1 .. handlers -> [packet : Packets, from : Addresses]]
      OBVIOUS
    <2> HIDE DEF new
    <2>3. new \in Tasks
      BY <2>2, SeqDef DEF Tasks
    <2> QED
      BY <2>1, <2>3 DEF Tasks
  <1>2. CASE HandleIncoming
    BY <1>2 DEF HandleIncoming, Tasks
  <1>3. CASE UNCHANGED tasks /\ handlers' \in {handlers, handlers + 1}
    BY <1>3
  <1> QED
    BY <1>1, <1>2, <1>3 DEF Next, StartNode, StopNode, CleanupPeers, Tick,
       vars, nodeVars

\* The tasks are well-typed in every behaviour.
LEMMA TasksAlways == Spec => []TaskTypes
  <1>1. Init => TaskTypes
    BY DEF Init, TaskTypes, Tasks
  <1> QED
    BY <1>1, TasksKept, PTL DEF Spec

\* What the task that runs is of.
LEMMA FirstTask ==
    ASSUME TaskTypes, HandleIncoming
    PROVE  \E p \in Packets, a \in Addresses :
              /\ RecordActivity(p.source, a)
              /\ IF IsForUs(p) THEN Decide(p, a) ELSE HandleRelay(p)
  <1>1. Head(tasks) \in [packet : Packets, from : Addresses]
    BY HeadTailProperties DEF TaskTypes, Tasks, HandleIncoming
  <1> QED
    BY <1>1 DEF HandleIncoming

\* What is known of a packet that arrives.
LEMMA PacketParts ==
    ASSUME NEW p \in Packets
    PROVE  /\ p.id \in PacketIds /\ p.source \in Dids
           /\ p.target \in Dids \cup {Broadcast}
           /\ p.mesh \in BOOLEAN /\ p.hops \in Nat
           /\ p.stamp \in Int \cup {Unparseable}
  OBVIOUS

-----------------------------------------------------------------------------
(* The relay.                                                              *)

\* No step of the node does to the relay what the relay does not.
LEMMA RelayMoves == TaskTypes /\ [Next]_vars => [RelayNext]_relayVars
  <1> SUFFICES ASSUME TaskTypes, [Next]_vars
               PROVE  [RelayNext]_relayVars
    OBVIOUS
  <1>1. CASE HandleIncoming
    <2>1. PICK p \in Packets, a \in Addresses :
             IF IsForUs(p) THEN Decide(p, a) ELSE HandleRelay(p)
      BY <1>1, FirstTask
    <2>2. CASE IsForUs(p)
      BY <2>1, <2>2 DEF Decide
    <2>3. CASE ~ IsForUs(p)
      BY <2>1, <2>3, PacketParts DEF HandleRelay, RelayNext
    <2> QED
      BY <2>2, <2>3
  <1>2. CASE UNCHANGED relayVars
    BY <1>2
  <1> QED
    BY <1>1, <1>2 DEF Next, StartNode, StopNode, Receive, CleanupPeers, Tick, vars

(***************************************************************************)
(* The node implements the relay: datagrams, doubled handlers, restarts    *)
(* and sends that raise included, its cache is used as MeshRelay says.     *)
(***************************************************************************)
THEOREM ImplementsRelay == Spec => RelaySpec
  <1>1. Init => RelayInit
    BY DEF Init
  <1> QED
    BY <1>1, RelayMoves, TasksAlways, PTL DEF Spec, RelaySpec

(***************************************************************************)
(* Loops are cut at the node as they are by its relay.                     *)
(***************************************************************************)
THEOREM NodeLoopsAreCut == Spec => []NoLoopWithinCache
  BY ImplementsRelay, LoopsAreCut, PTL

(***************************************************************************)
(* The node's cache for two packets or more never outgrows its size.       *)
(***************************************************************************)
THEOREM NodeCacheStaysBounded ==
    ASSUME CacheSize >= 2
    PROVE  Spec => []CacheBounded
  BY ImplementsRelay, CacheStaysBounded, PTL

-----------------------------------------------------------------------------
(* The peers.                                                              *)

(***************************************************************************)
(* The strengthening LookupsAgree needs: the table has what was heard      *)
(* last, and what it lacks of that is stale already.                       *)
(***************************************************************************)
PeersInv ==
    /\ clock \in Nat
    /\ DOMAIN peers \subseteq DOMAIN heard
    /\ \A d \in DOMAIN heard :
         /\ heard[d].address \in Addresses /\ heard[d].last_seen \in Nat
         /\ d \in DOMAIN peers => peers[d] = heard[d]
         /\ d \notin DOMAIN peers => clock - heard[d].last_seen > Timeout

\* What the node does to its peers.
LEMMA PeersMove ==
    ASSUME TaskTypes, [Next]_vars
    PROVE  \/ \E d \in Dids, a \in Addresses : RecordActivity(d, a)
           \/ PruneStale
           \/ TimePasses
           \/ UNCHANGED peerVars
  <1>1. CASE HandleIncoming
    BY <1>1, FirstTask, PacketParts
  <1> QED
    BY <1>1 DEF Next, StartNode, StopNode, Receive, CleanupPeers, Tick, vars

\* Every step of the node keeps what the peer table says of the hearings.
LEMMA PeersKept == TaskTypes /\ PeersInv /\ [Next]_vars => PeersInv'
  <1> SUFFICES ASSUME TaskTypes, PeersInv, [Next]_vars
               PROVE  PeersInv'
    OBVIOUS
  <1>1. ASSUME NEW d \in Dids, NEW a \in Addresses, RecordActivity(d, a)
        PROVE  PeersInv'
    BY <1>1 DEF RecordActivity, Recorded, PeersInv
  <1>2. CASE PruneStale
    BY <1>2 DEF PruneStale, Stale, Idle, PeersInv
  <1>3. CASE TimePasses
    BY <1>3 DEF TimePasses, PeersInv
  <1>4. CASE UNCHANGED peerVars
    BY <1>4 DEF peerVars, PeersInv
  <1> QED
    BY <1>1, <1>2, <1>3, <1>4, PeersMove

\* Then the two lookups agree.
LEMMA PeersAgree == PeersInv => LookupsAgree
  BY DEF PeersInv, LookupsAgree, GetAddress, AlivePeers, WhereHeard, Idle

\* It holds of every behaviour.
LEMMA PeersAlways == Spec => []PeersInv
  <1>1. Init => PeersInv
    BY DEF Init, PeerInit, PeersInv
  <1> QED
    BY <1>1, PeersKept, TasksAlways, PTL DEF Spec

(***************************************************************************)
(* A lookup finds the address heard last, unless that is longer ago than   *)
(* the timeout, whenever peers are recorded and pruned.                    *)
(***************************************************************************)
THEOREM LookupsAlwaysAgree == Spec => []LookupsAgree
  BY PeersAlways, PeersAgree, PTL

-----------------------------------------------------------------------------
(* The replay check.                                                       *)

\* The table of nonces has times that are past.
TableInv ==
    /\ DOMAIN seen \subseteq PacketIds
    /\ \A i \in DOMAIN seen : seen[i] \in 0 .. clock
    /\ lastCleanup \in 0 .. clock

(***************************************************************************)
(* p was let through at time t: its nonce is held, with a time no earlier, *)
(* or a cleanup has come more than a window after t.                       *)
(***************************************************************************)
Settled(p, t) ==
    /\ t \in Nat /\ t <= clock
    /\ p.stamp \in Int
    /\ \/ p.id \in DOMAIN seen /\ seen[p.id] >= t
       \/ t + Window < lastCleanup

\* What a cleanup leaves of the table: part of it, and nothing goes that is
\* not more than a window older than the cleanup.
LEMMA TableForgets ==
    ASSUME TableInv, clock \in Nat
    PROVE  /\ DOMAIN SeenAfterCleanup(clock) \subseteq DOMAIN seen
           /\ \A n \in DOMAIN SeenAfterCleanup(clock) :
                 SeenAfterCleanup(clock)[n] = seen[n]
           /\ \A n \in DOMAIN seen \ DOMAIN SeenAfterCleanup(clock) :
                 seen[n] + Window < LastCleanupAfter(clock)
           /\ LastCleanupAfter(clock) \in 0 .. clock
           /\ LastCleanupAfter(clock) >= lastCleanup
  <1> USE DEF TableInv
  <1>1. CASE CleanupDue(clock)
    <2>1. /\ SeenAfterCleanup(clock) = [n \in DOMAIN seen \ Outdated(clock) |-> seen[n]]
          /\ LastCleanupAfter(clock) = clock
      BY <1>1 DEF SeenAfterCleanup, LastCleanupAfter
    <2> QED
      BY <2>1 DEF Outdated
  <1>2. CASE ~ CleanupDue(clock)
    BY <1>2 DEF SeenAfterCleanup, LastCleanupAfter
  <1> QED
    BY <1>1, <1>2

\* What a step does to the table and the clock: only a task for this node
\* touches the table, and no time passes while it does.
LEMMA TableMoves ==
    ASSUME TaskTypes, [Next]_vars
    PROVE  \/ UNCHANGED tableVars /\ clock' \in {clock, clock + 1}
           \/ CleansUp(clock) /\ clock' = clock
           \/ \E p \in Packets : Records(p.id, clock) /\ clock' = clock
  <1>1. CASE HandleIncoming
    <2>1. PICK p \in Packets, a \in Addresses :
             /\ RecordActivity(p.source, a)
             /\ IF IsForUs(p) THEN Decide(p, a) ELSE HandleRelay(p)
      BY <1>1, FirstTask
    <2>2. clock' = clock
      BY <2>1 DEF RecordActivity
    <2>3. UNCHANGED tableVars \/ CleansUp(clock) \/ Records(p.id, clock)
      BY <2>1 DEF Decide, HandleRelay, Refuses
    <2> QED
      BY <2>2, <2>3
  <1>2. CASE CleanupPeers
    BY <1>2 DEF CleanupPeers, PruneStale
  <1>3. CASE Tick
    BY <1>3 DEF Tick, TimePasses
  <1>4. CASE UNCHANGED <<tableVars, clock>>
    BY <1>4
  <1> QED
    BY <1>1, <1>2, <1>3, <1>4 DEF Next, StartNode, StopNode, Receive, vars, peerVars

\* Every step keeps the table as it should be.
LEMMA TableKept == TaskTypes /\ PeersInv /\ TableInv /\ [Next]_vars => TableInv'
  <1> SUFFICES ASSUME TaskTypes, PeersInv, TableInv, [Next]_vars
               PROVE  TableInv'
    OBVIOUS
  <1>1. clock \in Nat
    BY DEF PeersInv
  <1>2. CASE UNCHANGED tableVars /\ clock' \in {clock, clock + 1}
    BY <1>1, <1>2 DEF tableVars, TableInv
  <1>3. CASE CleansUp(clock) /\ clock' = clock
    BY <1>1, <1>3, TableForgets DEF CleansUp, TableInv
  <1>4. ASSUME NEW p \in Packets, Records(p.id, clock), clock' = clock
        PROVE  TableInv'
    <2> DEFINE kept == SeenAfterCleanup(clock)
    <2>1. /\ seen' = [n \in DOMAIN kept \cup {p.id} |->
                         IF n = p.id THEN clock ELSE kept[n]]
          /\ lastCleanup' = LastCleanupAfter(clock)
      BY <1>4 DEF Records
    <2>2. /\ DOMAIN kept \subseteq DOMAIN seen
          /\ \A n \in DOMAIN kept : kept[n] = seen[n]
          /\ LastCleanupAfter(clock) \in 0 .. clock
      BY <1>1, TableForgets
    <2>3. p.id \in PacketIds
      BY PacketParts
    <2> HIDE DEF kept
    <2> QED
      BY <1>1, <1>4, <2>1, <2>2, <2>3 DEF TableInv
  <1> QED
    BY <1>2, <1>3, <1>4, TableMoves

\* What is settled stays so: a nonce goes by a cleanup, a window late.
LEMMA SettledStays ==
    ASSUME TaskTypes, PeersInv, TableInv, [Next]_vars
    PROVE  \A p \in Packets, t \in Nat : Settled(p, t) => Settled(p, t)'
  <1> SUFFICES ASSUME NEW p \in Packets, NEW t \in Nat, Settled(p, t)
               PROVE  Settled(p, t)'
    OBVIOUS
  <1>1. /\ clock \in Nat /\ lastCleanup \in Int
        /\ \A n \in DOMAIN seen : seen[n] \in Int
        /\ t <= clock /\ p.stamp \in Int
    BY DEF PeersInv, TableInv, Settled
  <1> DEFINE kept == SeenAfterCleanup(clock)
  <1>2. /\ LastCleanupAfter(clock) \in Int /\ lastCleanup <= LastCleanupAfter(clock)
        /\ \/ p.id \in DOMAIN kept /\ kept[p.id] >= t
           \/ t + Window < LastCleanupAfter(clock)
    BY <1>1, TableForgets DEF Settled
  <1> HIDE DEF kept
  <1>3. CASE UNCHANGED tableVars /\ clock' \in {clock, clock + 1}
    BY <1>1, <1>3 DEF Settled, tableVars
  <1>4. CASE CleansUp(clock) /\ clock' = clock
    BY <1>1, <1>2, <1>4 DEF Settled, CleansUp, kept
  <1>5. ASSUME NEW q \in Packets, Records(q.id, clock), clock' = clock
        PROVE  Settled(p, t)'
    <2>1. /\ seen' = [n \in DOMAIN kept \cup {q.id} |->
                         IF n = q.id THEN clock ELSE kept[n]]
          /\ lastCleanup' = LastCleanupAfter(clock)
      BY <1>5 DEF Records, kept
    <2> QED
      BY <1>1, <1>2, <1>5, <2>1 DEF Settled
  <1> QED
    BY <1>3, <1>4, <1>5, TableMoves

\* What is let through although it is settled was stamped ahead, and comes a
\* window late.
LEMMA SettledPasses ==
    ASSUME PeersInv, TableInv, NEW p \in Packets, Passes(p.id, p.stamp, clock)
    PROVE  \A t : Settled(p, t) => clock - t > Window /\ p.stamp > t
  <1> SUFFICES ASSUME NEW t, Settled(p, t)
               PROVE  clock - t > Window /\ p.stamp > t
    OBVIOUS
  <1>1. /\ clock \in Nat /\ lastCleanup \in Int /\ lastCleanup <= clock
        /\ \A n \in DOMAIN seen : seen[n] \in Int
        /\ t \in Nat /\ t <= clock /\ p.stamp \in Int
    BY DEF PeersInv, TableInv, Settled
  <1>2. clock - p.stamp <= Window /\ p.id \notin DOMAIN SeenAfterCleanup(clock)
    BY DEF Passes, StampFresh
  <1>3. t + Window < clock
    <2>1. CASE p.id \in DOMAIN seen /\ seen[p.id] >= t
      BY <1>1, <1>2, <2>1, TableForgets
    <2>2. CASE t + Window < lastCleanup
      BY <1>1, <2>2
    <2> QED
      BY <2>1, <2>2 DEF Settled
  <1> QED
    BY <1>1, <1>2, <1>3

-----------------------------------------------------------------------------
(* What is sent.                                                           *)

\* The strengthening AnsweredOnce needs: what was answered is settled.
AnswersInv ==
    /\ TableInv
    /\ sent \in Seq(Sends)
    /\ \A i \in DOMAIN sent : sent[i].type = "response" =>
         sent[i].packet \in Packets /\ Settled(sent[i].packet, sent[i].at)
    /\ AnsweredOnce

\* What a task sends: nothing, a response to a packet that the replay check has
\* let through and recorded, or a relayed packet to its next hop.
LEMMA TaskSends ==
    ASSUME TaskTypes, PeersInv, sent \in Seq(Sends), HandleIncoming
    PROVE  \/ sent' = sent
           \/ \E p \in Packets, s \in Sends :
                 /\ s.type = "response" /\ s.packet = p /\ s.at = clock
                 /\ Passes(p.id, p.stamp, clock) /\ Records(p.id, clock)
                 /\ clock' = clock
                 /\ sent' = Append(sent, s)
           \/ \E s \in Sends :
                 /\ s.type = "packet" /\ s.packet.target \in Dids
                 /\ s.to = NextHop(s.packet)
                 /\ sent' = Append(sent, s)
  <1>1. PICK p \in Packets, a \in Addresses :
           /\ RecordActivity(p.source, a)
           /\ IF IsForUs(p) THEN Decide(p, a) ELSE HandleRelay(p)
    BY FirstTask
  <1>2. CASE IsForUs(p)
    <2> DEFINE s == [type |-> "response", packet |-> p, to |-> a, at |-> clock]
    <2>1. s \in Sends
      BY PacketParts DEF Sends, PeersInv
    <2>2. \/ sent' = sent
          \/ /\ Passes(p.id, p.stamp, clock) /\ Records(p.id, clock)
             /\ sent' = Append(sent, s)
      BY <1>1, <1>2 DEF Decide, Send
    <2>3. clock' = clock
      BY <1>1 DEF RecordActivity
    <2> QED
      BY <2>1, <2>2, <2>3
  <1>3. CASE ~ IsForUs(p)
    <2> DEFINE q == [p EXCEPT !.hops = @ + 1]
               s == [type |-> "packet", packet |-> q, to |-> NextHop(p), at |-> clock]
    <2>1. p.target \in Dids
      BY <1>3, PacketParts DEF IsForUs
    <2>2. PeersInv'
      BY <1>1, PeersKept DEF Next
    <2>3. NextHop(p) \in Addresses \cup {Broadcast}
      BY <2>2 DEF NextHop, GetAddress, PeersInv
    <2>4. q.target = p.target /\ s.to = NextHop(q) /\ s \in Sends
      <3>1. /\ q \in [id : PacketIds, source : Dids, target : Dids \cup {Broadcast},
                     mesh : BOOLEAN, hops : Nat, stamp : Int \cup {Unparseable}]
            /\ q.target = p.target /\ q.source = p.source
        BY PacketParts
      <3>2. NextHop(q) = NextHop(p)
        BY <3>1 DEF NextHop
      <3> HIDE DEF q
      <3> QED
        BY <2>3, <3>1, <3>2 DEF Sends, PeersInv
    <2>5. sent' = sent \/ sent' = Append(sent, s)
      BY <1>1, <1>3 DEF HandleRelay, Send
    <2> QED
      BY <2>1, <2>4, <2>5
  <1> QED
    BY <1>2, <1>3

\* Every step keeps what is known of the answers.
LEMMA AnswersKept ==
    TaskTypes /\ PeersInv /\ AnswersInv /\ [Next]_vars => AnswersInv'
  <1> SUFFICES ASSUME TaskTypes, PeersInv, AnswersInv, [Next]_vars
               PROVE  AnswersInv'
    OBVIOUS
  <1> DEFINE n == Len(sent)
  <1>1. /\ TableInv /\ TableInv' /\ clock \in Nat
        /\ sent \in Seq(Sends) /\ n \in Nat /\ DOMAIN sent = 1 .. n
        /\ \A i \in 1 .. n : sent[i] \in Sends /\ sent[i].at \in Nat
    <2>1. TableInv /\ clock \in Nat /\ sent \in Seq(Sends)
      BY DEF AnswersInv, PeersInv
    <2>2. TableInv'
      BY <2>1, TableKept
    <2>3. \A s \in Sends : s.at \in Nat
      BY DEF Sends
    <2> HIDE DEF n
    <2>4. n \in Nat /\ DOMAIN sent = 1 .. n /\ \A i \in 1 .. n : sent[i] \in Sends
      BY <2>1 DEF n
    <2> QED
      BY <2>1, <2>2, <2>3, <2>4
  <1>2. \A p \in Packets, t \in Nat : Settled(p, t) => Settled(p, t)'
    BY <1>1, SettledStays
  <1>3. CASE sent' = sent
    <2>1. \A i \in DOMAIN sent' : sent'[i].type = "response" =>
            sent'[i].packet \in Packets /\ Settled(sent[i].packet, sent[i].at)'
      BY <1>1, <1>2, <1>3 DEF AnswersInv
    <2> QED
      BY <1>1, <1>3, <2>1 DEF AnswersInv, AnsweredOnce
  <1>4. ASSUME NEW s \in Sends, sent' = Append(sent, s)
        PROVE  /\ sent' \in Seq(Sends)
               /\ DOMAIN sent' = 1 .. n + 1
               /\ \A i \in 1 .. n : sent'[i] = sent[i]
               /\ sent'[n + 1] = s
    BY <1>1, <1>4
  <1> HIDE DEF n
  <1>5. ASSUME NEW s \in Sends, sent' = Append(sent, s),
               s.type = "response" =>
                  /\ s.packet \in Packets
                  /\ Settled(s.packet, s.at)'
                  /\ \A t : Settled(s.packet, t) =>
                        s.at - t > Window /\ s.packet.stamp > t
        PROVE  AnswersInv'
    <2>1. \A i \in DOMAIN sent' : sent'[i].type = "response" =>
            sent'[i].packet \in Packets /\ Settled(sent[i].packet, sent[i].at)'
      <3> SUFFICES ASSUME NEW i \in 1 .. n + 1, sent'[i].type = "response"
                   PROVE  /\ sent'[i].packet \in Packets
                          /\ Settled(sent[i].packet, sent[i].at)'
        BY <1>4, <1>5
      <3>1. CASE i \in 1 .. n
        BY <1>1, <1>2, <1>4, <1>5, <3>1 DEF AnswersInv
      <3>2. CASE i = n + 1
        BY <1>4, <1>5, <3>2 DEF Settled
      <3> QED
        BY <1>1, <3>1, <3>2
    <2>2. AnsweredOnce'
      <3> SUFFICES ASSUME NEW i \in 1 .. n + 1, NEW j \in 1 .. n + 1, i < j,
                          sent'[i].type = "response", sent'[j].type = "response",
                          sent'[i].packet.id = sent'[j].packet.id
                   PROVE  /\ sent'[j].at - sent'[i].at > Window
                          /\ sent'[i].packet.stamp > sent'[i].at
        BY <1>4, <1>5 DEF AnsweredOnce
      <3>1. i \in 1 .. n
        BY <1>1
      <3>2. CASE j \in 1 .. n
        BY <1>1, <1>4, <1>5, <3>1, <3>2 DEF AnswersInv, AnsweredOnce
      <3>3. CASE j = n + 1
        <4>1. /\ sent[i].packet \in Packets /\ s.packet \in Packets
              /\ sent[i].packet.id = s.packet.id
              /\ Settled(sent[i].packet, sent[i].at)
          BY <1>1, <1>4, <1>5, <3>1, <3>3 DEF AnswersInv
        <4>2. sent[i].packet.stamp = s.packet.stamp
          BY <4>1
        <4>3. Settled(s.packet, sent[i].at)
          BY <4>1, <4>2 DEF Settled
        <4> QED
          BY <1>4, <1>5, <3>1, <3>3, <4>2, <4>3
      <3> QED
        BY <1>1, <3>2, <3>3
    <2> QED
      BY <1>1, <1>4, <1>5, <2>1, <2>2 DEF AnswersInv
  <1>6. ASSUME NEW p \in Packets, NEW s \in Sends,
               s.type = "response", s.packet = p, s.at = clock,
               Passes(p.id, p.stamp, clock), Records(p.id, clock), clock' = clock,
               sent' = Append(sent, s)
        PROVE  AnswersInv'
    <2>1. Settled(p, clock)'
      <3>1. p.id \in DOMAIN seen' /\ seen'[p.id] = clock
        BY <1>6 DEF Records
      <3>2. p.stamp \in Int
        BY <1>6 DEF Passes, StampFresh
      <3> QED
        BY <1>1, <1>6, <3>1, <3>2 DEF Settled
    <2>2. \A t : Settled(p, t) => clock - t > Window /\ p.stamp > t
      BY <1>1, <1>6, SettledPasses
    <2>3. Settled(s.packet, s.at)'
      BY <1>6, <2>1 DEF Settled
    <2> QED
      BY <1>5, <1>6, <2>2, <2>3
  <1>7. CASE HandleIncoming
    BY <1>1, <1>3, <1>5, <1>6, <1>7, TaskSends
  <1> QED
    BY <1>3, <1>7 DEF Next, StartNode, StopNode, Receive, CleanupPeers, Tick,
       vars, nodeVars

\* It holds of every behaviour.
LEMMA AnswersAlways == Spec => []AnswersInv
  <1>1. Init => AnswersInv
    BY DEF Init, TableInit, PeerInit, TableInv, AnswersInv, AnsweredOnce
  <1> QED
    BY <1>1, AnswersKept, TasksAlways, PeersAlways, PTL DEF Spec

(***************************************************************************)
(* However many handlers, datagrams and restarts: a packet is answered a   *)
(* second time only if it was stamped ahead of the time of the first       *)
(* answer, and more than a window after that.                              *)
(***************************************************************************)
THEOREM AlwaysAnsweredOnce == Spec => []AnsweredOnce
  <1>1. AnswersInv => AnsweredOnce
    BY DEF AnswersInv
  <1> QED
    BY <1>1, AnswersAlways, PTL

(***************************************************************************)
(* Whatever was recorded and pruned before: a relayed packet goes where    *)
(* its target was last heard within the timeout, or is broadcast.          *)
(***************************************************************************)
THEOREM AlwaysRelayedWhereHeard == Spec => RelayedWhereHeard
  <1> DEFINE Step ==
        \A s \in {sent'[i] : i \in DOMAIN sent' \ DOMAIN sent} :
          s.type = "packet" =>
            s.to = IF WhereHeard(s.packet.target)' = NoAddress THEN Broadcast
                   ELSE WhereHeard(s.packet.target)'
  <1>1. TaskTypes /\ PeersInv /\ AnswersInv /\ [Next]_vars => [Step]_vars
    <2> SUFFICES ASSUME TaskTypes, PeersInv, AnswersInv, Next
                 PROVE  Step
      OBVIOUS
    <2>1. CASE sent' = sent
      BY <2>1
    <2>2. LookupsAgree'
      <3>1. PeersInv'
        BY PeersKept
      <3> QED
        BY <3>1, PeersAgree, PTL
    <2>3. ASSUME NEW s \in Sends, sent' = Append(sent, s),
                 s.type = "packet" =>
                    s.packet.target \in Dids /\ s.to = NextHop(s.packet)
          PROVE  Step
      <3>1. sent \in Seq(Sends)
        BY DEF AnswersInv
      <3>2. DOMAIN sent' \ DOMAIN sent = {Len(sent) + 1} /\ sent'[Len(sent) + 1] = s
        BY <2>3, <3>1
      <3>3. s.type = "packet" =>
              GetAddress(s.packet.target)' = WhereHeard(s.packet.target)'
        BY <2>2, <2>3 DEF LookupsAgree
      <3> QED
        BY <2>3, <3>2, <3>3 DEF NextHop
    <2>4. CASE HandleIncoming
      <3>1. sent \in Seq(Sends)
        BY DEF AnswersInv
      <3> QED
        BY <2>1, <2>3, <2>4, <3>1, TaskSends
    <2> QED
      BY <2>1, <2>4 DEF Next, StartNode, StopNode, Receive, CleanupPeers, Tick,
         nodeVars
  <1> QED
    BY <1>1, TasksAlways, PeersAlways, AnswersAlways, PTL DEF Spec, RelayedWhereHeard

-----------------------------------------------------------------------------
(* Types.                                                                  *)

Hearings == [address : Addresses, last_seen : 0 .. clock]

\* A table of peers keeps its type when time passes.
LEMMA TablesGrow ==
    ASSUME clock \in Nat, clock' \in {clock, clock + 1}
    PROVE  Tables \subseteq Tables'
  <1>1. ASSUME NEW ds \in SUBSET Dids
        PROVE  [ds -> Hearings] \subseteq [ds -> Hearings']
    <2>1. Hearings \subseteq Hearings'
      BY DEF Hearings
    <2> QED
      BY <2>1
  <1>2. Tables = UNION {[ds -> Hearings] : ds \in SUBSET Dids}
    BY DEF Tables, Hearings
  <1>3. Tables' = UNION {[ds -> Hearings'] : ds \in SUBSET Dids}
    BY DEF Tables, Hearings
  <1> QED
    BY <1>1, <1>2, <1>3

\* A table in which one hearing was recorded is a table.
LEMMA RecordedTyped ==
    ASSUME clock \in Nat, NEW table \in Tables, NEW d \in Dids, NEW a \in Addresses
    PROVE  Recorded(table, d, a) \in Tables
  <1>1. PICK ds \in SUBSET Dids : table \in [ds -> Hearings]
    BY DEF Tables, Hearings
  <1>2. Recorded(table, d, a) \in [ds \cup {d} -> Hearings]
    BY <1>1 DEF Recorded, Hearings
  <1>3. ds \cup {d} \in SUBSET Dids
    OBVIOUS
  <1>4. Tables = UNION {[es -> Hearings] : es \in SUBSET Dids}
    BY DEF Tables, Hearings
  <1> HIDE DEF Hearings
  <1> QED
    BY <1>2, <1>3, <1>4

\* Every step of the node keeps the types of the peer tables.
LEMMA PeerTypesKept ==
    TaskTypes /\ PeerTypeOK /\ [Next]_vars => PeerTypeOK'
  <1> SUFFICES ASSUME TaskTypes, PeerTypeOK, [Next]_vars
               PROVE  PeerTypeOK'
    OBVIOUS
  <1>1. ASSUME NEW d \in Dids, NEW a \in Addresses, RecordActivity(d, a)
        PROVE  PeerTypeOK'
    <2>1. clock' = clock /\ Tables' = Tables
      BY <1>1 DEF RecordActivity, Tables
    <2> QED
      BY <1>1, <2>1, RecordedTyped DEF RecordActivity, PeerTypeOK
  <1>2. CASE PruneStale
    <2>1. clock' = clock /\ Tables' = Tables /\ heard' = heard
      BY <1>2 DEF PruneStale, Tables
    <2>2. PICK ds \in SUBSET Dids : peers \in [ds -> Hearings]
      BY DEF PeerTypeOK, Tables, Hearings
    <2>3. peers' \in [ds \ Stale -> Hearings]
      BY <1>2, <2>2 DEF PruneStale
    <2>4. peers' \in Tables
      BY <2>3 DEF Tables, Hearings
    <2> QED
      BY <2>1, <2>4 DEF PeerTypeOK
  <1>3. CASE TimePasses
    BY <1>3, TablesGrow DEF TimePasses, PeerTypeOK
  <1>4. CASE UNCHANGED peerVars
    BY <1>4, TablesGrow DEF peerVars, PeerTypeOK
  <1> QED
    BY <1>1, <1>2, <1>3, <1>4, PeersMove

\* The counters stay within their bounds.
NodeTypes ==
    /\ handlers \in 0 .. MaxHandlers
    /\ up \in BOOLEAN
    /\ arrived \in 0 .. MaxDatagrams

\* Every step of the node keeps the types of its other state.
LEMMA NodeTypesKept == TaskTypes /\ NodeTypes /\ [Next]_vars => NodeTypes'
  <1> SUFFICES ASSUME TaskTypes, NodeTypes, [Next]_vars
               PROVE  NodeTypes'
    OBVIOUS
  <1>1. CASE HandleIncoming
    BY <1>1 DEF HandleIncoming, NodeTypes
  <1>2. ASSUME NEW opens \in BOOLEAN, StartNode(opens)
        PROVE  NodeTypes'
    BY <1>2 DEF StartNode, NodeTypes
  <1>3. ASSUME NEW p \in Packets, NEW a \in Addresses, Receive(p, a)
        PROVE  NodeTypes'
    BY <1>3 DEF Receive, NodeTypes
  <1>4. CASE StopNode
    BY <1>4 DEF StopNode, NodeTypes
  <1>5. CASE UNCHANGED nodeVars
    BY <1>5 DEF nodeVars, NodeTypes
  <1> QED
    BY <1>1, <1>2, <1>3, <1>4, <1>5 DEF Next, CleanupPeers, Tick, vars

(***************************************************************************)
(* The variables keep their types; among them, the relay's cache holds the *)
(* packets forwarded last, each once.                                      *)
(***************************************************************************)
THEOREM NodeTypeCorrect == Spec => []TypeOK
  <1>1. Init => NodeTypes /\ PeerTypeOK
    <2> SUFFICES ASSUME Init
                 PROVE  NodeTypes /\ PeerTypeOK
      OBVIOUS
    <2>1. <<>> \in Tables
      <3>1. <<>> \in [{} -> Hearings]
        OBVIOUS
      <3> QED
        BY <3>1 DEF Tables, Hearings
    <2>2. /\ handlers = 0 /\ arrived = 0 /\ clock = 0
          /\ peers = <<>> /\ heard = <<>>
      BY Zenon DEF Init, PeerInit
    <2>3. up \in BOOLEAN
      BY Zenon DEF Init
    <2> QED
      BY <2>1, <2>2, <2>3 DEF NodeTypes, PeerTypeOK
  <1>2. RelaySpec => []RelayTypeOK
    <2>1. RelayInv => RelayTypeOK
      BY DEF RelayInv
    <2> QED
      BY <2>1, InitKeepsRelay, RelayStep, PTL DEF RelaySpec
  <1>3. TaskTypes /\ AnswersInv /\ NodeTypes /\ PeerTypeOK /\ RelayTypeOK => TypeOK
    BY DEF TaskTypes, Tasks, AnswersInv, TableInv, NodeTypes, TypeOK
  <1> QED
    BY <1>1, <1>2, <1>3, NodeTypesKept, PeerTypesKept, TasksAlways, AnswersAlways,
       ImplementsRelay, PTL DEF Spec

=============================================================================
