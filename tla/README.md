# A TLA+ model of tibet-ping

tibet-ping lets IoT devices send each other *pings*: signed-off intents
("open the door, because ...") that the receiver admits, rejects or puts on
hold, depending on who asks and how far the asker is trusted.  This directory
holds TLA+ modules that model the package, TLC configurations that check them
on small instances, and proofs that TLAPS checks for every instance.  All paths
below are relative to `src/src/tibet_ping/` unless they start with `src/`.

## 1. The system

A `PingNode` (node.py) is one device.  It is synchronous and owns

* a `NonceTracker` (nonce.py): nonces of the packets let through, with the
  monotonic time of each; has a lock, since it may be called by threads;
* an `Airlock` (airlock.py): the rules, two trust thresholds, and the queue of
  packets on hold for a human;
* a `VouchRegistry` (vouch.py): vouches by id, and an index from a device to the
  ids of the vouches for it;
* a `PingHandler` (handler.py): the table of known devices, and `handle`, the
  pipeline *replay check -> trust -> airlock -> response*;
* a `BeaconHandler` (beacon.py) and a `TopologyManager` (topology.py).

An `IoTNode` (transport/iot_node.py) puts a `PingNode` on a network.  It is
asynchronous (one asyncio loop) and owns a `UDPTransport` (udp.py) with a
`PacketCodec` (codec.py), a `PeerTracker` (peers.py), a `MeshRelay` (relay.py), a
`NetworkDiscovery` (discovery.py), the table `_pending` of futures by packet_id,
and three background loops.  Datagrams come in through
`UDPTransport._dispatch_sync`, which starts a task per registered handler.

| component | state | operations | reaches |
|---|---|---|---|
| NonceTracker | `_seen`, `_last_cleanup` | `is_replay`, `clear` | clocks |
| VouchRegistry | `_vouches`, `_by_vouched` | `add_vouch`, `revoke_vouch`, lookups | clock |
| Airlock | `_rules`, `pending` | `add_rule`, `gate`, `process`, `approve_pending`, `reject_pending` | callback `on_hitl_needed` |
| PingHandler | `_known_devices` | `handle`, `set_device_trust` | the three above |
| MeshRelay | `_seen` | `prepare_relay` | |
| PeerTracker | `_peers` | `record_activity`, `get_address`, `alive_peers`, `prune_stale` | clock |
| IoTNode | `_pending`, `_tasks`, `_running` | `send_ping`, `_handle_incoming`, `start`, `stop`, loops | all of them |
| UDPTransport | socket, callbacks | `start`, `stop`, `send_*`, dispatch | the network |
| NetworkDiscovery | multicast socket | `start_listening`, `stop`, `broadcast_discover`, `_on_beacon_received` | BeaconHandler |
| BeaconHandler | rules, recent beacons | `handle_beacon` | callback |
| TopologyManager | pods, stations, device maps | `create_pod`, `add_hubby_to_pod`, `create_station` | |
| cli | none of its own; a probe may write an object into an inbox of continuityd | ten probes; send, listen, discover, demo and others | AINS, continuityd and mux over HTTP and TCP; all of the above |

What is hard about it, and what makes each part correct:

* **Replay protection.**  Two clocks that are read one after the other, a periodic
  cleanup, and a lock that does not cover the clock reads.  Correct: a nonce is not
  accepted twice within the window, and a packet is not accepted again later either,
  because by the time its nonce is forgotten its timestamp is too old - unless it was
  stamped ahead, in which case it is accepted again, and may be decided on, queued or
  answered again.
* **Trust.**  Three sources of trust, two of which change with calls and one with
  time; an index that must follow every add and revoke.  Correct: trust is what the
  active vouches give, and a packet is accepted only if it deserves it *now*.
* **Holding packets.**  A callback runs inside the pipeline and may call back into
  the node, so that one call of the pipeline runs inside another, change the rules it is
  decided by, or raise.  Correct: a packet is decided once, as long as the replay check
  knows it, and a response says of its zone and its decision the same.
* **Requests and responses.**  Suspended coroutines, timers, cancellation, stop,
  and a network that loses, reorders and repeats.  Correct: every call ends, with an
  answer only if the addressee decided; the table of futures follows the calls.
* **Relaying.**  A bounded cache against loops, addresses learnt from relayed
  packets, peers that go stale between a packet and its forwarding, handlers that
  are registered twice, and tasks that run after the node has stopped.  Correct: a
  packet does not go round while the cache holds it, it goes where its target was
  last heard, and it is answered once, as long as the replay check knows it.
* **Start and stop.**  Coroutines with suspension points; the flag `_running` is
  set at the end of one and cleared at the beginning of the other.
* **Probes.**  Runs of the command that overlap, servers that answer after a run has
  given up, and objects named after the second they were written in.  Correct: nothing
  is written without `--active`, and what a result says is so.

The hazards, each with its line, are in `PROJECT.json`.


## 2. The modules

```
                     ReplayTable
              _________/  |    \____________
             /            |                 \
NonceTracker   VouchRegistry   Airlock       |   MeshRelay   PeerTracker
     :               \    |    /             |      |         /
     :                PingHandler            MeshNode
     :                    : (its verdict: Admits)  : (one node, abstracted)
     +- - - - - - - - - IoTNode - - - - - - - - - -+
                          | implements
                      PingService

Codec <-extends- Bootstrap          IoTLifecycle      Topology      Probe
```

`PingHandler` *composes* `Airlock`, `VouchRegistry` and the table of the replay check,
`ReplayTable`: it extends all three, and its actions are made of theirs and of its own
variables.  Their specifications
(`AirlockSpec`, `RegistrySpec`) stay what the proofs are about.  `MeshNode` composes
`MeshRelay`, `PeerTracker` and `ReplayTable` in the same way, and `RelaySpec` is what it
implements.  `IoTNode` uses the results of the other modules in the form its questions
need: the replay check as the set of the packets it let through, any of which it may
refuse and which it lets through again only if they were stamped ahead, the airlock's
verdict as a constant relation, the relay's cache as a set.

**ReplayTable.**  `seen` and `lastCleanup` of a `NonceTracker`, with what `is_replay` asks
of them and does to them for given readings of the two clocks.  `Passes`, `Records` and
`Refuses` are a whole call made at one time, for the modules whose callers are in one
thread.  The test `age > window` is strict, and so is the cutoff of the cleanup; both are
modelled as they stand.

**NonceTracker.**  `mono` and `offset` are the two clocks; `call[t]` holds the packet
and the readings of a thread between the monotonic reading (`ReadMono`), the real one
(`ReadReal`) and the locked section (`RejectSeen`, `Accept`); `RejectStamp` is the early
return before the lock.  Time passes, the real clock is set and other threads move
between any two of them.  `log` and `overlapped` are history variables: what was let
through, and whether a call has begun while another ran.

**VouchRegistry.**  `byVouched[d][i]` counts how often id i is listed for device d
(the code has a list per device; `vouched_dids` may name a device twice).  An
`expires_at` that does not parse counts as expired in the code and is a time
before all others here.

**Airlock.**  `add_rule` appends and sorts (stable, descending); the model inserts
at the position this gives.  `gate` takes the first match.  Entries carry a serial
number that the program lacks: it lets `HighestPriorityWins` be stated without the
order of the list.

**PingHandler.**  `handle` is one action, unless `on_hitl_needed` is called: then
`HandleWithCallback` and `CallbackReturns` (or `CallbackRaises`) enclose what the
callback does.  A callback may call `handle` again, for any packet, decide on packets,
or change rules, trusts and vouches (`CallbackMay`); `handling` is the stack of the
calls whose callback runs.  The replay check forgets nonces as the code's does; one clock
stands for its two.  The times in `responses`, `pending` and `resolved`, and the number of
rules a call began with, are histories.  The provenance token (optional library) has no effect on
the decision.

**MeshRelay.**  The OrderedDict is the sequence of its keys.  `order` is a history
variable: the packets taken for forwarding.

**PeerTracker.**  `peers` maps a device to its address and the time of its last
datagram.  `get_address` and `get_peer` (idle > timeout), `alive_peers` (idle <=
timeout) and `prune_stale` (idle > timeout) are the three tests that must agree.
The history variable `heard` is the table without pruning.

**MeshNode.**  One IoTNode at its socket.  `StartNode` appends a handler and then
opens the socket or fails; `StopNode` leaves handlers, tasks, peers and caches.
`Receive` makes a task for each handler, as `_dispatch_sync` does; `HandleIncoming`
runs the oldest task, the whole of `_handle_incoming`: the peer is recorded, and then
the packet is decided on and answered, or relayed.  `Send` adds nothing to `sent` when
the transport is stopped or the codec cannot write the packet, where the code
raises and the task ends; what was marked as seen or replayed before stays so.
The replay check is a `ReplayTable`, which `stop` and `start` leave as it is, and the
airlock the constant `Rejected`.
`start` and `stop` do not overlap here, which is `IoTLifecycle`'s question.

**IoTNode.**  A call of `send_ping` goes idle -> sending -> sent -> waiting -> done,
with `fut` beside it.  Incoming datagrams are handled in one step each, because
with UDP nothing in a handler suspends.  `StopBegins`/`StopEnds` enclose the wait
for the loops; everything after it is one step.  `StartAgain` is a start that
succeeds.  `PeerGoesStale` covers both the idle test of `get_address` and
`prune_stale`, at any time.  A packet that comes is let through (`HandlePacket`), again
only if it is one of `Ahead`, or refused (`RefusePacket`), for which it may be a replay
or have a bad timestamp; `passed` remembers what was let through.

**PingService.**  What a caller is promised, without a network, tables or timers.
`IoTNode` maps `call` to its history variable `outcome` and `handled` to `Decisions`, the
pairs of a node and a packet that is meant for it and that its replay check has let
through.

**IoTLifecycle.**  The calls of `start` and `stop`, with the points where they
suspend, the sockets open and referred to, and a loop for each start.  The
history variable `disturbed` tells runs in which the calls came one after the
other from those in which they overlapped or were cancelled.

**Topology.**  The manager's dictionaries are functions on the keys they have.
`hubby_dids` and `pod_ids` are sets, since both lists are kept free of duplicates and
nothing depends on their order.  `AddHubby`, `RemoveHubby`, `AddPod` and `RemovePod` are
the public methods of `Pod` and `Station` that change what the manager's maps are about
without its knowing; `DirectEdits` says if they are called.

**Codec.**  No state: `Encode` and `Decode` are what a codec makes of a dict and of
a frame that arrives, `FromDict` the defaults, required keys and enumerations of
proto.py.  A dict is a function on the keys it has.  A frame has the fields of the
header, the number of bytes that came after it, and the body these bytes are the
beginning of; whether they can be read depends on the form, the length, and on what
JSON and msgpack do with keys that are not strings.

**Bootstrap.**  `NetworkDiscovery` and `BeaconHandler`.  `sent` holds the datagrams
that are on the multicast group; they are never taken out, so that the network
repeats, delays and reorders them as it likes and loses what is never received.
`Carried` is what may become of one.  `DatagramReceived` decodes and goes on into
`OnBeaconReceived` and `HandleBeacon` in one step, as the code does; `RunTask` is the
event loop running a callback's task.  `HandIn` is `PingNode.handle_beacon` called with a
beacon that came another way, at any later time.  Beacons have distinct ids and are
numbered; `escalated`, `failed`, `answers` and `called` are history variables.  `hitl`
tells whether `on_hitl_needed` is set, which it is not at first; `NotASet` stands for
capabilities that `set()` raises on, which end `handle_beacon` when a rule requires any
(`Fail`).

**Probe.**  The runs of `tibet-ping --probe` and what they ask of the surfaces of the
stack.  `AnswerAtOnce` is every return before a connection is made, `Ask` the request,
and `GetAnswer`, `GiveUp` and `Fail` the three ways it ends: an answer, no connection or
a timeout, an exception that no clause names.  A result is its `reachable` and its
`verdict`; statuses are classed by what the code tells apart.  The servers are seen
from outside: they may answer anything the probe distinguishes, late or never, and what
is posted stays in the inbox unless the answer is an error, under the name
`tping-<probe>-<second>.probe`.

Definitions and lines are paired in `PROJECT.json` ("map").  Comments call an operator
a *mutant* when it is a plausible bug of the definition it is named for; no
specification uses one, they show that a property can fail.

## 3. The runs

Run one with `tlc -config <cfg> <module>`; the module is the cfg's name with `MC`
before it and without what follows the underscore.

| run | question | bounds |
|---|---|---|
| `NonceTracker` | what is forgotten, with calls that overlap; replays and the table's span, until they do | two threads (symmetric), window 1, skew 1, time 0..4: four windows, so that cleanups happen repeatedly and every stamp age from too early to too old occurs; the real clock is set forward at any time |
| `NonceTracker_race` | **violated**: replay within the window | two threads, time 0..5, two packets fresh at overlapping times |
| `NonceTracker_ahead` | **violated**: same packet accepted twice | one thread, window 2, time 0..8, a packet stamped ahead |
| `PingHandler` | the pipeline: gate, trust, replay, human decisions | two packets, one stamped ahead; window 1 and time 0..2, so that its nonce is forgotten while it is fresh; two responses, with callbacks that call `handle` inside of callbacks, decide on packets and change the configuration; two of three rules, two of them of one priority; three vouches under two ids, one of which expires and one of which may take the id of another once that is revoked; a trust set below the scale |
| `MeshNode` | cache, addresses and answers of one node | five packets of two devices, one of them with all its hops behind it, one over two paths and stamped ahead; cache of two; four datagrams, two handlers, timeout 1, window 1 and time 0..2: an eviction, a peer that goes stale, a nonce that is forgotten too early, a restart and a failed start all fit |
| `IoTNode` | hops, calls, table of futures, ends of calls, refinement of `PingService` | a hub, a sensor and a relay whose broadcasts the sensor hears, hop limit 1; two pings, one of them to "broadcast", the other stamped ahead; sends fail, callers give up, one node stops and starts |
| `IoTLifecycle` | start and stop, apart and overlapping; ends of loops | three starts, two stops, any of which may fail or be cancelled |
| `IoTLifecycle_restart` | **violated**: a running node is up | two starts, two stops |
| `Topology` | maps against pods | two pods, three devices (symmetric), one station; pods created again; pods and the station edited without the manager |
| `Topology_hybrid` | **violated**: hub here, hubby there is HYBRID | the same |
| `Bootstrap` | framing, beacons, rules and callbacks of a hub | a hub, a device, one datagram (any of four messages in both forms, one of them with capabilities that are no set, or a DISCOVER packet) arriving repeatedly whole or with seven kinds of damage to its header, two beacons, two answers, one callback; clock 0..1 with the 300 seconds as one unit and the device's clock a unit behind; `on_hitl_needed` set and taken away at any time |
| `Probe` | objects written, results printed | two runs (symmetric) of any of the ten probes, one server, an `.aint` name, two DIDs, two seconds |

Three devices and two pods are enough for `Topology`: its properties relate one device
to the pod recorded for it and to one pod it leaves or that is replaced.  Two responses
are enough for `DecidedOnce`, which relates two responses to one packet; a second thread
is what `ForgottenOnlyAfterWindow` is about, which holds whatever threads do, and what
the other properties of `NonceTracker` allow as long as its calls do not overlap.
Three starts and two stops let a start meet a start, a start meet a stop, and a
third start find what they left.  The other bounds are constants of the modules:
`MaxTime`, `MaxOffset`, `MaxListed`, `MaxNow`, `MaxRules`, `MaxResponses`, `MaxHandlers`,
`MaxDatagrams`, `MaxClock`, `MaxSecond`.
Each bounds a history or a clock that the program does not bound.  In `Bootstrap`
two answers are needed for `RejectedForGood`, which relates two answers to one
beacon, and for a second hearing to meet the tasks of a first; a clock that
moves by one makes a beacon of the device that is behind stale between them.

In `MeshNode` a packet that goes round needs its first forwarding, two others that
evict it and one more, hence four datagrams, and two handlers are what a failed start or
a restart leaves.  In `Probe` two runs in two seconds let a second run replace the object of the first, or miss it.

Deadlock is not checked where the model may stop: in the lifecycle runs, where each
call is made once, in `Bootstrap` and `MeshNode`, where clock, datagrams and answers
end, and in `Probe`, where each run is made once.

What the violated runs show:

* `NonceTracker_race`: a thread that was overtaken between reading the monotonic clock and
  taking the lock records an old time, so that a cleanup forgets its nonce early;
* `NonceTracker_ahead`: a packet stamped ahead within the skew outlives its nonce;
* `IoTLifecycle_restart`: a `start` during `stop` leaves a node "running" without a
  transport;
* `Topology_hybrid`: a hub that joins two other pods ends as HUBBY, and a hubby that
  is given a pod of its own as HUB.

More limits follow from the code without a run of their own; the properties named
are stated, and checked, so as to leave them out, or to say exactly how far they go:

* `add_vouch` with an id in use leaves index entries of the old vouch, through which
  other devices get the new one's trust (`IndexExact`, `TrustIsBest`: `ReuseIds` FALSE);
* a callback that adds a rule makes the response PENDING in another zone than GEEL: the
  packet is gated before the callback for the decision and after it for the zone
  (`ZoneMatchesDecision` holds unless such a rule covers the packet and gives that zone);
* a packet stamped ahead within the skew, that comes again once its nonce has been
  forgotten, is decided on again, comes back to the queue after a human has decided on
  it, and is answered again (`DecidedOnce`, `DecidedByHumanOnce` and `AnsweredOnce` allow
  that, and nothing else);
* a hub without `on_hitl_needed`, as that of a `PingNode` is until one is set, answers
  "hitl_pending" and asks nobody (`VouchedOrEscalated` says so);
* capabilities that are no set raise out of `handle_beacon` at the first rule that
  requires any, and the beacon is remembered (`VouchedOrEscalated`, again);
* a pod or a station that is changed by its own methods leaves the manager behind: a
  member without a role or a pod, a lookup that finds a pod the device has left, a station
  with pods that do not exist (`UnknownByEditOnly` and `MisplacedByEditOnly` say that
  nothing else does);
* a start that is cancelled while discovery joins its group leaves the socket open and
  `_running` false, so that a later `stop` returns at once and closes nothing
  (iot_node.py:138, 154; `StopStopsAll` and `RunningIsUpUndisturbed`: no call cancelled);
* a relay cache of size one never evicts (`CacheBounded`: size of two or more);
* `stop` makes `send_ping` raise `CancelledError`, neither a response nor None (an
  outcome of its own in `PingService`);
* the receiver of a relayed packet records the relay's address for the source;
* a `stop` during `start` returns at once, and the node comes up after it
  (`StopStopsAll`: calls that do not overlap; `LoopsEnd` still holds, of the stop after);
* the response to a relayed packet goes to the relay, which knows no call it
  belongs to and drops it, so that the caller of `send_ping` times out although the
  addressee may have accepted (`PingService` lets a call time out after an accept);
* over the network a device is always heard as "generic" and without capabilities:
  `PingNode.discover` writes `requested_capabilities`, `_on_beacon_received` reads
  `capabilities` and `device_type`, so that a rule that asks for either never matches a
  device found by its DISCOVER packet (`VouchedAsAnnounced` promises only that a rule sees
  what a single datagram of its source gave as `capabilities`);
* a datagram that is repeated, however late, is heard as a new beacon made now, which
  is always fresh (`RejectedForGood` is about beacons, not datagrams);
* a relay marks a packet as seen before it sends it: if that raises, the packet is not
  forwarded when it comes again (`NoLoopWithinCache` is about packets taken for
  forwarding, and no property promises delivery);
* a surface that answers a probe with an HTTP error is "unreachable" to `continuityd`,
  `listener`, `ains` and `aint`; the first two keep `http-<status>` for statuses below 300
  (`VerdictsAreTrue` says what "reachable" means, not "unreachable");
* two active probes of one kind in one second write one object, and a probe that
  gave up may have written one (`VerdictsAreTrue` allows the first,
  `OnlyAskedForWrites` the second);
* the answer "auto_vouched" registers no vouch and assigns no pod: it is up to the
  caller to do so (no property relates it to the registry).

**Fairness.**  `IoTNode!FairSpec`: a coroutine that can go on does (weak fairness on
the sending steps and on resuming), and a timer whose future is open fires.  The
asyncio loop guarantees both.  Nothing is assumed of the network, of stop,
or of other nodes.  `IoTLifecycle!FairSpec`: a loop that sleeps wakes up, again the
event loop's doing; calls of start and stop need not proceed.
`Bootstrap!FairSpec`: asyncio runs a task that was started (weak fairness on each
`RunTask`); nothing else has to happen.

## 4. The proofs

| theorem | statement | argument |
|---|---|---|
| `NonceTracker_proofs!TypeCorrect` | types | inductive |
| `...!NeverForgottenEarly` | any threads, any clock adjustments: a nonce is accepted again only after a cleanup made more than a window after its acceptance | `WindowInv`: each accepted nonce is in the table with a time no older than its acceptance, or such a cleanup has happened |
| `...!NoReplayBeforeOverlap` | any threads, until calls overlap: no replay within the window | adds `OneCall`, and `CleanupBehindCall`: the last cleanup is not ahead of a running call - exactly what an overlap breaks |
| `...!AtMostOnceBeforeOverlap` | until calls overlap, real clock never set back: at most once unless stamped ahead of the clock as it was when the call began | adds `OffsetsGrow`: a later call began with the two clocks at least as far apart, so that its packet is at least as old by the real clock as its nonce by the other; time between the two readings only makes it older |
| `...!SpanBeforeOverlap` | until calls overlap: the table spans two windows at most, so that it does not grow with the node's age | `SpanInv`: every time in the table is within a window of the last cleanup, on either side, and no entry is ahead of the running call |
| `PingHandler_proofs!TypeCorrect` | types, with or without reuse of ids | inductive |
| `...!IndexAlwaysExact` | fresh ids: the index is exact | inductive |
| `...!TrustAlwaysBest` | fresh ids: the lookup finds the best active vouch | from the exact index |
| `...!TrustRisesByVouch` | fresh ids: a device gains trust only by a vouch that names it | the lookup is the best of the covering vouches; without a new vouch there are only fewer of them, since what has expired stays so, and `TrustsBounded` (added to the invariant) gives each of the two sets a greatest trust |
| `...!GateByPriority` | the gate decides by the highest priority | `RulesInv`: the rules are sorted by priority and serial number, and are the rules added |
| `...!ImplementsRegistry` | `Spec => RegistrySpec`: callbacks and all, the handler only adds and revokes vouches | one step per action; each is a registry step or a stutter |
| `...!HandlerTypeCorrect` | types: every trust is of the scale, every response has a zone, no time in the table is ahead of the clock | inductive, on the sorted rules and the lemma that the best of a bounded set is one of it |
| `...!HandlerIndexExact`, `...!HandlerTrustIsBest`, `...!HandlerTrustRises` | the registry's three theorems hold inside the pipeline | through `ImplementsRegistry` |
| `...!HandlerGateByPriority` | the gate's theorem holds inside the pipeline | `RulesInv` is kept: rules change by `add_rule` only |
| `...!HandlerDecidesOnce` | callbacks inside of callbacks: a packet is decided twice only if it was stamped ahead, and then more than a window later | `Settled`: the nonce of a packet let through is in the table with a time no older, or a cleanup has come more than a window later; a packet let through again is fresh by then, hence was stamped ahead.  It holds of the answered packets and of those whose callbacks run |
| `...!HandlerZoneMatches` | a response's zone is that of its decision, unless a rule added during its own callback gives that zone | `HandledIsHeld`: by the rules there were when its call began, a packet whose callback runs is GEEL; if it is not by the rules there are, the one that wins is new |
| `...!HandlerHumanDecidesOnce` | packets of one id with one nonce and one timestamp: what a human has decided on comes back to the queue only if it was stamped ahead, and then more than a window later | `HeldIsSettled`: `Settled` of what is queued and of what was decided |
| `...!HandlerAcceptsDeserved` | fresh ids: what is accepted deserves it by rules and trust at that time | `RulesInv`, and the exact index |
| `MeshNode_proofs!LoopsAreCut` | any cache size: a packet is not forwarded again within `Remembered` others | `RelayInv`: the cache is a suffix of the order of forwarding, long enough once it has filled |
| `...!CacheStaysBounded` | cache size 2 or more: the cache keeps its bound | inductive |
| `...!ImplementsRelay` | `Spec => RelaySpec`: handlers, restarts and failed sends leave the cache to `prepare_relay` | one step per action; only relaying is not a stutter |
| `...!NodeLoopsAreCut`, `...!NodeCacheStaysBounded` | the relay's two theorems hold inside the node | through `ImplementsRelay` |
| `...!NodeTypeCorrect` | types | inductive, with the relay's invariant through `ImplementsRelay` |
| `...!LookupsAlwaysAgree` | any timeout, any pruning: a lookup finds what was heard last, if it is not too old | the table is `heard` without some of its stale entries: the entries kept are equal, the ones missing are stale, and stay so as the clock only goes on |
| `...!AlwaysAnsweredOnce` | any number of datagrams, handlers and restarts: a second response only to a packet stamped ahead, and then more than a window later | `Settled` of every packet answered, as in the pipeline |
| `...!AlwaysRelayedWhereHeard` | a relayed packet goes to the address its target was last heard from | from the invariant of the table after the recording of the source |
| `Bootstrap_proofs!BootstrapTypeCorrect` | types: only beacons of other devices are heard, only known ones remembered and answered | inductive |
| `...!NeverMisread` | any codecs, any damage to the header: a frame is dropped or read as sent | a lemma about `Decode` after `Encode`, by the kinds of damage |
| `...!RejectionStands` | a rejected beacon stays rejected, whatever the rules | an answer "rejected" means the timestamp was too old, and the clock only goes on |
| `...!RemembersWhatItTook` | remembered exactly if vouched for, put to the human, left pending with nobody to ask, or raised on; with `on_hitl_needed` set none is left pending that was not put to the human | inductive |
| `...!VouchesAsAnnounced` | vouched for only under a rule that admits the source and requires no more than the beacon has; one that was heard has what a datagram of its source says | `VouchedByMatch`: the rule kept in a response matches the beacon in both; the first of the rules the loop ends at is one of them, and beacons never change.  `HeardAsSaid`: from the lemma behind `NeverMisread`, of each beacon made of a datagram |
| `IoTNode_proofs!TypeCorrect` | types; no packet goes past its hop limit | part of `Inv`, below |
| `...!WaitingAlwaysRegistered` | whatever stops, fails or comes late: no caller waits for a future that nobody can complete | part of `Inv` |
| `...!EntriesAlwaysBelong` | an entry is its own caller's, and outlives its call only if that raised or was cancelled | part of `Inv` |
| `...!Implements` | `Spec => ImplementsService`: the nodes and their network refine `PingService` | initial states to initial states; a call is `Ask`, the five ways it ends are `Finish`, the first time a packet is let through by a node it is meant for is `Decide`, all else stutters |
| `...!AnswersAreDecided` | a "response" is the answer of a device the ping was meant for, which decided on it and let it through; ended calls and decisions stand | proved of `PingService` alone, and carried over by `Implements` |
| `IoTLifecycle_proofs!TypeCorrect` | types, however calls overlap or are cancelled | with `InTheMaking`: a start that is under way owns no loop and no group yet |
| `...!RunningIsUpWhenUndisturbed` | calls one after the other, none cancelled: a running node is up | `InPhase`, below |
| `...!StopStopsEverything` | calls one after the other, none cancelled: nothing is up when `stop` returns | from the phase the last step of `stop` starts in |
| `Topology_proofs!TypeCorrect` | types, edits without the manager included; a device is mapped to a pod that exists | inductive, with the devices that have a role being those that have a pod |
| `...!UnknownOnlyByEdits` | a member of a pod without a pod or a role recorded was put there by `Pod.add_hubby` | one step per operation, from the invariant |
| `...!MisplacedOnlyByEdits` | the pod found for a device comes to lack it only by an edit or a replacement of that pod | one step per operation, from the invariant |
| `Probe_proofs!OnlyAskedForAreWritten` | an object is in an inbox only if its run was told to write there | part of `Inv`, below |
| `...!VerdictsAreAlwaysTrue` | what a printed result claims is so | part of `Inv`, and the names of objects: equal names are of one probe in one second |

`PingHandler_proofs` holds the theorems of `Airlock` and `VouchRegistry` too, and
`MeshNode_proofs` those of `MeshRelay`, for the composed modules extend them; the theorems
of a part are about its own specification (`RegistrySpec`, `AirlockSpec`, `RelaySpec`) and
are carried into the whole.

*`IoTNode`.*  Neither of the two properties of the table nor the refinement is inductive.
`Inv` adds what ties the state together: the history of a call follows its coroutine
(`CallState`); an entry in a table is of a ping that was called (`EntriesAreCalled`: a call
begins with no entry of its own left over); a datagram is of a ping that was called, and a
response on the network was sent by a device that decided on the ping and admits it
(`NetworkIsHonest`); hence a future that is set was set by one (`AnsweredByDecision`), which is
what `Finish` demands of "response".

*`IoTLifecycle`.*  That a running node is up says nothing of a node on its way up or
down, so it is not inductive.  While no call was made during another and none was
cancelled, the node is in
one of five phases (`InPhase`): at rest; a start opening its socket; a start joining the group;
running; a stop waiting for the loops.  Each fixes which sockets, groups and loops exist,
and each step leads from one phase to the same or the next.  Once `disturbed`, only the
types are left; section 3 shows the rest is false then.

*`Probe`.*  `Inv` says that only a run that may ask has a request or an answer
(`RunsAreCalled`), that an object in an inbox is of a run that was told to write and was served
(`ObjectsAreOfRuns`), and that a run that was served finds its name there ever after
(`PostedStays`), whoever wrote it last.

Each of the inductive invariants of `IoTNode`, `IoTLifecycle` and `Probe` was checked by
TLC as an invariant on the instance of the module's run before it was proved.

Assumptions are the named ASSUMEs of the modules, which TLC evaluates in each run,
and those stated in a theorem: `Adjustments \subseteq Nat`, `ReuseIds = FALSE`,
`CacheSize >= 2`, and packets of one id with one nonce and one timestamp
(`HandlerHumanDecidesOnce`).  They are needed: a real clock that is set back makes an old
packet fresh, section 3 says what happens without the next two, and two packets with one
id and two nonces are two packets to the replay check and one to the queue.

**Only model-checked.**  `CallsEnd`, `LoopsEnd` and `CallbacksCalled`: liveness under
fairness, which needs ENABLED, and TLAPS does not reach that, nor what a recursive
definition computes for all inputs.  Every other property of a run that passes is stated
by a theorem.  The four runs that find a violation show what a theorem cannot: the
conditions in the theorems (`overlapped`, `stamp > began`, `disturbed`) are there because of
them.

## 5. What is not modelled

* What is in a payload beyond its kind of keys and the entries that are looked at,
  the TIBET views and `signature_payload` of proto.py (nothing in the package uses
  them), and the wording of responses.
* Socket options, logging, statistics counters, the optional provenance library.
* Glob patterns of airlock rules: what they match is a set of kinds.
* The command line but for its probes: `send`, `listen` and `discover` call the components
  above, the rest prints.  Of a probe, its notes, latency and the hints it prints.
* `first_seen` and `packet_count` of a peer, which are only printed.
* What a caller does with the answer to a beacon.
* `send_ping` to the own address and a transport other than UDP whose sends suspend
  inside a handler.

## 6. Plan

Done, in order of importance: replay protection; vouching; airlock; the pipeline;
relaying; requests and responses with the abstract service; lifecycle; topology;
codec and bootstrapping; the peer table, the dispatch of datagrams and one node composed
of them; the probes of the command line.  Next:

1. Proofs: consequences of the refinements that are stated of no run yet, as
   `AnswersAreDecided` is of `PingService` - for the pipeline, that `IoTNode`'s constant verdict
   (`Admits`) is what `PingHandler` decides.
2. The frames of `Codec` under the messages of `MeshNode`, in place of the set
   `Unsendable`.
