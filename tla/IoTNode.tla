------------------------------- MODULE IoTNode -------------------------------
(***************************************************************************)
(* IoTNode of transport/iot_node.py: nodes that send pings over a datagram *)
(* network and match the responses to them, decide on the packets meant    *)
(* for them, and relay the others.                                         *)
(*                                                                         *)
(* A call of send_ping is a coroutine: it registers a future, sends, waits *)
(* for the future or the timeout, and takes its entry out of _pending.     *)
(* Incoming datagrams, the timer, a cancelled caller and stop come between *)
(* its steps.  With UDP a handler of an incoming datagram runs without     *)
(* interruption (sendto does not suspend), so its whole effect is one step.*)
(* A datagram may be lost, delivered late, and delivered again; a handler  *)
(* registered twice by a restart handles each datagram twice, which is a   *)
(* case of delivering it again.                                            *)
(*                                                                         *)
(* The replay check may refuse any packet, which may have come late or     *)
(* from a clock that is off; it lets one through again only if that was    *)
(* stamped ahead (module NonceTracker, and MeshNode with the clock).  The  *)
(* airlock is a constant (module PingHandler), and the relay's cache a set *)
(* (module MeshRelay).                                                     *)
(***************************************************************************)
EXTENDS FiniteSets, Integers

CONSTANTS
    Nodes,          \* devices; a node's DID also names its address
    Pings,          \* the calls of send_ping, by packet_id
    Source, Target, FirstHop,   \* of a ping: the caller's arguments
    Mesh,           \* the pings with routing_mode MESH
    Broadcast,      \* the DID "broadcast"
    Neighbours,     \* who hears a broadcast packet of a node
    Heartbeats,     \* pairs <<n, d>>: n hears the heartbeats of d
    Admits,         \* pairs <<n, i>>: the airlock of n does not reject i
    Ahead,          \* the pings stamped ahead, whose nonces are forgotten early
    MaxHops,        \* max_hops of the relay
    MayFail,        \* the calls whose send may raise, or whose caller may give up
    MayStop,        \* the nodes that may be stopped and started
    NoAddress       \* no address known, or the peer is stale

ASSUME NodeAssumption ==
    /\ Source \in [Pings -> Nodes]
    /\ Target \in [Pings -> Nodes \cup {Broadcast}]
    /\ FirstHop \in [Pings -> Nodes]
    /\ Mesh \subseteq Pings
    /\ Neighbours \in [Nodes -> SUBSET Nodes]
    /\ Heartbeats \subseteq Nodes \X Nodes
    /\ Admits \subseteq Nodes \X Pings
    /\ Ahead \subseteq Pings
    /\ MaxHops \in Nat
    /\ MayFail \subseteq Pings
    /\ MayStop \subseteq Nodes
    /\ Broadcast \notin Nodes
    /\ NoAddress \notin Nodes

VARIABLES
    net,            \* the datagrams in flight
    pc,             \* where the coroutine of a call is
    fut,            \* the future of a call
    outcome,        \* history: how a call ended
    pending,        \* _pending of each node: the packet_ids with a future
    passed,         \* the packets a node's replay check has let through
    relaySeen,      \* the packets a node has relayed
    peers,          \* get_address of each node, by device
    up,             \* is the transport of a node started?
    stopping        \* the nodes inside stop()

callVars == <<pc, fut, outcome, pending>>
nodeVars == <<passed, relaySeen, peers>>
lifeVars == <<up, stopping>>
vars == <<net, callVars, nodeVars, lifeVars>>

Packet(i, hops, from, to) ==
    [type |-> "packet", id |-> i, hops |-> hops, from |-> from, to |-> to]
Response(i, from, to) ==
    [type |-> "response", id |-> i, from |-> from, to |-> to]

MeantFor == [i \in Pings |-> IF Target[i] = Broadcast THEN Nodes ELSE {Target[i]}]

Init ==
    /\ net = {}
    /\ pc = [i \in Pings |-> "idle"]
    /\ fut = [i \in Pings |-> "none"]
    /\ outcome = [i \in Pings |-> "idle"]
    /\ pending = [n \in Nodes |-> {}]
    /\ passed = [n \in Nodes |-> {}]
    /\ relaySeen = [n \in Nodes |-> {}]
    /\ peers = [n \in Nodes |-> [d \in Nodes |-> NoAddress]]
    /\ up = [n \in Nodes |-> TRUE]
    /\ stopping = {}

-----------------------------------------------------------------------------
(* send_ping.                                                              *)

\* The packet is made and its future registered; then send_packet is awaited.
Call(i) ==
    /\ pc[i] = "idle"
    /\ pc' = [pc EXCEPT ![i] = "sending"]
    /\ fut' = [fut EXCEPT ![i] = "open"]
    /\ outcome' = [outcome EXCEPT ![i] = "open"]
    /\ pending' = [pending EXCEPT ![Source[i]] = @ \cup {i}]
    /\ UNCHANGED <<net, nodeVars, lifeVars>>

\* send_packet puts the datagram on the network, and returns.  With UDP the
\* two are one; another Transport may be suspended in between.
Transmit(i) ==
    /\ pc[i] = "sending"
    /\ up[Source[i]]
    /\ net' = net \cup {Packet(i, 0, Source[i], FirstHop[i])}
    /\ pc' = [pc EXCEPT ![i] = "sent"]
    /\ UNCHANGED <<fut, outcome, pending, nodeVars, lifeVars>>

SendReturns(i) ==
    /\ pc[i] = "sent"
    /\ pc' = [pc EXCEPT ![i] = "waiting"]
    /\ UNCHANGED <<net, fut, outcome, pending, nodeVars, lifeVars>>

\* A call ends; leave says whether its finally clause runs.
Ends(i, ending, leave) ==
    /\ pc' = [pc EXCEPT ![i] = "done"]
    /\ outcome' = [outcome EXCEPT ![i] = ending]
    /\ pending' = IF leave THEN [pending EXCEPT ![Source[i]] = @ \ {i}]
                           ELSE pending
    /\ UNCHANGED <<net, fut, nodeVars, lifeVars>>

\* send_packet raises: it is awaited before the try, the entry stays.
SendRaises(i) ==
    /\ pc[i] = "sending"
    /\ i \in MayFail \/ ~ up[Source[i]]
    /\ Ends(i, "raised", FALSE)

\* Mutant of TimerFires: the wait has no timeout.
TimerNever(i) == FALSE /\ pc[i] = "waiting" /\ UNCHANGED vars

\* The timer of wait_for fires while the future is open.
TimerFires(i) ==
    /\ pc[i] = "waiting"
    /\ fut[i] = "open"
    /\ fut' = [fut EXCEPT ![i] = "timedout"]
    /\ UNCHANGED <<net, pc, outcome, pending, nodeVars, lifeVars>>

\* The coroutine runs again.  A timer that fires between set_result and this
\* step may still win (the timeout of asyncio since 3.12 does).
ResumeAnswered(i) ==
    /\ pc[i] = "waiting"
    /\ fut[i] = "set"
    /\ \E ending \in {"response", "none"} : Ends(i, ending, TRUE)

\* Mutant of ResumeTimedOut: the entry is left behind on a timeout.
ResumeTimedOutLeaving(i) ==
    /\ pc[i] = "waiting"
    /\ fut[i] = "timedout"
    /\ Ends(i, "none", FALSE)

ResumeTimedOut(i) ==
    /\ pc[i] = "waiting"
    /\ fut[i] = "timedout"
    /\ Ends(i, "none", TRUE)

\* stop() has cancelled the future: CancelledError leaves send_ping.
ResumeCancelled(i) ==
    /\ pc[i] = "waiting"
    /\ fut[i] = "cancelled"
    /\ Ends(i, "cancelled", TRUE)

\* The task that called send_ping is cancelled from outside.
CallerCancelled(i) ==
    /\ i \in MayFail
    /\ pc[i] \in {"sending", "sent", "waiting"}
    /\ Ends(i, "cancelled", pc[i] = "waiting")

-----------------------------------------------------------------------------
(* _handle_incoming.                                                       *)

\* The datagram is consumed, or stays to be delivered again.
Deliver(m) ==
    /\ m \in net
    /\ up[m.to]

NetAfter(m, again, sent) == (IF again THEN net ELSE net \ {m}) \cup sent

\* _handle_response: the response of a packet that is waited for completes
\* its future; any other is an orphan.
HandleResponse(m, again) ==
    /\ Deliver(m) /\ m.type = "response"
    /\ fut' = IF m.id \in pending[m.to] /\ fut[m.id] = "open"
              THEN [fut EXCEPT ![m.id] = "set"] ELSE fut
    /\ net' = NetAfter(m, again, {})
    /\ UNCHANGED <<pc, outcome, pending, nodeVars, lifeVars>>

\* record_activity: the source of the packet is reached where it came from.
Recorded(m) == [peers EXCEPT ![m.to][Source[m.id]] = m.from]

IsForUs(m) == m.to \in MeantFor[m.id]

\* Mutant of Forwards: one hop too many.
ForwardsLate(m) ==
    m.id \in Mesh /\ m.id \notin relaySeen[m.to] /\ m.hops <= MaxHops

Forwards(m) ==
    m.id \in Mesh /\ m.id \notin relaySeen[m.to] /\ m.hops < MaxHops

\* _handle_relay: forwarded at most once, to the target's address if there
\* is one, else to whoever hears a broadcast.
HandleRelay(m, again) ==
    LET n == m.to
        address == Recorded(m)[n][Target[m.id]]
        hearers == IF address = NoAddress THEN Neighbours[n] ELSE {address}
    IN
    /\ Deliver(m) /\ m.type = "packet" /\ ~ IsForUs(m)
    /\ peers' = Recorded(m)
    /\ relaySeen' = IF Forwards(m) THEN [relaySeen EXCEPT ![n] = @ \cup {m.id}]
                                   ELSE relaySeen
    /\ net' = NetAfter(m, again,
                IF Forwards(m) THEN {Packet(m.id, m.hops + 1, n, h) : h \in hearers}
                               ELSE {})
    /\ UNCHANGED <<callVars, passed, lifeVars>>

\* Mutant of HandlePacket: it is answered without a decision.
HandlePacketUndecided(m, again) ==
    LET n == m.to IN
    /\ Deliver(m) /\ m.type = "packet" /\ IsForUs(m)
    /\ peers' = Recorded(m)
    /\ net' = NetAfter(m, again,
                IF <<n, m.id>> \in Admits THEN {Response(m.id, n, m.from)} ELSE {})
    /\ UNCHANGED <<callVars, passed, relaySeen, lifeVars>>

\* receive decides, and a response goes to where the packet came from unless
\* the packet is rejected.
HandlePacket(m, again) ==
    LET n == m.to IN
    /\ Deliver(m) /\ m.type = "packet" /\ IsForUs(m)
    /\ m.id \in passed[n] => m.id \in Ahead
    /\ peers' = Recorded(m)
    /\ passed' = [passed EXCEPT ![n] = @ \cup {m.id}]
    /\ net' = NetAfter(m, again,
                IF <<n, m.id>> \in Admits THEN {Response(m.id, n, m.from)} ELSE {})
    /\ UNCHANGED <<callVars, relaySeen, lifeVars>>

\* receive refuses a replay, or a packet whose stamp is off, and nothing is
\* sent.
RefusePacket(m, again) ==
    /\ Deliver(m) /\ m.type = "packet" /\ IsForUs(m)
    /\ peers' = Recorded(m)
    /\ net' = NetAfter(m, again, {})
    /\ UNCHANGED <<callVars, passed, relaySeen, lifeVars>>

Lose(m) ==
    /\ m \in net
    /\ net' = net \ {m}
    /\ UNCHANGED <<callVars, nodeVars, lifeVars>>

\* A heartbeat of a neighbour is heard; the reply to it, if any, is an
\* orphan there.
HearHeartbeat(n, d) ==
    /\ up[n] /\ up[d] /\ <<n, d>> \in Heartbeats
    /\ peers' = [peers EXCEPT ![n][d] = d]
    /\ UNCHANGED <<net, callVars, passed, relaySeen, lifeVars>>

\* A peer has been idle for longer than the timeout, or was pruned.
PeerGoesStale(n, d) ==
    /\ peers[n][d] # NoAddress
    /\ peers' = [peers EXCEPT ![n][d] = NoAddress]
    /\ UNCHANGED <<net, callVars, passed, relaySeen, lifeVars>>

-----------------------------------------------------------------------------
(* Lifecycle, as far as calls see it.                                      *)

StopBegins(n) ==
    /\ n \in MayStop /\ up[n] /\ n \notin stopping
    /\ stopping' = stopping \cup {n}
    /\ UNCHANGED <<net, callVars, nodeVars, up>>

\* Mutant of StopEnds: _pending is cleared before the futures are cancelled.
StopClearsFirst(n) ==
    /\ n \in stopping
    /\ pending' = [pending EXCEPT ![n] = {}]
    /\ up' = [up EXCEPT ![n] = FALSE]
    /\ stopping' = stopping \ {n}
    /\ UNCHANGED <<net, pc, fut, outcome, nodeVars>>

\* Once the background tasks have ended, the open futures are cancelled, the
\* table is cleared and the transport stopped, with nothing in between.
StopEnds(n) ==
    /\ n \in stopping
    /\ fut' = [i \in Pings |-> IF i \in pending[n] /\ fut[i] = "open"
                               THEN "cancelled" ELSE fut[i]]
    /\ pending' = [pending EXCEPT ![n] = {}]
    /\ up' = [up EXCEPT ![n] = FALSE]
    /\ stopping' = stopping \ {n}
    /\ UNCHANGED <<net, pc, outcome, nodeVars>>

StartAgain(n) ==
    /\ n \in MayStop /\ ~ up[n]
    /\ up' = [up EXCEPT ![n] = TRUE]
    /\ UNCHANGED <<net, callVars, nodeVars, stopping>>

SendPing(i) ==
    \/ Call(i)
    \/ Transmit(i)
    \/ SendReturns(i)
    \/ SendRaises(i)
    \/ TimerFires(i)
    \/ ResumeAnswered(i)
    \/ ResumeTimedOut(i)
    \/ ResumeCancelled(i)
    \/ CallerCancelled(i)

HandleIncoming(m, again) ==
    \/ HandleResponse(m, again)
    \/ HandleRelay(m, again)
    \/ HandlePacket(m, again)
    \/ RefusePacket(m, again)

Next ==
    \/ \E i \in Pings : SendPing(i)
    \/ \E m \in net, again \in BOOLEAN : HandleIncoming(m, again)
    \/ \E m \in net : Lose(m)
    \/ \E n, d \in Nodes : HearHeartbeat(n, d) \/ PeerGoesStale(n, d)
    \/ \E n \in MayStop : StopBegins(n) \/ StopEnds(n) \/ StartAgain(n)

\* The event loop runs a coroutine that can go on, and fires its timers; a
\* send returns or raises.  Nothing is assumed of the network.
Fairness ==
    \A i \in Pings :
        /\ WF_vars(Transmit(i) \/ SendReturns(i) \/ SendRaises(i))
        /\ WF_vars(TimerFires(i))
        /\ WF_vars(ResumeAnswered(i) \/ ResumeTimedOut(i) \/ ResumeCancelled(i))

Spec == Init /\ [][Next]_vars

FairSpec == Spec /\ Fairness

-----------------------------------------------------------------------------
(* Properties.                                                             *)

Messages ==
    [type : {"packet"}, id : Pings, hops : 0 .. MaxHops, from : Nodes, to : Nodes]
    \cup [type : {"response"}, id : Pings, from : Nodes, to : Nodes]

TypeOK ==
    /\ net \subseteq Messages
    /\ pc \in [Pings -> {"idle", "sending", "sent", "waiting", "done"}]
    /\ fut \in [Pings -> {"none", "open", "set", "timedout", "cancelled"}]
    /\ outcome \in [Pings -> {"idle", "open", "response", "none", "raised",
                              "cancelled"}]
    /\ pending \in [Nodes -> SUBSET Pings]
    /\ passed \in [Nodes -> SUBSET Pings]
    /\ relaySeen \in [Nodes -> SUBSET Pings]
    /\ peers \in [Nodes -> [Nodes -> Nodes \cup {NoAddress}]]
    /\ up \in [Nodes -> BOOLEAN]
    /\ stopping \subseteq MayStop

\* No caller waits for a future that nobody can complete: while a call goes
\* on and its future is open, its entry is in _pending, where a response or
\* stop finds it (iot_node.py:209, 166-169, 291).
WaitingIsRegistered ==
    \A i \in Pings :
        pc[i] \in {"sending", "sent", "waiting"} /\ fut[i] = "open"
            => i \in pending[Source[i]]

\* An entry outlives its call only when the send did not return
\* (iot_node.py:209-222: the finally clause does not cover the send).
EntriesBelongToCalls ==
    \A n \in Nodes : \A i \in pending[n] :
        /\ Source[i] = n
        /\ pc[i] = "done" => outcome[i] \in {"raised", "cancelled"}

\* Who has decided: pairs <<n, i>>, n having decided on the ping i meant for it.
Decisions == {d \in Nodes \X Pings : d[1] \in MeantFor[d[2]] /\ d[2] \in passed[d[1]]}

\* What a node promises its callers, over a network that loses, reorders and
\* repeats datagrams: see PingService.
Service == INSTANCE PingService WITH call <- outcome, handled <- Decisions

ImplementsService == Service!Spec

\* "Send a ping and wait for a response" (iot_node.py:191): every call that
\* is made ends, whatever becomes of its packet and its node.
CallsEnd == \A i \in Pings : pc[i] = "sending" ~> pc[i] = "done"

=============================================================================
