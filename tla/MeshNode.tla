------------------------------ MODULE MeshNode ------------------------------
(***************************************************************************)
(* One IoTNode of transport/iot_node.py at its UDP socket, composed of its *)
(* relay (MeshRelay), its table of peers (PeerTracker) and the table of    *)
(* its replay check (ReplayTable).                                         *)
(*                                                                         *)
(* The transport turns each datagram into one task of the event loop per   *)
(* handler.  start registers a handler before it opens the socket, and     *)
(* nothing removes it: after a failed start or a restart each datagram has *)
(* two tasks.  The tasks run in the order of their creation, each without  *)
(* interruption, and a task created before stop runs after it, when        *)
(* sending raises.  IoTNode composes many nodes, with these details left   *)
(* out.                                                                    *)
(*                                                                         *)
(* One clock stands for the monotonic one and for the one that timestamps  *)
(* are compared with (NonceTracker has the two).  A packet_id determines   *)
(* the nonce, and stands for it in the replay check.                       *)
(***************************************************************************)
EXTENDS MeshRelay, PeerTracker, ReplayTable, FiniteSets

CONSTANTS
    Self,           \* the DID of this node
    Broadcast,      \* the DID "broadcast", and its address
    Packets,        \* what may arrive: records [id, source, target, mesh,
                    \* hops, stamp]
    Datagrams,      \* pairs <<p, a>>: p may arrive from address a
    Rejected,       \* the packet_ids the airlock rejects
    Unsendable,     \* the packet_ids this node's codec cannot write
    MaxHandlers, MaxDatagrams, MaxClock     \* bounds

ASSUME NodeAssumption ==
    /\ Self \in Dids
    /\ MaxHandlers \in Nat /\ MaxDatagrams \in Nat /\ MaxClock \in Nat
    /\ Broadcast \notin Dids \cup Addresses \cup {NoAddress}
    /\ Packets \subseteq [id : PacketIds, source : Dids,
                          target : Dids \cup {Broadcast}, mesh : BOOLEAN, hops : Nat,
                          stamp : Int \cup {Unparseable}]
    /\ Datagrams \subseteq Packets \X Addresses
    /\ \A p, q \in Packets :
        p.id = q.id => <<p.source, p.target, p.mesh, p.stamp>> =
                       <<q.source, q.target, q.mesh, q.stamp>>

VARIABLES
    handlers,       \* how often _handle_incoming is in _callbacks
    up,             \* is the transport started?
    tasks,          \* the tasks of _dispatch_sync that have not run
    arrived,        \* how many datagrams have been received
    sent            \* history: what sendto was called with, and when

nodeVars == <<handlers, up, tasks, arrived, sent>>
vars == <<relayVars, peerVars, tableVars, nodeVars>>

Init ==
    /\ RelayInit
    /\ PeerInit
    /\ TableInit
    /\ handlers = 0
    /\ up = FALSE
    /\ tasks = <<>>
    /\ arrived = 0
    /\ sent = <<>>

-----------------------------------------------------------------------------
(* Lifecycle.  start and stop do not overlap here (see IoTLifecycle).      *)

\* Mutant of StartNode: a start begins with an empty replay table.
StartNodeForgetting(opens) ==
    /\ ~ up /\ handlers < MaxHandlers
    /\ handlers' = handlers + 1
    /\ up' = opens
    /\ seen' = [i \in {} |-> 0]
    /\ UNCHANGED <<relayVars, peerVars, lastCleanup, tasks, arrived, sent>>

\* start: the handler is registered, and then the socket opens or not.
StartNode(opens) ==
    /\ ~ up /\ handlers < MaxHandlers
    /\ handlers' = handlers + 1
    /\ up' = opens
    /\ UNCHANGED <<relayVars, peerVars, tableVars, tasks, arrived, sent>>

\* stop: handlers, tasks, peers, cache and table stay.
StopNode ==
    /\ up
    /\ up' = FALSE
    /\ UNCHANGED <<relayVars, peerVars, tableVars, handlers, tasks, arrived, sent>>

-----------------------------------------------------------------------------
(* Datagrams.                                                              *)

\* datagram_received and _dispatch_sync: one task per handler.
Receive(p, a) ==
    /\ up /\ arrived < MaxDatagrams
    /\ <<p, a>> \in Datagrams
    /\ arrived' = arrived + 1
    /\ tasks' = tasks \o [i \in 1 .. handlers |-> [packet |-> p, from |-> a]]
    /\ UNCHANGED <<relayVars, peerVars, tableVars, handlers, up, sent>>

\* send_packet, broadcast and send_response raise when the transport is
\* stopped, and when the codec does: nothing is sent then, and the task ends.
Send(type, p, to) ==
    sent' = IF up /\ ~ (type = "packet" /\ p.id \in Unsendable)
            THEN Append(sent, [type |-> type, packet |-> p, to |-> to, at |-> clock])
            ELSE sent

\* receive, and a response to where the datagram came from, unless the packet
\* is a replay or the airlock rejects it.
Decide(p, a) ==
    /\ \/ /\ Passes(p.id, p.stamp, clock)
          /\ Records(p.id, clock)
          /\ IF p.id \in Rejected THEN sent' = sent ELSE Send("response", p, a)
       \/ /\ Refuses(p.id, p.stamp, clock)
          /\ sent' = sent
    /\ UNCHANGED relayVars

\* Where _handle_relay sends a packet, once its source has been recorded.
NextHop(p) ==
    LET known == GetAddress(p.target)' IN IF known = NoAddress THEN Broadcast ELSE known

\* _handle_relay: a packet that is forwarded is marked before it is sent.
HandleRelay(p) ==
    /\ \/ /\ PrepareRelay(p.id, p.hops, p.mesh)
          /\ Send("packet", [p EXCEPT !.hops = @ + 1], NextHop(p))
       \/ /\ Drop(p.id, p.hops, p.mesh)
          /\ sent' = sent
    /\ UNCHANGED tableVars

IsForUs(p) == p.target \in {Self, Broadcast}

\* _handle_incoming, in the task created first.
HandleIncoming ==
    /\ tasks # <<>>
    /\ tasks' = Tail(tasks)
    /\ \E p \in {Head(tasks).packet}, a \in {Head(tasks).from} :
        /\ RecordActivity(p.source, a)
        /\ IF IsForUs(p) THEN Decide(p, a) ELSE HandleRelay(p)
    /\ UNCHANGED <<handlers, up, arrived>>

-----------------------------------------------------------------------------
\* _peer_cleanup_loop, which runs while the node does.
CleanupPeers ==
    /\ up
    /\ PruneStale
    /\ UNCHANGED <<relayVars, tableVars, nodeVars>>

Tick ==
    /\ clock < MaxClock
    /\ TimePasses
    /\ UNCHANGED <<relayVars, tableVars, nodeVars>>

Next ==
    \/ \E opens \in BOOLEAN : StartNode(opens)
    \/ StopNode
    \/ \E p \in Packets, a \in Addresses : Receive(p, a)
    \/ HandleIncoming
    \/ CleanupPeers
    \/ Tick

Spec == Init /\ [][Next]_vars

-----------------------------------------------------------------------------
(* Properties.                                                             *)

Sends ==
    [type : {"packet", "response"}, to : Addresses \cup {Broadcast}, at : Nat,
     packet : [id : PacketIds, source : Dids, target : Dids \cup {Broadcast},
               mesh : BOOLEAN, hops : Nat, stamp : Int \cup {Unparseable}]]

TypeOK ==
    /\ RelayTypeOK
    /\ PeerTypeOK
    /\ handlers \in 0 .. MaxHandlers
    /\ up \in BOOLEAN
    /\ tasks \in Seq([packet : Packets, from : Addresses])
    /\ DOMAIN seen \subseteq PacketIds
    /\ \A i \in DOMAIN seen : seen[i] \in 0 .. clock
    /\ lastCleanup \in 0 .. clock
    /\ arrived \in 0 .. MaxDatagrams
    /\ sent \in Seq(Sends)

\* However often a packet arrives, over whatever addresses, to however many
\* handlers and across restarts, a second response to it is sent only if it was
\* stamped ahead of the clock when the first was, and more than a window later
\* (iot_node.py:131, 274-285 with nonce.py:61-86).
AnsweredOnce ==
    \A i, j \in DOMAIN sent :
        /\ i < j
        /\ sent[i].type = "response" /\ sent[j].type = "response"
        /\ sent[i].packet.id = sent[j].packet.id
        => /\ sent[j].at - sent[i].at > Window
           /\ sent[i].packet.stamp > sent[i].at

\* A relayed packet goes to the address its target was last heard from, unless
\* that is longer ago than the timeout: then, or if the target is unknown, it
\* is broadcast (iot_node.py:306-322).  That the source is recorded first, and
\* that peers are pruned at any time, makes no difference to it.
RelayedWhereHeard ==
    [][\A s \in {sent'[i] : i \in DOMAIN sent' \ DOMAIN sent} :
          s.type = "packet" =>
            s.to = IF WhereHeard(s.packet.target)' = NoAddress THEN Broadcast
                   ELSE WhereHeard(s.packet.target)']_vars

=============================================================================
