---------------------------- MODULE IoTNode_proofs ----------------------------
(***************************************************************************)
(* Theorems about IoTNode, for any devices, pings and routes: the nodes    *)
(* keep what PingService promises a caller, over a network that loses,     *)
(* reorders and repeats datagrams.                                         *)
(***************************************************************************)
EXTENDS IoTNode, TLAPS

(***************************************************************************)
(* The invariant.  Each part says what one piece of state tells of         *)
(* another.                                                                *)
(***************************************************************************)
Going == {"sending", "sent", "waiting"}

\* The history of a call and its future follow its coroutine.
CallState ==
    \A i \in Pings :
        /\ pc[i] = "idle" <=> outcome[i] = "idle"
        /\ pc[i] \in Going <=> outcome[i] = "open"

\* A future that is answered was answered by a device that decided on the packet.
AnsweredByDecision ==
    \A i \in Pings :
        fut[i] = "set" =>
            \E n \in MeantFor[i] : i \in passed[n] /\ <<n, i>> \in Admits

\* A datagram is about a ping somebody has called, and a response was sent by a
\* device that has decided on the ping.
NetworkIsHonest ==
    \A m \in net :
        /\ outcome[m.id] # "idle"
        /\ m.type = "response" =>
             /\ m.from \in MeantFor[m.id] /\ m.id \in passed[m.from]
             /\ <<m.from, m.id>> \in Admits

\* An entry is made by the call it belongs to.
EntriesAreCalled == \A n \in Nodes : \A i \in pending[n] : pc[i] # "idle"

Inv ==
    /\ TypeOK
    /\ CallState
    /\ AnsweredByDecision
    /\ NetworkIsHonest
    /\ EntriesAreCalled
    /\ WaitingIsRegistered
    /\ EntriesBelongToCalls

\* Nothing is called, sent or registered when the nodes are made.
LEMMA InitInv == Init => Inv
<1> SUFFICES ASSUME Init
             PROVE  Inv
  OBVIOUS
<1>1. TypeOK
  BY NodeAssumption DEF Init, TypeOK
<1>2. CallState /\ AnsweredByDecision /\ NetworkIsHonest /\ EntriesAreCalled
  BY DEF Init, CallState, AnsweredByDecision, NetworkIsHonest, EntriesAreCalled, Going
<1>3. WaitingIsRegistered /\ EntriesBelongToCalls
  BY DEF Init, WaitingIsRegistered, EntriesBelongToCalls
<1> QED
  BY <1>1, <1>2, <1>3 DEF Inv

-----------------------------------------------------------------------------
(* The steps of a call.                                                    *)

\* A call that begins keeps the invariant: its entry is its node's, and its future
\* is open.
LEMMA CallInv ==
    ASSUME Inv, NEW i \in Pings, Call(i)
    PROVE  Inv'
<1> USE DEF Inv, Call
<1>0. Source[i] \in Nodes
  BY NodeAssumption
<1>1. TypeOK'
  BY <1>0 DEF TypeOK, nodeVars, lifeVars
<1>2. CallState'
  BY DEF CallState, Going, TypeOK
<1>3. AnsweredByDecision'
  BY DEF AnsweredByDecision, TypeOK, nodeVars
<1>4. NetworkIsHonest'
  <2> SUFFICES ASSUME NEW m \in net
               PROVE  /\ outcome'[m.id] # "idle"
                      /\ m.type = "response" =>
                           /\ m.from \in MeantFor[m.id] /\ m.id \in passed[m.from]
                           /\ <<m.from, m.id>> \in Admits
    BY DEF NetworkIsHonest, nodeVars
  <2> QED
    BY DEF NetworkIsHonest, TypeOK
<1>5. EntriesAreCalled'
  BY <1>0 DEF EntriesAreCalled, TypeOK
<1>6. WaitingIsRegistered'
  BY <1>0, NodeAssumption DEF WaitingIsRegistered, TypeOK
<1>7. EntriesBelongToCalls'
  BY <1>0 DEF EntriesBelongToCalls, TypeOK
<1> QED
  BY <1>1, <1>2, <1>3, <1>4, <1>5, <1>6, <1>7

\* The first datagram of a packet is one of a call that goes on.
LEMMA TransmitInv ==
    ASSUME Inv, NEW i \in Pings, Transmit(i)
    PROVE  Inv'
<1> USE DEF Inv, Transmit
<1> DEFINE p == Packet(i, 0, Source[i], FirstHop[i])
<1>0. p \in Messages /\ p.id = i /\ p.type = "packet"
  BY NodeAssumption DEF Packet, Messages
<1>1. net' = net \cup {p} /\ pc[i] = "sending"
  OBVIOUS
<1> HIDE DEF p
<1>2. TypeOK'
  BY <1>0, <1>1 DEF TypeOK, nodeVars, lifeVars
<1>3. CallState'
  BY DEF CallState, Going, TypeOK
<1>4. AnsweredByDecision'
  BY DEF AnsweredByDecision, nodeVars
<1>5. NetworkIsHonest'
  BY <1>0, <1>1 DEF NetworkIsHonest, nodeVars, CallState, Going
<1>6. EntriesAreCalled' /\ WaitingIsRegistered' /\ EntriesBelongToCalls'
  BY DEF EntriesAreCalled, WaitingIsRegistered, EntriesBelongToCalls, TypeOK
<1> QED
  BY <1>2, <1>3, <1>4, <1>5, <1>6

\* The send returns, or the timer fires: the call goes on.
LEMMA GoesOnInv ==
    ASSUME Inv, NEW i \in Pings, SendReturns(i) \/ TimerFires(i)
    PROVE  Inv'
<1>1. CASE SendReturns(i)
  <2> USE <1>1 DEF Inv, SendReturns
  <2>1. TypeOK'
    BY DEF TypeOK, nodeVars, lifeVars
  <2>2. CallState'
    BY DEF CallState, Going, TypeOK
  <2>3. AnsweredByDecision' /\ NetworkIsHonest'
    BY DEF AnsweredByDecision, NetworkIsHonest, nodeVars
  <2>4. EntriesAreCalled' /\ WaitingIsRegistered' /\ EntriesBelongToCalls'
    BY DEF EntriesAreCalled, WaitingIsRegistered, EntriesBelongToCalls, TypeOK
  <2> QED
    BY <2>1, <2>2, <2>3, <2>4
<1>2. CASE TimerFires(i)
  <2> USE <1>2 DEF Inv, TimerFires
  <2>1. TypeOK'
    BY DEF TypeOK, nodeVars, lifeVars
  <2>2. CallState' /\ NetworkIsHonest'
    BY DEF CallState, NetworkIsHonest, nodeVars
  <2>3. AnsweredByDecision'
    BY DEF AnsweredByDecision, nodeVars, TypeOK
  <2>4. EntriesAreCalled' /\ WaitingIsRegistered' /\ EntriesBelongToCalls'
    BY DEF EntriesAreCalled, WaitingIsRegistered, EntriesBelongToCalls, TypeOK
  <2> QED
    BY <2>1, <2>2, <2>3, <2>4
<1> QED
  BY <1>1, <1>2

\* However a call ends: an entry that stays behind is that of a send which did
\* not return.
LEMMA EndsInv ==
    ASSUME Inv, NEW i \in Pings, pc[i] \in Going,
           NEW ending \in {"response", "none", "raised", "cancelled"},
           NEW leave \in BOOLEAN, ~ leave => ending \in {"raised", "cancelled"},
           Ends(i, ending, leave)
    PROVE  Inv'
<1> USE DEF Inv
<1>0. Source[i] \in Nodes
  BY NodeAssumption
<1>1. /\ pc' = [pc EXCEPT ![i] = "done"]
      /\ outcome' = [outcome EXCEPT ![i] = ending]
      /\ UNCHANGED <<net, fut, passed, relaySeen, peers, up, stopping>>
  BY DEF Ends, nodeVars, lifeVars
<1>2. /\ pending' \in [Nodes -> SUBSET Pings]
      /\ \A n \in Nodes : pending'[n] \subseteq pending[n]
      /\ \A n \in Nodes : pending[n] \ {i} \subseteq pending'[n]
      /\ leave => i \notin pending'[Source[i]]
  BY <1>0 DEF Ends, TypeOK
<1>3. TypeOK'
  BY <1>1, <1>2 DEF TypeOK
<1>4. CallState'
  BY <1>1 DEF CallState, Going, TypeOK
<1>5. AnsweredByDecision'
  BY <1>1 DEF AnsweredByDecision
<1>6. NetworkIsHonest'
  <2> SUFFICES ASSUME NEW m \in net
               PROVE  outcome'[m.id] # "idle"
    BY <1>1 DEF NetworkIsHonest
  <2>1. m.id \in Pings /\ outcome[m.id] # "idle"
    BY DEF NetworkIsHonest, TypeOK, Messages
  <2> QED
    BY <1>1, <2>1 DEF TypeOK
<1>7. EntriesAreCalled'
  BY <1>1, <1>2 DEF EntriesAreCalled, TypeOK
<1>8. WaitingIsRegistered'
  <2> SUFFICES ASSUME NEW j \in Pings, pc'[j] \in Going, fut'[j] = "open"
               PROVE  j \in pending'[Source[j]]
    BY DEF WaitingIsRegistered, Going
  <2>1. j # i /\ pc[j] \in Going /\ fut[j] = "open"
    BY <1>1 DEF TypeOK, Going
  <2>2. j \in pending[Source[j]] /\ Source[j] \in Nodes
    BY <2>1, NodeAssumption DEF WaitingIsRegistered, Going
  <2> QED
    BY <1>2, <2>1, <2>2
<1>9. EntriesBelongToCalls'
  <2> SUFFICES ASSUME NEW n \in Nodes, NEW j \in pending'[n]
               PROVE  /\ Source[j] = n
                      /\ pc'[j] = "done" => outcome'[j] \in {"raised", "cancelled"}
    BY DEF EntriesBelongToCalls
  <2>1. j \in pending[n] /\ j \in Pings
    BY <1>2 DEF TypeOK
  <2>2. Source[j] = n /\ (pc[j] = "done" => outcome[j] \in {"raised", "cancelled"})
    BY <2>1 DEF EntriesBelongToCalls
  <2>3. CASE j = i
    BY <1>1, <1>2, <2>2, <2>3 DEF TypeOK
  <2>4. CASE j # i
    BY <1>1, <2>1, <2>2, <2>4 DEF TypeOK
  <2> QED
    BY <2>2, <2>3, <2>4
<1> QED
  BY <1>3, <1>4, <1>5, <1>6, <1>7, <1>8, <1>9

\* The five steps that end a call do so as EndsInv says.
LEMMA EndingStep ==
    ASSUME NEW i \in Pings,
           \/ SendRaises(i) \/ ResumeAnswered(i) \/ ResumeTimedOut(i)
           \/ ResumeCancelled(i) \/ CallerCancelled(i)
    PROVE  /\ pc[i] \in Going
           /\ \E ending \in {"response", "none", "raised", "cancelled"}, leave \in BOOLEAN :
                /\ ~ leave => ending \in {"raised", "cancelled"}
                /\ ending = "response" => fut[i] = "set"
                /\ Ends(i, ending, leave)
<1>1. CASE SendRaises(i)
  BY <1>1 DEF SendRaises, Going
<1>2. CASE ResumeAnswered(i)
  BY <1>2 DEF ResumeAnswered, Going
<1>3. CASE ResumeTimedOut(i)
  BY <1>3 DEF ResumeTimedOut, Going
<1>4. CASE ResumeCancelled(i)
  BY <1>4 DEF ResumeCancelled, Going
<1>5. CASE CallerCancelled(i)
  BY <1>5 DEF CallerCancelled, Going
<1> QED
  BY <1>1, <1>2, <1>3, <1>4, <1>5

-----------------------------------------------------------------------------
(* The steps that take a datagram.                                         *)

\* Whatever a node sends, the network stays well-typed and honest if what it
\* sends is.
LEMMA NetAfterMember ==
    ASSUME NEW m, NEW again \in BOOLEAN, NEW sent, NEW k \in NetAfter(m, again, sent)
    PROVE  k \in net \/ k \in sent
BY DEF NetAfter

\* A response that arrives keeps the invariant: whoever sent it has decided on the
\* ping, and the entry goes as the future is completed.
LEMMA HandleResponseInv ==
    ASSUME Inv, NEW m \in net, NEW again \in BOOLEAN, HandleResponse(m, again)
    PROVE  Inv'
<1> USE DEF Inv
<1>0. m.type = "response" /\ m.id \in Pings /\ m.to \in Nodes
  BY DEF HandleResponse, TypeOK, Messages
<1>1. UNCHANGED <<pc, outcome, pending, passed, relaySeen, peers, up, stopping>>
  BY DEF HandleResponse, nodeVars, lifeVars
<1>2. net' \subseteq net
  BY NetAfterMember DEF HandleResponse
<1>3. \/ fut' = fut
      \/ fut[m.id] = "open" /\ fut' = [fut EXCEPT ![m.id] = "set"]
  BY DEF HandleResponse
<1>4. TypeOK'
  BY <1>0, <1>1, <1>2, <1>3 DEF TypeOK
<1>5. CallState' /\ NetworkIsHonest' /\ EntriesAreCalled' /\ EntriesBelongToCalls'
  BY <1>1, <1>2 DEF CallState, NetworkIsHonest, EntriesAreCalled, EntriesBelongToCalls
<1>6. AnsweredByDecision'
  <2>1. m.from \in MeantFor[m.id] /\ m.id \in passed[m.from]
        /\ <<m.from, m.id>> \in Admits
    BY <1>0 DEF NetworkIsHonest
  <2>2. ASSUME NEW i \in Pings, fut'[i] = "set"
        PROVE  \E n \in MeantFor[i] : i \in passed[n] /\ <<n, i>> \in Admits
    <3>1. CASE fut[i] = "set"
      BY <3>1 DEF AnsweredByDecision
    <3>2. CASE fut[i] # "set"
      <4>1. i = m.id
        BY <1>3, <2>2, <3>2 DEF TypeOK
      <4> QED
        BY <2>1, <4>1
    <3> QED
      BY <3>1, <3>2
  <2> QED
    BY <1>1, <2>2 DEF AnsweredByDecision
<1>7. WaitingIsRegistered'
  BY <1>1, <1>3 DEF WaitingIsRegistered, TypeOK
<1> QED
  BY <1>4, <1>5, <1>6, <1>7

\* Where a packet came from is an address that is known from now on.
LEMMA RecordedTyped ==
    ASSUME TypeOK, NEW m \in net
    PROVE  Recorded(m) \in [Nodes -> [Nodes -> Nodes \cup {NoAddress}]]
<1>1. m.id \in Pings /\ m.from \in Nodes /\ m.to \in Nodes
  BY DEF TypeOK, Messages
<1>2. Source[m.id] \in Nodes
  BY <1>1, NodeAssumption
<1>3. [peers[m.to] EXCEPT ![Source[m.id]] = m.from] \in [Nodes -> Nodes \cup {NoAddress}]
  BY <1>1, <1>2 DEF TypeOK
<1> QED
  BY <1>1, <1>3 DEF Recorded, TypeOK

\* A step that leaves the calls alone, forgets no decision, and sends only what
\* is honest.
LEMMA NetworkStepInv ==
    ASSUME Inv, TypeOK', UNCHANGED callVars,
           \A n \in Nodes : passed[n] \subseteq passed'[n],
           \A k \in net' : k \in net \/
               /\ k.id \in Pings /\ outcome[k.id] # "idle"
               /\ k.type = "response" =>
                    /\ k.from \in MeantFor[k.id] /\ k.id \in passed'[k.from]
                    /\ <<k.from, k.id>> \in Admits
    PROVE  Inv'
<1> USE DEF Inv
<1>1. UNCHANGED <<pc, fut, outcome, pending>>
  BY DEF callVars
<1>2. \A i \in Pings : MeantFor[i] \subseteq Nodes
  BY NodeAssumption DEF MeantFor
<1>3. CallState' /\ EntriesAreCalled' /\ EntriesBelongToCalls' /\ WaitingIsRegistered'
  BY <1>1 DEF CallState, EntriesAreCalled, EntriesBelongToCalls, WaitingIsRegistered
<1>4. AnsweredByDecision'
  BY <1>1, <1>2 DEF AnsweredByDecision
<1>5. NetworkIsHonest'
  <2> SUFFICES ASSUME NEW k \in net'
               PROVE  /\ outcome[k.id] # "idle"
                      /\ k.type = "response" =>
                           /\ k.from \in MeantFor[k.id] /\ k.id \in passed'[k.from]
                           /\ <<k.from, k.id>> \in Admits
    BY <1>1 DEF NetworkIsHonest
  <2>1. CASE k \in net
    <3>1. k.id \in Pings
      BY <2>1 DEF TypeOK, Messages
    <3> QED
      BY <1>2, <2>1, <3>1 DEF NetworkIsHonest
  <2> QED
    BY <2>1
<1> QED
  BY <1>3, <1>4, <1>5

\* A packet is forwarded to nodes: the address of its target, if there is one,
\* else the neighbours.
LEMMA HandleRelayInv ==
    ASSUME Inv, NEW m \in net, NEW again \in BOOLEAN, HandleRelay(m, again)
    PROVE  Inv'
<1> USE DEF Inv
<1> DEFINE n == m.to
           address == Recorded(m)[n][Target[m.id]]
           hearers == IF address = NoAddress THEN Neighbours[n] ELSE {address}
           sent == IF Forwards(m) THEN {Packet(m.id, m.hops + 1, n, h) : h \in hearers}
                                  ELSE {}
<1>0. m.type = "packet" /\ m.id \in Pings /\ m.hops \in 0 .. MaxHops /\ n \in Nodes
  BY DEF HandleRelay, TypeOK, Messages
<1>1. Target[m.id] \in Nodes
  BY <1>0, NodeAssumption DEF HandleRelay, IsForUs, MeantFor
<1>2. hearers \subseteq Nodes
  <2>1. address \in Nodes \cup {NoAddress}
    BY <1>0, <1>1, RecordedTyped
  <2>2. Neighbours[n] \subseteq Nodes
    BY <1>0, NodeAssumption
  <2> QED
    BY <2>1, <2>2
<1>3. /\ peers' = Recorded(m) /\ net' = NetAfter(m, again, sent)
      /\ UNCHANGED callVars /\ UNCHANGED <<passed, up, stopping>>
      /\ relaySeen' = IF Forwards(m) THEN [relaySeen EXCEPT ![n] = @ \cup {m.id}]
                                     ELSE relaySeen
  BY DEF HandleRelay, lifeVars
<1> HIDE DEF hearers
<1>4. \A k \in sent : k \in Messages /\ k.id = m.id /\ k.type = "packet"
  <2> SUFFICES ASSUME Forwards(m), NEW h \in hearers
               PROVE  LET k == Packet(m.id, m.hops + 1, n, h)
                      IN  k \in Messages /\ k.id = m.id /\ k.type = "packet"
    OBVIOUS
  <2>1. m.hops + 1 \in 0 .. MaxHops
    BY <1>0, NodeAssumption DEF Forwards
  <2> QED
    BY <1>0, <1>2, <2>1 DEF Packet, Messages
<1> HIDE DEF sent
<1>5. \A k \in net' : k \in net \/ k \in sent
  BY <1>3, NetAfterMember
<1>6. TypeOK'
  <2>1. net' \subseteq Messages
    BY <1>4, <1>5 DEF TypeOK
  <2>2. relaySeen' \in [Nodes -> SUBSET Pings]
    BY <1>0, <1>3 DEF TypeOK
  <2>3. peers' \in [Nodes -> [Nodes -> Nodes \cup {NoAddress}]]
    BY <1>3, RecordedTyped
  <2> QED
    BY <1>3, <2>1, <2>2, <2>3 DEF TypeOK, callVars
<1>7. outcome[m.id] # "idle"
  BY DEF NetworkIsHonest
<1> QED
  BY <1>0, <1>3, <1>4, <1>5, <1>6, <1>7, NetworkStepInv

\* A response is sent for a decision that is recorded in the same step.
LEMMA HandlePacketInv ==
    ASSUME Inv, NEW m \in net, NEW again \in BOOLEAN, HandlePacket(m, again)
    PROVE  Inv'
<1> USE DEF Inv
<1> DEFINE n == m.to
           r == Response(m.id, n, m.from)
           sent == IF <<n, m.id>> \in Admits THEN {r} ELSE {}
<1>0. m.type = "packet" /\ m.id \in Pings /\ m.from \in Nodes /\ n \in Nodes
      /\ n \in MeantFor[m.id]
  BY DEF HandlePacket, TypeOK, Messages, IsForUs
<1>1. /\ peers' = Recorded(m) /\ net' = NetAfter(m, again, sent)
      /\ UNCHANGED callVars /\ UNCHANGED <<relaySeen, up, stopping>>
      /\ passed' = [passed EXCEPT ![n] = @ \cup {m.id}]
  BY DEF HandlePacket, lifeVars
<1>2. r \in Messages /\ r.id = m.id /\ r.from = n /\ r.type = "response"
  BY <1>0 DEF Response, Messages
<1> HIDE DEF r
<1>3. \A k \in net' : k \in net \/ (k = r /\ <<n, m.id>> \in Admits)
  BY <1>1, NetAfterMember
<1>4. /\ passed' \in [Nodes -> SUBSET Pings]
      /\ \A d \in Nodes : passed[d] \subseteq passed'[d]
      /\ m.id \in passed'[n]
  BY <1>0, <1>1 DEF TypeOK
<1>5. TypeOK'
  <2>1. net' \subseteq Messages
    BY <1>2, <1>3 DEF TypeOK
  <2>2. peers' \in [Nodes -> [Nodes -> Nodes \cup {NoAddress}]]
    BY <1>1, RecordedTyped
  <2> QED
    BY <1>1, <1>4, <2>1, <2>2 DEF TypeOK, callVars
<1>6. outcome[m.id] # "idle"
  BY DEF NetworkIsHonest
<1> QED
  BY <1>0, <1>1, <1>2, <1>3, <1>4, <1>5, <1>6, NetworkStepInv

\* Nothing is sent for a packet that is refused.
LEMMA RefusePacketInv ==
    ASSUME Inv, NEW m \in net, NEW again \in BOOLEAN, RefusePacket(m, again)
    PROVE  Inv'
<1> USE DEF Inv
<1>1. /\ peers' = Recorded(m) /\ net' = NetAfter(m, again, {})
      /\ UNCHANGED callVars /\ UNCHANGED <<passed, relaySeen, up, stopping>>
  BY DEF RefusePacket, lifeVars
<1>2. \A k \in net' : k \in net
  BY <1>1, NetAfterMember
<1>3. peers' \in [Nodes -> [Nodes -> Nodes \cup {NoAddress}]]
  BY <1>1, RecordedTyped
<1>4. TypeOK'
  BY <1>1, <1>2, <1>3 DEF TypeOK, callVars
<1> QED
  BY <1>1, <1>2, <1>4, NetworkStepInv

\* A datagram is lost, a heartbeat heard, a peer forgotten, stop begins, a node
\* starts again: nothing of the calls changes.
LEMMA OtherInv ==
    ASSUME Inv,
           \/ \E m \in net : Lose(m)
           \/ \E n, d \in Nodes : HearHeartbeat(n, d) \/ PeerGoesStale(n, d)
           \/ \E n \in MayStop : StopBegins(n) \/ StartAgain(n)
    PROVE  Inv'
<1> USE DEF Inv
<1>1. UNCHANGED <<callVars, passed, relaySeen>> /\ net' \subseteq net
  BY DEF Lose, HearHeartbeat, PeerGoesStale, StopBegins, StartAgain, nodeVars, lifeVars
<1>2. peers' \in [Nodes -> [Nodes -> Nodes \cup {NoAddress}]]
  <2>1. CASE peers' = peers
    BY <2>1 DEF TypeOK
  <2>2. CASE \E n, d \in Nodes : HearHeartbeat(n, d)
    BY <2>2 DEF HearHeartbeat, TypeOK
  <2>3. CASE \E n, d \in Nodes : PeerGoesStale(n, d)
    BY <2>3 DEF PeerGoesStale, TypeOK
  <2> QED
    BY <2>1, <2>2, <2>3 DEF Lose, StopBegins, StartAgain, nodeVars
<1>3. up' \in [Nodes -> BOOLEAN] /\ stopping' \subseteq MayStop
  BY DEF Lose, HearHeartbeat, PeerGoesStale, StopBegins, StartAgain, lifeVars, TypeOK
<1>4. TypeOK'
  BY <1>1, <1>2, <1>3 DEF TypeOK, callVars
<1> QED
  BY <1>1, <1>4, NetworkStepInv

\* stop cancels the futures of its node before it clears the table, so that no
\* caller is left with a future nobody can complete.
LEMMA StopEndsInv ==
    ASSUME Inv, NEW n \in MayStop, StopEnds(n)
    PROVE  Inv'
<1> USE DEF Inv
<1>0. n \in Nodes
  BY NodeAssumption
<1>1. UNCHANGED <<net, pc, outcome, passed, relaySeen, peers>>
  BY DEF StopEnds, nodeVars
<1>2. /\ fut' \in [Pings -> {"none", "open", "set", "timedout", "cancelled"}]
      /\ \A i \in Pings : fut'[i] = fut[i] \/ fut'[i] = "cancelled"
      /\ \A i \in pending[n] : fut'[i] # "open"
  BY <1>0 DEF StopEnds, TypeOK
<1>3. pending' \in [Nodes -> SUBSET Pings] /\ pending'[n] = {}
      /\ \A d \in Nodes \ {n} : pending'[d] = pending[d]
  BY <1>0 DEF StopEnds, TypeOK
<1>4. TypeOK'
  <2>1. up' \in [Nodes -> BOOLEAN] /\ stopping' \subseteq MayStop
    BY DEF StopEnds, TypeOK
  <2> QED
    BY <1>1, <1>2, <1>3, <2>1 DEF TypeOK
<1>5. CallState' /\ NetworkIsHonest'
  BY <1>1 DEF CallState, NetworkIsHonest
<1>6. AnsweredByDecision'
  BY <1>1, <1>2 DEF AnsweredByDecision
<1>7. EntriesAreCalled' /\ EntriesBelongToCalls'
  BY <1>1, <1>3 DEF EntriesAreCalled, EntriesBelongToCalls
<1>8. WaitingIsRegistered'
  <2> SUFFICES ASSUME NEW i \in Pings, pc[i] \in Going, fut'[i] = "open"
               PROVE  i \in pending'[Source[i]]
    BY <1>1 DEF WaitingIsRegistered, Going
  <2>1. i \in pending[Source[i]] /\ Source[i] \in Nodes
    BY <1>2, NodeAssumption DEF WaitingIsRegistered, Going
  <2>2. Source[i] # n
    BY <1>2, <2>1
  <2> QED
    BY <1>3, <2>1, <2>2
<1> QED
  BY <1>4, <1>5, <1>6, <1>7, <1>8

-----------------------------------------------------------------------------
(* Theorems.                                                               *)

\* Every step of the nodes and the network keeps the invariant.
LEMMA NextInv == Inv /\ [Next]_vars => Inv'
<1> SUFFICES ASSUME Inv, [Next]_vars
             PROVE  Inv'
  OBVIOUS
<1>1. CASE UNCHANGED vars
  <2>1. TypeOK'
    BY <1>1 DEF vars, callVars, nodeVars, lifeVars, Inv, TypeOK
  <2> QED
    BY <1>1, <2>1, NetworkStepInv DEF vars, nodeVars
<1>2. ASSUME NEW i \in Pings, SendPing(i)
      PROVE  Inv'
  <2>1. CASE Call(i)
    BY <2>1, CallInv
  <2>2. CASE Transmit(i)
    BY <2>2, TransmitInv
  <2>3. CASE SendReturns(i) \/ TimerFires(i)
    BY <2>3, GoesOnInv
  <2>4. CASE \/ SendRaises(i) \/ ResumeAnswered(i) \/ ResumeTimedOut(i)
             \/ ResumeCancelled(i) \/ CallerCancelled(i)
    <3>1. pc[i] \in Going
      BY <2>4, EndingStep
    <3>2. PICK ending \in {"response", "none", "raised", "cancelled"}, leave \in BOOLEAN :
            (~ leave => ending \in {"raised", "cancelled"}) /\ Ends(i, ending, leave)
      BY <2>4, EndingStep
    <3> QED
      BY <3>1, <3>2, EndsInv
  <2> QED
    BY <1>2, <2>1, <2>2, <2>3, <2>4 DEF SendPing
<1>3. ASSUME NEW m \in net, NEW again \in BOOLEAN, HandleIncoming(m, again)
      PROVE  Inv'
  BY <1>3, HandleResponseInv, HandleRelayInv, HandlePacketInv, RefusePacketInv
     DEF HandleIncoming
<1>4. CASE \/ \E m \in net : Lose(m)
           \/ \E n, d \in Nodes : HearHeartbeat(n, d) \/ PeerGoesStale(n, d)
           \/ \E n \in MayStop : StopBegins(n) \/ StartAgain(n)
  BY <1>4, OtherInv
<1>5. ASSUME NEW n \in MayStop, StopEnds(n)
      PROVE  Inv'
  BY <1>5, StopEndsInv
<1> QED
  BY <1>1, <1>2, <1>3, <1>4, <1>5 DEF Next

\* The invariant holds of every behaviour.
LEMMA InvHolds == Spec => []Inv
BY InitInv, NextInv, PTL DEF Spec

\* Addresses are addresses, entries are packet_ids, and no packet has gone
\* further than max_hops (iot_node.py:73-93, relay.py:78-95).
THEOREM TypeCorrect == Spec => []TypeOK
<1>1. Inv => TypeOK
  BY DEF Inv
<1> QED
  BY <1>1, InvHolds, PTL

\* No caller waits for a future nobody can complete, whatever stops, restarts,
\* failed sends and late datagrams come between (iot_node.py:166-169, 209, 291).
THEOREM WaitingAlwaysRegistered == Spec => []WaitingIsRegistered
<1>1. Inv => WaitingIsRegistered
  BY DEF Inv
<1> QED
  BY <1>1, InvHolds, PTL

\* An entry is in the table of its caller's node, and outlives its call only when
\* the send did not return (iot_node.py:209-222).
THEOREM EntriesAlwaysBelong == Spec => []EntriesBelongToCalls
<1>1. Inv => EntriesBelongToCalls
  BY DEF Inv
<1> QED
  BY <1>1, InvHolds, PTL

-----------------------------------------------------------------------------
(***************************************************************************)
(* The refinement of PingService.  A call asks; the five steps that end a  *)
(* call finish it; a packet that a node has not decided on is decided;     *)
(* every other step leaves the service as it is.                           *)
(***************************************************************************)

\* Nothing is asked or decided at first.
LEMMA InitRefines == Init => Service!Init
<1> SUFFICES ASSUME Init
             PROVE  Service!Init
  OBVIOUS
<1>1. Decisions = {}
  <2>1. \A d \in Nodes \X Pings : d[1] \in Nodes /\ passed[d[1]] = {}
    BY DEF Init
  <2> QED
    BY <2>1 DEF Decisions
<1> QED
  BY <1>1 DEF Service!Init, Init

\* A step that leaves the decisions of the nodes alone leaves those of the service.
LEMMA SameDecisions ==
    ASSUME passed' = passed
    PROVE  Decisions' = Decisions
BY DEF Decisions

\* A call is a question to the service.
LEMMA CallRefines ==
    ASSUME Inv, NEW i \in Pings, Call(i)
    PROVE  Service!Next
<1>1. Decisions' = Decisions
  BY SameDecisions DEF Call, nodeVars
<1>2. Service!Ask(i)
  BY <1>1 DEF Service!Ask, Call, Inv, CallState
<1> QED
  BY <1>2 DEF Service!Next

\* A step that ends a call finishes it, with an answer only if one was decided.
LEMMA EndsRefines ==
    ASSUME Inv, NEW i \in Pings, pc[i] \in Going,
           NEW ending \in {"response", "none", "raised", "cancelled"},
           NEW leave \in BOOLEAN, ending = "response" => fut[i] = "set",
           Ends(i, ending, leave)
    PROVE  Service!Next
<1>1. Decisions' = Decisions
  BY SameDecisions DEF Ends, nodeVars
<1>2. outcome[i] = "open" /\ outcome' = [outcome EXCEPT ![i] = ending]
  BY DEF Inv, CallState, Ends
<1>3. ASSUME ending = "response"
      PROVE  \E n \in MeantFor[i] : <<n, i>> \in Decisions \cap Admits
  <2>1. PICK n \in MeantFor[i] : i \in passed[n] /\ <<n, i>> \in Admits
    BY <1>3 DEF Inv, AnsweredByDecision
  <2>2. n \in Nodes
    BY NodeAssumption DEF MeantFor
  <2> QED
    BY <2>1, <2>2 DEF Decisions
<1>4. Service!Finish(i, ending)
  BY <1>1, <1>2, <1>3 DEF Service!Finish
<1> QED
  BY <1>4 DEF Service!Next, Service!Endings

\* The first time a packet passes at a node it is meant for is the decision; when
\* one passes again it is decided on already.
LEMMA HandlePacketRefines ==
    ASSUME Inv, NEW m \in net, NEW again \in BOOLEAN, HandlePacket(m, again)
    PROVE  Service!Next \/ UNCHANGED Service!vars
<1> DEFINE n == m.to
           i == m.id
<1>0. i \in Pings /\ n \in Nodes /\ n \in MeantFor[i]
  BY DEF HandlePacket, IsForUs, Inv, TypeOK, Messages
<1>1. UNCHANGED outcome /\ passed' = [passed EXCEPT ![n] = @ \cup {i}]
  BY DEF HandlePacket, callVars
<1>2. passed \in [Nodes -> SUBSET Pings]
  BY DEF Inv, TypeOK
<1> HIDE DEF n, i
<1>3. CASE i \in passed[n]
  <2>1. passed' = passed
    BY <1>0, <1>1, <1>2, <1>3
  <2> QED
    BY <1>1, <2>1, SameDecisions DEF Service!vars
<1>4. CASE i \notin passed[n]
  <2>1. Decisions' = Decisions \cup {<<n, i>>}
    <3>1. \A d \in Nodes \X Pings :
            d[2] \in passed'[d[1]] <=> d[2] \in passed[d[1]] \/ d = <<n, i>>
      BY <1>0, <1>1, <1>2
    <3> QED
      BY <1>0, <3>1 DEF Decisions
  <2>2. <<n, i>> \notin Decisions
    BY <1>4 DEF Decisions
  <2>3. outcome[i] # "idle"
    BY DEF Inv, NetworkIsHonest, i
  <2>4. Service!Decide(n, i)
    BY <1>0, <1>1, <2>1, <2>2, <2>3 DEF Service!Decide
  <2> QED
    BY <1>0, <2>4 DEF Service!Next
<1> QED
  BY <1>3, <1>4

\* Every step is one of the service, or leaves it as it is.
LEMMA NextRefines == Inv /\ [Next]_vars => [Service!Next]_Service!vars
<1> SUFFICES ASSUME Inv, [Next]_vars
             PROVE  Service!Next \/ UNCHANGED Service!vars
  OBVIOUS
<1>1. CASE UNCHANGED <<outcome, passed>>
  BY <1>1, SameDecisions DEF Service!vars
<1>2. ASSUME NEW i \in Pings, SendPing(i)
      PROVE  Service!Next \/ UNCHANGED <<outcome, passed>>
  <2>1. CASE Call(i)
    BY <2>1, CallRefines
  <2>2. CASE Transmit(i) \/ SendReturns(i) \/ TimerFires(i)
    BY <2>2 DEF Transmit, SendReturns, TimerFires, nodeVars
  <2>3. CASE \/ SendRaises(i) \/ ResumeAnswered(i) \/ ResumeTimedOut(i)
             \/ ResumeCancelled(i) \/ CallerCancelled(i)
    <3>1. pc[i] \in Going
      BY <2>3, EndingStep
    <3>2. PICK ending \in {"response", "none", "raised", "cancelled"}, leave \in BOOLEAN :
            (ending = "response" => fut[i] = "set") /\ Ends(i, ending, leave)
      BY <2>3, EndingStep
    <3> QED
      BY <3>1, <3>2, EndsRefines
  <2> QED
    BY <1>2, <2>1, <2>2, <2>3 DEF SendPing
<1>3. ASSUME NEW m \in net, NEW again \in BOOLEAN, HandleIncoming(m, again)
      PROVE  Service!Next \/ UNCHANGED Service!vars
  <2>1. CASE HandleResponse(m, again) \/ HandleRelay(m, again) \/ RefusePacket(m, again)
    <3>1. UNCHANGED <<outcome, passed>>
      BY <2>1 DEF HandleResponse, HandleRelay, RefusePacket, nodeVars, callVars
    <3> QED
      BY <3>1, <1>1
  <2> QED
    BY <1>3, <2>1, HandlePacketRefines DEF HandleIncoming
<1>4. CASE \/ \E m \in net : Lose(m)
           \/ \E n, d \in Nodes : HearHeartbeat(n, d) \/ PeerGoesStale(n, d)
           \/ \E n \in MayStop : StopBegins(n) \/ StopEnds(n) \/ StartAgain(n)
  <2>1. UNCHANGED <<outcome, passed>>
    BY <1>4 DEF Lose, HearHeartbeat, PeerGoesStale, StopBegins, StopEnds, StartAgain,
                nodeVars, callVars
  <2> QED
    BY <1>1, <2>1
<1> QED
  BY <1>1, <1>2, <1>3, <1>4 DEF Next, vars, callVars, nodeVars

\* Over a network that loses, reorders and repeats datagrams, with relays,
\* timeouts, failed sends, stops and restarts, the nodes implement PingService: a
\* call ends once, a device decides only on pings that were called and are meant
\* for it, and "response" is the answer of a device that decided on this ping and
\* let it through (iot_node.py:191-222, 263-297).
THEOREM Implements == Spec => ImplementsService
<1>1. Service!Init /\ [][Service!Next]_Service!vars => Service!Spec
  BY DEF Service!Spec
<1> QED
  BY <1>1, InitRefines, NextRefines, InvHolds, PTL DEF Spec, ImplementsService

-----------------------------------------------------------------------------
(***************************************************************************)
(* What the refinement is good for: what holds of PingService holds of the *)
(* nodes, with no word about datagrams, tables and timers.                 *)
(***************************************************************************)
AnswerWasDecided ==
    \A i \in Pings :
        outcome[i] = "response" =>
            \E n \in MeantFor[i] : <<n, i>> \in Decisions \cap Admits

\* An ended call stays ended as it did, and a decision that was taken stands.
EndsAndDecisionsStand ==
    [][/\ \A i \in Pings :
             outcome[i] \in Service!Endings => outcome'[i] = outcome[i]
       /\ Decisions \subseteq Decisions']_<<outcome, Decisions>>

ServiceInv == outcome = [i \in Pings |-> outcome[i]] /\ AnswerWasDecided

\* The service keeps both.
LEMMA ServiceStep ==
    ASSUME ServiceInv, Service!Next
    PROVE  /\ ServiceInv'
           /\ \A i \in Pings : outcome[i] \in Service!Endings => outcome'[i] = outcome[i]
           /\ Decisions \subseteq Decisions'
<1> USE DEF ServiceInv, AnswerWasDecided
<1>1. ASSUME NEW i \in Pings, Service!Ask(i)
      PROVE  /\ ServiceInv'
             /\ \A j \in Pings : outcome[j] \in Service!Endings => outcome'[j] = outcome[j]
             /\ Decisions \subseteq Decisions'
  BY <1>1 DEF Service!Ask, Service!Endings
<1>2. ASSUME NEW n \in Nodes, NEW i \in Pings, Service!Decide(n, i)
      PROVE  /\ ServiceInv'
             /\ \A j \in Pings : outcome[j] \in Service!Endings => outcome'[j] = outcome[j]
             /\ Decisions \subseteq Decisions'
  BY <1>2 DEF Service!Decide
<1>3. ASSUME NEW i \in Pings, NEW ending \in Service!Endings, Service!Finish(i, ending)
      PROVE  /\ ServiceInv'
             /\ \A j \in Pings : outcome[j] \in Service!Endings => outcome'[j] = outcome[j]
             /\ Decisions \subseteq Decisions'
  BY <1>3 DEF Service!Finish, Service!Endings
<1> QED
  BY <1>1, <1>2, <1>3 DEF Service!Next

\* A caller that gets "response" has the answer of a device the ping was meant
\* for, that decided on it and let it through; and what ended or was decided stays
\* so, whatever comes late or twice (iot_node.py:214-222, 289-297).
THEOREM AnswersAreDecided == Spec => []AnswerWasDecided /\ EndsAndDecisionsStand
<1> DEFINE Stand == /\ \A i \in Pings :
                         outcome[i] \in Service!Endings => outcome'[i] = outcome[i]
                    /\ Decisions \subseteq Decisions'
<1>1. Service!Init => ServiceInv
  BY DEF Service!Init, ServiceInv, AnswerWasDecided
<1>2. ServiceInv /\ [Service!Next]_Service!vars => ServiceInv'
  <2>1. ASSUME ServiceInv, UNCHANGED Service!vars
        PROVE  ServiceInv'
    BY <2>1 DEF ServiceInv, AnswerWasDecided, Service!vars
  <2> QED
    BY <2>1, ServiceStep
<1>3. ServiceInv /\ [Service!Next]_Service!vars => [Stand]_<<outcome, Decisions>>
  BY ServiceStep DEF Service!vars
<1>4. ServiceInv => AnswerWasDecided
  BY DEF ServiceInv
<1>5. ImplementsService => Service!Init /\ [][Service!Next]_Service!vars
  BY DEF ImplementsService, Service!Spec
<1> QED
  BY <1>1, <1>2, <1>3, <1>4, <1>5, Implements, PTL DEF EndsAndDecisionsStand

===============================================================================
