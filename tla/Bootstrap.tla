------------------------------ MODULE Bootstrap ------------------------------
(***************************************************************************)
(* How a hub gets to know devices: NetworkDiscovery of                     *)
(* transport/discovery.py, which hears datagrams on the multicast group,   *)
(* and BeaconHandler of beacon.py, which answers beacons by the auto-vouch *)
(* rules or asks a human.                                                  *)
(*                                                                         *)
(* A beacon reaches the handler in two ways.  One that broadcast_beacon or *)
(* broadcast_discover has returned may be handed to the hub by other       *)
(* means, at any later time.  What broadcast_discover puts on the network  *)
(* is a DISCOVER packet, of which the hub makes a beacon of its own.  The  *)
(* network loses, repeats, delays and reorders datagrams, and others send  *)
(* there too.                                                              *)
(*                                                                         *)
(* A rule is the sets of device types and sources it admits (all, if it    *)
(* does not name any) and the capabilities it requires (none, if it has no *)
(* key for them).  What a packet has for capabilities may be nothing that  *)
(* Python can make a set of.  Clocks are counted in units of which MaxAge  *)
(* are the 300 seconds of is_fresh; those of the devices may be off by     *)
(* Offsets, and the hub's is not set back.                                 *)
(***************************************************************************)
EXTENDS Codec, Integers, Sequences, FiniteSets, FiniteSetsExt

CONSTANTS
    Hub, Devices,   \* the hub, and the others
    Capabilities, DeviceTypes,
    NotASet,        \* capabilities that set() raises on
    RuleLists,      \* the lists auto_vouch_rules is set to
    Foreign,        \* what others send: records [class, dict, frame]
    HubCodec,       \* the codec of the hub's discovery
    Callbacks,      \* bound on the callbacks registered by on_discovered
    MaxAge,         \* 300 seconds
    Offsets,        \* how far the clocks of devices are off
    MaxNow,         \* bound on the clock
    MaxSent,        \* bound on the datagrams sent
    MaxBeacons,     \* bound on the beacons created
    MaxAnswers      \* bound on the beacons answered

\* A message has the keys its sender's to_dict gives it, or the required ones
\* at least, and was framed by some codec.
IsMessage(f) ==
    /\ f.class \in Classes
    /\ RequiredKeys(f.class) \subseteq DOMAIN f.dict
    /\ DOMAIN f.dict \subseteq RequiredKeys(f.class) \cup DOMAIN Optional(f.class)
    /\ f.class = "packet" => f.dict.source_did \in Devices \cup {Hub}
    /\ IsPayload(PayloadOf(f.dict))
    /\ Get(PayloadOf(f.dict).data, "capabilities", {})
           \in (SUBSET Capabilities) \cup {NotASet}
    /\ Get(PayloadOf(f.dict).data, "device_type", "generic") \in DeviceTypes
    /\ f.frame # Error
    /\ \E c \in Codecs : f.frame = Encode(c, f.class, f.dict)

ASSUME BootstrapAssumption ==
    /\ Hub \notin Devices
    /\ {MaxAge, MaxNow, MaxSent, MaxBeacons, MaxAnswers, Callbacks} \subseteq Nat
    /\ Offsets \subseteq Int
    /\ "generic" \in DeviceTypes
    /\ HubCodec \in Codecs /\ ~ HubCodec.use_msgpack
    /\ \A list \in RuleLists : list \in
           Seq([types : SUBSET DeviceTypes, required : SUBSET Capabilities,
                sources : SUBSET Devices])
    /\ \A f \in Foreign : IsMessage(f)

VARIABLES
    now,            \* the hub's clock
    sent,           \* the datagrams sent to the multicast group
    beacons,        \* the beacons created: the n-th has the id n
    rules,          \* auto_vouch_rules
    hitl,           \* is on_hitl_needed set?
    recent,         \* ids in _recent
    escalated,      \* history: ids on_hitl_needed was called with
    failed,         \* history: ids whose capabilities raised
    answers,        \* history: the responses of handle_beacon
    callbacks,      \* how many callbacks are registered
    tasks,          \* callbacks scheduled: <<callback, answer>>
    called          \* history: callbacks that have run

memory == <<recent, escalated, failed>>
vars == <<now, sent, beacons, rules, hitl, memory, answers, callbacks, tasks,
          called>>

Init ==
    /\ now = 0
    /\ sent = {}
    /\ beacons = <<>>
    /\ rules = <<>>
    /\ hitl = FALSE
    /\ recent = {} /\ escalated = {} /\ failed = {}
    /\ answers = <<>>
    /\ callbacks = 0
    /\ tasks = {} /\ called = {}

-----------------------------------------------------------------------------
(* Beacons.                                                                *)

IsFresh(b) == now - b.timestamp =< MaxAge

\* Mutant: the capabilities are compared the other way round.
MatchesRuleSwapped(b, r) ==
    /\ b.device_type \in r.types
    /\ r.required = {} \/ (b.capabilities # NotASet /\ b.capabilities \subseteq r.required)
    /\ b.source_did \in r.sources

\* The device type is compared first.
MatchesRule(b, r) ==
    /\ b.device_type \in r.types
    /\ r.required = {} \/ (b.capabilities # NotASet /\ r.required \subseteq b.capabilities)
    /\ b.source_did \in r.sources

\* ... and then set() is asked for the capabilities, if the rule requires any.
RaisesOn(b, r) ==
    /\ b.device_type \in r.types
    /\ r.required # {} /\ b.capabilities = NotASet

\* The dict of the packet PingNode.discover makes: it has no device type, and
\* the capabilities under a key of their own.
DiscoverDict(source, capabilities) ==
    [packet_id |-> "id", source_did |-> source, ping_type |-> "discover",
     payload |-> PlainPayload([requested_capabilities |-> capabilities]),
     nonce |-> "nonce", hop_count |-> 0]

\* The beacon the hub makes of a packet it hears, whatever its type.
HeardBeacon(packet) ==
    LET data == packet.payload.data
    IN  [source_did   |-> packet.source_did,
         capabilities |-> Get(data, "capabilities", {}),
         device_type  |-> Get(data, "device_type", "generic"),
         timestamp    |-> now,
         heard        |-> TRUE]

\* A response, to a beacon on which n callbacks will be told; asked says if
\* it is one that on_hitl_needed, set then, was to be called for.
Respond(id, decision, rule, asked, n) ==
    answers' = Append(answers, [beacon |-> id, decision |-> decision,
                                rule |-> rule, asked |-> asked, callbacks |-> n])

Reject(id, n) ==
    /\ Respond(id, "rejected", <<>>, FALSE, n)
    /\ UNCHANGED memory

AutoVouch(id, r, n) ==
    /\ recent' = recent \cup {id}
    /\ Respond(id, "auto_vouched", <<r>>, FALSE, n)
    /\ UNCHANGED <<escalated, failed>>

\* set() raises on the capabilities: the beacon is in _recent by then.
Fail(id) ==
    /\ recent' = recent \cup {id}
    /\ failed' = failed \cup {id}
    /\ UNCHANGED <<escalated, answers>>

\* Mutant: on_hitl_needed is told of a beacon the first time only.
EscalateOnce(id, n) ==
    /\ recent' = recent \cup {id}
    /\ escalated' = IF hitl /\ id \notin recent THEN escalated \cup {id} ELSE escalated
    /\ Respond(id, "hitl_pending", <<>>, hitl, n)
    /\ UNCHANGED failed

\* on_hitl_needed is called if it is set, and may raise: there is no response
\* then.  Without it the response is the same, and nobody is asked.
Escalate(id, n) ==
    /\ recent' = recent \cup {id}
    /\ escalated' = IF hitl THEN escalated \cup {id} ELSE escalated
    /\ \/ Respond(id, "hitl_pending", <<>>, hitl, n)
       \/ hitl /\ UNCHANGED answers
    /\ UNCHANGED failed

\* The rules at which the loop over them ends.
Ending(b) ==
    {i \in DOMAIN rules : MatchesRule(b, rules[i]) \/ RaisesOn(b, rules[i])}

ApplyRule(id, b, r, n) ==
    \/ MatchesRule(b, r) /\ AutoVouch(id, r, n)
    \/ RaisesOn(b, r) /\ Fail(id)

\* Mutant: the rules are tried before the beacon's age is looked at.
HandleBeaconRulesFirst(id, b, n) ==
    \/ Ending(b) # {} /\ ApplyRule(id, b, rules[Min(Ending(b))], n)
    \/ Ending(b) = {} /\ ~ IsFresh(b) /\ Reject(id, n)
    \/ Ending(b) = {} /\ IsFresh(b) /\ Escalate(id, n)

\* Mutant: only beacons that are vouched for are remembered.
HandleBeaconRemembersVouched(id, b, n) ==
    \/ ~ IsFresh(b) /\ Reject(id, n)
    \/ IsFresh(b) /\ Ending(b) # {} /\ ApplyRule(id, b, rules[Min(Ending(b))], n)
    \/ /\ IsFresh(b) /\ Ending(b) = {}
       /\ escalated' = IF hitl THEN escalated \cup {id} ELSE escalated
       /\ Respond(id, "hitl_pending", <<>>, hitl, n)
       /\ UNCHANGED <<recent, failed>>

\* handle_beacon: the beacon's age first, then the first rule that matches,
\* then the human.
HandleBeacon(id, b, n) ==
    \/ ~ IsFresh(b) /\ Reject(id, n)
    \/ IsFresh(b) /\ Ending(b) # {} /\ ApplyRule(id, b, rules[Min(Ending(b))], n)
    \/ IsFresh(b) /\ Ending(b) = {} /\ Escalate(id, n)

-----------------------------------------------------------------------------
(* Steps.                                                                  *)

\* broadcast_beacon: a beacon, to be handed to the hub some other way.
BroadcastBeacon(d, capabilities, type, offset) ==
    /\ Len(beacons) < MaxBeacons
    /\ beacons' = Append(beacons, [source_did   |-> d,
                                   capabilities |-> capabilities,
                                   device_type  |-> type,
                                   timestamp    |-> now + offset,
                                   heard        |-> FALSE])
    /\ UNCHANGED <<now, sent, rules, hitl, memory, answers, callbacks, tasks,
                   called>>

\* broadcast_discover, by a codec that is always that of JSON.  It makes a
\* beacon too and returns it: for a caller that keeps it, that is another step
\* of BroadcastBeacon; the loop of the IoTNode does not.
BroadcastDiscover(d, capabilities) ==
    LET dict  == DiscoverDict(d, capabilities)
        codec == [use_msgpack |-> FALSE, installed |-> FALSE]
        frame == Encode(codec, "packet", dict)
    IN  /\ Cardinality(sent) < MaxSent
        /\ frame # Error
        /\ sent' = sent \cup {[class |-> "packet", dict |-> dict,
                               frame |-> frame]}
        /\ UNCHANGED <<now, beacons, rules, hitl, memory, answers, callbacks,
                       tasks, called>>

\* Others send what they like.
OthersSend(f) ==
    /\ Cardinality(sent) < MaxSent
    /\ sent' = sent \cup {f}
    /\ UNCHANGED <<now, beacons, rules, hitl, memory, answers, callbacks, tasks,
                   called>>

\* Mutant: the tasks of one hearing take the place of those before.
OnBeaconReceivedReplaces(packet) ==
    /\ packet.source_did # Hub
    /\ Len(beacons) < MaxBeacons
    /\ beacons' = Append(beacons, HeardBeacon(packet))
    /\ HandleBeacon(Len(beacons) + 1, HeardBeacon(packet), callbacks)
    /\ tasks' = IF answers' = answers
                THEN tasks
                ELSE {<<c, Len(answers')>> : c \in 1 .. callbacks}

\* _on_beacon_received.  A packet of its own is not for the hub; a beacon made
\* now of any other is answered, and a task started for each callback unless
\* handle_beacon raised.
OnBeaconReceived(packet) ==
    /\ packet.source_did # Hub
    /\ Len(beacons) < MaxBeacons
    /\ beacons' = Append(beacons, HeardBeacon(packet))
    /\ HandleBeacon(Len(beacons) + 1, HeardBeacon(packet), callbacks)
    /\ tasks' = IF answers' = answers
                THEN tasks
                ELSE tasks \cup {<<c, Len(answers')>> : c \in 1 .. callbacks}

\* What may arrive of a frame: the network, or a sender of another version of
\* the protocol, may cut it, add to it, or change a field of its header.
Carried(f) ==
    LET Flipped(flag) == [f EXCEPT !.flags = (f.flags \ {flag}) \cup ({flag} \ f.flags)]
    IN  {f, [f EXCEPT !.magic = "cut"], [f EXCEPT !.version = 2],
         Flipped("IS_RESPONSE"), Flipped("MSGPACK"),
         [f EXCEPT !.came = f.came + 1], [f EXCEPT !.came = f.came - 1],
         [f EXCEPT !.length = f.length - 1]}

\* datagram_received: what does not decode to a packet is dropped.
DatagramReceived(frame) ==
    LET message == Decode(HubCodec, frame)
    IN  /\ Len(answers) < MaxAnswers
        /\ message # Error
        /\ message.class = "packet"
        /\ OnBeaconReceived(message.fields)
        /\ UNCHANGED <<now, sent, rules, hitl, callbacks, called>>

\* PingNode.handle_beacon, called with a beacon that came another way.
HandIn(id) ==
    /\ Len(answers) < MaxAnswers
    /\ HandleBeacon(id, beacons[id], 0)
    /\ UNCHANGED <<now, sent, beacons, rules, hitl, callbacks, tasks, called>>

SetRules(list) ==
    /\ rules' = list
    /\ UNCHANGED <<now, sent, beacons, hitl, memory, answers, callbacks, tasks,
                   called>>

\* on_hitl_needed is set, or taken away.
SetOnHitlNeeded(set) ==
    /\ hitl' = set
    /\ UNCHANGED <<now, sent, beacons, rules, memory, answers, callbacks, tasks,
                   called>>

OnDiscovered ==
    /\ callbacks < Callbacks
    /\ callbacks' = callbacks + 1
    /\ UNCHANGED <<now, sent, beacons, rules, hitl, memory, answers, tasks,
                   called>>

\* The event loop runs a task.
RunTask(t) ==
    /\ t \in tasks
    /\ tasks' = tasks \ {t}
    /\ called' = called \cup {t}
    /\ UNCHANGED <<now, sent, beacons, rules, hitl, memory, answers, callbacks>>

Tick ==
    /\ now < MaxNow
    /\ now' = now + 1
    /\ UNCHANGED <<sent, beacons, rules, hitl, memory, answers, callbacks, tasks,
                   called>>

Next ==
    \/ \E d \in Devices, capabilities \in SUBSET Capabilities,
          type \in DeviceTypes, offset \in Offsets :
              BroadcastBeacon(d, capabilities, type, offset)
    \/ \E d \in Devices \cup {Hub}, capabilities \in SUBSET Capabilities :
              BroadcastDiscover(d, capabilities)
    \/ \E f \in Foreign : OthersSend(f)
    \/ \E f \in sent : \E frame \in Carried(f.frame) : DatagramReceived(frame)
    \/ \E id \in DOMAIN beacons : HandIn(id)
    \/ \E list \in RuleLists : SetRules(list)
    \/ \E set \in BOOLEAN : SetOnHitlNeeded(set)
    \/ OnDiscovered
    \/ \E t \in tasks : RunTask(t)
    \/ Tick

Spec == Init /\ [][Next]_vars

\* asyncio runs the tasks that were started.
FairSpec == Spec /\ \A c \in 1 .. Callbacks, n \in 1 .. MaxAnswers :
                        WF_vars(RunTask(<<c, n>>))

-----------------------------------------------------------------------------
(* Properties.                                                             *)

Beacon == [source_did : Devices,
           capabilities : (SUBSET Capabilities) \cup {NotASet},
           device_type : DeviceTypes, timestamp : Int, heard : BOOLEAN]

OfferedRules == UNION {{list[i] : i \in DOMAIN list} : list \in RuleLists}

Response == [beacon : 1 .. MaxBeacons,
             decision : {"rejected", "auto_vouched", "hitl_pending"},
             rule : {<<>>} \cup {<<r>> : r \in OfferedRules},
             asked : BOOLEAN,
             callbacks : 0 .. Callbacks]

\* The types of the variables; what is remembered, asked about, answered or
\* called has been created, answered and registered before.
TypeOK ==
    /\ now \in 0 .. MaxNow
    /\ \A f \in sent : IsMessage(f)
    /\ beacons \in Seq(Beacon) /\ Len(beacons) =< MaxBeacons
    /\ rules \in RuleLists \cup {<<>>}
    /\ hitl \in BOOLEAN
    /\ recent \subseteq DOMAIN beacons
    /\ escalated \cup failed \subseteq recent
    /\ answers \in Seq(Response) /\ Len(answers) =< MaxAnswers
    /\ \A i \in DOMAIN answers : answers[i].beacon \in DOMAIN beacons
    /\ callbacks \in 0 .. Callbacks
    /\ tasks \cup called \subseteq (1 .. callbacks) \X DOMAIN answers

\* Whatever a frame goes through on its way, each receiver either drops it or
\* has of it what its sender put in: a cut, a changed length or version, a
\* flag turned over or a codec the receiver lacks never makes a response of a
\* packet or another packet of it.
ReadAsSent ==
    \A f \in sent, c \in Codecs : \A frame \in Carried(f.frame) :
        LET message == Decode(c, frame)
        IN  message # Error =>
                /\ message.class = f.class
                /\ \A k \in DOMAIN f.dict \ {"payload"} :
                       message.fields[k] = f.dict[k]
                /\ message.fields.payload.data = PayloadOf(f.dict).data

\* The ids answered by a decision.
AnsweredBy(decision) ==
    {answers[i].beacon : i \in {j \in DOMAIN answers :
                                    answers[j].decision = decision}}

\* The ids answered "hitl_pending" with, or without, on_hitl_needed set.
Pending(asked) ==
    {answers[i].beacon : i \in {j \in DOMAIN answers :
                                    /\ answers[j].decision = "hitl_pending"
                                    /\ answers[j].asked = asked}}

\* A hub remembers a beacon exactly if it vouched for it, put it to the human,
\* answered "hitl_pending" for want of anyone to ask (what the hub of a PingNode
\* does until on_hitl_needed is set, node.py:66), or raised on its capabilities.
\* With on_hitl_needed set no beacon is answered "hitl_pending" that was not put
\* to the human; a callback that raises loses the answer and not the question.
VouchedOrEscalated ==
    /\ recent = AnsweredBy("auto_vouched") \cup escalated \cup Pending(FALSE) \cup failed
    /\ Pending(TRUE) \subseteq escalated

\* A beacon once rejected as too old is rejected ever after, however often it
\* is handed in and whatever rules are set meanwhile.
RejectedForGood ==
    \A i, j \in DOMAIN answers :
        /\ i < j
        /\ answers[i].beacon = answers[j].beacon
        /\ answers[i].decision = "rejected"
        => answers[j].decision = "rejected"

\* A datagram on the network says its source has these capabilities.
Says(source, capabilities) ==
    \E f \in sent :
        /\ f.class = "packet"
        /\ f.dict.source_did = source
        /\ Get(PayloadOf(f.dict).data, "capabilities", {}) = capabilities

\* A beacon is vouched for only under a rule that admits its source and
\* requires no capability it does not have; and what a beacon made of a packet
\* has is what a datagram of its source says, not of another and not put
\* together of several.  The device type is not part of it: a DISCOVER packet
\* has none, and every device is heard as generic.
VouchedAsAnnounced ==
    \A i \in DOMAIN answers :
        answers[i].decision = "auto_vouched" =>
            LET b == beacons[answers[i].beacon]
                r == answers[i].rule[1]
            IN  /\ b.source_did \in r.sources
                /\ r.required # {} =>
                       b.capabilities # NotASet /\ r.required \subseteq b.capabilities
                /\ b.heard => Says(b.source_did, b.capabilities)

\* Each callback registered when a device was heard is told in the end,
\* whatever the hub hears meanwhile.
CallbacksCalled ==
    \A c \in 1 .. Callbacks, n \in 1 .. MaxAnswers :
        (n \in DOMAIN answers /\ c =< answers[n].callbacks)
            ~> (<<c, n>> \in called)

=============================================================================
