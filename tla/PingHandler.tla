----------------------------- MODULE PingHandler -----------------------------
(***************************************************************************)
(* PingHandler of handler.py, with the airlock, the vouch registry and the *)
(* table of known devices it decides by: handle runs the replay check,     *)
(* looks up the sender's trust, processes the packet in the airlock and    *)
(* gates it a second time for the zone of the response.                    *)
(*                                                                         *)
(* handle is one synchronous call; nothing comes between its steps but the *)
(* on_hitl_needed callback, which runs inside process once the packet is   *)
(* in the queue.  The callback may call the node again, handle included,   *)
(* and so callbacks may run inside of callbacks: handling is the stack of  *)
(* the packets whose callback is running.                                  *)
(*                                                                         *)
(* The replay check is made at one time, with the clock of the registry;   *)
(* module NonceTracker has its threads and its two clocks.  Trust is       *)
(* counted in tenths.                                                      *)
(***************************************************************************)
EXTENDS Airlock, VouchRegistry, ReplayTable

CONSTANTS
    Packets,        \* records [id, nonce, source, kind, stamp]
    Settings,       \* pairs <<did, trust>> set_device_trust is called with
    HasCallback,    \* is on_hitl_needed set?
    CallbackMay,    \* what callbacks call: "handle", "decide", "configure"
    MaxResponses,   \* bound on the number of packets let through
    MaxTrust        \* the largest trust there is, 1.0 or what vouches give

ASSUME HandlerAssumption ==
    /\ Packets \subseteq [id : PacketIds, nonce : PacketIds, source : Dids,
                          kind : Kinds, stamp : Int \cup {Unparseable}]
    /\ Settings \subseteq Dids \X Int
    /\ MaxTrust \in Nat /\ MaxTrust >= 10
    /\ Trusts = 0 .. MaxTrust
    /\ \A v \in Vouches : v.trust \in Trusts
    /\ HasCallback \in BOOLEAN
    /\ CallbackMay \subseteq {"handle", "decide", "configure"}
    /\ MaxResponses \in Nat

VARIABLES
    known,          \* _known_devices: did -> trust
    handling,       \* the calls whose HITL callback runs
    responses,      \* history: the responses to packets that are no replays
    resolved        \* history: the packets a human has decided on, with since

\* A call in handling: the packet, the trust it was processed with and, as a
\* history, the time of the replay check and the number of rules there were.
\* A response keeps these two as well.
vars == <<airlockVars, registryVars, tableVars, known, handling, responses, resolved>>

Init ==
    /\ AirlockInit
    /\ RegistryInit
    /\ TableInit
    /\ known = [d \in {} |-> 0]
    /\ handling = <<>>
    /\ responses = <<>>
    /\ resolved = [i \in {} |-> 0]

-----------------------------------------------------------------------------
(* handle.                                                                 *)

\* The program calls the node when no callback runs, a callback only what it may.
MayCall(what) == handling = <<>> \/ what \in CallbackMay

\* Mutant: a vouch counts before what is known of the device.
SenderTrustVouchFirst(did) ==
    LET vouched == GetTrustForDevice(did) IN
    IF vouched # NoTrust THEN vouched
    ELSE IF did \in DOMAIN known THEN known[did] ELSE 0

\* _get_sender_trust: known devices first, then vouches, else nothing.
SenderTrust(did) ==
    LET vouched == GetTrustForDevice(did) IN
    IF did \in DOMAIN known THEN known[did]
    ELSE IF vouched # NoTrust THEN vouched ELSE 0

Answers(p, decision, zone, trust, at, nr) ==
    responses' = Append(responses,
        [packet |-> p, decision |-> decision, zone |-> zone, trust |-> trust,
         at |-> at, rules |-> nr])

\* A replay is rejected at once, and nothing else is done for it.
HandleReplay(p) ==
    /\ MayCall("handle")
    /\ Refuses(p.nonce, p.stamp, now)
    /\ UNCHANGED <<airlockVars, registryVars, known, handling, responses, resolved>>

\* handle finds that p is no replay, as often as the bound allows.
LetThrough(p) ==
    /\ MayCall("handle")
    /\ Len(responses) < MaxResponses
    /\ Passes(p.nonce, p.stamp, now)

\* No callback runs: process and gate find the same rules.
Handle(p) ==
    LET trust == SenderTrust(p.source)
        zone == Gate(p.kind, trust)
    IN
    /\ LetThrough(p)
    /\ ~ (HasCallback /\ zone = "GEEL")
    /\ Records(p.nonce, now)
    /\ Process(p.id, p.kind, trust, now)
    /\ Answers(p, DecisionOf(zone), zone, trust, now, Len(rules))
    /\ UNCHANGED <<registryVars, known, handling, resolved>>

\* Mutant: the nonce is to be recorded once the packet has been handled.
HandleWithCallbackUnrecorded(p) ==
    LET trust == SenderTrust(p.source) IN
    /\ LetThrough(p)
    /\ HasCallback /\ Gate(p.kind, trust) = "GEEL"
    /\ CleansUp(now)
    /\ Process(p.id, p.kind, trust, now)
    /\ handling' = Append(handling, [packet |-> p, trust |-> trust,
                                     at |-> now, rules |-> Len(rules)])
    /\ UNCHANGED <<registryVars, known, responses, resolved>>

\* The packet goes to the queue and on_hitl_needed is called.
HandleWithCallback(p) ==
    LET trust == SenderTrust(p.source) IN
    /\ LetThrough(p)
    /\ HasCallback /\ Gate(p.kind, trust) = "GEEL"
    /\ Records(p.nonce, now)
    /\ Process(p.id, p.kind, trust, now)
    /\ handling' = Append(handling, [packet |-> p, trust |-> trust,
                                     at |-> now, rules |-> Len(rules)])
    /\ UNCHANGED <<registryVars, known, responses, resolved>>

\* The call whose callback was entered last, and its end.
Current == handling[Len(handling)]

Leave ==
    /\ handling # <<>>
    /\ handling' = SubSeq(handling, 1, Len(handling) - 1)

\* Mutant of CallbackReturns: the response reads the trust again.
CallbackReturnsFreshTrust ==
    LET p == Current.packet
        trust == SenderTrust(p.source) IN
    /\ Leave
    /\ Answers(p, "pending", Gate(p.kind, trust), trust, Current.at,
               Current.rules)
    /\ UNCHANGED <<airlockVars, registryVars, tableVars, known, resolved>>

\* The callback is back: handle gates the packet again, for the zone, by the
\* rules there are now.
CallbackReturns ==
    /\ Leave
    /\ Answers(Current.packet, "pending",
               Gate(Current.packet.kind, Current.trust), Current.trust,
               Current.at, Current.rules)
    /\ UNCHANGED <<airlockVars, registryVars, tableVars, known, resolved>>

\* An exception of the callback leaves handle: there is no response, and the
\* packet stays in the queue.  An outer callback may catch it or raise it.
CallbackRaises ==
    /\ Leave
    /\ UNCHANGED <<airlockVars, registryVars, tableVars, known, responses, resolved>>

-----------------------------------------------------------------------------
(* The calls of the program around the handler, between two calls of       *)
(* handle or out of the callback.                                          *)

\* Mutant of Clamped: only the upper end is clamped.
ClampedAbove(trust) == IF trust > 10 THEN 10 ELSE trust

Clamped(trust) == IF trust < 0 THEN 0 ELSE IF trust > 10 THEN 10 ELSE trust

SetDeviceTrust(did, trust) ==
    /\ MayCall("configure")
    /\ known' = [d \in DOMAIN known \cup {did} |->
                    IF d = did THEN Clamped(trust) ELSE known[d]]
    /\ UNCHANGED <<airlockVars, registryVars, tableVars, handling, responses, resolved>>

InstallRule(r) ==
    /\ MayCall("configure")
    /\ AddRule(r)
    /\ UNCHANGED <<registryVars, tableVars, known, handling, responses, resolved>>

ChangeVouches ==
    /\ MayCall("configure")
    /\ \/ \E v \in Vouches : AddVouch(v)
       \/ \E i \in Ids : RevokeVouch(i)
    /\ UNCHANGED <<airlockVars, tableVars, known, handling, responses, resolved>>

\* Time passes, while the callback runs too.
Tick ==
    /\ TimePasses
    /\ UNCHANGED <<airlockVars, tableVars, known, handling, responses, resolved>>

\* approve_pending and reject_pending.
Decide(id) ==
    /\ MayCall("decide")
    /\ Resolve(id)
    /\ resolved' = [i \in DOMAIN resolved \cup {id} |->
                        IF i = id THEN pending[id].since ELSE resolved[i]]
    /\ UNCHANGED <<registryVars, tableVars, known, handling, responses>>

Next ==
    \/ \E p \in Packets :
        \/ HandleReplay(p)
        \/ Handle(p)
        \/ HandleWithCallback(p)
    \/ CallbackReturns
    \/ CallbackRaises
    \/ \E s \in Settings : SetDeviceTrust(s[1], s[2])
    \/ \E r \in Rules : InstallRule(r)
    \/ ChangeVouches
    \/ Tick
    \/ \E id \in PacketIds : Decide(id)

Spec == Init /\ [][Next]_vars

-----------------------------------------------------------------------------
(* Properties.                                                             *)

TypeOK ==
    /\ AirlockTypeOK
    /\ RegistryTypeOK
    /\ DOMAIN known \subseteq Dids
    /\ \A d \in DOMAIN known : known[d] \in 0 .. 10
    /\ DOMAIN seen \subseteq PacketIds
    /\ \A n \in DOMAIN seen : seen[n] \in Int /\ seen[n] <= now
    /\ lastCleanup \in Int /\ lastCleanup <= now
    /\ handling \in Seq([packet : Packets, trust : Trusts, at : Int, rules : Nat])
    /\ responses \in Seq([packet : Packets,
                          decision : {"accept", "pending", "reject"},
                          zone : Zones, trust : Trusts, at : Int, rules : Nat])
    /\ DOMAIN resolved \subseteq PacketIds
    /\ \A i \in DOMAIN resolved : resolved[i] \in Int

\* ACCEPT is GROEN, PENDING is GEEL and REJECT is ROOD (proto.py:38-42), in
\* every response, unless the callback of that very call, or something it
\* called, added a rule that covers the packet and gives the other zone: handle
\* takes decision and zone from separate calls of the airlock, one before the
\* callback and one after it (handler.py:83-84).
ZoneMatchesDecision ==
    \A i \in DOMAIN responses : LET r == responses[i] IN
        \/ r.decision = DecisionOf(r.zone)
        \/ \E e \in added : /\ e.nr >= r.rules
                            /\ Matches(e.rule, r.packet.kind, r.trust)
                            /\ e.rule.zone = r.zone

\* A packet is decided twice only if it was stamped ahead of the clock when it
\* was first let through, and only more than a window later: whatever is sent
\* again, by a callback too, whenever it comes and whatever becomes of the
\* callback, any other packet that comes again is rejected as a replay
\* (handler.py:72-77 with nonce.py:61-86).
DecidedOnce ==
    \A i, j \in DOMAIN responses :
        /\ i # j
        /\ responses[i].packet = responses[j].packet
        /\ responses[i].at <= responses[j].at
        => /\ responses[j].at - responses[i].at > Window
           /\ responses[i].packet.stamp > responses[i].at

\* What a human has decided comes back to the queue only in the same case: a
\* packet that is sent again after approve_pending or reject_pending is a replay
\* unless it was stamped ahead when it was let through, more than a window ago
\* (airlock.py:153, 160-166 with handler.py:73 and nonce.py:61-86).
DecidedByHumanOnce ==
    \A id \in DOMAIN pending \cap DOMAIN resolved :
        /\ pending[id].since - resolved[id] > Window
        /\ \A p \in Packets : p.id = id => p.stamp > resolved[id]

\* The trust of a device, told without the index of the registry.
TrustTold(d) ==
    LET best == BestOf({vouches[i].trust : i \in Covering(d)}) IN
    IF d \in DOMAIN known THEN known[d]
    ELSE IF best # NoTrust THEN best ELSE 0

\* Whether packet p is to be let through in the present state.
Deserved(p) ==
    LET t == TrustTold(p.source) IN
    IF \E e \in added : Matches(e.rule, p.kind, t)
    THEN \E e \in Winners(p.kind, t) : e.rule.zone = "GROEN"
    ELSE t >= Groen

\* A step that accepts packet p.
Accepts(p) ==
    /\ Len(responses') > Len(responses)
    /\ responses'[Len(responses')].packet = p
    /\ responses'[Len(responses')].decision = "accept"

\* A packet is accepted only if, at that moment, the rules or the sender's
\* trust say so: a revoked or expired vouch, or a lowered trust, counts at
\* once (handler.py:79-84, 129-145).
AcceptDeserved == [][\A p \in Packets : Accepts(p) => Deserved(p)]_vars

=============================================================================
