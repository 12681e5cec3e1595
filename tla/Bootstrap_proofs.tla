--------------------------- MODULE Bootstrap_proofs ---------------------------
(***************************************************************************)
(* Proofs about Bootstrap and the codec, for all devices, rules, messages  *)
(* and bounds: no receiver misreads a frame, a rejected beacon stays       *)
(* rejected, the hub remembers exactly what it vouched for, put to the     *)
(* human, left pending for want of one or raised on, and it vouches only   *)
(* under a rule that matches what a datagram said.                         *)
(***************************************************************************)
EXTENDS Bootstrap, WellFoundedInduction, TLAPS

-----------------------------------------------------------------------------
(* The codec.                                                              *)

\* What from_dict makes of a dict has its keys as they are.
LEMMA FromDictKeeps ==
    ASSUME NEW class \in Classes, NEW dict,
           DOMAIN dict \subseteq RequiredKeys(class) \cup DOMAIN Optional(class),
           FromDict(class, dict) # Error
    PROVE  /\ FromDict(class, dict).class = class
           /\ \A k \in DOMAIN dict : FromDict(class, dict).fields[k] = dict[k]
           /\ FromDict(class, dict).fields.payload = PayloadOf(dict)
  <1>1. "payload" \in DOMAIN Optional(class) /\ Optional(class).payload = NoData
    BY DEF Optional
  <1> QED
    BY <1>1 DEF FromDict, Get, PayloadOf

\* The keys a packet must have are not keys of a response, nor the other way.
LEMMA KeysApart ==
    ASSUME NEW class \in Classes, NEW other \in Classes, NEW dict,
           DOMAIN dict \subseteq RequiredKeys(class) \cup DOMAIN Optional(class),
           RequiredKeys(other) \subseteq DOMAIN dict
    PROVE  other = class
  BY DEF Classes, RequiredKeys, Optional

\* What is written of a dict has its keys, with what they had but for the keys
\* of the payload.
LEMMA WrittenKeeps ==
    ASSUME NEW dict, NEW form, IsPayload(PayloadOf(dict))
    PROVE  /\ DOMAIN Written(form, dict) = DOMAIN dict
           /\ \A k \in DOMAIN dict \ {"payload"} : Written(form, dict)[k] = dict[k]
           /\ PayloadOf(Written(form, dict)).data = PayloadOf(dict).data
  <1>1. CASE form = "json" /\ "payload" \in DOMAIN dict
    <2>1. PayloadOf(dict) = dict["payload"]
      BY <1>1 DEF PayloadOf, Get
    <2>2. DOMAIN dict["payload"] = {"keys", "data", "size"}
      BY <2>1 DEF IsPayload
    <2>3. Written(form, dict) =
             [dict EXCEPT !["payload"] = [dict["payload"] EXCEPT !.keys = "str"]]
      BY <1>1 DEF Written
    <2>4. Written(form, dict)["payload"] = [dict["payload"] EXCEPT !.keys = "str"]
      BY <1>1, <2>3
    <2>5. Written(form, dict)["payload"].data = dict["payload"].data
      BY <2>2, <2>4
    <2>6. DOMAIN Written(form, dict) = DOMAIN dict
      BY <2>3
    <2>7. \A k \in DOMAIN dict \ {"payload"} : Written(form, dict)[k] = dict[k]
      BY <2>3
    <2>8. PayloadOf(Written(form, dict)) = Written(form, dict)["payload"]
      BY <1>1, <2>6 DEF PayloadOf, Get
    <2> QED
      BY <2>1, <2>5, <2>6, <2>7, <2>8
  <1>2. CASE ~ (form = "json" /\ "payload" \in DOMAIN dict)
    BY <1>2 DEF Written
  <1> QED
    BY <1>1, <1>2

\* What a frame is made of.
LEMMA EncodedFrame ==
    ASSUME NEW c \in Codecs, NEW class \in Classes, NEW dict,
           Encode(c, class, dict) # Error
    PROVE  LET f == Encode(c, class, dict)
           IN  /\ f.length = f.body.size
               /\ f.body.size = 1 + PayloadOf(dict).size[f.body.form]
               /\ f.body.form = FormOf(f.flags)
               /\ f.body.dict = Written(f.body.form, dict)
               /\ f = [magic |-> "TP", version |-> 1, flags |-> f.flags,
                       length |-> f.length, came |-> f.length, body |-> f.body]
  <1> DEFINE flags == (IF class = "response" THEN {"IS_RESPONSE"} ELSE {})
                         \cup (IF c.use_msgpack THEN {"MSGPACK"} ELSE {})
             body  == Serialize(dict, flags)
  <1>1. Encode(c, class, dict) =
            [magic |-> "TP", version |-> 1, flags |-> flags,
             length |-> body.size, came |-> body.size, body |-> body]
        /\ body # Error
    BY DEF Encode
  <1>2. body = [form |-> FormOf(flags), dict |-> Written(FormOf(flags), dict),
                size |-> 1 + PayloadOf(dict).size[FormOf(flags)]]
    BY <1>1 DEF Serialize
  <1> HIDE DEF flags, body
  <1> QED
    BY <1>1, <1>2

(***************************************************************************)
(* A frame that a receiver does not drop has the class and the dict it was *)
(* made of, whatever codec wrote it, whatever codec reads it and whatever  *)
(* happened to its header.                                                 *)
(***************************************************************************)
LEMMA DecodeReads ==
    ASSUME NEW f, IsMessage(f), NEW g \in Carried(f.frame), NEW r \in Codecs,
           Decode(r, g) # Error
    PROVE  /\ Decode(r, g).class = f.class
           /\ \A k \in DOMAIN f.dict \ {"payload"} :
                  Decode(r, g).fields[k] = f.dict[k]
           /\ Decode(r, g).fields.payload.data = PayloadOf(f.dict).data
  <1>1. PICK c \in Codecs : f.frame = Encode(c, f.class, f.dict)
    BY DEF IsMessage
  <1>2. /\ f.frame.body.dict = Written(f.frame.body.form, f.dict)
        /\ DOMAIN f.frame = {"magic", "version", "flags", "length", "came", "body"}
    BY <1>1, EncodedFrame DEF IsMessage
  <1>3. g.body = f.frame.body
    BY <1>2 DEF Carried
  <1> DEFINE class == IF "IS_RESPONSE" \in g.flags THEN "response" ELSE "packet"
             dict  == Written(f.frame.body.form, f.dict)
  <1>4. Deserialize(r, g) # Error => Deserialize(r, g) = dict
    BY <1>2, <1>3 DEF Deserialize
  <1>5. Decode(r, g) = FromDict(class, dict)
    BY <1>4 DEF Decode
  <1>6. /\ DOMAIN dict = DOMAIN f.dict
        /\ \A k \in DOMAIN f.dict \ {"payload"} : dict[k] = f.dict[k]
        /\ PayloadOf(dict).data = PayloadOf(f.dict).data
    BY WrittenKeeps DEF IsMessage
  <1>7. class \in Classes
    BY DEF Classes
  <1> HIDE DEF class, dict
  <1>8. RequiredKeys(class) \subseteq DOMAIN dict
    BY <1>5 DEF FromDict
  <1>9. class = f.class
    BY <1>6, <1>7, <1>8, KeysApart DEF IsMessage
  <1>10. DOMAIN dict \subseteq RequiredKeys(class) \cup DOMAIN Optional(class)
    BY <1>6, <1>9 DEF IsMessage
  <1>11. /\ FromDict(class, dict).class = class
         /\ \A k \in DOMAIN dict : FromDict(class, dict).fields[k] = dict[k]
         /\ FromDict(class, dict).fields.payload = PayloadOf(dict)
    BY <1>5, <1>7, <1>10, FromDictKeeps
  <1> QED
    BY <1>5, <1>6, <1>9, <1>11

-----------------------------------------------------------------------------
(* Types.                                                                  *)

USE BootstrapAssumption

\* A set of numbers that is not empty has a least one.
LEMMA LeastIsOne ==
    ASSUME NEW S \in SUBSET Nat, S # {}
    PROVE  Min(S) \in S
  <1>1. PICK i \in S : \A j \in S : ~ (<<j, i>> \in OpToRel(<, Nat))
    BY NatLessThanWellFounded, WFMin
  <1>2. \A j \in S : ~ (j < i)
    BY <1>1 DEF OpToRel
  <1>3. \A j \in S : i =< j
    BY <1>2
  <1> QED
    BY <1>3 DEF Min

\* The rules in force are offered ones, and so is the one the loop ends at.
LEMMA EndsAtOffered ==
    ASSUME TypeOK, NEW b, Ending(b) # {}
    PROVE  rules[Min(Ending(b))] \in OfferedRules
  <1>1. rules \in RuleLists /\ rules \in Seq(OfferedRules)
    <2>1. rules # <<>>
      BY DEF Ending
    <2> QED
      BY <2>1 DEF TypeOK, OfferedRules
  <1>2. Ending(b) \in SUBSET Nat
    BY <1>1 DEF Ending
  <1>3. Min(Ending(b)) \in DOMAIN rules
    BY <1>2, LeastIsOne DEF Ending
  <1> QED
    BY <1>1, <1>3

\* What the hub makes of a packet that is not its own is a beacon, of what a
\* datagram says.
LEMMA HeardIsBeacon ==
    ASSUME TypeOK, NEW f \in sent, NEW g \in Carried(f.frame),
           Decode(HubCodec, g) # Error,
           Decode(HubCodec, g).class = "packet",
           Decode(HubCodec, g).fields.source_did # Hub
    PROVE  LET b == HeardBeacon(Decode(HubCodec, g).fields)
           IN  /\ b \in Beacon
               /\ Says(b.source_did, b.capabilities)
  <1> DEFINE packet == Decode(HubCodec, g).fields
  <1>1. IsMessage(f)
    BY DEF TypeOK
  <1>2. f.class = "packet" /\ packet.payload.data = PayloadOf(f.dict).data
    BY <1>1, DecodeReads
  <1>3. packet.source_did \in Devices /\ packet.source_did = f.dict.source_did
    BY <1>1, <1>2, DecodeReads DEF IsMessage, RequiredKeys
  <1>4. packet.source_did = Decode(HubCodec, g).fields.source_did
    OBVIOUS
  <1> HIDE DEF packet
  <1> DEFINE b == HeardBeacon(packet)
  <1>5. /\ b.source_did = f.dict.source_did
        /\ b.capabilities = Get(PayloadOf(f.dict).data, "capabilities", {})
    BY <1>2, <1>3 DEF HeardBeacon
  <1>6. b \in Beacon
    BY <1>1, <1>2, <1>3 DEF HeardBeacon, Beacon, IsMessage, TypeOK
  <1>7. Says(b.source_did, b.capabilities)
    <2> HIDE DEF b
    <2> QED
      BY <1>2, <1>5 DEF Says
  <1> QED
    BY <1>6, <1>7 DEF packet

\* What an answer does to the types.
LEMMA HandleBeaconType ==
    ASSUME TypeOK, NEW id, NEW b, NEW n \in 0 .. callbacks,
           beacons' \in Seq(Beacon), Len(beacons') =< MaxBeacons,
           Len(beacons) =< Len(beacons'), id \in DOMAIN beacons',
           Len(answers) < MaxAnswers,
           HandleBeacon(id, b, n)
    PROVE  /\ recent' \subseteq DOMAIN beacons'
           /\ escalated' \cup failed' \subseteq recent'
           /\ answers' \in Seq(Response) /\ Len(answers') =< MaxAnswers
           /\ Len(answers) =< Len(answers')
           /\ answers' # answers => Len(answers') = Len(answers) + 1
           /\ \A i \in DOMAIN answers' : answers'[i].beacon \in DOMAIN beacons'
  <1>1. /\ answers \in Seq(Response) /\ callbacks \in 0 .. Callbacks
        /\ DOMAIN beacons \subseteq DOMAIN beacons'
        /\ id \in 1 .. MaxBeacons
        /\ n \in 0 .. Callbacks
        /\ hitl \in BOOLEAN
    BY DEF TypeOK
  <1>2. recent' \subseteq DOMAIN beacons' /\ escalated' \cup failed' \subseteq recent'
    <2>1. /\ recent' \in {recent, recent \cup {id}}
          /\ escalated' \subseteq escalated \cup (recent' \cap {id})
          /\ failed' \subseteq failed \cup (recent' \cap {id})
      BY DEF HandleBeacon, Reject, ApplyRule, AutoVouch, Fail, Escalate, memory
    <2> QED
      BY <1>1, <2>1 DEF TypeOK
  <1>3. \/ UNCHANGED answers
        \/ \E r \in Response : r.beacon = id /\ answers' = Append(answers, r)
    <2>1. ASSUME NEW decision \in {"rejected", "hitl_pending"},
                 NEW asked \in BOOLEAN,
                 Respond(id, decision, <<>>, asked, n)
          PROVE  \E r \in Response : r.beacon = id /\ answers' = Append(answers, r)
      <3> DEFINE answer == [beacon |-> id, decision |-> decision, rule |-> <<>>,
                            asked |-> asked, callbacks |-> n]
      <3>1. answers' = Append(answers, answer)
        BY <2>1 DEF Respond
      <3>2. answer \in Response /\ answer.beacon = id
        BY <1>1 DEF Response
      <3> HIDE DEF answer
      <3> QED
        BY <3>1, <3>2
    <2>2. CASE Reject(id, n)
      BY <2>1, <2>2 DEF Reject
    <2>3. CASE Escalate(id, n)
      BY <1>1, <2>1, <2>3 DEF Escalate
    <2>4. CASE Fail(id)
      BY <2>4 DEF Fail
    <2>5. CASE Ending(b) # {} /\ AutoVouch(id, rules[Min(Ending(b))], n)
      <3> DEFINE r == rules[Min(Ending(b))]
      <3>1. r \in OfferedRules
        BY <2>5, EndsAtOffered
      <3>2. answers' = Append(answers, [beacon |-> id, decision |-> "auto_vouched",
                                       rule |-> <<r>>, asked |-> FALSE,
                                       callbacks |-> n])
        BY <2>5 DEF AutoVouch, Respond
      <3> HIDE DEF r
      <3> DEFINE answer == [beacon |-> id, decision |-> "auto_vouched",
                            rule |-> <<r>>, asked |-> FALSE, callbacks |-> n]
      <3>3. answer \in Response /\ answer.beacon = id
        BY <1>1, <3>1 DEF Response
      <3> HIDE DEF answer
      <3> QED
        BY <3>2, <3>3 DEF answer
    <2> QED
      BY <2>2, <2>3, <2>4, <2>5 DEF HandleBeacon, ApplyRule
  <1>4. MaxAnswers \in Nat /\ Len(answers) \in Nat
    BY <1>1
  <1>5. CASE UNCHANGED answers
    BY <1>1, <1>2, <1>4, <1>5 DEF TypeOK
  <1>6. ASSUME NEW r \in Response, r.beacon = id, answers' = Append(answers, r)
        PROVE  /\ answers' \in Seq(Response)
               /\ Len(answers') = Len(answers) + 1
               /\ \A i \in DOMAIN answers' : answers'[i].beacon \in DOMAIN beacons'
    <2>1. \A i \in DOMAIN answers : answers[i].beacon \in DOMAIN beacons'
      BY <1>1 DEF TypeOK
    <2> QED
      BY <1>1, <1>6, <2>1
  <1> QED
    BY <1>2, <1>3, <1>4, <1>5, <1>6

\* The types hold at the start.
LEMMA TypeInit == Init => TypeOK
  <1> SUFFICES ASSUME Init
               PROVE  TypeOK
    OBVIOUS
  <1>1. /\ beacons \in Seq(Beacon) /\ Len(beacons) = 0
        /\ answers \in Seq(Response) /\ Len(answers) = 0
        /\ DOMAIN answers = {}
    BY DEF Init
  <1>2. /\ now \in 0 .. MaxNow /\ callbacks \in 0 .. Callbacks
        /\ Len(beacons) =< MaxBeacons /\ Len(answers) =< MaxAnswers
    BY <1>1 DEF Init
  <1>3. /\ sent = {} /\ recent = {} /\ escalated = {} /\ failed = {}
        /\ tasks = {} /\ called = {} /\ rules = <<>> /\ hitl = FALSE
    BY DEF Init
  <1> QED
    BY <1>1, <1>2, <1>3 DEF TypeOK

\* Every step keeps the types.
LEMMA TypeStep ==
    ASSUME TypeOK, [Next]_vars
    PROVE  TypeOK'
  <1>0. /\ beacons \in Seq(Beacon) /\ answers \in Seq(Response)
        /\ now \in 0 .. MaxNow /\ now \in Nat
        /\ callbacks \in 0 .. Callbacks
    BY DEF TypeOK
  <1>1. ASSUME NEW d \in Devices, NEW capabilities \in SUBSET Capabilities,
               NEW type \in DeviceTypes, NEW offset \in Offsets,
               BroadcastBeacon(d, capabilities, type, offset)
        PROVE  TypeOK'
    <2>1. [source_did |-> d, capabilities |-> capabilities,
           device_type |-> type, timestamp |-> now + offset,
           heard |-> FALSE] \in Beacon
      <3>1. now + offset \in Int
        BY <1>0, BootstrapAssumption
      <3>2. capabilities \in (SUBSET Capabilities) \cup {NotASet}
        OBVIOUS
      <3> QED
        BY <3>1, <3>2 DEF Beacon
    <2>2. /\ beacons' \in Seq(Beacon) /\ Len(beacons') = Len(beacons) + 1
          /\ Len(beacons') =< MaxBeacons
      BY <1>0, <1>1, <2>1 DEF BroadcastBeacon
    <2> QED
      BY <1>0, <1>1, <2>2 DEF BroadcastBeacon, TypeOK, memory
  <1>2. ASSUME NEW d \in Devices \cup {Hub},
               NEW capabilities \in SUBSET Capabilities,
               BroadcastDiscover(d, capabilities)
        PROVE  TypeOK'
    <2> DEFINE dict  == DiscoverDict(d, capabilities)
               codec == [use_msgpack |-> FALSE, installed |-> FALSE]
               m     == [class |-> "packet", dict |-> dict,
                         frame |-> Encode(codec, "packet", dict)]
    <2>1. codec \in Codecs
      BY DEF Codecs
    <2>2. /\ PayloadOf(dict) =
                 PlainPayload([requested_capabilities |-> capabilities])
          /\ IsPayload(PayloadOf(dict))
          /\ PayloadOf(dict).data = [requested_capabilities |-> capabilities]
      BY DEF DiscoverDict, PayloadOf, Get, IsPayload, PlainPayload
    <2>3. /\ Get(PayloadOf(dict).data, "capabilities", {}) = {}
          /\ Get(PayloadOf(dict).data, "device_type", "generic") = "generic"
      BY <2>2 DEF Get
    <2>4. /\ RequiredKeys("packet") \subseteq DOMAIN dict
          /\ DOMAIN dict \subseteq RequiredKeys("packet") \cup DOMAIN Optional("packet")
          /\ dict.source_did = d
      BY DEF DiscoverDict, RequiredKeys, Optional
    <2>5. sent' = sent \cup {m} /\ m.frame # Error
      BY <1>2 DEF BroadcastDiscover
    <2> HIDE DEF dict, codec
    <2>6. IsMessage(m)
      BY <2>1, <2>2, <2>3, <2>4, <2>5 DEF IsMessage, Classes
    <2> QED
      BY <1>2, <2>5, <2>6 DEF BroadcastDiscover, TypeOK, memory
  <1>3. ASSUME NEW f \in Foreign, OthersSend(f)
        PROVE  TypeOK'
    BY <1>3 DEF OthersSend, TypeOK, memory
  <1>4. ASSUME NEW f \in sent, NEW g \in Carried(f.frame), DatagramReceived(g)
        PROVE  TypeOK'
    <2> DEFINE b == HeardBeacon(Decode(HubCodec, g).fields)
    <2>1. /\ b \in Beacon
          /\ beacons' = Append(beacons, b) /\ Len(beacons) < MaxBeacons
          /\ HandleBeacon(Len(beacons) + 1, b, callbacks)
          /\ Len(answers) < MaxAnswers
      BY <1>4, HeardIsBeacon DEF DatagramReceived, OnBeaconReceived
    <2> HIDE DEF b
    <2>2. /\ beacons' \in Seq(Beacon) /\ Len(beacons') = Len(beacons) + 1
          /\ Len(beacons') =< MaxBeacons
          /\ Len(beacons) + 1 \in DOMAIN beacons'
      BY <1>0, <2>1
    <2>3. /\ recent' \subseteq DOMAIN beacons' /\ escalated' \cup failed' \subseteq recent'
          /\ answers' \in Seq(Response) /\ Len(answers') =< MaxAnswers
          /\ Len(answers) =< Len(answers')
          /\ answers' # answers => Len(answers') = Len(answers) + 1
          /\ \A i \in DOMAIN answers' : answers'[i].beacon \in DOMAIN beacons'
      BY <1>0, <2>1, <2>2, HandleBeaconType
    <2>4. tasks' \subseteq (1 .. callbacks) \X DOMAIN answers'
      BY <1>0, <1>4, <2>3 DEF DatagramReceived, OnBeaconReceived, TypeOK
    <2> QED
      BY <1>0, <1>4, <2>2, <2>3, <2>4 DEF DatagramReceived, TypeOK
  <1>5. ASSUME NEW id \in DOMAIN beacons, HandIn(id)
        PROVE  TypeOK'
    <2>1. /\ recent' \subseteq DOMAIN beacons' /\ escalated' \cup failed' \subseteq recent'
          /\ answers' \in Seq(Response) /\ Len(answers') =< MaxAnswers
          /\ Len(answers) =< Len(answers')
          /\ \A i \in DOMAIN answers' : answers'[i].beacon \in DOMAIN beacons'
      BY <1>0, <1>5, HandleBeaconType DEF HandIn, TypeOK
    <2> QED
      BY <1>0, <1>5, <2>1 DEF HandIn, TypeOK
  <1>6. ASSUME NEW list \in RuleLists, SetRules(list)
        PROVE  TypeOK'
    BY <1>6 DEF SetRules, TypeOK, memory
  <1>7. CASE OnDiscovered
    BY <1>0, <1>7 DEF OnDiscovered, TypeOK, memory
  <1>8. ASSUME NEW t \in tasks, RunTask(t)
        PROVE  TypeOK'
    BY <1>8 DEF RunTask, TypeOK, memory
  <1>9. CASE Tick
    BY <1>9 DEF Tick, TypeOK, memory
  <1>10. CASE UNCHANGED vars
    BY <1>10 DEF vars, memory, TypeOK
  <1>11. ASSUME NEW set \in BOOLEAN, SetOnHitlNeeded(set)
         PROVE  TypeOK'
    BY <1>11 DEF SetOnHitlNeeded, TypeOK, memory
  <1> QED
    BY <1>1, <1>2, <1>3, <1>4, <1>5, <1>6, <1>7, <1>8, <1>9, <1>10, <1>11 DEF Next

(***************************************************************************)
(* All variables keep their types: the hub hears nothing but beacons of    *)
(* other devices, and asks, answers and calls about beacons it has.        *)
(***************************************************************************)
THEOREM BootstrapTypeCorrect == Spec => []TypeOK
  BY TypeInit, TypeStep, PTL DEF Spec

(***************************************************************************)
(* Every receiver reads what was sent, or drops it.                        *)
(***************************************************************************)
THEOREM NeverMisread == Spec => []ReadAsSent
  <1>1. TypeOK => ReadAsSent
    <2> SUFFICES ASSUME TypeOK, NEW f \in sent, NEW c \in Codecs,
                        NEW g \in Carried(f.frame), Decode(c, g) # Error
                 PROVE  /\ Decode(c, g).class = f.class
                        /\ \A k \in DOMAIN f.dict \ {"payload"} :
                               Decode(c, g).fields[k] = f.dict[k]
                        /\ Decode(c, g).fields.payload.data = PayloadOf(f.dict).data
      BY DEF ReadAsSent
    <2> QED
      BY DecodeReads DEF TypeOK
  <1> QED
    BY <1>1, BootstrapTypeCorrect, PTL

-----------------------------------------------------------------------------
(* Rejections.                                                             *)

(***************************************************************************)
(* The inductive invariant: a beacon that was rejected is too old now.     *)
(***************************************************************************)
RejectedIsOld ==
    \A i \in DOMAIN answers :
        answers[i].decision = "rejected" =>
            now - beacons[answers[i].beacon].timestamp > MaxAge

RejectedInv == RejectedIsOld /\ RejectedForGood

\* Beacons stay what they are when others come, and the clock goes on: one
\* that is too old stays too old.
LEMMA OldStaysOld ==
    ASSUME TypeOK, RejectedIsOld, now' \in Nat, now =< now',
           \A id \in DOMAIN beacons : beacons'[id] = beacons[id]
    PROVE  \A i \in DOMAIN answers :
               answers[i].decision = "rejected" =>
                   now' - beacons'[answers[i].beacon].timestamp > MaxAge
  <1> SUFFICES ASSUME NEW i \in DOMAIN answers, answers[i].decision = "rejected"
               PROVE  now' - beacons'[answers[i].beacon].timestamp > MaxAge
    OBVIOUS
  <1>1. answers[i].beacon \in DOMAIN beacons
    BY DEF TypeOK
  <1>2. beacons[answers[i].beacon] \in Beacon
    BY <1>1 DEF TypeOK
  <1>3. beacons[answers[i].beacon].timestamp \in Int
    BY <1>2 DEF Beacon
  <1>4. now \in Nat /\ MaxAge \in Nat
    BY DEF TypeOK
  <1>5. now - beacons[answers[i].beacon].timestamp > MaxAge
    BY DEF RejectedIsOld
  <1>6. beacons'[answers[i].beacon] = beacons[answers[i].beacon]
    BY <1>1
  <1> QED
    BY <1>3, <1>4, <1>5, <1>6

\* One more answer, that rejects its beacon exactly if it is too old.
LEMMA OneMoreAnswer ==
    ASSUME TypeOK, RejectedInv, now' = now, NEW r,
           \A id \in DOMAIN beacons : beacons'[id] = beacons[id],
           answers' = Append(answers, r),
           r.decision = "rejected"
               <=> now - beacons'[r.beacon].timestamp > MaxAge
    PROVE  RejectedInv'
  <1> DEFINE n == Len(answers)
             Old(id) == now - beacons'[id].timestamp > MaxAge
  <1>1. /\ n \in Nat /\ DOMAIN answers = 1 .. n
        /\ DOMAIN answers' = 1 .. n + 1
        /\ \A i \in 1 .. n : answers'[i] = answers[i]
        /\ answers'[n + 1] = r
    BY DEF TypeOK
  <1>2. \A i \in 1 .. n : answers[i].decision = "rejected" => Old(answers[i].beacon)
    <2>1. now' \in Nat /\ now =< now'
      BY DEF TypeOK
    <2> QED
      BY <1>1, <2>1, OldStaysOld DEF RejectedInv
  <1>3. r.decision = "rejected" <=> Old(r.beacon)
    OBVIOUS
  <1>4. RejectedIsOld' <=> \A i \in DOMAIN answers' :
            answers'[i].decision = "rejected" => Old(answers'[i].beacon)
    BY DEF RejectedIsOld
  <1> HIDE DEF n, Old
  <1>5. RejectedIsOld'
    BY <1>1, <1>2, <1>3, <1>4
  <1>6. RejectedForGood'
    <2> SUFFICES ASSUME NEW i \in 1 .. n + 1, NEW j \in 1 .. n + 1, i < j,
                        answers'[i].beacon = answers'[j].beacon,
                        answers'[i].decision = "rejected"
                 PROVE  answers'[j].decision = "rejected"
      BY <1>1 DEF RejectedForGood
    <2>1. i \in 1 .. n
      BY <1>1
    <2>2. CASE j = n + 1
      BY <1>1, <1>2, <1>3, <2>1, <2>2
    <2>3. CASE j \in 1 .. n
      <3>1. /\ i \in DOMAIN answers /\ j \in DOMAIN answers
            /\ answers'[i] = answers[i] /\ answers'[j] = answers[j]
        BY <1>1, <2>1, <2>3
      <3> QED
        BY <3>1 DEF RejectedInv, RejectedForGood
    <2>4. j = n + 1 \/ j \in 1 .. n
      BY <1>1
    <2> QED
      BY <2>2, <2>3, <2>4
  <1> QED
    BY <1>5, <1>6 DEF RejectedInv

\* handle_beacon keeps it.
LEMMA HandleBeaconRejects ==
    ASSUME TypeOK, RejectedInv, now' = now, NEW id, NEW n, NEW b \in Beacon,
           \A i \in DOMAIN beacons : beacons'[i] = beacons[i],
           beacons'[id] = b,
           HandleBeacon(id, b, n)
    PROVE  RejectedInv'
  <1>1. now \in Nat /\ MaxAge \in Nat /\ b.timestamp \in Int
    BY DEF TypeOK, Beacon
  <1>2. IsFresh(b) <=> ~ (now - b.timestamp > MaxAge)
    BY <1>1 DEF IsFresh
  <1>3. CASE UNCHANGED answers
    <2>1. now' \in Nat /\ now =< now'
      BY <1>1
    <2>2. RejectedIsOld'
      BY <1>3, <2>1, OldStaysOld DEF RejectedInv, RejectedIsOld
    <2> QED
      BY <1>3, <2>2 DEF RejectedInv, RejectedForGood
  <1>4. ASSUME NEW decision, NEW rule, NEW asked,
               Respond(id, decision, rule, asked, n),
               decision = "rejected" <=> ~ IsFresh(b)
        PROVE  RejectedInv'
    <2> DEFINE r == [beacon |-> id, decision |-> decision, rule |-> rule,
                     asked |-> asked, callbacks |-> n]
    <2>1. answers' = Append(answers, r)
      BY <1>4 DEF Respond
    <2>2. r.decision = "rejected" <=> now - beacons'[r.beacon].timestamp > MaxAge
      BY <1>2, <1>4
    <2> HIDE DEF r
    <2> QED
      BY <2>1, <2>2, OneMoreAnswer
  <1> QED
    BY <1>3, <1>4 DEF HandleBeacon, Reject, ApplyRule, AutoVouch, Fail, Escalate

\* Every step keeps it.
LEMMA RejectedStep ==
    ASSUME TypeOK, TypeOK', RejectedInv, [Next]_vars
    PROVE  RejectedInv'
  <1>0. beacons \in Seq(Beacon) /\ now \in Nat /\ now' \in Nat
    BY DEF TypeOK
  <1>1. ASSUME now =< now', UNCHANGED answers,
               \A id \in DOMAIN beacons : beacons'[id] = beacons[id]
        PROVE  RejectedInv'
    BY <1>0, <1>1, OldStaysOld DEF RejectedInv, RejectedIsOld, RejectedForGood
  <1>2. ASSUME NEW d \in Devices, NEW capabilities \in SUBSET Capabilities,
               NEW type \in DeviceTypes, NEW offset \in Offsets,
               BroadcastBeacon(d, capabilities, type, offset)
        PROVE  RejectedInv'
    BY <1>0, <1>1, <1>2 DEF BroadcastBeacon
  <1>3. ASSUME NEW f \in sent, NEW g \in Carried(f.frame), DatagramReceived(g)
        PROVE  RejectedInv'
    <2> DEFINE b == HeardBeacon(Decode(HubCodec, g).fields)
    <2>1. /\ b \in Beacon
          /\ beacons' = Append(beacons, b)
          /\ HandleBeacon(Len(beacons) + 1, b, callbacks)
          /\ now' = now
      BY <1>3, HeardIsBeacon DEF DatagramReceived, OnBeaconReceived
    <2> HIDE DEF b
    <2>2. /\ \A i \in DOMAIN beacons : beacons'[i] = beacons[i]
          /\ beacons'[Len(beacons) + 1] = b
      BY <1>0, <2>1
    <2> QED
      BY <2>1, <2>2, HandleBeaconRejects
  <1>4. ASSUME NEW id \in DOMAIN beacons, HandIn(id)
        PROVE  RejectedInv'
    <2>1. beacons[id] \in Beacon
      BY <1>0
    <2> QED
      BY <1>4, <2>1, HandleBeaconRejects DEF HandIn
  <1>5. CASE Tick
    BY <1>0, <1>1, <1>5 DEF Tick
  <1>6. CASE UNCHANGED <<now, beacons, answers>>
    BY <1>0, <1>1, <1>6
  <1> QED
    BY <1>2, <1>3, <1>4, <1>5, <1>6
       DEF Next, BroadcastDiscover, OthersSend, SetRules, SetOnHitlNeeded,
           OnDiscovered, RunTask, vars

(***************************************************************************)
(* A beacon rejected once is never vouched for or put to the human later.  *)
(***************************************************************************)
THEOREM RejectionStands == Spec => []RejectedForGood
  <1>1. Init => RejectedInv
    BY DEF Init, RejectedInv, RejectedIsOld, RejectedForGood
  <1>2. TypeOK /\ TypeOK' /\ RejectedInv /\ [Next]_vars => RejectedInv'
    BY RejectedStep
  <1>3. RejectedInv => RejectedForGood
    BY DEF RejectedInv
  <1> QED
    BY <1>1, <1>2, <1>3, BootstrapTypeCorrect, PTL DEF Spec

-----------------------------------------------------------------------------
(* What is remembered.                                                     *)

\* A response adds its beacon to those of its decision, and to no others.
LEMMA AnsweredByGrows ==
    ASSUME TypeOK, NEW id, NEW decision, NEW rule, NEW asked, NEW n,
           Respond(id, decision, rule, asked, n), NEW a
    PROVE  /\ AnsweredBy("auto_vouched")' =
                  IF decision = "auto_vouched"
                  THEN AnsweredBy("auto_vouched") \cup {id}
                  ELSE AnsweredBy("auto_vouched")
           /\ Pending(a)' = IF decision = "hitl_pending" /\ asked = a
                            THEN Pending(a) \cup {id}
                            ELSE Pending(a)
  <1> DEFINE m == Len(answers)
             r == [beacon |-> id, decision |-> decision, rule |-> rule,
                   asked |-> asked, callbacks |-> n]
  <1>1. answers' = Append(answers, r)
    BY DEF Respond
  <1>2. /\ m \in Nat /\ DOMAIN answers = 1 .. m
        /\ DOMAIN answers' = 1 .. m + 1
        /\ \A i \in 1 .. m : answers'[i] = answers[i]
        /\ answers'[m + 1] = r
    BY <1>1 DEF TypeOK
  <1>3. r.beacon = id /\ r.decision = decision /\ r.asked = asked
    OBVIOUS
  <1> HIDE DEF m, r
  <1>4. 1 .. m + 1 = (1 .. m) \cup {m + 1}
    BY <1>2
  <1>5. AnsweredBy("auto_vouched")' = IF decision = "auto_vouched"
                                      THEN AnsweredBy("auto_vouched") \cup {id}
                                      ELSE AnsweredBy("auto_vouched")
    <2>1. AnsweredBy("auto_vouched") =
              {answers[i].beacon : i \in {j \in 1 .. m :
                                              answers[j].decision = "auto_vouched"}}
      BY <1>2 DEF AnsweredBy
    <2>2. AnsweredBy("auto_vouched")' =
              {answers'[i].beacon : i \in {j \in (1 .. m) \cup {m + 1} :
                                              answers'[j].decision = "auto_vouched"}}
      BY <1>2, <1>4 DEF AnsweredBy
    <2> QED
      BY <1>2, <1>3, <2>1, <2>2
  <1>6. Pending(a)' = IF decision = "hitl_pending" /\ asked = a
                      THEN Pending(a) \cup {id}
                      ELSE Pending(a)
    <2>1. Pending(a) =
              {answers[i].beacon : i \in {j \in 1 .. m :
                     answers[j].decision = "hitl_pending" /\ answers[j].asked = a}}
      BY <1>2 DEF Pending
    <2>2. Pending(a)' =
              {answers'[i].beacon : i \in {j \in (1 .. m) \cup {m + 1} :
                     answers'[j].decision = "hitl_pending" /\ answers'[j].asked = a}}
      BY <1>2, <1>4 DEF Pending
    <2> QED
      BY <1>2, <1>3, <2>1, <2>2
  <1> QED
    BY <1>5, <1>6

\* handle_beacon keeps the five together.
LEMMA HandleBeaconRemembers ==
    ASSUME TypeOK, VouchedOrEscalated, NEW id, NEW b, NEW n,
           HandleBeacon(id, b, n)
    PROVE  VouchedOrEscalated'
  <1>1. CASE Reject(id, n)
    <2>0. Respond(id, "rejected", <<>>, FALSE, n)
      BY <1>1 DEF Reject
    <2>1. /\ AnsweredBy("auto_vouched")' = AnsweredBy("auto_vouched")
          /\ Pending(TRUE)' = Pending(TRUE) /\ Pending(FALSE)' = Pending(FALSE)
      <3>1. ASSUME NEW decision, NEW rule, NEW asked,
                   decision \notin {"auto_vouched", "hitl_pending"},
                   Respond(id, decision, rule, asked, n)
            PROVE  /\ AnsweredBy("auto_vouched")' = AnsweredBy("auto_vouched")
                   /\ \A a : Pending(a)' = Pending(a)
        BY <3>1, AnsweredByGrows
      <3>2. "rejected" \notin {"auto_vouched", "hitl_pending"}
        OBVIOUS
      <3> QED
        BY <2>0, <3>1, <3>2
    <2> QED
      BY <1>1, <2>1 DEF Reject, VouchedOrEscalated, memory
  <1>2. ASSUME NEW r, AutoVouch(id, r, n)
        PROVE  VouchedOrEscalated'
    <2>1. /\ AnsweredBy("auto_vouched")' = AnsweredBy("auto_vouched") \cup {id}
          /\ Pending(TRUE)' = Pending(TRUE) /\ Pending(FALSE)' = Pending(FALSE)
      BY <1>2, AnsweredByGrows DEF AutoVouch
    <2> QED
      BY <1>2, <2>1 DEF AutoVouch, VouchedOrEscalated
  <1>3. CASE Fail(id)
    BY <1>3 DEF Fail, VouchedOrEscalated, AnsweredBy, Pending
  <1>4. CASE Escalate(id, n)
    <2>1. CASE Respond(id, "hitl_pending", <<>>, hitl, n)
      <3>1. ASSUME NEW asked, Respond(id, "hitl_pending", <<>>, asked, n)
            PROVE  /\ AnsweredBy("auto_vouched")' = AnsweredBy("auto_vouched")
                   /\ \A a : Pending(a)' = IF asked = a THEN Pending(a) \cup {id}
                                                        ELSE Pending(a)
        BY <3>1, AnsweredByGrows
      <3>2. CASE hitl = TRUE
        <4>1. Respond(id, "hitl_pending", <<>>, TRUE, n)
          BY <2>1, <3>2
        <4>2. /\ AnsweredBy("auto_vouched")' = AnsweredBy("auto_vouched")
              /\ Pending(TRUE)' = Pending(TRUE) \cup {id}
              /\ Pending(FALSE)' = Pending(FALSE)
          BY <3>1, <4>1
        <4> QED
          BY <1>4, <3>2, <4>2 DEF Escalate, VouchedOrEscalated
      <3>3. CASE hitl = FALSE
        <4>1. Respond(id, "hitl_pending", <<>>, FALSE, n)
          BY <2>1, <3>3
        <4>2. /\ AnsweredBy("auto_vouched")' = AnsweredBy("auto_vouched")
              /\ Pending(TRUE)' = Pending(TRUE)
              /\ Pending(FALSE)' = Pending(FALSE) \cup {id}
          BY <3>1, <4>1
        <4> QED
          BY <1>4, <3>3, <4>2 DEF Escalate, VouchedOrEscalated
      <3> QED
        BY <3>2, <3>3 DEF TypeOK
    <2>2. CASE hitl /\ UNCHANGED answers
      BY <1>4, <2>2 DEF Escalate, VouchedOrEscalated, AnsweredBy, Pending
    <2> QED
      BY <1>4, <2>1, <2>2 DEF Escalate
  <1> QED
    BY <1>1, <1>2, <1>3, <1>4 DEF HandleBeacon, ApplyRule

(***************************************************************************)
(* The hub remembers what it vouched for, put to the human, left pending   *)
(* with nobody to ask, or raised on, and nothing else; and it leaves       *)
(* nothing pending that it did not put to the human when it could have.    *)
(***************************************************************************)
THEOREM RemembersWhatItTook == Spec => []VouchedOrEscalated
  <1>1. Init => VouchedOrEscalated
    BY DEF Init, VouchedOrEscalated, AnsweredBy, Pending
  <1>2. TypeOK /\ VouchedOrEscalated /\ [Next]_vars => VouchedOrEscalated'
    <2> SUFFICES ASSUME TypeOK, VouchedOrEscalated, [Next]_vars
                 PROVE  VouchedOrEscalated'
      OBVIOUS
    <2>1. ASSUME NEW g, DatagramReceived(g)
          PROVE  VouchedOrEscalated'
      BY <2>1, HandleBeaconRemembers DEF DatagramReceived, OnBeaconReceived
    <2>2. ASSUME NEW id, HandIn(id)
          PROVE  VouchedOrEscalated'
      BY <2>2, HandleBeaconRemembers DEF HandIn
    <2>3. CASE UNCHANGED <<memory, answers>>
      BY <2>3 DEF VouchedOrEscalated, AnsweredBy, Pending, memory
    <2> QED
      BY <2>1, <2>2, <2>3
         DEF Next, BroadcastBeacon, BroadcastDiscover, OthersSend, SetRules,
             SetOnHitlNeeded, OnDiscovered, RunTask, Tick, vars
  <1> QED
    BY <1>1, <1>2, BootstrapTypeCorrect, PTL DEF Spec

-----------------------------------------------------------------------------
(* Vouching.                                                               *)

(***************************************************************************)
(* The inductive invariant: the rule of a response that vouches matches    *)
(* the beacon in source and capabilities, and a beacon that was heard is   *)
(* of what a datagram says.  It has to speak of the rule the response      *)
(* keeps, for the rules in force may have been replaced since.             *)
(***************************************************************************)
Admits(r, b) ==
    /\ b.source_did \in r.sources
    /\ r.required # {} =>
           b.capabilities # NotASet /\ r.required \subseteq b.capabilities

VouchedByMatch ==
    \A i \in DOMAIN answers :
        answers[i].decision = "auto_vouched" =>
            Admits(answers[i].rule[1], beacons[answers[i].beacon])

HeardAsSaid ==
    \A id \in DOMAIN beacons :
        beacons[id].heard => Says(beacons[id].source_did, beacons[id].capabilities)

\* One more answer keeps the first, if its own rule admits its beacon.
LEMMA OneMoreMatch ==
    ASSUME TypeOK, VouchedByMatch, NEW r,
           \A id \in DOMAIN beacons : beacons'[id] = beacons[id],
           answers' = Append(answers, r),
           r.decision = "auto_vouched" => Admits(r.rule[1], beacons'[r.beacon])
    PROVE  VouchedByMatch'
  <1> DEFINE n == Len(answers)
  <1>1. /\ n \in Nat /\ DOMAIN answers = 1 .. n
        /\ DOMAIN answers' = 1 .. n + 1
        /\ \A i \in 1 .. n : answers'[i] = answers[i]
        /\ answers'[n + 1] = r
    BY DEF TypeOK
  <1>2. \A i \in 1 .. n : beacons'[answers[i].beacon] = beacons[answers[i].beacon]
    BY <1>1 DEF TypeOK
  <1> HIDE DEF n
  <1> SUFFICES ASSUME NEW i \in 1 .. n + 1,
                      answers'[i].decision = "auto_vouched"
               PROVE  Admits(answers'[i].rule[1], beacons'[answers'[i].beacon])
    BY <1>1 DEF VouchedByMatch, Admits
  <1>3. CASE i = n + 1
    BY <1>1, <1>3
  <1>4. CASE i \in 1 .. n
    <2>1. answers'[i] = answers[i]
          /\ beacons'[answers[i].beacon] = beacons[answers[i].beacon]
      BY <1>1, <1>2, <1>4
    <2>2. Admits(answers[i].rule[1], beacons[answers[i].beacon])
      BY <1>1, <1>4, <2>1 DEF VouchedByMatch
    <2> QED
      BY <2>1, <2>2
  <1>5. i = n + 1 \/ i \in 1 .. n
    BY <1>1
  <1> QED
    BY <1>3, <1>4, <1>5

\* handle_beacon keeps it.
LEMMA HandleBeaconMatches ==
    ASSUME TypeOK, VouchedByMatch, NEW id, NEW n, NEW b,
           \A i \in DOMAIN beacons : beacons'[i] = beacons[i],
           beacons'[id] = b,
           HandleBeacon(id, b, n)
    PROVE  VouchedByMatch'
  <1>1. CASE UNCHANGED answers
    BY <1>1 DEF VouchedByMatch, Admits, TypeOK
  <1>2. ASSUME NEW decision, NEW rule, NEW asked,
               Respond(id, decision, rule, asked, n),
               decision = "auto_vouched" => Admits(rule[1], b)
        PROVE  VouchedByMatch'
    <2> DEFINE r == [beacon |-> id, decision |-> decision, rule |-> rule,
                     asked |-> asked, callbacks |-> n]
    <2>1. answers' = Append(answers, r)
      BY <1>2 DEF Respond
    <2>2. r.decision = decision /\ r.rule = rule /\ beacons'[r.beacon] = b
      OBVIOUS
    <2> HIDE DEF r
    <2> QED
      BY <1>2, <2>1, <2>2, OneMoreMatch
  <1>3. ASSUME NEW rule, MatchesRule(b, rule), AutoVouch(id, rule, n)
        PROVE  VouchedByMatch'
    <2>1. Admits(rule, b)
      BY <1>3 DEF MatchesRule, Admits
    <2>2. Respond(id, "auto_vouched", <<rule>>, FALSE, n)
      BY <1>3 DEF AutoVouch
    <2>3. <<rule>>[1] = rule
      OBVIOUS
    <2> QED
      BY <1>2, <2>1, <2>2, <2>3
  <1>4. CASE Reject(id, n) \/ Escalate(id, n) \/ Fail(id)
    BY <1>1, <1>2, <1>4 DEF Reject, Escalate, Fail
  <1> QED
    BY <1>3, <1>4 DEF HandleBeacon, ApplyRule

\* One more beacon keeps the second, if it is of what a datagram says or was not
\* heard.
LEMMA OneMoreHeard ==
    ASSUME TypeOK, HeardAsSaid, NEW b, beacons' = Append(beacons, b), sent' = sent,
           b.heard => Says(b.source_did, b.capabilities)
    PROVE  HeardAsSaid'
  <1> DEFINE n == Len(beacons)
  <1>1. /\ n \in Nat /\ DOMAIN beacons = 1 .. n
        /\ DOMAIN beacons' = 1 .. n + 1
        /\ \A i \in 1 .. n : beacons'[i] = beacons[i]
        /\ beacons'[n + 1] = b
    BY DEF TypeOK
  <1> HIDE DEF n
  <1>2. \A source, capabilities :
            Says(source, capabilities)' <=> Says(source, capabilities)
    BY DEF Says
  <1> SUFFICES ASSUME NEW i \in 1 .. n + 1, beacons'[i].heard
               PROVE  Says(beacons'[i].source_did, beacons'[i].capabilities)
    BY <1>1, <1>2 DEF HeardAsSaid
  <1>3. CASE i = n + 1
    BY <1>1, <1>3
  <1>4. CASE i \in 1 .. n
    BY <1>1, <1>4 DEF HeardAsSaid
  <1>5. i = n + 1 \/ i \in 1 .. n
    BY <1>1
  <1> QED
    BY <1>3, <1>4, <1>5

\* Datagrams stay, and so does what they say.
LEMMA MoreSaid ==
    ASSUME HeardAsSaid, sent \subseteq sent', UNCHANGED beacons
    PROVE  HeardAsSaid'
  <1>1. \A source, capabilities :
            Says(source, capabilities) => Says(source, capabilities)'
    BY DEF Says
  <1> QED
    BY <1>1 DEF HeardAsSaid

\* Every step keeps both.
LEMMA VouchedStep ==
    ASSUME TypeOK, VouchedByMatch, HeardAsSaid, [Next]_vars
    PROVE  VouchedByMatch' /\ HeardAsSaid'
  <1>0. beacons \in Seq(Beacon)
    BY DEF TypeOK
  <1>1. ASSUME UNCHANGED answers,
               \A id \in DOMAIN beacons : beacons'[id] = beacons[id]
        PROVE  VouchedByMatch'
    BY <1>1 DEF VouchedByMatch, Admits, TypeOK
  <1>2. ASSUME NEW d \in Devices, NEW capabilities \in SUBSET Capabilities,
               NEW type \in DeviceTypes, NEW offset \in Offsets,
               BroadcastBeacon(d, capabilities, type, offset)
        PROVE  VouchedByMatch' /\ HeardAsSaid'
    <2> DEFINE b == [source_did |-> d, capabilities |-> capabilities,
                     device_type |-> type, timestamp |-> now + offset,
                     heard |-> FALSE]
    <2>1. beacons' = Append(beacons, b) /\ sent' = sent /\ UNCHANGED answers
      BY <1>2 DEF BroadcastBeacon
    <2>2. ~ b.heard
      OBVIOUS
    <2> HIDE DEF b
    <2>3. \A id \in DOMAIN beacons : beacons'[id] = beacons[id]
      BY <1>0, <2>1
    <2> QED
      BY <1>1, <2>1, <2>2, <2>3, OneMoreHeard
  <1>3. ASSUME NEW f \in sent, NEW g \in Carried(f.frame), DatagramReceived(g)
        PROVE  VouchedByMatch' /\ HeardAsSaid'
    <2> DEFINE b == HeardBeacon(Decode(HubCodec, g).fields)
    <2>1. /\ b \in Beacon
          /\ Says(b.source_did, b.capabilities)
          /\ beacons' = Append(beacons, b) /\ sent' = sent
          /\ HandleBeacon(Len(beacons) + 1, b, callbacks)
      BY <1>3, HeardIsBeacon DEF DatagramReceived, OnBeaconReceived
    <2> HIDE DEF b
    <2>2. /\ \A i \in DOMAIN beacons : beacons'[i] = beacons[i]
          /\ beacons'[Len(beacons) + 1] = b
      BY <1>0, <2>1
    <2> QED
      BY <2>1, <2>2, HandleBeaconMatches, OneMoreHeard
  <1>4. ASSUME NEW id \in DOMAIN beacons, HandIn(id)
        PROVE  VouchedByMatch' /\ HeardAsSaid'
    BY <1>4, HandleBeaconMatches, MoreSaid DEF HandIn
  <1>5. CASE UNCHANGED <<beacons, answers>> /\ sent \subseteq sent'
    BY <1>1, <1>5, MoreSaid
  <1> QED
    BY <1>2, <1>3, <1>4, <1>5
       DEF Next, BroadcastDiscover, OthersSend, SetRules, SetOnHitlNeeded,
           OnDiscovered, RunTask, Tick, vars

(***************************************************************************)
(* A beacon is vouched for only under a rule that admits its source and    *)
(* requires no capability it does not have, and one that was heard has     *)
(* what a single datagram of its source says.                              *)
(***************************************************************************)
THEOREM VouchesAsAnnounced == Spec => []VouchedAsAnnounced
  <1>1. Init => VouchedByMatch /\ HeardAsSaid
    BY DEF Init, VouchedByMatch, HeardAsSaid
  <1>2. TypeOK /\ VouchedByMatch /\ HeardAsSaid /\ [Next]_vars
            => VouchedByMatch' /\ HeardAsSaid'
    BY VouchedStep
  <1>3. TypeOK /\ VouchedByMatch /\ HeardAsSaid => VouchedAsAnnounced
    <2> SUFFICES ASSUME TypeOK, VouchedByMatch, HeardAsSaid, NEW i \in DOMAIN answers,
                        answers[i].decision = "auto_vouched"
                 PROVE  LET b == beacons[answers[i].beacon]
                            r == answers[i].rule[1]
                        IN  /\ b.source_did \in r.sources
                            /\ r.required # {} =>
                                   b.capabilities # NotASet
                                   /\ r.required \subseteq b.capabilities
                            /\ b.heard => Says(b.source_did, b.capabilities)
      BY DEF VouchedAsAnnounced
    <2>1. answers[i].beacon \in DOMAIN beacons
      BY DEF TypeOK
    <2> QED
      BY <2>1 DEF VouchedByMatch, Admits, HeardAsSaid
  <1> QED
    BY <1>1, <1>2, <1>3, BootstrapTypeCorrect, PTL DEF Spec

=============================================================================
