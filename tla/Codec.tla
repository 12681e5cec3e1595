-------------------------------- MODULE Codec --------------------------------
(***************************************************************************)
(* PacketCodec of transport/codec.py, with to_dict and from_dict of        *)
(* proto.py: what is sent as a frame, and what becomes of a frame that     *)
(* arrives.                                                                *)
(*                                                                         *)
(* A dict is a function on the keys it has.  Of the keys of a packet or a  *)
(* response those are kept that tell the two apart, those the other        *)
(* modules look at, and of those with defaults three.  A payload has its   *)
(* data, what its own keys are (JSON knows strings only, msgpack refuses   *)
(* to read others, and JSON cannot write bytes), and its size in each      *)
(* form.  A frame has the header's fields, the number of bytes that came   *)
(* after the header, and the body they are the beginning of; the magic of  *)
(* a datagram too short for a header cannot be read.                       *)
(***************************************************************************)
EXTENDS Naturals

CONSTANTS
    Error,          \* what a call that raises returns
    MaxPayload      \* MAX_PAYLOAD

ASSUME CodecAssumption == MaxPayload \in Nat

\* A codec has its setting, and is on a host that has msgpack or has not.
\* PacketCodec(use_msgpack=True) raises where it is missing.
Codecs == {c \in [use_msgpack : BOOLEAN, installed : BOOLEAN] :
               c.use_msgpack => c.installed}

Classes == {"packet", "response"}

PingTypes == {"discover", "intent", "heartbeat", "relay"}
Decisions == {"accept", "reject", "pending"}

-----------------------------------------------------------------------------
(* proto.py.                                                               *)

\* dict.get.
Get(dict, key, default) == IF key \in DOMAIN dict THEN dict[key] ELSE default

RequiredKeys(class) ==
    IF class = "packet" THEN {"packet_id", "source_did", "ping_type"}
                        ELSE {"response_id", "in_response_to", "decision"}

\* A payload with keys that are strings, and the empty one.
PlainPayload(data) ==
    [keys |-> "str", data |-> data, size |-> [json |-> 0, msgpack |-> 0]]

NoData == PlainPayload(<<>>)

\* What a payload is here.
IsPayload(p) ==
    /\ DOMAIN p = {"keys", "data", "size"}
    /\ p.keys \in {"str", "int", "bytes"}
    /\ p.size \in [json : Nat, msgpack : Nat]

\* The fields that may be missing, with the values they have then.
Optional(class) ==
    IF class = "packet" THEN [payload |-> NoData, nonce |-> "", hop_count |-> 0]
                        ELSE [payload |-> NoData, airlock_zone |-> "ROOD"]

\* The enumerations raise on a value they do not have.
EnumsKnown(class, dict) ==
    IF class = "packet" THEN dict.ping_type \in PingTypes
                        ELSE dict.decision \in Decisions

\* Mutant: a key that is missing is taken for an empty string.
FromDictLenient(class, dict) ==
    [class  |-> class,
     fields |-> [k \in RequiredKeys(class) \cup DOMAIN Optional(class) |->
                    IF k \in DOMAIN Optional(class)
                    THEN Get(dict, k, Optional(class)[k])
                    ELSE Get(dict, k, "")]]

FromDict(class, dict) ==
    IF RequiredKeys(class) \subseteq DOMAIN dict /\ EnumsKnown(class, dict)
    THEN [class  |-> class,
          fields |-> [k \in RequiredKeys(class) \cup DOMAIN Optional(class) |->
                         IF k \in DOMAIN Optional(class)
                         THEN Get(dict, k, Optional(class)[k])
                         ELSE dict[k]]]
    ELSE Error

-----------------------------------------------------------------------------
(* Frames.                                                                 *)

FormOf(flags) == IF "MSGPACK" \in flags THEN "msgpack" ELSE "json"

PayloadOf(dict) == Get(dict, "payload", NoData)

\* What of a dict is in the bytes: JSON makes its keys strings.
Written(form, dict) ==
    IF form = "json" /\ "payload" \in DOMAIN dict
    THEN [dict EXCEPT !["payload"].keys = "str"]
    ELSE dict

Serialize(dict, flags) ==
    IF FormOf(flags) = "json" /\ PayloadOf(dict).keys = "bytes"
    THEN Error
    ELSE [form |-> FormOf(flags),
          dict |-> Written(FormOf(flags), dict),
          size |-> 1 + PayloadOf(dict).size[FormOf(flags)]]

Encode(codec, class, dict) ==
    LET flags == (IF class = "response" THEN {"IS_RESPONSE"} ELSE {})
                    \cup (IF codec.use_msgpack THEN {"MSGPACK"} ELSE {})
        body  == Serialize(dict, flags)
    IN  IF body # Error /\ body.size =< MaxPayload
        THEN [magic |-> "TP", version |-> 1, flags |-> flags,
              length |-> body.size, came |-> body.size, body |-> body]
        ELSE Error

\* The bytes the header announces are a document only if they are the body
\* from end to end, in the form that the flags say.
Deserialize(codec, f) ==
    IF /\ f.body.form = FormOf(f.flags)
       /\ f.length = f.body.size
       /\ "MSGPACK" \in f.flags =>
              codec.installed /\ PayloadOf(f.body.dict).keys # "int"
    THEN f.body.dict
    ELSE Error

Decode(codec, f) ==
    IF /\ f.magic = "TP"
       /\ f.version = 1
       /\ f.length =< f.came
       /\ Deserialize(codec, f) # Error
    THEN FromDict(IF "IS_RESPONSE" \in f.flags THEN "response" ELSE "packet",
                  Deserialize(codec, f))
    ELSE Error

=============================================================================
