----------------------------- MODULE MCBootstrap -----------------------------
(***************************************************************************)
(* An instance of Bootstrap: a hub, a device, rules that name a type and   *)
(* rules that require a capability, and messages of all sorts sent by      *)
(* others.                                                                 *)
(***************************************************************************)
EXTENDS Bootstrap

CONSTANTS hub, dev

MCRule(types, required) ==
    [types |-> types, required |-> required, sources |-> Devices]

MCRuleLists ==
    { <<MCRule({"sensor"}, {}), MCRule(DeviceTypes, Capabilities)>> }

\* A packet with the key the hub looks for, whose payload msgpack will not read
\* and JSON changes, one too large for JSON, one too large for msgpack with
\* capabilities that are no set, and a response.
MCPacket(payload) ==
    [class |-> "packet",
     dict  |-> [packet_id |-> "p", source_did |-> dev,
                ping_type |-> "heartbeat", payload |-> payload]]

MCMessages ==
    { MCPacket([NoData EXCEPT !.data = [capabilities |-> {"temp"}],
                              !.keys = "int"]),
      MCPacket([NoData EXCEPT !.data = [capabilities |-> {"temp"}],
                              !.size.json = 2]),
      MCPacket([NoData EXCEPT !.data = [capabilities |-> NotASet],
                              !.size.msgpack = 2]),
      [class |-> "response",
       dict  |-> [response_id |-> "r", in_response_to |-> "p",
                  decision |-> "accept"]] }

\* Each in both forms, if it can be written.
MCForeign ==
    { f \in { [class |-> m.class, dict |-> m.dict,
               frame |-> Encode(c, m.class, m.dict)] :
                   c \in Codecs, m \in MCMessages } : f.frame # Error }

\* The clock of the device is behind the hub's.
MCOffsets == {-1}

MCHubCodec == [use_msgpack |-> FALSE, installed |-> TRUE]

=============================================================================
