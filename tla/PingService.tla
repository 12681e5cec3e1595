----------------------------- MODULE PingService -----------------------------
(***************************************************************************)
(* What a ping promises its caller, with no network: the call is open      *)
(* until it ends, once, in one of a few ways; a device decides on a ping   *)
(* only once it was asked and only if the ping is meant for it; and an     *)
(* answer is that of a device that decided on this ping and let it         *)
(* through.  How often a device decides is not said here: that a decision  *)
(* has been taken is all a caller can tell (see MeshNode!AnsweredOnce).    *)
(***************************************************************************)
CONSTANTS
    Nodes,          \* the devices
    Pings,          \* the pings, by packet_id
    MeantFor,       \* MeantFor[i]: the devices ping i is addressed to
    Admits          \* pairs <<n, i>>: device n does not reject ping i

VARIABLES
    call,           \* how far the call of send_ping for each ping is
    handled         \* pairs <<n, i>>: device n has decided on ping i

vars == <<call, handled>>

Endings == {"response", "none", "raised", "cancelled"}

Init ==
    /\ call = [i \in Pings |-> "idle"]
    /\ handled = {}

Ask(i) ==
    /\ call[i] = "idle"
    /\ call' = [call EXCEPT ![i] = "open"]
    /\ UNCHANGED handled

Decide(n, i) ==
    /\ call[i] # "idle"
    /\ n \in MeantFor[i]
    /\ <<n, i>> \notin handled
    /\ handled' = handled \cup {<<n, i>>}
    /\ UNCHANGED call

Finish(i, ending) ==
    /\ call[i] = "open"
    /\ ending = "response" =>
         \E n \in MeantFor[i] : <<n, i>> \in handled \cap Admits
    /\ call' = [call EXCEPT ![i] = ending]
    /\ UNCHANGED handled

Next ==
    \/ \E i \in Pings : Ask(i)
    \/ \E n \in Nodes, i \in Pings : Decide(n, i)
    \/ \E i \in Pings, e \in Endings : Finish(i, e)

Spec == Init /\ [][Next]_vars

=============================================================================
