----------------------------- MODULE PeerTracker -----------------------------
(***************************************************************************)
(* PeerTracker of transport/peers.py: for each device heard from, the      *)
(* address it was heard from last and when.  A peer idle for longer than   *)
(* the timeout is stale; three places test that, get_address, alive_peers  *)
(* and prune_stale, each with a reading of the clock of its own.           *)
(***************************************************************************)
EXTENDS Integers

CONSTANTS
    Dids,           \* devices
    Addresses,
    NoAddress,      \* None
    Timeout         \* timeout, in units of the clock

ASSUME PeerAssumption ==
    /\ NoAddress \notin Addresses
    /\ Timeout \in Nat

VARIABLES
    clock,          \* time.monotonic()
    peers,          \* _peers
    heard           \* history: _peers, had nothing been pruned

peerVars == <<clock, peers, heard>>

PeerInit ==
    /\ clock = 0
    /\ peers = <<>>
    /\ heard = <<>>

Idle(d) == clock - peers[d].last_seen

Recorded(table, d, a) ==
    [e \in DOMAIN table \cup {d} |->
        IF e = d THEN [address |-> a, last_seen |-> clock] ELSE table[e]]

\* record_activity: the address and the time of the last packet, whether the
\* device was known or not.
RecordActivity(d, a) ==
    /\ peers' = Recorded(peers, d, a)
    /\ heard' = Recorded(heard, d, a)
    /\ UNCHANGED clock

\* Mutant of GetAddress: the address of a stale peer is handed out.
GetAddressStale(d) ==
    IF d \in DOMAIN peers THEN peers[d].address ELSE NoAddress

GetAddress(d) ==
    IF d \in DOMAIN peers /\ ~ Idle(d) > Timeout THEN peers[d].address ELSE NoAddress

AlivePeers == {d \in DOMAIN peers : Idle(d) <= Timeout}

\* Mutant of Stale: the test of alive_peers, negated one tick too early.
StaleEarly == {d \in DOMAIN peers : Idle(d) >= Timeout}

Stale == {d \in DOMAIN peers : Idle(d) > Timeout}

PruneStale ==
    /\ Stale # {}
    /\ peers' = [d \in DOMAIN peers \ Stale |-> peers[d]]
    /\ UNCHANGED <<clock, heard>>

TimePasses ==
    /\ clock' = clock + 1
    /\ UNCHANGED <<peers, heard>>

-----------------------------------------------------------------------------
(* Properties.                                                             *)

Tables ==
    UNION {[ds -> [address : Addresses, last_seen : 0 .. clock]] : ds \in SUBSET Dids}

PeerTypeOK ==
    /\ clock \in Nat
    /\ peers \in Tables
    /\ heard \in Tables

\* Where a device was last heard from, if that is not too long ago.
WhereHeard(d) ==
    IF d \in DOMAIN heard /\ clock - heard[d].last_seen <= Timeout
    THEN heard[d].address ELSE NoAddress

\* "Get last known address for a device. Returns None if stale or unknown."
\* (peers.py:70): whenever stale peers are pruned, and at the very tick of the
\* timeout too, a lookup finds what was heard last, and alive_peers lists the
\* devices it finds (peers.py:74, 91, 100).
LookupsAgree ==
    \A d \in Dids :
        /\ GetAddress(d) = WhereHeard(d)
        /\ d \in AlivePeers <=> WhereHeard(d) # NoAddress

=============================================================================
