------------------------------- MODULE Airlock -------------------------------
(***************************************************************************)
(* Airlock of airlock.py: the rules, kept by descending priority, the gate *)
(* that turns a packet and its sender's trust into a zone, and the queue   *)
(* of packets that wait for a human (zone GEEL).                           *)
(*                                                                         *)
(* What the glob patterns of a rule look at in a packet (source, intent,   *)
(* pod, type) is its kind; a rule covers a set of kinds.  A rule carries   *)
(* the number nr of rules added before it, which the program does not      *)
(* have: it tells two additions of one rule apart.                         *)
(***************************************************************************)
EXTENDS Integers, Sequences

CONSTANTS
    PacketIds,      \* packet_id
    Kinds,          \* what patterns tell apart in a packet
    Rules,          \* records [covers, minTrust, priority, zone]
    Trusts,         \* trust scores
    Groen, Rood,    \* trust_threshold_groen, trust_threshold_rood
    MaxRules        \* bound on the number of rules

Zones == {"GROEN", "GEEL", "ROOD"}

ASSUME RulesAssumption ==
    /\ Trusts \subseteq Int
    /\ Groen \in Int /\ Rood \in Int /\ Rood <= Groen
    /\ MaxRules \in Nat
    /\ Rules \subseteq [covers : SUBSET Kinds, minTrust : Int,
                        priority : Int, zone : Zones]

Entries == [rule : Rules, nr : Nat]

VARIABLES
    rules,          \* _rules, as entries
    added,          \* history: every entry ever added
    pending         \* pending: packet_id -> [kind, trust] and, as a history,
                    \* since: the time of the packet's replay check

airlockVars == <<rules, added, pending>>

AirlockInit ==
    /\ rules = <<>>
    /\ added = {}
    /\ pending = [i \in {} |-> {}]

-----------------------------------------------------------------------------
(* Gating.                                                                 *)

Matches(rule, kind, trust) == kind \in rule.covers /\ trust >= rule.minTrust

\* The positions of the rules that match.
Hits(kind, trust) == {i \in DOMAIN rules : Matches(rules[i].rule, kind, trust)}

ZoneByTrust(trust) ==
    IF trust >= Groen THEN "GROEN" ELSE IF trust < Rood THEN "ROOD" ELSE "GEEL"

\* The first rule that matches decides, or else the trust.
Gate(kind, trust) ==
    LET hits == Hits(kind, trust) IN
    IF hits = {} THEN ZoneByTrust(trust)
    ELSE rules[CHOOSE i \in hits : \A j \in hits : i <= j].rule.zone

DecisionOf(zone) ==
    CASE zone = "GROEN" -> "accept"
      [] zone = "ROOD" -> "reject"
      [] OTHER -> "pending"

\* pending once a packet has been processed: GEEL puts it on hold.
PendingAfter(id, kind, trust, since) ==
    IF Gate(kind, trust) # "GEEL" THEN pending
    ELSE [i \in DOMAIN pending \cup {id} |->
            IF i = id THEN [kind |-> kind, trust |-> trust, since |-> since]
            ELSE pending[i]]

-----------------------------------------------------------------------------
(* Operations.                                                             *)

InsertedAt(k, e) ==
    [i \in 1 .. Len(rules) + 1 |->
        IF i <= k THEN rules[i] ELSE IF i = k + 1 THEN e ELSE rules[i - 1]]

\* Mutant of AddRule: no sort after the append.
AppendRule(r) ==
    LET e == [rule |-> r, nr |-> Len(rules)] IN
    /\ Len(rules) < MaxRules
    /\ rules' = Append(rules, e)
    /\ added' = added \cup {e}
    /\ UNCHANGED pending

\* append, then a stable sort by descending priority: the new rule ends up
\* behind every rule of its priority or above, and before the others.
AddRule(r) ==
    LET e == [rule |-> r, nr |-> Len(rules)] IN
    /\ Len(rules) < MaxRules
    /\ \E k \in 0 .. Len(rules) :
        /\ \A i \in 1 .. k : rules[i].rule.priority >= r.priority
        /\ \A i \in k + 1 .. Len(rules) : rules[i].rule.priority < r.priority
        /\ rules' = InsertedAt(k, e)
    /\ added' = added \cup {e}
    /\ UNCHANGED pending

\* process: the packet is gated and, in zone GEEL, put on hold.
Process(id, kind, trust, since) ==
    /\ pending' = PendingAfter(id, kind, trust, since)
    /\ UNCHANGED <<rules, added>>

\* approve_pending and reject_pending: both take the packet off the queue.
Resolve(id) ==
    /\ id \in DOMAIN pending
    /\ pending' = [i \in DOMAIN pending \ {id} |-> pending[i]]
    /\ UNCHANGED <<rules, added>>

AirlockNext ==
    \/ \E r \in Rules : AddRule(r)
    \/ \E id \in PacketIds, k \in Kinds, t \in Trusts, s \in Int : Process(id, k, t, s)
    \/ \E id \in PacketIds : Resolve(id)

AirlockSpec == AirlockInit /\ [][AirlockNext]_airlockVars

-----------------------------------------------------------------------------
(* Properties.                                                             *)

AirlockTypeOK ==
    /\ rules \in Seq(Entries)
    /\ added \subseteq Entries
    /\ DOMAIN pending \subseteq PacketIds
    /\ \A i \in DOMAIN pending : pending[i] \in [kind : Kinds, trust : Trusts, since : Int]

\* Whether entry e is to be tried before entry f.
Before(e, f) ==
    \/ e.rule.priority > f.rule.priority
    \/ e.rule.priority = f.rule.priority /\ e.nr < f.nr

\* The entries that match and that no other matching entry goes before.
Winners(kind, trust) ==
    {e \in added : /\ Matches(e.rule, kind, trust)
                   /\ \A f \in added : Matches(f.rule, kind, trust) => ~ Before(f, e)}

\* "Rules are checked first (highest priority wins).  Then trust thresholds
\* determine zone" (airlock.py:89-90), rules of one priority in the order
\* they were added, whatever the order of the calls to add_rule.
HighestPriorityWins ==
    \A k \in Kinds, t \in Trusts :
        IF \E e \in added : Matches(e.rule, k, t)
        THEN \E e \in Winners(k, t) : Gate(k, t) = e.rule.zone
        ELSE Gate(k, t) = ZoneByTrust(t)

=============================================================================
