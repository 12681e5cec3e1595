---------------------------- MODULE VouchRegistry ----------------------------
(***************************************************************************)
(* VouchRegistry of vouch.py: the vouches by id, and the index from a      *)
(* device to the ids of the vouches that cover it, which every trust       *)
(* lookup goes through.  A list of ids, and the vouched_dids of a vouch,   *)
(* are kept as multiplicities: a did or an id may stand in them more than  *)
(* once, and nothing but the order of a listing depends on their order.    *)
(***************************************************************************)
EXTENDS Integers

CONSTANTS
    Ids,            \* vouch_id
    Dids,           \* device DIDs
    Vouches,        \* the Vouch records that may be registered
    NoTrust,        \* None: no active vouch gives the device any trust
    Never,          \* expires_at of a vouch that does not expire
    ReuseIds,       \* may add_vouch be given an id that is registered?
    MaxListed,      \* bound on the multiplicity of an id in the index
    MaxNow          \* bound on the clock

ASSUME BoundsAssumption == MaxListed \in Nat /\ MaxNow \in Nat /\ ReuseIds \in BOOLEAN

\* trust stands for voucher_trust * vouch_factor; an expires_at that cannot
\* be parsed counts as expired and is a time before every other.
ASSUME VouchesAssumption ==
    /\ Vouches \subseteq [id : Ids, trust : Nat, dids : [Dids -> Nat],
                          expires : Int \cup {Never}]
    /\ Never \notin Int
    /\ NoTrust \notin Int

VARIABLES
    vouches,        \* _vouches: id -> Vouch
    byVouched,      \* _by_vouched: how often an id is listed for a device
    now             \* datetime.now

registryVars == <<vouches, byVouched, now>>

RegistryInit ==
    /\ vouches = [i \in {} |-> {}]
    /\ byVouched = [d \in Dids |-> [i \in Ids |-> 0]]
    /\ now = 0

-----------------------------------------------------------------------------
(* Lookups.                                                                *)

Expired(v) == v.expires # Never /\ now > v.expires

\* The largest of a set of trusts, None when no trust is positive.
BestOf(S) ==
    LET positive == {s \in S : s > 0} IN
    IF positive = {} THEN NoTrust
                     ELSE CHOOSE s \in positive : \A u \in positive : u <= s

\* Mutant: lookups that forget expiry.
ActiveIdsUnexpired(d) == {i \in DOMAIN vouches : byVouched[d][i] > 0}

\* The ids listed for d that name a registered vouch which has not expired.
ActiveIds(d) ==
    {i \in DOMAIN vouches : byVouched[d][i] > 0 /\ ~ Expired(vouches[i])}

GetTrustForDevice(d) == BestOf({vouches[i].trust : i \in ActiveIds(d)})

-----------------------------------------------------------------------------
(* Operations.                                                             *)

\* add_vouch overwrites the vouch of that id and appends to the index.
AddVouch(v) ==
    /\ ReuseIds \/ v.id \notin DOMAIN vouches
    /\ \A d \in Dids : byVouched[d][v.id] + v.dids[d] <= MaxListed
    /\ vouches' = [i \in DOMAIN vouches \cup {v.id} |->
                        IF i = v.id THEN v ELSE vouches[i]]
    /\ byVouched' = [d \in Dids |->
            [byVouched[d] EXCEPT ![v.id] = @ + v.dids[d]]]
    /\ UNCHANGED now

\* Mutant of revoke_vouch: it leaves the index alone.
RevokeVouchKeepingIndex(i) ==
    /\ i \in DOMAIN vouches
    /\ vouches' = [j \in DOMAIN vouches \ {i} |-> vouches[j]]
    /\ UNCHANGED <<byVouched, now>>

\* revoke_vouch removes as many entries as the vouch it finds lists.
RevokeVouch(i) ==
    /\ i \in DOMAIN vouches
    /\ vouches' = [j \in DOMAIN vouches \ {i} |-> vouches[j]]
    /\ byVouched' = [d \in Dids |->
            [byVouched[d] EXCEPT ![i] =
                IF @ <= vouches[i].dids[d] THEN 0 ELSE @ - vouches[i].dids[d]]]
    /\ UNCHANGED now

TimePasses ==
    /\ now < MaxNow
    /\ now' = now + 1
    /\ UNCHANGED <<vouches, byVouched>>

RegistryNext ==
    \/ \E v \in Vouches : AddVouch(v)
    \/ \E i \in Ids : RevokeVouch(i)
    \/ TimePasses

RegistrySpec == RegistryInit /\ [][RegistryNext]_registryVars

-----------------------------------------------------------------------------
(* Properties.                                                             *)

RegistryTypeOK ==
    /\ DOMAIN vouches \subseteq Ids
    /\ \A i \in DOMAIN vouches : vouches[i] \in Vouches /\ vouches[i].id = i
    /\ byVouched \in [Dids -> [Ids -> Nat]]
    /\ now \in Int

\* The index says of every device exactly what the registered vouches say:
\* no entry is left by a revoked vouch, none is missing (vouch.py:84-90,
\* 118-130).
IndexExact ==
    \A d \in Dids, i \in Ids :
        byVouched[d][i] = IF i \in DOMAIN vouches THEN vouches[i].dids[d] ELSE 0

\* The vouches that cover a device and have not expired, told without the
\* index.
Covering(d) ==
    {i \in DOMAIN vouches : vouches[i].dids[d] > 0 /\ ~ Expired(vouches[i])}

\* "Returns highest trust from all active vouches, or None if no vouches"
\* (vouch.py:95): the lookup through the index agrees with the vouches.
TrustIsBest ==
    \A d \in Dids :
        GetTrustForDevice(d) = BestOf({vouches[i].trust : i \in Covering(d)})

AtLeast(s, t) == t = NoTrust \/ (s # NoTrust /\ s >= t)

\* A device gains trust only by a vouch that names it: not by the expiry or
\* the revocation of a vouch, and not by a vouch for other devices
\* (vouch.py:92-107).
TrustRisesByVouchOnly ==
    [][\A d \in Dids :
          \/ AtLeast(GetTrustForDevice(d), GetTrustForDevice(d)')
          \/ \E v \in Vouches : AddVouch(v) /\ v.dids[d] > 0]_registryVars

=============================================================================
