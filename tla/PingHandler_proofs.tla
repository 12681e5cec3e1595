------------------------- MODULE PingHandler_proofs -------------------------
(***************************************************************************)
(* Proofs about the ping pipeline, part by part: the airlock (Airlock),    *)
(* the registry of vouches (VouchRegistry), and the handler composed of    *)
(* them (PingHandler).  The handler's airlock and registry behave as their *)
(* own specifications say, so that what is proved of those holds here; and *)
(* a packet is decided a second time, by the handler or by a human, only   *)
(* when it was stamped ahead and its nonce has been forgotten.             *)
(***************************************************************************)
EXTENDS PingHandler, SequenceTheorems, WellFoundedInduction, NaturalsInduction, TLAPS

-----------------------------------------------------------------------------
(* The airlock: the rules stay sorted, and the gate applies the right one. *)

USE RulesAssumption

(***************************************************************************)
(* The inductive invariant: the list is strictly sorted by Before, and its *)
(* entries are those ever added; their numbers are below its length.       *)
(***************************************************************************)
Sorted ==
    \A i, j \in DOMAIN rules : i < j => Before(rules[i], rules[j])

SameEntries ==
    /\ \A i \in DOMAIN rules : rules[i] \in added
    /\ \A e \in added : \E i \in DOMAIN rules : rules[i] = e

NumbersBelow == \A i \in DOMAIN rules : rules[i].nr < Len(rules)

RulesInv ==
    /\ rules \in Seq(Entries)
    /\ added \subseteq Entries
    /\ Sorted
    /\ SameEntries
    /\ NumbersBelow

\* The invariant holds of no rules.
LEMMA RulesInit == AirlockInit => RulesInv
  BY DEF AirlockInit, RulesInv, Sorted, SameEntries, NumbersBelow

\* What InsertedAt returns: the rules up to k, the new one, the others.
LEMMA Inserted ==
    ASSUME rules \in Seq(Entries), NEW e \in Entries, NEW k \in 0 .. Len(rules)
    PROVE  /\ InsertedAt(k, e) \in Seq(Entries)
           /\ Len(InsertedAt(k, e)) = Len(rules) + 1
           /\ DOMAIN InsertedAt(k, e) = 1 .. Len(rules) + 1
           /\ \A i \in 1 .. k : InsertedAt(k, e)[i] = rules[i]
           /\ InsertedAt(k, e)[k + 1] = e
           /\ \A i \in k + 2 .. Len(rules) + 1 :
                 InsertedAt(k, e)[i] = rules[i - 1]
  <1> DEFINE s == InsertedAt(k, e)
             n == Len(rules)
  <1>1. n \in Nat /\ rules \in [1 .. n -> Entries]
    OBVIOUS
  <1>2. s \in [1 .. n + 1 -> Entries]
    BY <1>1 DEF InsertedAt
  <1>3. s \in Seq(Entries) /\ Len(s) = n + 1
    BY <1>1, <1>2
  <1> QED
    BY <1>1, <1>2, <1>3 DEF InsertedAt

\* Adding a rule keeps the rules sorted and complete.
LEMMA AddRuleStep ==
    ASSUME RulesInv, NEW r \in Rules, AddRule(r)
    PROVE  RulesInv'
  <1> DEFINE e == [rule |-> r, nr |-> Len(rules)]
             n == Len(rules)
  <1>1. n \in Nat /\ DOMAIN rules = 1 .. n /\ e \in Entries
    BY DEF RulesInv, Entries
  <1>2. PICK k \in 0 .. n :
            /\ \A i \in 1 .. k : rules[i].rule.priority >= r.priority
            /\ \A i \in k + 1 .. n : rules[i].rule.priority < r.priority
            /\ rules' = InsertedAt(k, e)
    BY DEF AddRule
  <1>3. added' = added \cup {e}
    BY DEF AddRule
  <1>4. /\ rules' \in Seq(Entries)
        /\ Len(rules') = n + 1
        /\ DOMAIN rules' = 1 .. n + 1
        /\ \A i \in 1 .. k : rules'[i] = rules[i]
        /\ rules'[k + 1] = e
        /\ \A i \in k + 2 .. n + 1 : rules'[i] = rules[i - 1]
    BY <1>1, <1>2, Inserted DEF RulesInv
  <1>5. \A i \in 1 .. n : /\ rules[i].rule.priority \in Int
                          /\ rules[i].nr \in Nat
                          /\ rules[i].nr < n
    <2>1. \A i \in 1 .. n : rules[i] \in Entries
      BY <1>1 DEF RulesInv
    <2> QED
      BY <1>1, <2>1 DEF Entries, RulesInv, NumbersBelow
  <1>6. e.rule = r /\ e.nr = n /\ r.priority \in Int
    BY <1>1
  <1> HIDE DEF e, n
  <1>7. Sorted'
    <2> SUFFICES ASSUME NEW i \in 1 .. n + 1, NEW j \in 1 .. n + 1, i < j
                 PROVE  Before(rules'[i], rules'[j])
      BY <1>4 DEF Sorted, Before
    <2>1. CASE j \in 1 .. k
      <3>1. i \in 1 .. k /\ i \in 1 .. n /\ j \in 1 .. n
        BY <1>1, <2>1
      <3>2. rules'[i] = rules[i] /\ rules'[j] = rules[j]
        BY <1>4, <2>1, <3>1
      <3> QED
        BY <1>1, <3>1, <3>2 DEF RulesInv, Sorted
    <2>2. CASE j = k + 1
      <3>1. i \in 1 .. k /\ rules'[i] = rules[i] /\ rules'[j] = e
        BY <1>1, <1>4, <2>2
      <3>2. i \in 1 .. n
        BY <1>1, <3>1
      <3>3. rules[i].rule.priority >= r.priority /\ rules[i].nr < n
        BY <1>2, <1>5, <3>1, <3>2
      <3> QED
        BY <1>5, <1>6, <3>1, <3>2, <3>3 DEF Before
    <2>3. CASE j \in k + 2 .. n + 1
      <3>1. rules'[j] = rules[j - 1] /\ j - 1 \in 1 .. n
        BY <1>1, <1>4, <2>3
      <3>2. CASE i \in 1 .. k
        <4>1. rules'[i] = rules[i] /\ i \in 1 .. n /\ i < j - 1
          BY <1>1, <1>4, <2>3, <3>2
        <4> QED
          BY <1>1, <3>1, <4>1 DEF RulesInv, Sorted
      <3>3. CASE i = k + 1
        <4>1. rules[j - 1].rule.priority < r.priority
          BY <1>1, <1>2, <2>3
        <4> QED
          BY <1>4, <1>5, <1>6, <3>1, <3>3, <4>1 DEF Before
      <3>4. CASE i \in k + 2 .. n + 1
        <4>1. rules'[i] = rules[i - 1] /\ i - 1 \in 1 .. n /\ i - 1 < j - 1
          BY <1>1, <1>4, <3>4
        <4> QED
          BY <1>1, <3>1, <4>1 DEF RulesInv, Sorted
      <3> QED
        BY <1>1, <3>2, <3>3, <3>4
    <2> QED
      BY <1>1, <2>1, <2>2, <2>3
  <1>8. SameEntries'
    <2>1. \A i \in DOMAIN rules' : rules'[i] \in added'
      <3> SUFFICES ASSUME NEW i \in 1 .. n + 1
                   PROVE  rules'[i] \in added'
        BY <1>4
      <3>1. CASE i \in 1 .. k
        BY <1>1, <1>3, <1>4, <3>1 DEF RulesInv, SameEntries
      <3>2. CASE i = k + 1
        BY <1>3, <1>4, <3>2
      <3>3. CASE i \in k + 2 .. n + 1
        <4>1. rules'[i] = rules[i - 1] /\ i - 1 \in 1 .. n
          BY <1>1, <1>4, <3>3
        <4> QED
          BY <1>1, <1>3, <4>1 DEF RulesInv, SameEntries
      <3> QED
        BY <1>1, <3>1, <3>2, <3>3
    <2>2. ASSUME NEW f \in added'
          PROVE  \E i \in DOMAIN rules' : rules'[i] = f
      <3>1. CASE f = e
        BY <1>1, <1>4, <3>1
      <3>2. CASE f \in added
        <4>1. PICK i \in 1 .. n : rules[i] = f
          BY <1>1, <3>2 DEF RulesInv, SameEntries
        <4>2. CASE i <= k
          BY <1>1, <1>4, <4>1, <4>2
        <4>3. CASE i > k
          <5>1. i + 1 \in k + 2 .. n + 1 /\ (i + 1) - 1 = i
            BY <1>1, <4>3
          <5>2. rules'[i + 1] = rules[i]
            BY <1>4, <5>1
          <5>3. i + 1 \in DOMAIN rules' /\ rules'[i + 1] = f
            BY <1>1, <1>4, <4>1, <5>2
          <5> QED
            BY <5>3
        <4> QED
          BY <1>1, <4>2, <4>3
      <3> QED
        BY <1>3, <2>2, <3>1, <3>2
    <2> QED
      BY <2>1, <2>2 DEF SameEntries
  <1>9. NumbersBelow'
    <2> SUFFICES ASSUME NEW i \in 1 .. n + 1
                 PROVE  rules'[i].nr < n + 1
      BY <1>4 DEF NumbersBelow
    <2>1. CASE i \in 1 .. k
      BY <1>1, <1>4, <1>5, <2>1
    <2>2. CASE i = k + 1
      BY <1>1, <1>4, <1>6, <2>2
    <2>3. CASE i \in k + 2 .. n + 1
      <3>1. rules'[i] = rules[i - 1] /\ i - 1 \in 1 .. n
        BY <1>1, <1>4, <2>3
      <3> QED
        BY <1>1, <1>5, <3>1
    <2> QED
      BY <1>1, <2>1, <2>2, <2>3
  <1>10. added' \subseteq Entries
    BY <1>1, <1>3 DEF RulesInv
  <1> QED
    BY <1>4, <1>7, <1>8, <1>9, <1>10 DEF RulesInv

\* RulesInv is preserved: only AddRule changes the rules.
LEMMA RulesStep == RulesInv /\ [AirlockNext]_airlockVars => RulesInv'
  <1> SUFFICES ASSUME RulesInv, [AirlockNext]_airlockVars
               PROVE  RulesInv'
    OBVIOUS
  <1>1. CASE UNCHANGED <<rules, added>>
    BY <1>1 DEF RulesInv, Sorted, Before, SameEntries, NumbersBelow
  <1> QED
    BY <1>1, AddRuleStep DEF AirlockNext, Process, Resolve, airlockVars

-----------------------------------------------------------------------------
\* A set of positions that is not empty has a least one.
LEMMA LeastOf ==
    ASSUME NEW S \in SUBSET Nat, S # {}
    PROVE  \E i \in S : \A j \in S : i <= j
  <1>1. PICK i \in S : \A j \in S : ~ (<<j, i>> \in OpToRel(<, Nat))
    BY NatLessThanWellFounded, WFMin
  <1>2. \A j \in S : ~ (j < i)
    BY <1>1 DEF OpToRel
  <1> QED
    BY <1>2

\* In sorted rules the first match is a winner.
LEMMA GateApplies ==
    ASSUME RulesInv, NEW k \in Kinds, NEW t \in Trusts
    PROVE  IF \E e \in added : Matches(e.rule, k, t)
           THEN \E e \in Winners(k, t) : Gate(k, t) = e.rule.zone
           ELSE Gate(k, t) = ZoneByTrust(t)
  <1> DEFINE hits == Hits(k, t)
             first == CHOOSE i \in hits : \A j \in hits : i <= j
  <1>1. hits \in SUBSET Nat /\ hits \subseteq DOMAIN rules
    BY DEF RulesInv, Hits
  <1>2. CASE \E e \in added : Matches(e.rule, k, t)
    <2>1. hits # {}
      BY <1>2 DEF Hits, RulesInv, SameEntries
    <2>2. first \in hits /\ \A j \in hits : first <= j
      BY <1>1, <2>1, LeastOf
    <2> DEFINE e == rules[first]
    <2>3. e \in added /\ Matches(e.rule, k, t)
      BY <1>1, <2>2 DEF Hits, RulesInv, SameEntries
    <2>4. ASSUME NEW f \in added, Matches(f.rule, k, t)
          PROVE  ~ Before(f, e)
      <3> HIDE DEF first
      <3>1. PICK j \in DOMAIN rules : rules[j] = f
        BY DEF RulesInv, SameEntries
      <3>2. j \in hits
        BY <2>4, <3>1 DEF Hits
      <3>3. first = j \/ Before(e, f)
        BY <1>1, <2>2, <3>1, <3>2 DEF RulesInv, Sorted
      <3>4. e \in Entries /\ f \in Entries
        BY <2>3 DEF RulesInv
      <3>5. /\ e.rule.priority \in Int /\ f.rule.priority \in Int
            /\ e.nr \in Nat /\ f.nr \in Nat
        BY <3>4 DEF Entries
      <3> QED
        BY <3>1, <3>3, <3>5 DEF Before
    <2>5. e \in Winners(k, t)
      BY <2>3, <2>4 DEF Winners
    <2>6. Gate(k, t) = e.rule.zone
      BY <2>1 DEF Gate
    <2> QED
      BY <1>2, <2>5, <2>6
  <1>3. CASE ~ \E e \in added : Matches(e.rule, k, t)
    <2>1. hits = {}
      BY <1>3 DEF Hits, RulesInv, SameEntries
    <2> QED
      BY <1>3, <2>1 DEF Gate
  <1> QED
    BY <1>2, <1>3

(***************************************************************************)
(* Whatever the rules and the order in which they are added, the gate      *)
(* applies a matching rule of the highest priority, the earliest of them.  *)
(***************************************************************************)
THEOREM GateByPriority == AirlockSpec => []HighestPriorityWins
  <1>1. RulesInv => HighestPriorityWins
    BY GateApplies DEF HighestPriorityWins
  <1> QED
    BY RulesInit, RulesStep, <1>1, PTL DEF AirlockSpec

-----------------------------------------------------------------------------
(* The registry: when ids are not reused, the index and the trust read     *)
(* through it are exactly what the registered vouches say.                 *)

USE BoundsAssumption, VouchesAssumption

\* The two halves of type correctness: no count in the index goes below zero.
LEMMA TypeInit == RegistryInit => RegistryTypeOK
  BY DEF RegistryInit, RegistryTypeOK

\* Every step of the registry keeps its types.
LEMMA TypeStep == RegistryTypeOK /\ [RegistryNext]_registryVars => RegistryTypeOK'
  <1> SUFFICES ASSUME RegistryTypeOK, [RegistryNext]_registryVars
               PROVE  RegistryTypeOK'
    OBVIOUS
  <1> USE DEF RegistryTypeOK
  <1>1. ASSUME NEW v \in Vouches, AddVouch(v)
        PROVE  RegistryTypeOK'
    <2>1. v.id \in Ids /\ v.dids \in [Dids -> Nat]
      OBVIOUS
    <2> QED
      BY <1>1, <2>1 DEF AddVouch
  <1>2. ASSUME NEW i \in Ids, RevokeVouch(i)
        PROVE  RegistryTypeOK'
    <2>1. vouches[i].dids \in [Dids -> Nat]
      BY <1>2 DEF RevokeVouch
    <2>2. \A d \in Dids :
             (IF byVouched[d][i] <= vouches[i].dids[d] THEN 0
              ELSE byVouched[d][i] - vouches[i].dids[d]) \in Nat
      BY <2>1
    <2>3. byVouched' \in [Dids -> [Ids -> Nat]]
      BY <1>2, <2>2 DEF RevokeVouch
    <2> QED
      BY <1>2, <2>3 DEF RevokeVouch
  <1>3. CASE TimePasses
    BY <1>3 DEF TimePasses
  <1>4. CASE UNCHANGED registryVars
    BY <1>4 DEF registryVars
  <1> QED
    BY <1>1, <1>2, <1>3, <1>4 DEF RegistryNext

(***************************************************************************)
(* Type correctness, with or without reuse of ids: a registered vouch is   *)
(* kept under its own id, and the index counts.                            *)
(***************************************************************************)
THEOREM TypeCorrect == RegistrySpec => []RegistryTypeOK
  BY TypeInit, TypeStep, PTL DEF RegistrySpec

(***************************************************************************)
(* IndexExact is inductive: a new vouch finds no entry under its id, and a *)
(* revocation removes as many entries as the vouch has put there.          *)
(***************************************************************************)
LEMMA IndexStep ==
    ASSUME ReuseIds = FALSE, RegistryTypeOK, IndexExact, [RegistryNext]_registryVars
    PROVE  IndexExact'
  <1>1. ASSUME NEW v \in Vouches, AddVouch(v)
        PROVE  IndexExact'
    <2> SUFFICES ASSUME NEW d \in Dids, NEW i \in Ids
                 PROVE  byVouched'[d][i] =
                            IF i \in DOMAIN vouches' THEN vouches'[i].dids[d] ELSE 0
      BY DEF IndexExact
    <2>1. v.id \in Ids /\ v.dids[d] \in Nat
      OBVIOUS
    <2>2. /\ v.id \notin DOMAIN vouches
          /\ vouches' = [j \in DOMAIN vouches \cup {v.id} |->
                            IF j = v.id THEN v ELSE vouches[j]]
          /\ byVouched'[d] = [byVouched[d] EXCEPT ![v.id] = @ + v.dids[d]]
      BY <1>1 DEF AddVouch
    <2>3. byVouched[d] \in [Ids -> Nat]
      BY DEF RegistryTypeOK
    <2>4. byVouched[d][v.id] = 0
      BY <2>1, <2>2 DEF IndexExact
    <2>5. CASE i = v.id
      BY <2>1, <2>2, <2>3, <2>4, <2>5
    <2>6. CASE i # v.id
      BY <2>1, <2>2, <2>3, <2>6 DEF IndexExact
    <2> QED
      BY <2>5, <2>6
  <1>2. ASSUME NEW i \in Ids, RevokeVouch(i)
        PROVE  IndexExact'
    <2> SUFFICES ASSUME NEW d \in Dids, NEW j \in Ids
                 PROVE  byVouched'[d][j] =
                            IF j \in DOMAIN vouches' THEN vouches'[j].dids[d] ELSE 0
      BY DEF IndexExact
    <2>1. /\ i \in DOMAIN vouches
          /\ vouches' = [k \in DOMAIN vouches \ {i} |-> vouches[k]]
          /\ byVouched'[d] = [byVouched[d] EXCEPT ![i] =
                IF @ <= vouches[i].dids[d] THEN 0 ELSE @ - vouches[i].dids[d]]
      BY <1>2 DEF RevokeVouch
    <2>2. byVouched[d] \in [Ids -> Nat]
      BY DEF RegistryTypeOK
    <2>3. byVouched[d][i] = vouches[i].dids[d]
      BY <2>1 DEF IndexExact
    <2>4. byVouched'[d][i] = 0
      BY <2>1, <2>2, <2>3
    <2>5. CASE j = i
      BY <2>1, <2>4, <2>5
    <2>6. CASE j # i
      BY <2>1, <2>2, <2>6 DEF IndexExact
    <2> QED
      BY <2>5, <2>6
  <1>3. CASE UNCHANGED <<vouches, byVouched>>
    BY <1>3 DEF IndexExact
  <1> QED
    BY <1>1, <1>2, <1>3 DEF RegistryNext, TimePasses, registryVars

\* An empty registry has an empty index.
LEMMA IndexInit == RegistryInit => IndexExact
  BY DEF RegistryInit, IndexExact

\* An exact index finds the vouches that cover a device, and no other.
LEMMA ActiveIsCovering ==
    ASSUME RegistryTypeOK, IndexExact, NEW d \in Dids
    PROVE  ActiveIds(d) = Covering(d)
  BY DEF ActiveIds, Covering, IndexExact, RegistryTypeOK

\* The invariant the two theorems below are read off.
LEMMA IndexInvariant ==
    ASSUME ReuseIds = FALSE
    PROVE  RegistrySpec => [](RegistryTypeOK /\ IndexExact)
  <1>1. RegistryInit => RegistryTypeOK /\ IndexExact
    BY TypeInit, IndexInit
  <1>2. RegistryTypeOK /\ IndexExact /\ [RegistryNext]_registryVars => (RegistryTypeOK /\ IndexExact)'
    BY TypeStep, IndexStep
  <1> QED
    BY <1>1, <1>2, PTL DEF RegistrySpec

(***************************************************************************)
(* Without reuse of ids the index is exact in every reachable state.       *)
(***************************************************************************)
THEOREM IndexAlwaysExact ==
    ASSUME ReuseIds = FALSE
    PROVE  RegistrySpec => []IndexExact
  BY IndexInvariant, PTL

(***************************************************************************)
(* Without reuse of ids the trust of a device is that of the best vouch    *)
(* that covers it and has not expired.                                     *)
(***************************************************************************)
THEOREM TrustAlwaysBest ==
    ASSUME ReuseIds = FALSE
    PROVE  RegistrySpec => []TrustIsBest
  <1>1. RegistryTypeOK /\ IndexExact => TrustIsBest
    BY ActiveIsCovering DEF TrustIsBest, GetTrustForDevice
  <1> QED
    BY <1>1, IndexInvariant, PTL

(***************************************************************************)
(* The trust of a device as vouches come and go.                           *)
(***************************************************************************)

\* A set of trusts with a bound has a greatest one, if any is positive, and that
\* is what BestOf returns.
LEMMA BestIsGreatest ==
    ASSUME NEW m \in Nat, NEW S \in SUBSET (0 .. m)
    PROVE  /\ (\E s \in S : s > 0) => BestOf(S) \in S /\ \A s \in S : s <= BestOf(S)
           /\ BestOf(S) # NoTrust => BestOf(S) \in S /\ \E s \in S : s > 0
  <1> DEFINE positive == {s \in S : s > 0}
             lacks == {x \in 0 .. m : m - x \in positive}
  <1>1. CASE positive = {}
    BY <1>1 DEF BestOf
  <1>2. CASE positive # {}
    <2>1. PICK t \in positive : TRUE
      BY <1>2
    <2>2. m - t \in lacks
      <3>1. t \in 0 .. m /\ m - t \in 0 .. m /\ m - (m - t) = t
        OBVIOUS
      <3> HIDE DEF positive
      <3> QED
        BY <2>1, <3>1
    <2>3. lacks \in SUBSET Nat
      OBVIOUS
    <2>4. PICK i \in lacks : \A j \in lacks : i <= j
      BY <2>2, <2>3, LeastOf
    <2>5. m - i \in positive /\ i \in 0 .. m
      BY <2>4
    <2>6. \A u \in positive : u <= m - i
      <3> SUFFICES ASSUME NEW u \in positive
                   PROVE  u <= m - i
        OBVIOUS
      <3>1. u \in 0 .. m /\ m - u \in 0 .. m /\ m - (m - u) = u
        OBVIOUS
      <3>2. m - u \in lacks
        <4> HIDE DEF positive
        <4> QED
          BY <3>1
      <3>3. i <= m - u
        BY <2>4, <3>2
      <3> HIDE DEF positive, lacks
      <3> QED
        BY <2>5, <3>1, <3>3
    <2>7. BestOf(S) \in positive /\ \A u \in positive : u <= BestOf(S)
      <3>1. BestOf(S) = CHOOSE s \in positive : \A u \in positive : u <= s
        BY <1>2 DEF BestOf
      <3> HIDE DEF positive
      <3> QED
        BY <2>5, <2>6, <3>1
    <2>8. \A s \in S : s <= BestOf(S)
      <3> SUFFICES ASSUME NEW s \in S
                   PROVE  s <= BestOf(S)
        OBVIOUS
      <3>1. s \in 0 .. m /\ BestOf(S) \in 0 .. m /\ BestOf(S) > 0
        BY <2>7
      <3>2. CASE s > 0
        BY <2>7, <3>2
      <3>3. CASE ~ (s > 0)
        BY <3>1, <3>3
      <3> QED
        BY <3>2, <3>3
    <2> QED
      BY <2>7, <2>8
  <1> QED
    BY <1>1, <1>2

\* Fewer trusts, no better best.
LEMMA BestOfFewer ==
    ASSUME NEW m \in Nat, NEW S \in SUBSET (0 .. m), NEW T \in SUBSET S
    PROVE  AtLeast(BestOf(S), BestOf(T))
  <1> SUFFICES ASSUME BestOf(T) # NoTrust
               PROVE  BestOf(S) # NoTrust /\ BestOf(S) >= BestOf(T)
    BY DEF AtLeast
  <1>1. BestOf(T) \in T /\ \E s \in T : s > 0
    BY BestIsGreatest
  <1>2. BestOf(S) \in S /\ \A s \in S : s <= BestOf(S)
    BY <1>1, BestIsGreatest
  <1>3. BestOf(S) \in Int /\ BestOf(T) \in Int
    <2>1. S \subseteq Int
      OBVIOUS
    <2> QED
      BY <1>1, <1>2, <2>1
  <1>4. NoTrust \notin Int
    BY VouchesAssumption
  <1>5. BestOf(T) \in S
    BY <1>1
  <1>6. BestOf(T) <= BestOf(S)
    BY <1>2, <1>5
  <1> QED
    BY <1>3, <1>4, <1>6

\* The trusts of the vouches that are registered have a bound.
TrustsBounded == \E m \in Nat : \A i \in DOMAIN vouches : vouches[i].trust <= m

\* Every step of the registry keeps a bound: a vouch more raises it to its own
\* trust at most.
LEMMA BoundedStep ==
    ASSUME RegistryTypeOK, TrustsBounded, [RegistryNext]_registryVars
    PROVE  TrustsBounded'
  <1>1. PICK m \in Nat : \A i \in DOMAIN vouches : vouches[i].trust <= m
    BY DEF TrustsBounded
  <1>2. ASSUME NEW v \in Vouches, AddVouch(v)
        PROVE  TrustsBounded'
    <2>1. v.trust \in Nat
      OBVIOUS
    <2>2. vouches' = [i \in DOMAIN vouches \cup {v.id} |->
                        IF i = v.id THEN v ELSE vouches[i]]
      BY <1>2 DEF AddVouch
    <2>3. \A i \in DOMAIN vouches : vouches[i].trust \in Nat
      BY DEF RegistryTypeOK
    <2>4. PICK k \in Nat : m <= k /\ v.trust <= k
      BY <2>1
    <2>5. \A i \in DOMAIN vouches' : vouches'[i].trust <= k
      BY <1>1, <2>2, <2>3, <2>4
    <2> QED
      BY <2>5 DEF TrustsBounded
  <1>3. ASSUME NEW i \in Ids, RevokeVouch(i)
        PROVE  TrustsBounded'
    BY <1>1, <1>3 DEF RevokeVouch, TrustsBounded
  <1>4. CASE UNCHANGED vouches
    BY <1>4 DEF TrustsBounded
  <1> QED
    BY <1>2, <1>3, <1>4 DEF RegistryNext, TimePasses, registryVars

\* What has expired stays expired.
LEMMA ExpiredForGood ==
    ASSUME RegistryTypeOK, NEW i \in DOMAIN vouches, [RegistryNext]_registryVars,
           Expired(vouches[i])
    PROVE  Expired(vouches[i])'
           \/ i \notin DOMAIN vouches' \/ vouches'[i] # vouches[i]
  <1>1. now' \in Int /\ now' >= now
    <2>1. CASE now' = now
      BY <2>1 DEF RegistryTypeOK
    <2>2. CASE TimePasses
      BY <2>2 DEF RegistryTypeOK, TimePasses
    <2> QED
      BY <2>1, <2>2 DEF RegistryNext, AddVouch, RevokeVouch, registryVars
  <1>2. vouches[i].expires \in Int
    BY DEF RegistryTypeOK, Expired
  <1> QED
    BY <1>1, <1>2 DEF Expired, RegistryTypeOK

\* Unless a vouch names the device, nothing covers it that did not before.
LEMMA CoveringShrinks ==
    ASSUME ReuseIds = FALSE, RegistryTypeOK, NEW d \in Dids,
           [RegistryNext]_registryVars,
           ~ \E v \in Vouches : AddVouch(v) /\ v.dids[d] > 0
    PROVE  \A i \in Covering(d)' : i \in Covering(d) /\ vouches'[i] = vouches[i]
  <1> SUFFICES ASSUME NEW i \in Covering(d)'
               PROVE  i \in Covering(d) /\ vouches'[i] = vouches[i]
    OBVIOUS
  <1>1. i \in DOMAIN vouches' /\ vouches'[i].dids[d] > 0 /\ ~ Expired(vouches[i])'
    BY DEF Covering
  <1>2. i \in DOMAIN vouches /\ vouches'[i] = vouches[i]
    <2>1. ASSUME NEW v \in Vouches, AddVouch(v)
          PROVE  i \in DOMAIN vouches /\ vouches'[i] = vouches[i]
      <3>1. v.dids[d] \in Nat /\ ~ (v.dids[d] > 0)
        BY <2>1
      <3>2. v.id \notin DOMAIN vouches
            /\ vouches' = [j \in DOMAIN vouches \cup {v.id} |->
                             IF j = v.id THEN v ELSE vouches[j]]
        BY <2>1 DEF AddVouch
      <3>3. i # v.id
        BY <1>1, <3>1, <3>2
      <3> QED
        BY <1>1, <3>2, <3>3
    <2>2. ASSUME NEW j \in Ids, RevokeVouch(j)
          PROVE  i \in DOMAIN vouches /\ vouches'[i] = vouches[i]
      BY <1>1, <2>2 DEF RevokeVouch
    <2>3. CASE UNCHANGED vouches
      BY <1>1, <2>3
    <2> QED
      BY <2>1, <2>2, <2>3 DEF RegistryNext, TimePasses, registryVars
  <1>3. ~ Expired(vouches[i])
    BY <1>1, <1>2, ExpiredForGood DEF Expired
  <1> QED
    BY <1>1, <1>2, <1>3 DEF Covering

(***************************************************************************)
(* Without reuse of ids a device gains trust only by a vouch that names    *)
(* it, whatever expires or is revoked.                                     *)
(***************************************************************************)
THEOREM TrustRisesByVouch ==
    ASSUME ReuseIds = FALSE
    PROVE  RegistrySpec => TrustRisesByVouchOnly
  <1> DEFINE Inv == RegistryTypeOK /\ IndexExact /\ TrustsBounded
             A == \A d \in Dids :
                     \/ AtLeast(GetTrustForDevice(d), GetTrustForDevice(d)')
                     \/ \E v \in Vouches : AddVouch(v) /\ v.dids[d] > 0
  <1>1. RegistryInit => Inv
    BY TypeInit, IndexInit DEF RegistryInit, TrustsBounded
  <1>2. Inv /\ [RegistryNext]_registryVars => Inv'
    BY TypeStep, IndexStep, BoundedStep
  <1>3. Inv /\ Inv' /\ [RegistryNext]_registryVars => [A]_registryVars
    <2> SUFFICES ASSUME Inv, Inv', RegistryNext, NEW d \in Dids,
                        ~ \E v \in Vouches : AddVouch(v) /\ v.dids[d] > 0
                 PROVE  AtLeast(GetTrustForDevice(d), GetTrustForDevice(d)')
      BY DEF A
    <2> DEFINE told == {vouches[i].trust : i \in Covering(d)}
               tells == {vouches'[i].trust : i \in Covering(d)'}
    <2>1. PICK m \in Nat : \A i \in DOMAIN vouches : vouches[i].trust <= m
      BY DEF TrustsBounded
    <2>2. told \in SUBSET (0 .. m)
      BY <2>1 DEF Covering, RegistryTypeOK
    <2>3. tells \in SUBSET told
      BY CoveringShrinks
    <2>4. GetTrustForDevice(d) = BestOf(told)
      BY ActiveIsCovering DEF GetTrustForDevice
    <2>5. ActiveIds(d)' = Covering(d)'
      BY DEF ActiveIds, Covering, IndexExact, RegistryTypeOK
    <2>6. GetTrustForDevice(d)' = BestOf(tells)
      BY <2>5 DEF GetTrustForDevice, BestOf
    <2> HIDE DEF told, tells
    <2> QED
      BY <2>2, <2>3, <2>4, <2>6, BestOfFewer DEF AtLeast
  <1> QED
    BY <1>1, <1>2, <1>3, PTL DEF RegistrySpec, TrustRisesByVouchOnly

USE HandlerAssumption, TableAssumption

-----------------------------------------------------------------------------
(* The parts.                                                              *)

\* No step of the handler does to the registry what the registry does not.
LEMMA RegistryMoves == [Next]_vars => [RegistryNext]_registryVars
  BY DEF Next, HandleReplay, Handle, HandleWithCallback, CallbackReturns,
         CallbackRaises, SetDeviceTrust, InstallRule, ChangeVouches, Tick,
         Decide, RegistryNext, vars

(***************************************************************************)
(* The handler implements the registry: whatever it does, a callback       *)
(* included, the vouches and their index change by add_vouch, revoke_vouch *)
(* and the passing of time only.                                           *)
(***************************************************************************)
THEOREM ImplementsRegistry == Spec => RegistrySpec
  <1>1. Init => RegistryInit
    BY DEF Init
  <1> QED
    BY <1>1, RegistryMoves, PTL DEF Spec, RegistrySpec

(***************************************************************************)
(* The index stays exact under the handler, as it does alone.              *)
(***************************************************************************)
THEOREM HandlerIndexExact ==
    ASSUME ReuseIds = FALSE
    PROVE  Spec => []IndexExact
  BY ImplementsRegistry, IndexAlwaysExact, PTL

(***************************************************************************)
(* The trust the handler reads is that of the best active vouch.           *)
(***************************************************************************)
THEOREM HandlerTrustIsBest ==
    ASSUME ReuseIds = FALSE
    PROVE  Spec => []TrustIsBest
  BY ImplementsRegistry, TrustAlwaysBest, PTL

(***************************************************************************)
(* A sender gains trust only by a vouch that names it, whatever packets,   *)
(* callbacks and human decisions come between.                             *)
(***************************************************************************)
THEOREM HandlerTrustRises ==
    ASSUME ReuseIds = FALSE
    PROVE  Spec => TrustRisesByVouchOnly
  BY ImplementsRegistry, TrustRisesByVouch, PTL

\* The rules change by add_rule only.
LEMMA RulesMove ==
    ASSUME [Next]_vars
    PROVE  UNCHANGED <<rules, added>> \/ \E r \in Rules : AddRule(r)
  BY DEF Next, HandleReplay, Handle, HandleWithCallback, CallbackReturns,
         CallbackRaises, SetDeviceTrust, InstallRule, ChangeVouches, Tick,
         Decide, Process, Resolve, vars, airlockVars

\* The rules stay sorted and complete.
LEMMA RulesKept == Spec => []RulesInv
  <1>1. Init => RulesInv
    BY RulesInit DEF Init
  <1>2. RulesInv /\ [Next]_vars => RulesInv'
    <2> SUFFICES ASSUME RulesInv, [Next]_vars
                 PROVE  RulesInv'
      OBVIOUS
    <2>1. CASE UNCHANGED <<rules, added>>
      BY <2>1 DEF RulesInv, Sorted, Before, SameEntries, NumbersBelow
    <2> QED
      BY <2>1, RulesMove, AddRuleStep
  <1> QED
    BY <1>1, <1>2, PTL DEF Spec

(***************************************************************************)
(* The gate of a running handler applies the right rule, whatever order    *)
(* the rules come in and whenever.                                         *)
(***************************************************************************)
THEOREM HandlerGateByPriority == Spec => []HighestPriorityWins
  <1>1. RulesInv => HighestPriorityWins
    BY GateApplies DEF HighestPriorityWins
  <1> QED
    BY <1>1, RulesKept, PTL

-----------------------------------------------------------------------------
(* Types.                                                                  *)

\* What handle takes for the sender's trust is a trust.
LEMMA SenderTrustIsTrust ==
    ASSUME RegistryTypeOK, NEW d \in Dids,
           \A e \in DOMAIN known : known[e] \in 0 .. 10
    PROVE  SenderTrust(d) \in Trusts
  <1> DEFINE told == {vouches[i].trust : i \in ActiveIds(d)}
  <1>1. told \in SUBSET (0 .. MaxTrust)
    BY DEF ActiveIds, RegistryTypeOK
  <1>2. GetTrustForDevice(d) # NoTrust => GetTrustForDevice(d) \in Trusts
    BY <1>1, BestIsGreatest DEF GetTrustForDevice
  <1> QED
    BY <1>2 DEF SenderTrust

\* The gate answers with one of the three zones.
LEMMA GateInZones ==
    ASSUME RulesInv, NEW k \in Kinds, NEW t \in Trusts
    PROVE  Gate(k, t) \in Zones
  <1>1. CASE \E e \in added : Matches(e.rule, k, t)
    <2>1. PICK e \in Winners(k, t) : Gate(k, t) = e.rule.zone
      BY <1>1, GateApplies
    <2>2. e \in Entries
      BY DEF Winners, RulesInv
    <2> QED
      BY <2>1, <2>2, RulesAssumption DEF Entries
  <1>2. CASE ~ \E e \in added : Matches(e.rule, k, t)
    BY <1>2, GateApplies DEF ZoneByTrust, Zones
  <1> QED
    BY <1>1, <1>2

\* The decision for a zone is one of three.
LEMMA DecisionOfZone ==
    ASSUME NEW z \in Zones
    PROVE  DecisionOf(z) \in {"accept", "pending", "reject"}
  BY DEF DecisionOf, Zones

\* The queue keeps its type when a packet is processed.
LEMMA ProcessType ==
    ASSUME AirlockTypeOK, NEW id \in PacketIds, NEW k \in Kinds, NEW t \in Trusts,
           NEW s \in Int, Process(id, k, t, s)
    PROVE  AirlockTypeOK'
  <1>1. CASE pending' = pending
    BY <1>1 DEF AirlockTypeOK, Process
  <1>2. CASE pending' = [i \in DOMAIN pending \cup {id} |->
                            IF i = id THEN [kind |-> k, trust |-> t, since |-> s]
                            ELSE pending[i]]
    BY <1>2 DEF AirlockTypeOK, Process
  <1> QED
    BY <1>1, <1>2 DEF Process, PendingAfter

\* The call that ends is one of the stack, and the others stay as they were.
LEMMA CurrentInStack ==
    ASSUME TypeOK, Leave
    PROVE  /\ Len(handling) \in DOMAIN handling
           /\ Current \in [packet : Packets, trust : Trusts, at : Int, rules : Nat]
           /\ Current.packet \in Packets /\ Current.packet.kind \in Kinds
           /\ Current.trust \in Trusts
           /\ Current.at \in Int /\ Current.rules \in Nat
  <1> DEFINE S == [packet : Packets, trust : Trusts, at : Int, rules : Nat]
  <1>1. handling \in Seq(S) /\ handling # <<>>
    BY DEF TypeOK, Leave
  <1> HIDE DEF S
  <1>2. Len(handling) \in Nat \ {0} /\ DOMAIN handling = 1 .. Len(handling)
    BY <1>1, EmptySeq, LenProperties
  <1>3. handling[Len(handling)] \in S
    BY <1>1, <1>2
  <1> QED
    BY <1>2, <1>3 DEF Current, S

\* Leaving takes the last packet off the stack and keeps those below it.
LEMMA StackLeft ==
    ASSUME TypeOK, Leave
    PROVE  /\ handling' \in Seq([packet : Packets, trust : Trusts, at : Int, rules : Nat])
           /\ DOMAIN handling' = 1 .. Len(handling) - 1
           /\ \A k \in DOMAIN handling' :
                k \in DOMAIN handling /\ handling'[k] = handling[k]
           /\ Len(handling) \notin DOMAIN handling'
  <1> DEFINE S == [packet : Packets, trust : Trusts, at : Int, rules : Nat]
  <1>1. /\ handling \in Seq(S) /\ handling # <<>>
        /\ handling' = SubSeq(handling, 1, Len(handling) - 1)
    BY DEF TypeOK, Leave
  <1> HIDE DEF S
  <1>2. Len(handling) \in Nat \ {0} /\ DOMAIN handling = 1 .. Len(handling)
    BY <1>1, EmptySeq, LenProperties
  <1>3. /\ handling' \in Seq(S)
        /\ DOMAIN handling' = 1 .. Len(handling) - 1
        /\ \A k \in 1 .. Len(handling) - 1 : handling'[k] = handling[k]
    BY <1>1, <1>2
  <1> QED
    BY <1>2, <1>3 DEF S

\* Entering puts a packet on top of the stack and keeps those below it.
LEMMA StackEntered ==
    ASSUME TypeOK, NEW h \in [packet : Packets, trust : Trusts, at : Int, rules : Nat],
           handling' = Append(handling, h)
    PROVE  /\ handling' \in Seq([packet : Packets, trust : Trusts, at : Int, rules : Nat])
           /\ DOMAIN handling' = DOMAIN handling \cup {Len(handling) + 1}
           /\ \A k \in DOMAIN handling : handling'[k] = handling[k]
           /\ handling'[Len(handling) + 1] = h
           /\ Len(handling) + 1 \notin DOMAIN handling
  <1> DEFINE S == [packet : Packets, trust : Trusts, at : Int, rules : Nat]
  <1>1. handling \in Seq(S) /\ h \in S
    BY DEF TypeOK
  <1> HIDE DEF S
  <1>2. /\ Len(handling) \in Nat /\ DOMAIN handling = 1 .. Len(handling)
        /\ handling' \in Seq(S)
        /\ DOMAIN handling' = 1 .. Len(handling) + 1
        /\ \A k \in 1 .. Len(handling) : handling'[k] = handling[k]
        /\ handling'[Len(handling) + 1] = h
    BY <1>1
  <1> QED
    BY <1>2 DEF S

\* What a cleanup leaves of the table: part of it, and nothing goes that is
\* not more than a window older than the cleanup.
LEMMA TableForgets ==
    ASSUME lastCleanup \in Int, now \in Int, lastCleanup <= now,
           \A n \in DOMAIN seen : seen[n] \in Int
    PROVE  /\ DOMAIN SeenAfterCleanup(now) \subseteq DOMAIN seen
           /\ \A n \in DOMAIN SeenAfterCleanup(now) :
                 SeenAfterCleanup(now)[n] = seen[n]
           /\ \A n \in DOMAIN seen \ DOMAIN SeenAfterCleanup(now) :
                 seen[n] + Window < LastCleanupAfter(now)
           /\ LastCleanupAfter(now) \in Int
           /\ LastCleanupAfter(now) >= lastCleanup
           /\ LastCleanupAfter(now) <= now
  <1>1. CASE CleanupDue(now)
    <2>1. /\ SeenAfterCleanup(now) = [n \in DOMAIN seen \ Outdated(now) |-> seen[n]]
          /\ LastCleanupAfter(now) = now
      BY <1>1 DEF SeenAfterCleanup, LastCleanupAfter
    <2> QED
      BY <2>1 DEF Outdated
  <1>2. CASE ~ CleanupDue(now)
    BY <1>2 DEF SeenAfterCleanup, LastCleanupAfter
  <1> QED
    BY <1>1, <1>2

\* What a step does to the table and the clock: only handle touches the table,
\* and no time passes while it does.
LEMMA TableMoves ==
    ASSUME [Next]_vars
    PROVE  \/ UNCHANGED tableVars /\ (now' = now \/ now' = now + 1)
           \/ CleansUp(now) /\ now' = now
           \/ \E p \in Packets : Records(p.nonce, now) /\ now' = now
  <1>1. ASSUME NEW p \in Packets, HandleReplay(p)
        PROVE  (UNCHANGED tableVars \/ CleansUp(now)) /\ now' = now
    BY <1>1 DEF HandleReplay, Refuses, registryVars
  <1>2. ASSUME NEW p \in Packets, Handle(p) \/ HandleWithCallback(p)
        PROVE  Records(p.nonce, now) /\ now' = now
    BY <1>2 DEF Handle, HandleWithCallback, registryVars
  <1>3. CASE \/ CallbackReturns \/ CallbackRaises \/ ChangeVouches \/ Tick
             \/ \E s \in Settings : SetDeviceTrust(s[1], s[2])
             \/ \E r \in Rules : InstallRule(r)
             \/ \E id \in PacketIds : Decide(id)
             \/ UNCHANGED vars
    BY <1>3 DEF CallbackReturns, CallbackRaises, ChangeVouches, Tick, AddVouch,
         RevokeVouch, TimePasses, SetDeviceTrust, InstallRule, Decide,
         registryVars, vars
  <1> QED
    BY <1>1, <1>2, <1>3 DEF Next

\* The table keeps its type.
LEMMA TableType ==
    ASSUME TypeOK, [Next]_vars
    PROVE  /\ DOMAIN seen' \subseteq PacketIds
           /\ \A n \in DOMAIN seen' : seen'[n] \in Int /\ seen'[n] <= now'
           /\ lastCleanup' \in Int /\ lastCleanup' <= now'
           /\ now' \in Int /\ now' >= now
  <1>1. /\ now \in Int /\ lastCleanup \in Int /\ lastCleanup <= now
        /\ DOMAIN seen \subseteq PacketIds
        /\ \A n \in DOMAIN seen : seen[n] \in Int /\ seen[n] <= now
    BY DEF TypeOK, RegistryTypeOK
  <1>2. CASE UNCHANGED tableVars /\ (now' = now \/ now' = now + 1)
    BY <1>1, <1>2 DEF tableVars
  <1>3. CASE CleansUp(now) /\ now' = now
    BY <1>1, <1>3, TableForgets DEF CleansUp
  <1>4. ASSUME NEW p \in Packets, Records(p.nonce, now), now' = now
        PROVE  /\ DOMAIN seen' \subseteq PacketIds
               /\ \A n \in DOMAIN seen' : seen'[n] \in Int /\ seen'[n] <= now'
               /\ lastCleanup' \in Int /\ lastCleanup' <= now'
    <2> DEFINE kept == SeenAfterCleanup(now)
    <2>1. /\ seen' = [n \in DOMAIN kept \cup {p.nonce} |->
                         IF n = p.nonce THEN now ELSE kept[n]]
          /\ lastCleanup' = LastCleanupAfter(now)
      BY <1>4 DEF Records
    <2>2. /\ DOMAIN kept \subseteq DOMAIN seen
          /\ \A n \in DOMAIN kept : kept[n] = seen[n]
          /\ LastCleanupAfter(now) \in Int /\ LastCleanupAfter(now) <= now
      BY <1>1, TableForgets
    <2>3. p.nonce \in PacketIds
      OBVIOUS
    <2> HIDE DEF kept
    <2> QED
      BY <1>1, <1>4, <2>1, <2>2, <2>3
  <1> QED
    BY <1>1, <1>2, <1>3, <1>4, TableMoves

\* The types of the variables hold at the start.
LEMMA HandlerTypeInit == Init => TypeOK
  <1> SUFFICES ASSUME Init PROVE TypeOK
    OBVIOUS
  <1>1. RegistryTypeOK
    BY TypeInit DEF Init
  <1>2. AirlockTypeOK
    BY DEF Init, AirlockInit, AirlockTypeOK
  <1>3. now = 0 /\ lastCleanup = 0 /\ DOMAIN seen = {}
    BY DEF Init, RegistryInit, TableInit
  <1>4. /\ handling = <<>> /\ responses = <<>>
        /\ DOMAIN known = {} /\ DOMAIN resolved = {}
    BY DEF Init
  <1> QED
    BY <1>1, <1>2, <1>3, <1>4 DEF TypeOK

\* And they are kept by every step.
LEMMA HandlerTypeStep ==
    ASSUME RulesInv, TypeOK, [Next]_vars
    PROVE  TypeOK'
  <1> DEFINE H == [packet : Packets, trust : Trusts, at : Int, rules : Nat]
             R == [packet : Packets, decision : {"accept", "pending", "reject"},
                   zone : Zones, trust : Trusts, at : Int, rules : Nat]
             KnownOK == /\ DOMAIN known \subseteq Dids
                        /\ \A d \in DOMAIN known : known[d] \in 0 .. 10
             ResolvedOK == /\ DOMAIN resolved \subseteq PacketIds
                           /\ \A i \in DOMAIN resolved : resolved[i] \in Int
             TableOK == /\ DOMAIN seen \subseteq PacketIds
                        /\ \A n \in DOMAIN seen : seen[n] \in Int /\ seen[n] <= now
                        /\ lastCleanup \in Int /\ lastCleanup <= now
  <1>1. RegistryTypeOK'
    BY RegistryMoves, TypeStep DEF TypeOK
  <1>2. TableOK'
    BY TableType
  <1>3. /\ AirlockTypeOK /\ KnownOK /\ ResolvedOK
        /\ handling \in Seq(H) /\ responses \in Seq(R)
        /\ now \in Int /\ Len(rules) \in Nat
    BY DEF TypeOK, RegistryTypeOK, RulesInv
  <1> SUFFICES /\ AirlockTypeOK' /\ KnownOK' /\ ResolvedOK'
               /\ handling' \in Seq(H) /\ responses' \in Seq(R)
    BY <1>1, <1>2 DEF TypeOK
  <1> HIDE DEF TableOK
  <1>4. ASSUME NEW p \in Packets,
               HandleReplay(p) \/ Handle(p) \/ HandleWithCallback(p)
        PROVE  /\ AirlockTypeOK' /\ KnownOK' /\ ResolvedOK'
               /\ handling' \in Seq(H) /\ responses' \in Seq(R)
    <2> DEFINE trust == SenderTrust(p.source)
               zone == Gate(p.kind, trust)
    <2>1. /\ p.source \in Dids /\ p.kind \in Kinds /\ p.id \in PacketIds
          /\ trust \in Trusts /\ zone \in Zones
          /\ DecisionOf(zone) \in {"accept", "pending", "reject"}
      <3>1. p.source \in Dids /\ p.kind \in Kinds /\ p.id \in PacketIds
        OBVIOUS
      <3>2. trust \in Trusts
        BY <3>1, SenderTrustIsTrust DEF TypeOK
      <3>3. zone \in Zones
        BY <3>1, <3>2, GateInZones
      <3> QED
        BY <3>1, <3>2, <3>3, DecisionOfZone
    <2> DEFINE r == [packet |-> p, decision |-> DecisionOf(zone), zone |-> zone,
                     trust |-> trust, at |-> now, rules |-> Len(rules)]
               h == [packet |-> p, trust |-> trust, at |-> now, rules |-> Len(rules)]
    <2>2. r \in R /\ h \in H
      BY <1>3, <2>1
    <2>3. CASE HandleReplay(p)
      BY <1>3, <2>3 DEF HandleReplay, AirlockTypeOK, airlockVars
    <2>4. CASE Handle(p)
      <3>1. AirlockTypeOK'
        BY <1>3, <2>1, <2>4, ProcessType DEF Handle
      <3>2. responses' = Append(responses, r) /\ UNCHANGED <<known, handling, resolved>>
        BY <2>4 DEF Handle, Answers
      <3> HIDE DEF r, h, R, H
      <3> QED
        BY <1>3, <2>2, <3>1, <3>2
    <2>5. CASE HandleWithCallback(p)
      <3>1. AirlockTypeOK'
        BY <1>3, <2>1, <2>5, ProcessType DEF HandleWithCallback
      <3>2. handling' = Append(handling, h) /\ UNCHANGED <<known, responses, resolved>>
        BY <2>5 DEF HandleWithCallback
      <3> HIDE DEF r, h, R, H
      <3> QED
        BY <1>3, <2>2, <3>1, <3>2
    <2> QED
      BY <1>4, <2>3, <2>4, <2>5
  <1>5. CASE CallbackReturns
    <2> DEFINE zone == Gate(Current.packet.kind, Current.trust)
               r == [packet |-> Current.packet, decision |-> "pending", zone |-> zone,
                     trust |-> Current.trust, at |-> Current.at,
                     rules |-> Current.rules]
    <2>1. /\ Current.packet \in Packets /\ Current.packet.kind \in Kinds
          /\ Current.trust \in Trusts /\ Current.at \in Int /\ Current.rules \in Nat
          /\ handling' \in Seq(H)
      BY <1>5, CurrentInStack, StackLeft DEF CallbackReturns
    <2>2. zone \in Zones
      BY <2>1, GateInZones
    <2>3. r \in R
      BY <2>1, <2>2
    <2>4. /\ responses' = Append(responses, r)
          /\ UNCHANGED <<rules, added, pending, known, resolved>>
      BY <1>5 DEF CallbackReturns, Answers, airlockVars
    <2> HIDE DEF r, R, H
    <2> QED
      BY <1>3, <2>1, <2>3, <2>4 DEF AirlockTypeOK
  <1>6. CASE CallbackRaises
    <2>1. handling' \in Seq(H)
      BY <1>6, StackLeft DEF CallbackRaises
    <2> QED
      BY <1>3, <1>6, <2>1 DEF CallbackRaises, AirlockTypeOK, airlockVars
  <1>7. ASSUME NEW s \in Settings, SetDeviceTrust(s[1], s[2])
        PROVE  /\ AirlockTypeOK' /\ KnownOK' /\ ResolvedOK'
               /\ handling' \in Seq(H) /\ responses' \in Seq(R)
    <2>1. s[1] \in Dids /\ s[2] \in Int
      OBVIOUS
    <2>2. Clamped(s[2]) \in 0 .. 10
      BY <2>1 DEF Clamped
    <2> QED
      BY <1>3, <1>7, <2>1, <2>2 DEF SetDeviceTrust, AirlockTypeOK, airlockVars
  <1>8. ASSUME NEW r \in Rules, InstallRule(r)
        PROVE  /\ AirlockTypeOK' /\ KnownOK' /\ ResolvedOK'
               /\ handling' \in Seq(H) /\ responses' \in Seq(R)
    <2>1. RulesInv'
      BY <1>8, AddRuleStep DEF InstallRule
    <2>2. AirlockTypeOK'
      BY <1>3, <1>8, <2>1 DEF InstallRule, AddRule, AirlockTypeOK, RulesInv
    <2> QED
      BY <1>3, <1>8, <2>2 DEF InstallRule
  <1>9. CASE ChangeVouches \/ Tick
    BY <1>3, <1>9 DEF ChangeVouches, Tick, AirlockTypeOK, airlockVars
  <1>10. ASSUME NEW id \in PacketIds, Decide(id)
        PROVE  /\ AirlockTypeOK' /\ KnownOK' /\ ResolvedOK'
               /\ handling' \in Seq(H) /\ responses' \in Seq(R)
    <2>1. /\ id \in DOMAIN pending /\ pending[id].since \in Int
          /\ pending' = [i \in DOMAIN pending \ {id} |-> pending[i]]
          /\ resolved' = [i \in DOMAIN resolved \cup {id} |->
                             IF i = id THEN pending[id].since ELSE resolved[i]]
          /\ UNCHANGED <<rules, added, known, handling, responses>>
      BY <1>3, <1>10 DEF Decide, Resolve, AirlockTypeOK
    <2>2. AirlockTypeOK'
      BY <1>3, <2>1 DEF AirlockTypeOK
    <2> QED
      BY <1>3, <2>1, <2>2
  <1>11. CASE UNCHANGED vars
    BY <1>3, <1>11 DEF vars, AirlockTypeOK, airlockVars
  <1> QED
    BY <1>4, <1>5, <1>6, <1>7, <1>8, <1>9, <1>10, <1>11 DEF Next

(***************************************************************************)
(* Every variable of the handler keeps its type; in particular every trust *)
(* that is decided by is one of the scale, every response has a zone, and  *)
(* no time in the table is ahead of the clock.                             *)
(***************************************************************************)
THEOREM HandlerTypeCorrect == Spec => []TypeOK
  <1>1. Init => TypeOK /\ RulesInv
    BY HandlerTypeInit, RulesInit DEF Init
  <1>2. RulesInv /\ RulesInv' /\ TypeOK /\ [Next]_vars => TypeOK'
    BY HandlerTypeStep
  <1> QED
    BY <1>1, <1>2, RulesKept, PTL DEF Spec

-----------------------------------------------------------------------------
(* Packets are decided once.                                               *)

(***************************************************************************)
(* p was let through at time t: its nonce is held, with a time no earlier, *)
(* or a cleanup has come more than a window after t.                       *)
(***************************************************************************)
Settled(p, t) ==
    /\ t \in Int /\ t <= now
    /\ p.stamp \in Int
    /\ \/ p.nonce \in DOMAIN seen /\ seen[p.nonce] >= t
       \/ t + Window < lastCleanup

\* What is asked of p if it is let through at s, and again at t.
Again(p, s, t) == t - s > Window /\ p.stamp > s

\* The same of two times in either order.
Apart(p, s, t) == (s <= t => Again(p, s, t)) /\ (t <= s => Again(p, t, s))

(***************************************************************************)
(* The inductive invariant: the packets answered, and those whose          *)
(* callbacks run, are settled, and any two of one packet are apart.        *)
(***************************************************************************)
AllSettled ==
    /\ \A i \in DOMAIN responses : Settled(responses[i].packet, responses[i].at)
    /\ \A k \in DOMAIN handling : Settled(handling[k].packet, handling[k].at)

AnsweredApart ==
    \A i, j \in DOMAIN responses :
        i # j /\ responses[i].packet = responses[j].packet =>
            Apart(responses[i].packet, responses[i].at, responses[j].at)

HandledApart ==
    \A k, l \in DOMAIN handling :
        k # l /\ handling[k].packet = handling[l].packet =>
            Apart(handling[k].packet, handling[k].at, handling[l].at)

BothApart ==
    \A k \in DOMAIN handling, i \in DOMAIN responses :
        handling[k].packet = responses[i].packet =>
            Apart(handling[k].packet, handling[k].at, responses[i].at)

OnceInv == TypeOK /\ AllSettled /\ AnsweredApart /\ HandledApart /\ BothApart

\* What is settled stays so: a nonce goes by a cleanup, a window late.
LEMMA SettledStays ==
    ASSUME TypeOK, [Next]_vars
    PROVE  \A p \in Packets, t \in Int : Settled(p, t) => Settled(p, t)'
  <1> SUFFICES ASSUME NEW p \in Packets, NEW t \in Int, Settled(p, t)
               PROVE  Settled(p, t)'
    OBVIOUS
  <1>1. /\ now \in Int /\ lastCleanup \in Int /\ lastCleanup <= now
        /\ \A n \in DOMAIN seen : seen[n] \in Int
        /\ now' \in Int /\ now' >= now
    BY TableType DEF TypeOK, RegistryTypeOK
  <1>2. t <= now /\ p.stamp \in Int
    BY DEF Settled
  <1> DEFINE kept == SeenAfterCleanup(now)
  <1>3. /\ LastCleanupAfter(now) \in Int /\ lastCleanup <= LastCleanupAfter(now)
        /\ \/ p.nonce \in DOMAIN kept /\ kept[p.nonce] >= t
           \/ t + Window < LastCleanupAfter(now)
    BY <1>1, TableForgets DEF Settled
  <1> HIDE DEF kept
  <1>4. CASE UNCHANGED tableVars
    BY <1>1, <1>2, <1>4 DEF Settled, tableVars
  <1>5. CASE CleansUp(now)
    BY <1>1, <1>2, <1>3, <1>5 DEF Settled, CleansUp, kept
  <1>6. ASSUME NEW q \in Packets, Records(q.nonce, now)
        PROVE  Settled(p, t)'
    <2>1. /\ seen' = [n \in DOMAIN kept \cup {q.nonce} |->
                         IF n = q.nonce THEN now ELSE kept[n]]
          /\ lastCleanup' = LastCleanupAfter(now)
      BY <1>6 DEF Records, kept
    <2> QED
      BY <1>1, <1>2, <1>3, <2>1 DEF Settled
  <1> QED
    BY <1>4, <1>5, <1>6, TableMoves

\* What is let through although it is settled was stamped ahead, and comes a
\* window late.
LEMMA SettledPasses ==
    ASSUME TypeOK, NEW p \in Packets, Passes(p.nonce, p.stamp, now)
    PROVE  \A t : Settled(p, t) => Again(p, t, now) /\ Apart(p, t, now) /\ Apart(p, now, t)
  <1> SUFFICES ASSUME NEW t, Settled(p, t)
               PROVE  Again(p, t, now) /\ Apart(p, t, now) /\ Apart(p, now, t)
    OBVIOUS
  <1>1. /\ now \in Int /\ lastCleanup \in Int /\ lastCleanup <= now
        /\ \A n \in DOMAIN seen : seen[n] \in Int
        /\ t \in Int /\ t <= now /\ p.stamp \in Int
    BY DEF TypeOK, RegistryTypeOK, Settled
  <1>2. now - p.stamp <= Window /\ p.nonce \notin DOMAIN SeenAfterCleanup(now)
    BY DEF Passes, StampFresh
  <1>3. t + Window < now
    <2>1. CASE p.nonce \in DOMAIN seen /\ seen[p.nonce] >= t
      BY <1>1, <1>2, <2>1, TableForgets
    <2>2. CASE t + Window < lastCleanup
      BY <1>1, <2>2
    <2> QED
      BY <2>1, <2>2 DEF Settled
  <1> QED
    BY <1>1, <1>2, <1>3 DEF Again, Apart

\* What has just been recorded is settled.
LEMMA RecordedIsSettled ==
    ASSUME TypeOK, NEW p \in Packets, Passes(p.nonce, p.stamp, now),
           Records(p.nonce, now), now' = now
    PROVE  Settled(p, now)'
  <1>1. now \in Int /\ p.stamp \in Int
    BY DEF TypeOK, RegistryTypeOK, Passes, StampFresh
  <1>2. p.nonce \in DOMAIN seen' /\ seen'[p.nonce] = now
    BY DEF Records
  <1> QED
    BY <1>1, <1>2 DEF Settled

\* At the start nothing has been answered.
LEMMA OnceInit == Init => OnceInv
  <1> SUFFICES ASSUME Init PROVE OnceInv
    OBVIOUS
  <1>1. responses = <<>> /\ handling = <<>>
    BY DEF Init
  <1> QED
    BY <1>1, HandlerTypeInit
       DEF OnceInv, AllSettled, AnsweredApart, HandledApart, BothApart

\* The shape of the two sequences.
LEMMA OnceShape ==
    ASSUME TypeOK
    PROVE  /\ Len(responses) \in Nat /\ DOMAIN responses = 1 .. Len(responses)
           /\ \A i \in DOMAIN responses :
                responses[i].packet \in Packets /\ responses[i].at \in Int
           /\ \A k \in DOMAIN handling :
                /\ handling[k].packet \in Packets /\ handling[k].at \in Int
                /\ handling[k].rules \in Nat
           /\ \A r : responses' = Append(responses, r) =>
                /\ DOMAIN responses' = 1 .. Len(responses) + 1
                /\ \A i \in 1 .. Len(responses) : responses'[i] = responses[i]
                /\ responses'[Len(responses) + 1] = r
  <1> DEFINE H == [packet : Packets, trust : Trusts, at : Int, rules : Nat]
             R == [packet : Packets, decision : {"accept", "pending", "reject"},
                   zone : Zones, trust : Trusts, at : Int, rules : Nat]
  <1>1. responses \in Seq(R) /\ handling \in Seq(H)
    BY DEF TypeOK
  <1>2. /\ \A x \in R : x.packet \in Packets /\ x.at \in Int
        /\ \A x \in H : x.packet \in Packets /\ x.at \in Int /\ x.rules \in Nat
    OBVIOUS
  <1> HIDE DEF R, H
  <1>3. /\ Len(responses) \in Nat /\ DOMAIN responses = 1 .. Len(responses)
        /\ \A i \in DOMAIN responses : responses[i] \in R
        /\ \A k \in DOMAIN handling : handling[k] \in H
    BY <1>1
  <1>4. \A r : responses' = Append(responses, r) =>
                /\ DOMAIN responses' = 1 .. Len(responses) + 1
                /\ \A i \in 1 .. Len(responses) : responses'[i] = responses[i]
                /\ responses'[Len(responses) + 1] = r
    BY <1>1
  <1> QED
    BY <1>2, <1>3, <1>4

\* Every step keeps the invariant.
LEMMA OnceStep ==
    ASSUME RulesInv, OnceInv, [Next]_vars
    PROVE  OnceInv'
  <1> DEFINE n == Len(responses)
             m == Len(handling)
  <1>1. TypeOK /\ TypeOK'
    BY HandlerTypeStep DEF OnceInv
  <1>2. /\ n \in Nat /\ DOMAIN responses = 1 .. n
        /\ \A i \in DOMAIN responses :
                responses[i].packet \in Packets /\ responses[i].at \in Int
        /\ \A k \in DOMAIN handling :
                handling[k].packet \in Packets /\ handling[k].at \in Int
        /\ \A r : responses' = Append(responses, r) =>
             /\ DOMAIN responses' = 1 .. n + 1
             /\ \A i \in 1 .. n : responses'[i] = responses[i]
             /\ responses'[n + 1] = r
    BY <1>1, OnceShape
  <1> HIDE DEF n
  <1>3. /\ \A i \in DOMAIN responses : Settled(responses[i].packet, responses[i].at)'
                \/ responses'[i] # responses[i]
        /\ \A k \in DOMAIN handling : Settled(handling[k].packet, handling[k].at)'
                \/ handling'[k] # handling[k]
    BY <1>1, <1>2, SettledStays DEF OnceInv, AllSettled
  <1>4. ASSUME NEW p \in Packets, Handle(p)
        PROVE  OnceInv'
    <2>1. PICK r : /\ responses' = Append(responses, r)
                   /\ r.packet = p /\ r.at = now
      BY <1>4 DEF Handle, Answers
    <2>2. /\ handling' = handling /\ now' = now
          /\ Passes(p.nonce, p.stamp, now) /\ Records(p.nonce, now)
      BY <1>4 DEF Handle, LetThrough, registryVars
    <2>3. /\ DOMAIN responses' = 1 .. n + 1
          /\ \A i \in 1 .. n : responses'[i] = responses[i]
          /\ responses'[n + 1] = r
      BY <1>2, <2>1
    <2>4. /\ Settled(p, now)'
          /\ \A t : Settled(p, t) => Apart(p, t, now) /\ Apart(p, now, t)
      BY <1>1, <2>2, RecordedIsSettled, SettledPasses
    <2>5. AllSettled'
      <3>1. ASSUME NEW i \in DOMAIN responses'
            PROVE  Settled(responses[i].packet, responses[i].at)'
        <4>1. CASE i \in 1 .. n
          BY <1>2, <1>3, <2>3, <4>1
        <4>2. CASE i = n + 1
          BY <2>1, <2>2, <2>3, <2>4, <4>2 DEF Settled
        <4> QED
          BY <1>2, <2>3, <4>1, <4>2
      <3>2. \A k \in DOMAIN handling' : Settled(handling[k].packet, handling[k].at)'
        BY <1>3, <2>2
      <3> QED
        BY <3>1, <3>2 DEF AllSettled
    <2>6. AnsweredApart'
      <3>1. \A i \in 1 .. n : responses[i].packet = r.packet =>
               /\ Apart(r.packet, r.at, responses[i].at)
               /\ Apart(r.packet, responses[i].at, r.at)
        BY <1>2, <2>1, <2>3, <2>4 DEF OnceInv, AllSettled
      <3> SUFFICES ASSUME NEW i \in 1 .. n + 1, NEW j \in 1 .. n + 1, i # j,
                          responses'[i].packet = responses'[j].packet
                   PROVE  Apart(responses'[i].packet, responses'[i].at,
                                responses'[j].at)
        BY <2>3 DEF AnsweredApart, Apart, Again
      <3>2. CASE i \in 1 .. n /\ j \in 1 .. n
        BY <1>2, <2>3, <3>2 DEF OnceInv, AnsweredApart
      <3>3. CASE i = n + 1 /\ j \in 1 .. n
        BY <2>3, <3>1, <3>3
      <3>4. CASE i \in 1 .. n /\ j = n + 1
        BY <2>3, <3>1, <3>4
      <3>5. (i \in 1 .. n \/ i = n + 1) /\ (j \in 1 .. n \/ j = n + 1)
        BY <1>2
      <3> QED
        BY <3>2, <3>3, <3>4, <3>5
    <2>7. HandledApart' /\ BothApart'
      BY <1>2, <2>1, <2>2, <2>3, <2>4 DEF OnceInv, AllSettled, HandledApart, BothApart
    <2> QED
      BY <1>1, <2>5, <2>6, <2>7 DEF OnceInv
  <1>5. ASSUME NEW p \in Packets, HandleWithCallback(p)
        PROVE  OnceInv'
    <2> DEFINE h == [packet |-> p, trust |-> SenderTrust(p.source), at |-> now,
                     rules |-> Len(rules)]
    <2>1. /\ handling' = Append(handling, h) /\ responses' = responses /\ now' = now
          /\ Passes(p.nonce, p.stamp, now) /\ Records(p.nonce, now)
      BY <1>5 DEF HandleWithCallback, LetThrough, registryVars
    <2>2. /\ h.packet = p /\ h.at = now
          /\ h \in [packet : Packets, trust : Trusts, at : Int, rules : Nat]
      <3>1. p.source \in Dids
        OBVIOUS
      <3> QED
        BY <1>1, <3>1, SenderTrustIsTrust DEF TypeOK, RegistryTypeOK, RulesInv
    <2> HIDE DEF h
    <2>3. /\ DOMAIN handling' = DOMAIN handling \cup {m + 1}
          /\ \A k \in DOMAIN handling : handling'[k] = handling[k]
          /\ handling'[m + 1] = h
          /\ m + 1 \notin DOMAIN handling
      BY <1>1, <2>1, <2>2, StackEntered
    <2>4. /\ Settled(p, now)'
          /\ \A t : Settled(p, t) => Apart(p, t, now) /\ Apart(p, now, t)
      BY <1>1, <2>1, RecordedIsSettled, SettledPasses
    <2> HIDE DEF m
    <2>5. AllSettled'
      <3>1. ASSUME NEW k \in DOMAIN handling'
            PROVE  Settled(handling[k].packet, handling[k].at)'
        <4>1. CASE k \in DOMAIN handling
          BY <1>3, <2>3, <4>1
        <4>2. CASE k = m + 1
          BY <2>1, <2>2, <2>3, <2>4, <4>2 DEF Settled
        <4> QED
          BY <2>3, <4>1, <4>2
      <3>2. \A i \in DOMAIN responses' : Settled(responses[i].packet, responses[i].at)'
        BY <1>3, <2>1
      <3> QED
        BY <3>1, <3>2 DEF AllSettled
    <2>6. AnsweredApart'
      BY <2>1 DEF OnceInv, AnsweredApart
    <2>7. HandledApart' /\ BothApart'
      BY <2>1, <2>2, <2>3, <2>4 DEF OnceInv, AllSettled, HandledApart, BothApart
    <2> QED
      BY <1>1, <2>5, <2>6, <2>7 DEF OnceInv
  <1>6. CASE CallbackReturns
    <2>1. PICK r : /\ responses' = Append(responses, r)
                   /\ r.packet = handling[m].packet /\ r.at = handling[m].at
      BY <1>6 DEF CallbackReturns, Answers, Current
    <2>2. /\ m \in DOMAIN handling /\ m \notin DOMAIN handling'
          /\ \A k \in DOMAIN handling' :
                k \in DOMAIN handling /\ handling'[k] = handling[k]
      BY <1>1, <1>6, CurrentInStack, StackLeft DEF CallbackReturns
    <2>3. /\ DOMAIN responses' = 1 .. n + 1
          /\ \A i \in 1 .. n : responses'[i] = responses[i]
          /\ responses'[n + 1] = r
      BY <1>2, <2>1
    <2>4. UNCHANGED <<tableVars, now>>
      BY <1>6 DEF CallbackReturns, registryVars
    <2> HIDE DEF m
    <2>5. AllSettled'
      <3>1. \A p, t : Settled(p, t) => Settled(p, t)'
        BY <2>4 DEF Settled, tableVars
      <3> QED
        BY <1>2, <2>1, <2>2, <2>3, <3>1 DEF OnceInv, AllSettled
    <2>6. AnsweredApart'
      <3>1. \A i \in 1 .. n : responses[i].packet = r.packet =>
               /\ Apart(r.packet, r.at, responses[i].at)
               /\ Apart(r.packet, responses[i].at, r.at)
        BY <1>2, <2>1, <2>2 DEF OnceInv, BothApart, Apart
      <3> SUFFICES ASSUME NEW i \in 1 .. n + 1, NEW j \in 1 .. n + 1, i # j,
                          responses'[i].packet = responses'[j].packet
                   PROVE  Apart(responses'[i].packet, responses'[i].at,
                                responses'[j].at)
        BY <2>3 DEF AnsweredApart, Apart, Again
      <3>2. CASE i \in 1 .. n /\ j \in 1 .. n
        BY <1>2, <2>3, <3>2 DEF OnceInv, AnsweredApart
      <3>3. CASE i = n + 1 /\ j \in 1 .. n
        BY <2>3, <3>1, <3>3
      <3>4. CASE i \in 1 .. n /\ j = n + 1
        BY <2>3, <3>1, <3>4
      <3>5. (i \in 1 .. n \/ i = n + 1) /\ (j \in 1 .. n \/ j = n + 1)
        BY <1>2
      <3> QED
        BY <3>2, <3>3, <3>4, <3>5
    <2>7. HandledApart'
      BY <2>2 DEF OnceInv, HandledApart
    <2>8. BothApart'
      BY <1>2, <2>1, <2>2, <2>3 DEF OnceInv, HandledApart, BothApart
    <2> QED
      BY <1>1, <2>5, <2>6, <2>7, <2>8 DEF OnceInv
  <1>7. CASE UNCHANGED responses /\ (UNCHANGED handling \/ Leave)
    <2>1. \A k \in DOMAIN handling' :
            k \in DOMAIN handling /\ handling'[k] = handling[k]
      BY <1>1, <1>7, StackLeft
    <2>2. AllSettled'
      BY <1>3, <1>7, <2>1 DEF AllSettled
    <2>3. AnsweredApart' /\ HandledApart' /\ BothApart'
      BY <1>7, <2>1 DEF OnceInv, AnsweredApart, HandledApart, BothApart
    <2> QED
      BY <1>1, <2>2, <2>3 DEF OnceInv
  <1> QED
    BY <1>4, <1>5, <1>6, <1>7
       DEF Next, HandleReplay, CallbackRaises, SetDeviceTrust, InstallRule,
           ChangeVouches, Tick, Decide, vars

\* The invariant of every run.
LEMMA OnceKept == Spec => []OnceInv
  <1>1. RulesInv /\ OnceInv /\ [Next]_vars => OnceInv'
    BY OnceStep
  <1> QED
    BY <1>1, OnceInit, RulesKept, PTL DEF Spec

(***************************************************************************)
(* For any rules, vouches and callbacks, nested ones too: a packet is      *)
(* decided twice only if it was stamped ahead of the time of the first     *)
(* decision, and the second comes more than a window later.                *)
(***************************************************************************)
THEOREM HandlerDecidesOnce == Spec => []DecidedOnce
  <1>1. OnceInv => DecidedOnce
    BY DEF OnceInv, AnsweredApart, Apart, Again, DecidedOnce
  <1> QED
    BY <1>1, OnceKept, PTL

-----------------------------------------------------------------------------
(* Zone and decision.                                                      *)

\* Whether the entries numbered below nr put a kind and a trust on hold.
OnHold(kind, trust, nr) ==
    \/ \E e \in added :
        /\ e.nr < nr /\ e.rule.zone = "GEEL" /\ Matches(e.rule, kind, trust)
        /\ \A f \in added :
            f.nr < nr /\ Matches(f.rule, kind, trust) => ~ Before(f, e)
    \/ /\ \A f \in added : f.nr < nr => ~ Matches(f.rule, kind, trust)
       /\ ZoneByTrust(trust) = "GEEL"

(***************************************************************************)
(* The inductive invariant: the packets whose callbacks run were put on    *)
(* hold by the rules there were when they came.                            *)
(***************************************************************************)
HandledIsHeld ==
    \A k \in DOMAIN handling :
        /\ handling[k].rules <= Len(rules)
        /\ OnHold(handling[k].packet.kind, handling[k].trust, handling[k].rules)

ZoneInv == TypeOK /\ HandledIsHeld /\ ZoneMatchesDecision

\* Two entries of which neither goes before the other are one.
LEMMA EntriesDiffer ==
    ASSUME RulesInv, NEW e \in added, NEW f \in added,
           ~ Before(e, f), ~ Before(f, e)
    PROVE  e = f
  <1>1. PICK i \in DOMAIN rules : rules[i] = e
    BY DEF RulesInv, SameEntries
  <1>2. PICK j \in DOMAIN rules : rules[j] = f
    BY DEF RulesInv, SameEntries
  <1>3. i \in Int /\ j \in Int
    BY DEF RulesInv
  <1>4. ~ (i < j) /\ ~ (j < i)
    BY <1>1, <1>2 DEF RulesInv, Sorted
  <1> QED
    BY <1>1, <1>2, <1>3, <1>4

\* The numbers of all entries lie below the number of rules.
LEMMA AddedBelow ==
    ASSUME RulesInv
    PROVE  Len(rules) \in Nat /\ \A e \in added : e.nr \in Nat /\ e.nr < Len(rules)
  BY DEF RulesInv, SameEntries, NumbersBelow, Entries

\* What the gate holds is on hold by all the rules there are.
LEMMA GeelIsOnHold ==
    ASSUME RulesInv, NEW kind \in Kinds, NEW t \in Trusts, Gate(kind, t) = "GEEL"
    PROVE  OnHold(kind, t, Len(rules))
  <1>1. CASE \E e \in added : Matches(e.rule, kind, t)
    <2>1. PICK e \in Winners(kind, t) : Gate(kind, t) = e.rule.zone
      BY <1>1, GateApplies
    <2>2. e \in added /\ e.nr < Len(rules)
      BY AddedBelow DEF Winners
    <2> QED
      BY <2>1, <2>2 DEF Winners, OnHold
  <1>2. CASE ~ \E e \in added : Matches(e.rule, kind, t)
    BY <1>2, GateApplies DEF OnHold
  <1> QED
    BY <1>1, <1>2

\* When what was on hold is gated again, the zone is another one only if a
\* rule that came later gives it.
LEMMA GatedAgain ==
    ASSUME RulesInv, NEW kind \in Kinds, NEW t \in Trusts, NEW nr \in Nat,
           OnHold(kind, t, nr)
    PROVE  \/ Gate(kind, t) = "GEEL"
           \/ \E e \in added : /\ e.nr >= nr
                               /\ Matches(e.rule, kind, t)
                               /\ e.rule.zone = Gate(kind, t)
  <1>1. CASE \E e \in added : Matches(e.rule, kind, t)
    <2>1. PICK e \in Winners(kind, t) : Gate(kind, t) = e.rule.zone
      BY <1>1, GateApplies
    <2>2. e \in added /\ e.nr \in Nat /\ Matches(e.rule, kind, t)
      BY AddedBelow DEF Winners
    <2>3. CASE e.nr >= nr
      BY <2>1, <2>2, <2>3
    <2>4. CASE e.nr < nr
      <3>1. PICK f \in added :
              /\ f.nr < nr /\ f.rule.zone = "GEEL" /\ Matches(f.rule, kind, t)
              /\ \A g \in added :
                    g.nr < nr /\ Matches(g.rule, kind, t) => ~ Before(g, f)
        BY <2>2, <2>4 DEF OnHold
      <3>2. ~ Before(e, f) /\ ~ Before(f, e)
        BY <2>1, <2>2, <2>4, <3>1 DEF Winners
      <3>3. e = f
        BY <2>2, <3>2, EntriesDiffer
      <3> QED
        BY <2>1, <3>1, <3>3
    <2> QED
      BY <2>2, <2>3, <2>4
  <1>2. CASE ~ \E e \in added : Matches(e.rule, kind, t)
    BY <1>2, GateApplies DEF OnHold
  <1> QED
    BY <1>1, <1>2

\* One more response whose zone and decision agree, or differ by a later rule.
LEMMA OneMoreZone ==
    ASSUME TypeOK, ZoneMatchesDecision, added' = added, NEW r,
           responses' = Append(responses, r),
           \/ r.decision = DecisionOf(r.zone)
           \/ \E e \in added : /\ e.nr >= r.rules
                               /\ Matches(e.rule, r.packet.kind, r.trust)
                               /\ e.rule.zone = r.zone
    PROVE  ZoneMatchesDecision'
  <1> DEFINE n == Len(responses)
             Fits(x) == \/ x.decision = DecisionOf(x.zone)
                        \/ \E e \in added : /\ e.nr >= x.rules
                                            /\ Matches(e.rule, x.packet.kind, x.trust)
                                            /\ e.rule.zone = x.zone
  <1>1. /\ n \in Nat /\ DOMAIN responses = 1 .. n
        /\ DOMAIN responses' = 1 .. n + 1
        /\ \A i \in 1 .. n : responses'[i] = responses[i]
        /\ responses'[n + 1] = r
    BY OnceShape
  <1>2. Fits(r) /\ \A i \in 1 .. n : Fits(responses[i])
    BY <1>1 DEF ZoneMatchesDecision
  <1> HIDE DEF n
  <1> SUFFICES ASSUME NEW i \in 1 .. n + 1
               PROVE  Fits(responses'[i])
    BY <1>1 DEF ZoneMatchesDecision, DecisionOf, Matches
  <1> HIDE DEF Fits
  <1>3. CASE i \in 1 .. n
    BY <1>1, <1>2, <1>3
  <1>4. CASE i = n + 1
    BY <1>1, <1>2, <1>4
  <1> QED
    BY <1>1, <1>3, <1>4

\* Every step keeps zones and decisions together.
LEMMA ZoneStep ==
    ASSUME RulesInv, ZoneInv, [Next]_vars
    PROVE  ZoneInv'
  <1>1. TypeOK /\ TypeOK' /\ Len(rules) \in Nat
    BY HandlerTypeStep DEF ZoneInv, RulesInv
  <1>2. \/ UNCHANGED <<rules, added>>
        \/ /\ Len(rules') = Len(rules) + 1
           /\ \E r \in Rules : added' = added \cup {[rule |-> r, nr |-> Len(rules)]}
    <2>1. ASSUME NEW r \in Rules, AddRule(r)
          PROVE  /\ Len(rules') = Len(rules) + 1
                 /\ added' = added \cup {[rule |-> r, nr |-> Len(rules)]}
      <3> DEFINE e == [rule |-> r, nr |-> Len(rules)]
      <3>1. PICK k \in 0 .. Len(rules) : rules' = InsertedAt(k, e)
        BY <2>1 DEF AddRule
      <3>2. e \in Entries
        BY <1>1 DEF Entries
      <3> HIDE DEF e
      <3>3. Len(rules') = Len(rules) + 1
        BY <3>1, <3>2, Inserted DEF RulesInv
      <3>4. added' = added \cup {e}
        BY <2>1 DEF AddRule, e
      <3> QED
        BY <3>3, <3>4 DEF e
    <2> QED
      BY <2>1, RulesMove
  <1>3. \A kind, t, nr : OnHold(kind, t, nr) /\ nr <= Len(rules) /\ nr \in Nat =>
            OnHold(kind, t, nr)' /\ nr <= Len(rules')
    <2> SUFFICES ASSUME NEW kind, NEW t, NEW nr, OnHold(kind, t, nr),
                        nr <= Len(rules), nr \in Nat
                 PROVE  OnHold(kind, t, nr)' /\ nr <= Len(rules')
      OBVIOUS
    <2>1. CASE UNCHANGED <<rules, added>>
      BY <2>1 DEF OnHold, Matches, Before, ZoneByTrust
    <2>2. ASSUME NEW r \in Rules, Len(rules') = Len(rules) + 1,
                 added' = added \cup {[rule |-> r, nr |-> Len(rules)]}
          PROVE  OnHold(kind, t, nr)' /\ nr <= Len(rules')
      <3> DEFINE e == [rule |-> r, nr |-> Len(rules)]
      <3>1. ~ (e.nr < nr)
        BY <1>1
      <3>2. added' = added \cup {e}
        BY <2>2
      <3> HIDE DEF e
      <3>3. OnHold(kind, t, nr)'
        BY <3>1, <3>2 DEF OnHold, Matches, Before, ZoneByTrust
      <3> QED
        BY <1>1, <2>2, <3>3
    <2> QED
      BY <1>2, <2>1, <2>2
  <1>4. ASSUME UNCHANGED handling \/ Leave
        PROVE  HandledIsHeld'
    <2>1. \A k \in DOMAIN handling' :
            k \in DOMAIN handling /\ handling'[k] = handling[k]
      BY <1>1, <1>4, StackLeft
    <2>2. \A k \in DOMAIN handling : handling[k].rules \in Nat
      BY <1>1, OnceShape
    <2> QED
      BY <1>3, <2>1, <2>2 DEF ZoneInv, HandledIsHeld
  <1>5. ASSUME UNCHANGED responses
        PROVE  ZoneMatchesDecision'
    <2>1. added \subseteq added'
      BY <1>2
    <2> QED
      BY <1>5, <2>1 DEF ZoneInv, ZoneMatchesDecision, DecisionOf, Matches
  <1>6. ASSUME NEW p \in Packets, Handle(p)
        PROVE  ZoneInv'
    <2> DEFINE trust == SenderTrust(p.source)
               zone == Gate(p.kind, trust)
               r == [packet |-> p, decision |-> DecisionOf(zone), zone |-> zone,
                     trust |-> trust, at |-> now, rules |-> Len(rules)]
    <2>1. responses' = Append(responses, r) /\ UNCHANGED <<handling, rules, added>>
      BY <1>6 DEF Handle, Answers, Process
    <2>2. r.decision = DecisionOf(r.zone)
      OBVIOUS
    <2> HIDE DEF r
    <2>3. ZoneMatchesDecision'
      BY <1>1, <2>1, <2>2, OneMoreZone DEF ZoneInv
    <2> QED
      BY <1>1, <1>4, <2>1, <2>3 DEF ZoneInv
  <1>7. ASSUME NEW p \in Packets, HandleWithCallback(p)
        PROVE  ZoneInv'
    <2> DEFINE h == [packet |-> p, trust |-> SenderTrust(p.source), at |-> now,
                     rules |-> Len(rules)]
    <2>1. /\ p.kind \in Kinds /\ SenderTrust(p.source) \in Trusts
          /\ Gate(p.kind, SenderTrust(p.source)) = "GEEL"
          /\ handling' = Append(handling, h)
          /\ UNCHANGED <<rules, added, responses>>
      <3>1. p.source \in Dids /\ p.kind \in Kinds
        OBVIOUS
      <3> QED
        BY <1>1, <1>7, <3>1, SenderTrustIsTrust DEF HandleWithCallback, Process, TypeOK
    <2>2. /\ OnHold(h.packet.kind, h.trust, h.rules)
          /\ h.rules = Len(rules) /\ h.rules \in Nat
      BY <1>1, <2>1, GeelIsOnHold
    <2>3. h \in [packet : Packets, trust : Trusts, at : Int, rules : Nat]
      BY <1>1, <2>1 DEF TypeOK, RegistryTypeOK
    <2> HIDE DEF h
    <2>4. /\ DOMAIN handling' = DOMAIN handling \cup {Len(handling) + 1}
          /\ \A k \in DOMAIN handling : handling'[k] = handling[k]
          /\ handling'[Len(handling) + 1] = h
      BY <1>1, <2>1, <2>3, StackEntered
    <2>5. \A k \in DOMAIN handling : handling[k].rules \in Nat
      BY <1>1, OnceShape
    <2>6. HandledIsHeld'
      <3> SUFFICES ASSUME NEW k \in DOMAIN handling'
                   PROVE  /\ handling'[k].rules <= Len(rules')
                          /\ OnHold(handling[k].packet.kind, handling[k].trust,
                                    handling[k].rules)'
        BY DEF HandledIsHeld
      <3>1. CASE k \in DOMAIN handling
        BY <1>3, <2>4, <2>5, <3>1 DEF ZoneInv, HandledIsHeld
      <3>2. CASE k = Len(handling) + 1
        BY <2>1, <2>2, <2>4, <3>2 DEF OnHold, Matches, Before, ZoneByTrust
      <3> QED
        BY <2>4, <3>1, <3>2
    <2> QED
      BY <1>1, <1>5, <2>1, <2>6 DEF ZoneInv
  <1>8. CASE CallbackReturns
    <2> DEFINE zone == Gate(Current.packet.kind, Current.trust)
               r == [packet |-> Current.packet, decision |-> "pending", zone |-> zone,
                     trust |-> Current.trust, at |-> Current.at,
                     rules |-> Current.rules]
    <2>1. /\ responses' = Append(responses, r)
          /\ Leave /\ UNCHANGED <<rules, added>>
      BY <1>8 DEF CallbackReturns, Answers, airlockVars
    <2>2. /\ Current.packet.kind \in Kinds /\ Current.trust \in Trusts
          /\ Current.rules \in Nat
          /\ OnHold(Current.packet.kind, Current.trust, Current.rules)
      BY <1>1, <2>1, CurrentInStack DEF ZoneInv, HandledIsHeld, Current
    <2>3. \/ zone = "GEEL"
          \/ \E e \in added : /\ e.nr >= Current.rules
                              /\ Matches(e.rule, Current.packet.kind, Current.trust)
                              /\ e.rule.zone = zone
      BY <2>2, GatedAgain
    <2> HIDE DEF zone
    <2>4. \/ r.decision = DecisionOf(r.zone)
          \/ \E e \in added : /\ e.nr >= r.rules
                              /\ Matches(e.rule, r.packet.kind, r.trust)
                              /\ e.rule.zone = r.zone
      <3>1. zone = "GEEL" => "pending" = DecisionOf(zone)
        BY DEF DecisionOf
      <3> QED
        BY <2>3, <3>1
    <2> HIDE DEF r
    <2>5. ZoneMatchesDecision'
      BY <1>1, <2>1, <2>4, OneMoreZone DEF ZoneInv
    <2> QED
      BY <1>1, <1>4, <2>1, <2>5 DEF ZoneInv
  <1>9. CASE UNCHANGED responses /\ (UNCHANGED handling \/ Leave)
    BY <1>1, <1>4, <1>5, <1>9 DEF ZoneInv
  <1> QED
    BY <1>6, <1>7, <1>8, <1>9
       DEF Next, HandleReplay, CallbackRaises, SetDeviceTrust, InstallRule,
           ChangeVouches, Tick, Decide, vars

(***************************************************************************)
(* Whatever callbacks do, a response says ACCEPT, PENDING or REJECT as its *)
(* zone does, unless a rule that was added during the callback of that     *)
(* very call covers the packet and gives the zone.                         *)
(***************************************************************************)
THEOREM HandlerZoneMatches == Spec => []ZoneMatchesDecision
  <1>1. Init => ZoneInv
    <2> SUFFICES ASSUME Init PROVE ZoneInv
      OBVIOUS
    <2>1. responses = <<>> /\ handling = <<>>
      BY DEF Init
    <2> QED
      BY <2>1, HandlerTypeInit DEF ZoneInv, HandledIsHeld, ZoneMatchesDecision
  <1>2. RulesInv /\ ZoneInv /\ [Next]_vars => ZoneInv'
    BY ZoneStep
  <1>3. ZoneInv => ZoneMatchesDecision
    BY DEF ZoneInv
  <1> QED
    BY <1>1, <1>2, <1>3, RulesKept, PTL DEF Spec

-----------------------------------------------------------------------------
(* Human decisions.                                                        *)

(***************************************************************************)
(* The inductive invariant: a packet in the queue was let through when its *)
(* entry says, and one that a human has decided on likewise.               *)
(***************************************************************************)
HeldIsSettled ==
    \A p \in Packets :
        /\ p.id \in DOMAIN pending => Settled(p, pending[p.id].since)
        /\ p.id \in DOMAIN resolved => Settled(p, resolved[p.id])

HumanInv == HeldIsSettled /\ DecidedByHumanOnce

\* Every step keeps it.
LEMMA HumanStep ==
    ASSUME \A p, q \in Packets : p.id = q.id => p.nonce = q.nonce /\ p.stamp = q.stamp,
           TypeOK, HumanInv, [Next]_vars
    PROVE  HumanInv'
  <1>1. \A p \in Packets, t \in Int : Settled(p, t) => Settled(p, t)'
    BY SettledStays
  <1>2. /\ \A i \in DOMAIN pending : pending[i].since \in Int
        /\ \A i \in DOMAIN resolved : resolved[i] \in Int
        /\ now \in Int
    BY DEF TypeOK, AirlockTypeOK, RegistryTypeOK
  <1>3. CASE UNCHANGED <<pending, resolved>>
    BY <1>1, <1>2, <1>3 DEF HumanInv, HeldIsSettled, DecidedByHumanOnce
  <1>4. ASSUME NEW p \in Packets, Handle(p) \/ HandleWithCallback(p),
               ~ UNCHANGED pending
        PROVE  HumanInv'
    <2>1. /\ Passes(p.nonce, p.stamp, now) /\ Records(p.nonce, now)
          /\ resolved' = resolved /\ now' = now
          /\ DOMAIN pending' = DOMAIN pending \cup {p.id}
          /\ pending'[p.id].since = now
          /\ \A i \in DOMAIN pending \ {p.id} : pending'[i] = pending[i]
      BY <1>4 DEF Handle, HandleWithCallback, LetThrough, Process, PendingAfter,
                  registryVars
    <2>2. /\ Settled(p, now)'
          /\ \A t : Settled(p, t) => Again(p, t, now)
      BY <2>1, RecordedIsSettled, SettledPasses
    <2>3. \A q \in Packets : q.id = p.id => Settled(q, now)'
      BY <2>2 DEF Settled
    <2>4. HeldIsSettled'
      <3> SUFFICES ASSUME NEW q \in Packets
                   PROVE  /\ q.id \in DOMAIN pending' =>
                                Settled(q, pending[q.id].since)'
                          /\ q.id \in DOMAIN resolved' => Settled(q, resolved[q.id])'
        BY DEF HeldIsSettled
      <3>1. q.id \in DOMAIN resolved' => Settled(q, resolved[q.id])'
        BY <1>1, <1>2, <2>1 DEF HumanInv, HeldIsSettled
      <3>2. ASSUME q.id = p.id
            PROVE  Settled(q, pending[q.id].since)'
        BY <2>1, <2>3, <3>2 DEF Settled
      <3>3. ASSUME q.id # p.id, q.id \in DOMAIN pending'
            PROVE  Settled(q, pending[q.id].since)'
        BY <1>1, <1>2, <2>1, <3>3 DEF HumanInv, HeldIsSettled
      <3> QED
        BY <3>1, <3>2, <3>3
    <2>5. DecidedByHumanOnce'
      <3> SUFFICES ASSUME NEW id \in DOMAIN pending' \cap DOMAIN resolved'
                   PROVE  /\ pending'[id].since - resolved'[id] > Window
                          /\ \A q \in Packets : q.id = id => q.stamp > resolved'[id]
        BY DEF DecidedByHumanOnce
      <3>1. CASE id = p.id
        <4>1. Again(p, resolved[id], now)
          BY <2>1, <2>2, <3>1 DEF HumanInv, HeldIsSettled
        <4> QED
          BY <2>1, <3>1, <4>1 DEF Again
      <3>2. CASE id # p.id
        BY <2>1, <3>2 DEF HumanInv, DecidedByHumanOnce
      <3> QED
        BY <3>1, <3>2
    <2> QED
      BY <2>4, <2>5 DEF HumanInv
  <1>5. ASSUME NEW id \in PacketIds, Decide(id)
        PROVE  HumanInv'
    <2>1. /\ id \in DOMAIN pending
          /\ pending' = [i \in DOMAIN pending \ {id} |-> pending[i]]
          /\ resolved' = [i \in DOMAIN resolved \cup {id} |->
                             IF i = id THEN pending[id].since ELSE resolved[i]]
      BY <1>5 DEF Decide, Resolve
    <2>2. HeldIsSettled'
      BY <1>1, <1>2, <2>1 DEF HumanInv, HeldIsSettled
    <2>3. DecidedByHumanOnce'
      BY <2>1 DEF HumanInv, DecidedByHumanOnce
    <2> QED
      BY <2>2, <2>3 DEF HumanInv
  <1> QED
    BY <1>3, <1>4, <1>5
       DEF Next, HandleReplay, Handle, HandleWithCallback, CallbackReturns,
           CallbackRaises, SetDeviceTrust, InstallRule, AddRule, ChangeVouches, Tick,
           airlockVars, vars

(***************************************************************************)
(* When packets of one packet_id have one nonce and one timestamp, what a  *)
(* human has decided on comes back to the queue only if it was stamped     *)
(* ahead when it was let through, and more than a window later.            *)
(***************************************************************************)
THEOREM HandlerHumanDecidesOnce ==
    ASSUME \A p, q \in Packets : p.id = q.id => p.nonce = q.nonce /\ p.stamp = q.stamp
    PROVE  Spec => []DecidedByHumanOnce
  <1>1. Init => HumanInv
    BY DEF Init, AirlockInit, HumanInv, HeldIsSettled, DecidedByHumanOnce
  <1>2. TypeOK /\ HumanInv /\ [Next]_vars => HumanInv'
    BY HumanStep
  <1>3. HumanInv => DecidedByHumanOnce
    BY DEF HumanInv
  <1> QED
    BY <1>1, <1>2, <1>3, HandlerTypeCorrect, PTL DEF Spec

-----------------------------------------------------------------------------
(* Acceptance.                                                             *)

\* The trust handle looks up is the trust told without the index.
LEMMA TrustAsTold ==
    ASSUME TrustIsBest, NEW d \in Dids
    PROVE  SenderTrust(d) = TrustTold(d)
  BY DEF TrustIsBest, SenderTrust, TrustTold

\* A packet that the gate lets through deserves it.
LEMMA GroenIsDeserved ==
    ASSUME RulesInv, TypeOK, TrustIsBest, NEW p \in Packets,
           Gate(p.kind, SenderTrust(p.source)) = "GROEN"
    PROVE  Deserved(p)
  <1> DEFINE t == TrustTold(p.source)
  <1>1. p.source \in Dids /\ p.kind \in Kinds
    OBVIOUS
  <1>2. SenderTrust(p.source) = t /\ t \in Trusts
    BY <1>1, TrustAsTold, SenderTrustIsTrust DEF TypeOK
  <1> HIDE DEF t
  <1>3. CASE \E e \in added : Matches(e.rule, p.kind, t)
    <2>1. \E e \in Winners(p.kind, t) : e.rule.zone = "GROEN"
      BY <1>1, <1>2, <1>3, GateApplies
    <2> QED
      BY <1>3, <2>1 DEF Deserved, t
  <1>4. CASE ~ \E e \in added : Matches(e.rule, p.kind, t)
    <2>1. ZoneByTrust(t) = "GROEN"
      BY <1>1, <1>2, <1>4, GateApplies
    <2>2. t >= Groen
      BY <2>1 DEF ZoneByTrust
    <2> QED
      BY <1>4, <2>2 DEF Deserved, t
  <1> QED
    BY <1>3, <1>4

\* Which actions respond.
LEMMA ResponsesMove ==
    ASSUME [Next]_vars
    PROVE  \/ UNCHANGED responses
           \/ CallbackReturns
           \/ \E q \in Packets : Handle(q)
  <1>1. \A q \in Packets : HandleReplay(q) \/ HandleWithCallback(q) => UNCHANGED responses
    BY DEF HandleReplay, HandleWithCallback
  <1>2. CASE \/ CallbackRaises \/ ChangeVouches \/ Tick \/ UNCHANGED vars
             \/ \E s \in Settings : SetDeviceTrust(s[1], s[2])
             \/ \E r \in Rules : InstallRule(r)
             \/ \E id \in PacketIds : Decide(id)
    BY <1>2 DEF CallbackRaises, SetDeviceTrust, InstallRule, ChangeVouches, Tick,
                Decide, vars
  <1> QED
    BY <1>1, <1>2 DEF Next

(***************************************************************************)
(* Without reuse of vouch ids: a step that accepts a packet is one in      *)
(* which the rules there are, or the sender's trust as it is, let it       *)
(* through.                                                                *)
(***************************************************************************)
THEOREM HandlerAcceptsDeserved ==
    ASSUME ReuseIds = FALSE
    PROVE  Spec => AcceptDeserved
  <1>1. ASSUME RulesInv, TypeOK, TrustIsBest, [Next]_vars, NEW p \in Packets, Accepts(p)
        PROVE  Deserved(p)
    <2>1. /\ Len(responses') > Len(responses)
          /\ \A r : responses' = Append(responses, r) =>
                        r.packet = p /\ r.decision = "accept"
      BY <1>1 DEF TypeOK, Accepts
    <2>3. ASSUME CallbackReturns
          PROVE  FALSE
      <3>1. PICK r : responses' = Append(responses, r) /\ r.decision = "pending"
        BY <2>3 DEF CallbackReturns, Answers
      <3> QED
        BY <2>1, <3>1
    <2>4. ~ UNCHANGED responses
      BY <1>1, <2>1 DEF TypeOK
    <2>5. PICK q \in Packets : Handle(q)
      <3>1. [Next]_vars
        BY <1>1
      <3> QED
        BY <3>1, <2>3, <2>4, ResponsesMove
    <2> DEFINE zone == Gate(q.kind, SenderTrust(q.source))
    <2>6. PICK r : /\ responses' = Append(responses, r)
                   /\ r.packet = q /\ r.decision = DecisionOf(zone)
      BY <2>5 DEF Handle, Answers
    <2>7. q = p /\ DecisionOf(zone) = "accept"
      BY <2>1, <2>6
    <2> HIDE DEF zone
    <2>8. zone = "GROEN"
      BY <2>7 DEF DecisionOf
    <2> QED
      BY <1>1, <2>7, <2>8, GroenIsDeserved DEF zone
  <1>2. RulesInv /\ TypeOK /\ TrustIsBest /\ [Next]_vars =>
          [\A p \in Packets : Accepts(p) => Deserved(p)]_vars
    BY <1>1
  <1> QED
    BY <1>2, RulesKept, HandlerTypeCorrect, HandlerTrustIsBest, PTL
       DEF Spec, AcceptDeserved

=============================================================================
