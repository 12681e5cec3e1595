--------------------------- MODULE Topology_proofs ---------------------------
(***************************************************************************)
(* Theorems about Topology: the manager's maps by device agree with the    *)
(* pods, for any devices, pods and stations.                               *)
(***************************************************************************)
EXTENDS Topology, TLAPS

-----------------------------------------------------------------------------
(* The invariant: the types, and that roles and pods are recorded          *)
(* together, so that a device either has both or none.                     *)

Inv == TypeOK /\ DOMAIN didRole = DOMAIN didToPod

\* No pod and no member is known at first.
LEMMA InitInv == Init => Inv
BY DEF Init, Inv, TypeOK, Empty

\* A pod that is created or replaced has one member, its hub, and the hub is
\* recorded; the members of the other pods keep their entries.
LEMMA CreatePodInv ==
    ASSUME Inv, NEW p \in PodIds, NEW hub \in Dids,
           NEW s \in StationIds \cup {NoStation}, CreatePod(p, hub, s)
    PROVE  Inv'
<1> DEFINE pod == [hub |-> hub, hubbies |-> {}, station |-> s]
<1>1. pod \in Pods
  BY DEF Pods
<1>2. pods' = Put(pods, p, pod) /\ didToPod' = Put(didToPod, hub, p)
      /\ didRole' = Put(didRole, hub, "HUB")
  BY DEF CreatePod
<1> HIDE DEF pod
<1>3. DOMAIN pods' = DOMAIN pods \cup {p} /\ pods'[p] = pod
      /\ \A q \in DOMAIN pods \ {p} : pods'[q] = pods[q]
  BY <1>2 DEF Put
<1>4. DOMAIN didToPod' = DOMAIN didToPod \cup {hub} /\ didToPod'[hub] = p
      /\ \A d \in DOMAIN didToPod \ {hub} : didToPod'[d] = didToPod[d]
  BY <1>2 DEF Put
<1>5. DOMAIN didRole' = DOMAIN didRole \cup {hub} /\ didRole'[hub] = "HUB"
      /\ \A d \in DOMAIN didRole \ {hub} : didRole'[d] = didRole[d]
  BY <1>2 DEF Put
<1>6. DOMAIN stations' = DOMAIN stations
      /\ \A t \in DOMAIN stations : stations'[t] \subseteq stations[t] \cup {p}
  BY DEF CreatePod
<1>7. TypeOK'
  <2>1. \A q \in DOMAIN pods' : pods'[q] \in Pods
    BY <1>1, <1>3 DEF Inv, TypeOK
  <2>2. \A t \in DOMAIN stations' : stations'[t] \subseteq PodIds
    BY <1>6 DEF Inv, TypeOK
  <2>3. \A d \in DOMAIN didToPod' : didToPod'[d] \in DOMAIN pods'
    BY <1>3, <1>4 DEF Inv, TypeOK
  <2>4. \A d \in DOMAIN didRole' : didRole'[d] \in Roles
    BY <1>5 DEF Inv, TypeOK, Roles
  <2> QED
    BY <1>3, <1>4, <1>5, <1>6, <2>1, <2>2, <2>3, <2>4 DEF Inv, TypeOK
<1> QED
  BY <1>4, <1>5, <1>7 DEF Inv

\* The new hubby is recorded, whatever it was before.
LEMMA AddHubbyInv ==
    ASSUME Inv, NEW p \in PodIds, NEW h \in Dids, AddHubbyToPod(p, h)
    PROVE  Inv'
<1>1. p \in DOMAIN pods /\ stations' = stations
      /\ didToPod' = Put(didToPod, h, p)
      /\ didRole' = Put(didRole, h, RoleAsHubby(h))
  BY DEF AddHubbyToPod
<1>2. DOMAIN pods' = DOMAIN pods
      /\ pods'[p] = [pods[p] EXCEPT !.hubbies = @ \cup {h}]
      /\ \A q \in DOMAIN pods \ {p} : pods'[q] = pods[q]
  BY <1>1 DEF AddHubbyToPod
<1>3. DOMAIN didToPod' = DOMAIN didToPod \cup {h} /\ didToPod'[h] = p
      /\ \A d \in DOMAIN didToPod \ {h} : didToPod'[d] = didToPod[d]
  BY <1>1 DEF Put
<1>4. DOMAIN didRole' = DOMAIN didRole \cup {h} /\ didRole'[h] = RoleAsHubby(h)
      /\ \A d \in DOMAIN didRole \ {h} : didRole'[d] = didRole[d]
  BY <1>1 DEF Put
<1>5. TypeOK'
  <2>1. \A q \in DOMAIN pods' : pods'[q] \in Pods
    BY <1>1, <1>2 DEF Inv, TypeOK, Pods
  <2>2. RoleAsHubby(h) \in Roles
    BY DEF RoleAsHubby, Roles
  <2>3. \A d \in DOMAIN didRole' : didRole'[d] \in Roles
    BY <1>4, <2>2 DEF Inv, TypeOK
  <2> QED
    BY <1>1, <1>2, <1>3, <1>4, <2>1, <2>3 DEF Inv, TypeOK
<1> QED
  BY <1>3, <1>4, <1>5 DEF Inv

\* An edit of a pod leaves the maps alone.
LEMMA EditInv ==
    ASSUME Inv, NEW p \in PodIds, NEW h \in Dids, AddHubby(p, h) \/ RemoveHubby(p, h)
    PROVE  Inv'
<1>1. /\ p \in DOMAIN pods /\ DOMAIN pods' = DOMAIN pods
      /\ \/ pods'[p] = [pods[p] EXCEPT !.hubbies = @ \cup {h}]
         \/ pods'[p] = [pods[p] EXCEPT !.hubbies = @ \ {h}]
      /\ \A q \in DOMAIN pods \ {p} : pods'[q] = pods[q]
  BY DEF AddHubby, RemoveHubby
<1>2. UNCHANGED <<stations, didToPod, didRole>>
  BY DEF AddHubby, RemoveHubby
<1>3. \A q \in DOMAIN pods' : pods'[q] \in Pods
  BY <1>1 DEF Inv, TypeOK, Pods
<1> QED
  BY <1>1, <1>2, <1>3 DEF Inv, TypeOK

\* Stations do not matter to members.
LEMMA StationsInv ==
    ASSUME Inv, NEW s \in StationIds,
           CreateStation(s) \/ \E p \in PodIds : AddPod(s, p) \/ RemovePod(s, p)
    PROVE  Inv' /\ UNCHANGED <<pods, didToPod, didRole>>
<1>1. UNCHANGED <<pods, didToPod, didRole>>
  BY DEF CreateStation, AddPod, RemovePod
<1>2. DOMAIN stations' \subseteq StationIds
      /\ \A t \in DOMAIN stations' : stations'[t] \subseteq PodIds
  <2>1. CASE CreateStation(s)
    BY <2>1 DEF Put, CreateStation, Inv, TypeOK
  <2>2. CASE \E p \in PodIds : AddPod(s, p) \/ RemovePod(s, p)
    BY <2>2 DEF AddPod, RemovePod, Inv, TypeOK
  <2> QED
    BY <2>1, <2>2
<1> QED
  BY <1>1, <1>2 DEF Inv, TypeOK

\* Every operation of the manager keeps the invariant.
LEMMA NextInv == Inv /\ [Next]_vars => Inv'
<1> SUFFICES ASSUME Inv, [Next]_vars
             PROVE  Inv'
  OBVIOUS
<1>1. CASE UNCHANGED vars
  BY <1>1 DEF vars, Inv, TypeOK
<1>2. CASE Next
  BY <1>2, CreatePodInv, AddHubbyInv, EditInv, StationsInv DEF Next
<1> QED
  BY <1>1, <1>2

\* The invariant holds of every behaviour.
LEMMA InvHolds == Spec => []Inv
BY InitInv, NextInv, PTL DEF Spec

-----------------------------------------------------------------------------
(* Theorems.                                                               *)

\* The maps and lists of the manager name pods that exist, roles that are
\* defined, and devices (topology.py:84-88).
THEOREM TypeCorrect == Spec => []TypeOK
<1>1. Inv => TypeOK
  BY DEF Inv
<1> QED
  BY <1>1, InvHolds, PTL

\* A member of a pod that the manager does not know got there by an edit that
\* it does not see: whatever else is created, replaced, extended or edited, the
\* members it knows stay known (topology.py:124-126, 137-148).
THEOREM UnknownOnlyByEdits == Spec => UnknownByEditOnly
<1> DEFINE Known(d) == d \in DOMAIN didToPod
           A == \A d \in Dids : Unknown(d)' =>
                    Unknown(d) \/ \E p \in PodIds : AddHubby(p, d)
<1>1. \A d : Inv => (Unknown(d) <=>
                /\ ~ Known(d)
                /\ \E p \in DOMAIN pods : d \in AllMembers(p))
  BY DEF Inv, TypeOK, Unknown, InSomePod
<1>2. Inv /\ Inv' /\ [Next]_vars => [A]_vars
  <2> SUFFICES ASSUME Inv, Inv', Next, NEW d \in Dids, Unknown(d)', ~ Unknown(d),
                      ~ \E p \in PodIds : AddHubby(p, d)
               PROVE  FALSE
    BY DEF A
  <2>1. /\ d \notin DOMAIN didToPod'
        /\ \E p \in DOMAIN pods' : d \in AllMembers(p)'
    BY DEF Inv, TypeOK, Unknown, InSomePod
  <2>2. ASSUME NEW p \in PodIds, NEW hub \in Dids,
               NEW s \in StationIds \cup {NoStation}, CreatePod(p, hub, s)
        PROVE  FALSE
    <3> DEFINE pod == [hub |-> hub, hubbies |-> {}, station |-> s]
    <3>1. pods' = Put(pods, p, pod) /\ didToPod' = Put(didToPod, hub, p)
      BY <2>2 DEF CreatePod
    <3>2. /\ DOMAIN pods' = DOMAIN pods \cup {p} /\ pods'[p] = pod
          /\ \A q \in DOMAIN pods \ {p} : pods'[q] = pods[q]
          /\ DOMAIN didToPod' = DOMAIN didToPod \cup {hub}
      BY <3>1 DEF Put
    <3>3. d # hub /\ ~ Known(d)
      BY <2>1, <3>2
    <3>4. \E q \in DOMAIN pods : d \in AllMembers(q)
      BY <2>1, <3>2, <3>3 DEF AllMembers
    <3> QED
      BY <1>1, <3>3, <3>4
  <2>3. ASSUME NEW p \in PodIds, NEW h \in Dids, AddHubbyToPod(p, h)
        PROVE  FALSE
    <3>1. /\ DOMAIN didToPod' = DOMAIN didToPod \cup {h}
          /\ DOMAIN pods' = DOMAIN pods
          /\ p \in DOMAIN pods
          /\ pods'[p] = [pods[p] EXCEPT !.hubbies = @ \cup {h}]
          /\ \A q \in DOMAIN pods \ {p} : pods'[q] = pods[q]
      BY <2>3 DEF AddHubbyToPod, Put
    <3>2. d # h /\ ~ Known(d)
      BY <2>1, <3>1
    <3>3. \E q \in DOMAIN pods : d \in AllMembers(q)
      BY <2>1, <3>1, <3>2 DEF AllMembers, Inv, TypeOK, Pods
    <3> QED
      BY <1>1, <3>2, <3>3
  <2>4. ASSUME NEW p \in PodIds, NEW h \in Dids, AddHubby(p, h) \/ RemoveHubby(p, h)
        PROVE  FALSE
    <3>1. /\ didToPod' = didToPod /\ DOMAIN pods' = DOMAIN pods
          /\ p \in DOMAIN pods
          /\ \A q \in DOMAIN pods \ {p} : pods'[q] = pods[q]
          /\ \/ pods'[p] = [pods[p] EXCEPT !.hubbies = @ \cup {h}] /\ h # d
             \/ pods'[p] = [pods[p] EXCEPT !.hubbies = @ \ {h}]
      BY <2>4 DEF AddHubby, RemoveHubby
    <3>2. \E q \in DOMAIN pods : d \in AllMembers(q)
      BY <2>1, <3>1 DEF AllMembers, Inv, TypeOK, Pods
    <3> QED
      BY <1>1, <2>1, <3>1, <3>2
  <2>5. ASSUME UNCHANGED <<pods, didToPod, didRole>>
        PROVE  FALSE
    BY <2>5 DEF Unknown, InSomePod, AllMembers
  <2> QED
    BY <2>2, <2>3, <2>4, <2>5, StationsInv DEF Next
<1> QED
  BY <1>2, InvHolds, PTL DEF Spec, UnknownByEditOnly

\* A device whose pod is looked up and does not have it got there by a removal
\* that the manager does not see, or by a replacement of its pod.
THEOREM MisplacedOnlyByEdits == Spec => MisplacedByEditOnly
<1> DEFINE ByEdit(d) ==
        \/ Misplaced(d)
        \/ \E p \in PodIds : RemoveHubby(p, d)
        \/ \E p \in DOMAIN pods, hub \in Dids, s \in StationIds \cup {NoStation} :
              d \in AllMembers(p) /\ CreatePod(p, hub, s)
           A == \A d \in Dids : Misplaced(d)' => ByEdit(d)
<1>1. Inv /\ [Next]_vars => [A]_vars
  <2> SUFFICES ASSUME Inv, Next, NEW d \in Dids, Misplaced(d)', ~ Misplaced(d)
               PROVE  ByEdit(d)
    BY DEF A
  <2>1. ASSUME NEW p \in PodIds, NEW hub \in Dids,
               NEW s \in StationIds \cup {NoStation}, CreatePod(p, hub, s)
        PROVE  ByEdit(d)
    <3> DEFINE pod == [hub |-> hub, hubbies |-> {}, station |-> s]
    <3>1. pods' = Put(pods, p, pod) /\ didToPod' = Put(didToPod, hub, p)
      BY <2>1 DEF CreatePod
    <3>2. DOMAIN pods' = DOMAIN pods \cup {p} /\ pods'[p] = pod
          /\ \A q \in DOMAIN pods \ {p} : pods'[q] = pods[q]
      BY <3>1 DEF Put
    <3>3. DOMAIN didToPod' = DOMAIN didToPod \cup {hub} /\ didToPod'[hub] = p
          /\ \A e \in DOMAIN didToPod \ {hub} : didToPod'[e] = didToPod[e]
      BY <3>1 DEF Put
    <3>4. d # hub
      BY <3>2, <3>3 DEF Misplaced, AllMembers
    <3>5. InSomePod(d) /\ d \in AllMembers(didToPod[d])
      BY <3>3, <3>4 DEF Misplaced, InSomePod, Inv, TypeOK
    <3>6. didToPod[d] = p
      BY <3>2, <3>3, <3>4, <3>5 DEF Misplaced, InSomePod, AllMembers
    <3> QED
      BY <2>1, <3>5, <3>6 DEF InSomePod
  <2>2. ASSUME NEW p \in PodIds, NEW h \in Dids, AddHubbyToPod(p, h)
        PROVE  FALSE
    <3>1. p \in DOMAIN pods /\ didToPod' = Put(didToPod, h, p)
      BY <2>2 DEF AddHubbyToPod
    <3>2. DOMAIN pods' = DOMAIN pods
          /\ pods'[p] = [pods[p] EXCEPT !.hubbies = @ \cup {h}]
          /\ \A q \in DOMAIN pods \ {p} : pods'[q] = pods[q]
      BY <2>2 DEF AddHubbyToPod
    <3>3. DOMAIN didToPod' = DOMAIN didToPod \cup {h} /\ didToPod'[h] = p
          /\ \A e \in DOMAIN didToPod \ {h} : didToPod'[e] = didToPod[e]
      BY <3>1 DEF Put
    <3>4. \A q \in DOMAIN pods : AllMembers(q) \subseteq AllMembers(q)'
      BY <3>1, <3>2 DEF AllMembers, Inv, TypeOK, Pods
    <3>5. CASE d = h
      BY <3>1, <3>2, <3>3, <3>5 DEF Misplaced, AllMembers, Inv, TypeOK, Pods
    <3>6. CASE d # h
      BY <3>2, <3>3, <3>4, <3>6 DEF Misplaced, InSomePod
    <3> QED
      BY <3>5, <3>6
  <2>3. ASSUME NEW p \in PodIds, NEW h \in Dids, RemoveHubby(p, h)
        PROVE  ByEdit(d)
    <3>1. DOMAIN pods' = DOMAIN pods /\ didToPod' = didToPod
          /\ p \in DOMAIN pods
          /\ pods'[p] = [pods[p] EXCEPT !.hubbies = @ \ {h}]
          /\ \A q \in DOMAIN pods \ {p} : pods'[q] = pods[q]
      BY <2>3 DEF RemoveHubby
    <3>2. d # h => \A q \in DOMAIN pods : d \in AllMembers(q) => d \in AllMembers(q)'
      BY <3>1 DEF AllMembers, Inv, TypeOK, Pods
    <3>3. d = h
      BY <3>1, <3>2 DEF Misplaced, InSomePod
    <3> QED
      BY <2>3, <3>3
  <2>4. ASSUME NEW p \in PodIds, NEW h \in Dids, AddHubby(p, h)
        PROVE  FALSE
    <3>1. DOMAIN pods' = DOMAIN pods /\ didToPod' = didToPod
          /\ p \in DOMAIN pods
          /\ pods'[p] = [pods[p] EXCEPT !.hubbies = @ \cup {h}]
          /\ \A q \in DOMAIN pods \ {p} : pods'[q] = pods[q]
      BY <2>4 DEF AddHubby
    <3>2. \A q \in DOMAIN pods : AllMembers(q) \subseteq AllMembers(q)'
      BY <3>1 DEF AllMembers, Inv, TypeOK, Pods
    <3> QED
      BY <3>1, <3>2 DEF Misplaced, InSomePod
  <2>5. ASSUME UNCHANGED <<pods, didToPod>>
        PROVE  FALSE
    BY <2>5 DEF Misplaced, InSomePod, AllMembers
  <2> QED
    BY <2>1, <2>2, <2>3, <2>4, <2>5, StationsInv DEF Next
<1> QED
  BY <1>1, InvHolds, PTL DEF Spec, MisplacedByEditOnly

=============================================================================
