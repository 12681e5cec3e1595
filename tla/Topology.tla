------------------------------- MODULE Topology -------------------------------
(***************************************************************************)
(* TopologyManager of topology.py: pods of one hub and its hubbies,        *)
(* stations of pods, and two maps by device, its pod and its role, which   *)
(* every change of a pod must keep up to date.  The methods of Pod and     *)
(* Station that change a pod or a station are public and may be called     *)
(* without the manager.                                                    *)
(***************************************************************************)
CONSTANTS
    PodIds, StationIds, Dids,
    NoStation,      \* station_id None
    DirectEdits     \* are pods and stations edited without the manager too?

ASSUME TopologyAssumption ==
    /\ NoStation \notin StationIds
    /\ DirectEdits \in BOOLEAN

VARIABLES
    pods,           \* pods: pod_id -> Pod
    stations,       \* stations: station_id -> its pod_ids
    didToPod,       \* _did_to_pod
    didRole         \* _did_role

vars == <<pods, stations, didToPod, didRole>>

Pods == [hub : Dids, hubbies : SUBSET Dids, station : StationIds \cup {NoStation}]
Roles == {"HUB", "HUBBY", "HYBRID"}

\* f with x mapped to y, as d[x] = y leaves a dict.
Put(f, x, y) == [z \in DOMAIN f \cup {x} |-> IF z = x THEN y ELSE f[z]]

Empty == [x \in {} |-> x]

Init ==
    /\ pods = Empty
    /\ stations = Empty
    /\ didToPod = Empty
    /\ didRole = Empty

-----------------------------------------------------------------------------
(* Lookups.                                                                *)

AllMembers(p) == {pods[p].hub} \cup pods[p].hubbies

\* get_pod_for_device, the devices for which it finds a pod.
InSomePod(d) == d \in DOMAIN didToPod /\ didToPod[d] \in DOMAIN pods

-----------------------------------------------------------------------------
(* Operations of the manager.                                              *)

\* Mutant of CreatePod: the pod is put on the list of any station.
CreatePodAnyStation(p, hub, s) ==
    /\ pods' = Put(pods, p, [hub |-> hub, hubbies |-> {}, station |-> s])
    /\ didToPod' = Put(didToPod, hub, p)
    /\ didRole' = Put(didRole, hub, "HUB")
    /\ stations' = IF s \in DOMAIN stations
                   THEN [stations EXCEPT ![s] = @ \cup {p}]
                   ELSE Put(stations, s, {p})

\* A pod whose id exists is replaced, its hubbies are gone.
CreatePod(p, hub, s) ==
    /\ pods' = Put(pods, p, [hub |-> hub, hubbies |-> {}, station |-> s])
    /\ didToPod' = Put(didToPod, hub, p)
    /\ didRole' = Put(didRole, hub, "HUB")
    /\ stations' = IF s \in DOMAIN stations
                   THEN [stations EXCEPT ![s] = @ \cup {p}] ELSE stations

\* A hub becomes a hybrid, any other device (a hybrid too) a hubby.
RoleAsHubby(d) ==
    IF d \in DOMAIN didRole /\ didRole[d] = "HUB" THEN "HYBRID" ELSE "HUBBY"

\* Mutants of AddHubbyToPod: a device that has a pod is not listed again, or
\* its pod is not recorded.
AddHubbyOnce(p, d) ==
    /\ p \in DOMAIN pods
    /\ pods' = [pods EXCEPT ![p].hubbies =
                    IF d \in DOMAIN didToPod THEN @ ELSE @ \cup {d}]
    /\ didToPod' = Put(didToPod, d, p)
    /\ didRole' = Put(didRole, d, RoleAsHubby(d))
    /\ UNCHANGED stations

AddHubbyUnrecorded(p, d) ==
    /\ p \in DOMAIN pods
    /\ pods' = [pods EXCEPT ![p].hubbies = @ \cup {d}]
    /\ didRole' = Put(didRole, d, RoleAsHubby(d))
    /\ UNCHANGED <<didToPod, stations>>

\* The pod lists a device once; an unknown pod_id raises and changes nothing.
AddHubbyToPod(p, d) ==
    /\ p \in DOMAIN pods
    /\ pods' = [pods EXCEPT ![p].hubbies = @ \cup {d}]
    /\ didToPod' = Put(didToPod, d, p)
    /\ didRole' = Put(didRole, d, RoleAsHubby(d))
    /\ UNCHANGED stations

\* A station whose id exists is replaced by one without pods.
CreateStation(s) ==
    /\ stations' = Put(stations, s, {})
    /\ UNCHANGED <<pods, didToPod, didRole>>

-----------------------------------------------------------------------------
(* Operations of Pod and Station, which the manager does not learn of.     *)

\* A hubby is added to the list of the pod, and to nothing else.
AddHubby(p, d) ==
    /\ DirectEdits
    /\ p \in DOMAIN pods /\ d \notin pods[p].hubbies
    /\ pods' = [pods EXCEPT ![p].hubbies = @ \cup {d}]
    /\ UNCHANGED <<stations, didToPod, didRole>>

RemoveHubby(p, d) ==
    /\ DirectEdits
    /\ p \in DOMAIN pods /\ d \in pods[p].hubbies
    /\ pods' = [pods EXCEPT ![p].hubbies = @ \ {d}]
    /\ UNCHANGED <<stations, didToPod, didRole>>

\* A station takes the id of any pod, of one that does not exist as well.
AddPod(s, p) ==
    /\ DirectEdits
    /\ s \in DOMAIN stations /\ p \notin stations[s]
    /\ stations' = [stations EXCEPT ![s] = @ \cup {p}]
    /\ UNCHANGED <<pods, didToPod, didRole>>

RemovePod(s, p) ==
    /\ DirectEdits
    /\ s \in DOMAIN stations /\ p \in stations[s]
    /\ stations' = [stations EXCEPT ![s] = @ \ {p}]
    /\ UNCHANGED <<pods, didToPod, didRole>>

Next ==
    \/ \E p \in PodIds, d \in Dids, s \in StationIds \cup {NoStation} :
            CreatePod(p, d, s)
    \/ \E p \in PodIds, d \in Dids :
        \/ AddHubbyToPod(p, d)
        \/ AddHubby(p, d)
        \/ RemoveHubby(p, d)
    \/ \E s \in StationIds : CreateStation(s)
    \/ \E s \in StationIds, p \in PodIds : AddPod(s, p) \/ RemovePod(s, p)

Spec == Init /\ [][Next]_vars

-----------------------------------------------------------------------------
(* Properties.                                                             *)

TypeOK ==
    /\ DOMAIN pods \subseteq PodIds
    /\ \A p \in DOMAIN pods : pods[p] \in Pods
    /\ DOMAIN stations \subseteq StationIds
    /\ \A s \in DOMAIN stations : stations[s] \subseteq PodIds
    /\ DOMAIN didToPod \subseteq Dids
    /\ \A d \in DOMAIN didToPod : didToPod[d] \in DOMAIN pods
    /\ DOMAIN didRole \subseteq Dids
    /\ \A d \in DOMAIN didRole : didRole[d] \in Roles

\* A member of a pod of which the manager knows no pod, or no role.
Unknown(d) ==
    /\ \E p \in DOMAIN pods : d \in AllMembers(p)
    /\ ~ (InSomePod(d) /\ d \in DOMAIN didRole)

\* A member of a pod is found in some pod and has a role, unless it was put
\* there behind the manager's back: nothing else that is done to pods, a
\* replacement of a pod and a removal included, makes the manager miss or
\* forget a member (topology.py:124-126, 137-148).
UnknownByEditOnly ==
    [][\A d \in Dids : Unknown(d)' =>
          Unknown(d) \/ \E p \in PodIds : AddHubby(p, d)]_vars

\* get_pod_for_device finds a pod that does not have the device.
Misplaced(d) == InSomePod(d) /\ d \notin AllMembers(didToPod[d])

\* "Find which pod a device belongs to" (topology.py:146): however a device
\* moves from pod to pod, the pod found for it has it among its members,
\* until the device is removed behind the manager's back or the pod is
\* created again.
MisplacedByEditOnly ==
    [][\A d \in Dids : Misplaced(d)' =>
          \/ Misplaced(d)
          \/ \E p \in PodIds : RemoveHubby(p, d)
          \/ \E p \in DOMAIN pods, hub \in Dids, s \in StationIds \cup {NoStation} :
                d \in AllMembers(p) /\ CreatePod(p, hub, s)]_vars

\* "Device that is hub in one pod and hubby in another = HYBRID"
\* (tests/test_topology.py:55), in whatever order the manager made it so.
HubAndHubbyIsHybrid ==
    \A p, q \in DOMAIN pods :
        p # q /\ pods[p].hub \in pods[q].hubbies => didRole[pods[p].hub] = "HYBRID"

=============================================================================
