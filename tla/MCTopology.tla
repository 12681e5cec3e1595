------------------------------ MODULE MCTopology ------------------------------
(* Instances of Topology for TLC: devices and pods are interchangeable.      *)
EXTENDS Topology, TLC

CONSTANTS a, b, c, p1, p2, s1

Symmetry == Permutations(Dids) \cup Permutations(PodIds)

=============================================================================
