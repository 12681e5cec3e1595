----------------------------- MODULE MCMeshNode -----------------------------
(* An instance of MeshNode for TLC.                                          *)
EXTENDS MeshNode, TLC

CONSTANTS a, b, m1, m2, m3, u1, u2, near, far

Mail(id, source, target, mesh, hops, stamp) ==
    [id |-> id, source |-> source, target |-> target, mesh |-> mesh, hops |-> hops,
     stamp |-> stamp]

\* Three packets between a and b for the relay, one of them also with all its
\* hops behind it, one for the node itself that comes over two paths and may
\* be stamped ahead, and one for everybody, which the airlock rejects.
TwoPeers == {a, b, Self}
ThreeRelayed ==
    {Mail(m1, a, b, TRUE, 0, 0), Mail(m1, a, b, TRUE, 1, 0), Mail(m2, b, a, TRUE, 0, 0),
     Mail(m3, a, b, TRUE, 0, 0), Mail(u1, a, Self, FALSE, 0, 1),
     Mail(u2, b, Broadcast, FALSE, 0, 0)}
TwoPaths ==
    {<<p, IF p.source = a THEN near ELSE far>> : p \in ThreeRelayed}
        \cup {<<p, far>> : p \in {q \in ThreeRelayed : q.id = u1}}

=============================================================================
