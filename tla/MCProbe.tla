------------------------------- MODULE MCProbe -------------------------------
(* An instance of Probe for TLC.                                             *)
EXTENDS Probe, TLC

\* --active and --reply-to are given to the probes that look at them, and to one
\* that does not.
Tried ==
    {c \in CommandLines :
        /\ c.active \/ c.reply => c.probe \in {"handoff", "roundtrip", "inbox"}
        /\ c.target \in Dids => c.probe \in {"did", "sendpath", "ains"}}

Symmetry == Permutations(Runs)

=============================================================================
