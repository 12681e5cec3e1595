\* Two overlapping runs of any probe.
SPECIFICATION Spec
CONSTANTS
    Runs = {r1, r2}
    Servers = {server}
    AintNames = {name}
    Dids = {did, nameless}
    NamelessDids = {nameless}
    Calls <- Tried
    MaxSecond = 1
SYMMETRY Symmetry
INVARIANTS
    OnlyAskedForWrites
    VerdictsAreTrue
CHECK_DEADLOCK FALSE
