------------------------- MODULE IoTLifecycle_proofs -------------------------
(***************************************************************************)
(* Theorems about IoTLifecycle, for any number of calls of start and stop: *)
(* as long as no call is made during another and none is cancelled a node  *)
(* that runs is up, and stop brings everything down.                       *)
(***************************************************************************)
EXTENDS IoTLifecycle, TLAPS

USE LifecycleAssumption

(***************************************************************************)
(* The invariant.  References hold however the calls overlap: what a start *)
(* in the making has opened is open, and is not yet what the node refers   *)
(* to; and loops that were not made are not cancelled.                     *)
(***************************************************************************)
InTheMaking ==
    \A s \in Starts :
        /\ pc[s] = "opening" => s \in sockets /\ socket # s
        /\ pc[s] = "joining" => s \in groups
        /\ pc[s] # "done" => loop[s] = "none" /\ group # s
        /\ pc[s] # "gathering"
        /\ loop[s] = "none" => s \notin cancelled

\* How far the calls are while none was made during another: all but c rest.
Alone(c) == \A d \in Calls \ {c} : pc[d] \in {"todo", "done"}
NobodyCalls == \A d \in Calls : pc[d] \in {"todo", "done"}

NoLoops == tasks = None /\ \A s \in Starts : ~ Alive(s)
NoGroup == group = None /\ groups = {}
OneSocket == socket # None /\ sockets = {socket}
OneGroup == groups = {group} \ {None}
OnlyTasks == tasks # None /\ \A s \in Starts \ {tasks} : ~ Alive(s)

AtRest ==
    ~ running /\ NobodyCalls /\ NoLoops /\ NoGroup /\ socket = None /\ sockets = {}
Opening(s) ==
    /\ ~ running /\ Alone(s) /\ NoLoops /\ NoGroup
    /\ pc[s] = "opening" /\ socket = None /\ sockets = {s}
Joining(s) ==
    /\ ~ running /\ Alone(s) /\ NoLoops /\ OneSocket
    /\ pc[s] = "joining" /\ group = None /\ groups = {s}
Running ==
    /\ running /\ NobodyCalls /\ OnlyTasks /\ OneSocket /\ OneGroup
    /\ Alive(tasks) /\ tasks \notin cancelled
Gathering(p) ==
    /\ ~ running /\ Alone(p) /\ OnlyTasks /\ OneSocket /\ OneGroup
    /\ pc[p] = "gathering" /\ awaited[p] = tasks

\* The node is in one of five phases.
InPhase ==
    \/ AtRest
    \/ \E s \in Starts : Opening(s) \/ Joining(s)
    \/ Running
    \/ \E p \in Stops : Gathering(p)

Inv == TypeOK /\ InTheMaking /\ (~ disturbed => InPhase)

\* A node that is made is at rest, and no call has been made.
LEMMA InitInv == Init => Inv
<1> SUFFICES ASSUME Init
             PROVE  Inv
  OBVIOUS
<1>1. TypeOK
  BY DEF Init, TypeOK
<1>2. InTheMaking
  BY DEF Init, InTheMaking, Calls
<1>3. AtRest
  BY DEF Init, AtRest, NobodyCalls, NoLoops, NoGroup, Alive
<1> QED
  BY <1>1, <1>2, <1>3 DEF Inv, InPhase

-----------------------------------------------------------------------------
(* References and types, however the calls overlap.                        *)

Refs == TypeOK /\ InTheMaking

\* A step that moves one call only.
LEMMA GoesTyped ==
    ASSUME TypeOK, NEW c \in Calls,
           NEW where \in {"todo", "opening", "joining", "gathering", "done"},
           Goes(c, where)
    PROVE  /\ pc' \in [Calls -> {"todo", "opening", "joining", "gathering", "done"}]
           /\ pc'[c] = where
           /\ \A d \in Calls \ {c} : pc'[d] = pc[d]
BY DEF TypeOK, Goes

\* That a call is made during another is a truth value.
LEMMA CalledTyped ==
    ASSUME TypeOK, NEW c, Called(c)
    PROVE  disturbed' \in BOOLEAN
BY DEF TypeOK, Called

\* The end of a start that was in the making.
LEMMA CreateTasksRefs ==
    ASSUME Refs, NEW s \in Starts, pc[s] # "done", CreateTasks(s),
           handlers' \subseteq Starts, disturbed' \in BOOLEAN,
           sockets' = sockets, socket' \in {socket, s} \cap (sockets \cup {None}),
           groups' = groups, group' \in {group, s} \cap (groups \cup {None})
    PROVE  Refs'
<1> USE DEF Refs
<1>1. /\ pc' \in [Calls -> {"todo", "opening", "joining", "gathering", "done"}]
      /\ pc'[s] = "done"
      /\ \A d \in Calls \ {s} : pc'[d] = pc[d]
  BY GoesTyped DEF CreateTasks, Calls
<1>2. /\ loop' \in [Starts -> {"none", "new", "asleep", "ended"}]
      /\ loop'[s] = "new" /\ s \notin cancelled
      /\ \A t \in Starts \ {s} : loop'[t] = loop[t]
  BY DEF CreateTasks, TypeOK, InTheMaking, Calls
<1>3. UNCHANGED <<cancelled, awaited>> /\ tasks' = s /\ running' = TRUE
  BY DEF CreateTasks
<1>4. TypeOK'
  BY <1>1, <1>2, <1>3 DEF TypeOK
<1>5. InTheMaking'
  BY <1>1, <1>2, <1>3 DEF InTheMaking, Calls
<1> QED
  BY <1>4, <1>5

\* Once the transport is up start goes on in one of two ways.
LEMMA StartDiscoveryRefs ==
    ASSUME Refs, NEW s \in Starts, pc[s] \in {"todo", "opening"}, StartDiscovery(s),
           handlers' \subseteq Starts, disturbed' \in BOOLEAN,
           sockets' = sockets, socket' \in {socket, s} \cap (sockets \cup {None})
    PROVE  Refs'
<1> USE DEF Refs
<1>1. CASE CreateTasks(s) /\ UNCHANGED <<groups, group>>
  BY <1>1, CreateTasksRefs DEF TypeOK
<1>2. CASE /\ group = None /\ groups' = groups \cup {s} /\ Goes(s, "joining")
           /\ UNCHANGED <<running, group, loopVars>>
  <2>1. /\ pc' \in [Calls -> {"todo", "opening", "joining", "gathering", "done"}]
        /\ pc'[s] = "joining"
        /\ \A d \in Calls \ {s} : pc'[d] = pc[d]
    BY <1>2, GoesTyped DEF Calls
  <2>2. TypeOK'
    BY <1>2, <2>1 DEF TypeOK, loopVars
  <2>3. InTheMaking'
    BY <1>2, <2>1 DEF InTheMaking, loopVars, Calls
  <2> QED
    BY <2>2, <2>3
<1> QED
  BY <1>1, <1>2 DEF StartDiscovery

\* A start keeps the types, wherever it has got to.
LEMMA StartRefs ==
    ASSUME Refs, NEW s \in Starts, Start(s)
    PROVE  Refs'
<1> USE DEF Refs
<1>0. s \in Calls
  BY DEF Calls
<1>1. CASE StartOnTransport(s)
  BY <1>1, StartDiscoveryRefs, CalledTyped DEF StartOnTransport, TypeOK, Called
<1>2. CASE StartOpens(s)
  <2>1. /\ pc' \in [Calls -> {"todo", "opening", "joining", "gathering", "done"}]
        /\ pc'[s] = "opening" /\ pc[s] = "todo"
        /\ \A d \in Calls \ {s} : pc'[d] = pc[d]
    BY <1>0, <1>2, GoesTyped DEF StartOpens, Called
  <2>2. UNCHANGED <<running, socket, groups, group, tasks, loop, cancelled, awaited>>
        /\ handlers' = handlers \cup {s} /\ sockets' = sockets \cup {s} /\ socket = None
    BY <1>2 DEF StartOpens, loopVars
  <2>3. TypeOK'
    BY <1>2, <2>1, <2>2, CalledTyped DEF StartOpens, TypeOK
  <2>4. InTheMaking'
    BY <2>1, <2>2 DEF InTheMaking, Calls
  <2> QED
    BY <2>3, <2>4
<1>3. CASE StartRaises(s) \/ StartIgnored(s)
  <2>1. /\ pc' \in [Calls -> {"todo", "opening", "joining", "gathering", "done"}]
        /\ pc'[s] = "done" /\ pc[s] = "todo"
        /\ \A d \in Calls \ {s} : pc'[d] = pc[d]
    BY <1>0, <1>3, GoesTyped DEF StartRaises, StartIgnored, Called
  <2>2. UNCHANGED <<running, sockets, socket, groups, group, tasks, loop, cancelled, awaited>>
        /\ handlers' \in {handlers, handlers \cup {s}}
    BY <1>3 DEF StartRaises, StartIgnored, loopVars, netVars
  <2>3. TypeOK'
    BY <1>3, <2>1, <2>2, CalledTyped DEF StartRaises, StartIgnored, TypeOK
  <2>4. InTheMaking'
    BY <2>1, <2>2 DEF InTheMaking, Calls
  <2> QED
    BY <2>3, <2>4
<1>4. CASE Opened(s)
  <2>1. pc[s] = "opening" /\ UNCHANGED <<disturbed, handlers, sockets>> /\ socket' = s
        /\ StartDiscovery(s)
    BY <1>4 DEF Opened, Resumed
  <2>2. s \in sockets
    BY <2>1 DEF InTheMaking
  <2> QED
    BY <2>1, <2>2, StartDiscoveryRefs DEF TypeOK
<1>5. CASE Joined(s)
  <2>1. pc[s] = "joining" /\ UNCHANGED <<disturbed, handlers, sockets, socket, groups>>
        /\ group' = s /\ CreateTasks(s)
    BY <1>5 DEF Joined, Resumed
  <2>2. s \in groups
    BY <2>1 DEF InTheMaking
  <2> QED
    BY <2>1, <2>2, CreateTasksRefs DEF TypeOK
<1>6. CASE StartCancelled(s)
  <2>1. /\ pc' \in [Calls -> {"todo", "opening", "joining", "gathering", "done"}]
        /\ pc'[s] = "done" /\ pc[s] \in {"opening", "joining", "gathering"}
        /\ \A d \in Calls \ {s} : pc'[d] = pc[d]
    BY <1>0, <1>6, GoesTyped DEF StartCancelled, Cancelled
  <2>2. UNCHANGED <<running, handlers, socket, group, tasks, loop, cancelled, awaited>>
        /\ disturbed' = TRUE
        /\ sockets' = (IF pc[s] = "opening" THEN sockets \ {s} ELSE sockets)
        /\ groups' = groups \ {s}
    BY <1>6 DEF StartCancelled, Cancelled, loopVars
  <2>3. TypeOK'
    BY <2>1, <2>2 DEF TypeOK, InTheMaking
  <2>4. InTheMaking'
    BY <2>1, <2>2 DEF InTheMaking, Calls
  <2> QED
    BY <2>3, <2>4
<1> QED
  BY <1>1, <1>2, <1>3, <1>4, <1>5, <1>6 DEF Start

\* stop closes what the node refers to, which is no start's in the making.
LEMMA StopRefs ==
    ASSUME Refs, NEW p \in Stops, Stop(p)
    PROVE  Refs'
<1> USE DEF Refs
<1>0. p \in Calls /\ p \notin Starts
  BY DEF Calls
<1>1. \A s \in Starts : pc'[s] = pc[s]
  BY <1>0, GoesTyped DEF Stop, StopBegins, StopEnds, StopAtOnce, StopIgnored,
     StopCancelled, Cancelled, Calls
<1>2. pc' \in [Calls -> {"todo", "opening", "joining", "gathering", "done"}]
  BY <1>0, GoesTyped DEF Stop, StopBegins, StopEnds, StopAtOnce, StopIgnored,
     StopCancelled, Cancelled
<1>3. disturbed' \in BOOLEAN
  BY CalledTyped DEF Stop, StopBegins, StopEnds, StopAtOnce, StopIgnored,
     StopCancelled, Cancelled, Resumed, TypeOK
<1>4. CASE StopBegins(p)
  <2>1. UNCHANGED <<netVars, tasks, loop>> /\ running' = FALSE /\ tasks # None
        /\ cancelled' = cancelled \cup {tasks}
        /\ awaited' = [awaited EXCEPT ![p] = tasks]
    BY <1>4 DEF StopBegins
  <2>2. TypeOK'
    BY <1>2, <1>3, <2>1 DEF TypeOK, netVars
  <2>3. InTheMaking'
    BY <1>1, <2>1 DEF InTheMaking, TypeOK, netVars
  <2> QED
    BY <2>2, <2>3
<1>5. CASE StopEnds(p) \/ StopAtOnce(p)
  <2>1. CloseAll /\ UNCHANGED <<loop, cancelled, awaited>> /\ running' \in BOOLEAN
        /\ tasks' \in {tasks, None}
    BY <1>5 DEF StopEnds, StopAtOnce, loopVars, TypeOK
  <2>2. TypeOK'
    BY <1>2, <1>3, <2>1 DEF TypeOK, CloseAll
  <2>3. InTheMaking'
    BY <1>1, <2>1 DEF InTheMaking, CloseAll
  <2> QED
    BY <2>2, <2>3
<1>6. CASE StopIgnored(p) \/ StopCancelled(p)
  <2>1. UNCHANGED <<running, netVars, loopVars>>
    BY <1>6 DEF StopIgnored, StopCancelled
  <2>2. TypeOK'
    BY <1>2, <1>3, <2>1 DEF TypeOK, netVars, loopVars
  <2>3. InTheMaking'
    BY <1>1, <2>1 DEF InTheMaking, netVars, loopVars
  <2> QED
    BY <2>2, <2>3
<1> QED
  BY <1>4, <1>5, <1>6 DEF Stop

\* A turn of a loop keeps the types.
LEMMA LoopTurnRefs ==
    ASSUME Refs, NEW s \in Starts, LoopTurn(s)
    PROVE  Refs'
<1> USE DEF Refs, LoopTurn
<1>1. /\ loop' \in [Starts -> {"none", "new", "asleep", "ended"}]
      /\ \A t \in Starts : loop'[t] = "none" <=> loop[t] = "none"
  BY DEF TypeOK
<1>2. TypeOK'
  BY <1>1 DEF TypeOK, netVars
<1>3. InTheMaking'
  BY <1>1 DEF InTheMaking, netVars
<1> QED
  BY <1>2, <1>3

-----------------------------------------------------------------------------
(* From phase to phase, undisturbed: no call made during another, and none *)
(* cancelled.                                                              *)

\* A call that is made while no other goes on finds the node at rest or running.
LEMMA PhaseOfCalled ==
    ASSUME Inv, NEW c \in Calls, Called(c), ~ disturbed'
    PROVE  NobodyCalls /\ (AtRest \/ Running)
<1>1. ~ disturbed /\ InProgress = {} /\ TypeOK
  BY DEF Called, Inv, TypeOK
<1>2. NobodyCalls
  BY <1>1 DEF InProgress, NobodyCalls, TypeOK
<1>3. \A s \in Starts : ~ Opening(s) /\ ~ Joining(s)
  BY <1>2 DEF NobodyCalls, Opening, Joining, Calls
<1>4. \A p \in Stops : ~ Gathering(p)
  BY <1>2 DEF NobodyCalls, Gathering, Calls
<1> QED
  BY <1>1, <1>2, <1>3, <1>4 DEF Inv, InPhase

\* A call that goes on is the one the phase is about.
LEMMA PhaseOfResumed ==
    ASSUME Inv, ~ disturbed
    PROVE  /\ \A s \in Starts : pc[s] = "opening" => Opening(s)
           /\ \A s \in Starts : pc[s] = "joining" => Joining(s)
           /\ \A p \in Stops : pc[p] = "gathering" => Gathering(p)
<1>1. InPhase
  BY DEF Inv
<1>2. ASSUME NEW c \in Calls, pc[c] \in {"opening", "joining", "gathering"}
      PROVE  ~ NobodyCalls /\ \A d \in Calls : Alone(d) => d = c
  BY <1>2 DEF NobodyCalls, Alone
<1>3. ASSUME NEW s \in Starts, pc[s] = "opening"
      PROVE  Opening(s)
  <2>1. ~ NobodyCalls /\ \A d \in Calls : Alone(d) => d = s
    BY <1>2, <1>3 DEF Calls
  <2>2. \A d \in Starts : Opening(d) \/ Joining(d) => d = s
    BY <2>1 DEF Opening, Joining, Calls
  <2>3. ~ Joining(s)
    BY <1>3 DEF Joining
  <2>4. \A p \in Stops : ~ Gathering(p)
    BY <2>1 DEF Gathering, Calls
  <2> QED
    BY <1>1, <2>1, <2>2, <2>3, <2>4 DEF InPhase, AtRest, Running
<1>4. ASSUME NEW s \in Starts, pc[s] = "joining"
      PROVE  Joining(s)
  <2>1. ~ NobodyCalls /\ \A d \in Calls : Alone(d) => d = s
    BY <1>2, <1>4 DEF Calls
  <2>2. \A d \in Starts : Opening(d) \/ Joining(d) => d = s
    BY <2>1 DEF Opening, Joining, Calls
  <2>3. ~ Opening(s)
    BY <1>4 DEF Opening
  <2>4. \A p \in Stops : ~ Gathering(p)
    BY <2>1 DEF Gathering, Calls
  <2> QED
    BY <1>1, <2>1, <2>2, <2>3, <2>4 DEF InPhase, AtRest, Running
<1>5. ASSUME NEW p \in Stops, pc[p] = "gathering"
      PROVE  Gathering(p)
  <2>1. ~ NobodyCalls /\ \A d \in Calls : Alone(d) => d = p
    BY <1>2, <1>5 DEF Calls
  <2>2. \A s \in Starts : ~ Opening(s) /\ ~ Joining(s)
    BY <2>1 DEF Opening, Joining, Calls
  <2>3. \A q \in Stops : Gathering(q) => q = p
    BY <2>1 DEF Gathering, Calls
  <2> QED
    BY <1>1, <2>1, <2>2, <2>3 DEF InPhase, AtRest, Running
<1> QED
  BY <1>3, <1>4, <1>5

\* start, of a node at rest with nothing else going on, ends with the node
\* running; a start that raises leaves it at rest.
LEMMA StartPhase ==
    ASSUME Inv, NEW s \in Starts, Start(s), ~ disturbed'
    PROVE  InPhase'
<1>0. TypeOK /\ s \in Calls
  BY DEF Inv, Calls
<1>1. CASE StartOnTransport(s)
  <2>1. AtRest \/ Running
    BY <1>0, <1>1, PhaseOfCalled DEF StartOnTransport
  <2> QED
    BY <1>1, <2>1 DEF StartOnTransport, AtRest, Running
<1>2. CASE StartOpens(s)
  <2>1. AtRest
    BY <1>0, <1>2, PhaseOfCalled DEF StartOpens, Running
  <2>2. pc'[s] = "opening" /\ \A d \in Calls \ {s} : pc'[d] = pc[d]
    BY <1>0, <1>2, GoesTyped DEF StartOpens
  <2>3. UNCHANGED <<running, socket, groups, group, tasks, loop>>
        /\ sockets' = sockets \cup {s}
    BY <1>2 DEF StartOpens, loopVars
  <2>4. Alone(s)' /\ NoLoops' /\ NoGroup'
    BY <2>1, <2>2, <2>3 DEF AtRest, NobodyCalls, Alone, NoLoops, NoGroup, Alive, Calls
  <2>5. Opening(s)'
    BY <2>1, <2>2, <2>3, <2>4 DEF AtRest, Opening
  <2> QED
    BY <2>5 DEF InPhase
<1>3. CASE StartRaises(s)
  <2>1. AtRest
    BY <1>0, <1>3, PhaseOfCalled DEF StartRaises, Running
  <2>2. pc'[s] = "done" /\ \A d \in Calls \ {s} : pc'[d] = pc[d]
    BY <1>0, <1>3, GoesTyped DEF StartRaises
  <2>3. UNCHANGED <<running, sockets, socket, groups, group, tasks, loop>>
    BY <1>3 DEF StartRaises, loopVars
  <2>4. NobodyCalls' /\ NoLoops' /\ NoGroup'
    BY <2>1, <2>2, <2>3 DEF AtRest, NobodyCalls, NoLoops, NoGroup, Alive, Calls
  <2> QED
    BY <2>1, <2>3, <2>4 DEF AtRest, InPhase
<1>4. CASE Opened(s)
  <2>1. Opening(s) /\ pc[s] = "opening" /\ ~ disturbed
    BY <1>4, PhaseOfResumed DEF Opened, Resumed
  <2>2. socket' = s /\ sockets' = sockets /\ StartDiscovery(s)
    BY <1>4 DEF Opened
  <2>3. OneSocket'
    BY <2>1, <2>2 DEF Opening, OneSocket
  <2>4. CASE CreateTasks(s) /\ UNCHANGED <<groups, group>>
    <3>1. pc'[s] = "done" /\ \A d \in Calls \ {s} : pc'[d] = pc[d]
      BY <1>0, <2>4, GoesTyped DEF CreateTasks
    <3>2. tasks' = s /\ running' = TRUE /\ cancelled' = cancelled
          /\ loop'[s] = "new" /\ \A t \in Starts \ {s} : loop'[t] = loop[t]
      BY <2>4 DEF CreateTasks, TypeOK, Inv
    <3>3. NobodyCalls' /\ OnlyTasks' /\ OneGroup'
      BY <2>1, <2>4, <3>1, <3>2
         DEF Opening, NobodyCalls, Alone, NoLoops, NoGroup, OnlyTasks, OneGroup, Alive, Calls
    <3>4. s \notin cancelled
      BY <2>1 DEF Inv, InTheMaking
    <3>5. Running'
      BY <2>3, <3>2, <3>3, <3>4 DEF Running, Alive
    <3> QED
      BY <3>5 DEF InPhase
  <2>5. CASE /\ group = None /\ groups' = groups \cup {s} /\ Goes(s, "joining")
             /\ UNCHANGED <<running, group, loopVars>>
    <3>1. pc'[s] = "joining" /\ \A d \in Calls \ {s} : pc'[d] = pc[d]
      BY <1>0, <2>5, GoesTyped
    <3>2. Alone(s)' /\ NoLoops'
      BY <2>1, <2>5, <3>1 DEF Opening, Alone, NoLoops, Alive, Calls, loopVars
    <3>3. Joining(s)'
      BY <2>1, <2>3, <2>5, <3>1, <3>2 DEF Opening, Joining, NoGroup
    <3> QED
      BY <3>3 DEF InPhase
  <2> QED
    BY <2>2, <2>4, <2>5 DEF StartDiscovery
<1>5. CASE Joined(s)
  <2>1. Joining(s) /\ pc[s] = "joining" /\ ~ disturbed
    BY <1>5, PhaseOfResumed DEF Joined, Resumed
  <2>2. group' = s /\ UNCHANGED <<sockets, socket, groups>> /\ CreateTasks(s)
    BY <1>5 DEF Joined
  <2>3. pc'[s] = "done" /\ \A d \in Calls \ {s} : pc'[d] = pc[d]
    BY <1>0, <2>2, GoesTyped DEF CreateTasks
  <2>4. tasks' = s /\ running' = TRUE /\ cancelled' = cancelled
        /\ loop'[s] = "new" /\ \A t \in Starts \ {s} : loop'[t] = loop[t]
    BY <2>2 DEF CreateTasks, TypeOK, Inv
  <2>5. NobodyCalls' /\ OnlyTasks' /\ OneSocket' /\ OneGroup'
    BY <2>1, <2>2, <2>3, <2>4
       DEF Joining, NobodyCalls, Alone, NoLoops, OnlyTasks, OneSocket, OneGroup, Alive, Calls
  <2>6. s \notin cancelled
    BY <2>1 DEF Inv, InTheMaking
  <2>7. Running'
    BY <2>4, <2>5, <2>6 DEF Running, Alive
  <2> QED
    BY <2>7 DEF InPhase
<1>6. CASE StartIgnored(s)
  <2>1. Running
    BY <1>0, <1>6, PhaseOfCalled DEF StartIgnored, AtRest
  <2>2. pc'[s] = "done" /\ \A d \in Calls \ {s} : pc'[d] = pc[d]
    BY <1>0, <1>6, GoesTyped DEF StartIgnored
  <2>3. UNCHANGED <<running, sockets, socket, groups, group, tasks, loop, cancelled>>
    BY <1>6 DEF StartIgnored, loopVars, netVars
  <2>4. NobodyCalls'
    BY <2>1, <2>2 DEF Running, NobodyCalls, Calls
  <2>5. Running'
    BY <2>1, <2>3, <2>4 DEF Running, OnlyTasks, OneSocket, OneGroup, Alive
  <2> QED
    BY <2>5 DEF InPhase
<1>7. CASE StartCancelled(s)
  BY <1>7 DEF StartCancelled, Cancelled
<1> QED
  BY <1>1, <1>2, <1>3, <1>4, <1>5, <1>6, <1>7 DEF Start

\* stop, of a running node with nothing else going on, waits for the loops and
\* ends with the node at rest.
LEMMA StopPhase ==
    ASSUME Inv, NEW p \in Stops, Stop(p), ~ disturbed'
    PROVE  /\ InPhase'
           /\ pc'[p] = "done" => AtRest'
<1>0. TypeOK /\ p \in Calls
  BY DEF Inv, Calls
<1>1. CASE StopBegins(p)
  <2>1. Running
    BY <1>0, <1>1, PhaseOfCalled DEF StopBegins, AtRest
  <2>2. pc'[p] = "gathering" /\ \A d \in Calls \ {p} : pc'[d] = pc[d]
    BY <1>0, <1>1, GoesTyped DEF StopBegins
  <2>3. running' = FALSE /\ UNCHANGED <<sockets, socket, groups, group, tasks, loop>>
        /\ awaited'[p] = tasks
    BY <1>0, <1>1 DEF StopBegins, netVars, TypeOK
  <2>4. Alone(p)'
    BY <2>1, <2>2 DEF Running, NobodyCalls, Alone, Calls
  <2>5. Gathering(p)'
    BY <2>1, <2>2, <2>3, <2>4
       DEF Running, Gathering, OnlyTasks, OneSocket, OneGroup, Alive
  <2> QED
    BY <2>2, <2>5 DEF InPhase
<1>2. CASE StopEnds(p)
  <2>1. Gathering(p) /\ pc[p] = "gathering" /\ ~ disturbed
    BY <1>2, PhaseOfResumed DEF StopEnds, Resumed
  <2>2. loop[tasks] = "ended" /\ tasks' = None /\ CloseAll /\ UNCHANGED <<running, loop>>
    BY <1>2, <2>1 DEF StopEnds, Gathering
  <2>3. pc'[p] = "done" /\ \A d \in Calls \ {p} : pc'[d] = pc[d]
    BY <1>0, <1>2, GoesTyped DEF StopEnds
  <2>4. NobodyCalls'
    BY <2>1, <2>3 DEF Gathering, Alone, NobodyCalls, Calls
  <2>5. NoLoops'
    BY <2>1, <2>2 DEF Gathering, OnlyTasks, NoLoops, Alive
  <2>6. NoGroup' /\ socket' = None /\ sockets' = {}
    BY <2>1, <2>2 DEF Gathering, OneSocket, OneGroup, NoGroup, CloseAll
  <2>7. AtRest'
    BY <2>1, <2>2, <2>4, <2>5, <2>6 DEF Gathering, AtRest
  <2> QED
    BY <2>7 DEF InPhase
<1>3. CASE StopAtOnce(p)
  <2>1. AtRest \/ Running
    BY <1>0, <1>3, PhaseOfCalled DEF StopAtOnce
  <2> QED
    BY <1>3, <2>1 DEF StopAtOnce, AtRest, Running, OnlyTasks
<1>4. CASE StopIgnored(p)
  <2>1. AtRest
    BY <1>0, <1>4, PhaseOfCalled DEF StopIgnored, Running
  <2>2. pc'[p] = "done" /\ \A d \in Calls \ {p} : pc'[d] = pc[d]
    BY <1>0, <1>4, GoesTyped DEF StopIgnored
  <2>3. UNCHANGED <<running, sockets, socket, groups, group, tasks, loop>>
    BY <1>4 DEF StopIgnored, loopVars, netVars
  <2>4. NobodyCalls' /\ NoLoops' /\ NoGroup'
    BY <2>1, <2>2, <2>3 DEF AtRest, NobodyCalls, NoLoops, NoGroup, Alive, Calls
  <2> QED
    BY <2>1, <2>3, <2>4 DEF AtRest, InPhase
<1>5. CASE StopCancelled(p)
  BY <1>5 DEF StopCancelled, Cancelled
<1> QED
  BY <1>1, <1>2, <1>3, <1>4, <1>5 DEF Stop

\* The loops that are alive are those the node refers to, and they sleep on
\* while it runs.
LEMMA LoopTurnPhase ==
    ASSUME Inv, NEW s \in Starts, LoopTurn(s), ~ disturbed'
    PROVE  InPhase'
<1>0. InPhase /\ Alive(s)
  BY DEF Inv, LoopTurn, Alive
<1>1. /\ UNCHANGED <<pc, running, sockets, socket, groups, group, tasks, cancelled, awaited>>
      /\ loop'[s] = IF s \in cancelled \/ ~ running THEN "ended" ELSE "asleep"
      /\ \A t \in Starts \ {s} : loop'[t] = loop[t]
  BY DEF LoopTurn, netVars, Inv, TypeOK
<1>2. ~ NoLoops
  BY <1>0 DEF NoLoops
<1>3. CASE Running
  <2>1. s = tasks
    BY <1>0, <1>3 DEF Running, OnlyTasks
  <2>2. Running'
    BY <1>1, <1>3, <2>1 DEF Running, NobodyCalls, OnlyTasks, OneSocket, OneGroup, Alive, Calls
  <2> QED
    BY <2>2 DEF InPhase
<1>4. ASSUME NEW p \in Stops, Gathering(p)
      PROVE  InPhase'
  <2>1. s = tasks
    BY <1>0, <1>4 DEF Gathering, OnlyTasks
  <2>2. Gathering(p)'
    BY <1>1, <1>4, <2>1 DEF Gathering, Alone, OnlyTasks, OneSocket, OneGroup, Alive, Calls
  <2> QED
    BY <2>2 DEF InPhase
<1> QED
  BY <1>0, <1>2, <1>3, <1>4 DEF InPhase, AtRest, Opening, Joining

-----------------------------------------------------------------------------
(* Theorems.                                                               *)

\* Every step of the node keeps the invariant.
LEMMA NextInv == Inv /\ [Next]_vars => Inv'
<1> SUFFICES ASSUME Inv, [Next]_vars
             PROVE  Inv'
  OBVIOUS
<1>1. CASE UNCHANGED vars
  <2>1. TypeOK' /\ InTheMaking'
    BY <1>1 DEF vars, netVars, loopVars, Inv, TypeOK, InTheMaking
  <2>2. ~ disturbed' => InPhase'
    BY <1>1 DEF vars, netVars, loopVars, Inv, InPhase, AtRest, Opening, Joining, Running,
       Gathering, NobodyCalls, Alone, NoLoops, NoGroup, OneSocket, OneGroup, OnlyTasks,
       Alive, Calls
  <2> QED
    BY <2>1, <2>2 DEF Inv
<1>2. ASSUME NEW s \in Starts, Start(s) \/ LoopTurn(s)
      PROVE  Inv'
  BY <1>2, StartRefs, LoopTurnRefs, StartPhase, LoopTurnPhase DEF Inv, Refs
<1>3. ASSUME NEW p \in Stops, Stop(p)
      PROVE  Inv'
  BY <1>3, StopRefs, StopPhase DEF Inv, Refs
<1> QED
  BY <1>1, <1>2, <1>3 DEF Next

\* The invariant holds of every behaviour.
LEMMA InvHolds == Spec => []Inv
BY InitInv, NextInv, PTL DEF Spec

\* However calls of start and stop overlap or are cancelled, the transport and
\* discovery refer to open sockets and _tasks to loops that were made
\* (iot_node.py:125-175, udp.py:127-157, discovery.py:69-121).
THEOREM TypeCorrect == Spec => []TypeOK
<1>1. Inv => TypeOK
  BY DEF Inv
<1> QED
  BY <1>1, InvHolds, PTL

\* A node that says it runs has a transport and live loops that stop can find, as
\* long as no call of start or stop is made during another and none is cancelled
\* (iot_node.py:125-149).
THEOREM RunningIsUpWhenUndisturbed == Spec => []RunningIsUpUndisturbed
<1>1. Inv => RunningIsUpUndisturbed
  BY DEF Inv, InPhase, AtRest, Opening, Joining, Running, Gathering, OnlyTasks, OneSocket,
         RunningIsUpUndisturbed, RunningIsUp
<1> QED
  BY <1>1, InvHolds, PTL

\* When stop returns nothing of the node is up, as long as no call of start or
\* stop has been made during another and none has been cancelled: no socket, no
\* group and no loop is left then (iot_node.py:152-175).
THEOREM StopStopsEverything == Spec => StopStopsAll
<1> DEFINE A == \A p \in Stops : pc[p] # "done" /\ pc'[p] = "done" /\ ~ disturbed'
                    => AllDown'
<1>1. Inv /\ [Next]_vars => [A]_vars
  <2> SUFFICES ASSUME Inv, Next, NEW p \in Stops, pc[p] # "done", pc'[p] = "done",
                      ~ disturbed'
               PROVE  AllDown'
    BY DEF A
  <2>1. ASSUME NEW c \in Calls, c # p,
               NEW where \in {"todo", "opening", "joining", "gathering", "done"},
               Goes(c, where)
        PROVE  FALSE
    BY <2>1, GoesTyped DEF Inv, Calls
  <2>2. ASSUME NEW s \in Starts, Start(s)
        PROVE  FALSE
    <3>1. s \in Calls /\ s # p
      BY DEF Calls
    <3> QED
      BY <2>1, <2>2, <3>1 DEF Start, StartOnTransport, StartOpens, StartRaises, Opened,
         Joined, StartIgnored, StartCancelled, StartDiscovery, CreateTasks, Cancelled
  <2>3. ASSUME NEW s \in Starts, LoopTurn(s)
        PROVE  FALSE
    BY <2>3 DEF LoopTurn
  <2>4. ASSUME NEW q \in Stops, Stop(q)
        PROVE  AllDown'
    <3>1. q = p
      <4>1. q \in Calls
        BY DEF Calls
      <4> QED
        BY <2>1, <2>4, <4>1 DEF Stop, StopBegins, StopEnds, StopAtOnce, StopIgnored,
           StopCancelled, Cancelled
    <3>2. AtRest'
      BY <2>4, <3>1, StopPhase
    <3> QED
      BY <3>2 DEF AtRest, NoLoops, NoGroup, AllDown
  <2> QED
    BY <2>2, <2>3, <2>4 DEF Next
<1> QED
  BY <1>1, InvHolds, PTL DEF Spec, StopStopsAll

==============================================================================
