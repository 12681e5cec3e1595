----------------------------- MODULE IoTLifecycle -----------------------------
(***************************************************************************)
(* start() and stop() of IoTNode (transport/iot_node.py) with those of     *)
(* UDPTransport (udp.py) and NetworkDiscovery (discovery.py), and the      *)
(* background loops of a node.                                             *)
(*                                                                         *)
(* start and stop are coroutines.  They give up control only where they    *)
(* really wait: for a new datagram endpoint, and for the cancelled loops;  *)
(* another call of start or stop, and the loops, run there.  The UDP       *)
(* transport runs while it refers to a socket, and discovery listens while *)
(* it refers to a multicast socket, so that no separate flag is kept.      *)
(*                                                                         *)
(* A call of start names what it creates: its handler, its sockets, and    *)
(* its three loops.  The loops are alike and independent of each other;    *)
(* the one modelled stands for each of them.                               *)
(***************************************************************************)
CONSTANTS
    Starts, Stops,  \* the calls of start() and of stop()
    None

ASSUME LifecycleAssumption ==
    /\ Starts \cap Stops = {}
    /\ None \notin Starts

VARIABLES
    pc,             \* how far each call is
    running,        \* _running of the node
    handlers,       \* the calls of start that have registered the handler
    sockets,        \* the open sockets of the transport ...
    socket,         \* ... and the one it refers to
    groups,         \* the open multicast sockets of discovery ...
    group,          \* ... and the one it refers to
    tasks,          \* _tasks: the start whose loops they are
    loop,           \* the loops of each start
    cancelled,      \* the starts whose loops were asked to end
    awaited,        \* the loops a stop waits for
    disturbed       \* history: has a call been made while another went on, or
                    \* has the caller of one been cancelled while it waited?

netVars == <<handlers, sockets, socket, groups, group>>
loopVars == <<tasks, loop, cancelled, awaited>>
vars == <<pc, running, netVars, loopVars, disturbed>>

Calls == Starts \cup Stops
InProgress == {c \in Calls : pc[c] \notin {"todo", "done"}}

Init ==
    /\ pc = [c \in Calls |-> "todo"]
    /\ running = FALSE
    /\ handlers = {}
    /\ sockets = {} /\ socket = None
    /\ groups = {} /\ group = None
    /\ tasks = None
    /\ loop = [s \in Starts |-> "none"]
    /\ cancelled = {}
    /\ awaited = [p \in Stops |-> None]
    /\ disturbed = FALSE

Goes(c, where) == pc' = [pc EXCEPT ![c] = where]

Called(c) ==
    /\ pc[c] = "todo"
    /\ disturbed' = (disturbed \/ InProgress # {})

Resumed(c, where) ==
    /\ pc[c] = where
    /\ UNCHANGED disturbed

Cancelled(c) ==
    /\ pc[c] \in {"opening", "joining", "gathering"}
    /\ disturbed' = TRUE
    /\ Goes(c, "done")

-----------------------------------------------------------------------------
(* start.                                                                  *)

CreateTasks(s) ==
    /\ tasks' = s
    /\ loop' = [loop EXCEPT ![s] = "new"]
    /\ running' = TRUE
    /\ Goes(s, "done")
    /\ UNCHANGED <<cancelled, awaited>>

\* Once the transport is up: discovery, unless it listens, and the loops.
\* An OSError of discovery is logged and start goes on.
StartDiscovery(s) ==
    \/ /\ CreateTasks(s)
       /\ UNCHANGED <<groups, group>>
    \/ /\ group = None
       /\ groups' = groups \cup {s}
       /\ Goes(s, "joining")
       /\ UNCHANGED <<running, group, loopVars>>

\* The handler is registered whether or not start succeeds.
StartOnTransport(s) ==
    /\ Called(s) /\ ~ running
    /\ handlers' = handlers \cup {s}
    /\ socket # None
    /\ StartDiscovery(s)
    /\ UNCHANGED <<sockets, socket>>

StartOpens(s) ==
    /\ Called(s) /\ ~ running
    /\ handlers' = handlers \cup {s}
    /\ socket = None
    /\ sockets' = sockets \cup {s}
    /\ Goes(s, "opening")
    /\ UNCHANGED <<running, socket, groups, group, loopVars>>

\* The address is in use, or the like: start raises.
StartRaises(s) ==
    /\ Called(s) /\ ~ running
    /\ handlers' = handlers \cup {s}
    /\ socket = None
    /\ Goes(s, "done")
    /\ UNCHANGED <<running, sockets, socket, groups, group, loopVars>>

Opened(s) ==
    /\ Resumed(s, "opening")
    /\ socket' = s
    /\ StartDiscovery(s)
    /\ UNCHANGED <<handlers, sockets>>

Joined(s) ==
    /\ Resumed(s, "joining")
    /\ group' = s
    /\ CreateTasks(s)
    /\ UNCHANGED <<handlers, sockets, socket, groups>>

StartIgnored(s) ==
    /\ Called(s) /\ running
    /\ Goes(s, "done")
    /\ UNCHANGED <<running, netVars, loopVars>>

\* The caller of start is cancelled: the endpoint in the making is closed,
\* what was made before stays.  Cancelled while joining, start leaves the
\* transport up under a node that does not run, and stop closes nothing then.
StartCancelled(s) ==
    /\ Cancelled(s)
    /\ sockets' = IF pc[s] = "opening" THEN sockets \ {s} ELSE sockets
    /\ groups' = groups \ {s}
    /\ UNCHANGED <<running, handlers, socket, group, loopVars>>

-----------------------------------------------------------------------------
(* stop.                                                                   *)

\* Mutants of CloseAll: a reference is kept, or discovery is forgotten.
CloseKeepingReference ==
    /\ groups' = groups \ {group} /\ group' = None
    /\ sockets' = sockets \ {socket}
    /\ UNCHANGED <<handlers, socket>>

CloseTransport ==
    /\ sockets' = sockets \ {socket} /\ socket' = None
    /\ UNCHANGED <<handlers, groups, group>>

\* discovery.stop() and transport.stop() close what they refer to.
CloseAll ==
    /\ groups' = groups \ {group} /\ group' = None
    /\ sockets' = sockets \ {socket} /\ socket' = None
    /\ UNCHANGED handlers

\* Mutant of StopBegins: _running is cleared by whoever comes later.
StopBeginsRunning(p) ==
    /\ Called(p) /\ running /\ tasks # None
    /\ cancelled' = cancelled \cup {tasks}
    /\ awaited' = [awaited EXCEPT ![p] = tasks]
    /\ Goes(p, "gathering")
    /\ UNCHANGED <<running, netVars, tasks, loop>>

\* The loops are cancelled, and waited for.
StopBegins(p) ==
    /\ Called(p) /\ running /\ tasks # None
    /\ running' = FALSE
    /\ cancelled' = cancelled \cup {tasks}
    /\ awaited' = [awaited EXCEPT ![p] = tasks]
    /\ Goes(p, "gathering")
    /\ UNCHANGED <<netVars, tasks, loop>>

StopEnds(p) ==
    /\ Resumed(p, "gathering") /\ loop[awaited[p]] = "ended"
    /\ tasks' = None
    /\ CloseAll
    /\ Goes(p, "done")
    /\ UNCHANGED <<running, loop, cancelled, awaited>>

\* Without loops to wait for, stop is one step.
StopAtOnce(p) ==
    /\ Called(p) /\ running /\ tasks = None
    /\ running' = FALSE
    /\ CloseAll
    /\ Goes(p, "done")
    /\ UNCHANGED loopVars

StopIgnored(p) ==
    /\ Called(p) /\ ~ running
    /\ Goes(p, "done")
    /\ UNCHANGED <<running, netVars, loopVars>>

StopCancelled(p) ==
    /\ Cancelled(p)
    /\ UNCHANGED <<running, netVars, loopVars>>

-----------------------------------------------------------------------------
(* The loops.                                                              *)

\* Mutant of LoopTurn: the loop does not look at _running.
LoopTurnForever(s) ==
    /\ loop[s] \in {"new", "asleep"}
    /\ loop' = [loop EXCEPT ![s] = IF s \in cancelled THEN "ended" ELSE "asleep"]
    /\ UNCHANGED <<pc, running, netVars, tasks, cancelled, awaited, disturbed>>

\* A loop runs for the first time or wakes up.  Cancellation ends it; else
\* it sends, any exception of which is logged, and goes on while the node
\* runs.
LoopTurn(s) ==
    /\ loop[s] \in {"new", "asleep"}
    /\ loop' = [loop EXCEPT ![s] =
                    IF s \in cancelled \/ ~ running THEN "ended" ELSE "asleep"]
    /\ UNCHANGED <<pc, running, netVars, tasks, cancelled, awaited, disturbed>>

Start(s) ==
    \/ StartOnTransport(s)
    \/ StartOpens(s)
    \/ StartRaises(s)
    \/ Opened(s)
    \/ Joined(s)
    \/ StartIgnored(s)
    \/ StartCancelled(s)

Stop(p) ==
    \/ StopBegins(p)
    \/ StopEnds(p)
    \/ StopAtOnce(p)
    \/ StopIgnored(p)
    \/ StopCancelled(p)

Next ==
    \/ \E s \in Starts : Start(s) \/ LoopTurn(s)
    \/ \E p \in Stops : Stop(p)

Spec == Init /\ [][Next]_vars

\* The event loop runs a task whose sleep is over or that is cancelled.
FairSpec == Spec /\ \A s \in Starts : WF_vars(LoopTurn(s))

-----------------------------------------------------------------------------
(* Properties.                                                             *)

\* The references are to open sockets, and _tasks to loops that were made.
TypeOK ==
    /\ pc \in [Calls -> {"todo", "opening", "joining", "gathering", "done"}]
    /\ running \in BOOLEAN
    /\ handlers \subseteq Starts
    /\ sockets \subseteq Starts /\ socket \in sockets \cup {None}
    /\ groups \subseteq Starts /\ group \in groups \cup {None}
    /\ loop \in [Starts -> {"none", "new", "asleep", "ended"}]
    /\ tasks \in {s \in Starts : loop[s] # "none"} \cup {None}
    /\ cancelled \subseteq Starts
    /\ awaited \in [Stops -> Starts \cup {None}]
    /\ disturbed \in BOOLEAN

Alive(s) == loop[s] \in {"new", "asleep"}

\* "Start the node: transport, discovery, and background tasks"
\* (iot_node.py:126): a node that runs has a transport to send by and loops
\* that stop can find.
RunningIsUp ==
    running => /\ socket # None
               /\ tasks # None
               /\ Alive(tasks) /\ tasks \notin cancelled

\* The same as long as no call is made during another and none is cancelled: a
\* start may raise, or go on without discovery.
RunningIsUpUndisturbed == ~ disturbed => RunningIsUp

AllDown ==
    /\ ~ running
    /\ sockets = {} /\ groups = {}
    /\ \A s \in Starts : ~ Alive(s)

\* "Stop the node and all background tasks" (iot_node.py:153): when stop
\* returns nothing of the node is up, as long as no call is made during another
\* and none is cancelled.  Either condition is needed.  A start cancelled while
\* it waits for discovery (iot_node.py:138) leaves its transport open with
\* _running false, so that a stop that comes after it returns at line 154 with
\* the socket open; a stop made during a start returns there too.
StopStopsAll ==
    [][\A p \in Stops : pc[p] # "done" /\ pc'[p] = "done" /\ ~ disturbed'
            => AllDown']_vars

\* Every loop ends once the node stops for good, the loops that a racing
\* start has made and no list refers to included (iot_node.py:328, 339, 350).
\* Calls may overlap and be cancelled here.  It says nothing of a node that a
\* start brings up after stop has returned: that one runs.
LoopsEnd == <>[](~ running) => <>[](\A s \in Starts : ~ Alive(s))

=============================================================================
