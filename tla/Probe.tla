-------------------------------- MODULE Probe --------------------------------
(***************************************************************************)
(* The probes of cli.py: runs of `tibet-ping --probe', each asking one     *)
(* question of one surface of the stack and printing one result.  Several  *)
(* runs may overlap; a server may answer late, after the run has given up, *)
(* or never.  An active probe writes an object into the inbox of a         *)
(* continuityd, under a name made from the second of the call.             *)
(*                                                                         *)
(* A result is its two fields reachable and verdict; what is printed with  *)
(* it is left out.                                                         *)
(***************************************************************************)
EXTENDS Integers

CONSTANTS
    Runs,           \* runs of the command
    Servers,        \* host:port of a continuityd or a mux
    AintNames,      \* targets that end with .aint
    Dids,           \* targets that start with jis:
    NamelessDids,   \* those with nothing to look up: no segment before the @
    Calls,          \* the command lines that are tried
    MaxSecond       \* bound on the clock

Kinds == {"ains", "aint", "did", "continuityd", "listener", "handoff",
          "roundtrip", "inbox", "mux", "sendpath"}

\* The arguments of a run: reply says whether --reply-to is given.
CommandLines ==
    [probe : Kinds, target : Servers \cup AintNames \cup Dids,
     active : BOOLEAN, reply : BOOLEAN]

ASSUME ProbeAssumption ==
    /\ Calls \subseteq CommandLines
    /\ NamelessDids \subseteq Dids
    /\ MaxSecond \in Nat

VARIABLES
    second,         \* int(time.time())
    pc,             \* "idle", "asked" or "done"
    call,           \* the arguments of a run, and when it asked
    result,         \* what a run has printed
    requests,       \* the runs whose request is on its way
    answer,         \* what the server has answered to a run
    inboxes         \* of each server: which run's object is under a name

vars == <<second, pc, call, result, requests, answer, inboxes>>

Init ==
    /\ second = 0
    /\ pc = [r \in Runs |-> "idle"]
    /\ call = [r \in Runs |-> <<>>]
    /\ result = [r \in Runs |-> <<>>]
    /\ requests = {}
    /\ answer = [r \in Runs |-> "none"]
    /\ inboxes = [s \in Servers |-> <<>>]

Result(reachable, verdict) == [reachable |-> reachable, verdict |-> verdict]

-----------------------------------------------------------------------------
(* What a run does before it asks anyone.                                  *)

\* sendpath looks at the target and becomes another probe.
Dispatched(c) ==
    IF c.probe # "sendpath" THEN c.probe
    ELSE IF c.target \in AintNames THEN "aint"
    ELSE IF c.target \in Dids THEN "did"
    ELSE "sendpath"

IsInvalid(kind, c) ==
    \/ kind = "sendpath"
    \/ kind = "aint" /\ c.target \notin AintNames
    \/ kind = "did" /\ c.target \notin Dids
    \/ kind = "roundtrip" /\ ~ c.reply
    \/ kind = "mux" /\ c.target \notin Servers

Writes(kind) == kind \in {"handoff", "roundtrip"}

\* Mutant of IsDryRun: a roundtrip with a return address is taken for active.
IsDryRunForgetful(kind, c) == kind = "handoff" /\ ~ c.active

IsDryRun(kind, c) == Writes(kind) /\ ~ c.active

IsOnlyParsed(kind, c) == kind = "did" /\ c.target \in NamelessDids

AnswerAtOnce(r, c) ==
    LET kind == Dispatched(c) IN
    /\ pc[r] = "idle"
    /\ \/ /\ IsInvalid(kind, c)
          /\ result' = [result EXCEPT ![r] =
                IF kind = "mux" THEN Result(FALSE, "invalid-target")
                                ELSE Result(FALSE, "invalid")]
       \/ /\ ~ IsInvalid(kind, c) /\ IsDryRun(kind, c)
          /\ result' = [result EXCEPT ![r] = Result(TRUE, "dry-run")]
       \/ /\ ~ IsInvalid(kind, c) /\ IsOnlyParsed(kind, c)
          /\ result' = [result EXCEPT ![r] = Result(TRUE, "parsed")]
    /\ pc' = [pc EXCEPT ![r] = "done"]
    /\ call' = [call EXCEPT ![r] = [kind |-> kind, args |-> c, at |-> second]]
    /\ UNCHANGED <<second, requests, answer, inboxes>>

Ask(r, c) ==
    LET kind == Dispatched(c) IN
    /\ pc[r] = "idle"
    /\ ~ IsInvalid(kind, c) /\ ~ IsDryRun(kind, c) /\ ~ IsOnlyParsed(kind, c)
    /\ pc' = [pc EXCEPT ![r] = "asked"]
    /\ call' = [call EXCEPT ![r] = [kind |-> kind, args |-> c, at |-> second]]
    /\ requests' = requests \cup {r}
    /\ UNCHANGED <<second, result, answer, inboxes>>

-----------------------------------------------------------------------------
(* The servers, as the client sees them.                                   *)

\* Mutant of ProbeRef: the name does not tell the probes apart.
ProbeRefOfSecond(r) == <<"probe", call[r].at>>

\* The name of the object: tping-<kind>-<second>.probe.
ProbeRef(r) == <<call[r].kind, call[r].at>>

Lookups == {"ains", "aint", "did"}

\* What an answer is to the probe: AINS has a record or none, or its body is
\* not JSON; a status the probe takes for a success (ok), another below 300,
\* 404 to a GET in the inbox (missing), any other error; a connection (ok).
AnswersTo(kind) ==
    CASE kind \in Lookups -> {"found", "no-record", "not-json", "error"}
      [] kind \in {"continuityd", "listener", "handoff", "roundtrip"} ->
            {"ok", "other", "error"}
      [] kind = "inbox" -> {"ok", "missing", "error"}
      [] kind = "mux" -> {"ok"}
      [] OTHER -> {}

IsServed(r) ==
    call[r].kind \in Lookups \/ call[r].args.target \in Servers

\* A request arrives, maybe after its run has given up.  What is posted is
\* stored unless the answer is an error.
Serve(r, a) ==
    /\ r \in requests /\ IsServed(r)
    /\ requests' = requests \ {r}
    /\ answer' = [answer EXCEPT ![r] = a]
    /\ inboxes' =
         IF Writes(call[r].kind) /\ a # "error"
         THEN [inboxes EXCEPT ![call[r].args.target] =
                 [n \in DOMAIN @ \cup {ProbeRef(r)} |->
                    IF n = ProbeRef(r) THEN r ELSE @[n]]]
         ELSE inboxes
    /\ UNCHANGED <<second, pc, call, result>>

LoseRequest(r) ==
    /\ r \in requests
    /\ requests' = requests \ {r}
    /\ UNCHANGED <<second, pc, call, result, answer, inboxes>>

-----------------------------------------------------------------------------
(* What a run makes of the answer.                                         *)

\* A lookup in AINS: for did it only adds to what was parsed.
LookedUp(kind, a) ==
    CASE a = "found" -> Result(TRUE, IF kind = "did" THEN "parsed+ains" ELSE "resolved")
      [] a = "no-record" -> Result(TRUE, IF kind = "did" THEN "parsed" ELSE "no-record")
      [] OTHER -> IF kind = "did" THEN Result(TRUE, "parsed")
                                  ELSE Result(FALSE, "unreachable")

\* continuityd and listener: an HTTP error is caught with the failures.
RootSeen(kind, a) ==
    CASE a = "ok" -> Result(TRUE, IF kind = "listener" THEN "listening" ELSE "live")
      [] a = "other" -> Result(TRUE, "http-status")
      [] a = "error" -> Result(FALSE, "unreachable")

InboxSeen(a) ==
    Result(TRUE, CASE a = "ok" -> "unexpected"
                   [] a = "missing" -> "surface-present"
                   [] a = "error" -> "http-status")

WriteAnswered(kind, a) ==
    Result(TRUE, IF a # "ok" THEN "http-status"
                 ELSE IF kind = "handoff" THEN "accepted" ELSE "accepted-awaiting-ack")

MuxConnected == Result(TRUE, "live")

Outcome(kind, a) ==
    CASE kind \in Lookups -> LookedUp(kind, a)
      [] kind \in {"continuityd", "listener"} -> RootSeen(kind, a)
      [] kind = "inbox" -> InboxSeen(a)
      [] kind = "mux" -> MuxConnected
      [] OTHER -> WriteAnswered(kind, a)

\* Mutant of WithoutAnswer: did reports the lookup it has tried.
WithoutAnswerEnriched(kind) ==
    IF kind = "did" THEN {Result(TRUE, "parsed+ains")} ELSE {Result(FALSE, "unreachable")}

\* No connection, or no answer in time.
WithoutAnswer(kind) ==
    CASE kind = "did" -> {Result(TRUE, "parsed")}
      [] kind = "mux" -> {Result(FALSE, "timeout"), Result(FALSE, "unreachable")}
      [] OTHER -> {Result(FALSE, "unreachable")}

Finish(r, outcome) ==
    /\ pc[r] = "asked"
    /\ pc' = [pc EXCEPT ![r] = "done"]
    /\ result' = [result EXCEPT ![r] = outcome]
    /\ UNCHANGED <<second, call, requests, answer, inboxes>>

GetAnswer(r) == answer[r] # "none" /\ Finish(r, Outcome(call[r].kind, answer[r]))

\* The run gives up, whether its request has been served or not.
GiveUp(r) == \E outcome \in WithoutAnswer(call[r].kind) : Finish(r, outcome)

\* An exception no except clause names: a host that is none, an answer that is
\* not HTTP, JSON that is not an object, an error page that stops halfway.
Fail(r) == Finish(r, <<>>)

Tick ==
    /\ second < MaxSecond
    /\ second' = second + 1
    /\ UNCHANGED <<pc, call, result, requests, answer, inboxes>>

Next ==
    \/ \E r \in Runs, c \in Calls : AnswerAtOnce(r, c) \/ Ask(r, c)
    \/ \E r \in requests : \E a \in AnswersTo(call[r].kind) : Serve(r, a)
    \/ \E r \in requests : LoseRequest(r)
    \/ \E r \in Runs : pc[r] = "asked" /\ (GetAnswer(r) \/ GiveUp(r) \/ Fail(r))
    \/ Tick

Spec == Init /\ [][Next]_vars

-----------------------------------------------------------------------------
(* Properties.                                                             *)

\* Nobody's inbox is written to unless the run was told to: "it refuses to write
\* unless you add `--active`" (README.md:272), and a roundtrip says where the
\* receipt is to go, whatever other runs do at the time.
OnlyAskedForWrites ==
    \A s \in Servers : \A n \in DOMAIN inboxes[s] :
        LET c == call[inboxes[s][n]].args IN
        /\ c.target = s /\ c.active
        /\ c.probe = "roundtrip" => c.reply
        /\ Writes(c.probe)

\* The object of a run that was accepted is in the inbox under the run's
\* reference, and only a run of the same probe in the same second can have
\* replaced it (cli.py:490, 625).
AcceptedIsThere(r) ==
    result[r].verdict \in {"accepted", "accepted-awaiting-ack"} =>
        \E s \in Servers : \E n \in DOMAIN inboxes[s] :
            LET q == inboxes[s][n] IN
            /\ s = call[r].args.target /\ n = ProbeRef(r)
            /\ call[q].kind = call[r].kind /\ call[q].at = call[r].at

\* A surface is called reachable only if it has answered this very run, answers
\* to other runs not counted; a dry run and a DID that is only parsed say so in
\* the verdict (cli.py:269-297, 473-491).
ReachableWasAnswered(r) ==
    result[r].reachable /\ result[r].verdict \notin {"dry-run", "parsed"} =>
        answer[r] # "none"

\* A result that was printed is true, whatever other runs do at the time and
\* however late the server is: "measures transport + ingress acceptance, not
\* full causal completion" (cli.py:503).
VerdictsAreTrue ==
    \A r \in Runs :
        result[r] # <<>> => AcceptedIsThere(r) /\ ReachableWasAnswered(r)

=============================================================================
