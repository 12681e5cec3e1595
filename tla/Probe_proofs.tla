----------------------------- MODULE Probe_proofs -----------------------------
(***************************************************************************)
(* Theorems about Probe, for any runs, servers and command lines: no inbox *)
(* is written to unless a run was told to, and what a run prints is true.  *)
(***************************************************************************)
EXTENDS Probe, TLAPS

(***************************************************************************)
(* The invariant.                                                          *)
(***************************************************************************)
Typed ==
    /\ pc \in [Runs -> {"idle", "asked", "done"}]
    /\ DOMAIN call = Runs /\ DOMAIN result = Runs
    /\ DOMAIN answer = Runs /\ DOMAIN inboxes = Servers
    /\ requests \subseteq Runs

\* A run that asks is neither refused, nor dry, nor only parsed.
MayAsk(r) ==
    LET kind == call[r].kind
        c == call[r].args
    IN  ~ IsInvalid(kind, c) /\ ~ IsDryRun(kind, c) /\ ~ IsOnlyParsed(kind, c)

\* What is on its way, was answered or was printed belongs to a run that was
\* called; a request or an answer, to one that may ask.
RunsAreCalled ==
    \A r \in Runs :
        /\ pc[r] = "idle" => answer[r] = "none" /\ r \notin requests /\ result[r] = <<>>
        /\ pc[r] # "idle" =>
             call[r].args \in Calls /\ call[r].kind = Dispatched(call[r].args)
        /\ pc[r] = "asked" \/ r \in requests \/ answer[r] # "none" => MayAsk(r)
        /\ r \in requests => answer[r] = "none"
        /\ answer[r] # "none" => answer[r] \in AnswersTo(call[r].kind)

\* An object in an inbox is under the reference of a run that was told to write
\* there and was answered.
ObjectsAreOfRuns ==
    \A s \in Servers : \A n \in DOMAIN inboxes[s] :
        LET q == inboxes[s][n] IN
        /\ q \in Runs /\ answer[q] # "none"
        /\ Writes(call[q].kind) /\ call[q].args.target = s /\ n = ProbeRef(q)

\* What was posted and not refused stays, under the name it was given.
PostedStays ==
    \A r \in Runs :
        answer[r] \notin {"none", "error"} /\ Writes(call[r].kind) =>
            /\ call[r].args.target \in Servers
            /\ ProbeRef(r) \in DOMAIN inboxes[call[r].args.target]

\* What a printed result says of the answer.
ResultsFollowAnswers ==
    \A r \in Runs :
        result[r] # <<>> =>
            /\ ReachableWasAnswered(r)
            /\ result[r].verdict \in {"accepted", "accepted-awaiting-ack"} =>
                 answer[r] = "ok" /\ Writes(call[r].kind)

Inv == Typed /\ RunsAreCalled /\ ObjectsAreOfRuns /\ PostedStays /\ ResultsFollowAnswers

Accepted == {"accepted", "accepted-awaiting-ack"}

\* No run has been called, and the inboxes are empty.
LEMMA InitInv == Init => Inv
BY DEF Init, Inv, Typed, RunsAreCalled, ObjectsAreOfRuns, PostedStays, ResultsFollowAnswers

-----------------------------------------------------------------------------
(* What the helpers return.                                                *)

\* sendpath asks under the name of the probe it becomes.
LEMMA DispatchedKind ==
    ASSUME NEW c \in Calls
    PROVE  /\ Dispatched(c) \in Kinds
           /\ Writes(Dispatched(c)) => Dispatched(c) = c.probe
BY ProbeAssumption DEF Dispatched, CommandLines, Kinds, Writes

\* Only a probe that writes says "accepted", and only of a success.
LEMMA OutcomeAccepted ==
    ASSUME NEW kind \in Kinds \ {"sendpath"}, NEW a \in AnswersTo(kind),
           Outcome(kind, a).verdict \in Accepted
    PROVE  a = "ok" /\ Writes(kind)
<1>1. CASE kind \in Lookups
  <2>1. Outcome(kind, a) = LookedUp(kind, a)
    BY <1>1 DEF Outcome, Lookups
  <2> QED
    BY <1>1, <2>1 DEF LookedUp, Result, Accepted
<1>2. CASE kind \in {"continuityd", "listener"}
  <2>1. Outcome(kind, a) = RootSeen(kind, a) /\ a \in {"ok", "other", "error"}
    BY <1>2 DEF Outcome, Lookups, AnswersTo
  <2> QED
    BY <1>2, <2>1 DEF RootSeen, Result, Accepted
<1>3. CASE kind = "inbox"
  <2>1. Outcome(kind, a) = InboxSeen(a) /\ a \in {"ok", "missing", "error"}
    BY <1>3 DEF Outcome, Lookups, AnswersTo
  <2> QED
    BY <1>3, <2>1 DEF InboxSeen, Result, Accepted
<1>4. CASE kind = "mux"
  BY <1>4 DEF Outcome, Lookups, MuxConnected, Result, Accepted
<1>5. CASE kind \in {"handoff", "roundtrip"}
  <2>1. Outcome(kind, a) = WriteAnswered(kind, a)
    BY <1>5 DEF Outcome, Lookups
  <2> QED
    BY <1>5, <2>1 DEF WriteAnswered, Result, Accepted, Writes
<1> QED
  BY <1>1, <1>2, <1>3, <1>4, <1>5 DEF Kinds, Lookups

\* A run that gives up says nothing that only an answer could tell.
LEMMA WithoutAnswerModest ==
    ASSUME NEW kind, NEW outcome \in WithoutAnswer(kind)
    PROVE  /\ outcome.verdict \notin Accepted
           /\ outcome.reachable => outcome.verdict = "parsed"
<1>1. CASE kind = "did"
  BY <1>1 DEF WithoutAnswer, Result, Accepted
<1>2. CASE kind = "mux"
  BY <1>2 DEF WithoutAnswer, Result, Accepted
<1>3. CASE kind \notin {"did", "mux"}
  BY <1>3 DEF WithoutAnswer, Result, Accepted
<1> QED
  BY <1>1, <1>2, <1>3

-----------------------------------------------------------------------------
(* The steps.                                                              *)

\* A run that is called: the calls, requests, answers and inboxes of the others
\* stay as they are.
LEMMA RunCalledInv ==
    ASSUME Inv, NEW r \in Runs, NEW c \in Calls, AnswerAtOnce(r, c) \/ Ask(r, c)
    PROVE  Inv'
<1> USE DEF Inv
<1> DEFINE kind == Dispatched(c)
           made == [kind |-> kind, args |-> c, at |-> second]
<1>1. pc[r] = "idle" /\ call' = [call EXCEPT ![r] = made]
      /\ UNCHANGED <<second, answer, inboxes>>
  BY DEF AnswerAtOnce, Ask
<1>2. pc' \in [Runs -> {"idle", "asked", "done"}] /\ pc'[r] # "idle"
      /\ \A q \in Runs \ {r} : pc'[q] = pc[q]
  BY DEF AnswerAtOnce, Ask, Typed
<1>3. call'[r] = made /\ made.kind = kind /\ made.args = c
      /\ \A q \in Runs \ {r} : call'[q] = call[q]
  BY <1>1 DEF Typed
<1> HIDE DEF made
<1>4. answer[r] = "none" /\ r \notin requests /\ result[r] = <<>>
  BY <1>1 DEF RunsAreCalled
<1>5. requests' \subseteq requests \cup {r}
      /\ (r \in requests' \/ pc'[r] = "asked" =>
            ~ IsInvalid(kind, c) /\ ~ IsDryRun(kind, c) /\ ~ IsOnlyParsed(kind, c))
  <2>1. CASE AnswerAtOnce(r, c)
    BY <1>4, <2>1 DEF AnswerAtOnce, Typed
  <2>2. CASE Ask(r, c)
    BY <2>2 DEF Ask
  <2> QED
    BY <2>1, <2>2
<1>6. DOMAIN result' = Runs /\ \A q \in Runs \ {r} : result'[q] = result[q]
  BY DEF AnswerAtOnce, Ask, Typed
<1>7. result'[r] # <<>> =>
        /\ result'[r].verdict \notin Accepted
        /\ result'[r].reachable => result'[r].verdict \in {"dry-run", "parsed"}
  <2>1. CASE AnswerAtOnce(r, c)
    BY <2>1 DEF AnswerAtOnce, Result, Accepted, Typed
  <2>2. CASE Ask(r, c)
    BY <1>4, <2>2 DEF Ask
  <2> QED
    BY <2>1, <2>2
<1>8. Typed'
  BY <1>1, <1>2, <1>5, <1>6 DEF Typed
<1>9. RunsAreCalled'
  <2> SUFFICES ASSUME NEW q \in Runs
               PROVE  /\ pc'[q] = "idle" =>
                           answer[q] = "none" /\ q \notin requests' /\ result'[q] = <<>>
                      /\ pc'[q] # "idle" => call'[q].args \in Calls
                           /\ call'[q].kind = Dispatched(call'[q].args)
                      /\ pc'[q] = "asked" \/ q \in requests' \/ answer[q] # "none"
                           => MayAsk(q)'
                      /\ q \in requests' => answer[q] = "none"
                      /\ answer[q] # "none" => answer[q] \in AnswersTo(call'[q].kind)
    BY <1>1 DEF RunsAreCalled
  <2>1. CASE q = r
    BY <1>2, <1>3, <1>4, <1>5, <2>1 DEF MayAsk
  <2>2. CASE q # r
    BY <1>2, <1>3, <1>5, <1>6, <2>2 DEF RunsAreCalled, MayAsk
  <2> QED
    BY <2>1, <2>2
<1>10. ObjectsAreOfRuns'
  <2> SUFFICES ASSUME NEW s \in Servers, NEW n \in DOMAIN inboxes[s], NEW q,
                      q = inboxes[s][n]
               PROVE  /\ q \in Runs /\ answer[q] # "none"
                      /\ Writes(call'[q].kind) /\ call'[q].args.target = s
                      /\ n = ProbeRef(q)'
    BY <1>1 DEF ObjectsAreOfRuns
  <2>1. q \in Runs /\ answer[q] # "none"
        /\ Writes(call[q].kind) /\ call[q].args.target = s /\ n = ProbeRef(q)
    BY DEF ObjectsAreOfRuns
  <2>2. q # r
    BY <1>4, <2>1
  <2> QED
    BY <1>3, <2>1, <2>2 DEF ProbeRef
<1>11. PostedStays'
  BY <1>1, <1>3, <1>4 DEF PostedStays, ProbeRef
<1>12. ResultsFollowAnswers'
  <2> SUFFICES ASSUME NEW q \in Runs, result'[q] # <<>>
               PROVE  /\ ReachableWasAnswered(q)'
                      /\ result'[q].verdict \in Accepted =>
                           answer[q] = "ok" /\ Writes(call'[q].kind)
    BY <1>1 DEF ResultsFollowAnswers, Accepted
  <2>1. CASE q = r
    BY <1>7, <2>1 DEF ReachableWasAnswered
  <2>2. CASE q # r
    BY <1>1, <1>3, <1>6, <2>2 DEF ResultsFollowAnswers, ReachableWasAnswered, Accepted
  <2> QED
    BY <2>1, <2>2
<1> QED
  BY <1>8, <1>9, <1>10, <1>11, <1>12

\* A request that arrives: what it stores replaces an object of the same name
\* only, which is that of a run of the same probe in the same second.
LEMMA ServeInv ==
    ASSUME Inv, NEW r \in requests, NEW a \in AnswersTo(call[r].kind), Serve(r, a)
    PROVE  Inv'
<1> USE DEF Inv
<1> DEFINE stored == Writes(call[r].kind) /\ a # "error"
           t == call[r].args.target
<1>1. /\ requests' = requests \ {r} /\ answer' = [answer EXCEPT ![r] = a]
      /\ UNCHANGED <<second, pc, call, result>> /\ IsServed(r)
  BY DEF Serve
<1>2. r \in Runs /\ answer[r] = "none" /\ MayAsk(r) /\ pc[r] # "idle"
  BY DEF Typed, RunsAreCalled
<1>3. DOMAIN answer' = Runs /\ answer'[r] = a
      /\ \A q \in Runs \ {r} : answer'[q] = answer[q]
  BY <1>1, <1>2 DEF Typed
<1>4. a # "none"
  BY DEF AnswersTo
<1>5. stored => t \in Servers
  BY <1>1 DEF IsServed, Writes, Lookups
<1>6. CASE ~ stored
  <2>1. inboxes' = inboxes
    BY <1>6 DEF Serve
  <2>2. Typed'
    BY <1>1, <1>3, <2>1 DEF Typed
  <2>3. RunsAreCalled'
    BY <1>1, <1>2, <1>3, <1>4 DEF RunsAreCalled, MayAsk
  <2>4. ObjectsAreOfRuns'
    BY <1>1, <1>3, <1>4, <2>1 DEF ObjectsAreOfRuns, ProbeRef
  <2>5. PostedStays'
    BY <1>1, <1>3, <1>6, <2>1 DEF PostedStays, ProbeRef
  <2>6. ResultsFollowAnswers'
    BY <1>1, <1>2, <1>3, <1>4 DEF ResultsFollowAnswers, ReachableWasAnswered
  <2> QED
    BY <2>2, <2>3, <2>4, <2>5, <2>6
<1>7. CASE stored
  <2> HIDE DEF stored
  <2>1. inboxes' = [inboxes EXCEPT ![t] = [n \in DOMAIN @ \cup {ProbeRef(r)} |->
                        IF n = ProbeRef(r) THEN r ELSE @[n]]]
    BY <1>7 DEF Serve, stored
  <2>2. /\ DOMAIN inboxes' = Servers
        /\ DOMAIN inboxes'[t] = DOMAIN inboxes[t] \cup {ProbeRef(r)}
        /\ inboxes'[t][ProbeRef(r)] = r
        /\ \A n \in DOMAIN inboxes[t] : n # ProbeRef(r) => inboxes'[t][n] = inboxes[t][n]
        /\ \A s \in Servers \ {t} : inboxes'[s] = inboxes[s]
    BY <1>5, <1>7, <2>1 DEF Typed
  <2> HIDE DEF t
  <2>3. Typed'
    BY <1>1, <1>3, <2>2 DEF Typed
  <2>4. RunsAreCalled'
    BY <1>1, <1>2, <1>3, <1>4 DEF RunsAreCalled, MayAsk
  <2>5. ObjectsAreOfRuns'
    <3> SUFFICES ASSUME NEW s \in Servers, NEW n \in DOMAIN inboxes'[s], NEW q,
                        q = inboxes'[s][n]
                 PROVE  /\ q \in Runs /\ answer'[q] # "none"
                        /\ Writes(call[q].kind) /\ call[q].args.target = s
                        /\ n = ProbeRef(q)
      BY <1>1 DEF ObjectsAreOfRuns, ProbeRef
    <3>1. CASE s = t /\ n = ProbeRef(r)
      BY <1>2, <1>3, <1>4, <1>7, <2>2, <3>1 DEF stored, t
    <3>2. CASE ~ (s = t /\ n = ProbeRef(r))
      <4>1. n \in DOMAIN inboxes[s] /\ q = inboxes[s][n]
        BY <2>2, <3>2
      <4> QED
        BY <1>3, <1>4, <4>1 DEF ObjectsAreOfRuns
    <3> QED
      BY <3>1, <3>2
  <2>6. PostedStays'
    <3> SUFFICES ASSUME NEW q \in Runs, answer'[q] \notin {"none", "error"},
                        Writes(call[q].kind)
                 PROVE  /\ call[q].args.target \in Servers
                        /\ ProbeRef(q) \in DOMAIN inboxes'[call[q].args.target]
      BY <1>1 DEF PostedStays, ProbeRef
    <3>1. CASE q = r
      BY <1>5, <1>7, <2>2, <3>1 DEF t
    <3>2. CASE q # r
      <4>1. /\ call[q].args.target \in Servers
            /\ ProbeRef(q) \in DOMAIN inboxes[call[q].args.target]
        BY <1>3, <3>2 DEF PostedStays
      <4> QED
        BY <2>2, <4>1
    <3> QED
      BY <3>1, <3>2
  <2>7. ResultsFollowAnswers'
    BY <1>1, <1>2, <1>3, <1>4 DEF ResultsFollowAnswers, ReachableWasAnswered
  <2> QED
    BY <2>3, <2>4, <2>5, <2>6, <2>7
<1> QED
  BY <1>6, <1>7

\* A run that ends with a result that follows from its answer.
LEMMA FinishInv ==
    ASSUME Inv, NEW r \in Runs, NEW outcome, Finish(r, outcome),
           outcome # <<>> =>
             /\ outcome.reachable /\ outcome.verdict \notin {"dry-run", "parsed"} =>
                  answer[r] # "none"
             /\ outcome.verdict \in Accepted => answer[r] = "ok" /\ Writes(call[r].kind)
    PROVE  Inv'
<1> USE DEF Inv
<1>1. /\ UNCHANGED <<second, call, requests, answer, inboxes>> /\ pc[r] = "asked"
      /\ pc' \in [Runs -> {"idle", "asked", "done"}] /\ pc'[r] = "done"
      /\ \A q \in Runs \ {r} : pc'[q] = pc[q]
      /\ DOMAIN result' = Runs /\ result'[r] = outcome
      /\ \A q \in Runs \ {r} : result'[q] = result[q]
  BY DEF Finish, Typed
<1>2. Typed'
  BY <1>1 DEF Typed
<1>3. RunsAreCalled'
  BY <1>1 DEF RunsAreCalled, MayAsk
<1>4. ObjectsAreOfRuns' /\ PostedStays'
  BY <1>1 DEF ObjectsAreOfRuns, PostedStays, ProbeRef
<1>5. ResultsFollowAnswers'
  BY <1>1 DEF ResultsFollowAnswers, ReachableWasAnswered, Accepted
<1> QED
  BY <1>2, <1>3, <1>4, <1>5

\* A run that ends, with an answer or without, keeps the invariant: its verdict is
\* one its answer allows.
LEMMA EndOfRunInv ==
    ASSUME Inv, NEW r \in Runs, pc[r] = "asked", GetAnswer(r) \/ GiveUp(r) \/ Fail(r)
    PROVE  Inv'
<1>1. MayAsk(r) /\ call[r].args \in Calls /\ call[r].kind = Dispatched(call[r].args)
  BY DEF Inv, RunsAreCalled
<1>2. call[r].kind \in Kinds \ {"sendpath"}
  BY <1>1, DispatchedKind DEF MayAsk, IsInvalid
<1>3. CASE GetAnswer(r)
  <2>1. answer[r] \in AnswersTo(call[r].kind)
    BY <1>3 DEF GetAnswer, Inv, RunsAreCalled
  <2> QED
    BY <1>2, <1>3, <2>1, OutcomeAccepted, FinishInv DEF GetAnswer
<1>4. CASE GiveUp(r)
  BY <1>4, WithoutAnswerModest, FinishInv DEF GiveUp
<1>5. CASE Fail(r)
  BY <1>5, FinishInv DEF Fail
<1> QED
  BY <1>3, <1>4, <1>5

\* The clock goes on, or a request is lost: no run is told anything.
LEMMA OtherInv ==
    ASSUME Inv, Tick \/ \E r \in requests : LoseRequest(r)
    PROVE  Inv'
<1> USE DEF Inv
<1>1. UNCHANGED <<pc, call, result, answer, inboxes>> /\ requests' \subseteq requests
  BY DEF Tick, LoseRequest
<1>2. Typed' /\ RunsAreCalled'
  BY <1>1 DEF Typed, RunsAreCalled, MayAsk
<1>3. ObjectsAreOfRuns' /\ PostedStays' /\ ResultsFollowAnswers'
  BY <1>1 DEF ObjectsAreOfRuns, PostedStays, ResultsFollowAnswers, ReachableWasAnswered,
              ProbeRef
<1> QED
  BY <1>2, <1>3

\* Every step keeps the invariant.
LEMMA NextInv == Inv /\ [Next]_vars => Inv'
<1> SUFFICES ASSUME Inv, [Next]_vars
             PROVE  Inv'
  OBVIOUS
<1>1. CASE UNCHANGED vars
  BY <1>1 DEF vars, Inv, Typed, RunsAreCalled, MayAsk, ObjectsAreOfRuns, PostedStays,
     ResultsFollowAnswers, ReachableWasAnswered, ProbeRef
<1>2. CASE Next
  <2>1. CASE \E r \in Runs, c \in Calls : AnswerAtOnce(r, c) \/ Ask(r, c)
    BY <2>1, RunCalledInv
  <2>2. CASE \E r \in requests : \E a \in AnswersTo(call[r].kind) : Serve(r, a)
    BY <2>2, ServeInv
  <2>3. CASE \E r \in Runs : pc[r] = "asked" /\ (GetAnswer(r) \/ GiveUp(r) \/ Fail(r))
    BY <2>3, EndOfRunInv
  <2>4. CASE Tick \/ \E r \in requests : LoseRequest(r)
    BY <2>4, OtherInv
  <2> QED
    BY <1>2, <2>1, <2>2, <2>3, <2>4 DEF Next
<1> QED
  BY <1>1, <1>2

\* The invariant holds of every behaviour.
LEMMA InvHolds == Spec => []Inv
BY InitInv, NextInv, PTL DEF Spec

-----------------------------------------------------------------------------
(* Theorems.                                                               *)

\* An object is in an inbox only if the run that left it was given --active, for
\* this server, and for a roundtrip a return address (cli.py:466-490, 585-623).
THEOREM OnlyAskedForAreWritten == Spec => []OnlyAskedForWrites
<1>1. Inv => OnlyAskedForWrites
  <2> SUFFICES ASSUME Inv, NEW s \in Servers, NEW n \in DOMAIN inboxes[s]
               PROVE  LET c == call[inboxes[s][n]].args IN
                      /\ c.target = s /\ c.active
                      /\ c.probe = "roundtrip" => c.reply
                      /\ Writes(c.probe)
    BY DEF OnlyAskedForWrites
  <2> DEFINE q == inboxes[s][n]
             c == call[q].args
  <2>1. q \in Runs /\ answer[q] # "none" /\ Writes(call[q].kind) /\ c.target = s
    BY DEF Inv, ObjectsAreOfRuns
  <2>2. MayAsk(q) /\ c \in Calls /\ call[q].kind = Dispatched(c)
    BY <2>1 DEF Inv, RunsAreCalled
  <2>3. call[q].kind = c.probe
    BY <2>1, <2>2, DispatchedKind
  <2> QED
    BY <2>1, <2>2, <2>3 DEF MayAsk, IsInvalid, IsDryRun
<1> QED
  BY <1>1, InvHolds, PTL

\* What a run prints is true, whatever other runs do at the time and however late
\* the server is: reachable means answered, accepted means stored under the run's
\* reference (cli.py:524-575, 664-716).
THEOREM VerdictsAreAlwaysTrue == Spec => []VerdictsAreTrue
<1>1. Inv => VerdictsAreTrue
  <2> SUFFICES ASSUME Inv, NEW r \in Runs, result[r] # <<>>
               PROVE  AcceptedIsThere(r) /\ ReachableWasAnswered(r)
    BY DEF VerdictsAreTrue
  <2>1. ReachableWasAnswered(r)
    BY DEF Inv, ResultsFollowAnswers
  <2>2. AcceptedIsThere(r)
    <3> SUFFICES ASSUME result[r].verdict \in {"accepted", "accepted-awaiting-ack"}
                 PROVE  \E s \in Servers : \E n \in DOMAIN inboxes[s] :
                          LET q == inboxes[s][n] IN
                          /\ s = call[r].args.target /\ n = ProbeRef(r)
                          /\ call[q].kind = call[r].kind /\ call[q].at = call[r].at
      BY DEF AcceptedIsThere
    <3> DEFINE s == call[r].args.target
               q == inboxes[s][ProbeRef(r)]
    <3>1. answer[r] = "ok" /\ Writes(call[r].kind)
      BY DEF Inv, ResultsFollowAnswers
    <3>2. s \in Servers /\ ProbeRef(r) \in DOMAIN inboxes[s]
      BY <3>1 DEF Inv, PostedStays
    <3>3. ProbeRef(r) = ProbeRef(q)
      BY <3>2 DEF Inv, ObjectsAreOfRuns
    <3>4. call[q].kind = call[r].kind /\ call[q].at = call[r].at
      BY <3>3 DEF ProbeRef
    <3> QED
      BY <3>2, <3>4
  <2> QED
    BY <2>1, <2>2
<1> QED
  BY <1>1, InvHolds, PTL

==============================================================================
