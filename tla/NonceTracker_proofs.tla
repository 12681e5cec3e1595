------------------------ MODULE NonceTracker_proofs ------------------------
(***************************************************************************)
(* Proofs about NonceTracker: its type invariant, the two bounds on when a *)
(* nonce may be let through again, and the at-most-once guarantee.         *)
(***************************************************************************)
EXTENDS NonceTracker, TLAPS

USE TableAssumption, ConstantsAssumption

(***************************************************************************)
(* What the cleanup leaves: a nonce that was held and is gone afterwards   *)
(* was recorded more than the window before the reading the cleanup used,  *)
(* and the nonces that stay keep their times.                              *)
(***************************************************************************)
LEMMA CleanupForgets ==
    ASSUME NEW now \in Int, lastCleanup \in Int,
           \A n \in DOMAIN seen : seen[n] \in Int
    PROVE  /\ DOMAIN SeenAfterCleanup(now) \subseteq DOMAIN seen
           /\ \A n \in DOMAIN SeenAfterCleanup(now) :
                 SeenAfterCleanup(now)[n] = seen[n]
           /\ \A n \in DOMAIN seen \ DOMAIN SeenAfterCleanup(now) :
                 seen[n] + Window < LastCleanupAfter(now)
           /\ LastCleanupAfter(now) \in Int
           /\ LastCleanupAfter(now) >= lastCleanup
           /\ LastCleanupAfter(now) \in {now, lastCleanup}
           /\ now - LastCleanupAfter(now) <= Window
  <1>1. CASE CleanupDue(now)
    <2>1. /\ SeenAfterCleanup(now) = [n \in DOMAIN seen \ Outdated(now) |-> seen[n]]
          /\ LastCleanupAfter(now) = now
      BY <1>1 DEF SeenAfterCleanup, LastCleanupAfter
    <2>2. now > lastCleanup
      BY <1>1 DEF CleanupDue
    <2> QED
      BY <2>1, <2>2 DEF Outdated
  <1>2. CASE ~ CleanupDue(now)
    <2>1. SeenAfterCleanup(now) = seen /\ LastCleanupAfter(now) = lastCleanup
      BY <1>2 DEF SeenAfterCleanup, LastCleanupAfter
    <2> QED
      BY <1>2, <2>1 DEF CleanupDue
  <1> QED
    BY <1>1, <1>2

\* The two halves of type correctness.
LEMMA TypeInit == Init => TypeOK
  <1> SUFFICES ASSUME Init
               PROVE  TypeOK
    OBVIOUS
  <1>1. /\ mono = 0 /\ offset = 0 /\ lastCleanup = 0
        /\ seen = [n \in {} |-> 0]
        /\ call = [t \in Threads |-> Idle]
        /\ overlapped = FALSE
        /\ log = <<>>
    BY DEF Init, TableInit
  <1>2. log \in Seq(Accepts)
    BY <1>1
  <1>3. DOMAIN seen = {} /\ overlapped \in BOOLEAN
    BY <1>1
  <1>4. /\ call \in [Threads -> Calls \cup {Idle}]
        /\ \A t \in Threads : call[t] = Idle
    BY <1>1
  <1> QED
    BY <1>1, <1>2, <1>3, <1>4 DEF TypeOK

\* Every step keeps the types.
LEMMA TypeStep == TypeOK /\ [Next]_vars => TypeOK'
  <1> SUFFICES ASSUME TypeOK, [Next]_vars
               PROVE  TypeOK'
    OBVIOUS
  <1> USE DEF TypeOK, clockVars, tableVars, historyVars
  <1>1. CASE Tick
    BY <1>1 DEF Tick, Calls
  <1>2. CASE AdjustClock
    BY <1>2 DEF AdjustClock
  <1>3. ASSUME NEW t \in Threads, NEW p \in Packets, ReadMono(t, p)
        PROVE  TypeOK'
    <2> DEFINE entered == [packet |-> p, mono |-> mono, began |-> mono + offset,
                           read |-> FALSE, real |-> 0]
    <2>1. entered \in Calls /\ entered.mono = mono
      BY DEF Calls
    <2>2. /\ call' = [call EXCEPT ![t] = entered]
          /\ overlapped' = (overlapped \/ \E u \in Threads : call[u] # Idle)
          /\ UNCHANGED <<clockVars, tableVars, log>>
      BY <1>3 DEF ReadMono, Enters
    <2> HIDE DEF entered
    <2>3. call' \in [Threads -> Calls \cup {Idle}]
      BY <2>1, <2>2
    <2>4. \A u \in Threads : call'[u] # Idle => call'[u].mono <= mono'
      BY <2>1, <2>2
    <2>5. overlapped' \in BOOLEAN
      BY <2>2
    <2> QED
      BY <2>2, <2>3, <2>4, <2>5
  <1>4. ASSUME NEW t \in Threads, ReadReal(t)
        PROVE  TypeOK'
    <2> DEFINE c == [call[t] EXCEPT !.read = TRUE, !.real = mono + offset]
    <2>1. /\ call[t] \in Calls /\ call[t].mono <= mono
          /\ call' = [call EXCEPT ![t] = c]
          /\ UNCHANGED <<clockVars, tableVars, historyVars>>
      BY <1>4 DEF ReadReal
    <2>2. mono + offset \in Int
      OBVIOUS
    <2>3. c \in Calls /\ c.mono = call[t].mono
      BY <2>1, <2>2 DEF Calls
    <2> HIDE DEF c
    <2> QED
      BY <2>1, <2>3
  <1>5. ASSUME NEW t \in Threads, RejectStamp(t)
        PROVE  TypeOK'
    BY <1>5 DEF RejectStamp, Checked
  <1>6. ASSUME NEW t \in Threads, RejectSeen(t)
        PROVE  TypeOK'
    <2> DEFINE now == call[t].mono
    <2>1. now \in Int /\ now <= mono
      BY <1>6 DEF RejectSeen, Checked, Calls
    <2>2. /\ seen' = SeenAfterCleanup(now)
          /\ lastCleanup' = LastCleanupAfter(now)
          /\ call' = [call EXCEPT ![t] = Idle]
          /\ UNCHANGED <<mono, offset, historyVars>>
      BY <1>6 DEF RejectSeen, Checked, CleansUp
    <2> HIDE DEF now
    <2> QED
      BY <2>1, <2>2, CleanupForgets
  <1>7. ASSUME NEW t \in Threads, Accept(t)
        PROVE  TypeOK'
    <2> DEFINE now == call[t].mono
               kept == SeenAfterCleanup(now)
               nonce == call[t].packet.nonce
               entry == [packet |-> call[t].packet, at |-> now,
                         began |-> call[t].began,
                         cleanup |-> LastCleanupAfter(now)]
    <2>1. /\ now \in Int /\ now <= mono
          /\ nonce \in Nonces
          /\ call[t].packet \in Packets /\ call[t].began \in Int
      BY <1>7 DEF Accept, Checked, Calls, Nonces
    <2>2. /\ seen' = [n \in DOMAIN kept \cup {nonce} |->
                         IF n = nonce THEN now ELSE kept[n]]
          /\ lastCleanup' = LastCleanupAfter(now)
          /\ call' = [call EXCEPT ![t] = Idle]
          /\ log' = Append(log, entry)
          /\ UNCHANGED <<mono, offset, overlapped>>
      BY <1>7 DEF Accept, Checked, Records
    <2>3. entry \in Accepts
      BY <2>1, CleanupForgets DEF Accepts
    <2>4. /\ DOMAIN seen' \subseteq Nonces
          /\ \A n \in DOMAIN seen' : seen'[n] \in Int /\ seen'[n] <= mono'
      <3> HIDE DEF now, nonce
      <3> QED
        BY <2>1, <2>2, CleanupForgets
    <2>5. lastCleanup' \in Int /\ lastCleanup' <= mono'
      <3> HIDE DEF now
      <3> QED
        BY <2>1, <2>2, CleanupForgets
    <2> HIDE DEF entry
    <2>6. log' \in Seq(Accepts)
      BY <2>2, <2>3
    <2>7. /\ call' \in [Threads -> Calls \cup {Idle}]
          /\ \A u \in Threads : call'[u] # Idle => call'[u].mono <= mono'
      BY <2>2
    <2> QED
      BY <2>2, <2>4, <2>5, <2>6, <2>7
  <1>8. CASE Clear
    BY <1>8 DEF Clear
  <1>9. CASE UNCHANGED vars
    BY <1>9 DEF vars
  <1> QED
    BY <1>1, <1>2, <1>3, <1>4, <1>5, <1>6, <1>7, <1>8, <1>9 DEF Next, IsReplay

(***************************************************************************)
(* Type correctness, and that every time the tracker holds is a reading    *)
(* the monotonic clock has already passed.                                 *)
(***************************************************************************)
THEOREM TypeCorrect == Spec => []TypeOK
  BY TypeInit, TypeStep, PTL DEF Spec

-----------------------------------------------------------------------------
(***************************************************************************)
(* Every packet let through is still remembered, with a time no older than *)
(* its acceptance, or a cleanup has passed its window.  This is what makes *)
(* ForgottenOnlyAfterWindow inductive.                                     *)
(***************************************************************************)
Remembered ==
    \A i \in DOMAIN log :
        \/ /\ log[i].packet.nonce \in DOMAIN seen
           /\ seen[log[i].packet.nonce] >= log[i].at
        \/ log[i].at + Window < lastCleanup

WindowInv == TypeOK /\ Remembered /\ ForgottenOnlyAfterWindow

\* The entries of a log after Append: the old ones, and the new one last.
LEMMA AppendEntries ==
    ASSUME NEW e, log \in Seq(Accepts), log' = Append(log, e)
    PROVE  /\ DOMAIN log' = DOMAIN log \cup {Len(log) + 1}
           /\ \A i \in DOMAIN log : i < Len(log) + 1 /\ log'[i] = log[i]
           /\ log'[Len(log) + 1] = e
  OBVIOUS

\* An entry of the log holds what an accepted call carried.
LEMMA LogEntry ==
    ASSUME log \in Seq(Accepts), NEW i \in DOMAIN log
    PROVE  /\ i \in Nat
           /\ log[i].packet \in Packets
           /\ log[i].at \in Int
           /\ log[i].began \in Int
           /\ log[i].cleanup \in Int
  <1>1. log[i] \in Accepts /\ i \in Nat
    OBVIOUS
  <1> QED
    BY <1>1 DEF Accepts

\* A decision that only cleans up forgets no packet early.
LEMMA CleanupRemembers ==
    ASSUME TypeOK, Remembered, NEW now \in Int, NEW i \in DOMAIN log,
           log[i].packet.nonce \notin DOMAIN SeenAfterCleanup(now)
    PROVE  log[i].at + Window < LastCleanupAfter(now)
  <1> DEFINE n == log[i].packet.nonce
  <1>1. lastCleanup \in Int /\ log[i].at \in Int
    BY LogEntry DEF TypeOK
  <1>2. CASE log[i].at + Window < lastCleanup
    <2>1. LastCleanupAfter(now) \in Int /\ LastCleanupAfter(now) >= lastCleanup
      BY <1>1, CleanupForgets DEF TypeOK
    <2> QED
      BY <1>1, <1>2, <2>1
  <1>3. CASE n \in DOMAIN seen /\ seen[n] >= log[i].at
    <2>1. seen[n] + Window < LastCleanupAfter(now)
      BY <1>3, CleanupForgets DEF TypeOK
    <2>2. seen[n] \in Int /\ LastCleanupAfter(now) \in Int
      BY <1>3, CleanupForgets DEF TypeOK
    <2> QED
      BY <1>1, <1>3, <2>1, <2>2
  <1> QED
    BY <1>2, <1>3 DEF Remembered

\* WindowInv is inductive; one step per action.
LEMMA WindowInit == Init => WindowInv
  BY TypeInit DEF Init, TableInit, WindowInv, Remembered, ForgottenOnlyAfterWindow

\* Every step keeps the invariant of the window, for any threads.
LEMMA WindowStep == WindowInv /\ [Next]_vars => WindowInv'
  <1> SUFFICES ASSUME WindowInv, [Next]_vars
               PROVE  Remembered' /\ ForgottenOnlyAfterWindow'
    BY TypeStep DEF WindowInv
  <1> USE DEF WindowInv
  <1>1. CASE UNCHANGED <<seen, lastCleanup, log>>
    BY <1>1 DEF Remembered, ForgottenOnlyAfterWindow, SameNonce
  <1>2. ASSUME NEW t \in Threads, RejectSeen(t)
        PROVE  Remembered' /\ ForgottenOnlyAfterWindow'
    <2> DEFINE now == call[t].mono
    <2>1. now \in Int
      BY <1>2 DEF RejectSeen, Checked, TypeOK, Calls
    <2>2. /\ seen' = SeenAfterCleanup(now)
          /\ lastCleanup' = LastCleanupAfter(now)
          /\ log' = log
      BY <1>2 DEF RejectSeen, Checked, CleansUp, historyVars
    <2>3. Remembered'
      <3> SUFFICES ASSUME NEW i \in DOMAIN log
                   PROVE  \/ /\ log[i].packet.nonce \in DOMAIN seen'
                             /\ seen'[log[i].packet.nonce] >= log[i].at
                          \/ log[i].at + Window < lastCleanup'
        BY <2>2 DEF Remembered
      <3> HIDE DEF now
      <3>1. CASE log[i].packet.nonce \notin DOMAIN SeenAfterCleanup(now)
        BY <2>1, <2>2, <3>1, CleanupRemembers
      <3>2. CASE /\ log[i].packet.nonce \in DOMAIN SeenAfterCleanup(now)
                 /\ seen[log[i].packet.nonce] >= log[i].at
        BY <2>1, <2>2, <3>2, CleanupForgets DEF TypeOK
      <3>3. CASE log[i].at + Window < lastCleanup
        <4>1. lastCleanup \in Int /\ log[i].at \in Int
          BY LogEntry DEF TypeOK
        <4>2. lastCleanup' \in Int /\ lastCleanup' >= lastCleanup
          BY <2>1, <2>2, <4>1, CleanupForgets DEF TypeOK
        <4> QED
          BY <3>3, <4>1, <4>2
      <3> QED
        BY <3>1, <3>2, <3>3 DEF Remembered
    <2>4. ForgottenOnlyAfterWindow'
      BY <2>2 DEF ForgottenOnlyAfterWindow, SameNonce
    <2> QED
      BY <2>3, <2>4
  <1>3. ASSUME NEW t \in Threads, Accept(t)
        PROVE  Remembered' /\ ForgottenOnlyAfterWindow'
    <2> DEFINE now == call[t].mono
               kept == SeenAfterCleanup(now)
               nonce == call[t].packet.nonce
               entry == [packet |-> call[t].packet, at |-> now,
                         began |-> call[t].began,
                         cleanup |-> LastCleanupAfter(now)]
               last == Len(log) + 1
    <2>1. /\ now \in Int
          /\ \A n \in DOMAIN seen : seen[n] \in Int
          /\ lastCleanup \in Int
      BY <1>3 DEF Accept, Checked, TypeOK, Calls
    <2>2. /\ seen' = [n \in DOMAIN kept \cup {nonce} |->
                         IF n = nonce THEN now ELSE kept[n]]
          /\ lastCleanup' = LastCleanupAfter(now)
          /\ log' = Append(log, entry)
          /\ nonce \notin DOMAIN kept
      BY <1>3 DEF Accept, Records
    <2>3. /\ DOMAIN log' = DOMAIN log \cup {last}
          /\ \A i \in DOMAIN log : i < last /\ log'[i] = log[i]
          /\ log'[last] = entry
      BY <2>2, AppendEntries DEF TypeOK
    <2>4. /\ entry.packet.nonce = nonce
          /\ entry.at = now
          /\ entry.cleanup = LastCleanupAfter(now)
      OBVIOUS
    <2>5. \A i \in DOMAIN log :
             \/ /\ log[i].packet.nonce \in DOMAIN kept
                /\ kept[log[i].packet.nonce] >= log[i].at
             \/ log[i].at + Window < LastCleanupAfter(now)
      <3> HIDE DEF now
      <3> SUFFICES ASSUME NEW i \in DOMAIN log,
                          log[i].packet.nonce \in DOMAIN kept
                   PROVE  \/ kept[log[i].packet.nonce] >= log[i].at
                          \/ log[i].at + Window < LastCleanupAfter(now)
        BY <2>1, CleanupRemembers
      <3>1. kept[log[i].packet.nonce] = seen[log[i].packet.nonce]
        BY <2>1, CleanupForgets
      <3>2. CASE log[i].at + Window < lastCleanup
        <4>1. log[i].at \in Int
          BY LogEntry DEF TypeOK
        <4> QED
          BY <2>1, <3>2, <4>1, CleanupForgets
      <3> QED
        BY <3>1, <3>2 DEF Remembered
    <2>6. \A i \in DOMAIN log :
             log[i].packet.nonce = nonce
                => log[i].at + Window < LastCleanupAfter(now)
      BY <2>2, <2>5
    <2>7. Remembered'
      <3> SUFFICES ASSUME NEW i \in DOMAIN log'
                   PROVE  \/ /\ log'[i].packet.nonce \in DOMAIN seen'
                             /\ seen'[log'[i].packet.nonce] >= log'[i].at
                          \/ log'[i].at + Window < lastCleanup'
        BY DEF Remembered
      <3> HIDE DEF now, nonce, kept, entry, last
      <3>1. CASE i = last
        BY <2>1, <2>2, <2>3, <2>4, <3>1
      <3>2. CASE i \in DOMAIN log
        <4>1. log'[i] = log[i]
          BY <2>3, <3>2
        <4>2. CASE log[i].packet.nonce = nonce
          BY <2>2, <2>6, <3>2, <4>1, <4>2
        <4>3. CASE log[i].packet.nonce # nonce
          BY <2>2, <2>5, <3>2, <4>1, <4>3
        <4> QED
          BY <4>2, <4>3
      <3> QED
        BY <2>3, <3>1, <3>2
    <2>8. ForgottenOnlyAfterWindow'
      <3> SUFFICES ASSUME NEW i \in DOMAIN log', NEW j \in DOMAIN log',
                          i < j,
                          log'[i].packet.nonce = log'[j].packet.nonce
                   PROVE  log'[j].cleanup - log'[i].at > Window
        BY DEF ForgottenOnlyAfterWindow, SameNonce
      <3> HIDE DEF now, nonce, kept, entry
      <3>1. last \in Nat /\ DOMAIN log \subseteq Nat
        BY DEF TypeOK
      <3> HIDE DEF last
      <3>2. i \in DOMAIN log
        BY <2>3, <3>1
      <3>3. CASE j \in DOMAIN log
        BY <2>3, <3>2, <3>3 DEF ForgottenOnlyAfterWindow, SameNonce
      <3>4. CASE j = last
        <4>1. log[i].at + Window < LastCleanupAfter(now)
          BY <2>3, <2>4, <2>6, <3>2, <3>4
        <4>2. log[i].at \in Int /\ LastCleanupAfter(now) \in Int
          BY <2>1, <3>2, LogEntry, CleanupForgets DEF TypeOK
        <4> QED
          BY <2>3, <2>4, <3>2, <3>4, <4>1, <4>2
      <3> QED
        BY <2>3, <3>3, <3>4
    <2> QED
      BY <2>7, <2>8
  <1>4. CASE Clear
    BY <1>4 DEF Clear, Remembered, ForgottenOnlyAfterWindow
  <1> QED
    BY <1>1, <1>2, <1>3, <1>4
    DEF Next, IsReplay, Tick, AdjustClock, ReadMono, Enters, ReadReal, RejectStamp,
        vars, clockVars, tableVars, historyVars

(***************************************************************************)
(* Any number of threads: a nonce is let through again only by a call that *)
(* finds a cleanup past the window of the first acceptance.                *)
(***************************************************************************)
THEOREM NeverForgottenEarly == Spec => []ForgottenOnlyAfterWindow
  <1>1. WindowInv => ForgottenOnlyAfterWindow
    BY DEF WindowInv
  <1> QED
    BY WindowInit, WindowStep, <1>1, PTL DEF Spec

-----------------------------------------------------------------------------
(***************************************************************************)
(* As long as no call has begun while another ran, there is at most one    *)
(* call, and nothing happens between its steps but the passing of time and *)
(* the setting of the real clock: the cleanup a decision finds was made    *)
(* with a clock reading no later than its own.                             *)
(***************************************************************************)
OneCall ==
    ~ overlapped =>
        \A t, u \in Threads : call[t] # Idle /\ call[u] # Idle => t = u

\* Every step keeps OneCall.
LEMMA OneCallStep == TypeOK /\ OneCall /\ [Next]_vars => OneCall'
  <1> SUFFICES ASSUME TypeOK, OneCall, [Next]_vars
               PROVE  OneCall'
    OBVIOUS
  <1> USE DEF OneCall
  <1>1. CASE UNCHANGED <<call, overlapped>>
    BY <1>1
  <1>2. ASSUME NEW t \in Threads, NEW p \in Packets, ReadMono(t, p)
        PROVE  OneCall'
    BY <1>2 DEF ReadMono, Enters, TypeOK
  <1>3. ASSUME NEW t \in Threads, ReadReal(t)
        PROVE  OneCall'
    BY <1>3 DEF ReadReal, historyVars, TypeOK
  <1>4. ASSUME NEW t \in Threads, RejectStamp(t) \/ RejectSeen(t) \/ Accept(t)
        PROVE  OneCall'
    BY <1>4 DEF RejectStamp, RejectSeen, Accept, Checked, historyVars, TypeOK
  <1> QED
    BY <1>1, <1>2, <1>3, <1>4
    DEF Next, IsReplay, Tick, AdjustClock, Clear, vars, historyVars

\* What a step that ends the only call leaves: no call.
LEMMA NoCallLeft ==
    ASSUME TypeOK, OneCall, ~ overlapped, NEW t \in Threads,
           RejectStamp(t) \/ RejectSeen(t) \/ Accept(t)
    PROVE  \A u \in Threads : call'[u] = Idle
  <1>1. call' = [call EXCEPT ![t] = Idle] /\ call[t] # Idle
    BY DEF RejectStamp, RejectSeen, Accept, Checked
  <1> QED
    BY <1>1 DEF TypeOK, OneCall

\* Nothing ends the history of an overlap.
LEMMA OverlapStays == [Next]_vars /\ ~ overlapped' => ~ overlapped
  BY DEF Next, IsReplay, Tick, AdjustClock, ReadMono, Enters, ReadReal,
         RejectStamp, RejectSeen, Accept, Clear, vars, historyVars

CleanupBehindCall ==
    /\ \A t \in Threads : call[t] # Idle => lastCleanup <= call[t].mono
    /\ \A i \in DOMAIN log : log[i].cleanup <= log[i].at

\* Without overlaps CleanupBehindCall is preserved.
LEMMA SingleStep ==
    ASSUME TypeOK, OneCall, ~ overlapped, CleanupBehindCall, [Next]_vars
    PROVE  CleanupBehindCall'
  <1> USE DEF CleanupBehindCall
  <1>1. CASE UNCHANGED <<lastCleanup, call, log>>
    BY <1>1
  <1>2. ASSUME NEW t \in Threads, NEW p \in Packets, ReadMono(t, p)
        PROVE  CleanupBehindCall'
    BY <1>2 DEF ReadMono, Enters, TypeOK, tableVars
  <1>3. ASSUME NEW t \in Threads, ReadReal(t)
        PROVE  CleanupBehindCall'
    <2>1. /\ UNCHANGED <<lastCleanup, log>>
          /\ call' = [call EXCEPT ![t].read = TRUE, ![t].real = mono + offset]
          /\ call[t] # Idle
      BY <1>3 DEF ReadReal, tableVars, historyVars
    <2>2. \A u \in Threads : call'[u] # Idle =>
             call[u] # Idle /\ call'[u].mono = call[u].mono
      BY <2>1 DEF TypeOK, Calls
    <2> QED
      BY <2>1, <2>2
  <1>4. ASSUME NEW t \in Threads, RejectStamp(t) \/ RejectSeen(t)
        PROVE  CleanupBehindCall'
    BY <1>4, NoCallLeft DEF RejectStamp, RejectSeen, historyVars
  <1>5. ASSUME NEW t \in Threads, Accept(t)
        PROVE  CleanupBehindCall'
    <2> DEFINE now == call[t].mono
               entry == [packet |-> call[t].packet, at |-> now,
                         began |-> call[t].began,
                         cleanup |-> LastCleanupAfter(now)]
    <2>1. /\ now \in Int
          /\ lastCleanup \in Int
          /\ lastCleanup <= now
          /\ \A n \in DOMAIN seen : seen[n] \in Int
      BY <1>5 DEF Accept, Checked, TypeOK, Calls
    <2>2. LastCleanupAfter(now) <= now
      BY <2>1, CleanupForgets
    <2>3. log' = Append(log, entry)
      BY <1>5 DEF Accept
    <2>4. /\ DOMAIN log' = DOMAIN log \cup {Len(log) + 1}
          /\ \A i \in DOMAIN log : log'[i] = log[i]
          /\ log'[Len(log) + 1] = entry
      BY <2>3, AppendEntries DEF TypeOK
    <2>5. \A i \in DOMAIN log' : log'[i].cleanup <= log'[i].at
      BY <2>2, <2>4
    <2> QED
      BY <1>5, <2>5, NoCallLeft
  <1>6. CASE Clear
    BY <1>6 DEF Clear
  <1> QED
    BY <1>1, <1>2, <1>3, <1>4, <1>5, <1>6
    DEF Next, IsReplay, Tick, AdjustClock, vars, tableVars, historyVars

\* Where cleanups are behind the calls, acceptances of a nonce are more than
\* a window apart.
LEMMA WindowApart ==
    ASSUME WindowInv, CleanupBehindCall
    PROVE  NoReplayWithinWindow
  <1> SUFFICES ASSUME NEW i \in DOMAIN log, NEW j \in DOMAIN log,
                      i < j, SameNonce(i, j)
               PROVE  log[j].at - log[i].at > Window
    BY DEF NoReplayWithinWindow
  <1>1. log[j].cleanup - log[i].at > Window
    BY DEF WindowInv, ForgottenOnlyAfterWindow
  <1>2. /\ log[j].cleanup <= log[j].at
        /\ log[j].cleanup \in Int /\ log[j].at \in Int /\ log[i].at \in Int
    BY LogEntry DEF WindowInv, TypeOK, CleanupBehindCall
  <1> QED
    BY <1>1, <1>2

(***************************************************************************)
(* Any number of threads: as long as no calls of is_replay have overlapped *)
(* the same nonce is never let through twice within the window, however    *)
(* the real clock is set meanwhile.                                        *)
(***************************************************************************)
THEOREM NoReplayBeforeOverlap == Spec => []NoReplayUnlessOverlapped
  <1> DEFINE Inv == WindowInv /\ OneCall /\ (~ overlapped => CleanupBehindCall)
  <1>1. Init => Inv
    BY WindowInit DEF Init, CleanupBehindCall, OneCall
  <1>2. Inv /\ [Next]_vars => Inv'
    BY WindowStep, OneCallStep, OverlapStays, SingleStep DEF WindowInv
  <1>3. Inv => NoReplayUnlessOverlapped
    BY WindowApart DEF NoReplayUnlessOverlapped
  <1> QED
    BY <1>1, <1>2, <1>3, PTL DEF Spec

-----------------------------------------------------------------------------
(***************************************************************************)
(* A real clock that is only ever set forward: the distance of the clocks  *)
(* when a call begins is at least that of every earlier acceptance, and    *)
(* what the call reads of the real clock is no earlier than its beginning. *)
(* This is what bounds the age of a packet whose nonce was forgotten.      *)
(***************************************************************************)
OffsetsGrow ==
    /\ \A i \in DOMAIN log : log[i].began - log[i].at <= offset
    /\ \A t \in Threads : call[t] # Idle =>
          /\ call[t].began - call[t].mono <= offset
          /\ call[t].read => call[t].began <= call[t].real
          /\ \A i \in DOMAIN log :
                log[i].began - log[i].at <= call[t].began - call[t].mono
    /\ \A i, j \in DOMAIN log :
          i < j => log[i].began - log[i].at <= log[j].began - log[j].at
    /\ \A i \in DOMAIN log :
          /\ log[i].packet.stamp \in Int
          /\ log[i].began - log[i].packet.stamp <= Window

\* OffsetsGrow is preserved, without overlaps, when the real clock is only set
\* forward.
LEMMA OffsetsStep ==
    ASSUME Adjustments \subseteq Nat, TypeOK, OneCall, ~ overlapped, OffsetsGrow,
           [Next]_vars
    PROVE  OffsetsGrow'
  <1>1. CASE UNCHANGED <<offset, call, log>>
    BY <1>1 DEF OffsetsGrow
  <1>2. CASE AdjustClock
    <2>1. /\ offset' \in Int /\ offset' >= offset
          /\ call' = call /\ log' = log
      BY <1>2 DEF AdjustClock, TypeOK, historyVars
    <2>2. \A i \in DOMAIN log : log[i].began - log[i].at <= offset'
      BY <2>1, LogEntry DEF OffsetsGrow, TypeOK
    <2>3. \A t \in Threads : call[t] # Idle =>
             call[t].began - call[t].mono <= offset'
      BY <2>1 DEF OffsetsGrow, TypeOK, Calls
    <2> QED
      BY <2>1, <2>2, <2>3 DEF OffsetsGrow
  <1>3. ASSUME NEW t \in Threads, NEW p \in Packets, ReadMono(t, p)
        PROVE  OffsetsGrow'
    <2> DEFINE entered == [packet |-> p, mono |-> mono, began |-> mono + offset,
                           read |-> FALSE, real |-> 0]
    <2>1. /\ call' = [call EXCEPT ![t] = entered]
          /\ call[t] = Idle
          /\ log' = log /\ offset' = offset
      BY <1>3 DEF ReadMono, Enters, clockVars
    <2>2. /\ entered.began - entered.mono = offset
          /\ ~ entered.read
      BY DEF TypeOK
    <2> HIDE DEF entered
    <2>3. \A u \in Threads : call'[u] = IF u = t THEN entered ELSE call[u]
      BY <2>1 DEF TypeOK
    <2>4. \A u \in Threads : call'[u] # Idle =>
             /\ call'[u].began - call'[u].mono <= offset'
             /\ call'[u].read => call'[u].began <= call'[u].real
             /\ \A i \in DOMAIN log' :
                   log'[i].began - log'[i].at <= call'[u].began - call'[u].mono
      BY <2>1, <2>2, <2>3 DEF OffsetsGrow, TypeOK
    <2> QED
      BY <2>1, <2>4 DEF OffsetsGrow
  <1>4. ASSUME NEW t \in Threads, ReadReal(t)
        PROVE  OffsetsGrow'
    <2> DEFINE c == [call[t] EXCEPT !.read = TRUE, !.real = mono + offset]
    <2>1. /\ call' = [call EXCEPT ![t] = c]
          /\ call[t] # Idle /\ call[t] \in Calls /\ call[t].mono <= mono
          /\ log' = log /\ offset' = offset
      BY <1>4 DEF ReadReal, clockVars, historyVars, TypeOK
    <2>2. /\ c.mono = call[t].mono /\ c.began = call[t].began
          /\ c.real = mono + offset /\ c.read
      BY <2>1 DEF Calls
    <2>3. c.began <= c.real
      BY <2>1, <2>2 DEF OffsetsGrow, TypeOK, Calls
    <2> HIDE DEF c
    <2>4. \A u \in Threads : call'[u] = IF u = t THEN c ELSE call[u]
      BY <2>1 DEF TypeOK
    <2>5. \A u \in Threads : call'[u] # Idle =>
             /\ call'[u].began - call'[u].mono <= offset'
             /\ call'[u].read => call'[u].began <= call'[u].real
             /\ \A i \in DOMAIN log' :
                   log'[i].began - log'[i].at <= call'[u].began - call'[u].mono
      BY <2>1, <2>2, <2>3, <2>4 DEF OffsetsGrow
    <2> QED
      BY <2>1, <2>5 DEF OffsetsGrow
  <1>5. ASSUME NEW t \in Threads, RejectStamp(t) \/ RejectSeen(t)
        PROVE  OffsetsGrow'
    BY <1>5, NoCallLeft DEF RejectStamp, RejectSeen, OffsetsGrow, clockVars, historyVars
  <1>6. ASSUME NEW t \in Threads, Accept(t)
        PROVE  OffsetsGrow'
    <2> DEFINE entry == [packet |-> call[t].packet, at |-> call[t].mono,
                         began |-> call[t].began,
                         cleanup |-> LastCleanupAfter(call[t].mono)]
               last == Len(log) + 1
    <2>1. /\ log' = Append(log, entry)
          /\ offset' = offset
          /\ call[t] # Idle /\ call[t].read /\ call[t] \in Calls
          /\ StampFresh(call[t].packet.stamp, call[t].real)
      BY <1>6 DEF Accept, Checked, clockVars, TypeOK
    <2>2. /\ DOMAIN log' = DOMAIN log \cup {last}
          /\ \A i \in DOMAIN log : i < last /\ log'[i] = log[i]
          /\ log'[last] = entry
      BY <2>1, AppendEntries DEF TypeOK
    <2>3. entry.began - entry.at = call[t].began - call[t].mono
      OBVIOUS
    <2>4. /\ entry.packet.stamp \in Int
          /\ entry.began - entry.packet.stamp <= Window
      <3>1. call[t].packet.stamp \in Int
        BY <2>1 DEF StampFresh, Calls
      <3> QED
        BY <2>1, <3>1 DEF StampFresh, Calls, OffsetsGrow
    <2>5. last \in Nat /\ DOMAIN log \subseteq Nat
      BY DEF TypeOK
    <2> HIDE DEF entry, last
    <2>6. \A i \in DOMAIN log' : log'[i].began - log'[i].at <= offset'
      BY <2>1, <2>2, <2>3 DEF OffsetsGrow
    <2>7. ASSUME NEW i \in DOMAIN log', NEW j \in DOMAIN log', i < j
          PROVE  log'[i].began - log'[i].at <= log'[j].began - log'[j].at
      <3>1. i \in DOMAIN log
        BY <2>2, <2>5, <2>7
      <3>2. CASE j \in DOMAIN log
        BY <2>2, <2>7, <3>1, <3>2 DEF OffsetsGrow
      <3>3. CASE j = last
        BY <2>1, <2>2, <2>3, <3>1, <3>3 DEF OffsetsGrow
      <3> QED
        BY <2>2, <3>2, <3>3
    <2>8. \A i \in DOMAIN log' :
             /\ log'[i].packet.stamp \in Int
             /\ log'[i].began - log'[i].packet.stamp <= Window
      BY <2>2, <2>4 DEF OffsetsGrow
    <2>9. \A u \in Threads : call'[u] = Idle
      BY <1>6, NoCallLeft
    <2> QED
      BY <2>6, <2>7, <2>8, <2>9 DEF OffsetsGrow
  <1>7. CASE Clear
    BY <1>7 DEF Clear, OffsetsGrow, clockVars
  <1> QED
    BY <1>1, <1>2, <1>3, <1>4, <1>5, <1>6, <1>7
    DEF Next, IsReplay, Tick, vars, clockVars, historyVars

\* A packet whose nonce may be accepted again is too old by then, unless it was
\* stamped ahead.
LEMMA TooOldByThen ==
    ASSUME WindowInv, CleanupBehindCall, OffsetsGrow
    PROVE  AtMostOnce
  <1> SUFFICES ASSUME NEW i \in DOMAIN log, NEW j \in DOMAIN log,
                      i < j, log[i].packet = log[j].packet
               PROVE  log[i].packet.stamp > log[i].began
    BY DEF AtMostOnce
  <1>1. log[j].at - log[i].at > Window
    BY WindowApart DEF NoReplayWithinWindow, SameNonce
  <1>2. log[i].began - log[i].at <= log[j].began - log[j].at
    BY DEF OffsetsGrow
  <1>3. /\ log[j].packet.stamp \in Int
        /\ log[j].began - log[j].packet.stamp <= Window
    BY DEF OffsetsGrow
  <1>4. /\ log[i].at \in Int /\ log[j].at \in Int
        /\ log[i].began \in Int /\ log[j].began \in Int
    BY LogEntry DEF WindowInv, TypeOK
  <1> QED
    BY <1>1, <1>2, <1>3, <1>4

(***************************************************************************)
(* Any number of threads and a real clock that is never set back: as long  *)
(* as no calls have overlapped, a packet is let through at most once,      *)
(* unless it was stamped ahead of the real clock as it stood when          *)
(* is_replay was called, however long the call takes between its readings. *)
(***************************************************************************)
THEOREM AtMostOnceBeforeOverlap ==
    ASSUME Adjustments \subseteq Nat
    PROVE  Spec => []AtMostOnce
  <1> DEFINE Inv == /\ WindowInv /\ OneCall
                    /\ ~ overlapped => CleanupBehindCall /\ OffsetsGrow
  <1>1. Init => Inv
    BY WindowInit DEF Init, CleanupBehindCall, OffsetsGrow, OneCall
  <1>2. Inv /\ [Next]_vars => Inv'
    BY WindowStep, OneCallStep, OverlapStays, SingleStep, OffsetsStep DEF WindowInv
  <1>3. Inv => AtMostOnce
    BY TooOldByThen DEF AtMostOnce
  <1> QED
    BY <1>1, <1>2, <1>3, PTL DEF Spec

-----------------------------------------------------------------------------
(***************************************************************************)
(* The times in the table lie within a window of the last cleanup, on      *)
(* either side: before it, because the cleanup has deleted what was older; *)
(* after it, because a later call would have cleaned up again.             *)
(***************************************************************************)
NearCleanup ==
    \A n \in DOMAIN seen :
        lastCleanup - Window <= seen[n] /\ seen[n] <= lastCleanup + Window

\* What the cleanup with the reading now leaves is near it, if now is not before
\* the last one.
LEMMA CleanupNear ==
    ASSUME NEW now \in Int, lastCleanup \in Int, lastCleanup <= now, NearCleanup,
           \A n \in DOMAIN seen : seen[n] \in Int /\ seen[n] <= now
    PROVE  \A n \in DOMAIN SeenAfterCleanup(now) :
              /\ LastCleanupAfter(now) - Window <= SeenAfterCleanup(now)[n]
              /\ SeenAfterCleanup(now)[n] <= LastCleanupAfter(now) + Window
  <1>1. CASE CleanupDue(now)
    <2>1. /\ SeenAfterCleanup(now) = [n \in DOMAIN seen \ Outdated(now) |-> seen[n]]
          /\ LastCleanupAfter(now) = now
      BY <1>1 DEF SeenAfterCleanup, LastCleanupAfter
    <2> QED
      BY <2>1 DEF Outdated
  <1>2. CASE ~ CleanupDue(now)
    <2>1. SeenAfterCleanup(now) = seen /\ LastCleanupAfter(now) = lastCleanup
      BY <1>2 DEF SeenAfterCleanup, LastCleanupAfter
    <2> QED
      BY <2>1 DEF NearCleanup
  <1> QED
    BY <1>1, <1>2

\* Without overlaps nothing is recorded between the steps of a call, so that
\* what it finds was recorded no later than its own reading.
SeenBehindCall ==
    \A t \in Threads : call[t] # Idle =>
        \A n \in DOMAIN seen : seen[n] <= call[t].mono

SpanInv == CleanupBehindCall /\ SeenBehindCall /\ NearCleanup

\* Without overlaps SpanInv is preserved.
LEMMA SpanStep ==
    ASSUME TypeOK, OneCall, ~ overlapped, SpanInv, [Next]_vars
    PROVE  SpanInv'
  <1>1. CleanupBehindCall'
    BY SingleStep DEF SpanInv
  <1>2. CASE UNCHANGED <<seen, lastCleanup, call>>
    BY <1>1, <1>2 DEF SpanInv, SeenBehindCall, NearCleanup
  <1>3. ASSUME NEW t \in Threads, NEW p \in Packets, ReadMono(t, p)
        PROVE  SpanInv'
    <2>1. /\ UNCHANGED <<seen, lastCleanup>>
          /\ \A u \in Threads : call'[u] # Idle =>
                \/ call'[u].mono = mono
                \/ call[u] # Idle /\ call'[u] = call[u]
      BY <1>3 DEF ReadMono, Enters, TypeOK, tableVars
    <2> QED
      BY <1>1, <2>1 DEF SpanInv, SeenBehindCall, NearCleanup, TypeOK
  <1>4. ASSUME NEW t \in Threads, ReadReal(t)
        PROVE  SpanInv'
    <2>1. /\ UNCHANGED <<seen, lastCleanup>>
          /\ call' = [call EXCEPT ![t].read = TRUE, ![t].real = mono + offset]
          /\ call[t] # Idle
      BY <1>4 DEF ReadReal, tableVars
    <2>2. \A u \in Threads : call'[u] # Idle =>
             call[u] # Idle /\ call'[u].mono = call[u].mono
      BY <2>1 DEF TypeOK, Calls
    <2> QED
      BY <1>1, <2>1, <2>2 DEF SpanInv, SeenBehindCall, NearCleanup
  <1>5. ASSUME NEW t \in Threads, RejectStamp(t)
        PROVE  SpanInv'
    <2>1. UNCHANGED <<seen, lastCleanup>>
      BY <1>5 DEF RejectStamp, tableVars
    <2>2. \A u \in Threads : call'[u] = Idle
      BY <1>5, NoCallLeft
    <2> QED
      BY <1>1, <2>1, <2>2 DEF SpanInv, SeenBehindCall, NearCleanup
  <1>6. ASSUME NEW t \in Threads, RejectSeen(t) \/ Accept(t)
        PROVE  SpanInv'
    <2> DEFINE now == call[t].mono
               kept == SeenAfterCleanup(now)
               nonce == call[t].packet.nonce
    <2>1. /\ now \in Int /\ lastCleanup \in Int /\ lastCleanup <= now
          /\ \A n \in DOMAIN seen : seen[n] \in Int /\ seen[n] <= now
      BY <1>6 DEF RejectSeen, Accept, Checked, SpanInv, TypeOK, Calls,
                  CleanupBehindCall, SeenBehindCall
    <2>2. /\ lastCleanup' = LastCleanupAfter(now)
          /\ \/ seen' = kept
             \/ seen' = [n \in DOMAIN kept \cup {nonce} |->
                            IF n = nonce THEN now ELSE kept[n]]
      BY <1>6 DEF RejectSeen, Accept, CleansUp, Records
    <2>3. \A u \in Threads : call'[u] = Idle
      BY <1>6, NoCallLeft
    <2>4. \A n \in DOMAIN kept :
             LastCleanupAfter(now) - Window <= kept[n]
             /\ kept[n] <= LastCleanupAfter(now) + Window
      BY <2>1, CleanupNear DEF SpanInv
    <2> HIDE DEF now, kept, nonce
    <2>5. /\ LastCleanupAfter(now) \in Int /\ now - LastCleanupAfter(now) <= Window
          /\ LastCleanupAfter(now) <= now
      BY <2>1 DEF LastCleanupAfter, CleanupDue
    <2>6. LastCleanupAfter(now) - Window <= now /\ now <= LastCleanupAfter(now) + Window
      BY <2>1, <2>5
    <2>7. NearCleanup'
      BY <2>2, <2>4, <2>6 DEF NearCleanup
    <2> QED
      BY <1>1, <2>3, <2>7 DEF SpanInv, SeenBehindCall
  <1>7. CASE Clear
    BY <1>1, <1>7 DEF Clear, SpanInv, SeenBehindCall, NearCleanup
  <1> QED
    BY <1>2, <1>3, <1>4, <1>5, <1>6, <1>7
    DEF Next, IsReplay, Tick, AdjustClock, vars, tableVars

(***************************************************************************)
(* Any number of threads: as long as no calls have overlapped, the table   *)
(* holds no two nonces recorded more than two windows apart, so that it    *)
(* does not grow with the node's age.                                      *)
(***************************************************************************)
THEOREM SpanBeforeOverlap == Spec => []SeenSpan
  <1> DEFINE Inv == TypeOK /\ OneCall /\ (~ overlapped => SpanInv)
  <1>1. Init => Inv
    BY TypeInit DEF Init, TableInit, SpanInv, CleanupBehindCall, SeenBehindCall,
                    NearCleanup, OneCall
  <1>2. Inv /\ [Next]_vars => Inv'
    BY TypeStep, OneCallStep, OverlapStays, SpanStep
  <1>3. Inv => SeenSpan
    BY DEF SpanInv, NearCleanup, SeenSpan, TypeOK
  <1> QED
    BY <1>1, <1>2, <1>3, PTL DEF Spec

=============================================================================
