---------------------------- MODULE NonceTracker ----------------------------
(***************************************************************************)
(* NonceTracker of nonce.py: the replay protection every incoming packet   *)
(* goes through.  is_replay reads the monotonic clock, then the real one,  *)
(* and checks the packet's timestamp BEFORE it takes the lock; the cleanup *)
(* of old nonces, the lookup and the recording happen in one locked        *)
(* section, with the clock values read earlier.  A call is therefore three *)
(* steps, ReadMono, ReadReal and one of RejectStamp, RejectSeen and        *)
(* Accept.  Time passes and the real clock may be set between any two of   *)
(* them, and the steps of several threads interleave.                      *)
(***************************************************************************)
EXTENDS ReplayTable, Sequences

CONSTANTS
    Threads,        \* the threads that call is_replay
    Packets,        \* records [nonce, stamp]: what is_replay sees of a packet
    Adjustments,    \* steps by which the real clock may be set
    MaxTime,        \* bound on the monotonic clock
    MaxOffset,      \* bound on |real clock - monotonic clock|
    Idle            \* a thread that is not inside is_replay

ASSUME ConstantsAssumption ==
    /\ Adjustments \subseteq Int
    /\ MaxTime \in Nat
    /\ MaxOffset \in Nat
    /\ \A p \in Packets :
        /\ DOMAIN p = {"nonce", "stamp"}
        /\ p.stamp \in Int \cup {Unparseable}

VARIABLES
    mono,           \* time.monotonic()
    offset,         \* time.time() - time.monotonic()
    call,           \* the packet and the clock values of each running call
    overlapped,     \* history: has a call begun while another one ran?
    log             \* history: the packets let through since the last clear

clockVars == <<mono, offset>>
historyVars == <<overlapped, log>>
vars == <<clockVars, tableVars, call, historyVars>>

Nonces == {p.nonce : p \in Packets}

\* A running call: what it has read, and (history) the real clock when it began.
Calls == [packet : Packets, mono : Int, began : Int, read : BOOLEAN, real : Int]
Accepts == [packet : Packets, at : Int, began : Int, cleanup : Int]

ASSUME IdleAssumption == Idle \notin Calls

Init ==
    /\ mono = 0
    /\ offset = 0
    /\ TableInit
    /\ call = [t \in Threads |-> Idle]
    /\ overlapped = FALSE
    /\ log = <<>>

-----------------------------------------------------------------------------
(* Time.  The real clock moves with the monotonic one, and may be set.     *)

Tick ==
    /\ mono < MaxTime
    /\ mono' = mono + 1
    /\ UNCHANGED <<offset, tableVars, call, historyVars>>

AdjustClock ==
    /\ \E d \in Adjustments :
        /\ offset + d \in -MaxOffset .. MaxOffset
        /\ offset' = offset + d
    /\ UNCHANGED <<mono, tableVars, call, historyVars>>

-----------------------------------------------------------------------------
(* is_replay.                                                              *)

Enters(t, p, reading) ==
    /\ call[t] = Idle
    /\ call' = [call EXCEPT ![t] = [packet |-> p, mono |-> reading,
                    began |-> mono + offset, read |-> FALSE, real |-> 0]]
    /\ overlapped' = (overlapped \/ \E u \in Threads : call[u] # Idle)
    /\ UNCHANGED <<clockVars, tableVars, log>>

\* Mutant of ReadMono: the nonces are timed with the real clock.
ReadMonoFromReal(t, p) == Enters(t, p, mono + offset)

ReadMono(t, p) == Enters(t, p, mono)

ReadReal(t) ==
    /\ call[t] # Idle /\ ~ call[t].read
    /\ call' = [call EXCEPT ![t].read = TRUE, ![t].real = mono + offset]
    /\ UNCHANGED <<clockVars, tableVars, historyVars>>

\* The call of t has read both clocks and found the timestamp fresh, or not.
Checked(t, fresh) ==
    /\ call[t] # Idle /\ call[t].read
    /\ StampFresh(call[t].packet.stamp, call[t].real) = fresh
    /\ call' = [call EXCEPT ![t] = Idle]

\* Returned before the lock: nothing is cleaned up and nothing recorded.
RejectStamp(t) ==
    /\ Checked(t, FALSE)
    /\ UNCHANGED <<clockVars, tableVars, historyVars>>

RejectSeen(t) ==
    /\ Checked(t, TRUE)
    /\ call[t].packet.nonce \in DOMAIN SeenAfterCleanup(call[t].mono)
    /\ CleansUp(call[t].mono)
    /\ UNCHANGED <<clockVars, historyVars>>

Accept(t) ==
    /\ Checked(t, TRUE)
    /\ call[t].packet.nonce \notin DOMAIN SeenAfterCleanup(call[t].mono)
    /\ Records(call[t].packet.nonce, call[t].mono)
    /\ log' = Append(log, [packet |-> call[t].packet, at |-> call[t].mono,
                           began |-> call[t].began,
                           cleanup |-> LastCleanupAfter(call[t].mono)])
    /\ UNCHANGED <<clockVars, overlapped>>

\* clear(), "for testing": the history restarts with the tracker.
Clear ==
    /\ seen' = [n \in {} |-> 0]
    /\ log' = <<>>
    /\ UNCHANGED <<clockVars, lastCleanup, call, overlapped>>

IsReplay(t) ==
    \/ \E p \in Packets : ReadMono(t, p)
    \/ ReadReal(t)
    \/ RejectStamp(t)
    \/ RejectSeen(t)
    \/ Accept(t)

Next ==
    \/ Tick
    \/ AdjustClock
    \/ \E t \in Threads : IsReplay(t)
    \/ Clear

Spec == Init /\ [][Next]_vars

-----------------------------------------------------------------------------
(* Properties.                                                             *)

\* Every recorded time is a reading of the monotonic clock that has passed,
\* so that _cleanup compares like with like.
TypeOK ==
    /\ mono \in Int /\ offset \in Int
    /\ DOMAIN seen \subseteq Nonces
    /\ \A n \in DOMAIN seen : seen[n] \in Int /\ seen[n] <= mono
    /\ lastCleanup \in Int /\ lastCleanup <= mono
    /\ call \in [Threads -> Calls \cup {Idle}]
    /\ \A t \in Threads : call[t] # Idle => call[t].mono <= mono
    /\ overlapped \in BOOLEAN
    /\ log \in Seq(Accepts)

SameNonce(i, j) == log[i].packet.nonce = log[j].packet.nonce

\* A nonce is let through a second time only by a call that finds a cleanup
\* made with a clock reading more than the window past the first acceptance:
\* whatever the threads do, is_replay forgets no nonce early (nonce.py:67-86).
ForgottenOnlyAfterWindow ==
    \A i, j \in DOMAIN log :
        i < j /\ SameNonce(i, j) => log[j].cleanup - log[i].at > Window

\* "If we see the same nonce within the window, it's a replay"
\* (nonce.py:19): two acceptances of one nonce are more than a window apart,
\* by the clock readings is_replay works with.
NoReplayWithinWindow ==
    \A i, j \in DOMAIN log :
        i < j /\ SameNonce(i, j) => log[j].at - log[i].at > Window

\* The same as long as no call of is_replay has begun while another ran, in
\* whichever threads, and however the real clock is set (nonce.py:47, 67-74).
NoReplayUnlessOverlapped == ~ overlapped => NoReplayWithinWindow

\* As long as no calls have overlapped and the real clock is not set back, a
\* packet whose timestamp was not ahead of the real clock when is_replay was
\* called is never let through again: by the time its nonce is forgotten its
\* timestamp is too old, however much time passes between the readings of the
\* two clocks (nonce.py:47-48, 61-65 with 69-74).
AtMostOnce ==
    ~ overlapped =>
        \A i, j \in DOMAIN log :
            i < j /\ log[i].packet = log[j].packet
                => log[i].packet.stamp > log[i].began

\* "Same packet sent twice -> second is ROOD (replay)"
\* (tests/test_node.py:77), whatever its timestamp.
SamePacketOnce ==
    \A i, j \in DOMAIN log : log[i].packet = log[j].packet => i = j

\* The cleanup keeps the table short: as long as no calls have overlapped, no
\* two nonces it holds were recorded more than two windows apart
\* (nonce.py:69-70, 80-86).
SeenSpan ==
    ~ overlapped => \A n, m \in DOMAIN seen : seen[m] - seen[n] <= 2 * Window

=============================================================================
