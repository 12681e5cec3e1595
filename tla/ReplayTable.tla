----------------------------- MODULE ReplayTable -----------------------------
(***************************************************************************)
(* The table of NonceTracker (nonce.py): when each nonce was recorded and  *)
(* when the table was last cleaned up, and the tests and updates is_replay *)
(* makes of it with a reading now of the monotonic clock and a reading     *)
(* real of the real one.  NonceTracker interleaves the callers and lets    *)
(* the clocks drift; PingHandler and MeshNode call is_replay in a single   *)
(* thread, with one clock, and use Passes, Records and Refuses.            *)
(***************************************************************************)
EXTENDS Integers

CONSTANTS
    Window,         \* window_seconds
    Skew,           \* clock_skew_seconds
    Unparseable     \* a stamp that datetime.fromisoformat refuses

ASSUME TableAssumption ==
    /\ Window \in Nat
    /\ Skew \in Nat
    /\ Unparseable \notin Int

VARIABLES
    seen,           \* _seen: nonce -> monotonic time it was recorded with
    lastCleanup     \* _last_cleanup

tableVars == <<seen, lastCleanup>>

TableInit ==
    /\ seen = [n \in {} |-> 0]
    /\ lastCleanup = 0

-----------------------------------------------------------------------------
\* Mutant of StampFresh: old packets are not refused.
StampFreshIgnoringAge(stamp, real) ==
    /\ stamp # Unparseable
    /\ real - stamp >= -Skew

\* Mutants of Outdated: the entry of exactly one window ago goes too, or the
\* comparison is the wrong way round.
OutdatedTooSoon(now) == {n \in DOMAIN seen : seen[n] <= now - Window}
OutdatedSwapped(now) == {n \in DOMAIN seen : seen[n] > now - Window}

\* The timestamp parses and its age lies within [-Skew, Window].
StampFresh(stamp, real) ==
    /\ stamp # Unparseable
    /\ real - stamp <= Window
    /\ real - stamp >= -Skew

\* The nonces _cleanup(now) deletes.
Outdated(now) == {n \in DOMAIN seen : seen[n] < now - Window}

CleanupDue(now) == now - lastCleanup > Window

\* Mutant of SeenAfterCleanup: the cleanup empties the table.
SeenAfterEmptying(now) ==
    IF CleanupDue(now) THEN [n \in {} |-> 0] ELSE seen

\* _seen and _last_cleanup after the periodic cleanup of the locked section.
SeenAfterCleanup(now) ==
    IF CleanupDue(now) THEN [n \in DOMAIN seen \ Outdated(now) |-> seen[n]]
                       ELSE seen

LastCleanupAfter(now) == IF CleanupDue(now) THEN now ELSE lastCleanup

-----------------------------------------------------------------------------
\* The locked section for a nonce that is held, and for one that is not.
CleansUp(now) ==
    /\ seen' = SeenAfterCleanup(now)
    /\ lastCleanup' = LastCleanupAfter(now)

Records(nonce, now) ==
    LET kept == SeenAfterCleanup(now) IN
    /\ seen' = [n \in DOMAIN kept \cup {nonce} |->
                    IF n = nonce THEN now ELSE kept[n]]
    /\ lastCleanup' = LastCleanupAfter(now)

\* is_replay at one time: whether it lets a packet through, and what it leaves
\* behind when it does not.
Passes(nonce, stamp, now) ==
    /\ StampFresh(stamp, now)
    /\ nonce \notin DOMAIN SeenAfterCleanup(now)

Refuses(nonce, stamp, now) ==
    /\ ~ Passes(nonce, stamp, now)
    /\ IF StampFresh(stamp, now) THEN CleansUp(now) ELSE UNCHANGED tableVars

=============================================================================
