---------------------------- MODULE TimedRunner ----------------------------
(***************************************************************************)
(* TokenRunner in time: how long a run waits for the profile lock          *)
(* (cache.lockAcquireTimeout) against how long another one may be inside   *)
(* the section, where the refresh request is bounded (refreshTimeout) and  *)
(* the calls of the store are not.  Every step is a step of TokenRunner or *)
(* a tick of the clock.  A waiter tries the lock again every               *)
(* lockRetryDelay, far below a tick, in no order.                          *)
(***************************************************************************)
EXTENDS TokenRunner

CONSTANTS
    lockAcquireTimeout, refreshTimeout  \* in ticks

ASSUME TimedAssumption ==
    /\ lockAcquireTimeout \in Nat \ {0}
    /\ refreshTimeout \in Nat \ {0}
    /\ IsFiniteSet(Procs)

VARIABLES
    waited,     \* ticks each process has waited for the lock
    requested,  \* ticks since it sent its refresh request
    worked,     \* ticks it has been inside the section
    slowest     \* history: the longest anybody was inside, up to the timeout

clocks == <<waited, requested, worked, slowest>>

TimedInit ==
    /\ Init
    /\ waited = [p \in Procs |-> 0]
    /\ requested = [p \in Procs |-> 0]
    /\ worked = [p \in Procs |-> 0]
    /\ slowest = 0

Requesting == {"sent", "answered"}

\* Mutants of Expired: nothing bounds the wait; it ends a tick too early.
ExpiredNever(p) == FALSE

ExpiredEarly(p) == waited[p] >= lockAcquireTimeout - 1

\* The context of TryLockContext has ended.
Expired(p) == waited[p] = lockAcquireTimeout

\* A clock that has not been stopped by p's step keeps its value.
Kept(clock, p, places) ==
    [clock EXCEPT ![p] = IF pc'[p] \in places THEN @ ELSE 0]

\* A step of TokenRunner takes no time.  The wait fails only at its end, and so
\* does a request that is abandoned.
TimedStep(p) ==
    /\ Step(p)
    /\ LockFails(p) => Expired(p)
    /\ RefreshTimeout(p) /\ ~RefreshBadIDToken(p) => requested[p] = refreshTimeout
    /\ waited' = Kept(waited, p, {"wantLock"})
    /\ requested' = Kept(requested, p, Requesting)
    /\ worked' = Kept(worked, p, Section)
    /\ UNCHANGED slowest

TimedExpire == Expire /\ UNCHANGED clocks

UpTo(a, b) == IF a <= b THEN a ELSE b

Counting(clock, places, bound) ==
    [p \in Procs |-> IF pc[p] \in places THEN UpTo(clock[p] + 1, bound) ELSE clock[p]]

Waiting == {p \in Procs : pc[p] = "wantLock"}

\* Time passes: never past the end of a wait or of a request, and not while the
\* lock is free and somebody wants it.  Nothing bounds the calls of the store.
Tick ==
    /\ holders = {} => Waiting = {}
    /\ \A p \in Waiting : ~Expired(p)
    /\ \A p \in Procs : pc[p] \in Requesting => requested[p] < refreshTimeout
    /\ waited' = Counting(waited, {"wantLock"}, lockAcquireTimeout)
    /\ requested' = Counting(requested, Requesting, refreshTimeout)
    /\ worked' = Counting(worked, Section, lockAcquireTimeout)
    /\ slowest' = UpTo(lockAcquireTimeout,
                       IF \E p \in Procs : worked'[p] > slowest THEN slowest + 1 ELSE slowest)
    /\ UNCHANGED vars

TimedNext == \/ \E p \in Procs : TimedStep(p)
             \/ TimedExpire
             \/ Tick

timedVars == <<vars, clocks>>

TimedSpec == TimedInit /\ [][TimedNext]_timedVars

\* Time passes, the waiters poll, and a request ends by refreshTimeout.  A holder
\* may be stuck in the store for ever, in front of a locked keychain.
TimedFairSpec ==
    /\ TimedSpec
    /\ WF_timedVars(Tick)
    /\ \A p \in Procs :
         /\ WF_timedVars(WaitLock(p) /\ TimedStep(p))
         /\ WF_timedVars(pc[p] \in Requesting /\ TimedStep(p))

(***************************************************************************)
(* Properties                                                              *)
(***************************************************************************)

\* cache.go:17-18: nobody waits for the lock for ever, though its holder may be
\* stuck with it for ever ("so a wedged holder can't hang callers forever").
WaitersMoveOn == \A p \in Procs : pc[p] = "wantLock" ~> pc[p] # "wantLock"

\* A run gives up on the lock, and logs in beside the others, only if they have
\* kept it from it for the whole wait: each of them is inside once, so one of them
\* was inside for its share of the wait or longer.  While every section takes less,
\* concurrent runs converge on one winner (runner.tryRefresh, Cache.WithLock).
GivesUpOnlyOnSlowSections ==
    [][\A p \in Procs : pc[p] = "wantLock" /\ pc'[p] = "login" =>
         slowest * (Cardinality(Procs) - 1) >= lockAcquireTimeout]_timedVars

(***************************************************************************)
(* The inductive invariant behind the second                               *)
(***************************************************************************)

TimedTypeOK ==
    /\ waited \in [Procs -> 0..lockAcquireTimeout]
    /\ worked \in [Procs -> 0..lockAcquireTimeout]
    /\ slowest \in 0..lockAcquireTimeout

\* A clock runs only where it is read, and slowest is behind none.
ClocksInv ==
    \A p \in Procs :
        /\ pc[p] # "wantLock" => waited[p] = 0
        /\ pc[p] \notin Section => worked[p] = 0
        /\ worked[p] <= slowest

\* The processes that will not be in the section again, or ever.
Past == {p \in Procs : pc[p] \notin {"start", "wantLock"} \cup Section}

\* No wait is longer than the sections of those that went before, each at most the
\* slowest, and what the present holder has used: unless slowest counts no further.
WaitInv ==
    Locks => \A p \in Waiting :
        \/ /\ slowest = lockAcquireTimeout
           /\ waited[p] = 0 \/ holders \cup Past # {}
        \/ /\ holders = {} => waited[p] <= slowest * Cardinality(Past)
           /\ \A q \in holders : waited[p] <= slowest * Cardinality(Past) + worked[q]

TimedInv == TimedTypeOK /\ ClocksInv /\ WaitInv

=============================================================================
