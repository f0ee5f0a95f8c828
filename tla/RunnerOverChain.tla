-------------------------- MODULE RunnerOverChain --------------------------
(***************************************************************************)
(* The runner over the default store, --token-store=auto: TokenRunner whose *)
(* profile entry is the one of the backend that answers, the OS keychain   *)
(* or, while that cannot be reached, the file.  The keychain comes and goes *)
(* between any two steps of the invocations; the lock is the file's flock  *)
(* wherever the entry is.                                                  *)
(***************************************************************************)
EXTENDS Naturals

CONSTANTS
    Runs, Logouts,          \* processes, as in TokenRunner
    Answers, LoginAnswers,  \* of the IdP
    PriorEntries,           \* what may be in a backend at first
    Faults,
    NoEntry

VARIABLES
    store,      \* the entry of each backend
    where,      \* the backend that answers
    straddled,  \* history: the keychain came or went while a run was between
                \* its first Load and the end of its section
    cutoff,     \* history: minted when a logout last cleared the profile, for
                \* good unless excused
    excused,    \* history: that logout met a run in progress, or could not reach
                \* the keychain
    granted,    \* history: the IdP has answered a run since that logout
    holders, pc, rt, res, minted, redeemed, stray, lost  \* of TokenRunner

runnerVars == <<holders, pc, rt, res, minted, redeemed, stray, lost>>

vars == <<store, where, straddled, cutoff, excused, granted, runnerVars>>

ChainBackends == {"keychain", "file"}

\* ChainStore.Load: the file only while the keychain is unavailable.
Runner == INSTANCE TokenRunner WITH
    entry <- store[where], Backend <- "file", IDRuns <- {}

ASSUME ChainAssumption ==
    /\ Runs \cap Logouts = {}
    /\ Answers \subseteq Runner!AnswerKinds
    /\ LoginAnswers \subseteq Runner!AnswerKinds
    /\ PriorEntries \subseteq Runner!Entries \cup {NoEntry}
    /\ \A e \in PriorEntries \ {NoEntry} : e.rt \in {0, 1}
    /\ NoEntry \notin Runner!Results

\* No two backends start with the same refresh token.
Init ==
    /\ store \in [ChainBackends -> PriorEntries]
    /\ \A b, c \in ChainBackends :
         b # c /\ store[b] # NoEntry /\ store[c] # NoEntry
            => store[b].rt # store[c].rt \/ store[b].rt = 0
    /\ where \in ChainBackends
    /\ straddled = FALSE
    /\ cutoff = 0 /\ excused = FALSE /\ granted = TRUE
    /\ Runner!Init

\* A run between its first Load and the end of its section.
Renewing(p) == pc[p] \in {"wantLock"} \cup Runner!Section

\* A run that may still save what it holds.
InProgress(p) == p \in Runs /\ pc[p] \notin {"start"} \cup Runner!Ended

\* Run, with the stores of ChainStore.Save in the backend that answers.
RunStep(p) ==
    /\ \E e \in {store[where], Runner!Persisted(res[p])} :
         store' = [store EXCEPT ![where] = e]
    /\ UNCHANGED <<where, straddled, cutoff, excused>>
    /\ p \in Runs /\ (Runner!Step(p) \/ Runner!Crash(p))
    /\ granted' = (granted \/ pc'[p] \in {"answered", "saveLogin"})

\* Mutant of Reached: a Delete stops at the first backend that answers.
ReachedFirst == {where}

\* ChainStore.Delete: the file, and the keychain if it answers.
Reached == {where, "file"}

\* Runner.Logout succeeds: what it reached is empty.
LogoutStep(p) ==
    /\ store' = [b \in ChainBackends |-> IF b \in Reached THEN NoEntry ELSE store[b]]
    /\ cutoff' = minted
    /\ excused' = (where = "file" \/ \E q \in Runs : InProgress(q))
    /\ granted' = FALSE
    /\ UNCHANGED <<where, straddled>>
    /\ Runner!Logout(p)

\* ChainStore.Delete tries every backend also when one errs: at least one of those
\* it reached keeps its entry, the others may be empty.
LogoutFailsStep(p) ==
    /\ \E D \in SUBSET Reached \ {Reached} :
         store' = [b \in ChainBackends |-> IF b \in D THEN NoEntry ELSE store[b]]
    /\ UNCHANGED <<where, straddled, cutoff, excused, granted>>
    /\ Runner!LogoutFails(p)

\* An answer nobody waits for any more.
StrayStep(t) ==
    /\ UNCHANGED <<store, where, straddled, cutoff, excused, granted>>
    /\ Runner!StrayGranted(t)

\* Time passes the expiry of an entry, looked at or not.
Expire(b) ==
    /\ store[b] # NoEntry /\ store[b].exp = "future"
    /\ store' = [store EXCEPT ![b].exp = "past"]
    /\ UNCHANGED <<where, straddled, cutoff, excused, granted, runnerVars>>

Flap ==
    /\ where' \in ChainBackends \ {where}
    /\ straddled' = (straddled \/ \E p \in Runs : Renewing(p))
    /\ UNCHANGED <<store, cutoff, excused, granted, runnerVars>>

Next == \/ \E p \in Runs : RunStep(p)
        \/ \E p \in Logouts : LogoutStep(p) \/ LogoutFailsStep(p)
        \/ \E t \in stray : StrayStep(t)
        \/ \E b \in ChainBackends : Expire(b)
        \/ Flap

Spec == Init /\ [][Next]_vars

(***************************************************************************)
(* Properties                                                              *)
(***************************************************************************)

SpentToken(e) == e # NoEntry /\ e.rt \in redeemed

\* A keychain that comes and goes between the renewals does no harm: in neither
\* backend is there a rotated-away refresh token, unless its successor was lost or
\* is about to be saved.  Only one that comes or goes while a run is renewing makes
\* the run save the successor beside the spent token (ChainStore.Save falls back
\* on its own, whatever backend the Load came from; ChainStore.WithLock always
\* takes the file's lock).
SpentTokenOnlyAfterStraddling ==
    ~straddled =>
        \A b \in ChainBackends :
            SpentToken(store[b]) =>
                \/ store[b].rt \in lost
                \/ \E p \in Runs : Runner!Rotating(p) /\ rt[p] = store[b].rt

\* A logout that met no run in progress and reached the keychain is final, whatever
\* the keychain and the runs do afterwards: both backends stay empty, of access tokens
\* too, until the IdP answers a run again, and from then on neither has a refresh
\* token from before (Runner.Logout, ChainStore.Delete).
LogoutIsFinal ==
    ~excused =>
        \A b \in ChainBackends :
            store[b] # NoEntry => granted /\ (store[b].rt = 0 \/ store[b].rt > cutoff)

(***************************************************************************)
(* The inductive invariant behind both                                     *)
(***************************************************************************)

TypeOK ==
    /\ store \in [ChainBackends -> Runner!Entries \cup {NoEntry}]
    /\ where \in ChainBackends
    /\ straddled \in BOOLEAN /\ excused \in BOOLEAN /\ granted \in BOOLEAN
    /\ cutoff \in Nat /\ cutoff <= minted
    /\ Runner!TypeOK

Idle == {"start"} \cup Runner!Ended

\* A process that has not begun or has ended holds no token, and a logout none ever.
IdleInv ==
    \A p \in Runner!Procs :
        /\ pc[p] \in Idle => rt[p] = 0 /\ res[p].rt = 0
        /\ p \in Logouts => pc[p] \in Idle

\* A refresh token that is none, or was issued after the last logout.
Fresh(t) == t = 0 \/ t > cutoff

\* Since that logout nobody holds an older one, in a backend or on the way to it.
FreshInv ==
    ~excused =>
        /\ \A b \in ChainBackends : store[b] # NoEntry => Fresh(store[b].rt)
        /\ \A p \in Runner!Procs : Fresh(rt[p]) /\ Fresh(res[p].rt)

\* Until the IdP answers, the backends are empty and so are the runs' hands: none has
\* found anything to serve or to refresh.
ClearedInv ==
    ~excused /\ ~granted =>
        /\ \A b \in ChainBackends : store[b] = NoEntry
        /\ \A p \in Runs : pc[p] \in Idle \cup {"login"}

LogoutInv == TypeOK /\ IdleInv /\ FreshInv /\ ClearedInv

\* TokenRunner's TokensInv and NewTokenIsPrivate, of both backends: only issued
\* tokens are stored, and not yet the one that a run holds and nobody else knows.
StoredInv ==
    \A b \in ChainBackends : store[b] # NoEntry =>
        /\ store[b].rt <= minted
        /\ \A p \in Runner!Procs : Runner!HoldsNew(p) => store[b].rt # res[p].rt

\* While the keychain does not come or go under a run, the two backends never share
\* a refresh token, and a run that renews one has it from the backend that answers.
SeparateInv ==
    ~straddled =>
        /\ store["keychain"] # NoEntry /\ store["file"] # NoEntry =>
             store["keychain"].rt # store["file"].rt \/ store["file"].rt = 0
        /\ \A p \in Runs, b \in ChainBackends \ {where} :
             Renewing(p) /\ store[b] # NoEntry => store[b].rt # rt[p] \/ rt[p] = 0

SpentInv ==
    /\ Runner!LockInv /\ Runner!TokensInv /\ Runner!NewTokenIsPrivate
    /\ Runner!KeptTokenInv
    /\ StoredInv /\ SeparateInv
    /\ SpentTokenOnlyAfterStraddling

IInv == LogoutInv /\ SpentInv

=============================================================================
