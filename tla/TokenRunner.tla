---------------------------- MODULE TokenRunner ----------------------------
(***************************************************************************)
(* Concurrent invocations of oidc-token for one (issuer, client_id)        *)
(* profile: internal/runner, over the Store of internal/cache and an IdP   *)
(* that may rotate the refresh token at every refresh.                     *)
(*                                                                         *)
(* Every member of Runs is one OS process executing runner.Run followed by *)
(* the write of main.run, every member of Logouts one process executing    *)
(* runner.Logout.  Tokens are abstract: a refresh token is a number (0 is  *)
(* the empty string), an access token or an id_token is present or not,    *)
(* and an expiry is unknown, before the skew, or past it.                  *)
(***************************************************************************)
EXTENDS Naturals, FiniteSets

CONSTANTS
    Runs,          \* processes that resolve a token
    Logouts,       \* processes started with --logout
    IDRuns,        \* the runs with --token-type=id_token
    Backend,       \* what serializes and persists: see Backends
    Answers,       \* the responses the IdP may give to a refresh
    LoginAnswers,  \* the responses that may conclude a login
    PriorEntries,  \* what an earlier invocation may have left in the store
    Faults,        \* what may go wrong in this instance: see FaultKinds
    NoEntry        \* the store holds no readable entry: absent or corrupt

Procs == Runs \cup Logouts

\* "file" stands for every store whose WithLock is the flock of the file
\* backend (token-store file and auto); "keychain" locks within one process
\* only; "none" persists nothing.
Backends == {"file", "keychain", "none"}

FaultKinds == {"crash", "read", "save", "lock", "refresh", "login", "delete"}

\* output.Result and, with idt never "bad", cache.Entry.
Results == [at : BOOLEAN, idt : {"none", "good", "bad"}, rt : Nat,
            exp : {"none", "future", "past"}]
Entries == {e \in Results : e.idt # "bad"}

\* A token response: its id_token as the verifier finds it, whether it brings
\* a new refresh token, whether it states an expiry.
AnswerKinds == [idt : {"none", "good", "bad"}, newRT : BOOLEAN,
                exp : {"none", "future"}]

ASSUME RunnerAssumption ==
    /\ Runs \cap Logouts = {}
    /\ IDRuns \subseteq Runs
    /\ Backend \in Backends
    /\ Answers \subseteq AnswerKinds
    /\ LoginAnswers \subseteq AnswerKinds
    /\ Faults \subseteq FaultKinds
    /\ NoEntry \notin Results

\* The refresh token an earlier invocation left, if any, is number 1.
ASSUME PriorAssumption ==
    /\ PriorEntries \subseteq Entries \cup {NoEntry}
    /\ \A e \in PriorEntries \ {NoEntry} : e.rt \in {0, 1}
    /\ PriorEntries # {}
    /\ Backend = "none" => PriorEntries = {NoEntry}

VARIABLES
    entry,     \* the profile's entry in the store
    holders,   \* the processes inside WithLock's fn
    pc,        \* where each process is
    rt,        \* tryRefresh's refreshToken: the stale one, then the one sent
    res,       \* the result a process has in hand
    minted,    \* the refresh tokens the IdP has issued are 1 .. minted
    redeemed,  \* the refresh tokens the IdP has rotated away
    stray,     \* refresh tokens in requests whose sender no longer waits
    lost       \* history: tokens rotated away whose successor was discarded

vars == <<entry, holders, pc, rt, res, minted, redeemed, stray, lost>>

NoResult == [at |-> FALSE, idt |-> "none", rt |-> 0, exp |-> "none"]

\* The control points inside WithLock's fn, the ones where a refresh answer
\* exists and is not persisted yet, and the ends of a process.
Section == {"reread", "sent", "answered", "save", "unlockOK", "unlockErr"}
Unsaved == {"answered", "save"}
Ended == {"printed", "failed", "done", "crashed"}
PCs == {"start", "wantLock", "login", "saveLogin", "output"}
         \cup Section \cup Ended

Locks == Backend = "file"

(***************************************************************************)
(* Pure helpers                                                            *)
(***************************************************************************)

EntryValid(e) ==
    /\ e.at \/ e.idt # "none"
    /\ IF e.exp = "none" THEN e.rt = 0 ELSE e.exp = "future"

Usable == entry # NoEntry /\ EntryValid(entry)

Refreshable == entry # NoEntry /\ entry.rt # 0

\* checkIDToken: a bad id_token is fatal to the caller that asked for one.
IDTokenFatal(p, r) == r.idt = "bad" /\ p \in IDRuns

\* persist: IDTokenError is not stored, and a bad id_token is an empty one.
Persisted(r) == IF r.idt = "bad" THEN [r EXCEPT !.idt = "none"] ELSE r

Stored(r) == IF Backend = "none" THEN entry ELSE Persisted(r)

\* toResult, with t the refresh token of the response.
ResultOf(a, t) == [at |-> TRUE, idt |-> a.idt, rt |-> t, exp |-> a.exp]

\* The refresh token in a response, the next one the IdP issues if any.
NewRT(a) == IF a.newRT THEN minted + 1 ELSE 0

Issue(a) == minted' = IF a.newRT THEN minted + 1 ELSE minted

\* output.Select, for --token-type of process p.
Selected(p) == IF p \in IDRuns THEN res[p].idt = "good" ELSE res[p].at

\* A response without a refresh token keeps the one that was presented, t.
Keeping(t, r) == IF r.rt = 0 THEN [r EXCEPT !.rt = t] ELSE r

\* p's refresh was answered with a new refresh token, which is not stored yet.
Rotating(p) == pc[p] \in Unsaved /\ res[p].rt \notin {0, rt[p]}

\* What is lost when p gives up at this point: the token it rotated away.
LostWith(p) == IF Rotating(p) THEN {rt[p]} ELSE {}

Goto(p, l) == pc' = [pc EXCEPT ![p] = l]

Finish(p, l) == /\ Goto(p, l)
                /\ rt' = [rt EXCEPT ![p] = 0]
                /\ res' = [res EXCEPT ![p] = NoResult]

Init ==
    /\ entry \in PriorEntries
    /\ holders = {}
    /\ pc = [p \in Procs |-> "start"]
    /\ rt = [p \in Procs |-> 0]
    /\ res = [p \in Procs |-> NoResult]
    /\ minted = 1
    /\ redeemed = {}
    /\ stray = {}
    /\ lost = {}

(***************************************************************************)
(* Run: the first Load and what follows from it                            *)
(***************************************************************************)

CacheReadFails(p) ==
    /\ pc[p] = "start" /\ p \in Runs
    /\ "read" \in Faults /\ Backend # "none"
    /\ Finish(p, "failed")
    /\ UNCHANGED <<entry, holders, minted, redeemed, stray, lost>>

ServeCached(p) ==
    /\ pc[p] = "start" /\ p \in Runs
    /\ Usable
    /\ res' = [res EXCEPT ![p] = entry]
    /\ Goto(p, "output")
    /\ UNCHANGED <<entry, holders, rt, minted, redeemed, stray, lost>>

TryRefresh(p) ==
    /\ pc[p] = "start" /\ p \in Runs
    /\ ~Usable /\ Refreshable
    /\ rt' = [rt EXCEPT ![p] = entry.rt]
    /\ Goto(p, "wantLock")
    /\ UNCHANGED <<entry, holders, res, minted, redeemed, stray, lost>>

NothingToRefresh(p) ==
    /\ pc[p] = "start" /\ p \in Runs
    /\ ~Usable /\ ~Refreshable
    /\ Goto(p, "login")
    /\ UNCHANGED <<entry, holders, rt, res, minted, redeemed, stray, lost>>

(***************************************************************************)
(* tryRefresh: the critical section                                        *)
(***************************************************************************)

\* Mutant of AcquireLock: another process's lock is not waited for.
AcquireLockUnguarded(p) ==
    /\ pc[p] = "wantLock"
    /\ holders' = holders \cup {p}
    /\ Goto(p, "reread")
    /\ UNCHANGED <<entry, rt, res, minted, redeemed, stray, lost>>

AcquireLock(p) ==
    /\ pc[p] = "wantLock"
    /\ Locks => holders = {}
    /\ holders' = holders \cup {p}
    /\ Goto(p, "reread")
    /\ UNCHANGED <<entry, rt, res, minted, redeemed, stray, lost>>

\* ErrLockTimeout, or a cache directory that cannot be prepared: Run takes
\* any error of tryRefresh as the signal to log in.
LockFails(p) ==
    /\ pc[p] = "wantLock"
    /\ Locks /\ "lock" \in Faults
    /\ rt' = [rt EXCEPT ![p] = 0]
    /\ Goto(p, "login")
    /\ UNCHANGED <<entry, holders, res, minted, redeemed, stray, lost>>

RereadHit(p) ==
    /\ pc[p] = "reread"
    /\ Usable
    /\ res' = [res EXCEPT ![p] = entry]
    /\ Goto(p, "unlockOK")
    /\ UNCHANGED <<entry, holders, rt, minted, redeemed, stray, lost>>

\* The refresh token that goes to the IdP: the stored one, or the stale copy
\* of the first Load when the re-read finds no entry or fails.
Present(p, t) ==
    /\ rt' = [rt EXCEPT ![p] = t]
    /\ Goto(p, IF t = 0 THEN "unlockErr" ELSE "sent")
    /\ UNCHANGED <<entry, holders, res, minted, redeemed, stray, lost>>

\* Mutant of PresentStored: the re-read entry's refresh token is ignored.
PresentStoredIgnored(p) ==
    /\ pc[p] = "reread"
    /\ entry # NoEntry /\ ~Usable
    /\ Present(p, rt[p])

PresentStored(p) ==
    /\ pc[p] = "reread"
    /\ entry # NoEntry /\ ~Usable
    /\ Present(p, entry.rt)

PresentStale(p) ==
    /\ pc[p] = "reread"
    /\ entry = NoEntry \/ "read" \in Faults
    /\ Present(p, rt[p])

\* The token endpoint grants a live refresh token.  A response with a new
\* refresh token rotates the presented one away.
IdPGrants(p) ==
    /\ pc[p] = "sent"
    /\ rt[p] \notin redeemed
    /\ \E a \in Answers :
         /\ Issue(a)
         /\ redeemed' = IF a.newRT THEN redeemed \cup {rt[p]} ELSE redeemed
         /\ res' = [res EXCEPT ![p] = ResultOf(a, NewRT(a))]
    /\ Goto(p, "answered")
    /\ UNCHANGED <<entry, holders, rt, stray, lost>>

\* An error response or a failed discovery; certain once the token is spent.
RefreshRefused(p) ==
    /\ pc[p] = "sent"
    /\ rt[p] \in redeemed \/ "refresh" \in Faults
    /\ Goto(p, "unlockErr")
    /\ UNCHANGED <<entry, holders, rt, res, minted, redeemed, stray, lost>>

\* refreshTimeout: the request, or its answer, is abandoned on the way.
RefreshTimeout(p) ==
    /\ pc[p] \in {"sent", "answered"}
    /\ "refresh" \in Faults
    /\ stray' = stray \cup (IF pc[p] = "sent" THEN {rt[p]} ELSE {})
    /\ lost' = lost \cup LostWith(p)
    /\ res' = [res EXCEPT ![p] = NoResult]
    /\ Goto(p, "unlockErr")
    /\ UNCHANGED <<entry, holders, rt, minted, redeemed>>

RefreshBadIDToken(p) ==
    /\ pc[p] = "answered"
    /\ IDTokenFatal(p, res[p])
    /\ lost' = lost \cup LostWith(p)
    /\ res' = [res EXCEPT ![p] = NoResult]
    /\ Goto(p, "unlockErr")
    /\ UNCHANGED <<entry, holders, rt, minted, redeemed, stray>>

\* Mutants of RefreshAnswered: an omitted refresh token empties the entry's;
\* a new one is not adopted.
RefreshAnsweredDrops(p) ==
    /\ pc[p] = "answered"
    /\ ~IDTokenFatal(p, res[p])
    /\ Goto(p, "save")
    /\ UNCHANGED <<entry, holders, rt, res, minted, redeemed, stray, lost>>

RefreshAnsweredKeepsOld(p) ==
    /\ pc[p] = "answered"
    /\ ~IDTokenFatal(p, res[p])
    /\ res' = [res EXCEPT ![p] = [res[p] EXCEPT !.rt = rt[p]]]
    /\ Goto(p, "save")
    /\ UNCHANGED <<entry, holders, rt, minted, redeemed, stray, lost>>

RefreshAnswered(p) ==
    /\ pc[p] = "answered"
    /\ ~IDTokenFatal(p, res[p])
    /\ res' = [res EXCEPT ![p] = Keeping(rt[p], res[p])]
    /\ Goto(p, "save")
    /\ UNCHANGED <<entry, holders, rt, minted, redeemed, stray, lost>>

\* Mutant of SaveRefreshed: the renewed tokens are used without being stored.
SaveRefreshedSkipped(p) ==
    /\ pc[p] = "save"
    /\ Goto(p, "unlockOK")
    /\ UNCHANGED <<entry, holders, rt, res, minted, redeemed, stray, lost>>

SaveRefreshed(p) ==
    /\ pc[p] = "save"
    /\ entry' = Stored(res[p])
    /\ Goto(p, "unlockOK")
    /\ UNCHANGED <<holders, rt, res, minted, redeemed, stray, lost>>

SaveRefreshedFails(p) ==
    /\ pc[p] = "save"
    /\ "save" \in Faults
    /\ lost' = lost \cup LostWith(p)
    /\ res' = [res EXCEPT ![p] = NoResult]
    /\ Goto(p, "unlockErr")
    /\ UNCHANGED <<entry, holders, rt, minted, redeemed, stray>>

\* Mutant of Unlock: the error path leaves the lock taken.
UnlockLeaks(p) ==
    /\ pc[p] \in {"unlockOK", "unlockErr"}
    /\ holders' = IF pc[p] = "unlockOK" THEN holders \ {p} ELSE holders
    /\ rt' = [rt EXCEPT ![p] = 0]
    /\ Goto(p, IF pc[p] = "unlockOK" THEN "output" ELSE "login")
    /\ UNCHANGED <<entry, res, minted, redeemed, stray, lost>>

Unlock(p) ==
    /\ pc[p] \in {"unlockOK", "unlockErr"}
    /\ holders' = holders \ {p}
    /\ rt' = [rt EXCEPT ![p] = 0]
    /\ Goto(p, IF pc[p] = "unlockOK" THEN "output" ELSE "login")
    /\ UNCHANGED <<entry, res, minted, redeemed, stray, lost>>

(***************************************************************************)
(* login and the write to stdout                                           *)
(***************************************************************************)

Login(p) ==
    /\ pc[p] = "login"
    /\ \E a \in LoginAnswers :
         LET r == ResultOf(a, NewRT(a))
         IN  /\ Issue(a)
             /\ \/ /\ IDTokenFatal(p, r)
                   /\ Finish(p, "failed")
                \/ /\ ~IDTokenFatal(p, r)
                   /\ res' = [res EXCEPT ![p] = r]
                   /\ Goto(p, "saveLogin")
                   /\ UNCHANGED rt
    /\ UNCHANGED <<entry, holders, redeemed, stray, lost>>

LoginFails(p) ==
    /\ pc[p] = "login"
    /\ "login" \in Faults
    /\ Finish(p, "failed")
    /\ UNCHANGED <<entry, holders, minted, redeemed, stray, lost>>

\* persist after a login takes no lock.
SaveLogin(p) ==
    /\ pc[p] = "saveLogin"
    /\ entry' = Stored(res[p])
    /\ Goto(p, "output")
    /\ UNCHANGED <<holders, rt, res, minted, redeemed, stray, lost>>

SaveLoginFails(p) ==
    /\ pc[p] = "saveLogin"
    /\ "save" \in Faults
    /\ Finish(p, "failed")
    /\ UNCHANGED <<entry, holders, minted, redeemed, stray, lost>>

\* writeResult: exit 0 with the selected token, or exit 1 with nothing.
WriteResult(p) ==
    /\ pc[p] = "output"
    /\ Finish(p, IF Selected(p) THEN "printed" ELSE "failed")
    /\ UNCHANGED <<entry, holders, minted, redeemed, stray, lost>>

(***************************************************************************)
(* Logout, crashes, and the world outside                                  *)
(***************************************************************************)

\* Delete takes no lock.
Logout(p) ==
    /\ pc[p] = "start" /\ p \in Logouts
    /\ entry' = NoEntry
    /\ Goto(p, "done")
    /\ UNCHANGED <<holders, rt, res, minted, redeemed, stray, lost>>

\* In a chain the error may be the other backend's, and the entry gone nonetheless.
LogoutFails(p) ==
    /\ pc[p] = "start" /\ p \in Logouts
    /\ "delete" \in Faults
    /\ entry' \in {entry, NoEntry}
    /\ Goto(p, "failed")
    /\ UNCHANGED <<holders, rt, res, minted, redeemed, stray, lost>>

\* The OS drops the flock of a dead process; its request stays on the wire.
Crash(p) ==
    /\ "crash" \in Faults
    /\ pc[p] \notin Ended
    /\ stray' = stray \cup (IF pc[p] = "sent" THEN {rt[p]} ELSE {})
    /\ lost' = lost \cup LostWith(p)
    /\ holders' = holders \ {p}
    /\ Finish(p, "crashed")
    /\ UNCHANGED <<entry, minted, redeemed>>

\* The IdP handles a request nobody waits for any more; if it rotates the
\* token, the successor reaches no one.
StrayGranted(t) ==
    /\ t \in stray
    /\ \E a \in Answers : a.newRT
    /\ stray' = stray \ {t}
    /\ redeemed' = redeemed \cup {t}
    /\ lost' = IF t \in redeemed THEN lost ELSE lost \cup {t}
    /\ UNCHANGED <<entry, holders, pc, rt, res, minted>>

\* Time passes the stored entry's expiry minus Skew.
Expire ==
    /\ entry # NoEntry
    /\ entry.exp = "future"
    /\ entry' = [entry EXCEPT !.exp = "past"]
    /\ UNCHANGED <<holders, pc, rt, res, minted, redeemed, stray, lost>>

Start(p) == CacheReadFails(p) \/ ServeCached(p) \/ TryRefresh(p)
              \/ NothingToRefresh(p) \/ Logout(p) \/ LogoutFails(p)

WaitLock(p) == AcquireLock(p) \/ LockFails(p)

Refresh(p) == RereadHit(p) \/ PresentStored(p) \/ PresentStale(p)
                \/ IdPGrants(p) \/ RefreshRefused(p) \/ RefreshTimeout(p)
                \/ RefreshBadIDToken(p) \/ RefreshAnswered(p)
                \/ SaveRefreshed(p) \/ SaveRefreshedFails(p) \/ Unlock(p)

LogIn(p) == Login(p) \/ LoginFails(p) \/ SaveLogin(p) \/ SaveLoginFails(p)
              \/ WriteResult(p)

Step(p) == Start(p) \/ WaitLock(p) \/ Refresh(p) \/ LogIn(p)

Next == \/ \E p \in Procs : Step(p) \/ Crash(p)
        \/ \E t \in stray : StrayGranted(t)
        \/ Expire
        \/ /\ \A p \in Procs : pc[p] \in Ended
           /\ UNCHANGED vars

Spec == Init /\ [][Next]_vars

\* Every live process keeps running: a wait for the IdP ends by refreshTimeout
\* or by the grants' own timeouts.  Nobody has to give up waiting for the flock:
\* lockAcquireTimeout may pass, but no wait may depend on it.
FairSpec == Spec /\ \A p \in Procs :
    WF_vars(Start(p) \/ AcquireLock(p) \/ Refresh(p) \/ LogIn(p))

(***************************************************************************)
(* Properties                                                              *)
(***************************************************************************)

TypeOK ==
    /\ entry \in Entries \cup {NoEntry}
    /\ holders \subseteq Procs
    /\ pc \in [Procs -> PCs]
    /\ rt \in [Procs -> Nat]
    /\ res \in [Procs -> Results]
    /\ minted \in Nat
    /\ redeemed \subseteq Nat
    /\ stray \subseteq Nat
    /\ lost \subseteq Nat

\* Two runs are never inside the read-refresh-write section at the same time
\* when the store's lock is the flock (Cache.WithLock, ChainStore.WithLock).
CriticalSectionExclusive ==
    Locks => \A p, q \in Procs :
                pc[p] \in Section /\ pc[q] \in Section => p = q

\* A rotated-away refresh token sits in the store only while the run that
\* rotated it is about to save the successor, or when that successor was
\* discarded: a crash, an abandoned request, a failed save or a fatal id_token
\* between the IdP's answer and persist (tryRefresh).  Stated for stores with
\* the flock, and for any store if every answer rotates.
SpentTokenIsBeingReplacedOrLost ==
    (Locks \/ \A a \in Answers : a.newRT) =>
        (entry # NoEntry /\ entry.rt \in redeemed
           => \/ entry.rt \in lost
              \/ \E p \in Procs : Rotating(p) /\ rt[p] = entry.rt)

\* Nothing disturbs the runs of this instance but, where "lock" is a fault, the
\* wait for the flock: no logouts, a refreshable entry in the store, nobody who
\* insists on an id_token, an issuer whose logins bring a refresh token.
Undisturbed ==
    /\ Locks /\ Faults \subseteq {"lock"} /\ Logouts = {} /\ IDRuns = {}
    /\ \A e \in PriorEntries : e # NoEntry /\ e.rt = 1 /\ e.at
    /\ \A a \in LoginAnswers : a.newRT

\* Undisturbed concurrent runs share the stored refresh token: whoever holds the
\* lock renews it, the others find the renewal or renew the successor.  No refresh
\* is refused, also when a run that gave up on the lock logs in and saves beside
\* them, nobody fails, and nobody logs in who has not given up on the lock
\* (tryRefresh's re-read, login).
ConcurrentRunsConverge ==
    Undisturbed =>
        \A p \in Procs :
            /\ pc[p] \notin {"unlockErr", "failed"}
            /\ "lock" \notin Faults => pc[p] \notin {"login", "saveLogin"}

\* A step of a run inside the section leaves the profile a refresh token.
SectionKeepsRefreshToken ==
    \A p \in Procs :
        (pc[p] \in Section /\ pc'[p] # pc[p] /\ Refreshable) => Refreshable'

\* A refresh never strips the profile of its refresh token: only a login whose
\* issuer returned none, or a logout, does (tryRefresh keeps the old one).
OnlyLoginDropsRefreshToken == [][SectionKeepsRefreshToken]_vars

\* Every invocation ends, whoever else waits, crashes or holds the lock.
EveryInvocationEnds == \A p \in Procs : <>(pc[p] \in Ended)

\* In an instance with no faults, whose logins all bring a good id_token, every
\* run prints the token it was asked for: runner.go:52 has Run stop "at the
\* first step that yields a usable token".
EveryRunYieldsAToken == \A p \in Runs : pc[p] # "failed"

(***************************************************************************)
(* The inductive invariant behind the theorems of TokenRunnerProofs        *)
(***************************************************************************)

LockInv ==
    /\ \A p \in Procs : p \in holders <=> pc[p] \in Section
    /\ CriticalSectionExclusive

\* Only issued tokens circulate, only real ones are sent, redeemed or kept.
TokensInv ==
    /\ entry # NoEntry => entry.rt <= minted
    /\ \A p \in Procs : rt[p] <= minted /\ res[p].rt <= minted
    /\ \A t \in redeemed \cup stray : 0 < t /\ t <= minted
    /\ \A p \in Procs : pc[p] \in {"wantLock", "reread", "sent"} \cup Unsaved
                           => rt[p] # 0
    /\ \A p \in Procs : pc[p] = "save" => res[p].rt # 0
    /\ Backend = "none" => entry = NoEntry

\* p holds a refresh token that only the IdP and p know.
HoldsNew(p) == res[p].rt # 0 /\ (pc[p] = "saveLogin" \/ Rotating(p))

NewTokenIsPrivate ==
    \A p \in Procs : HoldsNew(p) =>
        /\ res[p].rt \notin redeemed \cup stray
        /\ entry # NoEntry => entry.rt # res[p].rt
        /\ \A q \in Procs : rt[q] # res[p].rt
        /\ \A q \in Procs : HoldsNew(q) /\ res[q].rt = res[p].rt => p = q

\* Somebody who is about to keep the token it presented can trust that nobody
\* else replaces it in the store.
KeptTokenInv ==
    (Locks \/ \A a \in Answers : a.newRT) =>
        \A p \in Procs :
            (pc[p] \in Unsaved /\ ~Rotating(p) /\ rt[p] \in redeemed)
                => rt[p] \in lost

RotatingOnlyInv ==
    (\A a \in Answers : a.newRT) =>
        \A p \in Procs : pc[p] \in Unsaved => Rotating(p)

\* What ConcurrentRunsConverge rests on: the section presents a live token.
ConvergeInv ==
    Undisturbed =>
        /\ Refreshable /\ entry.at /\ lost = {} /\ stray = {}
        /\ \A p \in Procs :
              /\ pc[p] = "sent" => rt[p] \notin redeemed
              /\ pc[p] \in Unsaved \cup {"saveLogin", "unlockOK", "output"} => res[p].at
              /\ pc[p] = "saveLogin" => res[p].rt # 0
        /\ ConcurrentRunsConverge

IInv == /\ TypeOK /\ LockInv /\ TokensInv /\ NewTokenIsPrivate
        /\ RotatingOnlyInv /\ KeptTokenInv
        /\ SpentTokenIsBeingReplacedOrLost

=============================================================================
