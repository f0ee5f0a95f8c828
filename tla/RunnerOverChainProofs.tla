----------------------- MODULE RunnerOverChainProofs -----------------------
(***************************************************************************)
(* Theorems about RunnerOverChain, for any number of runs and logouts, any *)
(* IdP, any prior entries and any faults: what a logout clears stays away,  *)
(* and a keychain that comes and goes between the renewals does no harm.   *)
(***************************************************************************)
EXTENDS RunnerOverChain, TLAPS

USE DEF Runner!Procs

Results == Runner!Results
Entries == Runner!Entries

LEMMA NoResultFacts ==
    Runner!NoResult \in Results /\ Runner!NoResult.rt = 0
BY DEF Runner!NoResult, Results, Runner!Results

\* What a token response becomes is a result with the token given (toResult).
LEMMA ResultOfFacts ==
    ASSUME NEW a \in Runner!AnswerKinds, NEW t \in Nat
    PROVE  Runner!ResultOf(a, t) \in Results /\ Runner!ResultOf(a, t).rt = t
BY DEF Runner!AnswerKinds, Runner!ResultOf, Results, Runner!Results

\* persist stores the refresh token it was given.
LEMMA PersistedFacts ==
    ASSUME NEW r \in Results
    PROVE  Runner!Persisted(r) \in Entries /\ Runner!Persisted(r).rt = r.rt
BY DEF Runner!Persisted, Entries, Runner!Entries, Results, Runner!Results

LEMMA StoredFacts ==
    ASSUME TypeOK, NEW b \in ChainBackends, store[b] # NoEntry
    PROVE  store[b] \in Entries /\ store[b] \in Results /\ store[b].rt \in Nat
BY DEF TypeOK, Entries, Results, Runner!Entries, Runner!Results

LEMMA TypesOfParts ==
    ASSUME TypeOK
    PROVE  /\ where \in ChainBackends
           /\ store[where] \in Runner!Entries \cup {NoEntry}
           /\ holders \in SUBSET Runner!Procs
           /\ pc \in [Runner!Procs -> Runner!PCs]
           /\ rt \in [Runner!Procs -> Nat]
           /\ res \in [Runner!Procs -> Results]
           /\ minted \in Nat
           /\ redeemed \in SUBSET Nat /\ stray \in SUBSET Nat /\ lost \in SUBSET Nat
           /\ \A p \in Runner!Procs : res[p].rt \in Nat
<1>1. \A r \in Results : r.rt \in Nat
  BY DEF Results, Runner!Results
<1> QED BY <1>1 DEF TypeOK, Runner!TypeOK, Results

(***************************************************************************)
(* A step of one process                                                   *)
(***************************************************************************)

\* What every step of a run does: only this run moves, into the section when nobody
\* else is there, and it ends with nothing in its hands.
OwnStep(p) ==
    /\ where' = where
    /\ pc' \in [Runner!Procs -> Runner!PCs]
    /\ rt' \in [Runner!Procs -> Nat] /\ res' \in [Runner!Procs -> Results]
    /\ minted' \in Nat /\ minted <= minted'
    /\ \A q \in Runner!Procs \ {p} :
         pc'[q] = pc[q] /\ rt'[q] = rt[q] /\ res'[q] = res[q]
    /\ holders' = IF pc'[p] \in Runner!Section THEN holders \cup {p} ELSE holders \ {p}
    /\ pc'[p] \in Runner!Section => pc[p] \in Runner!Section \/ holders = {}
    /\ pc'[p] \in Idle => rt'[p] = 0 /\ res'[p].rt = 0

\* The kinds of steps, by what they do to the refresh tokens.  Most take nothing but
\* what the answering backend has.
Proceeds(p) ==
    /\ pc[p] \notin Runner!Unsaved
    /\ pc'[p] \notin Runner!Unsaved \cup {"saveLogin"}
    /\ \/ rt'[p] = 0 /\ pc'[p] \notin {"wantLock", "reread", "sent"}
       \/ rt'[p] = rt[p] /\ (pc'[p] \in {"wantLock", "reread", "sent"} => rt[p] # 0)
            /\ (Renewing(p)' => Renewing(p))
       \/ store[where] # NoEntry /\ rt'[p] = store[where].rt
            /\ (pc'[p] \in {"wantLock", "reread", "sent"} => rt'[p] # 0)
    /\ \/ res'[p].rt \in {0, res[p].rt}
       \/ store[where] # NoEntry /\ res'[p].rt = store[where].rt
    /\ UNCHANGED <<store[where], minted, redeemed, stray, lost>>

\* A request is abandoned, its result discarded, or the process dies.
GivesUp(p) ==
    /\ pc'[p] \in {"unlockErr", "crashed"}
    /\ pc'[p] = "unlockErr" => pc[p] \in Runner!Section
    /\ res'[p].rt = 0 /\ rt'[p] \in {0, rt[p]}
    /\ stray' = stray \cup (IF pc[p] = "sent" THEN {rt[p]} ELSE {})
    /\ lost' = lost \cup Runner!LostWith(p)
    /\ UNCHANGED <<store[where], minted, redeemed>>

IsGranted(p) ==
    /\ pc[p] = "sent" /\ pc'[p] = "answered"
    /\ rt[p] \notin redeemed /\ rt'[p] = rt[p]
    /\ \/ res'[p].rt = 0 /\ UNCHANGED <<minted, redeemed>>
       \/ /\ res'[p].rt = minted + 1 /\ minted' = minted + 1
          /\ redeemed' = redeemed \cup {rt[p]}
    /\ UNCHANGED <<store[where], stray, lost>>

Adopts(p) ==
    /\ pc[p] = "answered" /\ pc'[p] = "save" /\ rt'[p] = rt[p]
    /\ res'[p].rt = IF res[p].rt = 0 THEN rt[p] ELSE res[p].rt
    /\ UNCHANGED <<store[where], minted, redeemed, stray, lost>>

LogsIn(p) ==
    /\ pc[p] = "login" /\ pc'[p] \in {"saveLogin", "failed"}
    /\ rt'[p] \in {0, rt[p]}
    /\ \/ res'[p].rt = 0
       \/ res'[p].rt = minted + 1 /\ minted' = minted + 1
    /\ UNCHANGED <<store[where], redeemed, stray, lost>>

Saves(p) ==
    /\ \/ pc[p] = "save" /\ pc'[p] = "unlockOK"
       \/ pc[p] = "saveLogin" /\ pc'[p] = "output"
    /\ rt'[p] = rt[p] /\ res'[p] = res[p]
    /\ store'[where] \in Entries /\ store'[where].rt = res[p].rt
    /\ UNCHANGED <<minted, redeemed, stray, lost>>

Moved(p) ==
    /\ OwnStep(p)
    /\ Proceeds(p) \/ GivesUp(p) \/ IsGranted(p) \/ Adopts(p) \/ LogsIn(p) \/ Saves(p)

\* Every step of a run is of one of these kinds.
LEMMA StepMoves ==
    ASSUME TypeOK, Runner!LockInv, Runner!TokensInv, NEW p \in Runs,
           where' = where, Runner!Step(p) \/ Runner!Crash(p)
    PROVE  Moved(p)
<1> USE DEF Moved, OwnStep, Idle, Runner!PCs, Runner!Section, Runner!Unsaved,
            Runner!Ended, Runner!Goto
<1>0. /\ p \in Runner!Procs /\ p \notin Logouts
      /\ \A q \in Runner!Procs : q \in holders <=> pc[q] \in Runner!Section
      /\ \A r \in Results : r.rt \in Nat
      /\ pc[p] \in {"wantLock", "reread", "sent", "answered", "save"} => rt[p] # 0
    BY ChainAssumption DEF Results, Runner!Results, Runner!LockInv, Runner!TokensInv
<1> HIDE DEF Moved
<1>1. CASE Runner!CacheReadFails(p)
  <2>1. OwnStep(p)
    BY <1>0, <1>1, TypesOfParts, NoResultFacts DEF Runner!CacheReadFails, Runner!Finish
  <2>2. Proceeds(p)
    BY <1>0, <1>1, TypesOfParts, NoResultFacts
       DEF Proceeds, Runner!CacheReadFails, Runner!Finish
  <2> QED BY <2>1, <2>2 DEF Moved
<1>2. CASE Runner!ServeCached(p)
  <2>1. OwnStep(p)
    BY <1>0, <1>2, TypesOfParts, StoredFacts
       DEF Runner!ServeCached, Runner!Usable, Renewing
  <2>2. Proceeds(p)
    BY <1>0, <1>2, TypesOfParts, StoredFacts
       DEF Proceeds, Runner!ServeCached, Runner!Usable, Renewing
  <2> QED BY <2>1, <2>2 DEF Moved
<1>3. CASE Runner!TryRefresh(p)
  <2>1. OwnStep(p)
    BY <1>0, <1>3, TypesOfParts, StoredFacts
       DEF Runner!TryRefresh, Runner!Refreshable, Renewing
  <2>2. Proceeds(p)
    BY <1>0, <1>3, TypesOfParts, StoredFacts
       DEF Proceeds, Runner!TryRefresh, Runner!Refreshable, Renewing
  <2> QED BY <2>1, <2>2 DEF Moved
<1>4. CASE Runner!NothingToRefresh(p)
  <2>1. OwnStep(p)
    BY <1>0, <1>4, TypesOfParts DEF Runner!NothingToRefresh, Renewing
  <2>2. Proceeds(p)
    BY <1>0, <1>4, TypesOfParts DEF Proceeds, Runner!NothingToRefresh, Renewing
  <2> QED BY <2>1, <2>2 DEF Moved
<1>5. CASE Runner!AcquireLock(p)
  <2>1. OwnStep(p)
    BY <1>0, <1>5, TypesOfParts DEF Runner!AcquireLock, Runner!Locks, Renewing
  <2>2. Proceeds(p)
    BY <1>0, <1>5, TypesOfParts DEF Proceeds, Runner!AcquireLock, Runner!Locks, Renewing
  <2> QED BY <2>1, <2>2 DEF Moved
<1>6. CASE Runner!LockFails(p)
  <2>1. OwnStep(p)
    BY <1>0, <1>6, TypesOfParts DEF Runner!LockFails, Renewing
  <2>2. Proceeds(p)
    BY <1>0, <1>6, TypesOfParts DEF Proceeds, Runner!LockFails, Renewing
  <2> QED BY <2>1, <2>2 DEF Moved
<1>7. CASE Runner!RereadHit(p)
  <2>1. OwnStep(p)
    BY <1>0, <1>7, TypesOfParts, StoredFacts DEF Runner!RereadHit, Runner!Usable, Renewing
  <2>2. Proceeds(p)
    BY <1>0, <1>7, TypesOfParts, StoredFacts
       DEF Proceeds, Runner!RereadHit, Runner!Usable, Renewing
  <2> QED BY <2>1, <2>2 DEF Moved
<1>8. CASE Runner!PresentStored(p)
  <2>1. OwnStep(p)
    BY <1>0, <1>8, TypesOfParts, StoredFacts
       DEF Runner!PresentStored, Runner!Present, Renewing
  <2>2. Proceeds(p)
    BY <1>0, <1>8, TypesOfParts, StoredFacts
       DEF Proceeds, Runner!PresentStored, Runner!Present, Renewing
  <2> QED BY <2>1, <2>2 DEF Moved
<1>9. CASE Runner!PresentStale(p)
  <2>1. OwnStep(p)
    BY <1>0, <1>9, TypesOfParts DEF Runner!PresentStale, Runner!Present, Renewing
  <2>2. Proceeds(p)
    BY <1>0, <1>9, TypesOfParts
       DEF Proceeds, Runner!PresentStale, Runner!Present, Renewing
  <2> QED BY <2>1, <2>2 DEF Moved
<1>10. CASE Runner!RefreshRefused(p)
  <2>1. OwnStep(p)
    BY <1>0, <1>10, TypesOfParts DEF Runner!RefreshRefused, Renewing
  <2>2. Proceeds(p)
    BY <1>0, <1>10, TypesOfParts DEF Proceeds, Runner!RefreshRefused, Renewing
  <2> QED BY <2>1, <2>2 DEF Moved
<1>11. CASE Runner!RefreshTimeout(p)
  <2>1. OwnStep(p)
    BY <1>0, <1>11, TypesOfParts, NoResultFacts DEF Runner!RefreshTimeout
  <2>2. GivesUp(p)
    BY <1>0, <1>11, TypesOfParts, NoResultFacts DEF GivesUp, Runner!RefreshTimeout
  <2> QED BY <2>1, <2>2 DEF Moved
<1>12. CASE Runner!RefreshBadIDToken(p)
  <2>1. OwnStep(p)
    BY <1>0, <1>12, TypesOfParts, NoResultFacts
       DEF Runner!RefreshBadIDToken, Runner!IDTokenFatal
  <2>2. GivesUp(p)
    BY <1>0, <1>12, TypesOfParts, NoResultFacts
       DEF GivesUp, Runner!RefreshBadIDToken, Runner!IDTokenFatal
  <2> QED BY <2>1, <2>2 DEF Moved
<1>13. CASE Runner!RefreshAnswered(p)
  <2>1. /\ Runner!Keeping(rt[p], res[p]) \in Results
        /\ Runner!Keeping(rt[p], res[p]).rt = IF res[p].rt = 0 THEN rt[p] ELSE res[p].rt
    BY <1>0, TypesOfParts DEF Runner!Keeping, Results, Runner!Results
  <2>2. OwnStep(p)
    BY <1>0, <1>13, <2>1, TypesOfParts DEF Runner!RefreshAnswered
  <2>3. Adopts(p)
    BY <1>0, <1>13, <2>1, TypesOfParts DEF Adopts, Runner!RefreshAnswered
  <2> QED BY <2>2, <2>3 DEF Moved
<1>14. CASE Runner!SaveRefreshed(p)
  <2>1. OwnStep(p)
    BY <1>0, <1>14, TypesOfParts, PersistedFacts DEF Runner!SaveRefreshed, Runner!Stored
  <2>2. Saves(p)
    BY <1>0, <1>14, TypesOfParts, PersistedFacts
       DEF Saves, Runner!SaveRefreshed, Runner!Stored
  <2> QED BY <2>1, <2>2 DEF Moved
<1>15. CASE Runner!SaveRefreshedFails(p)
  <2>1. OwnStep(p)
    BY <1>0, <1>15, TypesOfParts, NoResultFacts DEF Runner!SaveRefreshedFails
  <2>2. GivesUp(p)
    BY <1>0, <1>15, TypesOfParts, NoResultFacts DEF GivesUp, Runner!SaveRefreshedFails
  <2> QED BY <2>1, <2>2 DEF Moved
<1>16. CASE Runner!Unlock(p)
  <2>1. OwnStep(p)
    BY <1>0, <1>16, TypesOfParts DEF Runner!Unlock, Renewing
  <2>2. Proceeds(p)
    BY <1>0, <1>16, TypesOfParts DEF Proceeds, Runner!Unlock, Renewing
  <2> QED BY <2>1, <2>2 DEF Moved
<1>17. CASE Runner!LoginFails(p)
  <2>1. OwnStep(p)
    BY <1>0, <1>17, TypesOfParts, NoResultFacts DEF Runner!LoginFails, Runner!Finish
  <2>2. Proceeds(p)
    BY <1>0, <1>17, TypesOfParts, NoResultFacts
       DEF Proceeds, Runner!LoginFails, Runner!Finish
  <2> QED BY <2>1, <2>2 DEF Moved
<1>18. CASE Runner!SaveLogin(p)
  <2>1. OwnStep(p)
    BY <1>0, <1>18, TypesOfParts, PersistedFacts DEF Runner!SaveLogin, Runner!Stored
  <2>2. Saves(p)
    BY <1>0, <1>18, TypesOfParts, PersistedFacts
       DEF Saves, Runner!SaveLogin, Runner!Stored
  <2> QED BY <2>1, <2>2 DEF Moved
<1>19. CASE Runner!SaveLoginFails(p)
  <2>1. OwnStep(p)
    BY <1>0, <1>19, TypesOfParts, NoResultFacts DEF Runner!SaveLoginFails, Runner!Finish
  <2>2. Proceeds(p)
    BY <1>0, <1>19, TypesOfParts, NoResultFacts
       DEF Proceeds, Runner!SaveLoginFails, Runner!Finish
  <2> QED BY <2>1, <2>2 DEF Moved
<1>20. CASE Runner!WriteResult(p)
  <2>1. OwnStep(p)
    BY <1>0, <1>20, TypesOfParts, NoResultFacts DEF Runner!WriteResult, Runner!Finish
  <2>2. Proceeds(p)
    BY <1>0, <1>20, TypesOfParts, NoResultFacts
       DEF Proceeds, Runner!WriteResult, Runner!Finish
  <2> QED BY <2>1, <2>2 DEF Moved
<1>21. CASE Runner!Crash(p)
  <2>1. OwnStep(p)
    BY <1>0, <1>21, TypesOfParts, NoResultFacts DEF Runner!Crash, Runner!Finish
  <2>2. GivesUp(p)
    BY <1>0, <1>21, TypesOfParts, NoResultFacts DEF GivesUp, Runner!Crash, Runner!Finish
  <2> QED BY <2>1, <2>2 DEF Moved
<1>22. CASE Runner!IdPGrants(p)
  <2>1. PICK a \in Answers :
           /\ Runner!Issue(a)
           /\ redeemed' = IF a.newRT THEN redeemed \cup {rt[p]} ELSE redeemed
           /\ res' = [res EXCEPT ![p] = Runner!ResultOf(a, Runner!NewRT(a))]
      BY <1>22 DEF Runner!IdPGrants
  <2>2. /\ Runner!NewRT(a) = IF a.newRT THEN minted + 1 ELSE 0
        /\ Runner!NewRT(a) \in Nat /\ minted' \in Nat /\ minted <= minted'
        /\ minted' = IF a.newRT THEN minted + 1 ELSE minted
      BY <2>1, TypesOfParts DEF Runner!NewRT, Runner!Issue
  <2>3. res'[p] \in Results /\ res'[p].rt = Runner!NewRT(a)
        /\ res' \in [Runner!Procs -> Results]
      BY <1>0, <2>1, <2>2, TypesOfParts, ResultOfFacts, ChainAssumption
  <2>4. OwnStep(p)
      BY <1>0, <1>22, <2>1, <2>2, <2>3, TypesOfParts DEF Runner!IdPGrants
  <2>5. IsGranted(p)
      BY <1>0, <1>22, <2>1, <2>2, <2>3, TypesOfParts DEF Runner!IdPGrants, IsGranted
  <2> QED BY <2>4, <2>5 DEF Moved
<1>23. CASE Runner!Login(p)
  <2>1. PICK a \in LoginAnswers :
           /\ Runner!Issue(a)
           /\ \/ Runner!Finish(p, "failed")
              \/ /\ res' = [res EXCEPT ![p] = Runner!ResultOf(a, Runner!NewRT(a))]
                 /\ Runner!Goto(p, "saveLogin")
                 /\ UNCHANGED rt
      BY <1>23 DEF Runner!Login
  <2>2. /\ Runner!NewRT(a) = IF a.newRT THEN minted + 1 ELSE 0
        /\ Runner!NewRT(a) \in Nat /\ minted' \in Nat /\ minted <= minted'
        /\ minted' = IF a.newRT THEN minted + 1 ELSE minted
      BY <2>1, TypesOfParts DEF Runner!NewRT, Runner!Issue
  <2>3. CASE Runner!Finish(p, "failed")
    <3>1. OwnStep(p)
        BY <1>0, <1>23, <2>2, <2>3, TypesOfParts, NoResultFacts
           DEF Runner!Login, Runner!Finish
    <3>2. LogsIn(p)
        BY <1>0, <1>23, <2>2, <2>3, TypesOfParts, NoResultFacts
           DEF Runner!Login, Runner!Finish, LogsIn
    <3> QED BY <3>1, <3>2 DEF Moved
  <2>4. CASE /\ res' = [res EXCEPT ![p] = Runner!ResultOf(a, Runner!NewRT(a))]
             /\ Runner!Goto(p, "saveLogin")
             /\ UNCHANGED rt
    <3>1. res'[p] \in Results /\ res'[p].rt = Runner!NewRT(a)
          /\ res' \in [Runner!Procs -> Results]
        BY <1>0, <2>2, <2>4, TypesOfParts, ResultOfFacts, ChainAssumption
    <3>2. OwnStep(p)
        BY <1>0, <1>23, <2>2, <2>4, <3>1, TypesOfParts DEF Runner!Login
    <3>3. LogsIn(p)
        BY <1>0, <1>23, <2>2, <2>4, <3>1, TypesOfParts DEF Runner!Login, LogsIn
    <3> QED BY <3>2, <3>3 DEF Moved
  <2> QED BY <2>1, <2>3, <2>4
<1> QED
    BY <1>0, <1>1, <1>2, <1>3, <1>4, <1>5, <1>6, <1>7, <1>8, <1>9, <1>10, <1>11, <1>12,
       <1>13, <1>14, <1>15, <1>16, <1>17, <1>18, <1>19, <1>20, <1>21, <1>22, <1>23
    DEF Runner!Step, Runner!Start, Runner!WaitLock, Runner!Refresh, Runner!LogIn,
        Runner!Logout, Runner!LogoutFails

(***************************************************************************)
(* What one step does to the tokens                                        *)
(***************************************************************************)

\* A step of a run changes only the entry of the backend that answers.
LEMMA StoreStep ==
    ASSUME TypeOK, NEW p \in Runs, RunStep(p)
    PROVE  /\ store' \in [ChainBackends -> Runner!Entries \cup {NoEntry}]
           /\ \A b \in ChainBackends \ {where} : store'[b] = store[b]
           /\ store'[where] \in {store[where], Runner!Persisted(res[p])}
           /\ UNCHANGED <<where, straddled, cutoff, excused>>
<1>1. PICK e \in {store[where], Runner!Persisted(res[p])} :
         store' = [store EXCEPT ![where] = e]
  BY DEF RunStep
<1>2. p \in Runner!Procs
  OBVIOUS
<1>3. e \in Runner!Entries \cup {NoEntry}
  BY <1>1, <1>2, TypesOfParts, PersistedFacts DEF Entries
<1> QED BY <1>1, <1>3, TypesOfParts DEF RunStep, TypeOK

\* No step brings a refresh token into play that was not there, but for the IdP's next.
LEMMA Sources ==
    ASSUME TypeOK, NEW p \in Runs, Moved(p)
    PROVE  /\ \/ rt'[p] \in {0, rt[p]}
              \/ store[where] # NoEntry /\ rt'[p] = store[where].rt
           /\ \/ res'[p].rt \in {0, rt[p], res[p].rt, minted + 1}
              \/ store[where] # NoEntry /\ res'[p].rt = store[where].rt
           /\ \/ store'[where] = store[where]
              \/ store'[where] \in Entries /\ store'[where].rt = res[p].rt /\ Saves(p)
BY DEF Moved, OwnStep, Proceeds, GivesUp, IsGranted, Adopts, LogsIn, Saves

\* A token that a run alone knows is the one it knew, or has just been issued to it.
LEMMA HoldsNewStep ==
    ASSUME TypeOK, NEW p \in Runs, Moved(p), NEW q \in Runner!Procs, Runner!HoldsNew(q)'
    PROVE  \/ Runner!HoldsNew(q) /\ res'[q].rt = res[q].rt /\ ~(q = p /\ Saves(p))
           \/ /\ q = p /\ res'[p].rt = minted + 1 /\ minted' = minted + 1
              /\ IsGranted(p) \/ LogsIn(p)
<1> USE DEF Runner!HoldsNew, Runner!Rotating, Runner!Unsaved
<1>1. CASE q # p
  BY <1>1 DEF Moved, OwnStep
<1>2. CASE q = p
  BY <1>2 DEF Moved, Proceeds, GivesUp, IsGranted, Adopts, LogsIn, Saves
<1> QED BY <1>1, <1>2

\* A run that rotated a token goes on with it, loses the successor, or saves it.
LEMMA RotatingStep ==
    ASSUME TypeOK, NEW p \in Runs, Moved(p), NEW q \in Runner!Procs, Runner!Rotating(q)
    PROVE  \/ Runner!Rotating(q)' /\ rt'[q] = rt[q]
           \/ rt[q] \in lost'
           \/ q = p /\ Saves(p) /\ pc[p] = "save"
<1> USE DEF Runner!Rotating, Runner!Unsaved
<1>1. CASE q # p
  BY <1>1 DEF Moved, OwnStep
<1>2. CASE q = p
  BY <1>2 DEF Moved, Proceeds, GivesUp, IsGranted, Adopts, LogsIn, Saves, Runner!LostWith
<1> QED BY <1>1, <1>2

\* What is lost or redeemed stays so, and a run redeems only what it presents.
LEMMA HistoryGrows ==
    ASSUME TypeOK, NEW p \in Runs, Moved(p)
    PROVE  /\ lost \subseteq lost' /\ redeemed \subseteq redeemed'
           /\ redeemed' \subseteq redeemed \cup {rt[p]}
           /\ stray' \subseteq stray \cup {rt[p]}
           /\ redeemed' # redeemed => pc[p] = "sent" /\ IsGranted(p)
           /\ stray' # stray => pc[p] = "sent"
BY DEF Moved, Proceeds, GivesUp, IsGranted, Adopts, LogsIn, Saves

(***************************************************************************)
(* A step of a run keeps the invariant                                     *)
(***************************************************************************)

LEMMA RunMoves ==
    ASSUME IInv, NEW p \in Runs, RunStep(p)
    PROVE  /\ Moved(p) /\ TypeOK /\ p \in Runner!Procs /\ p \notin Logouts
           /\ UNCHANGED <<where, straddled, cutoff, excused>>
BY StepMoves, ChainAssumption DEF IInv, LogoutInv, SpentInv, RunStep

LEMMA RunKeepsTypes ==
    ASSUME IInv, NEW p \in Runs, RunStep(p)
    PROVE  TypeOK'
<1>1. /\ Moved(p) /\ TypeOK /\ p \in Runner!Procs
      /\ UNCHANGED <<where, straddled, cutoff, excused>>
  BY RunMoves
<1>2. store' \in [ChainBackends -> Runner!Entries \cup {NoEntry}]
  BY <1>1, StoreStep
<1>3. OwnStep(p)
  BY <1>1 DEF Moved
<1>4. redeemed' \in SUBSET Nat /\ stray' \in SUBSET Nat /\ holders' \in SUBSET Runner!Procs
  BY <1>1, <1>3, HistoryGrows, TypesOfParts DEF OwnStep
<1>5. lost' \in SUBSET Nat
  <2>1. Runner!LostWith(p) \in SUBSET Nat
    BY <1>1, TypesOfParts DEF Runner!LostWith
  <2> QED BY <1>1, <2>1, TypesOfParts
       DEF Moved, Proceeds, GivesUp, IsGranted, Adopts, LogsIn, Saves
<1>6. Runner!TypeOK'
  <2>1. store'[where'] \in Runner!Entries \cup {NoEntry}
    BY <1>1, <1>2, TypesOfParts
  <2> QED BY <1>3, <1>4, <1>5, <2>1 DEF Runner!TypeOK, OwnStep, Results
<1>7. cutoff' <= minted' /\ cutoff' \in Nat
  BY <1>1, <1>3, TypesOfParts DEF TypeOK, OwnStep
<1>8. granted' \in BOOLEAN
  BY DEF RunStep, IInv, LogoutInv, TypeOK
<1> QED BY <1>1, <1>2, <1>6, <1>7, <1>8, TypesOfParts DEF TypeOK

\* A run that finds both backends empty has nothing to serve, to refresh or to save:
\* it goes on to log in, and has tokens when the IdP has answered.
LEMMA RunKeepsCleared ==
    ASSUME IInv, NEW p \in Runs, RunStep(p)
    PROVE  ClearedInv'
<1>1. /\ Moved(p) /\ TypeOK /\ p \in Runner!Procs
      /\ UNCHANGED <<where, straddled, cutoff, excused>>
      /\ granted' = (granted \/ pc'[p] \in {"answered", "saveLogin"})
  BY RunMoves DEF RunStep
<1> SUFFICES ASSUME ~excused, ~granted, pc'[p] \notin {"answered", "saveLogin"}
             PROVE  /\ \A b \in ChainBackends : store'[b] = NoEntry
                    /\ \A q \in Runs : pc'[q] \in Idle \cup {"login"}
  BY <1>1 DEF ClearedInv
<1>2. /\ \A b \in ChainBackends : store[b] = NoEntry
      /\ \A q \in Runs : pc[q] \in Idle \cup {"login"}
  BY DEF IInv, LogoutInv, ClearedInv
<1>3. store[where] = NoEntry
  BY <1>1, <1>2, TypesOfParts
<1>4. ~Saves(p)
  BY <1>2 DEF Saves, Idle, Runner!Ended
<1>5. \A b \in ChainBackends : store'[b] = NoEntry
  BY <1>1, <1>2, <1>3, <1>4, StoreStep, Sources
<1>6. pc'[p] \in Idle \cup {"login"}
  <2>1. /\ pc' = [pc EXCEPT ![p] = pc'[p]]
        /\ pc \in [Runner!Procs -> Runner!PCs]
    BY <1>1, TypesOfParts DEF Moved, OwnStep
  <2>2. Runner!Step(p) \/ Runner!Crash(p)
    BY DEF RunStep
  <2> QED BY <1>1, <1>2, <1>3, <2>1, <2>2
       DEF Idle, Runner!Ended, Runner!Section, Runner!Unsaved, Runner!Step,
           Runner!Start, Runner!WaitLock, Runner!Refresh, Runner!LogIn,
           Runner!CacheReadFails, Runner!ServeCached, Runner!TryRefresh,
           Runner!NothingToRefresh, Runner!Logout, Runner!LogoutFails,
           Runner!AcquireLock, Runner!LockFails, Runner!RereadHit,
           Runner!PresentStored, Runner!PresentStale, Runner!IdPGrants,
           Runner!RefreshRefused, Runner!RefreshTimeout, Runner!RefreshBadIDToken,
           Runner!RefreshAnswered, Runner!SaveRefreshed, Runner!SaveRefreshedFails,
           Runner!Unlock, Runner!Login, Runner!LoginFails, Runner!SaveLogin,
           Runner!SaveLoginFails, Runner!WriteResult, Runner!Crash,
           Runner!Finish, Runner!Goto, Runner!Usable, Runner!Refreshable
<1>7. \A q \in Runs \ {p} : pc'[q] = pc[q]
  BY <1>1 DEF Moved, OwnStep
<1> QED BY <1>2, <1>5, <1>6, <1>7

LEMMA RunKeepsIdleAndFresh ==
    ASSUME IInv, NEW p \in Runs, RunStep(p)
    PROVE  IdleInv' /\ FreshInv'
<1>1. Moved(p) /\ TypeOK /\ p \in Runner!Procs /\ p \notin Logouts
      /\ UNCHANGED <<where, straddled, cutoff, excused>>
  BY RunMoves
<1>2. OwnStep(p)
  BY <1>1 DEF Moved
<1>3. IdleInv /\ FreshInv
  BY DEF IInv, LogoutInv
<1>4. IdleInv'
  BY <1>1, <1>2, <1>3 DEF IdleInv, OwnStep, Idle
<1>5. FreshInv'
  <2> SUFFICES ASSUME ~excused
               PROVE  /\ \A b \in ChainBackends : store'[b] # NoEntry => Fresh(store'[b].rt)
                      /\ \A q \in Runner!Procs : Fresh(rt'[q]) /\ Fresh(res'[q].rt)
    BY <1>1 DEF FreshInv, Fresh
  <2>1. /\ \A b \in ChainBackends : store[b] # NoEntry => Fresh(store[b].rt)
        /\ \A q \in Runner!Procs : Fresh(rt[q]) /\ Fresh(res[q].rt)
    BY <1>3 DEF FreshInv
  <2>2. Fresh(minted + 1) /\ Fresh(0)
    BY <1>1, TypesOfParts DEF TypeOK, Fresh
  <2>3. \A b \in ChainBackends : store'[b] # NoEntry => Fresh(store'[b].rt)
    BY <1>1, <2>1, StoreStep, Sources
  <2>4. Fresh(rt'[p]) /\ Fresh(res'[p].rt)
    BY <1>1, <2>1, <2>2, Sources, TypesOfParts
  <2>5. \A q \in Runner!Procs : Fresh(rt'[q]) /\ Fresh(res'[q].rt)
    BY <1>2, <2>1, <2>4 DEF OwnStep
  <2> QED BY <2>3, <2>5
<1> QED BY <1>4, <1>5

LEMMA RunKeepsLock ==
    ASSUME IInv, NEW p \in Runs, RunStep(p)
    PROVE  Runner!LockInv'
<1>1. OwnStep(p) /\ p \in Runner!Procs
  BY RunMoves DEF Moved
<1>2. /\ \A q \in Runner!Procs : q \in holders <=> pc[q] \in Runner!Section
      /\ \A q, r \in Runner!Procs :
           pc[q] \in Runner!Section /\ pc[r] \in Runner!Section => q = r
  BY DEF IInv, SpentInv, Runner!LockInv, Runner!CriticalSectionExclusive, Runner!Locks
<1>3. \A q \in Runner!Procs : q \in holders' <=> pc'[q] \in Runner!Section
  BY <1>1, <1>2 DEF OwnStep
<1>4. \A q, r \in Runner!Procs :
        pc'[q] \in Runner!Section /\ pc'[r] \in Runner!Section => q = r
  BY <1>1, <1>2 DEF OwnStep
<1> QED BY <1>3, <1>4
    DEF Runner!LockInv, Runner!CriticalSectionExclusive, Runner!Locks

LEMMA RunKeepsTokens ==
    ASSUME IInv, NEW p \in Runs, RunStep(p)
    PROVE  /\ Runner!TokensInv'
           /\ \A b \in ChainBackends : store'[b] # NoEntry => store'[b].rt <= minted'
<1>1. /\ Moved(p) /\ TypeOK /\ p \in Runner!Procs
      /\ UNCHANGED <<where, straddled, cutoff, excused>>
  BY RunMoves
<1>2. /\ OwnStep(p) /\ minted <= minted' /\ minted \in Nat /\ minted' \in Nat
      /\ \A q \in Runner!Procs : rt[q] \in Nat /\ res[q].rt \in Nat
      /\ \A b \in ChainBackends : store[b] # NoEntry => store[b].rt \in Nat
  BY <1>1, TypesOfParts, StoredFacts DEF Moved, OwnStep
<1>3. /\ \A q \in Runner!Procs : rt[q] <= minted /\ res[q].rt <= minted
      /\ \A t \in redeemed \cup stray : 0 < t /\ t <= minted
      /\ \A q \in Runner!Procs :
           pc[q] \in {"wantLock", "reread", "sent"} \cup Runner!Unsaved => rt[q] # 0
      /\ \A q \in Runner!Procs : pc[q] = "save" => res[q].rt # 0
      /\ \A b \in ChainBackends : store[b] # NoEntry => store[b].rt <= minted
  BY DEF IInv, SpentInv, Runner!TokensInv, StoredInv
<1>4. \A b \in ChainBackends : store'[b] # NoEntry => store'[b].rt <= minted'
  BY <1>1, <1>2, <1>3, StoreStep, Sources, TypesOfParts
<1>5. rt'[p] <= minted' /\ res'[p].rt <= minted'
  <2>1. rt'[p] <= minted'
    BY <1>1, <1>2, <1>3, Sources, TypesOfParts
  <2>2. res'[p].rt = minted + 1 => minted' = minted + 1
    <3>1. CASE Proceeds(p)
      BY <1>1, <1>2, <1>3, <3>1, TypesOfParts DEF Proceeds
    <3>2. CASE GivesUp(p)
      BY <1>2, <3>2 DEF GivesUp
    <3>3. CASE IsGranted(p)
      BY <1>2, <3>3 DEF IsGranted
    <3>4. CASE Adopts(p)
      BY <1>1, <1>2, <1>3, <3>4 DEF Adopts
    <3>5. CASE LogsIn(p)
      BY <1>2, <3>5 DEF LogsIn
    <3>6. CASE Saves(p)
      BY <1>1, <1>2, <1>3, <3>6 DEF Saves
    <3> QED BY <1>1, <3>1, <3>2, <3>3, <3>4, <3>5, <3>6 DEF Moved
  <2> QED BY <1>1, <1>2, <1>3, <2>1, <2>2, Sources, TypesOfParts
<1>6. \A q \in Runner!Procs : rt'[q] <= minted' /\ res'[q].rt <= minted'
  BY <1>2, <1>3, <1>5 DEF OwnStep
<1>7. \A t \in redeemed' \cup stray' : 0 < t /\ t <= minted'
  <2>1. pc[p] = "sent" => rt[p] # 0
    BY <1>1, <1>3
  <2> QED BY <1>1, <1>2, <1>3, <2>1, HistoryGrows, TypesOfParts
<1>8. /\ pc'[p] \in {"wantLock", "reread", "sent"} \cup Runner!Unsaved => rt'[p] # 0
      /\ pc'[p] = "save" => res'[p].rt # 0
  <2>1. CASE Proceeds(p)
    BY <2>1 DEF Proceeds, Runner!Unsaved
  <2>2. CASE GivesUp(p) \/ LogsIn(p) \/ Saves(p)
    BY <2>2 DEF GivesUp, LogsIn, Saves, Runner!Unsaved
  <2>3. CASE IsGranted(p) \/ Adopts(p)
    BY <1>1, <1>3, <2>3 DEF IsGranted, Adopts, Runner!Unsaved
  <2> QED BY <1>1, <2>1, <2>2, <2>3 DEF Moved
<1>9. \A q \in Runner!Procs :
        /\ pc'[q] \in {"wantLock", "reread", "sent"} \cup Runner!Unsaved => rt'[q] # 0
        /\ pc'[q] = "save" => res'[q].rt # 0
  BY <1>2, <1>3, <1>8 DEF OwnStep
<1> QED
  <2>1. store'[where'] # NoEntry => store'[where'].rt <= minted'
    BY <1>1, <1>4, TypesOfParts
  <2> QED BY <1>4, <1>6, <1>7, <1>9, <2>1 DEF Runner!TokensInv

\* What a run writes to the answering backend: nothing, or what it alone knows or
\* presented.
LEMMA SavedToken ==
    ASSUME IInv, NEW p \in Runs, Saves(p)
    PROVE  \/ res[p].rt = 0
           \/ Runner!HoldsNew(p)
           \/ /\ pc[p] = "save" /\ res[p].rt = rt[p] /\ ~Runner!Rotating(p)
BY DEF Saves, Runner!HoldsNew, Runner!Rotating, Runner!Unsaved

LEMMA RunKeepsPrivate ==
    ASSUME IInv, NEW p \in Runs, RunStep(p)
    PROVE  Runner!NewTokenIsPrivate' /\ StoredInv'
<1>1. /\ Moved(p) /\ TypeOK /\ p \in Runner!Procs
      /\ UNCHANGED <<where, straddled, cutoff, excused>>
  BY RunMoves
<1>2. /\ OwnStep(p) /\ minted \in Nat /\ where \in ChainBackends
      /\ \A q \in Runner!Procs : rt[q] \in Nat /\ res[q].rt \in Nat
      /\ \A b \in ChainBackends : store[b] # NoEntry => store[b].rt \in Nat
  BY <1>1, TypesOfParts, StoredFacts DEF Moved
<1>3. /\ \A q \in Runner!Procs : rt[q] <= minted /\ res[q].rt <= minted
      /\ \A t \in redeemed \cup stray : 0 < t /\ t <= minted
      /\ \A b \in ChainBackends : store[b] # NoEntry => store[b].rt <= minted
  BY DEF IInv, SpentInv, Runner!TokensInv, StoredInv
<1>4. ASSUME NEW q \in Runner!Procs, Runner!HoldsNew(q)
      PROVE  /\ res[q].rt # 0 /\ res[q].rt \notin redeemed \cup stray
             /\ \A b \in ChainBackends : store[b] # NoEntry => store[b].rt # res[q].rt
             /\ \A r \in Runner!Procs : rt[r] # res[q].rt
             /\ \A r \in Runner!Procs :
                  Runner!HoldsNew(r) /\ res[r].rt = res[q].rt => q = r
  BY <1>4 DEF IInv, SpentInv, Runner!NewTokenIsPrivate, StoredInv, Runner!HoldsNew
<1>5. ASSUME NEW q \in Runner!Procs, Runner!HoldsNew(q)'
      PROVE  /\ res'[q].rt \notin redeemed' \cup stray'
             /\ \A b \in ChainBackends : store'[b] # NoEntry => store'[b].rt # res'[q].rt
             /\ \A r \in Runner!Procs : rt'[r] # res'[q].rt
             /\ \A r \in Runner!Procs :
                  Runner!HoldsNew(r)' /\ res'[r].rt = res'[q].rt => q = r
  <2>1. CASE Runner!HoldsNew(q) /\ res'[q].rt = res[q].rt /\ ~(q = p /\ Saves(p))
    <3>1. res[q].rt \notin redeemed' \cup stray'
      BY <1>1, <1>4, <2>1, HistoryGrows
    <3>2. \A b \in ChainBackends : store'[b] # NoEntry => store'[b].rt # res[q].rt
      <4>1. Saves(p) => res[p].rt # res[q].rt
        BY <1>1, <1>4, <2>1, SavedToken
      <4> QED BY <1>1, <1>2, <1>4, <2>1, <4>1, StoreStep, Sources
    <3>3. \A r \in Runner!Procs : rt'[r] # res[q].rt
      <4>1. rt'[p] # res[q].rt
        BY <1>1, <1>2, <1>4, <2>1, Sources
      <4> QED BY <1>2, <1>4, <2>1, <4>1 DEF OwnStep
    <3>4. ASSUME NEW r \in Runner!Procs, Runner!HoldsNew(r)', res'[r].rt = res'[q].rt
          PROVE  q = r
      <4>1. res'[r].rt # minted + 1
        BY <1>2, <1>3, <2>1, <3>4
      <4>2. Runner!HoldsNew(r) /\ res'[r].rt = res[r].rt
        BY <1>1, <3>4, <4>1, HoldsNewStep
      <4> QED BY <1>4, <2>1, <3>4, <4>2
    <3> QED BY <2>1, <3>1, <3>2, <3>3, <3>4
  <2>2. CASE /\ q = p /\ res'[p].rt = minted + 1 /\ minted' = minted + 1
             /\ IsGranted(p) \/ LogsIn(p)
    <3>1. res'[q].rt \notin redeemed' \cup stray'
      BY <1>1, <1>2, <1>3, <2>2, HistoryGrows, TypesOfParts
    <3>2. \A b \in ChainBackends : store'[b] = store[b]
      BY <1>1, <2>2, StoreStep DEF IsGranted, LogsIn
    <3>3. rt'[p] \in {0, rt[p]}
      BY <2>2 DEF IsGranted, LogsIn
    <3>4. \A r \in Runner!Procs : rt'[r] # res'[q].rt
      BY <1>1, <1>2, <1>3, <2>2, <3>3 DEF OwnStep
    <3>5. \A b \in ChainBackends : store'[b] # NoEntry => store'[b].rt # res'[q].rt
      BY <1>2, <1>3, <2>2, <3>2
    <3>6. \A r \in Runner!Procs : res'[r].rt = res'[q].rt => q = r
      BY <1>2, <1>3, <2>2 DEF OwnStep
    <3> QED BY <3>1, <3>4, <3>5, <3>6
  <2> QED BY <1>1, <1>5, <2>1, <2>2, HoldsNewStep
<1>6. Runner!NewTokenIsPrivate'
  <2>1. where' \in ChainBackends
    BY <1>1, <1>2
  <2> QED BY <1>5, <2>1 DEF Runner!NewTokenIsPrivate
<1> QED BY <1>5, <1>6, RunKeepsTokens DEF StoredInv

\* Nobody else is in the section while a run holds the answer to its refresh.
LEMMA RunKeepsKept ==
    ASSUME IInv, NEW p \in Runs, RunStep(p)
    PROVE  Runner!KeptTokenInv'
<1>1. Moved(p) /\ TypeOK /\ p \in Runner!Procs
  BY RunMoves
<1>2. /\ OwnStep(p) /\ minted \in Nat
      /\ \A q \in Runner!Procs : rt[q] \in Nat /\ rt[q] <= minted
  BY <1>1, TypesOfParts DEF Moved, IInv, SpentInv, Runner!TokensInv
<1>3. ASSUME NEW q \in Runner!Procs, pc[q] \in Runner!Unsaved, ~Runner!Rotating(q),
             rt[q] \in redeemed
      PROVE  rt[q] \in lost
  BY <1>3 DEF IInv, SpentInv, Runner!KeptTokenInv, Runner!Locks
<1>4. \A q, r \in Runner!Procs :
        pc[q] \in Runner!Section /\ pc[r] \in Runner!Section => q = r
  BY DEF IInv, SpentInv, Runner!LockInv, Runner!CriticalSectionExclusive, Runner!Locks
<1>5. SUFFICES ASSUME NEW q \in Runner!Procs, pc'[q] \in Runner!Unsaved,
                      ~Runner!Rotating(q)', rt'[q] \in redeemed'
               PROVE  rt'[q] \in lost'
  BY DEF Runner!KeptTokenInv
<1>6. CASE q # p
  <2>1. pc[q] \in Runner!Unsaved /\ ~Runner!Rotating(q) /\ rt'[q] = rt[q]
    BY <1>2, <1>5, <1>6 DEF OwnStep, Runner!Rotating
  <2>2. redeemed' = redeemed
    BY <1>1, <1>4, <1>6, <2>1, HistoryGrows DEF Runner!Unsaved, Runner!Section
  <2> QED BY <1>1, <1>3, <1>5, <2>1, <2>2, HistoryGrows
<1>7. CASE q = p
  <2>1. CASE IsGranted(p)
    BY <1>2, <1>5, <1>7, <2>1 DEF IsGranted, Runner!Rotating
  <2>2. CASE Adopts(p)
    BY <1>2, <1>3, <1>5, <1>7, <2>2 DEF Adopts, Runner!Rotating, Runner!Unsaved
  <2>3. CASE Proceeds(p) \/ GivesUp(p) \/ LogsIn(p) \/ Saves(p)
    BY <1>5, <1>7, <2>3 DEF Proceeds, GivesUp, LogsIn, Saves, Runner!Unsaved
  <2> QED BY <1>1, <2>1, <2>2, <2>3 DEF Moved
<1> QED BY <1>6, <1>7

\* A run renews what the answering backend has, so what it saves there is not in
\* the other one.
LEMMA RunKeepsSeparate ==
    ASSUME IInv, NEW p \in Runs, RunStep(p)
    PROVE  SeparateInv'
<1>1. /\ Moved(p) /\ TypeOK /\ p \in Runner!Procs /\ where \in ChainBackends
      /\ UNCHANGED <<where, straddled, cutoff, excused>>
  BY RunMoves, TypesOfParts
<1>2. OwnStep(p)
  BY <1>1 DEF Moved
<1>3. SUFFICES ASSUME ~straddled
               PROVE  /\ \A o \in ChainBackends \ {where} :
                           store'[where] # NoEntry /\ store[o] # NoEntry =>
                             store'[where].rt # store[o].rt \/ store[o].rt = 0
                      /\ \A q \in Runs, o \in ChainBackends \ {where} :
                           Renewing(q)' /\ store[o] # NoEntry =>
                             store[o].rt # rt'[q] \/ rt'[q] = 0
  <2>1. \A o \in ChainBackends \ {where} : store'[o] = store[o]
    BY <1>1, StoreStep
  <2> QED BY <1>1, <1>3, <2>1 DEF SeparateInv, ChainBackends
<1>4. ASSUME NEW o \in ChainBackends \ {where}, store[o] # NoEntry
      PROVE  /\ store[where] # NoEntry => store[where].rt # store[o].rt \/ store[o].rt = 0
             /\ \A q \in Runs : Renewing(q) => store[o].rt # rt[q] \/ rt[q] = 0
             /\ \A q \in Runner!Procs : Runner!HoldsNew(q) => store[o].rt # res[q].rt
  BY <1>1, <1>3, <1>4 DEF IInv, SpentInv, SeparateInv, StoredInv, ChainBackends
<1>5. ASSUME NEW o \in ChainBackends \ {where}, store'[where] # NoEntry, store[o] # NoEntry
      PROVE  store'[where].rt # store[o].rt \/ store[o].rt = 0
  <2>1. CASE store'[where] = store[where]
    BY <1>4, <1>5, <2>1
  <2>2. CASE store'[where].rt = res[p].rt /\ Saves(p)
    <3>1. pc[p] = "save" => Renewing(p)
      BY DEF Renewing, Runner!Section
    <3> QED BY <1>1, <1>4, <1>5, <2>2, <3>1, SavedToken
  <2> QED BY <1>1, <2>1, <2>2, Sources
<1>6. ASSUME NEW q \in Runs, NEW o \in ChainBackends \ {where}, Renewing(q)',
             store[o] # NoEntry
      PROVE  store[o].rt # rt'[q] \/ rt'[q] = 0
  <2>1. CASE q # p
    BY <1>2, <1>4, <1>6, <2>1 DEF OwnStep, Renewing
  <2>2. CASE q = p
    <3>1. \/ rt'[p] = 0
          \/ rt'[p] = rt[p] /\ Renewing(p)
          \/ store[where] # NoEntry /\ rt'[p] = store[where].rt
      <4>1. CASE Proceeds(p)
        BY <1>6, <2>2, <4>1 DEF Proceeds
      <4>2. CASE GivesUp(p) \/ IsGranted(p) \/ Adopts(p) \/ LogsIn(p) \/ Saves(p)
        BY <1>6, <2>2, <4>2
           DEF GivesUp, IsGranted, Adopts, LogsIn, Saves, Renewing, Runner!Section
      <4> QED BY <1>1, <4>1, <4>2 DEF Moved
    <3> QED BY <1>4, <1>6, <2>2, <3>1
  <2> QED BY <2>1, <2>2
<1> QED BY <1>5, <1>6

LEMMA RunKeepsSpent ==
    ASSUME IInv, NEW p \in Runs, RunStep(p)
    PROVE  SpentTokenOnlyAfterStraddling'
<1>1. /\ Moved(p) /\ TypeOK /\ p \in Runner!Procs /\ where \in ChainBackends
      /\ UNCHANGED <<where, straddled, cutoff, excused>>
  BY RunMoves, TypesOfParts
<1>2. SUFFICES ASSUME ~straddled, NEW b \in ChainBackends, store'[b] # NoEntry,
                      store'[b].rt \in redeemed'
               PROVE  \/ store'[b].rt \in lost'
                      \/ \E r \in Runs : Runner!Rotating(r)' /\ rt'[r] = store'[b].rt
  BY <1>1 DEF SpentTokenOnlyAfterStraddling, SpentToken
<1>3. /\ store[b] # NoEntry /\ store[b].rt \in redeemed =>
           \/ store[b].rt \in lost
           \/ \E r \in Runs : Runner!Rotating(r) /\ rt[r] = store[b].rt
      /\ \A r \in Runs : pc[r] \in {"sent"} \cup Runner!Unsaved => rt[r] # 0
      /\ rt[p] <= minted /\ rt[p] \in Nat /\ minted \in Nat
      /\ 0 \notin redeemed
  BY <1>1, <1>2, TypesOfParts
     DEF IInv, SpentInv, SpentTokenOnlyAfterStraddling, SpentToken, Runner!TokensInv
<1>4. CASE store'[b] = store[b]
  <2>1. CASE store[b].rt \in lost
    BY <1>1, <1>4, <2>1, HistoryGrows
  <2>2. ASSUME NEW r \in Runs, Runner!Rotating(r), rt[r] = store[b].rt
        PROVE  \/ store[b].rt \in lost'
               \/ Runner!Rotating(r)' /\ rt'[r] = store[b].rt
    <3>1. ~(r = p /\ Saves(p) /\ pc[p] = "save")
      <4>1. SUFFICES ASSUME r = p, Saves(p), pc[p] = "save"
                     PROVE  FALSE
        OBVIOUS
      <4>2. CASE b = where
        BY <1>4, <2>2, <4>1, <4>2 DEF Saves, Runner!Rotating
      <4>3. CASE b # where
        <5>1. Renewing(p)
          BY <4>1 DEF Renewing, Runner!Section
        <5>2. store[b].rt # rt[p] \/ rt[p] = 0
          BY <1>2, <1>4, <4>3, <5>1 DEF IInv, SpentInv, SeparateInv
        <5> QED BY <1>3, <2>2, <4>1, <5>2 DEF Runner!Unsaved
      <4> QED BY <4>2, <4>3
    <3> QED BY <1>1, <2>2, <3>1, RotatingStep
  <2>3. CASE store[b].rt \notin redeemed
    <3>1. IsGranted(p) /\ store[b].rt = rt[p] /\ redeemed' # redeemed
      BY <1>1, <1>2, <1>4, <2>3, HistoryGrows
    <3>2. Runner!Rotating(p)' /\ rt'[p] = rt[p]
      BY <1>3, <3>1 DEF IsGranted, Runner!Rotating, Runner!Unsaved
    <3> QED BY <1>4, <3>1, <3>2
  <2> QED BY <1>2, <1>3, <1>4, <2>1, <2>2, <2>3
<1>5. CASE b = where /\ store'[b].rt = res[p].rt /\ Saves(p)
  <2>1. redeemed' = redeemed /\ lost' = lost
    BY <1>5 DEF Saves
  <2>2. Runner!HoldsNew(p) => res[p].rt \notin redeemed
    BY <1>1 DEF IInv, SpentInv, Runner!NewTokenIsPrivate
  <2>3. /\ pc[p] = "save" /\ res[p].rt = rt[p] /\ ~Runner!Rotating(p)
    BY <1>2, <1>3, <1>5, <2>1, <2>2, SavedToken
  <2>4. rt[p] \in lost
    BY <1>1, <1>2, <1>5, <2>1, <2>3
       DEF IInv, SpentInv, Runner!KeptTokenInv, Runner!Locks, Runner!Unsaved
  <2> QED BY <1>5, <2>1, <2>3, <2>4
<1> QED BY <1>1, <1>4, <1>5, StoreStep, Sources

LEMMA RunKeepsInv ==
    ASSUME IInv, NEW p \in Runs, RunStep(p)
    PROVE  IInv'
BY RunKeepsTypes, RunKeepsCleared, RunKeepsIdleAndFresh, RunKeepsLock, RunKeepsTokens, RunKeepsPrivate,
   RunKeepsKept, RunKeepsSeparate, RunKeepsSpent DEF IInv, LogoutInv, SpentInv

(***************************************************************************)
(* Every other step keeps the invariant                                    *)
(***************************************************************************)

LEMMA IInvInit == Init => IInv
<1> SUFFICES ASSUME Init PROVE IInv
  OBVIOUS
<1>1. /\ store \in [ChainBackends -> Runner!Entries \cup {NoEntry}]
      /\ \A b \in ChainBackends : store[b] # NoEntry => store[b].rt \in {0, 1}
      /\ where \in ChainBackends
  BY ChainAssumption DEF Init
<1>2. /\ holders = {} /\ redeemed = {} /\ stray = {} /\ lost = {}
      /\ pc = [p \in Runner!Procs |-> "start"] /\ rt = [p \in Runner!Procs |-> 0]
      /\ res = [p \in Runner!Procs |-> Runner!NoResult]
      /\ minted = 1 /\ cutoff = 0 /\ straddled = FALSE /\ excused = FALSE
      /\ granted = TRUE
  BY DEF Init, Runner!Init
<1>3. \A p \in Runner!Procs : pc[p] = "start" /\ rt[p] = 0 /\ res[p].rt = 0
  BY <1>2, NoResultFacts
<1>4. TypeOK
  <2>1. res \in [Runner!Procs -> Runner!Results]
    BY <1>2, NoResultFacts DEF Results
  <2>2. pc \in [Runner!Procs -> Runner!PCs] /\ rt \in [Runner!Procs -> Nat]
    BY <1>2 DEF Runner!PCs
  <2>3. store[where] \in Runner!Entries \cup {NoEntry}
    BY <1>1
  <2>4. Runner!TypeOK
    BY <1>2, <2>1, <2>2, <2>3 DEF Runner!TypeOK
  <2>5. cutoff \in Nat /\ cutoff <= minted
    BY <1>2
  <2>6. straddled \in BOOLEAN /\ excused \in BOOLEAN /\ granted \in BOOLEAN
    BY <1>2
  <2> QED BY <1>1, <2>4, <2>5, <2>6 DEF TypeOK
<1>5. IdleInv
  BY <1>3 DEF IdleInv, Idle
<1>6. FreshInv /\ ClearedInv
  BY <1>1, <1>2, <1>3 DEF FreshInv, Fresh, ClearedInv
<1>7. Runner!LockInv
  BY <1>2, <1>3
     DEF Runner!LockInv, Runner!CriticalSectionExclusive, Runner!Locks, Runner!Section
<1>8. Runner!TokensInv
  BY <1>1, <1>2, <1>3 DEF Runner!TokensInv, Runner!Unsaved
<1>9. Runner!NewTokenIsPrivate /\ StoredInv
  BY <1>1, <1>2, <1>3 DEF Runner!NewTokenIsPrivate, Runner!HoldsNew, StoredInv
<1>10. Runner!KeptTokenInv
  BY <1>3 DEF Runner!KeptTokenInv, Runner!Unsaved
<1>11. SeparateInv
  BY <1>3 DEF Init, SeparateInv, ChainBackends, Renewing, Runner!Section
<1>12. SpentTokenOnlyAfterStraddling
  BY <1>2 DEF SpentTokenOnlyAfterStraddling, SpentToken
<1> QED BY <1>4, <1>5, <1>6, <1>7, <1>8, <1>9, <1>10, <1>11, <1>12
       DEF IInv, LogoutInv, SpentInv

\* A logout that is not excused finds nobody in progress and clears both backends;
\* done or failed, it touches no run.
LEMMA LogoutKeepsInv ==
    ASSUME IInv, NEW p \in Logouts, LogoutStep(p) \/ LogoutFailsStep(p)
    PROVE  IInv'
<1>1. /\ p \in Runner!Procs /\ p \notin Runs /\ TypeOK /\ IdleInv /\ FreshInv
      /\ UNCHANGED <<where, straddled, holders, rt, res, minted, redeemed, stray, lost>>
      /\ pc' = [pc EXCEPT ![p] = pc'[p]] /\ pc'[p] \in {"done", "failed"}
      /\ pc[p] = "start"
      /\ \A b \in ChainBackends : store'[b] \in {store[b], NoEntry}
      /\ store' \in [ChainBackends -> Runner!Entries \cup {NoEntry}]
  BY ChainAssumption DEF IInv, LogoutInv, TypeOK, Runner!TypeOK, LogoutStep,
     LogoutFailsStep, Runner!Logout, Runner!LogoutFails, Runner!Goto
<1>2. /\ \A q \in Runner!Procs \ {p} : pc'[q] = pc[q]
      /\ pc' \in [Runner!Procs -> Runner!PCs]
      /\ where' \in ChainBackends
  BY <1>1, TypesOfParts DEF Runner!PCs, Runner!Ended
<1>3. TypeOK'
  <2>1. cutoff' \in {cutoff, minted} /\ excused' \in BOOLEAN /\ granted' \in BOOLEAN
    BY <1>1 DEF LogoutStep, LogoutFailsStep, TypeOK
  <2>2. Runner!TypeOK'
    BY <1>1, <1>2, TypesOfParts DEF Runner!TypeOK, Results
  <2>3. minted \in Nat /\ cutoff \in Nat /\ cutoff <= minted /\ straddled \in BOOLEAN
    BY <1>1, TypesOfParts DEF TypeOK
  <2> QED BY <1>1, <1>2, <2>1, <2>2, <2>3 DEF TypeOK
<1>4. IdleInv'
  BY <1>1, <1>2 DEF IdleInv, Idle, Runner!Ended
<1>5. FreshInv'
  <2>1. CASE LogoutStep(p)
    <3> SUFFICES ASSUME ~excused'
                 PROVE  /\ \A b \in ChainBackends : store'[b] = NoEntry
                        /\ \A q \in Runner!Procs : rt'[q] = 0 /\ res'[q].rt = 0
      BY DEF FreshInv, Fresh
    <3>1. where # "file" /\ \A q \in Runs : ~InProgress(q)
      BY <2>1 DEF LogoutStep
    <3>2. \A b \in ChainBackends : store'[b] = NoEntry
      BY <1>1, <2>1, <3>1, TypesOfParts DEF LogoutStep, Reached, ChainBackends
    <3>3. \A q \in Runner!Procs : rt[q] = 0 /\ res[q].rt = 0
      BY <1>1, <3>1 DEF IdleInv, InProgress, Idle
    <3> QED BY <1>1, <3>2, <3>3
  <2>2. CASE LogoutFailsStep(p)
    BY <1>1, <2>2 DEF FreshInv, Fresh, LogoutFailsStep
  <2> QED BY <2>1, <2>2
<1>14. ClearedInv'
  <2>1. CASE LogoutStep(p)
    <3> SUFFICES ASSUME ~excused'
                 PROVE  /\ \A b \in ChainBackends : store'[b] = NoEntry
                        /\ \A q \in Runs : pc'[q] \in Idle
      BY DEF ClearedInv
    <3>1. where # "file" /\ \A q \in Runs : ~InProgress(q)
      BY <2>1 DEF LogoutStep
    <3>2. \A b \in ChainBackends : store'[b] = NoEntry
      BY <1>1, <2>1, <3>1, TypesOfParts DEF LogoutStep, Reached, ChainBackends
    <3> QED BY <1>1, <1>2, <3>1, <3>2 DEF InProgress, Idle
  <2>2. CASE LogoutFailsStep(p)
    BY <1>1, <1>2, <2>2 DEF IInv, LogoutInv, ClearedInv, LogoutFailsStep
  <2> QED BY <2>1, <2>2
<1>6. /\ \A q \in Runner!Procs : pc'[q] \in Runner!Section <=> pc[q] \in Runner!Section
      /\ \A q \in Runner!Procs, l \in {"wantLock", "saveLogin"} \cup Runner!Section :
           pc'[q] = l <=> pc[q] = l
      /\ \A q \in Runner!Procs : Runner!Rotating(q)' <=> Runner!Rotating(q)
      /\ \A q \in Runner!Procs : Runner!HoldsNew(q)' <=> Runner!HoldsNew(q)
      /\ \A q \in Runs : Renewing(q)' <=> Renewing(q)
  <2>1. \A q \in Runner!Procs, l \in {"wantLock", "saveLogin"} \cup Runner!Section :
          pc'[q] = l <=> pc[q] = l
    BY <1>1, <1>2 DEF Runner!Section
  <2> QED BY <1>1, <2>1
       DEF Runner!Section, Runner!Rotating, Runner!HoldsNew, Runner!Unsaved, Renewing
<1>7. Runner!LockInv'
  BY <1>1, <1>6 DEF IInv, SpentInv, Runner!LockInv, Runner!CriticalSectionExclusive
<1>8. /\ Runner!TokensInv /\ Runner!NewTokenIsPrivate /\ Runner!KeptTokenInv
      /\ StoredInv /\ SeparateInv /\ SpentTokenOnlyAfterStraddling
  BY DEF IInv, SpentInv
<1>9. Runner!TokensInv'
  BY <1>1, <1>2, <1>6, <1>8 DEF Runner!TokensInv, Runner!Section, Runner!Unsaved
<1>10. Runner!NewTokenIsPrivate' /\ StoredInv'
  BY <1>1, <1>2, <1>6, <1>8 DEF Runner!NewTokenIsPrivate, StoredInv
<1>11. Runner!KeptTokenInv'
  BY <1>1, <1>6, <1>8 DEF Runner!KeptTokenInv, Runner!Unsaved, Runner!Section, Runner!Locks
<1>12. SeparateInv'
  BY <1>1, <1>6, <1>8 DEF SeparateInv, ChainBackends
<1>13. SpentTokenOnlyAfterStraddling'
  BY <1>1, <1>6, <1>8 DEF SpentTokenOnlyAfterStraddling, SpentToken
<1> QED BY <1>3, <1>4, <1>5, <1>7, <1>9, <1>10, <1>11, <1>12, <1>13, <1>14
       DEF IInv, LogoutInv, SpentInv

\* The IdP answers a request nobody waits for: the token it rotates away is lost.
LEMMA StrayKeepsInv ==
    ASSUME IInv, NEW t \in stray, StrayStep(t)
    PROVE  IInv'
<1>1. /\ UNCHANGED <<store, where, straddled, cutoff, excused, granted>>
      /\ UNCHANGED <<holders, pc, rt, res, minted>>
      /\ stray' = stray \ {t} /\ redeemed' = redeemed \cup {t}
      /\ lost' = IF t \in redeemed THEN lost ELSE lost \cup {t}
  BY DEF StrayStep, Runner!StrayGranted
<1>2. /\ \A q \in Runner!Procs : Runner!Rotating(q)' <=> Runner!Rotating(q)
      /\ \A q \in Runner!Procs : Runner!HoldsNew(q)' <=> Runner!HoldsNew(q)
      /\ \A q \in Runs : Renewing(q)' <=> Renewing(q)
  BY <1>1 DEF Runner!Rotating, Runner!HoldsNew, Renewing
<1>3. /\ TypeOK /\ IdleInv /\ FreshInv /\ ClearedInv /\ Runner!LockInv /\ Runner!TokensInv
      /\ Runner!NewTokenIsPrivate /\ Runner!KeptTokenInv
      /\ StoredInv /\ SeparateInv /\ SpentTokenOnlyAfterStraddling
  BY DEF IInv, LogoutInv, SpentInv
<1>4. TypeOK' /\ IdleInv' /\ FreshInv' /\ ClearedInv'
  BY <1>1, <1>3, TypesOfParts
     DEF TypeOK, Runner!TypeOK, IdleInv, FreshInv, Fresh, ClearedInv
<1>5. Runner!LockInv'
  BY <1>1, <1>3 DEF Runner!LockInv, Runner!CriticalSectionExclusive
<1>6. Runner!TokensInv'
  BY <1>1, <1>3 DEF Runner!TokensInv
<1>7. Runner!NewTokenIsPrivate' /\ StoredInv' /\ SeparateInv'
  BY <1>1, <1>2, <1>3 DEF Runner!NewTokenIsPrivate, StoredInv, SeparateInv
<1>8. Runner!KeptTokenInv'
  BY <1>1, <1>2, <1>3 DEF Runner!KeptTokenInv
<1>9. SpentTokenOnlyAfterStraddling'
  BY <1>1, <1>2, <1>3 DEF SpentTokenOnlyAfterStraddling, SpentToken
<1> QED BY <1>4, <1>5, <1>6, <1>7, <1>8, <1>9 DEF IInv, LogoutInv, SpentInv

\* Time and the keychain move no refresh token.  What is said of a run and the
\* answering backend is void once the keychain came or went under a run.
LEMMA WorldKeepsInv ==
    ASSUME IInv, (\E b \in ChainBackends : Expire(b)) \/ Flap \/ UNCHANGED vars
    PROVE  IInv'
<1>1. /\ UNCHANGED <<cutoff, excused, granted>>
      /\ UNCHANGED <<holders, pc, rt, res, minted, redeemed, stray, lost>>
      /\ where' \in ChainBackends
      /\ straddled' = (straddled \/ (where' # where /\ \E p \in Runs : Renewing(p)))
  BY TypesOfParts DEF Expire, Flap, vars, runnerVars, IInv, LogoutInv, TypeOK
<1>2. /\ store' \in [ChainBackends -> Runner!Entries \cup {NoEntry}]
      /\ \A b \in ChainBackends :
           /\ store'[b] = NoEntry <=> store[b] = NoEntry
           /\ store[b] # NoEntry => store'[b].rt = store[b].rt
  <2>1. ASSUME NEW b \in ChainBackends, Expire(b)
        PROVE  /\ store' = [store EXCEPT ![b] = [store[b] EXCEPT !.exp = "past"]]
               /\ store[b] # NoEntry /\ store[b] \in Entries
               /\ store'[b] \in Entries /\ store'[b].rt = store[b].rt
    <3>1. store[b] \in Entries
      BY <2>1, StoredFacts DEF Expire, IInv, LogoutInv
    <3>2. store \in [ChainBackends -> Runner!Entries \cup {NoEntry}]
      BY DEF IInv, LogoutInv, TypeOK
    <3> QED BY <2>1, <3>1, <3>2 DEF Expire, Entries, Runner!Entries, Runner!Results
  <2>2. /\ store \in [ChainBackends -> Runner!Entries \cup {NoEntry}]
        /\ NoEntry \notin Entries
    BY ChainAssumption DEF IInv, LogoutInv, TypeOK, Entries, Runner!Entries
  <2>3. CASE \E b \in ChainBackends : Expire(b)
    BY <2>1, <2>2, <2>3 DEF Entries
  <2>4. CASE Flap \/ UNCHANGED vars
    BY <2>2, <2>4 DEF Flap, vars
  <2> QED BY <2>3, <2>4
<1>3. /\ \A q \in Runner!Procs : Runner!Rotating(q)' <=> Runner!Rotating(q)
      /\ \A q \in Runner!Procs : Runner!HoldsNew(q)' <=> Runner!HoldsNew(q)
      /\ \A q \in Runs : Renewing(q)' <=> Renewing(q)
  BY <1>1 DEF Runner!Rotating, Runner!HoldsNew, Renewing
<1>4. /\ TypeOK /\ IdleInv /\ FreshInv /\ ClearedInv /\ Runner!LockInv /\ Runner!TokensInv
      /\ Runner!NewTokenIsPrivate /\ Runner!KeptTokenInv
      /\ StoredInv /\ SeparateInv /\ SpentTokenOnlyAfterStraddling
  BY DEF IInv, LogoutInv, SpentInv
<1>5. TypeOK'
  <2>1. store'[where'] \in Runner!Entries \cup {NoEntry}
    BY <1>1, <1>2
  <2>2. Runner!TypeOK'
    BY <1>1, <1>4, <2>1, TypesOfParts DEF Runner!TypeOK, Results
  <2> QED BY <1>1, <1>2, <1>4, <2>2 DEF TypeOK
<1>6. IdleInv' /\ FreshInv' /\ ClearedInv'
  BY <1>1, <1>2, <1>4 DEF IdleInv, FreshInv, Fresh, ClearedInv
<1>7. Runner!LockInv'
  BY <1>1, <1>4 DEF Runner!LockInv, Runner!CriticalSectionExclusive
<1>8. StoredInv'
  BY <1>1, <1>2, <1>3, <1>4 DEF StoredInv
<1>9. Runner!TokensInv'
  BY <1>1, <1>4, <1>8 DEF Runner!TokensInv, StoredInv
<1>10. Runner!NewTokenIsPrivate'
  BY <1>1, <1>3, <1>4, <1>8 DEF Runner!NewTokenIsPrivate, StoredInv
<1>11. Runner!KeptTokenInv'
  BY <1>1, <1>3, <1>4 DEF Runner!KeptTokenInv
<1>12. SeparateInv'
  BY <1>1, <1>2, <1>3, <1>4 DEF SeparateInv, ChainBackends
<1>13. SpentTokenOnlyAfterStraddling'
  BY <1>1, <1>2, <1>3, <1>4 DEF SpentTokenOnlyAfterStraddling, SpentToken
<1> QED BY <1>5, <1>6, <1>7, <1>8, <1>9, <1>10, <1>11, <1>12, <1>13
       DEF IInv, LogoutInv, SpentInv

(***************************************************************************)
(* The theorems                                                            *)
(***************************************************************************)

\* The inductive invariant: types, processes that have not begun or have ended hold
\* no token, after a logout that is not excused no older one is anywhere, the flock
\* admits one run, a new token is known to its run alone, the backends share none.
THEOREM ChainInvariant == Spec => []IInv
<1>1. IInv /\ [Next]_vars => IInv'
  BY RunKeepsInv, LogoutKeepsInv, StrayKeepsInv, WorldKeepsInv DEF Next
<1> QED BY IInvInit, <1>1, PTL DEF Spec

\* Runner.Logout over ChainStore.Delete: a logout that met no run in progress and
\* reached the keychain leaves both backends empty until the IdP answers a run again,
\* and no refresh token from before ever after, whatever the keychain and later runs do.
THEOREM LogoutsAreFinal == Spec => []LogoutIsFinal
<1>1. IInv => LogoutIsFinal
  BY DEF IInv, LogoutInv, FreshInv, Fresh, ClearedInv, LogoutIsFinal
<1> QED BY ChainInvariant, <1>1, PTL

\* tryRefresh over ChainStore: while the keychain does not come or go under a run,
\* no backend keeps a refresh token that was rotated away, unless its successor was
\* lost or is about to be saved, whatever else fails or crashes.
THEOREM SpentTokensAreReplaced == Spec => []SpentTokenOnlyAfterStraddling
<1>1. IInv => SpentTokenOnlyAfterStraddling
  BY DEF IInv, SpentInv
<1> QED BY ChainInvariant, <1>1, PTL

=============================================================================
