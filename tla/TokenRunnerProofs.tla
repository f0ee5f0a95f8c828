------------------------ MODULE TokenRunnerProofs --------------------------
(***************************************************************************)
(* Machine-checked theorems about TokenRunner, for any number of runs and  *)
(* logouts, any of the store backends, any IdP and any combination of      *)
(* faults; and about TimedRunner, for any timeouts.                        *)
(***************************************************************************)
EXTENDS TimedRunner, FiniteSetTheorems, TLAPS

USE DEF Procs

LEMMA NoResultType == NoResult \in Results
BY DEF NoResult, Results

\* Every result of a token response is well typed (toResult).
LEMMA ResultOfType ==
    ASSUME NEW a \in AnswerKinds, NEW t \in Nat
    PROVE  /\ ResultOf(a, t) \in Results
           /\ ResultOf(a, t).rt = t
BY DEF AnswerKinds, ResultOf, Results

\* persist never stores an unverified id_token.
LEMMA PersistedType ==
    ASSUME NEW r \in Results
    PROVE  /\ Persisted(r) \in Entries
           /\ Persisted(r).rt = r.rt /\ Persisted(r).at = r.at
BY DEF Persisted, Entries, Results

LEMMA EntryFacts ==
    ASSUME TypeOK, entry # NoEntry
    PROVE  entry \in Entries /\ entry \in Results /\ entry.rt \in Nat
BY DEF TypeOK, Entries, Results

LEMMA TypeInit == Init => TypeOK
<1> SUFFICES ASSUME Init PROVE TypeOK
    OBVIOUS
<1>1. entry \in Entries \cup {NoEntry}
    BY PriorAssumption DEF Init
<1>2. res \in [Procs -> Results]
    BY NoResultType DEF Init
<1> QED BY <1>1, <1>2 DEF Init, TypeOK, PCs

\* Every step keeps the state well typed.
LEMMA TypeStep == TypeOK /\ [Next]_vars => TypeOK'
<1> SUFFICES ASSUME TypeOK, [Next]_vars
             PROVE  TypeOK'
    OBVIOUS
<1> USE DEF TypeOK, PCs, Section, Unsaved, Ended, Goto
<1>1. ASSUME NEW p \in Procs, CacheReadFails(p) PROVE TypeOK'
    BY NoResultType, <1>1 DEF CacheReadFails, Finish
<1>2. ASSUME NEW p \in Procs, ServeCached(p) PROVE TypeOK'
    BY EntryFacts, <1>2 DEF ServeCached, Usable
<1>3. ASSUME NEW p \in Procs, TryRefresh(p) PROVE TypeOK'
    BY EntryFacts, <1>3 DEF TryRefresh, Refreshable
<1>4. ASSUME NEW p \in Procs, NothingToRefresh(p) PROVE TypeOK'
    BY <1>4 DEF NothingToRefresh
<1>5. ASSUME NEW p \in Procs, AcquireLock(p) PROVE TypeOK'
    BY <1>5 DEF AcquireLock
<1>6. ASSUME NEW p \in Procs, LockFails(p) PROVE TypeOK'
    BY <1>6 DEF LockFails
<1>7. ASSUME NEW p \in Procs, RereadHit(p) PROVE TypeOK'
    BY EntryFacts, <1>7 DEF RereadHit, Usable
<1>8. ASSUME NEW p \in Procs, PresentStored(p) PROVE TypeOK'
    BY EntryFacts, <1>8 DEF PresentStored, Present
<1>9. ASSUME NEW p \in Procs, PresentStale(p) PROVE TypeOK'
    BY <1>9 DEF PresentStale, Present
<1>10. ASSUME NEW p \in Procs, RefreshRefused(p) PROVE TypeOK'
    BY <1>10 DEF RefreshRefused
<1>11. ASSUME NEW p \in Procs, RefreshTimeout(p) PROVE TypeOK'
    BY NoResultType, <1>11 DEF RefreshTimeout, LostWith, Rotating
<1>12. ASSUME NEW p \in Procs, RefreshBadIDToken(p) PROVE TypeOK'
    BY NoResultType, <1>12 DEF RefreshBadIDToken, LostWith, Rotating
<1>13. ASSUME NEW p \in Procs, RefreshAnswered(p) PROVE TypeOK'
    BY <1>13 DEF RefreshAnswered, Keeping, Results
<1>14. ASSUME NEW p \in Procs, SaveRefreshed(p) PROVE TypeOK'
    BY PersistedType, <1>14 DEF SaveRefreshed, Stored
<1>15. ASSUME NEW p \in Procs, SaveRefreshedFails(p) PROVE TypeOK'
    BY NoResultType, <1>15 DEF SaveRefreshedFails, LostWith, Rotating
<1>16. ASSUME NEW p \in Procs, Unlock(p) PROVE TypeOK'
    BY <1>16 DEF Unlock
<1>17. ASSUME NEW p \in Procs, LoginFails(p) PROVE TypeOK'
    BY NoResultType, <1>17 DEF LoginFails, Finish
<1>18. ASSUME NEW p \in Procs, SaveLogin(p) PROVE TypeOK'
    BY PersistedType, <1>18 DEF SaveLogin, Stored
<1>19. ASSUME NEW p \in Procs, SaveLoginFails(p) PROVE TypeOK'
    BY NoResultType, <1>19 DEF SaveLoginFails, Finish
<1>20. ASSUME NEW p \in Procs, WriteResult(p) PROVE TypeOK'
    BY NoResultType, <1>20 DEF WriteResult, Finish
<1>21. ASSUME NEW p \in Procs, Logout(p) PROVE TypeOK'
    BY <1>21 DEF Logout
<1>22. ASSUME NEW p \in Procs, LogoutFails(p) PROVE TypeOK'
    BY <1>22 DEF LogoutFails
<1>23. ASSUME NEW p \in Procs, Crash(p) PROVE TypeOK'
    BY NoResultType, <1>23 DEF Crash, Finish, LostWith, Rotating
<1>24. ASSUME NEW p \in Procs, IdPGrants(p) PROVE TypeOK'
  <2>1. PICK a \in Answers :
           /\ Issue(a)
           /\ redeemed' = IF a.newRT THEN redeemed \cup {rt[p]} ELSE redeemed
           /\ res' = [res EXCEPT ![p] = ResultOf(a, NewRT(a))]
      BY <1>24 DEF IdPGrants
  <2>2. NewRT(a) \in Nat /\ minted' \in Nat
      BY <2>1 DEF NewRT, Issue
  <2>3. ResultOf(a, NewRT(a)) \in Results
      BY <2>2, ResultOfType, RunnerAssumption
  <2> QED BY <1>24, <2>1, <2>2, <2>3 DEF IdPGrants
<1>25. ASSUME NEW p \in Procs, Login(p) PROVE TypeOK'
  <2>1. PICK a \in LoginAnswers :
           /\ Issue(a)
           /\ \/ Finish(p, "failed")
              \/ /\ res' = [res EXCEPT ![p] = ResultOf(a, NewRT(a))]
                 /\ Goto(p, "saveLogin")
                 /\ UNCHANGED rt
      BY <1>25 DEF Login
  <2>2. NewRT(a) \in Nat /\ minted' \in Nat
      BY <2>1 DEF NewRT, Issue
  <2>3. ResultOf(a, NewRT(a)) \in Results
      BY <2>2, ResultOfType, RunnerAssumption
  <2> QED BY <1>25, <2>1, <2>2, <2>3, NoResultType DEF Login, Finish
<1>26. ASSUME NEW t \in stray, StrayGranted(t) PROVE TypeOK'
    BY <1>26 DEF StrayGranted
<1>27. CASE Expire
    BY <1>27, EntryFacts DEF Expire, Entries, Results
<1>28. CASE UNCHANGED vars
    BY <1>28 DEF vars
<1> QED
    BY <1>1, <1>2, <1>3, <1>4, <1>5, <1>6, <1>7, <1>8, <1>9, <1>10, <1>11, <1>12, <1>13,
       <1>14, <1>15, <1>16, <1>17, <1>18, <1>19, <1>20, <1>21, <1>22, <1>23, <1>24, <1>25,
       <1>26, <1>27, <1>28
    DEF Next, Step, Start, WaitLock, Refresh, LogIn

\* The state stays within its types in every behaviour.
THEOREM TypeCorrect == Spec => []TypeOK
BY TypeInit, TypeStep, PTL DEF Spec

LEMMA LockInit == Init => LockInv
BY DEF Init, LockInv, CriticalSectionExclusive, Section

\* The lock is held exactly inside the critical section, and by one process
\* at a time if it is a flock (AcquireLock, Unlock, Crash).
LEMMA LockStep == TypeOK /\ LockInv /\ [Next]_vars => LockInv'
<1> SUFFICES ASSUME TypeOK /\ LockInv, [Next]_vars
             PROVE  LockInv'
    OBVIOUS
<1> USE DEF TypeOK, LockInv, CriticalSectionExclusive, PCs, Section, Ended, Goto
<1>1. ASSUME NEW p \in Procs, CacheReadFails(p) PROVE LockInv'
    BY <1>1 DEF CacheReadFails, Finish
<1>2. ASSUME NEW p \in Procs, ServeCached(p) PROVE LockInv'
    BY <1>2 DEF ServeCached
<1>3. ASSUME NEW p \in Procs, TryRefresh(p) PROVE LockInv'
    BY <1>3 DEF TryRefresh
<1>4. ASSUME NEW p \in Procs, NothingToRefresh(p) PROVE LockInv'
    BY <1>4 DEF NothingToRefresh
<1>5. ASSUME NEW p \in Procs, AcquireLock(p) PROVE LockInv'
    BY <1>5 DEF AcquireLock
<1>6. ASSUME NEW p \in Procs, LockFails(p) PROVE LockInv'
    BY <1>6 DEF LockFails
<1>7. ASSUME NEW p \in Procs, RereadHit(p) PROVE LockInv'
    BY <1>7 DEF RereadHit
<1>8. ASSUME NEW p \in Procs, PresentStored(p) PROVE LockInv'
    BY <1>8 DEF PresentStored, Present
<1>9. ASSUME NEW p \in Procs, PresentStale(p) PROVE LockInv'
    BY <1>9 DEF PresentStale, Present
<1>10. ASSUME NEW p \in Procs, RefreshRefused(p) PROVE LockInv'
    BY <1>10 DEF RefreshRefused
<1>11. ASSUME NEW p \in Procs, RefreshTimeout(p) PROVE LockInv'
    BY <1>11 DEF RefreshTimeout
<1>12. ASSUME NEW p \in Procs, RefreshBadIDToken(p) PROVE LockInv'
    BY <1>12 DEF RefreshBadIDToken
<1>13. ASSUME NEW p \in Procs, RefreshAnswered(p) PROVE LockInv'
    BY <1>13 DEF RefreshAnswered
<1>14. ASSUME NEW p \in Procs, SaveRefreshed(p) PROVE LockInv'
    BY <1>14 DEF SaveRefreshed
<1>15. ASSUME NEW p \in Procs, SaveRefreshedFails(p) PROVE LockInv'
    BY <1>15 DEF SaveRefreshedFails
<1>16. ASSUME NEW p \in Procs, Unlock(p) PROVE LockInv'
    BY <1>16 DEF Unlock
<1>17. ASSUME NEW p \in Procs, LoginFails(p) PROVE LockInv'
    BY <1>17 DEF LoginFails, Finish
<1>18. ASSUME NEW p \in Procs, SaveLogin(p) PROVE LockInv'
    BY <1>18 DEF SaveLogin
<1>19. ASSUME NEW p \in Procs, SaveLoginFails(p) PROVE LockInv'
    BY <1>19 DEF SaveLoginFails, Finish
<1>20. ASSUME NEW p \in Procs, WriteResult(p) PROVE LockInv'
    BY <1>20 DEF WriteResult, Finish
<1>21. ASSUME NEW p \in Procs, Logout(p) PROVE LockInv'
    BY <1>21 DEF Logout
<1>22. ASSUME NEW p \in Procs, LogoutFails(p) PROVE LockInv'
    BY <1>22 DEF LogoutFails
<1>23. ASSUME NEW p \in Procs, Crash(p) PROVE LockInv'
    BY <1>23 DEF Crash, Finish
<1>24. ASSUME NEW p \in Procs, IdPGrants(p) PROVE LockInv'
    BY <1>24 DEF IdPGrants
<1>25. ASSUME NEW p \in Procs, Login(p) PROVE LockInv'
    BY <1>25 DEF Login, Finish
<1>26. ASSUME NEW t \in stray, StrayGranted(t) PROVE LockInv'
    BY <1>26 DEF StrayGranted
<1>27. CASE Expire
    BY <1>27 DEF Expire
<1>28. CASE UNCHANGED vars
    BY <1>28 DEF vars
<1> QED
    BY <1>1, <1>2, <1>3, <1>4, <1>5, <1>6, <1>7, <1>8, <1>9, <1>10, <1>11, <1>12, <1>13,
       <1>14, <1>15, <1>16, <1>17, <1>18, <1>19, <1>20, <1>21, <1>22, <1>23, <1>24, <1>25,
       <1>26, <1>27, <1>28
    DEF Next, Step, Start, WaitLock, Refresh, LogIn

\* The critical section of tryRefresh is exclusive under a flock.
THEOREM MutualExclusion == Spec => []CriticalSectionExclusive
<1>1. TypeOK /\ LockInv => CriticalSectionExclusive
    BY DEF LockInv
<1> QED BY <1>1, TypeInit, TypeStep, LockInit, LockStep, PTL DEF Spec

\* What the IdP issues: the next number, and nothing else moves its counter.
LEMMA IssueFacts ==
    ASSUME TypeOK, NEW a \in AnswerKinds, Issue(a)
    PROVE  /\ minted <= minted' /\ minted' \in Nat
           /\ NewRT(a) \in Nat /\ NewRT(a) <= minted'
           /\ NewRT(a) # 0 => NewRT(a) > minted
           /\ NewRT(a) = 0 <=> ~a.newRT
           /\ ResultOf(a, NewRT(a)) \in Results
           /\ ResultOf(a, NewRT(a)).rt = NewRT(a)
<1>1. /\ minted <= minted' /\ minted' \in Nat
      /\ NewRT(a) \in Nat /\ NewRT(a) <= minted'
      /\ NewRT(a) # 0 => NewRT(a) > minted
      /\ NewRT(a) = 0 <=> ~a.newRT
    BY DEF TypeOK, Issue, NewRT, AnswerKinds
<1> QED BY <1>1, ResultOfType

\* What a granted refresh does, with t the new refresh token, 0 if none.
Granted(p, t) ==
    /\ pc[p] = "sent" /\ rt[p] \notin redeemed
    /\ t = 0 => \E a \in Answers : ~a.newRT
    /\ t = 0 \/ t = minted + 1
    /\ minted' = IF t = 0 THEN minted ELSE minted + 1
    /\ redeemed' = IF t = 0 THEN redeemed ELSE redeemed \cup {rt[p]}
    /\ res'[p].rt = t /\ res'[p].at /\ \A q \in Procs \ {p} : res'[q] = res[q]
    /\ pc' = [pc EXCEPT ![p] = "answered"]
    /\ UNCHANGED <<entry, holders, rt, stray, lost>>

LEMMA GrantFacts ==
    ASSUME TypeOK, NEW p \in Procs, IdPGrants(p)
    PROVE  \E t \in Nat : Granted(p, t)
<1>1. PICK a \in Answers :
         /\ Issue(a)
         /\ redeemed' = IF a.newRT THEN redeemed \cup {rt[p]} ELSE redeemed
         /\ res' = [res EXCEPT ![p] = ResultOf(a, NewRT(a))]
    BY DEF IdPGrants
<1>2. a \in AnswerKinds
    BY RunnerAssumption
<1>3. ResultOf(a, NewRT(a)).rt = NewRT(a) /\ NewRT(a) \in Nat
    BY <1>1, <1>2, IssueFacts
<1>4. NewRT(a) = 0 <=> ~a.newRT
    BY <1>1, <1>2, IssueFacts
<1>5. /\ NewRT(a) = 0 \/ NewRT(a) = minted + 1
      /\ minted' = IF NewRT(a) = 0 THEN minted ELSE minted + 1
    BY <1>1, <1>4 DEF Issue, NewRT
<1>6. /\ res'[p].rt = NewRT(a) /\ res'[p].at
      /\ \A q \in Procs \ {p} : res'[q] = res[q]
    BY <1>1, <1>3 DEF TypeOK, ResultOf
<1>7. Granted(p, NewRT(a))
    BY <1>1, <1>4, <1>5, <1>6 DEF Granted, IdPGrants, Goto
<1> QED BY <1>3, <1>7

\* What a concluded login does, with t its refresh token, 0 if none.
LoggedIn(p, t) ==
    /\ t = 0 \/ t = minted + 1
    /\ minted' = IF t = 0 THEN minted ELSE minted + 1
    /\ \/ /\ pc' = [pc EXCEPT ![p] = "failed"]
          /\ rt'[p] = 0 /\ res'[p].rt = 0
       \/ /\ pc' = [pc EXCEPT ![p] = "saveLogin"]
          /\ rt'[p] = rt[p] /\ res'[p].rt = t
    /\ \A q \in Procs \ {p} : res'[q] = res[q] /\ rt'[q] = rt[q]
    /\ pc[p] = "login"
    /\ UNCHANGED <<entry, holders, redeemed, stray, lost>>

LEMMA LoginFacts ==
    ASSUME TypeOK, NEW p \in Procs, Login(p)
    PROVE  \E t \in Nat : LoggedIn(p, t)
<1>1. PICK a \in LoginAnswers :
         /\ Issue(a)
         /\ \/ Finish(p, "failed")
            \/ /\ res' = [res EXCEPT ![p] = ResultOf(a, NewRT(a))]
               /\ Goto(p, "saveLogin")
               /\ UNCHANGED rt
    BY DEF Login
<1>2. a \in AnswerKinds
    BY RunnerAssumption
<1>3. ResultOf(a, NewRT(a)).rt = NewRT(a) /\ NewRT(a) \in Nat
    BY <1>1, <1>2, IssueFacts
<1>4. NewRT(a) = 0 <=> ~a.newRT
    BY <1>1, <1>2, IssueFacts
<1>5. /\ NewRT(a) = 0 \/ NewRT(a) = minted + 1
      /\ minted' = IF NewRT(a) = 0 THEN minted ELSE minted + 1
    BY <1>1, <1>4 DEF Issue, NewRT
<1>6. CASE Finish(p, "failed")
    BY <1>5, <1>6 DEF LoggedIn, Login, Finish, Goto, TypeOK, NoResult
<1>7. CASE /\ res' = [res EXCEPT ![p] = ResultOf(a, NewRT(a))]
           /\ Goto(p, "saveLogin")
           /\ UNCHANGED rt
    BY <1>3, <1>5, <1>7 DEF LoggedIn, Login, Goto, TypeOK
<1> QED BY <1>1, <1>3, <1>6, <1>7

LEMMA TokensInit == Init => TokensInv
<1> SUFFICES ASSUME Init PROVE TokensInv
    OBVIOUS
<1>1. entry # NoEntry => entry.rt <= minted
    BY PriorAssumption DEF Init, Entries, Results
<1> QED BY <1>1, PriorAssumption DEF Init, TokensInv, NoResult, Unsaved

\* Only tokens the IdP issued circulate.
LEMMA TokensStep == TypeOK /\ TokensInv /\ [Next]_vars => TokensInv'
<1> SUFFICES ASSUME TypeOK /\ TokensInv, [Next]_vars
             PROVE  TokensInv'
    OBVIOUS
<1> USE DEF TypeOK, TokensInv, PCs, Section, Unsaved, Ended, Goto
<1>1. ASSUME NEW p \in Procs, CacheReadFails(p) PROVE TokensInv'
    BY <1>1 DEF CacheReadFails, Finish, NoResult
<1>2. ASSUME NEW p \in Procs, ServeCached(p) PROVE TokensInv'
    BY EntryFacts, <1>2 DEF ServeCached, Usable
<1>3. ASSUME NEW p \in Procs, TryRefresh(p) PROVE TokensInv'
    BY EntryFacts, <1>3 DEF TryRefresh, Refreshable
<1>4. ASSUME NEW p \in Procs, NothingToRefresh(p) PROVE TokensInv'
    BY <1>4 DEF NothingToRefresh
<1>5. ASSUME NEW p \in Procs, AcquireLock(p) PROVE TokensInv'
    BY <1>5 DEF AcquireLock
<1>6. ASSUME NEW p \in Procs, LockFails(p) PROVE TokensInv'
    BY <1>6 DEF LockFails
<1>7. ASSUME NEW p \in Procs, RereadHit(p) PROVE TokensInv'
    BY EntryFacts, <1>7 DEF RereadHit, Usable
<1>8. ASSUME NEW p \in Procs, PresentStored(p) PROVE TokensInv'
    BY EntryFacts, <1>8 DEF PresentStored, Present, Usable
<1>9. ASSUME NEW p \in Procs, PresentStale(p) PROVE TokensInv'
    BY <1>9 DEF PresentStale, Present
<1>10. ASSUME NEW p \in Procs, RefreshRefused(p) PROVE TokensInv'
    BY <1>10 DEF RefreshRefused
<1>11. ASSUME NEW p \in Procs, RefreshTimeout(p) PROVE TokensInv'
    BY <1>11 DEF RefreshTimeout, NoResult
<1>12. ASSUME NEW p \in Procs, RefreshBadIDToken(p) PROVE TokensInv'
    BY <1>12 DEF RefreshBadIDToken, NoResult
<1>13. ASSUME NEW p \in Procs, RefreshAnswered(p) PROVE TokensInv'
    BY <1>13 DEF RefreshAnswered, Keeping, Results
<1>14. ASSUME NEW p \in Procs, SaveRefreshed(p) PROVE TokensInv'
    BY PersistedType, <1>14 DEF SaveRefreshed, Stored
<1>15. ASSUME NEW p \in Procs, SaveRefreshedFails(p) PROVE TokensInv'
    BY <1>15 DEF SaveRefreshedFails, NoResult
<1>16. ASSUME NEW p \in Procs, Unlock(p) PROVE TokensInv'
    BY <1>16 DEF Unlock
<1>17. ASSUME NEW p \in Procs, LoginFails(p) PROVE TokensInv'
    BY <1>17 DEF LoginFails, Finish, NoResult
<1>18. ASSUME NEW p \in Procs, SaveLogin(p) PROVE TokensInv'
    BY PersistedType, <1>18 DEF SaveLogin, Stored
<1>19. ASSUME NEW p \in Procs, SaveLoginFails(p) PROVE TokensInv'
    BY <1>19 DEF SaveLoginFails, Finish, NoResult
<1>20. ASSUME NEW p \in Procs, WriteResult(p) PROVE TokensInv'
    BY <1>20 DEF WriteResult, Finish, NoResult
<1>21. ASSUME NEW p \in Procs, Logout(p) PROVE TokensInv'
    BY <1>21 DEF Logout
<1>22. ASSUME NEW p \in Procs, LogoutFails(p) PROVE TokensInv'
    BY <1>22 DEF LogoutFails
<1>23. ASSUME NEW p \in Procs, Crash(p) PROVE TokensInv'
    BY <1>23 DEF Crash, Finish, NoResult
<1>24. ASSUME NEW p \in Procs, IdPGrants(p) PROVE TokensInv'
  <2>1. PICK t \in Nat : Granted(p, t)
      BY <1>24, GrantFacts
  <2>2. rt[p] # 0 /\ rt[p] <= minted /\ minted <= minted' /\ minted' \in Nat
      BY <1>24, <2>1 DEF IdPGrants, Granted
  <2>3. \A q \in Procs : rt'[q] <= minted' /\ res'[q].rt <= minted'
    <3> SUFFICES ASSUME NEW q \in Procs PROVE rt'[q] <= minted' /\ res'[q].rt <= minted'
        OBVIOUS
    <3>1. rt[q] \in Nat /\ res[q].rt \in Nat
        BY DEF Results
    <3> QED BY <3>1, <2>1, <2>2 DEF Granted
  <2>4. \A u \in redeemed' \cup stray' : 0 < u /\ u <= minted'
    <3> SUFFICES ASSUME NEW u \in redeemed' \cup stray' PROVE 0 < u /\ u <= minted'
        OBVIOUS
    <3>1. u \in redeemed \cup stray \/ u = rt[p]
        BY <2>1 DEF Granted
    <3> QED BY <3>1, <2>1, <2>2 DEF Granted
  <2>5. \A q \in Procs : pc'[q] \in {"wantLock", "reread", "sent"} \cup Unsaved
                              => rt'[q] # 0
      BY <2>1, <2>2 DEF Granted
  <2>6. (entry # NoEntry => entry.rt <= minted)' /\ (Backend = "none" => entry = NoEntry)'
      BY <2>1, <2>2, EntryFacts DEF Granted
  <2>7. \A q \in Procs : pc'[q] = "save" => res'[q].rt # 0
      BY <2>1 DEF Granted
  <2> QED BY <2>3, <2>4, <2>5, <2>6, <2>7
<1>25. ASSUME NEW p \in Procs, Login(p) PROVE TokensInv'
  <2>1. PICK t \in Nat : LoggedIn(p, t)
      BY <1>25, LoginFacts
  <2>2. minted <= minted' /\ minted' \in Nat
      BY <2>1 DEF LoggedIn
  <2>3. \A q \in Procs : rt'[q] <= minted' /\ res'[q].rt <= minted'
    <3> SUFFICES ASSUME NEW q \in Procs PROVE rt'[q] <= minted' /\ res'[q].rt <= minted'
        OBVIOUS
    <3>1. rt[q] \in Nat /\ res[q].rt \in Nat
        BY DEF Results
    <3> QED BY <3>1, <2>1, <2>2 DEF LoggedIn
  <2>4. \A u \in redeemed' \cup stray' : 0 < u /\ u <= minted'
      BY <2>1, <2>2 DEF LoggedIn
  <2>5. \A q \in Procs : pc'[q] \in {"wantLock", "reread", "sent"} \cup Unsaved
                              => rt'[q] # 0
      BY <2>1 DEF LoggedIn
  <2>6. (entry # NoEntry => entry.rt <= minted)' /\ (Backend = "none" => entry = NoEntry)'
      BY <2>1, <2>2, EntryFacts DEF LoggedIn
  <2>7. \A q \in Procs : pc'[q] = "save" => res'[q].rt # 0
      BY <2>1 DEF LoggedIn
  <2> QED BY <2>3, <2>4, <2>5, <2>6, <2>7
<1>26. ASSUME NEW t \in stray, StrayGranted(t) PROVE TokensInv'
    BY <1>26 DEF StrayGranted
<1>27. CASE Expire
    BY <1>27 DEF Expire, Entries, Results
<1>28. CASE UNCHANGED vars
    BY <1>28 DEF vars
<1> QED
    BY <1>1, <1>2, <1>3, <1>4, <1>5, <1>6, <1>7, <1>8, <1>9, <1>10, <1>11, <1>12, <1>13,
       <1>14, <1>15, <1>16, <1>17, <1>18, <1>19, <1>20, <1>21, <1>22, <1>23, <1>24, <1>25,
       <1>26, <1>27, <1>28
    DEF Next, Step, Start, WaitLock, Refresh, LogIn

LEMMA PrivateInit == Init => NewTokenIsPrivate
BY DEF Init, NewTokenIsPrivate, HoldsNew, NoResult

\* A refresh token that is not stored yet is known to its receiver alone.
LEMMA PrivateStep ==
    TypeOK /\ TokensInv /\ NewTokenIsPrivate /\ [Next]_vars => NewTokenIsPrivate'
<1> SUFFICES ASSUME TypeOK /\ TokensInv /\ NewTokenIsPrivate, [Next]_vars
             PROVE  NewTokenIsPrivate'
    OBVIOUS
<1> USE DEF TypeOK, NewTokenIsPrivate, HoldsNew, Rotating, PCs, Section, Unsaved, Ended, Goto
<1>1. ASSUME NEW p \in Procs, CacheReadFails(p) PROVE NewTokenIsPrivate'
    BY <1>1 DEF CacheReadFails, Finish, NoResult
<1>2. ASSUME NEW p \in Procs, ServeCached(p) PROVE NewTokenIsPrivate'
    BY EntryFacts, <1>2 DEF ServeCached, Usable
<1>3. ASSUME NEW p \in Procs, TryRefresh(p) PROVE NewTokenIsPrivate'
    BY EntryFacts, <1>3 DEF TryRefresh, Refreshable
<1>4. ASSUME NEW p \in Procs, NothingToRefresh(p) PROVE NewTokenIsPrivate'
    BY <1>4 DEF NothingToRefresh
<1>5. ASSUME NEW p \in Procs, AcquireLock(p) PROVE NewTokenIsPrivate'
    BY <1>5 DEF AcquireLock
<1>6. ASSUME NEW p \in Procs, LockFails(p) PROVE NewTokenIsPrivate'
    BY <1>6 DEF LockFails
<1>7. ASSUME NEW p \in Procs, RereadHit(p) PROVE NewTokenIsPrivate'
    BY EntryFacts, <1>7 DEF RereadHit, Usable
<1>8. ASSUME NEW p \in Procs, PresentStored(p) PROVE NewTokenIsPrivate'
    BY EntryFacts, <1>8 DEF PresentStored, Present, Usable
<1>9. ASSUME NEW p \in Procs, PresentStale(p) PROVE NewTokenIsPrivate'
    BY <1>9 DEF PresentStale, Present
<1>10. ASSUME NEW p \in Procs, RefreshRefused(p) PROVE NewTokenIsPrivate'
    BY <1>10 DEF RefreshRefused
<1>11. ASSUME NEW p \in Procs, RefreshTimeout(p) PROVE NewTokenIsPrivate'
    BY <1>11 DEF RefreshTimeout, NoResult
<1>12. ASSUME NEW p \in Procs, RefreshBadIDToken(p) PROVE NewTokenIsPrivate'
    BY <1>12 DEF RefreshBadIDToken, NoResult
<1>13. ASSUME NEW p \in Procs, RefreshAnswered(p) PROVE NewTokenIsPrivate'
    BY <1>13 DEF RefreshAnswered, Keeping, Results
<1>14. ASSUME NEW p \in Procs, SaveRefreshed(p) PROVE NewTokenIsPrivate'
    BY PersistedType, <1>14 DEF SaveRefreshed, Stored
<1>15. ASSUME NEW p \in Procs, SaveRefreshedFails(p) PROVE NewTokenIsPrivate'
    BY <1>15 DEF SaveRefreshedFails, NoResult
<1>16. ASSUME NEW p \in Procs, Unlock(p) PROVE NewTokenIsPrivate'
    BY <1>16 DEF Unlock
<1>17. ASSUME NEW p \in Procs, LoginFails(p) PROVE NewTokenIsPrivate'
    BY <1>17 DEF LoginFails, Finish, NoResult
<1>18. ASSUME NEW p \in Procs, SaveLogin(p) PROVE NewTokenIsPrivate'
    BY PersistedType, <1>18 DEF SaveLogin, Stored
<1>19. ASSUME NEW p \in Procs, SaveLoginFails(p) PROVE NewTokenIsPrivate'
    BY <1>19 DEF SaveLoginFails, Finish, NoResult
<1>20. ASSUME NEW p \in Procs, WriteResult(p) PROVE NewTokenIsPrivate'
    BY <1>20 DEF WriteResult, Finish, NoResult
<1>21. ASSUME NEW p \in Procs, Logout(p) PROVE NewTokenIsPrivate'
    BY <1>21 DEF Logout
<1>22. ASSUME NEW p \in Procs, LogoutFails(p) PROVE NewTokenIsPrivate'
    BY <1>22 DEF LogoutFails
<1>23. ASSUME NEW p \in Procs, Crash(p) PROVE NewTokenIsPrivate'
    BY <1>23 DEF Crash, Finish, NoResult
<1>24. ASSUME NEW p \in Procs, IdPGrants(p) PROVE NewTokenIsPrivate'
  <2>1. PICK t \in Nat : Granted(p, t)
      BY <1>24, GrantFacts
  <2> QED BY <2>1, EntryFacts DEF Granted, TokensInv, Results
<1>25. ASSUME NEW p \in Procs, Login(p) PROVE NewTokenIsPrivate'
  <2>1. PICK t \in Nat : LoggedIn(p, t)
      BY <1>25, LoginFacts
  <2> QED BY <2>1, EntryFacts DEF LoggedIn, TokensInv, Results
<1>26. ASSUME NEW t \in stray, StrayGranted(t) PROVE NewTokenIsPrivate'
    BY <1>26 DEF StrayGranted
<1>27. CASE Expire
    BY <1>27 DEF Expire, Entries, Results
<1>28. CASE UNCHANGED vars
    BY <1>28 DEF vars
<1> QED
    BY <1>1, <1>2, <1>3, <1>4, <1>5, <1>6, <1>7, <1>8, <1>9, <1>10, <1>11, <1>12, <1>13,
       <1>14, <1>15, <1>16, <1>17, <1>18, <1>19, <1>20, <1>21, <1>22, <1>23, <1>24, <1>25,
       <1>26, <1>27, <1>28
    DEF Next, Step, Start, WaitLock, Refresh, LogIn

LEMMA ReplacementInit == Init => /\ RotatingOnlyInv /\ KeptTokenInv
                                 /\ SpentTokenIsBeingReplacedOrLost
BY DEF Init, RotatingOnlyInv, KeptTokenInv, SpentTokenIsBeingReplacedOrLost, Unsaved

\* If every answer rotates, every unsaved answer is a rotation.
LEMMA RotatingOnlyStep ==
    TypeOK /\ TokensInv /\ RotatingOnlyInv /\ [Next]_vars => RotatingOnlyInv'
<1> SUFFICES ASSUME TypeOK /\ TokensInv /\ RotatingOnlyInv, [Next]_vars
             PROVE  RotatingOnlyInv'
    OBVIOUS
<1> USE DEF TypeOK, TokensInv, RotatingOnlyInv, Rotating, PCs, Section, Unsaved, Ended, Goto
<1>1. ASSUME NEW p \in Procs, CacheReadFails(p) PROVE RotatingOnlyInv'
    BY <1>1 DEF CacheReadFails, Finish, NoResult
<1>2. ASSUME NEW p \in Procs, ServeCached(p) PROVE RotatingOnlyInv'
    BY EntryFacts, <1>2 DEF ServeCached, Usable
<1>3. ASSUME NEW p \in Procs, TryRefresh(p) PROVE RotatingOnlyInv'
    BY EntryFacts, <1>3 DEF TryRefresh, Refreshable
<1>4. ASSUME NEW p \in Procs, NothingToRefresh(p) PROVE RotatingOnlyInv'
    BY <1>4 DEF NothingToRefresh
<1>5. ASSUME NEW p \in Procs, AcquireLock(p) PROVE RotatingOnlyInv'
    BY <1>5 DEF AcquireLock
<1>6. ASSUME NEW p \in Procs, LockFails(p) PROVE RotatingOnlyInv'
    BY <1>6 DEF LockFails
<1>7. ASSUME NEW p \in Procs, RereadHit(p) PROVE RotatingOnlyInv'
    BY EntryFacts, <1>7 DEF RereadHit, Usable
<1>8. ASSUME NEW p \in Procs, PresentStored(p) PROVE RotatingOnlyInv'
    BY EntryFacts, <1>8 DEF PresentStored, Present, Usable
<1>9. ASSUME NEW p \in Procs, PresentStale(p) PROVE RotatingOnlyInv'
    BY <1>9 DEF PresentStale, Present
<1>10. ASSUME NEW p \in Procs, RefreshRefused(p) PROVE RotatingOnlyInv'
    BY <1>10 DEF RefreshRefused
<1>11. ASSUME NEW p \in Procs, RefreshTimeout(p) PROVE RotatingOnlyInv'
    BY <1>11 DEF RefreshTimeout, NoResult
<1>12. ASSUME NEW p \in Procs, RefreshBadIDToken(p) PROVE RotatingOnlyInv'
    BY <1>12 DEF RefreshBadIDToken, NoResult
<1>13. ASSUME NEW p \in Procs, RefreshAnswered(p) PROVE RotatingOnlyInv'
    BY <1>13 DEF RefreshAnswered, Keeping, Results
<1>14. ASSUME NEW p \in Procs, SaveRefreshed(p) PROVE RotatingOnlyInv'
    BY PersistedType, <1>14 DEF SaveRefreshed, Stored
<1>15. ASSUME NEW p \in Procs, SaveRefreshedFails(p) PROVE RotatingOnlyInv'
    BY <1>15 DEF SaveRefreshedFails, NoResult
<1>16. ASSUME NEW p \in Procs, Unlock(p) PROVE RotatingOnlyInv'
    BY <1>16 DEF Unlock
<1>17. ASSUME NEW p \in Procs, LoginFails(p) PROVE RotatingOnlyInv'
    BY <1>17 DEF LoginFails, Finish, NoResult
<1>18. ASSUME NEW p \in Procs, SaveLogin(p) PROVE RotatingOnlyInv'
    BY PersistedType, <1>18 DEF SaveLogin, Stored
<1>19. ASSUME NEW p \in Procs, SaveLoginFails(p) PROVE RotatingOnlyInv'
    BY <1>19 DEF SaveLoginFails, Finish, NoResult
<1>20. ASSUME NEW p \in Procs, WriteResult(p) PROVE RotatingOnlyInv'
    BY <1>20 DEF WriteResult, Finish, NoResult
<1>21. ASSUME NEW p \in Procs, Logout(p) PROVE RotatingOnlyInv'
    BY <1>21 DEF Logout
<1>22. ASSUME NEW p \in Procs, LogoutFails(p) PROVE RotatingOnlyInv'
    BY <1>22 DEF LogoutFails
<1>23. ASSUME NEW p \in Procs, Crash(p) PROVE RotatingOnlyInv'
    BY <1>23 DEF Crash, Finish, NoResult
<1>24. ASSUME NEW p \in Procs, IdPGrants(p) PROVE RotatingOnlyInv'
  <2>1. PICK t \in Nat : Granted(p, t)
      BY <1>24, GrantFacts
  <2> QED BY <2>1 DEF Granted
<1>25. ASSUME NEW p \in Procs, Login(p) PROVE RotatingOnlyInv'
  <2>1. PICK t \in Nat : LoggedIn(p, t)
      BY <1>25, LoginFacts
  <2> QED BY <2>1 DEF LoggedIn
<1>26. ASSUME NEW t \in stray, StrayGranted(t) PROVE RotatingOnlyInv'
    BY <1>26 DEF StrayGranted
<1>27. CASE Expire
    BY <1>27 DEF Expire, Entries, Results
<1>28. CASE UNCHANGED vars
    BY <1>28 DEF vars
<1> QED
    BY <1>1, <1>2, <1>3, <1>4, <1>5, <1>6, <1>7, <1>8, <1>9, <1>10, <1>11, <1>12, <1>13,
       <1>14, <1>15, <1>16, <1>17, <1>18, <1>19, <1>20, <1>21, <1>22, <1>23, <1>24, <1>25,
       <1>26, <1>27, <1>28
    DEF Next, Step, Start, WaitLock, Refresh, LogIn

\* A presented token that is going to be kept is not rotated by anyone else.
LEMMA KeptStep ==
    TypeOK /\ LockInv /\ TokensInv /\ RotatingOnlyInv /\ KeptTokenInv /\ [Next]_vars
      => KeptTokenInv'
<1> SUFFICES ASSUME TypeOK /\ LockInv /\ TokensInv /\ RotatingOnlyInv /\ KeptTokenInv, [Next]_vars
             PROVE  KeptTokenInv'
    OBVIOUS
<1> USE DEF TypeOK, LockInv, CriticalSectionExclusive, TokensInv, RotatingOnlyInv,
            KeptTokenInv, Rotating, PCs, Section, Unsaved, Ended, Goto
<1>1. ASSUME NEW p \in Procs, CacheReadFails(p) PROVE KeptTokenInv'
    BY <1>1 DEF CacheReadFails, Finish, NoResult
<1>2. ASSUME NEW p \in Procs, ServeCached(p) PROVE KeptTokenInv'
    BY EntryFacts, <1>2 DEF ServeCached, Usable
<1>3. ASSUME NEW p \in Procs, TryRefresh(p) PROVE KeptTokenInv'
    BY EntryFacts, <1>3 DEF TryRefresh, Refreshable
<1>4. ASSUME NEW p \in Procs, NothingToRefresh(p) PROVE KeptTokenInv'
    BY <1>4 DEF NothingToRefresh
<1>5. ASSUME NEW p \in Procs, AcquireLock(p) PROVE KeptTokenInv'
    BY <1>5 DEF AcquireLock
<1>6. ASSUME NEW p \in Procs, LockFails(p) PROVE KeptTokenInv'
    BY <1>6 DEF LockFails
<1>7. ASSUME NEW p \in Procs, RereadHit(p) PROVE KeptTokenInv'
    BY EntryFacts, <1>7 DEF RereadHit, Usable
<1>8. ASSUME NEW p \in Procs, PresentStored(p) PROVE KeptTokenInv'
    BY EntryFacts, <1>8 DEF PresentStored, Present, Usable
<1>9. ASSUME NEW p \in Procs, PresentStale(p) PROVE KeptTokenInv'
    BY <1>9 DEF PresentStale, Present
<1>10. ASSUME NEW p \in Procs, RefreshRefused(p) PROVE KeptTokenInv'
    BY <1>10 DEF RefreshRefused
<1>11. ASSUME NEW p \in Procs, RefreshTimeout(p) PROVE KeptTokenInv'
    BY <1>11 DEF RefreshTimeout, NoResult, LostWith
<1>12. ASSUME NEW p \in Procs, RefreshBadIDToken(p) PROVE KeptTokenInv'
    BY <1>12 DEF RefreshBadIDToken, NoResult, LostWith
<1>13. ASSUME NEW p \in Procs, RefreshAnswered(p) PROVE KeptTokenInv'
    BY <1>13 DEF RefreshAnswered, Keeping, Results
<1>14. ASSUME NEW p \in Procs, SaveRefreshed(p) PROVE KeptTokenInv'
    BY PersistedType, <1>14 DEF SaveRefreshed, Stored
<1>15. ASSUME NEW p \in Procs, SaveRefreshedFails(p) PROVE KeptTokenInv'
    BY <1>15 DEF SaveRefreshedFails, NoResult, LostWith
<1>16. ASSUME NEW p \in Procs, Unlock(p) PROVE KeptTokenInv'
    BY <1>16 DEF Unlock
<1>17. ASSUME NEW p \in Procs, LoginFails(p) PROVE KeptTokenInv'
    BY <1>17 DEF LoginFails, Finish, NoResult
<1>18. ASSUME NEW p \in Procs, SaveLogin(p) PROVE KeptTokenInv'
    BY PersistedType, <1>18 DEF SaveLogin, Stored
<1>19. ASSUME NEW p \in Procs, SaveLoginFails(p) PROVE KeptTokenInv'
    BY <1>19 DEF SaveLoginFails, Finish, NoResult
<1>20. ASSUME NEW p \in Procs, WriteResult(p) PROVE KeptTokenInv'
    BY <1>20 DEF WriteResult, Finish, NoResult
<1>21. ASSUME NEW p \in Procs, Logout(p) PROVE KeptTokenInv'
    BY <1>21 DEF Logout
<1>22. ASSUME NEW p \in Procs, LogoutFails(p) PROVE KeptTokenInv'
    BY <1>22 DEF LogoutFails
<1>23. ASSUME NEW p \in Procs, Crash(p) PROVE KeptTokenInv'
    BY <1>23 DEF Crash, Finish, NoResult, LostWith
<1>24. ASSUME NEW p \in Procs, IdPGrants(p) PROVE KeptTokenInv'
  <2>1. PICK t \in Nat : Granted(p, t)
      BY <1>24, GrantFacts
  <2> QED BY <2>1 DEF Granted
<1>25. ASSUME NEW p \in Procs, Login(p) PROVE KeptTokenInv'
  <2>1. PICK t \in Nat : LoggedIn(p, t)
      BY <1>25, LoginFacts
  <2> QED BY <2>1 DEF LoggedIn
<1>26. ASSUME NEW t \in stray, StrayGranted(t) PROVE KeptTokenInv'
    BY <1>26 DEF StrayGranted
<1>27. CASE Expire
    BY <1>27 DEF Expire, Entries, Results
<1>28. CASE UNCHANGED vars
    BY <1>28 DEF vars
<1> QED
    BY <1>1, <1>2, <1>3, <1>4, <1>5, <1>6, <1>7, <1>8, <1>9, <1>10, <1>11, <1>12, <1>13,
       <1>14, <1>15, <1>16, <1>17, <1>18, <1>19, <1>20, <1>21, <1>22, <1>23, <1>24, <1>25,
       <1>26, <1>27, <1>28
    DEF Next, Step, Start, WaitLock, Refresh, LogIn

\* A spent token leaves the store by its replacement, or was lost.
LEMMA SpentStep ==
    TypeOK /\ TokensInv /\ NewTokenIsPrivate /\ RotatingOnlyInv /\ KeptTokenInv /\
    SpentTokenIsBeingReplacedOrLost /\ [Next]_vars
      => SpentTokenIsBeingReplacedOrLost'
<1> SUFFICES ASSUME TypeOK /\ TokensInv /\ NewTokenIsPrivate /\ RotatingOnlyInv /\
                    KeptTokenInv /\ SpentTokenIsBeingReplacedOrLost, [Next]_vars
             PROVE  SpentTokenIsBeingReplacedOrLost'
    OBVIOUS
<1> USE DEF TypeOK, TokensInv, NewTokenIsPrivate, HoldsNew, RotatingOnlyInv, KeptTokenInv,
            SpentTokenIsBeingReplacedOrLost, Rotating, PCs, Section, Unsaved, Ended, Goto
<1>1. ASSUME NEW p \in Procs, CacheReadFails(p) PROVE SpentTokenIsBeingReplacedOrLost'
    BY <1>1 DEF CacheReadFails, Finish, NoResult
<1>2. ASSUME NEW p \in Procs, ServeCached(p) PROVE SpentTokenIsBeingReplacedOrLost'
    BY EntryFacts, <1>2 DEF ServeCached, Usable
<1>3. ASSUME NEW p \in Procs, TryRefresh(p) PROVE SpentTokenIsBeingReplacedOrLost'
    BY EntryFacts, <1>3 DEF TryRefresh, Refreshable
<1>4. ASSUME NEW p \in Procs, NothingToRefresh(p) PROVE SpentTokenIsBeingReplacedOrLost'
    BY <1>4 DEF NothingToRefresh
<1>5. ASSUME NEW p \in Procs, AcquireLock(p) PROVE SpentTokenIsBeingReplacedOrLost'
    BY <1>5 DEF AcquireLock
<1>6. ASSUME NEW p \in Procs, LockFails(p) PROVE SpentTokenIsBeingReplacedOrLost'
    BY <1>6 DEF LockFails
<1>7. ASSUME NEW p \in Procs, RereadHit(p) PROVE SpentTokenIsBeingReplacedOrLost'
    BY EntryFacts, <1>7 DEF RereadHit, Usable
<1>8. ASSUME NEW p \in Procs, PresentStored(p) PROVE SpentTokenIsBeingReplacedOrLost'
    BY EntryFacts, <1>8 DEF PresentStored, Present, Usable
<1>9. ASSUME NEW p \in Procs, PresentStale(p) PROVE SpentTokenIsBeingReplacedOrLost'
    BY <1>9 DEF PresentStale, Present
<1>10. ASSUME NEW p \in Procs, RefreshRefused(p) PROVE SpentTokenIsBeingReplacedOrLost'
    BY <1>10 DEF RefreshRefused
<1>11. ASSUME NEW p \in Procs, RefreshTimeout(p) PROVE SpentTokenIsBeingReplacedOrLost'
    BY <1>11 DEF RefreshTimeout, NoResult, LostWith
<1>12. ASSUME NEW p \in Procs, RefreshBadIDToken(p) PROVE SpentTokenIsBeingReplacedOrLost'
    BY <1>12 DEF RefreshBadIDToken, NoResult, LostWith
<1>13. ASSUME NEW p \in Procs, RefreshAnswered(p) PROVE SpentTokenIsBeingReplacedOrLost'
    BY <1>13 DEF RefreshAnswered, Keeping, Results
<1>14. ASSUME NEW p \in Procs, SaveRefreshed(p) PROVE SpentTokenIsBeingReplacedOrLost'
    BY PersistedType, <1>14 DEF SaveRefreshed, Stored
<1>15. ASSUME NEW p \in Procs, SaveRefreshedFails(p) PROVE SpentTokenIsBeingReplacedOrLost'
    BY <1>15 DEF SaveRefreshedFails, NoResult, LostWith
<1>16. ASSUME NEW p \in Procs, Unlock(p) PROVE SpentTokenIsBeingReplacedOrLost'
    BY <1>16 DEF Unlock
<1>17. ASSUME NEW p \in Procs, LoginFails(p) PROVE SpentTokenIsBeingReplacedOrLost'
    BY <1>17 DEF LoginFails, Finish, NoResult
<1>18. ASSUME NEW p \in Procs, SaveLogin(p) PROVE SpentTokenIsBeingReplacedOrLost'
    BY PersistedType, <1>18 DEF SaveLogin, Stored
<1>19. ASSUME NEW p \in Procs, SaveLoginFails(p) PROVE SpentTokenIsBeingReplacedOrLost'
    BY <1>19 DEF SaveLoginFails, Finish, NoResult
<1>20. ASSUME NEW p \in Procs, WriteResult(p) PROVE SpentTokenIsBeingReplacedOrLost'
    BY <1>20 DEF WriteResult, Finish, NoResult
<1>21. ASSUME NEW p \in Procs, Logout(p) PROVE SpentTokenIsBeingReplacedOrLost'
    BY <1>21 DEF Logout
<1>22. ASSUME NEW p \in Procs, LogoutFails(p) PROVE SpentTokenIsBeingReplacedOrLost'
    BY <1>22 DEF LogoutFails
<1>23. ASSUME NEW p \in Procs, Crash(p) PROVE SpentTokenIsBeingReplacedOrLost'
    BY <1>23 DEF Crash, Finish, NoResult, LostWith
<1>24. ASSUME NEW p \in Procs, IdPGrants(p) PROVE SpentTokenIsBeingReplacedOrLost'
  <2>1. PICK t \in Nat : Granted(p, t)
      BY <1>24, GrantFacts
  <2> QED BY <2>1 DEF Granted
<1>25. ASSUME NEW p \in Procs, Login(p) PROVE SpentTokenIsBeingReplacedOrLost'
  <2>1. PICK t \in Nat : LoggedIn(p, t)
      BY <1>25, LoginFacts
  <2> QED BY <2>1 DEF LoggedIn
<1>26. ASSUME NEW t \in stray, StrayGranted(t) PROVE SpentTokenIsBeingReplacedOrLost'
    BY <1>26 DEF StrayGranted
<1>27. CASE Expire
    BY <1>27 DEF Expire, Entries, Results
<1>28. CASE UNCHANGED vars
    BY <1>28 DEF vars
<1> QED
    BY <1>1, <1>2, <1>3, <1>4, <1>5, <1>6, <1>7, <1>8, <1>9, <1>10, <1>11, <1>12, <1>13,
       <1>14, <1>15, <1>16, <1>17, <1>18, <1>19, <1>20, <1>21, <1>22, <1>23, <1>24, <1>25,
       <1>26, <1>27, <1>28
    DEF Next, Step, Start, WaitLock, Refresh, LogIn

\* IInv is an inductive invariant.
THEOREM InductiveInvariant == Spec => []IInv
<1>1. Init => IInv
    BY TypeInit, LockInit, TokensInit, PrivateInit, ReplacementInit DEF IInv
<1>2. IInv /\ [Next]_vars => IInv'
    BY TypeStep, LockStep, TokensStep, PrivateStep, RotatingOnlyStep,
       KeptStep, SpentStep DEF IInv
<1> QED BY <1>1, <1>2, PTL DEF Spec

\* A spent refresh token stays in the store only while it is being replaced,
\* or because its successor was lost (tryRefresh).
THEOREM SpentTokens == Spec => []SpentTokenIsBeingReplacedOrLost
<1>1. IInv => SpentTokenIsBeingReplacedOrLost
    BY DEF IInv
<1> QED BY <1>1, InductiveInvariant, PTL

\* Expiry changes nothing of the entry but its validity.
LEMMA ExpireFacts ==
    ASSUME TypeOK, Expire
    PROVE  entry' # NoEntry /\ entry'.rt = entry.rt /\ entry'.at = entry.at
<1>1. [entry EXCEPT !.exp = "past"] \in Results
    BY EntryFacts DEF Expire, Results
<1> QED BY <1>1, EntryFacts, RunnerAssumption DEF Expire, Results

\* A store that persists holds the saved refresh token afterwards.
LEMMA SaveFacts ==
    ASSUME TypeOK, Backend # "none", NEW p \in Procs
    PROVE  /\ Stored(res[p]) # NoEntry
           /\ Stored(res[p]).rt = res[p].rt
           /\ Stored(res[p]).at = res[p].at
<1>1. res[p] \in Results
    BY DEF TypeOK
<1>2. Persisted(res[p]) \in Results
    BY <1>1, PersistedType DEF Entries
<1> QED BY <1>1, <1>2, PersistedType, RunnerAssumption DEF Stored

LEMMA ConvergeInit == Init => ConvergeInv
BY PriorAssumption DEF Init, ConvergeInv, Undisturbed, ConcurrentRunsConverge,
   Refreshable, Unsaved

\* Undisturbed runs renew the stored token one after the other, whoever logs in
\* beside them.
LEMMA ConvergeStep == IInv /\ ConvergeInv /\ [Next]_vars => ConvergeInv'
<1> SUFFICES ASSUME IInv /\ ConvergeInv, [Next]_vars
             PROVE  ConvergeInv'
    OBVIOUS
<1> USE DEF IInv, TypeOK, LockInv, CriticalSectionExclusive, TokensInv,
            SpentTokenIsBeingReplacedOrLost, ConvergeInv, ConcurrentRunsConverge,
            Undisturbed, Refreshable, Locks, Rotating, PCs, Section, Unsaved, Ended, Goto
<1>1. ASSUME NEW p \in Procs, CacheReadFails(p) PROVE ConvergeInv'
    BY <1>1 DEF CacheReadFails, Finish, NoResult
<1>2. ASSUME NEW p \in Procs, ServeCached(p) PROVE ConvergeInv'
    BY <1>2 DEF ServeCached, Usable
<1>3. ASSUME NEW p \in Procs, TryRefresh(p) PROVE ConvergeInv'
    BY <1>3 DEF TryRefresh, Usable
<1>4. ASSUME NEW p \in Procs, NothingToRefresh(p) PROVE ConvergeInv'
    BY <1>4 DEF NothingToRefresh
<1>5. ASSUME NEW p \in Procs, AcquireLock(p) PROVE ConvergeInv'
    BY <1>5 DEF AcquireLock
<1>6. ASSUME NEW p \in Procs, LockFails(p) PROVE ConvergeInv'
    BY <1>6 DEF LockFails
<1>7. ASSUME NEW p \in Procs, RereadHit(p) PROVE ConvergeInv'
    BY <1>7 DEF RereadHit, Usable
<1>8. ASSUME NEW p \in Procs, PresentStored(p) PROVE ConvergeInv'
    BY <1>8 DEF PresentStored, Present, Usable
<1>9. ASSUME NEW p \in Procs, PresentStale(p) PROVE ConvergeInv'
    BY <1>9 DEF PresentStale, Present
<1>10. ASSUME NEW p \in Procs, RefreshRefused(p) PROVE ConvergeInv'
    BY <1>10 DEF RefreshRefused
<1>11. ASSUME NEW p \in Procs, RefreshTimeout(p) PROVE ConvergeInv'
    BY <1>11 DEF RefreshTimeout, NoResult
<1>12. ASSUME NEW p \in Procs, RefreshBadIDToken(p) PROVE ConvergeInv'
    BY <1>12 DEF RefreshBadIDToken, IDTokenFatal
<1>13. ASSUME NEW p \in Procs, RefreshAnswered(p) PROVE ConvergeInv'
    BY <1>13 DEF RefreshAnswered, Keeping, Results
<1>14. ASSUME NEW p \in Procs, SaveRefreshed(p) PROVE ConvergeInv'
    BY SaveFacts, <1>14 DEF SaveRefreshed
<1>15. ASSUME NEW p \in Procs, SaveRefreshedFails(p) PROVE ConvergeInv'
    BY <1>15 DEF SaveRefreshedFails, NoResult
<1>16. ASSUME NEW p \in Procs, Unlock(p) PROVE ConvergeInv'
    BY <1>16 DEF Unlock
<1>17. ASSUME NEW p \in Procs, LoginFails(p) PROVE ConvergeInv'
    BY <1>17 DEF LoginFails, Finish, NoResult
<1>18. ASSUME NEW p \in Procs, SaveLogin(p) PROVE ConvergeInv'
    BY SaveFacts, <1>18 DEF SaveLogin
<1>19. ASSUME NEW p \in Procs, SaveLoginFails(p) PROVE ConvergeInv'
    BY <1>19 DEF SaveLoginFails, Finish, NoResult
<1>20. ASSUME NEW p \in Procs, WriteResult(p) PROVE ConvergeInv'
    BY <1>20 DEF WriteResult, Finish, Selected, NoResult
<1>21. ASSUME NEW p \in Procs, Logout(p) PROVE ConvergeInv'
    BY <1>21 DEF Logout
<1>22. ASSUME NEW p \in Procs, LogoutFails(p) PROVE ConvergeInv'
    BY <1>22 DEF LogoutFails
<1>23. ASSUME NEW p \in Procs, Crash(p) PROVE ConvergeInv'
    BY <1>23 DEF Crash, Finish, NoResult
<1>24. ASSUME NEW p \in Procs, IdPGrants(p) PROVE ConvergeInv'
  <2>1. PICK t \in Nat : Granted(p, t)
      BY <1>24, GrantFacts
  <2> QED BY <2>1 DEF Granted
<1>25. ASSUME NEW p \in Procs, Login(p), Undisturbed PROVE ConvergeInv'
  <2>1. PICK a \in LoginAnswers :
          /\ Issue(a)
          /\ \/ IDTokenFatal(p, ResultOf(a, NewRT(a)))
             \/ /\ res' = [res EXCEPT ![p] = ResultOf(a, NewRT(a))]
                /\ Goto(p, "saveLogin")
                /\ UNCHANGED rt
      BY <1>25 DEF Login
  <2>2. a \in AnswerKinds /\ a.newRT
      BY <1>25, RunnerAssumption
  <2>3. /\ ResultOf(a, NewRT(a)).rt # 0 /\ ResultOf(a, NewRT(a)).at
        /\ ResultOf(a, NewRT(a)) \in Results
      BY <2>1, <2>2, IssueFacts DEF ResultOf
  <2>4. ~IDTokenFatal(p, ResultOf(a, NewRT(a)))
      BY <1>25 DEF IDTokenFatal
  <2> QED BY <1>25, <2>1, <2>3, <2>4 DEF Login
<1>26. ASSUME NEW t \in stray, StrayGranted(t) PROVE ConvergeInv'
    BY <1>26 DEF StrayGranted
<1>27. CASE Expire
    BY <1>27, ExpireFacts DEF Expire
<1>28. CASE UNCHANGED vars
    BY <1>28 DEF vars
<1> QED
    BY <1>1, <1>2, <1>3, <1>4, <1>5, <1>6, <1>7, <1>8, <1>9, <1>10, <1>11, <1>12, <1>13,
       <1>14, <1>15, <1>16, <1>17, <1>18, <1>19, <1>20, <1>21, <1>22, <1>23, <1>24, <1>25,
       <1>26, <1>27, <1>28
    DEF Next, Step, Start, WaitLock, Refresh, LogIn

\* Undisturbed concurrent runs never fail, no refresh is refused, and nobody logs
\* in who has not given up on the lock.
THEOREM Convergence == Spec => []ConcurrentRunsConverge
<1>1. ConvergeInv => ConcurrentRunsConverge
    BY DEF ConvergeInv, ConcurrentRunsConverge
<1> QED BY <1>1, InductiveInvariant, ConvergeInit, ConvergeStep, PTL DEF Spec

\* No step of the critical section drops the refresh token.
LEMMA SectionKeepsStep == IInv /\ [Next]_vars => [SectionKeepsRefreshToken]_vars
<1> SUFFICES ASSUME IInv, [Next]_vars
             PROVE  SectionKeepsRefreshToken
    OBVIOUS
<1> USE DEF IInv, TypeOK, TokensInv, SectionKeepsRefreshToken, Refreshable, PCs, Section,
            Ended, Goto
<1>1. ASSUME NEW p \in Procs, CacheReadFails(p) PROVE SectionKeepsRefreshToken
    BY <1>1 DEF CacheReadFails, Finish
<1>2. ASSUME NEW p \in Procs, ServeCached(p) PROVE SectionKeepsRefreshToken
    BY <1>2 DEF ServeCached
<1>3. ASSUME NEW p \in Procs, TryRefresh(p) PROVE SectionKeepsRefreshToken
    BY <1>3 DEF TryRefresh
<1>4. ASSUME NEW p \in Procs, NothingToRefresh(p) PROVE SectionKeepsRefreshToken
    BY <1>4 DEF NothingToRefresh
<1>5. ASSUME NEW p \in Procs, AcquireLock(p) PROVE SectionKeepsRefreshToken
    BY <1>5 DEF AcquireLock
<1>6. ASSUME NEW p \in Procs, LockFails(p) PROVE SectionKeepsRefreshToken
    BY <1>6 DEF LockFails
<1>7. ASSUME NEW p \in Procs, RereadHit(p) PROVE SectionKeepsRefreshToken
    BY <1>7 DEF RereadHit
<1>8. ASSUME NEW p \in Procs, PresentStored(p) PROVE SectionKeepsRefreshToken
    BY <1>8 DEF PresentStored, Present
<1>9. ASSUME NEW p \in Procs, PresentStale(p) PROVE SectionKeepsRefreshToken
    BY <1>9 DEF PresentStale, Present
<1>10. ASSUME NEW p \in Procs, RefreshRefused(p) PROVE SectionKeepsRefreshToken
    BY <1>10 DEF RefreshRefused
<1>11. ASSUME NEW p \in Procs, RefreshTimeout(p) PROVE SectionKeepsRefreshToken
    BY <1>11 DEF RefreshTimeout
<1>12. ASSUME NEW p \in Procs, RefreshBadIDToken(p) PROVE SectionKeepsRefreshToken
    BY <1>12 DEF RefreshBadIDToken
<1>13. ASSUME NEW p \in Procs, RefreshAnswered(p) PROVE SectionKeepsRefreshToken
    BY <1>13 DEF RefreshAnswered
<1>14. ASSUME NEW p \in Procs, SaveRefreshed(p) PROVE SectionKeepsRefreshToken
    BY SaveFacts, <1>14 DEF SaveRefreshed, Stored
<1>15. ASSUME NEW p \in Procs, SaveRefreshedFails(p) PROVE SectionKeepsRefreshToken
    BY <1>15 DEF SaveRefreshedFails
<1>16. ASSUME NEW p \in Procs, Unlock(p) PROVE SectionKeepsRefreshToken
    BY <1>16 DEF Unlock
<1>17. ASSUME NEW p \in Procs, LoginFails(p) PROVE SectionKeepsRefreshToken
    BY <1>17 DEF LoginFails, Finish
<1>18. ASSUME NEW p \in Procs, SaveLogin(p) PROVE SectionKeepsRefreshToken
    BY <1>18 DEF SaveLogin
<1>19. ASSUME NEW p \in Procs, SaveLoginFails(p) PROVE SectionKeepsRefreshToken
    BY <1>19 DEF SaveLoginFails, Finish
<1>20. ASSUME NEW p \in Procs, WriteResult(p) PROVE SectionKeepsRefreshToken
    BY <1>20 DEF WriteResult, Finish
<1>21. ASSUME NEW p \in Procs, Logout(p) PROVE SectionKeepsRefreshToken
    BY <1>21 DEF Logout
<1>22. ASSUME NEW p \in Procs, LogoutFails(p) PROVE SectionKeepsRefreshToken
    BY <1>22 DEF LogoutFails
<1>23. ASSUME NEW p \in Procs, Crash(p) PROVE SectionKeepsRefreshToken
    BY <1>23 DEF Crash, Finish
<1>24. ASSUME NEW p \in Procs, IdPGrants(p) PROVE SectionKeepsRefreshToken
    BY <1>24 DEF IdPGrants
<1>25. ASSUME NEW p \in Procs, Login(p) PROVE SectionKeepsRefreshToken
    BY <1>25 DEF Login, Finish
<1>26. ASSUME NEW t \in stray, StrayGranted(t) PROVE SectionKeepsRefreshToken
    BY <1>26 DEF StrayGranted
<1>27. CASE Expire
    BY <1>27 DEF Expire
<1>28. CASE UNCHANGED vars
    BY <1>28 DEF vars
<1> QED
    BY <1>1, <1>2, <1>3, <1>4, <1>5, <1>6, <1>7, <1>8, <1>9, <1>10, <1>11, <1>12, <1>13,
       <1>14, <1>15, <1>16, <1>17, <1>18, <1>19, <1>20, <1>21, <1>22, <1>23, <1>24, <1>25,
       <1>26, <1>27, <1>28
    DEF Next, Step, Start, WaitLock, Refresh, LogIn

\* Only a login or a logout drops a profile's refresh token.
THEOREM RefreshKeepsRefreshToken == Spec => OnlyLoginDropsRefreshToken
BY InductiveInvariant, SectionKeepsStep, PTL
   DEF Spec, OnlyLoginDropsRefreshToken

(***************************************************************************)
(* What it takes to lose a token                                           *)
(***************************************************************************)

\* Nothing was lost, no request is without its sender, and an answer is one that the
\* IdP may give.
QuietInv ==
    /\ lost = {} /\ stray = {}
    /\ \A p \in Procs : pc[p] = "answered" => \E a \in Answers : res[p].idt = a.idt

LEMMA QuietStep ==
    ASSUME Faults \cap {"crash", "refresh", "save"} = {},
           IDRuns = {} \/ \A a \in Answers : a.idt # "bad",
           TypeOK, QuietInv, [Next]_vars
    PROVE  QuietInv'
<1> USE DEF TypeOK, Goto
<1>1. ASSUME NEW p \in Procs, Step(p)
      PROVE  /\ lost' = {} /\ stray' = {}
             /\ pc'[p] = "answered" => \E a \in Answers : res'[p].idt = a.idt
             /\ \A q \in Procs \ {p} : pc'[q] = pc[q] /\ res'[q] = res[q]
  <2>1. CASE Start(p)
    BY <1>1, <2>1 DEF QuietInv, Start, CacheReadFails, ServeCached, TryRefresh,
       NothingToRefresh, Logout, LogoutFails, Finish
  <2>2. CASE WaitLock(p)
    BY <1>1, <2>2 DEF QuietInv, WaitLock, AcquireLock, LockFails
  <2>3. CASE LogIn(p)
    BY <1>1, <2>3 DEF QuietInv, LogIn, Login, LoginFails, SaveLogin, SaveLoginFails,
       WriteResult, Finish
  <2>4. CASE IdPGrants(p)
    BY <1>1, <2>4 DEF QuietInv, IdPGrants, ResultOf
  <2>5. CASE RereadHit(p) \/ PresentStored(p) \/ PresentStale(p) \/ RefreshRefused(p)
              \/ RefreshAnswered(p) \/ SaveRefreshed(p) \/ Unlock(p)
    BY <1>1, <2>5 DEF QuietInv, RereadHit, PresentStored, PresentStale, Present,
       RefreshRefused, RefreshAnswered, SaveRefreshed, Unlock
  <2>6. ~RefreshTimeout(p) /\ ~SaveRefreshedFails(p)
    BY DEF RefreshTimeout, SaveRefreshedFails
  <2>7. ~RefreshBadIDToken(p)
    BY DEF QuietInv, RefreshBadIDToken, IDTokenFatal
  <2> QED BY <1>1, <2>1, <2>2, <2>3, <2>4, <2>5, <2>6, <2>7 DEF Step, Refresh
<1>2. ASSUME NEW p \in Procs, Step(p) PROVE QuietInv'
  BY <1>1, <1>2 DEF QuietInv
<1>3. \A p \in Procs : ~Crash(p)
  BY DEF Crash
<1>4. \A t \in stray : ~StrayGranted(t)
  BY DEF QuietInv
<1>5. CASE Expire \/ UNCHANGED vars
  BY <1>5 DEF Expire, vars, QuietInv
<1> QED BY <1>2, <1>3, <1>4, <1>5 DEF Next

\* Without a crash, an abandoned refresh, a failed save and a fatal id_token no token
\* is ever lost, whatever logouts, logins, lock waits and refusals do: then a spent one is
\* stored only until its successor is (runner.tryRefresh).
THEOREM OnlyFaultsLoseTokens ==
    ASSUME Faults \cap {"crash", "refresh", "save"} = {},
           IDRuns = {} \/ \A a \in Answers : a.idt # "bad",
           Locks \/ \A a \in Answers : a.newRT
    PROVE  Spec => [](entry # NoEntry /\ entry.rt \in redeemed =>
                        \E p \in Procs : Rotating(p) /\ rt[p] = entry.rt)
<1>1. Init => QuietInv
  BY DEF Init, QuietInv
<1>2. TypeOK /\ QuietInv /\ [Next]_vars => QuietInv'
  BY QuietStep
<1>3. QuietInv /\ SpentTokenIsBeingReplacedOrLost =>
        (entry # NoEntry /\ entry.rt \in redeemed =>
           \E p \in Procs : Rotating(p) /\ rt[p] = entry.rt)
  BY DEF QuietInv, SpentTokenIsBeingReplacedOrLost
<1> QED BY <1>1, <1>2, <1>3, TypeCorrect, SpentTokens, PTL DEF Spec

(***************************************************************************)
(* The runner in time                                                      *)
(***************************************************************************)

\* A run's step with a clock is a step of the runner, and a tick is none.
LEMMA TimedStepIsStep == [TimedNext]_timedVars => [Next]_vars
BY DEF TimedNext, TimedStep, TimedExpire, Tick, timedVars, Next

\* The runner in time implements the runner.
THEOREM TimedImplementsRunner == TimedSpec => Spec
<1>1. TimedInit => Init
  BY DEF TimedInit
<1> QED BY <1>1, TimedStepIsStep, PTL DEF TimedSpec, Spec

\* In time too, undisturbed concurrent runs converge on one winner's renewal, also
\* those that give up on the lock (runner.tryRefresh).
THEOREM TimedConvergence == TimedSpec => []ConcurrentRunsConverge
BY TimedImplementsRunner, Convergence

\* The way of a process: it starts once, waits for the lock at most once after that,
\* and is in the section at most once after the wait.
LEMMA StepPlaces ==
    ASSUME TypeOK, NEW p \in Procs, Step(p)
    PROVE  /\ \A q \in Procs \ {p} : pc'[q] = pc[q]
           /\ pc'[p] # "start"
           /\ pc'[p] = "wantLock" => pc[p] = "start"
           /\ pc'[p] \in Section => pc[p] \in {"wantLock"} \cup Section
           /\ pc[p] = "wantLock" =>
                LockFails(p) \/ (pc'[p] \in Section /\ (Locks => holders = {}))
<1> USE DEF TypeOK, Section, Goto
<1>1. CASE Start(p)
  BY <1>1 DEF Start, CacheReadFails, ServeCached, TryRefresh, NothingToRefresh,
     Logout, LogoutFails, Finish
<1>2. CASE WaitLock(p)
  BY <1>2 DEF WaitLock, AcquireLock, LockFails
<1>3. CASE Refresh(p)
  BY <1>3 DEF Refresh, RereadHit, PresentStored, PresentStale, Present, IdPGrants,
     RefreshRefused, RefreshTimeout, RefreshBadIDToken, RefreshAnswered,
     SaveRefreshed, SaveRefreshedFails, Unlock
<1>4. CASE LogIn(p)
  BY <1>4 DEF LogIn, Login, LoginFails, SaveLogin, SaveLoginFails, WriteResult, Finish
<1> QED BY <1>1, <1>2, <1>3, <1>4 DEF Step

LEMMA PastFacts ==
    /\ Past \in SUBSET Procs /\ IsFiniteSet(Past) /\ Cardinality(Past) \in Nat
BY TimedAssumption, FS_Subset, FS_CardinalityType DEF Past

LEMMA OthersFacts ==
    ASSUME NEW p \in Procs, NEW S \in SUBSET (Procs \ {p})
    PROVE  /\ Cardinality(S) \in Nat /\ Cardinality(Procs) - 1 \in Nat
           /\ Cardinality(S) <= Cardinality(Procs) - 1
           /\ S # {} => Cardinality(S) > 0
<1>1. /\ IsFiniteSet(Procs \ {p})
      /\ Cardinality(Procs \ {p}) = Cardinality(Procs) - 1
      /\ Cardinality(Procs \ {p}) \in Nat
  BY TimedAssumption, FS_RemoveElement, FS_CardinalityType
<1>2. IsFiniteSet(S) /\ Cardinality(S) <= Cardinality(Procs \ {p})
  BY <1>1, FS_Subset
<1>3. Cardinality(S) \in Nat /\ (S # {} => Cardinality(S) # 0)
  BY <1>2, FS_EmptySet, FS_CardinalityType
<1> QED BY <1>1, <1>2, <1>3

LEMMA TimedInvInit == TimedInit => TimedInv
<1> SUFFICES ASSUME TimedInit PROVE TimedInv
  OBVIOUS
<1>1. \A p \in Procs : pc[p] = "start" /\ waited[p] = 0 /\ worked[p] = 0
  BY DEF TimedInit, Init
<1> QED BY <1>1, TimedAssumption
     DEF TimedInit, TimedInv, TimedTypeOK, ClocksInv, WaitInv, Waiting

LEMMA Products ==
    ASSUME NEW m \in Nat, NEW n \in Nat
    PROVE  /\ m * n \in Nat
           /\ m * (n + 1) = m * n + m
           /\ (m + 1) * n >= m * n
           /\ \A k \in Nat : k <= n => m * k <= m * n
<1>1. /\ m * n \in Nat /\ m * (n + 1) = m * n + m /\ (m + 1) * n = m * n + n
  OBVIOUS
<1>2. ASSUME NEW k \in Nat, k <= n PROVE m * k <= m * n
  <2>1. PICK d \in Nat : n = k + d
    <3>1. n - k \in Nat /\ n = k + (n - k)
      BY <1>2
    <3> QED BY <3>1
  <2>2. m * n = m * k + m * d /\ m * d \in Nat /\ m * k \in Nat
    BY <2>1
  <2> QED BY <2>2
<1> QED BY <1>1, <1>2

\* Who is where, from the lock's point of view.
LEMMA Places ==
    ASSUME IInv
    PROVE  /\ Past \in SUBSET Procs /\ holders \in SUBSET Procs
           /\ \A q \in Procs : q \in holders <=> pc[q] \in Section
           /\ Locks => \A q, r \in holders : q = r
           /\ \A q \in Procs :
                q \in holders \cup Past <=> pc[q] \notin {"start", "wantLock"}
BY DEF IInv, TypeOK, LockInv, CriticalSectionExclusive, Past, Section

LEMMA TimedStepKeepsClocks ==
    ASSUME IInv, TimedInv, NEW p \in Procs, TimedStep(p)
    PROVE  /\ TimedTypeOK' /\ ClocksInv' /\ slowest' = slowest
           /\ \A q \in Procs \ {p} : waited'[q] = waited[q] /\ worked'[q] = worked[q]
           /\ pc'[p] = "wantLock" => waited'[p] = 0
           /\ pc'[p] \in Section /\ pc[p] \in Section => worked'[p] = worked[p]
<1>1. /\ TimedTypeOK /\ ClocksInv /\ TypeOK /\ Step(p)
      /\ waited' = [waited EXCEPT ![p] = IF pc'[p] \in {"wantLock"} THEN waited[p] ELSE 0]
      /\ worked' = [worked EXCEPT ![p] = IF pc'[p] \in Section THEN worked[p] ELSE 0]
      /\ slowest' = slowest
  BY DEF TimedInv, IInv, TimedStep, Kept
<1>2. TimedTypeOK'
  BY <1>1, TimedAssumption DEF TimedTypeOK
<1>3. \A q \in Procs \ {p} :
        waited'[q] = waited[q] /\ worked'[q] = worked[q] /\ pc'[q] = pc[q]
  BY <1>1, StepPlaces DEF TimedTypeOK
<1>4. /\ waited'[p] = IF pc'[p] = "wantLock" THEN waited[p] ELSE 0
      /\ worked'[p] = IF pc'[p] \in Section THEN worked[p] ELSE 0
  BY <1>1 DEF TimedTypeOK
<1>5. /\ pc'[p] = "wantLock" => waited[p] = 0
      /\ worked[p] \in 0..lockAcquireTimeout /\ worked[p] <= slowest
      /\ slowest \in 0..lockAcquireTimeout
  BY <1>1, StepPlaces DEF ClocksInv, TimedTypeOK
<1>6. ClocksInv'
  BY <1>1, <1>3, <1>4, <1>5 DEF ClocksInv
<1> QED BY <1>1, <1>2, <1>3, <1>4, <1>5, <1>6

\* The wait of one process, from WaitInv.
WaitOf(q) ==
    \/ /\ slowest = lockAcquireTimeout
       /\ waited[q] = 0 \/ holders \cup Past # {}
    \/ /\ holders = {} => waited[q] <= slowest * Cardinality(Past)
       /\ \A r \in holders : waited[q] <= slowest * Cardinality(Past) + worked[r]

LEMMA TimedStepKeepsWait ==
    ASSUME IInv, IInv', TimedInv, NEW p \in Procs, TimedStep(p), Locks,
           NEW q \in Procs, pc'[q] = "wantLock"
    PROVE  WaitOf(q)'
<1>1. /\ TypeOK /\ Step(p) /\ slowest' = slowest /\ slowest \in Nat
      /\ \A r \in Procs : worked[r] \in Nat /\ worked[r] <= slowest /\ worked'[r] \in Nat
                          /\ waited[r] \in Nat
      /\ Cardinality(Past) \in Nat /\ Cardinality(Past') \in Nat
      /\ IsFiniteSet(Past) /\ IsFiniteSet(Past')
      /\ slowest * Cardinality(Past) \in Nat /\ slowest * Cardinality(Past') \in Nat
  <2>1. TypeOK /\ Step(p) /\ slowest' = slowest /\ TimedTypeOK /\ TimedTypeOK' /\ ClocksInv
    BY TimedStepKeepsClocks DEF TimedInv, IInv, TimedStep
  <2>2. IsFiniteSet(Past') /\ Cardinality(Past') \in Nat
    <3>1. Past' \in SUBSET Procs
      BY DEF Past
    <3> QED BY <3>1, TimedAssumption, FS_Subset, FS_CardinalityType
  <2>3. slowest \in Nat
    BY <2>1, TimedAssumption DEF TimedTypeOK
  <2> QED BY <2>1, <2>2, <2>3, PastFacts, Products, TimedAssumption
       DEF TimedTypeOK, ClocksInv
<1>2. /\ \A r \in Procs : r \in holders <=> pc[r] \in Section
      /\ \A r \in Procs : r \in holders' <=> pc'[r] \in Section
      /\ \A r, t \in holders : r = t
      /\ \A r, t \in holders' : r = t
      /\ holders \in SUBSET Procs /\ holders' \in SUBSET Procs
  <2>1. /\ \A r \in Procs : r \in holders' <=> pc'[r] \in Section
        /\ \A r, t \in Procs : pc'[r] \in Section /\ pc'[t] \in Section => r = t
        /\ holders' \in SUBSET Procs
    BY DEF IInv, TypeOK, LockInv, CriticalSectionExclusive, Locks
  <2> QED BY <2>1, Places
<1>3. CASE q = p
  <2>1. waited'[q] = 0
    BY <1>3, TimedStepKeepsClocks
  <2> QED BY <1>1, <1>2, <2>1 DEF WaitOf
<1>4. CASE q # p
  <2>1. /\ pc[q] = "wantLock" /\ waited'[q] = waited[q]
    BY <1>1, <1>4, StepPlaces, TimedStepKeepsClocks
  <2>2. WaitOf(q)
    BY <2>1 DEF TimedInv, WaitInv, WaitOf, Waiting
  <2>3. CASE slowest = lockAcquireTimeout /\ (waited[q] = 0 \/ holders \cup Past # {})
    <3>1. ASSUME NEW r \in holders \cup Past PROVE r \in holders' \cup Past'
      <4>1. r \in Procs /\ pc[r] \notin {"start", "wantLock"}
        BY Places
      <4>2. pc'[r] \notin {"start", "wantLock"}
        BY <1>1, <4>1, StepPlaces
      <4> QED BY <1>2, <4>1, <4>2 DEF Past
    <3> QED BY <1>1, <2>1, <2>3, <3>1 DEF WaitOf
  <2>4. CASE /\ holders = {} => waited[q] <= slowest * Cardinality(Past)
             /\ \A r \in holders : waited[q] <= slowest * Cardinality(Past) + worked[r]
    <3> SUFFICES
           /\ holders' = {} => waited[q] <= slowest * Cardinality(Past')
           /\ \A r \in holders' : waited[q] <= slowest * Cardinality(Past') + worked'[r]
      BY <1>1, <2>1 DEF WaitOf
    <3>1. CASE pc[p] \in Section /\ pc'[p] \in Section
      <4>1. Past' = Past
        BY <1>1, <3>1, StepPlaces DEF Past
      <4>2. holders = {p} /\ holders' = {p} /\ worked'[p] = worked[p]
        BY <1>2, <3>1, TimedStepKeepsClocks
      <4> QED BY <2>4, <4>1, <4>2
    <3>2. CASE pc[p] \in Section /\ pc'[p] \notin Section
      <4>1. Past' = Past \cup {p} /\ p \notin Past
        BY <1>1, <3>2, StepPlaces DEF Past, Section
      <4>2. holders = {p} /\ holders' = {}
        BY <1>1, <1>2, <3>2, StepPlaces
      <4>3. Cardinality(Past') = Cardinality(Past) + 1
        BY <1>1, <4>1, FS_AddElement
      <4>4. slowest * Cardinality(Past') = slowest * Cardinality(Past) + slowest
        BY <1>1, <4>3, Products
      <4>5. waited[q] <= slowest * Cardinality(Past) + worked[p]
        BY <2>4, <4>2
      <4> HIDE DEF Procs
      <4> QED BY <1>1, <4>2, <4>4, <4>5
    <3>3. CASE pc[p] \notin Section /\ pc'[p] \in Section
      <4>1. pc[p] = "wantLock" /\ holders = {}
        BY <1>1, <3>3, StepPlaces DEF LockFails, Goto, Section, TypeOK
      <4>2. Past' = Past
        BY <1>1, <3>3, <4>1, StepPlaces DEF Past
      <4>3. waited[q] <= slowest * Cardinality(Past)
        BY <2>4, <4>1
      <4> QED BY <1>1, <1>2, <4>2, <4>3
    <3>4. CASE pc[p] \notin Section /\ pc'[p] \notin Section
      <4>1. Past \subseteq Past'
        BY <1>1, <3>4, StepPlaces DEF Past
      <4>2. holders' = holders /\ p \notin holders
        <5>1. \A r \in Procs : pc'[r] \in Section <=> pc[r] \in Section
          BY <1>1, <3>4, StepPlaces
        <5>2. \A r \in Procs : r \in holders' <=> r \in holders
          BY <1>2, <5>1
        <5> QED BY <1>2, <3>4, <5>2
      <4>3. \A r \in holders : worked'[r] = worked[r]
        BY <1>2, <4>2, TimedStepKeepsClocks
      <4>4. slowest * Cardinality(Past) <= slowest * Cardinality(Past')
        <5>1. Cardinality(Past) <= Cardinality(Past')
          BY <1>1, <4>1, FS_Subset
        <5> QED BY <1>1, <5>1, Products
      <4>5. holders' = {} => waited[q] <= slowest * Cardinality(Past')
        BY <1>1, <2>4, <4>2, <4>4
      <4>6. ASSUME NEW r \in holders'
            PROVE  waited[q] <= slowest * Cardinality(Past') + worked'[r]
        <5>1. /\ waited[q] <= slowest * Cardinality(Past) + worked[r]
              /\ worked'[r] = worked[r] /\ r \in Procs
          BY <1>2, <2>4, <4>2, <4>3
        <5> QED BY <1>1, <4>4, <5>1
      <4> QED BY <4>5, <4>6
    <3> QED BY <3>1, <3>2, <3>3, <3>4
  <2> QED BY <2>2, <2>3, <2>4 DEF WaitOf
<1> QED BY <1>3, <1>4

\* A tick adds one to the wait, to the holder's time inside, and to slowest if that
\* holder is the slowest now.
LEMMA TickKeepsInv ==
    ASSUME IInv, TimedInv, Tick
    PROVE  TimedInv'
<1>1. /\ TimedTypeOK /\ ClocksInv /\ UNCHANGED vars
      /\ \A p \in Procs :
           /\ waited[p] \in 0..lockAcquireTimeout /\ worked[p] \in 0..lockAcquireTimeout
           /\ worked[p] <= slowest
      /\ slowest \in 0..lockAcquireTimeout /\ lockAcquireTimeout \in Nat \ {0}
  BY TimedAssumption DEF TimedInv, TimedTypeOK, ClocksInv, Tick
<1>2. /\ waited' \in [Procs -> 0..lockAcquireTimeout]
      /\ worked' \in [Procs -> 0..lockAcquireTimeout]
      /\ \A p \in Procs : pc[p] = "wantLock" /\ waited[p] < lockAcquireTimeout
                            => waited'[p] = waited[p] + 1
      /\ \A p \in Procs : pc[p] # "wantLock" => waited'[p] = waited[p]
      /\ \A p \in Procs : pc[p] \in Section /\ worked[p] < lockAcquireTimeout
                            => worked'[p] = worked[p] + 1
      /\ \A p \in Procs : worked'[p] \in {worked[p], worked[p] + 1}
      /\ \A p \in Procs : pc[p] \notin Section => worked'[p] = worked[p]
  BY <1>1 DEF Tick, Counting, UpTo
<1>3. /\ slowest' \in 0..lockAcquireTimeout
      /\ slowest' \in {slowest, slowest + 1}
      /\ slowest = lockAcquireTimeout => slowest' = lockAcquireTimeout
      /\ \A p \in Procs : worked'[p] <= slowest'
  <2>1. slowest' = UpTo(lockAcquireTimeout,
                     IF \E p \in Procs : worked'[p] > slowest THEN slowest + 1 ELSE slowest)
    BY DEF Tick
  <2>2. \A p \in Procs : worked'[p] \in 0..lockAcquireTimeout
    BY <1>2
  <2>3. CASE \E p \in Procs : worked'[p] > slowest
    BY <1>1, <1>2, <2>1, <2>2, <2>3 DEF UpTo
  <2>4. CASE ~ \E p \in Procs : worked'[p] > slowest
    BY <1>1, <1>2, <2>1, <2>2, <2>4 DEF UpTo
  <2> QED BY <2>3, <2>4
<1>4. TimedTypeOK'
  BY <1>2, <1>3 DEF TimedTypeOK
<1>5. ClocksInv'
  <2>1. pc' = pc
    BY <1>1 DEF vars
  <2> QED BY <1>1, <1>2, <1>3, <2>1 DEF ClocksInv
<1>6. ASSUME Locks, NEW q \in Procs, pc'[q] = "wantLock"
      PROVE  WaitOf(q)'
  <2>1. /\ pc' = pc /\ holders' = holders /\ Past' = Past /\ pc[q] = "wantLock"
        /\ holders # {} /\ holders \in SUBSET Procs
        /\ \A r \in holders : r \in Procs /\ pc[r] \in Section
    BY <1>1, <1>6, Places DEF vars, Past, Tick, Waiting
  <2>2. WaitOf(q) /\ waited'[q] = waited[q] + 1 /\ waited[q] \in Nat
    <3>1. waited[q] # lockAcquireTimeout
      BY <2>1 DEF Tick, Waiting, Expired
    <3>2. WaitOf(q)
      BY <1>6, <2>1 DEF TimedInv, WaitInv, WaitOf, Waiting
    <3> QED BY <1>1, <1>2, <2>1, <3>1, <3>2
  <2>3. CASE slowest = lockAcquireTimeout
    BY <1>3, <2>1, <2>3 DEF WaitOf
  <2>4. CASE slowest # lockAcquireTimeout
    <3>1. /\ slowest \in Nat /\ slowest' \in Nat /\ Cardinality(Past) \in Nat
          /\ slowest * Cardinality(Past) \in Nat /\ slowest' * Cardinality(Past) \in Nat
      BY <1>1, <1>3, PastFacts, Products
    <3>2. slowest * Cardinality(Past) <= slowest' * Cardinality(Past)
      BY <1>3, <3>1, Products
    <3>3. ASSUME NEW r \in holders
          PROVE  waited'[q] <= slowest' * Cardinality(Past) + worked'[r]
      <4>1. worked[r] \in Nat /\ worked'[r] = worked[r] + 1
        BY <1>1, <1>2, <2>1, <2>4
      <4>2. waited[q] <= slowest * Cardinality(Past) + worked[r]
        BY <2>2, <2>4 DEF WaitOf
      <4> HIDE DEF Procs
      <4> QED BY <2>2, <3>1, <3>2, <4>1, <4>2
    <3> QED BY <2>1, <3>3 DEF WaitOf
  <2> QED BY <2>3, <2>4
<1>7. WaitInv'
  BY <1>6 DEF WaitInv, WaitOf, Waiting, Locks
<1> QED BY <1>4, <1>5, <1>7 DEF TimedInv

LEMMA TimedInvStep == IInv /\ IInv' /\ TimedInv /\ [TimedNext]_timedVars => TimedInv'
<1> SUFFICES ASSUME IInv, IInv', TimedInv, [TimedNext]_timedVars
             PROVE  TimedInv'
  OBVIOUS
<1>1. ASSUME NEW p \in Procs, TimedStep(p) PROVE TimedInv'
  <2>1. WaitInv'
    BY <1>1, TimedStepKeepsWait DEF WaitInv, WaitOf, Waiting, Locks
  <2> QED BY <1>1, <2>1, TimedStepKeepsClocks DEF TimedInv
<1>2. CASE TimedExpire \/ UNCHANGED timedVars
  <2>1. UNCHANGED <<pc, holders, waited, worked, slowest>>
    BY <1>2 DEF TimedExpire, Expire, clocks, timedVars, vars
  <2> QED BY <2>1 DEF TimedInv, TimedTypeOK, ClocksInv, WaitInv, Waiting, Past, Locks
<1>3. CASE Tick
  BY <1>3, TickKeepsInv
<1> QED BY <1>1, <1>2, <1>3 DEF TimedNext

THEOREM TimedInvariant == TimedSpec => [](IInv /\ TimedInv)
<1>1. TimedSpec => []IInv
  BY TimedImplementsRunner, InductiveInvariant
<1> QED BY <1>1, TimedInvInit, TimedInvStep, PTL DEF TimedSpec

\* A wait that ends without the lock was at most as long as the sections of the
\* others together, each of which is at most the slowest.
LEMMA GivesUpStep ==
    ASSUME IInv, TimedInv, NEW p \in Procs, [TimedNext]_timedVars,
           pc[p] = "wantLock", pc'[p] = "login"
    PROVE  slowest * (Cardinality(Procs) - 1) >= lockAcquireTimeout
<1>1. LockFails(p) /\ Expired(p) /\ Locks
  <2>1. TypeOK
    BY DEF IInv
  <2>2. \E q \in Procs : TimedStep(q)
    BY DEF TimedNext, TimedExpire, Expire, Tick, timedVars, vars
  <2>3. TimedStep(p)
    BY <2>1, <2>2, StepPlaces DEF TimedStep
  <2>4. LockFails(p)
    BY <2>1, <2>3, StepPlaces DEF TimedStep, Section
  <2> QED BY <2>3, <2>4 DEF TimedStep, LockFails
<1>2. /\ waited[p] = lockAcquireTimeout /\ lockAcquireTimeout \in Nat \ {0}
      /\ slowest \in Nat
      /\ \A q \in Procs : worked[q] \in Nat /\ worked[q] <= slowest
  BY <1>1, TimedAssumption DEF Expired, TimedInv, TimedTypeOK, ClocksInv
<1>3. WaitOf(p)
  BY <1>1 DEF TimedInv, WaitInv, WaitOf, Waiting
<1> DEFINE others == Cardinality(Procs) - 1
<1>4. p \notin Past /\ p \notin holders /\ Past \in SUBSET Procs /\ holders \in SUBSET Procs
  BY Places DEF Past, Section
<1>5. others \in Nat /\ Cardinality(Past) \in Nat /\ Cardinality(Past) <= others
  <2>1. Past \in SUBSET (Procs \ {p})
    BY <1>4
  <2> QED BY <2>1, OthersFacts
<1>6. CASE slowest = lockAcquireTimeout /\ (waited[p] = 0 \/ holders \cup Past # {})
  <2>1. others > 0
    <3>1. holders \cup Past \in SUBSET (Procs \ {p}) /\ holders \cup Past # {}
      BY <1>2, <1>4, <1>6
    <3>2. Cardinality(holders \cup Past) \in Nat /\ Cardinality(holders \cup Past) > 0
          /\ Cardinality(holders \cup Past) <= others
      BY <3>1, OthersFacts
    <3> HIDE DEF others
    <3> QED BY <1>5, <3>2
  <2>2. slowest * 1 <= slowest * others
    BY <1>2, <1>5, <2>1, Products
  <2> QED BY <1>2, <1>6, <2>2
<1>7. CASE holders = {} /\ waited[p] <= slowest * Cardinality(Past)
  <2>1. slowest * Cardinality(Past) <= slowest * others
    BY <1>2, <1>5, Products
  <2> QED BY <1>2, <1>5, <1>7, <2>1, Products
<1>8. ASSUME NEW q \in holders, waited[p] <= slowest * Cardinality(Past) + worked[q]
      PROVE  slowest * others >= lockAcquireTimeout
  <2>1. q \notin Past /\ q \in Procs /\ Past \cup {q} \in SUBSET (Procs \ {p})
    BY <1>4, Places DEF Past
  <2>2. Cardinality(Past) + 1 <= others
    <3>1. Cardinality(Past \cup {q}) = Cardinality(Past) + 1
      BY <2>1, PastFacts, FS_AddElement
    <3> QED BY <2>1, <3>1, OthersFacts
  <2>3. /\ slowest * (Cardinality(Past) + 1) <= slowest * others
        /\ slowest * (Cardinality(Past) + 1) = slowest * Cardinality(Past) + slowest
        /\ slowest * Cardinality(Past) \in Nat /\ slowest * others \in Nat
    <3> HIDE DEF others
    <3>1. Cardinality(Past) + 1 \in Nat
      BY <1>5
    <3>2. slowest * (Cardinality(Past) + 1) <= slowest * others
      BY <1>2, <1>5, <2>2, <3>1, Products
    <3> QED BY <1>2, <1>5, <3>2, Products
  <2>4. worked[q] \in Nat /\ worked[q] <= slowest
    BY <1>2, <2>1
  <2> HIDE DEF Procs, others
  <2> QED BY <1>2, <1>5, <1>8, <2>3, <2>4
<1> QED BY <1>3, <1>6, <1>7, <1>8 DEF WaitOf

\* A run gives up on the lock only when another was inside the section for its share
\* of lockAcquireTimeout (Cache.WithLock, runner.tryRefresh).
THEOREM GivingUpIsSlow == TimedSpec => GivesUpOnlyOnSlowSections
<1>1. IInv /\ TimedInv /\ [TimedNext]_timedVars =>
        [\A p \in Procs : pc[p] = "wantLock" /\ pc'[p] = "login" =>
           slowest * (Cardinality(Procs) - 1) >= lockAcquireTimeout]_timedVars
  BY GivesUpStep
<1> QED BY <1>1, TimedInvariant, PTL DEF TimedSpec, GivesUpOnlyOnSlowSections

=============================================================================
