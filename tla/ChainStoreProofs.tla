-------------------------- MODULE ChainStoreProofs --------------------------
(***************************************************************************)
(* However often the keychain has come and gone, the chain of both         *)
(* backends is one register outside of the calls under which it did, and a *)
(* successful logout leaves nothing it could reach, for any number of      *)
(* processes and entries.                                                  *)
(***************************************************************************)
EXTENDS ChainStore, TLAPS

LEMMA InvInit == Init => IInv
BY ChainAssumption
   DEF Init, IInv, TypeOK, FallbackInv, HalfDeletedInv, LogoutClearsWhatItReached, Control,
       Contents, Daemons, HalfWay

LEMMA InvStep == IInv /\ [Next]_vars => IInv'
<1> SUFFICES ASSUME IInv, [Next]_vars PROVE IInv'
    OBVIOUS
<1> USE ChainAssumption
    DEF IInv, TypeOK, FallbackInv, HalfDeletedInv, LogoutClearsWhatItReached, Control,
        Contents, Daemons, Unavailable, KeychainFails, Goto, Returns, HalfWay, logouts
<1>1. ASSUME NEW p \in Procs, LoadKeychain(p), torn' = torn \ {p} PROVE IInv'
    BY <1>1 DEF LoadKeychain
<1>2. ASSUME NEW p \in Procs, LoadUnavailable(p), torn' = torn \ {p} PROVE IInv'
    BY <1>2 DEF LoadUnavailable
<1>3. ASSUME NEW p \in Procs, LoadFile(p), torn' = torn \ {p} PROVE IInv'
    BY <1>3 DEF LoadFile
<1>4. ASSUME NEW p \in Procs, LoadFails(p), torn' = torn \ {p} PROVE IInv'
    BY <1>4 DEF LoadFails
<1>5. ASSUME NEW p \in Procs, SaveKeychain(p), torn' = torn \ {p} PROVE IInv'
    BY <1>5 DEF SaveKeychain
<1>6. ASSUME NEW p \in Procs, SaveUnavailable(p), torn' = torn \ {p} PROVE IInv'
    BY <1>6 DEF SaveUnavailable
<1>7. ASSUME NEW p \in Procs, SaveFile(p), torn' = torn \ {p} PROVE IInv'
    BY <1>7 DEF SaveFile
<1>8. ASSUME NEW p \in Procs, SaveFails(p), torn' = torn \ {p} PROVE IInv'
    BY <1>8 DEF SaveFails
<1>9. ASSUME NEW p \in Procs, DeleteBegins(p), torn' = torn \ {p} PROVE IInv'
    BY <1>9 DEF DeleteBegins
<1>10. ASSUME NEW p \in Procs, DeleteKeychain(p), torn' = torn \ {p} PROVE IInv'
    BY <1>10 DEF DeleteKeychain
<1>11. ASSUME NEW p \in Procs, DeleteUnavailable(p), torn' = torn \ {p} PROVE IInv'
    BY <1>11 DEF DeleteUnavailable
<1>12. ASSUME NEW p \in Procs, DeleteKeychainFails(p), torn' = torn \ {p} PROVE IInv'
    BY <1>12 DEF DeleteKeychainFails
<1>13. ASSUME NEW p \in Procs, DeleteFile(p), torn' = torn \ {p} PROVE IInv'
    BY <1>13 DEF DeleteFile
<1>14. ASSUME NEW p \in Procs, DeleteFileFails(p), torn' = torn \ {p} PROVE IInv'
    BY <1>14 DEF DeleteFileFails
<1>15. ASSUME NEW p \in Procs, Crash(p), torn' = torn \ {p} PROVE IInv'
    BY <1>15 DEF Crash
<1>16. ASSUME NEW p \in Procs, Restart(p), torn' = torn \ {p} PROVE IInv'
    BY <1>16 DEF Restart
<1>17. ASSUME NEW p \in Procs, NEW v \in Values, SaveBegins(p, v), torn' = torn \ {p}
       PROVE  IInv'
    BY <1>17 DEF SaveBegins
<1>18. CASE Flap
    BY <1>18 DEF Flap
<1>19. CASE UNCHANGED vars
    BY <1>19 DEF vars
<1> QED BY <1>1, <1>2, <1>3, <1>4, <1>5, <1>6, <1>7, <1>8, <1>9, <1>10, <1>11, <1>12, <1>13,
           <1>14, <1>15, <1>16, <1>17, <1>18, <1>19 DEF Next, Step, Load, Save, Delete

\* IInv is inductive: unless the keychain came or went under a call, the call reads
\* or writes the file only while the keychain cannot be reached (ChainStore's
\* fallback), and half a Delete has emptied the keychain, noted an error, or found no
\* keychain.
THEOREM FileOnlyInItsPlace == Spec => []IInv
BY InvInit, InvStep, PTL DEF Spec

\* Until somebody saves, a logout that returned nil leaves the file empty whatever
\* became of the keychain call, and the keychain unless it was unavailable
\* (ChainStore.Delete returns firstErr).
THEOREM LogoutClears == Spec => []LogoutClearsWhatItReached
<1>1. IInv => LogoutClearsWhatItReached
    BY DEF IInv
<1> QED BY <1>1, FileOnlyInItsPlace, PTL

Asks == [p \in Procs |-> Asked(p)]

\* The register's steps, spelled out over the mapped state.
LEMMA RegisterFacts ==
    /\ \A p \in Procs : \A v \in Contents :
         Asks[p] = Nothing /\ Asks' = [Asks EXCEPT ![p] = v]
           /\ UNCHANGED <<Current, got>>
         => Register!Next
    /\ \A p \in Procs :
         Asks[p] # Nothing /\ Current' = Asks[p]
           /\ Asks' = [Asks EXCEPT ![p] = Nothing] /\ UNCHANGED got
         => Register!Next
    /\ \A p \in Procs :
         Asks[p] = Nothing /\ got' = [got EXCEPT ![p] = Current]
           /\ UNCHANGED <<Current, Asks>>
         => Register!Next
    /\ \A p \in Procs : \A g \in {got[p], Nothing} :
         Asks' = [Asks EXCEPT ![p] = Nothing]
           /\ got' = [got EXCEPT ![p] = g] /\ UNCHANGED Current
         => Register!Next
    /\ UNCHANGED <<Current, Asks, got>> => UNCHANGED Register!vars
BY DEF Register!Next, Register!Call, Register!Write, Register!Load, Register!Drop,
       Register!Contents, Register!vars, Asks, Contents

LEMMA RegisterInit == Init => Register!Init
BY DEF Init, Register!Init, Register!Contents, Contents, Current, Asked

\* A call that goes on after the keychain has come or gone under it moves on.
LEMMA TornCallsDisturb ==
    ASSUME IInv, NEW p \in torn, Step(p)
    PROVE  Disturbed
<1>1. p \in Procs /\ pc[p] \in {"load2", "save2", "delete2"}
    BY DEF IInv, FallbackInv, HalfWay
<1>2. pc'[p] # pc[p]
    BY <1>1 DEF IInv, TypeOK, Control, Step, Load, Save, Delete, LoadKeychain, LoadUnavailable,
       LoadFile, LoadFails, SaveBegins, SaveKeychain, SaveUnavailable, SaveFile, SaveFails,
       DeleteBegins, DeleteKeychain, DeleteUnavailable, DeleteKeychainFails, DeleteFile,
       DeleteFileFails, Crash, Restart, Goto, Returns
<1> QED BY <1>2 DEF Disturbed

\* A step that is not Disturbed is one of the register or leaves it as it is.
LEMMA RegisterStep ==
    IInv /\ [Next]_vars => [Register!Next \/ Disturbed]_(Register!vars)
<1> SUFFICES ASSUME IInv, [Next]_vars, ~Disturbed
             PROVE  Register!Next \/ UNCHANGED Register!vars
    OBVIOUS
<1> DEFINE Stutter == Register!Next \/ UNCHANGED Register!vars
<1> USE ChainAssumption
    DEF IInv, TypeOK, FallbackInv, Control, Contents, Daemons, Unavailable,
        KeychainFails, Goto, Returns
<1>1. ASSUME NEW p \in Procs, LoadKeychain(p), p \notin torn, torn' = torn PROVE Stutter
  <2>1. \A q \in Procs \ {p} : Asked(q)' = Asked(q)
      BY <1>1 DEF LoadKeychain, Asked, Current
  <2>2. Asked(p)' = Asked(p)
      BY <1>1 DEF LoadKeychain, Asked, Current
  <2>3. Asks' = Asks
      BY <2>1, <2>2 DEF Asks
  <2>4. Asks[p] = Asked(p)
      BY DEF Asks
  <2>5. got' = [got EXCEPT ![p] = Current]
          /\ Current' = Current /\ Asked(p) = Nothing
      BY <1>1 DEF LoadKeychain, Asked, Current
  <2> QED BY <2>3, <2>4, <2>5, RegisterFacts
<1>2. ASSUME NEW p \in Procs, LoadUnavailable(p), p \notin torn, torn' = torn PROVE Stutter
  <2>1. \A q \in Procs : Asked(q)' = Asked(q)
      BY <1>2 DEF LoadUnavailable, Asked, Current
  <2>2. Current' = Current /\ got' = got
      BY <1>2 DEF LoadUnavailable, Asked, Current
  <2>3. UNCHANGED <<Current, Asks, got>>
      BY <2>1, <2>2 DEF Asks
  <2> QED BY <2>3, RegisterFacts
<1>3. ASSUME NEW p \in Procs, LoadFile(p), p \notin torn, torn' = torn PROVE Stutter
  <2>1. \A q \in Procs \ {p} : Asked(q)' = Asked(q)
      BY <1>3 DEF LoadFile, Asked, Current
  <2>2. Asked(p)' = Asked(p)
      BY <1>3 DEF LoadFile, Asked, Current
  <2>3. Asks' = Asks
      BY <2>1, <2>2 DEF Asks
  <2>4. Asks[p] = Asked(p)
      BY DEF Asks
  <2>5. got' = [got EXCEPT ![p] = Current]
          /\ Current' = Current /\ Asked(p) = Nothing
      BY <1>3 DEF LoadFile, Asked, Current
  <2> QED BY <2>3, <2>4, <2>5, RegisterFacts
<1>4. ASSUME NEW p \in Procs, LoadFails(p), p \notin torn, torn' = torn PROVE Stutter
  <2>1. \A q \in Procs \ {p} : Asked(q)' = Asked(q)
      BY <1>4 DEF LoadFails, Asked, Current
  <2>2. Asked(p)' = Nothing
      BY <1>4 DEF LoadFails, Asked, Current
  <2>3. Asks' = [Asks EXCEPT ![p] = Nothing]
    <3> HIDE ChainAssumption DEF IInv, TypeOK, FallbackInv
    <3> QED BY <2>1, <2>2 DEF Asks
  <2>4. Asks[p] = Asked(p)
      BY DEF Asks
  <2>5. got' = [got EXCEPT ![p] = Nothing] /\ Current' = Current
      BY <1>4 DEF LoadFails, Asked, Current
  <2> QED BY <2>3, <2>4, <2>5, RegisterFacts
<1>5. ASSUME NEW p \in Procs, NEW v \in Values, SaveBegins(p, v), p \notin torn, torn' = torn
       PROVE  Stutter
  <2>1. \A q \in Procs \ {p} : Asked(q)' = Asked(q)
      BY <1>5 DEF SaveBegins, Asked, Current
  <2>2. Asked(p)' = v
      BY <1>5 DEF SaveBegins, Asked, Current
  <2>3. Asks' = [Asks EXCEPT ![p] = v]
    <3> HIDE ChainAssumption DEF IInv, TypeOK, FallbackInv
    <3> QED BY <2>1, <2>2 DEF Asks
  <2>4. Asks[p] = Asked(p)
      BY DEF Asks
  <2>5. got' = got /\ Current' = Current /\ Asked(p) = Nothing
      BY <1>5 DEF SaveBegins, Asked, Current
  <2> QED BY <2>3, <2>4, <2>5, RegisterFacts
<1>6. ASSUME NEW p \in Procs, SaveKeychain(p), p \notin torn, torn' = torn PROVE Stutter
  <2>1. \A q \in Procs \ {p} : Asked(q)' = Asked(q)
      BY <1>6 DEF SaveKeychain, Asked, Current
  <2>2. Asked(p)' = Nothing
      BY <1>6 DEF SaveKeychain, Asked, Current
  <2>3. Asks' = [Asks EXCEPT ![p] = Nothing]
    <3> HIDE ChainAssumption DEF IInv, TypeOK, FallbackInv
    <3> QED BY <2>1, <2>2 DEF Asks
  <2>4. Asks[p] = Asked(p)
      BY DEF Asks
  <2>5. got' = got /\ Current' = Asked(p) /\ Asked(p) # Nothing
      BY <1>6 DEF SaveKeychain, Asked, Current
  <2> QED BY <2>3, <2>4, <2>5, RegisterFacts
<1>7. ASSUME NEW p \in Procs, SaveUnavailable(p), p \notin torn, torn' = torn PROVE Stutter
  <2>1. \A q \in Procs : Asked(q)' = Asked(q)
      BY <1>7 DEF SaveUnavailable, Asked, Current
  <2>2. Current' = Current /\ got' = got
      BY <1>7 DEF SaveUnavailable, Asked, Current
  <2>3. UNCHANGED <<Current, Asks, got>>
      BY <2>1, <2>2 DEF Asks
  <2> QED BY <2>3, RegisterFacts
<1>8. ASSUME NEW p \in Procs, SaveFile(p), p \notin torn, torn' = torn PROVE Stutter
  <2>1. \A q \in Procs \ {p} : Asked(q)' = Asked(q)
      BY <1>8 DEF SaveFile, Asked, Current
  <2>2. Asked(p)' = Nothing
      BY <1>8 DEF SaveFile, Asked, Current
  <2>3. Asks' = [Asks EXCEPT ![p] = Nothing]
    <3> HIDE ChainAssumption DEF IInv, TypeOK, FallbackInv
    <3> QED BY <2>1, <2>2 DEF Asks
  <2>4. Asks[p] = Asked(p)
      BY DEF Asks
  <2>5. got' = got /\ Current' = Asked(p) /\ Asked(p) # Nothing
      BY <1>8 DEF SaveFile, Asked, Current
  <2> QED BY <2>3, <2>4, <2>5, RegisterFacts
<1>9. ASSUME NEW p \in Procs, SaveFails(p), p \notin torn, torn' = torn PROVE Stutter
  <2>1. \A q \in Procs \ {p} : Asked(q)' = Asked(q)
      BY <1>9 DEF SaveFails, Asked, Current
  <2>2. Asked(p)' = Nothing
      BY <1>9 DEF SaveFails, Asked, Current
  <2>3. Asks' = [Asks EXCEPT ![p] = Nothing]
    <3> HIDE ChainAssumption DEF IInv, TypeOK, FallbackInv
    <3> QED BY <2>1, <2>2 DEF Asks
  <2>4. Asks[p] = Asked(p)
      BY DEF Asks
  <2>5. got' = [got EXCEPT ![p] = got[p]] /\ Current' = Current
      BY <1>9 DEF SaveFails, Asked, Current
  <2> QED BY <2>3, <2>4, <2>5, RegisterFacts
<1>10. ASSUME NEW p \in Procs, DeleteBegins(p), p \notin torn, torn' = torn PROVE Stutter
  <2>1. \A q \in Procs \ {p} : Asked(q)' = Asked(q)
      BY <1>10 DEF DeleteBegins, Asked, Current
  <2>2. Asked(p)' = NoEntry
      BY <1>10 DEF DeleteBegins, Asked, Current
  <2>3. Asks' = [Asks EXCEPT ![p] = NoEntry]
    <3> HIDE ChainAssumption DEF IInv, TypeOK, FallbackInv
    <3> QED BY <2>1, <2>2 DEF Asks
  <2>4. Asks[p] = Asked(p)
      BY DEF Asks
  <2>5. got' = got /\ Current' = Current /\ Asked(p) = Nothing
      BY <1>10 DEF DeleteBegins, Asked, Current
  <2> QED BY <2>3, <2>4, <2>5, RegisterFacts
<1>11. ASSUME NEW p \in Procs, DeleteKeychain(p), p \notin torn, torn' = torn PROVE Stutter
  <2>1. \A q \in Procs \ {p} : Asked(q)' = Asked(q)
      BY <1>11 DEF DeleteKeychain, Asked, Current
  <2>2. Asked(p)' = Nothing
      BY <1>11 DEF DeleteKeychain, Asked, Current
  <2>3. Asks' = [Asks EXCEPT ![p] = Nothing]
    <3> HIDE ChainAssumption DEF IInv, TypeOK, FallbackInv
    <3> QED BY <2>1, <2>2 DEF Asks
  <2>4. Asks[p] = Asked(p)
      BY DEF Asks
  <2>5. got' = got /\ Current' = Asked(p) /\ Asked(p) # Nothing
      BY <1>11 DEF DeleteKeychain, Asked, Current
  <2> QED BY <2>3, <2>4, <2>5, RegisterFacts
<1>12. ASSUME NEW p \in Procs, DeleteUnavailable(p), p \notin torn, torn' = torn PROVE Stutter
  <2>1. \A q \in Procs : Asked(q)' = Asked(q)
      BY <1>12 DEF DeleteUnavailable, Asked, Current
  <2>2. Current' = Current /\ got' = got
      BY <1>12 DEF DeleteUnavailable, Asked, Current
  <2>3. UNCHANGED <<Current, Asks, got>>
      BY <2>1, <2>2 DEF Asks
  <2> QED BY <2>3, RegisterFacts
<1>13. ASSUME NEW p \in Procs, DeleteKeychainFails(p), p \notin torn, torn' = torn PROVE Stutter
  <2>1. \A q \in Procs \ {p} : Asked(q)' = Asked(q)
      BY <1>13 DEF DeleteKeychainFails, Asked, Current
  <2>2. Asked(p)' = Nothing
      BY <1>13 DEF DeleteKeychainFails, Asked, Current
  <2>3. Asks' = [Asks EXCEPT ![p] = Nothing]
    <3> HIDE ChainAssumption DEF IInv, TypeOK, FallbackInv
    <3> QED BY <2>1, <2>2 DEF Asks
  <2>4. Asks[p] = Asked(p)
      BY DEF Asks
  <2>5. got' = [got EXCEPT ![p] = got[p]] /\ Current' = Current
      BY <1>13 DEF DeleteKeychainFails, Asked, Current
  <2> QED BY <2>3, <2>4, <2>5, RegisterFacts
<1>14. ASSUME NEW p \in Procs, DeleteFile(p), p \notin torn, torn' = torn, ~Unavailable
       PROVE  Stutter
  <2>1. \A q \in Procs : Asked(q)' = Asked(q)
      BY <1>14 DEF DeleteFile, Asked, Current
  <2>2. Current' = Current /\ got' = got
      BY <1>14 DEF DeleteFile, Asked, Current
  <2>3. UNCHANGED <<Current, Asks, got>>
      BY <2>1, <2>2 DEF Asks
  <2> QED BY <2>3, RegisterFacts
<1>15. ASSUME NEW p \in Procs, DeleteFile(p), p \notin torn, torn' = torn, Unavailable PROVE Stutter
  <2>1. \A q \in Procs \ {p} : Asked(q)' = Asked(q)
      BY <1>15 DEF DeleteFile, Asked, Current
  <2>2. Asked(p)' = Nothing
      BY <1>15 DEF DeleteFile, Asked, Current
  <2>3. Asks' = [Asks EXCEPT ![p] = Nothing]
    <3> HIDE ChainAssumption DEF IInv, TypeOK, FallbackInv
    <3> QED BY <2>1, <2>2 DEF Asks
  <2>4. Asks[p] = Asked(p)
      BY DEF Asks
  <2>5. got' = got /\ Current' = Asked(p) /\ Asked(p) # Nothing
      BY <1>15 DEF DeleteFile, Asked, Current
  <2> QED BY <2>3, <2>4, <2>5, RegisterFacts
<1>16. ASSUME NEW p \in Procs, DeleteFileFails(p), p \notin torn, torn' = torn PROVE Stutter
  <2>1. \A q \in Procs \ {p} : Asked(q)' = Asked(q)
      BY <1>16 DEF DeleteFileFails, Asked, Current
  <2>2. Asked(p)' = Nothing
      BY <1>16 DEF DeleteFileFails, Asked, Current
  <2>3. Asks' = [Asks EXCEPT ![p] = Nothing]
    <3> HIDE ChainAssumption DEF IInv, TypeOK, FallbackInv
    <3> QED BY <2>1, <2>2 DEF Asks
  <2>4. Asks[p] = Asked(p)
      BY DEF Asks
  <2>5. got' = [got EXCEPT ![p] = got[p]] /\ Current' = Current
      BY <1>16 DEF DeleteFileFails, Asked, Current
  <2> QED BY <2>3, <2>4, <2>5, RegisterFacts
<1>17. ASSUME NEW p \in Procs, Crash(p), p \notin torn, torn' = torn PROVE Stutter
  <2>1. \A q \in Procs \ {p} : Asked(q)' = Asked(q)
      BY <1>17 DEF Crash, Asked, Current
  <2>2. Asked(p)' = Nothing
      BY <1>17 DEF Crash, Asked, Current
  <2>3. Asks' = [Asks EXCEPT ![p] = Nothing]
    <3> HIDE ChainAssumption DEF IInv, TypeOK, FallbackInv
    <3> QED BY <2>1, <2>2 DEF Asks
  <2>4. Asks[p] = Asked(p)
      BY DEF Asks
  <2>5. got' = [got EXCEPT ![p] = Nothing] /\ Current' = Current
      BY <1>17 DEF Crash, Asked, Current
  <2> QED BY <2>3, <2>4, <2>5, RegisterFacts
<1>18. ASSUME NEW p \in Procs, Restart(p), p \notin torn, torn' = torn PROVE Stutter
  <2>1. \A q \in Procs : Asked(q)' = Asked(q)
      BY <1>18 DEF Restart, Asked, Current
  <2>2. Current' = Current /\ got' = got
      BY <1>18 DEF Restart, Asked, Current
  <2>3. UNCHANGED <<Current, Asks, got>>
      BY <2>1, <2>2 DEF Asks
  <2> QED BY <2>3, RegisterFacts
<1>19. CASE Flap
  <2>1. Unavailable' = Unavailable /\ torn' = torn
      BY <1>19 DEF Flap, Disturbed
  <2>2. \A q \in Procs : Asked(q)' = Asked(q)
    <3> HIDE DEF Unavailable
    <3> QED BY <1>19, <2>1 DEF Flap, Asked
  <2>3. Current' = Current /\ got' = got
    <3> HIDE DEF Unavailable
    <3> QED BY <1>19, <2>1 DEF Flap, Current
  <2>4. UNCHANGED <<Current, Asks, got>>
      BY <2>2, <2>3 DEF Asks
  <2> QED BY <2>4, RegisterFacts
<1>20. CASE UNCHANGED vars
    BY <1>20, RegisterFacts DEF vars, Asks, Asked, Current
<1>21. ASSUME NEW p \in Procs, Step(p), torn' = torn \ {p}
       PROVE  Stutter
  <2>1. p \notin torn
      BY <1>21, TornCallsDisturb
  <2>2. torn' = torn
      BY <1>21, <2>1
  <2> QED BY <1>21, <2>1, <2>2, <1>1, <1>2, <1>3, <1>4, <1>5, <1>6, <1>7, <1>8, <1>9,
             <1>10, <1>11, <1>12, <1>13, <1>14, <1>15, <1>16, <1>17, <1>18
          DEF Step, Load, Save, Delete
<1> QED BY <1>19, <1>20, <1>21 DEF Next

\* Outside of the moment the keychain comes or goes, and of the calls under which it
\* did, the chain is the register that cache.Store promises, however often that has
\* happened: no stale leftover of the other backend is served.
THEOREM ChainStoreImplementsRegister == Spec => ImplementsProfileStore
BY FileOnlyInItsPlace, RegisterInit, RegisterStep, PTL
   DEF Spec, ImplementsProfileStore

=============================================================================
