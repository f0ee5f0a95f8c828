-------------------------- MODULE FileStoreProofs ---------------------------
(***************************************************************************)
(* The file backend implements one register, for any number of processes,  *)
(* entries, inodes and crashes.                                            *)
(***************************************************************************)
EXTENDS FileStore, TLAPS

LEMMA InvInit == Init => IInv
BY FileAssumption DEF Init, IInv, TypeOK, InodeInv, Control, Saving

LEMMA InvStep == IInv /\ [Next]_vars => IInv'
<1> SUFFICES ASSUME IInv, [Next]_vars PROVE IInv'
    OBVIOUS
<1> USE FileAssumption DEF IInv, TypeOK, InodeInv, Control, Saving, Goto
<1>1. ASSUME NEW p \in Procs, CreateTemp(p) PROVE IInv'
    BY <1>1 DEF CreateTemp, InUse
<1>2. ASSUME NEW p \in Procs, WriteTemp(p) PROVE IInv'
    BY <1>2 DEF WriteTemp
<1>3. ASSUME NEW p \in Procs, Chmod(p) PROVE IInv'
    BY <1>3 DEF Chmod
<1>4. ASSUME NEW p \in Procs, Rename(p) PROVE IInv'
    BY <1>4 DEF Rename
<1>5. ASSUME NEW p \in Procs, SaveFails(p) PROVE IInv'
    BY <1>5 DEF SaveFails
<1>6. ASSUME NEW p \in Procs, LoadMisses(p) PROVE IInv'
    BY <1>6 DEF LoadMisses
<1>7. ASSUME NEW p \in Procs, LoadOpens(p) PROVE IInv'
    BY <1>7 DEF LoadOpens
<1>8. ASSUME NEW p \in Procs, LoadReads(p) PROVE IInv'
    BY <1>8 DEF LoadReads
<1>9. ASSUME NEW p \in Procs, LoadFails(p) PROVE IInv'
    BY <1>9 DEF LoadFails
<1>10. ASSUME NEW p \in Procs, DeleteBegins(p) PROVE IInv'
    BY <1>10 DEF DeleteBegins
<1>11. ASSUME NEW p \in Procs, Delete(p) PROVE IInv'
    BY <1>11 DEF Delete
<1>12. ASSUME NEW p \in Procs, DeleteFails(p) PROVE IInv'
    BY <1>12 DEF DeleteFails
<1>13. ASSUME NEW p \in Procs, Crash(p) PROVE IInv'
    BY <1>13 DEF Crash
<1>14. ASSUME NEW p \in Procs, Restart(p) PROVE IInv'
    BY <1>14 DEF Restart
<1>15. ASSUME NEW p \in Procs, NEW v \in Values, SaveBegins(p, v) PROVE IInv'
    BY <1>15 DEF SaveBegins
<1>16. CASE UNCHANGED vars
    BY <1>16 DEF vars
<1> QED BY <1>1, <1>2, <1>3, <1>4, <1>5, <1>6, <1>7, <1>8, <1>9, <1>10, <1>11, <1>12, <1>13,
           <1>14, <1>15, <1>16 DEF Next

\* IInv is an inductive invariant: nobody writes to an inode a Load can reach.
THEOREM InodesAreImmutable == Spec => []IInv
BY InvInit, InvStep, PTL DEF Spec

\* What p has called for and what its Load returned or is about to return, as
\* the refinement maps them.
Ask(p) == IF pc[p] \in Saving \cup {"unlink"} THEN arg[p] ELSE Nothing
Answer(p) == IF pc[p] = "reading" THEN Content(handle[p]) ELSE result[p]
Asks == [p \in Procs |-> Ask(p)]
Answers == [p \in Procs |-> Answer(p)]

\* The register's steps, spelled out over the mapped state.
LEMMA RegisterFacts ==
    /\ \A p \in Procs : \A v \in Values \cup {NoEntry} :
         Asks[p] = Nothing /\ Asks' = [Asks EXCEPT ![p] = v]
           /\ UNCHANGED <<Content(dest), Answers>>
         => Register!Next
    /\ \A p \in Procs :
         Asks[p] # Nothing /\ Content(dest)' = Asks[p]
           /\ Asks' = [Asks EXCEPT ![p] = Nothing] /\ UNCHANGED Answers
         => Register!Next
    /\ \A p \in Procs :
         Asks[p] = Nothing /\ Answers' = [Answers EXCEPT ![p] = Content(dest)]
           /\ UNCHANGED <<Content(dest), Asks>>
         => Register!Next
    /\ \A p \in Procs : \A g \in {Answers[p], Nothing} :
         Asks' = [Asks EXCEPT ![p] = Nothing]
           /\ Answers' = [Answers EXCEPT ![p] = g] /\ UNCHANGED Content(dest)
         => Register!Next
    /\ UNCHANGED <<Content(dest), Asks, Answers>> => UNCHANGED Register!vars
BY DEF Register!Next, Register!Call, Register!Write, Register!Load, Register!Drop,
       Register!Contents, Register!vars, Asks, Answers, Ask, Answer

LEMMA RegisterInit == Init => Register!Init
<1> SUFFICES ASSUME Init PROVE Register!Init
    OBVIOUS
<1>1. Content(dest) \in Values \cup {NoEntry}
    BY FileAssumption DEF Init, Content
<1>2. \A p \in Procs : pc[p] = "idle" /\ result[p] = Nothing
    BY DEF Init
<1> QED BY <1>1, <1>2 DEF Register!Init, Register!Contents, Saving

\* Every step is a step of the register or leaves it as it is.
LEMMA RegisterStep ==
    IInv /\ [Next]_vars => [Register!Next]_(Register!vars)
<1> SUFFICES ASSUME IInv, [Next]_vars
             PROVE  Register!Next \/ UNCHANGED Register!vars
    OBVIOUS
<1> DEFINE Stutter == Register!Next \/ UNCHANGED Register!vars
<1> USE FileAssumption
    DEF IInv, TypeOK, InodeInv, Control, Saving, Goto
<1>1. ASSUME NEW p \in Procs, CreateTemp(p) PROVE Stutter
  <2>1. \A q \in Procs : Ask(q)' = Ask(q) /\ Answer(q)' = Answer(q)
      BY <1>1 DEF CreateTemp, Ask, Answer, Content, InUse
  <2>2. Content(dest)' = Content(dest)
      BY <1>1 DEF CreateTemp, Ask, Answer, Content, InUse
  <2>3. UNCHANGED <<Content(dest), Asks, Answers>>
      BY <2>1, <2>2 DEF Asks, Answers
  <2> QED BY <2>3, RegisterFacts
<1>2. ASSUME NEW p \in Procs, WriteTemp(p) PROVE Stutter
  <2>1. \A q \in Procs : Ask(q)' = Ask(q) /\ Answer(q)' = Answer(q)
      BY <1>2 DEF WriteTemp, Ask, Answer, Content
  <2>2. Content(dest)' = Content(dest)
      BY <1>2 DEF WriteTemp, Ask, Answer, Content
  <2>3. UNCHANGED <<Content(dest), Asks, Answers>>
      BY <2>1, <2>2 DEF Asks, Answers
  <2> QED BY <2>3, RegisterFacts
<1>3. ASSUME NEW p \in Procs, Chmod(p) PROVE Stutter
  <2>1. \A q \in Procs : Ask(q)' = Ask(q) /\ Answer(q)' = Answer(q)
      BY <1>3 DEF Chmod, Ask, Answer, Content
  <2>2. Content(dest)' = Content(dest)
      BY <1>3 DEF Chmod, Ask, Answer, Content
  <2>3. UNCHANGED <<Content(dest), Asks, Answers>>
      BY <2>1, <2>2 DEF Asks, Answers
  <2> QED BY <2>3, RegisterFacts
<1>4. ASSUME NEW p \in Procs, Restart(p) PROVE Stutter
  <2>1. \A q \in Procs : Ask(q)' = Ask(q) /\ Answer(q)' = Answer(q)
      BY <1>4 DEF Restart, Ask, Answer, Content
  <2>2. Content(dest)' = Content(dest)
      BY <1>4 DEF Restart, Ask, Answer, Content
  <2>3. UNCHANGED <<Content(dest), Asks, Answers>>
      BY <2>1, <2>2 DEF Asks, Answers
  <2> QED BY <2>3, RegisterFacts
<1>5. ASSUME NEW p \in Procs, LoadReads(p) PROVE Stutter
  <2>1. \A q \in Procs : Ask(q)' = Ask(q) /\ Answer(q)' = Answer(q)
      BY <1>5 DEF LoadReads, Ask, Answer, Content
  <2>2. Content(dest)' = Content(dest)
      BY <1>5 DEF LoadReads, Ask, Answer, Content
  <2>3. UNCHANGED <<Content(dest), Asks, Answers>>
      BY <2>1, <2>2 DEF Asks, Answers
  <2> QED BY <2>3, RegisterFacts
<1>6. ASSUME NEW p \in Procs, NEW v \in Values, SaveBegins(p, v) PROVE Stutter
  <2>1. \A q \in Procs \ {p} : Ask(q)' = Ask(q) /\ Answer(q)' = Answer(q)
      BY <1>6 DEF SaveBegins, Ask, Answer, Content
  <2>2. /\ Ask(p)' = v /\ Answer(p)' = Answer(p)
        /\ Content(dest)' = Content(dest) /\ Ask(p) = Nothing
      BY <1>6 DEF SaveBegins, Ask, Answer, Content
  <2>3. Asks' = [Asks EXCEPT ![p] = v]
      BY <2>1, <2>2 DEF Asks
  <2>4. Answers' = Answers
      BY <2>1, <2>2 DEF Answers
  <2>5. Asks[p] = Ask(p) /\ Answers[p] = Answer(p)
      BY DEF Asks, Answers
  <2> QED BY <2>2, <2>3, <2>4, <2>5, RegisterFacts
<1>7. ASSUME NEW p \in Procs, DeleteBegins(p) PROVE Stutter
  <2>1. \A q \in Procs \ {p} : Ask(q)' = Ask(q) /\ Answer(q)' = Answer(q)
      BY <1>7 DEF DeleteBegins, Ask, Answer, Content
  <2>2. /\ Ask(p)' = NoEntry /\ Answer(p)' = Answer(p)
        /\ Content(dest)' = Content(dest) /\ Ask(p) = Nothing
      BY <1>7 DEF DeleteBegins, Ask, Answer, Content
  <2>3. Asks' = [Asks EXCEPT ![p] = NoEntry]
    <3> HIDE FileAssumption DEF IInv, TypeOK, InodeInv
    <3> QED BY <2>1, <2>2 DEF Asks
  <2>4. Answers' = Answers
      BY <2>1, <2>2 DEF Answers
  <2>5. Asks[p] = Ask(p) /\ Answers[p] = Answer(p)
      BY DEF Asks, Answers
  <2> QED BY <2>2, <2>3, <2>4, <2>5, RegisterFacts
<1>8. ASSUME NEW p \in Procs, Rename(p) PROVE Stutter
  <2>1. \A q \in Procs \ {p} : Ask(q)' = Ask(q) /\ Answer(q)' = Answer(q)
      BY <1>8 DEF Rename, Ask, Answer, Content
  <2>2. /\ Ask(p)' = Nothing /\ Answer(p)' = Answer(p)
        /\ Content(dest)' = Ask(p) /\ Ask(p) # Nothing
      BY <1>8 DEF Rename, Ask, Answer, Content
  <2>3. Asks' = [Asks EXCEPT ![p] = Nothing]
      BY <2>1, <2>2 DEF Asks
  <2>4. Answers' = Answers
      BY <2>1, <2>2 DEF Answers
  <2>5. Asks[p] = Ask(p) /\ Answers[p] = Answer(p)
      BY DEF Asks, Answers
  <2> QED BY <2>2, <2>3, <2>4, <2>5, RegisterFacts
<1>9. ASSUME NEW p \in Procs, Delete(p) PROVE Stutter
  <2>1. \A q \in Procs \ {p} : Ask(q)' = Ask(q) /\ Answer(q)' = Answer(q)
      BY <1>9 DEF Delete, Ask, Answer, Content
  <2>2. /\ Ask(p)' = Nothing /\ Answer(p)' = Answer(p)
        /\ Content(dest)' = Ask(p) /\ Ask(p) # Nothing
      BY <1>9 DEF Delete, Ask, Answer, Content
  <2>3. Asks' = [Asks EXCEPT ![p] = Nothing]
      BY <2>1, <2>2 DEF Asks
  <2>4. Answers' = Answers
      BY <2>1, <2>2 DEF Answers
  <2>5. Asks[p] = Ask(p) /\ Answers[p] = Answer(p)
      BY DEF Asks, Answers
  <2> QED BY <2>2, <2>3, <2>4, <2>5, RegisterFacts
<1>10. ASSUME NEW p \in Procs, LoadMisses(p) PROVE Stutter
  <2>1. \A q \in Procs \ {p} : Ask(q)' = Ask(q) /\ Answer(q)' = Answer(q)
      BY <1>10 DEF LoadMisses, Ask, Answer, Content
  <2>2. /\ Ask(p)' = Ask(p) /\ Answer(p)' = Content(dest)
        /\ Content(dest)' = Content(dest) /\ Ask(p) = Nothing
      BY <1>10 DEF LoadMisses, Ask, Answer, Content
  <2>3. Asks' = Asks
      BY <2>1, <2>2 DEF Asks
  <2>4. Answers' = [Answers EXCEPT ![p] = Content(dest)]
      BY <2>1, <2>2 DEF Answers
  <2>5. Asks[p] = Ask(p) /\ Answers[p] = Answer(p)
      BY DEF Asks, Answers
  <2> QED BY <2>2, <2>3, <2>4, <2>5, RegisterFacts
<1>11. ASSUME NEW p \in Procs, LoadOpens(p) PROVE Stutter
  <2>1. \A q \in Procs \ {p} : Ask(q)' = Ask(q) /\ Answer(q)' = Answer(q)
      BY <1>11 DEF LoadOpens, Ask, Answer, Content
  <2>2. /\ Ask(p)' = Ask(p) /\ Answer(p)' = Content(dest)
        /\ Content(dest)' = Content(dest) /\ Ask(p) = Nothing
      BY <1>11 DEF LoadOpens, Ask, Answer, Content
  <2>3. Asks' = Asks
      BY <2>1, <2>2 DEF Asks
  <2>4. Answers' = [Answers EXCEPT ![p] = Content(dest)]
      BY <2>1, <2>2 DEF Answers
  <2>5. Asks[p] = Ask(p) /\ Answers[p] = Answer(p)
      BY DEF Asks, Answers
  <2> QED BY <2>2, <2>3, <2>4, <2>5, RegisterFacts
<1>12. ASSUME NEW p \in Procs, LoadFails(p) PROVE Stutter
  <2>1. \A q \in Procs \ {p} : Ask(q)' = Ask(q) /\ Answer(q)' = Answer(q)
      BY <1>12 DEF LoadFails, Ask, Answer, Content
  <2>2. /\ Ask(p)' = Nothing /\ Answer(p)' = Nothing
        /\ Content(dest)' = Content(dest)
      BY <1>12 DEF LoadFails, Ask, Answer, Content
  <2>3. Asks' = [Asks EXCEPT ![p] = Nothing]
      BY <2>1, <2>2 DEF Asks
  <2>4. Answers' = [Answers EXCEPT ![p] = Nothing]
      BY <2>1, <2>2 DEF Answers
  <2>5. Asks[p] = Ask(p) /\ Answers[p] = Answer(p)
      BY DEF Asks, Answers
  <2> QED BY <2>2, <2>3, <2>4, <2>5, RegisterFacts
<1>13. ASSUME NEW p \in Procs, Crash(p) PROVE Stutter
  <2>1. \A q \in Procs \ {p} : Ask(q)' = Ask(q) /\ Answer(q)' = Answer(q)
      BY <1>13 DEF Crash, Ask, Answer, Content
  <2>2. /\ Ask(p)' = Nothing /\ Answer(p)' = Nothing
        /\ Content(dest)' = Content(dest)
      BY <1>13 DEF Crash, Ask, Answer, Content
  <2>3. Asks' = [Asks EXCEPT ![p] = Nothing]
      BY <2>1, <2>2 DEF Asks
  <2>4. Answers' = [Answers EXCEPT ![p] = Nothing]
      BY <2>1, <2>2 DEF Answers
  <2>5. Asks[p] = Ask(p) /\ Answers[p] = Answer(p)
      BY DEF Asks, Answers
  <2> QED BY <2>2, <2>3, <2>4, <2>5, RegisterFacts
<1>14. ASSUME NEW p \in Procs, SaveFails(p) PROVE Stutter
  <2>1. \A q \in Procs \ {p} : Ask(q)' = Ask(q) /\ Answer(q)' = Answer(q)
      BY <1>14 DEF SaveFails, Ask, Answer, Content
  <2>2. /\ Ask(p)' = Nothing /\ Answer(p)' = Answer(p)
        /\ Content(dest)' = Content(dest)
      BY <1>14 DEF SaveFails, Ask, Answer, Content
  <2>3. Asks' = [Asks EXCEPT ![p] = Nothing]
      BY <2>1, <2>2 DEF Asks
  <2>4. Answers' = [Answers EXCEPT ![p] = Answer(p)]
      BY <2>1, <2>2 DEF Answers
  <2>5. Asks[p] = Ask(p) /\ Answers[p] = Answer(p)
      BY DEF Asks, Answers
  <2> QED BY <2>2, <2>3, <2>4, <2>5, RegisterFacts
<1>15. ASSUME NEW p \in Procs, DeleteFails(p) PROVE Stutter
  <2>1. \A q \in Procs \ {p} : Ask(q)' = Ask(q) /\ Answer(q)' = Answer(q)
      BY <1>15 DEF DeleteFails, Ask, Answer, Content
  <2>2. /\ Ask(p)' = Nothing /\ Answer(p)' = Answer(p)
        /\ Content(dest)' = Content(dest)
      BY <1>15 DEF DeleteFails, Ask, Answer, Content
  <2>3. Asks' = [Asks EXCEPT ![p] = Nothing]
      BY <2>1, <2>2 DEF Asks
  <2>4. Answers' = [Answers EXCEPT ![p] = Answer(p)]
      BY <2>1, <2>2 DEF Answers
  <2>5. Asks[p] = Ask(p) /\ Answers[p] = Answer(p)
      BY DEF Asks, Answers
  <2> QED BY <2>2, <2>3, <2>4, <2>5, RegisterFacts
<1>16. CASE UNCHANGED vars
    BY <1>16, RegisterFacts DEF vars, Asks, Answers, Ask, Answer, Content
<1> QED BY <1>1, <1>2, <1>3, <1>4, <1>5, <1>6, <1>7, <1>8, <1>9, <1>10, <1>11, <1>12, <1>13,
           <1>14, <1>15, <1>16 DEF Next

\* The file backend is the register that cache.Store promises: atomic saves,
\* loads that never see part of one, and crashes that change nothing.
THEOREM FileStoreImplementsRegister == Spec => ImplementsProfileStore
BY InodesAreImmutable, RegisterInit, RegisterStep, PTL
   DEF Spec, ImplementsProfileStore, Register!Spec

=============================================================================
