----------------------- MODULE LoopbackCallbackProofs -----------------------
(***************************************************************************)
(* What the callback server promises its login, for any number of logins,  *)
(* ports and connections.                                                  *)
(***************************************************************************)
EXTENDS LoopbackCallback, TLAPS

LEMMA InvInit == Init => IInv
BY CallbackAssumption, NoneAssumption
   DEF Init, IInv, TypeOK, PortInv, AnswerInv, Control

LEMMA InvStep == IInv /\ [Next]_vars => IInv'
<1> SUFFICES ASSUME IInv, [Next]_vars PROVE IInv'
    OBVIOUS
<1> USE CallbackAssumption, NoneAssumption
    DEF IInv, TypeOK, PortInv, AnswerInv, Control, Goto, Release, Served, Connections
<1>1. ASSUME NEW f \in Flows, Bind(f) PROVE IInv'
    BY <1>1 DEF Bind
<1>2. ASSUME NEW f \in Flows, BindFails(f) PROVE IInv'
    BY <1>2 DEF BindFails
<1>3. ASSUME NEW f \in Flows, StateFails(f) PROVE IInv'
    BY <1>3 DEF StateFails
<1>4. ASSUME NEW f \in Flows, Announce(f) PROVE IInv'
    BY <1>4 DEF Announce
<1>5. ASSUME NEW f \in Flows, Receive(f) PROVE IInv'
    BY <1>5 DEF Receive
<1>6. ASSUME NEW f \in Flows, ShutdownEnds(f) PROVE IInv'
    BY <1>6 DEF ShutdownEnds
<1>7. ASSUME NEW f \in Flows, TimesOut(f) PROVE IInv'
    BY <1>7 DEF TimesOut
<1>8. ASSUME NEW f \in Flows, Exchange(f) PROVE IInv'
    BY <1>8 DEF Exchange
<1>9. ASSUME NEW f \in Flows, ExchangeFails(f) PROVE IInv'
    BY <1>9 DEF ExchangeFails
<1>10. ASSUME NEW f \in Flows, Expire(f) PROVE IInv'
    BY <1>10 DEF Expire
<1>11. ASSUME NEW f \in Flows, NEW a \in Answers, Authorize(f, a) PROVE IInv'
    BY <1>11 DEF Authorize, Requests
<1>12. ASSUME NEW c \in Conns, Reject(c) PROVE IInv'
    BY <1>12 DEF Reject, Handling, HandlerReturns
<1>13. ASSUME NEW c \in Conns, Answer(c) PROVE IInv'
    BY <1>13 DEF Answer, Answering, Handling, HandlerReturns
<1>14. ASSUME NEW c \in Conns, NEW r \in net \cup StrayRequests, Accept(c, r) PROVE IInv'
    BY <1>14 DEF Accept, StrayRequests, Requests, Answers
<1>15. ASSUME NEW c \in Conns, BodyEnds(c) PROVE IInv'
    BY <1>15 DEF BodyEnds, AwaitsBody
<1>16. CASE UNCHANGED vars
    BY <1>16 DEF vars
<1> QED BY <1>1, <1>2, <1>3, <1>4, <1>5, <1>6, <1>7, <1>8, <1>9, <1>10, <1>11, <1>12, <1>13,
           <1>14, <1>15, <1>16 DEF Next, Login, Handle

\* IInv is an inductive invariant: a listener belongs to a login that waits on it,
\* and what is in a channel answers its own login.
THEOREM CallbackInvariant == Spec => []IInv
BY InvInit, InvStep, PTL DEF Spec

\* The server ends no wait with the answer to another login (awaitCallback's check
\* of the state).
THEOREM AnswersStayApart == Spec => []AnswerIsForThisLogin
<1>1. IInv => AnswerIsForThisLogin
    BY DEF IInv, AnswerInv, AnswerIsForThisLogin
<1> QED BY CallbackInvariant, <1>1, PTL

\* Of several answers to a login the first one handed over decides.
THEOREM FirstAnswer == Spec => []FirstAnswerDecides
<1>1. IInv => FirstAnswerDecides
    BY DEF IInv, AnswerInv, FirstAnswerDecides
<1> QED BY CallbackInvariant, <1>1, PTL

\* A port that cannot be bound is one on which another login waits.
THEOREM PortsAreGivenBack == Spec => BindFailsOnlyBesideAWaitingLogin
<1> DEFINE Beside == \A f \in Flows : BindFails(f) =>
                       \A p \in Ports : \E g \in Flows \ {f} :
                          /\ listener[p] = g /\ redirect[g] = p
                          /\ pc[g] \in {"bound", "waiting"}
<1>1. IInv => Beside
  <2> SUFFICES ASSUME IInv, NEW f \in Flows, BindFails(f), NEW p \in Ports
               PROVE  \E g \in Flows \ {f} : /\ listener[p] = g /\ redirect[g] = p
                                            /\ pc[g] \in {"bound", "waiting"}
      OBVIOUS
  <2>1. listener[p] \in Flows /\ pc[f] = "start"
      BY DEF IInv, TypeOK, BindFails
  <2>2. redirect[listener[p]] = p /\ pc[listener[p]] \in {"bound", "waiting"}
      BY <2>1, CallbackAssumption DEF IInv, PortInv, BindFails
  <2> QED BY <2>1, <2>2
<1>2. IInv /\ [Next]_vars => [Beside]_vars
    BY <1>1
<1> QED BY CallbackInvariant, <1>2, PTL DEF Spec, BindFailsOnlyBesideAWaitingLogin

=============================================================================
