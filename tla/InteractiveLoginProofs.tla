----------------------- MODULE InteractiveLoginProofs -----------------------
(***************************************************************************)
(* Theorems of InteractiveLogin and its parts: for every configuration,    *)
(* environment and issuer, every lifetime and delay, every order of errors. *)
(* The composition implements both parts, so what holds of them holds of it. *)
(***************************************************************************)
EXTENDS InteractiveLogin, SequenceTheorems, TLAPS

(***************************************************************************)
(* The device-code login                                                   *)
(***************************************************************************)

LEMMA DeviceInitially == Init => DeviceInv
BY DeviceAssumption DEF Init, DeviceInv, TypeOK, TimeInv, AssertionLastsWithTheCode,
                        Users, Outcomes

LEMMA DeviceStepKeeps == DeviceInv /\ [Next]_vars => DeviceInv'
<1> SUFFICES ASSUME DeviceInv, [Next]_vars PROVE DeviceInv'
  OBVIOUS
<1> USE DeviceAssumption DEF DeviceInv, TypeOK, TimeInv, AssertionLastsWithTheCode
<1>1. expiresIn \in Nat
  OBVIOUS
<1>2. CASE AuthorizeFails \/ Authorize \/ PollFails \/ Expire
  BY <1>1, <1>2 DEF AuthorizeFails, Authorize, PollFails, Expire, Ends, Outcomes
<1>3. CASE Mint
  <2>1. Deadline(expiresIn, clock) \in Nat
        /\ Deadline(expiresIn, clock) <=
             (IF expiresIn = 0 THEN Fallback + MaxDelay ELSE expiresIn)
    BY <1>1, <1>3 DEF Mint, Deadline
  <2>2. /\ deviceAssertionLifetime(expiresIn, clock) \in Nat
        /\ expiresIn \in 1 .. MaxLifetime =>
             Deadline(expiresIn, clock) <= clock + deviceAssertionLifetime(expiresIn, clock)
    BY <1>1 DEF deviceAssertionLifetime, Deadline, Smallest
  <2> QED BY <1>1, <1>3, <2>1, <2>2 DEF Mint
<1>4. CASE Answer("approved") \/ Answer("denied")
  BY <1>1, <1>4 DEF Answer, Users
<1>5. CASE Poll
  <2>1. expiresIn \in 1 .. MaxLifetime => Authentic
    BY <1>1, <1>5 DEF Poll, Authentic
  <2>2. CASE UNCHANGED <<pc, outcome>>
    BY <1>1, <1>5, <2>2 DEF Poll
  <2>3. CASE ~UNCHANGED <<pc, outcome>>
    <3>1. pc' = "ended" /\ outcome' \in {"invalid_client", "token", "access_denied"}
          /\ (outcome' = "invalid_client" => ~Authentic)
          /\ UNCHANGED <<expiresIn, assertive, clock, deadline, exp, user>>
      <4>1. CASE ~Authentic
        BY <1>5, <2>3, <4>1 DEF Poll, Ends
      <4>2. CASE Authentic /\ user = "approved"
        BY <1>5, <2>3, <4>2 DEF Poll, Ends
      <4>3. CASE Authentic /\ user = "denied"
        BY <1>5, <2>3, <4>3 DEF Poll, Ends
      <4>4. CASE Authentic /\ user \notin {"approved", "denied"}
        BY <1>5, <2>3, <4>4 DEF Poll
      <4> QED BY <4>1, <4>2, <4>3, <4>4
    <3> QED BY <1>1, <2>1, <3>1 DEF Outcomes
  <2> QED BY <2>2, <2>3
<1>6. CASE Tick
  BY <1>1, <1>6 DEF Tick
<1>7. CASE Terminated \/ UNCHANGED vars
  BY <1>7 DEF Terminated, vars
<1> QED BY <1>2, <1>3, <1>4, <1>5, <1>6, <1>7 DEF Next

(***************************************************************************)
(* The composition implements its parts                                    *)
(***************************************************************************)

LEMMA DevicePart == [LoginNext]_loginVars => [Next]_vars
<1> SUFFICES ASSUME [LoginNext]_loginVars PROVE [Next]_vars
  OBVIOUS
<1>1. CASE SelectionStep
  BY <1>1 DEF SelectionStep, deviceVars
<1>2. CASE DeviceStep
  BY <1>2 DEF DeviceStep, Approve, DeviceGoesOn, DeviceSucceeds, DeviceFails, Next
<1>3. CASE UNCHANGED loginVars
  BY <1>3 DEF loginVars, deviceVars
<1> QED BY <1>1, <1>2, <1>3 DEF LoginNext

LEMMA SelectionPart == [LoginNext]_loginVars => [Selection!Next]_selectionVars
<1> SUFFICES ASSUME [LoginNext]_loginVars PROVE [Selection!Next]_selectionVars
  OBVIOUS
<1>1. CASE SelectionStep
  BY <1>1 DEF SelectionStep
<1>2. CASE Approve
  BY <1>2 DEF Approve, Selection!Next
<1>3. CASE DeviceGoesOn
  BY <1>3 DEF DeviceGoesOn
<1>4. CASE DeviceSucceeds
  BY <1>4 DEF DeviceSucceeds, Selection!Next
<1>5. CASE DeviceFails
  <2>1. PICK e \in DeviceErrors : Selection!AttemptFails(e)
    BY <1>5 DEF DeviceFails
  <2>2. /\ e \in Selection!PossibleErrors
        /\ phase \in {"authorize", "token"} /\ order[i] = "device"
    BY <1>5, <2>1 DEF DeviceFails, InDevice, Selection!AttemptFails
  <2>3. e \in Selection!Errors
    BY <2>2 DEF Selection!PossibleErrors
  <2> QED BY <2>1, <2>3 DEF Selection!Next
<1>6. CASE UNCHANGED loginVars
  BY <1>6 DEF loginVars
<1> QED BY <1>1, <1>2, <1>3, <1>4, <1>5, <1>6 DEF LoginNext, DeviceStep

\* Whatever the device-code attempts do in detail, the login chooses, falls back and
\* gives up as GrantSelection says.
THEOREM LoginImplementsSelection == LoginSpec => Selection!Spec
<1>1. LoginInit => Selection!Init
  BY DEF LoginInit
<1>2. [LoginNext]_loginVars => [Selection!Next]_(Selection!vars)
  BY SelectionPart DEF selectionVars, Selection!vars
<1> QED BY <1>1, <1>2, PTL DEF LoginSpec, Selection!Spec

(***************************************************************************)
(* The choice of the grants and the fallback                               *)
(***************************************************************************)

Orders == {<<>>, <<"authcode">>, <<"device">>, <<"authcode", "device">>}

LEMMA Pair ==
    ASSUME NEW S, NEW a \in S, NEW b \in S
    PROVE  <<a>> \o <<b>> = <<a, b>> /\ Append(<<a>>, b) = <<a, b>>
<1>1. <<a>> \in Seq(S) /\ <<b>> \in Seq(S) /\ <<a, b>> \in Seq(S)
  OBVIOUS
<1>2. <<a>> \o <<b>> \in Seq(S) /\ Len(<<a>> \o <<b>>) = 2
      /\ \A k \in 1 .. 2 : (<<a>> \o <<b>>)[k] = <<a, b>>[k]
  BY <1>1, ConcatProperties
<1>3. Append(<<a>>, b) \in Seq(S) /\ Len(Append(<<a>>, b)) = 2
      /\ \A k \in 1 .. 2 : Append(<<a>>, b)[k] = <<a, b>>[k]
  BY <1>1, AppendProperties
<1> QED BY <1>1, <1>2, <1>3, SeqEqual

LEMMA Single ==
    ASSUME NEW S, NEW a \in S
    PROVE  <<a>> \o <<>> = <<a>> /\ <<>> \o <<a>> = <<a>> /\ Append(<<>>, a) = <<a>>
<1>1. <<a>> \in Seq(S)
  OBVIOUS
<1> QED BY <1>1, ConcatEmptySeq

\* plan returns the grants that are eligible and viable, authcode first.
LEMMA PlanShape ==
    ASSUME NEW s
    PROVE  /\ Selection!Plan(s) \in Orders
           /\ \A g \in Selection!Grants :
                (\E k \in 1 .. Len(Selection!Plan(s)) : Selection!Plan(s)[k] = g)
                  <=> g \in Selection!Eligible(s)
                      /\ IF g = "authcode" THEN Selection!AuthcodeViable(s)
                         ELSE Selection!DeviceViable(s)
<1>1. CASE /\ "authcode" \in Selection!Eligible(s) /\ Selection!AuthcodeViable(s)
           /\ "device" \in Selection!Eligible(s) /\ Selection!DeviceViable(s)
  <2>1. Selection!Plan(s) = <<"authcode", "device">>
    BY <1>1, Pair DEF Selection!Plan
  <2> QED BY <1>1, <2>1 DEF Orders, Selection!Grants
<1>2. CASE /\ "authcode" \in Selection!Eligible(s) /\ Selection!AuthcodeViable(s)
           /\ ~("device" \in Selection!Eligible(s) /\ Selection!DeviceViable(s))
  <2>1. Selection!Plan(s) = <<"authcode">>
    BY <1>2, Single DEF Selection!Plan
  <2> QED BY <1>2, <2>1 DEF Orders, Selection!Grants
<1>3. CASE /\ ~("authcode" \in Selection!Eligible(s) /\ Selection!AuthcodeViable(s))
           /\ "device" \in Selection!Eligible(s) /\ Selection!DeviceViable(s)
  <2>1. Selection!Plan(s) = <<"device">>
    BY <1>3, Single DEF Selection!Plan
  <2> QED BY <1>3, <2>1 DEF Orders, Selection!Grants
<1>4. CASE /\ ~("authcode" \in Selection!Eligible(s) /\ Selection!AuthcodeViable(s))
           /\ ~("device" \in Selection!Eligible(s) /\ Selection!DeviceViable(s))
  <2>1. Selection!Plan(s) = <<>>
    BY <1>4 DEF Selection!Plan
  <2> QED BY <1>4, <2>1 DEF Orders, Selection!Grants
<1> QED BY <1>1, <1>2, <1>3, <1>4

LEMMA Initially == Selection!Init => Selection!IInv
<1> SUFFICES ASSUME Selection!Init PROVE Selection!IInv
  OBVIOUS
<1>1. Selection!TypeOK
  <2>1. errs \in Seq(Selection!Errors) /\ Len(errs) <= i /\ i \in 0 .. Len(order)
    BY DEF Selection!Init
  <2> QED BY <2>1 DEF Selection!Init, Selection!TypeOK, Selection!Control,
        Selection!Failures
<1>2. Selection!ProgressInv
  BY DEF Selection!Init, Selection!ProgressInv, Selection!Attempting
<1>3. Selection!ErrorsInv
  BY DEF Selection!Init, Selection!ErrorsInv
<1> QED BY <1>1, <1>2, <1>3 DEF Selection!IInv

\* The steps before the attempts.
LEMMA BeforeStep ==
    ASSUME Selection!IInv, Selection!RefreshFails \/ Selection!Refresh
          \/ Selection!DiscoveryFails \/ Selection!PlanFails \/ Selection!LoginBegins
    PROVE  Selection!IInv'
<1> USE DEF Selection!IInv
<1>1. phase \in {"refresh", "login"} /\ order = <<>> /\ i = 0 /\ errs = <<>>
      /\ consents = {}
      /\ failure = "none"
  BY DEF Selection!ProgressInv, Selection!RefreshFails, Selection!Refresh,
        Selection!DiscoveryFails, Selection!PlanFails, Selection!LoginBegins
<1>2. Selection!Plan(setup) \in Orders
  BY PlanShape
<1>3. CASE Selection!RefreshFails \/ Selection!Refresh \/ Selection!DiscoveryFails
      \/ Selection!PlanFails
  <2>1. /\ UNCHANGED <<setup, order, i, errs, consents>>
        /\ phase' \in {"login", "done", "failed"} /\ provider' \in BOOLEAN
        /\ failure' \in Selection!Failures
        /\ phase' # "failed" => failure' = "none"
    <3>1. CASE Selection!RefreshFails BY <1>1, <3>1 DEF Selection!RefreshFails,
          Selection!Failures
    <3>2. CASE Selection!Refresh BY <1>1, <3>2 DEF Selection!Refresh, Selection!Failures
    <3>3. CASE Selection!DiscoveryFails BY <1>1, <3>3 DEF Selection!DiscoveryFails,
          Selection!Fails, Selection!Failures, Selection!TypeOK
    <3>4. CASE Selection!PlanFails
      BY <1>1, <3>4 DEF Selection!PlanFails, Selection!Fails, Selection!Failures
    <3> QED BY <1>3, <3>1, <3>2, <3>3, <3>4
  <2>2. Selection!TypeOK'
    BY <1>1, <2>1 DEF Selection!TypeOK, Selection!Control
  <2>3. Selection!ProgressInv'
    BY <1>1, <2>1 DEF Selection!ProgressInv, Selection!Attempting, Selection!Plan,
          Selection!Tried, Selection!Eligible,
          Selection!AuthcodeViable, Selection!DeviceViable,
          Selection!AuthcodeAdvertised, Selection!DeviceAdvertised
  <2>4. Selection!ErrorsInv'
    BY <1>1, <2>1 DEF Selection!ErrorsInv
  <2> QED BY <2>2, <2>3, <2>4
<1>4. CASE Selection!LoginBegins
  <2>1. /\ order' = Selection!Plan(setup) /\ Selection!Plan(setup) # <<>> /\ i' = 1
        /\ phase' = "authorize"
        /\ provider' = TRUE /\ UNCHANGED <<setup, failure, errs, consents>>
    BY <1>4 DEF Selection!LoginBegins
  <2>2. order' \in Orders \ {<<>>} /\ Len(order') \in 1 .. 2
    BY <1>2, <2>1 DEF Orders
  <2>3. Selection!TypeOK'
    BY <1>1, <2>1, <2>2 DEF Selection!TypeOK, Selection!Control, Orders
  <2>4. Selection!Plan(setup') = Selection!Plan(setup)
    BY <2>1
  <2>5. Selection!ProgressInv'
    BY <1>1, <2>1, <2>2, <2>4 DEF Selection!ProgressInv, Selection!Attempting
  <2>6. Selection!ErrorsInv'
    BY <1>1, <2>1 DEF Selection!ErrorsInv
  <2> QED BY <2>3, <2>5, <2>6
<1> QED BY <1>3, <1>4

\* What is known of an attempt.
LEMMA AttemptFacts ==
    ASSUME Selection!IInv, Selection!Attempting
    PROVE  /\ order = Selection!Plan(setup) /\ order \in Orders \ {<<>>}
           /\ i \in 1 .. Len(order) /\ Len(order) \in 1 .. 2 /\ Len(errs) = i - 1
           /\ failure = "none" /\ order[i] \in Selection!Grants
           /\ i = 2 => order = <<"authcode", "device">>
           /\ i = 1 => errs = <<>>
           /\ i = 2 => \E e \in Selection!Errors : errs = <<e>>
<1>1. order = Selection!Plan(setup) /\ i \in 1 .. Len(order) /\ Len(errs) = i - 1
      /\ failure = "none"
  BY DEF Selection!IInv, Selection!ProgressInv, Selection!Attempting
<1>2. order \in Orders \ {<<>>}
  BY <1>1, PlanShape DEF Orders
<1>3. Len(order) \in 1 .. 2 /\ (i = 2 => order = <<"authcode", "device">>)
      /\ order[i] \in Selection!Grants
  BY <1>1, <1>2 DEF Orders, Selection!Grants
<1>4. errs \in {<<>>} \cup {<<e>> : e \in Selection!Errors}
              \cup {<<e, f>> : e, f \in Selection!Errors}
  BY DEF Selection!IInv, Selection!ErrorsInv
<1>5. i = 1 => errs = <<>>
  BY <1>1, <1>4
<1>6. i = 2 => \E e \in Selection!Errors : errs = <<e>>
  BY <1>1, <1>4
<1> QED BY <1>1, <1>2, <1>3, <1>5, <1>6

LEMMA ConsentStep == ASSUME Selection!IInv, Selection!Consent PROVE Selection!IInv'
<1>1. Selection!Attempting /\ phase = "authorize" /\ phase' = "token"
      /\ consents' = consents \cup {order[i]}
      /\ UNCHANGED <<setup, provider, order, i, failure, errs>>
  BY DEF Selection!Consent, Selection!Attempting
<1>2. /\ order = Selection!Plan(setup) /\ i \in 1 .. Len(order) /\ Len(errs) = i - 1
      /\ failure = "none" /\ order[i] \in Selection!Grants
      /\ i = 2 => order = <<"authcode", "device">>
  BY <1>1, AttemptFacts
<1>3. Selection!TypeOK'
  BY <1>1, <1>2 DEF Selection!IInv, Selection!TypeOK, Selection!Control
<1>4. order[i] \in Selection!Tried
  BY <1>2 DEF Selection!Tried
<1>5. Selection!Tried' = Selection!Tried
      /\ Selection!Plan(setup') = Selection!Plan(setup)
  BY <1>1 DEF Selection!Tried
<1>6. Selection!ProgressInv'
  BY <1>1, <1>2, <1>4, <1>5 DEF Selection!IInv, Selection!ProgressInv,
        Selection!Attempting
<1>7. Selection!ErrorsInv'
  BY <1>1, <1>2 DEF Selection!IInv, Selection!ErrorsInv
<1> QED BY <1>3, <1>6, <1>7 DEF Selection!IInv

LEMMA SucceedsStep == ASSUME Selection!IInv, Selection!Succeeds PROVE Selection!IInv'
<1>1. phase = "token" /\ phase' = "done"
      /\ UNCHANGED <<setup, provider, order, i, failure, errs, consents>>
  BY DEF Selection!Succeeds
<1>2. Selection!Tried' = Selection!Tried
      /\ Selection!Plan(setup') = Selection!Plan(setup)
  BY <1>1 DEF Selection!Tried
<1>3. Selection!TypeOK'
  BY <1>1 DEF Selection!IInv, Selection!TypeOK, Selection!Control
<1>4. Selection!ProgressInv'
  BY <1>1, <1>2 DEF Selection!IInv, Selection!ProgressInv, Selection!Attempting
<1>5. Selection!ErrorsInv'
  BY <1>1 DEF Selection!IInv, Selection!ErrorsInv
<1> QED BY <1>3, <1>4, <1>5 DEF Selection!IInv

\* An authorization error comes before the consent to that grant.
LEMMA AuthorizationErrorFirst ==
    ASSUME Selection!IInv, Selection!Attempting,
           NEW e \in Selection!PossibleErrors, e.from = "authorization"
    PROVE  phase = "authorize" /\ order[i] = "authcode" /\ "authcode" \notin consents
<1>1. phase = "authorize" /\ order[i] = "authcode"
  BY DEF Selection!PossibleErrors
<1> QED BY <1>1 DEF Selection!IInv, Selection!ProgressInv

LEMMA AttemptFailsStep ==
    ASSUME Selection!IInv, NEW e \in Selection!Errors, Selection!AttemptFails(e)
    PROVE  Selection!IInv'
<1>1. Selection!Attempting /\ e \in Selection!PossibleErrors /\ errs' = Append(errs, e)
      /\ UNCHANGED <<setup, provider, order, consents>>
  BY DEF Selection!AttemptFails, Selection!Attempting
<1>2. /\ order = Selection!Plan(setup) /\ order \in Orders \ {<<>>}
      /\ i \in 1 .. Len(order) /\ Len(order) \in 1 .. 2 /\ Len(errs) = i - 1
      /\ failure = "none" /\ order[i] \in Selection!Grants
      /\ i = 2 => order = <<"authcode", "device">>
      /\ i = 1 => errs = <<>>
      /\ i = 2 => \E f \in Selection!Errors : errs = <<f>>
  BY <1>1, AttemptFacts
<1>3.
      /\ errs' \in {<<f>> : f \in Selection!Errors}
                    \cup {<<f, g>> : f, g \in Selection!Errors}
      /\ Len(errs') = i /\ errs' # <<>> /\ errs'[i] = e
            /\ errs' \in Seq(Selection!Errors)
      /\ i = 2 => errs'[1] = errs[1]
  <2>1. CASE i = 1
    <3>1. errs' = <<e>>
      BY <1>1, <1>2, <2>1
    <3> QED BY <2>1, <3>1
  <2>2. CASE i = 2
    <3>1. PICK f \in Selection!Errors : errs = <<f>>
      BY <1>2, <2>2
    <3>2. errs' = <<f, e>>
      BY <1>1, <3>1, Pair
    <3> QED BY <2>2, <3>1, <3>2
  <2> QED BY <1>2, <2>1, <2>2
<1>4. Selection!Plan(setup') = Selection!Plan(setup)
  BY <1>1
<1>5. CASE i = Len(order) \/ ~Selection!isPerClientRejection(e)
  <2>1. phase' = "failed" /\ failure' = "attempt" /\ i' = i
    BY <1>5 DEF Selection!AttemptFails, Selection!Fails
  <2>2. Selection!Tried' = Selection!Tried
    BY <1>1, <2>1 DEF Selection!Tried
  <2>3. Selection!TypeOK'
    BY <1>1, <1>3, <2>1 DEF Selection!IInv, Selection!TypeOK, Selection!Control,
          Selection!Failures
  <2>4. Selection!ProgressInv'
    BY <1>1, <1>2, <1>3, <1>4, <2>1, <2>2 DEF Selection!IInv, Selection!ProgressInv,
          Selection!Attempting
  <2>5. Selection!ErrorsInv'
    BY <1>1, <1>2, <1>3, <1>5, <2>1 DEF Selection!IInv, Selection!ErrorsInv
  <2> QED BY <2>3, <2>4, <2>5 DEF Selection!IInv
<1>6. CASE i # Len(order) /\ Selection!isPerClientRejection(e)
  <2>1. phase' = "authorize" /\ failure' = failure /\ i' = i + 1
    BY <1>6 DEF Selection!AttemptFails
  <2>2. i = 1 /\ i' = 2 /\ Len(order) = 2 /\ order = <<"authcode", "device">>
        /\ Len(errs') = 1 /\ errs'[1] = e
    BY <1>2, <1>3, <1>6, <2>1 DEF Orders
  <2>3. Selection!TypeOK'
    BY <1>1, <1>3, <2>1, <2>2 DEF Selection!IInv, Selection!TypeOK, Selection!Control
  <2>4. consents \subseteq {"authcode"}
    BY <2>2 DEF Selection!IInv, Selection!ProgressInv, Selection!Tried
  <2>5. consents' \subseteq Selection!Tried' /\ order'[i'] \notin consents'
    BY <1>1, <2>2, <2>4 DEF Selection!Tried
  <2>6. Selection!ProgressInv'
    BY <1>1, <1>2, <1>3, <1>4, <2>1, <2>2, <2>5 DEF Selection!ProgressInv,
          Selection!Attempting
  <2>7. e.from = "authorization" => "authcode" \notin consents
    BY <1>1, AuthorizationErrorFirst
  <2>8. Selection!ErrorsInv'
    BY <1>1, <1>3, <1>6, <2>1, <2>2, <2>7 DEF Selection!ErrorsInv
  <2> QED BY <2>3, <2>6, <2>8 DEF Selection!IInv
<1> QED BY <1>5, <1>6

\* IInv holds throughout.
THEOREM SelectionInvariant == Selection!Spec => []Selection!IInv
<1>1. Selection!IInv /\ [Selection!Next]_(Selection!vars) => Selection!IInv'
  <2> SUFFICES ASSUME Selection!IInv, [Selection!Next]_(Selection!vars)
               PROVE  Selection!IInv'
    OBVIOUS
  <2>1. CASE Selection!RefreshFails \/ Selection!Refresh \/ Selection!DiscoveryFails
        \/ Selection!PlanFails \/ Selection!LoginBegins
    BY <2>1, BeforeStep
  <2>2. CASE Selection!Consent BY <2>2, ConsentStep
  <2>3. CASE Selection!Succeeds BY <2>3, SucceedsStep
  <2>4. ASSUME NEW e \in Selection!Errors, Selection!AttemptFails(e) PROVE Selection!IInv'
    BY <2>4, AttemptFailsStep
  <2>5. CASE UNCHANGED Selection!vars
    BY <2>5 DEF Selection!vars, Selection!IInv, Selection!TypeOK,
          Selection!ProgressInv, Selection!ErrorsInv, Selection!Attempting,
          Selection!Tried
  <2> QED BY <2>1, <2>2, <2>3, <2>4, <2>5 DEF Selection!Next, Selection!Terminated
<1> QED BY Initially, <1>1, PTL DEF Selection!Spec

\* NoSecondLoginForNothing: a second attempt only for a client that may not use the
\* first grant.
LEMMA NoLoginForNothing == Selection!Spec => []Selection!NoSecondLoginForNothing
<1>1. Selection!IInv => Selection!NoSecondLoginForNothing
  <2> SUFFICES ASSUME Selection!IInv PROVE Selection!NoSecondLoginForNothing
    OBVIOUS
  <2>1. i = 2 => order = <<"authcode", "device">>
    <3>1. order \in Orders /\ i \in 0 .. Len(order)
      BY DEF Selection!IInv, Selection!TypeOK, Orders
    <3>2. CASE order = <<>> BY <3>1, <3>2
    <3>3. CASE order = <<"authcode">> BY <3>1, <3>3
    <3>4. CASE order = <<"device">> BY <3>1, <3>4
    <3> QED BY <3>1, <3>2, <3>3, <3>4 DEF Orders
  <2>2. Len(errs) = 2 \/ i = 2 =>
          /\ Selection!isPerClientRejection(errs[1]) /\ errs[1] \in Selection!Errors
          /\ errs[1].from = "authorization" => "authcode" \notin consents
    BY DEF Selection!IInv, Selection!ErrorsInv
  <2> QED BY <2>1, <2>2 DEF Selection!NoSecondLoginForNothing,
        Selection!isPerClientRejection, Selection!Errors
<1> QED BY SelectionInvariant, <1>1, PTL

\* OnlyReachableUsers: nobody is prompted where they cannot see it.
LEMMA ReachableUsersOnly == Selection!Spec => []Selection!OnlyReachableUsers
<1>1. Selection!IInv => Selection!OnlyReachableUsers
  <2> SUFFICES ASSUME Selection!IInv, NEW g \in Selection!Tried PROVE
        IF g = "authcode" THEN setup.display
        ELSE g = "device" => setup.tty /\ ~setup.nonInteractive
    BY DEF Selection!OnlyReachableUsers
  <2>1. order = Selection!Plan(setup) /\ \E k \in 1 .. Len(order) : order[k] = g
    BY DEF Selection!IInv, Selection!TypeOK, Selection!ProgressInv, Selection!Tried
  <2>2. g \in Selection!Grants
    BY <2>1, PlanShape DEF Orders, Selection!Grants
  <2> QED BY <2>1, <2>2, PlanShape DEF Selection!AuthcodeViable, Selection!DeviceViable
<1> QED BY SelectionInvariant, <1>1, PTL

\* BarredClientTriesEveryGrant: a barred client fails only after every grant this
\* setup can use.
LEMMA BarredClients == Selection!Spec => []Selection!BarredClientTriesEveryGrant
<1>1. Selection!IInv => Selection!BarredClientTriesEveryGrant
  <2> SUFFICES ASSUME Selection!IInv, phase = "failed", errs # <<>>,
                      Selection!isPerClientRejection(errs[Len(errs)]),
                      NEW g \in Selection!Eligible(setup) \ Selection!Tried
               PROVE  IF g = "authcode" THEN ~setup.display \/ ~setup.authcode
                      ELSE ~setup.tty \/ setup.nonInteractive \/ ~setup.endpoint
                           \/ ~setup.device
    BY DEF Selection!BarredClientTriesEveryGrant
  <2>1. order = Selection!Plan(setup) /\ i = Len(order)
    BY DEF Selection!IInv, Selection!ProgressInv, Selection!ErrorsInv
  <2>2. g \in Selection!Grants
    BY DEF Selection!Eligible, Selection!Grants
  <2>3. ~ \E k \in 1 .. Len(Selection!Plan(setup)) : Selection!Plan(setup)[k] = g
    BY <2>1 DEF Selection!Tried
  <2>4. ~ IF g = "authcode" THEN Selection!AuthcodeViable(setup)
                            ELSE Selection!DeviceViable(setup)
    BY <2>2, <2>3, PlanShape
  <2>5. setup \in Selection!Setups
    BY DEF Selection!IInv, Selection!TypeOK
  <2> QED BY <2>4, <2>5 DEF Selection!AuthcodeViable, Selection!DeviceViable,
        Selection!AuthcodeAdvertised,
                            Selection!DeviceAdvertised, Selection!Setups
<1> QED BY SelectionInvariant, <1>1, PTL

\* NoSecondLoginForNothing, with the device-code login in full.
THEOREM LoginAsksOnce == LoginSpec => []NoSecondLoginForNothing
BY LoginImplementsSelection, NoLoginForNothing, PTL DEF NoSecondLoginForNothing

\* OnlyReachableUsers, with the device-code login in full.
THEOREM LoginReachesTheUser == LoginSpec => []OnlyReachableUsers
BY LoginImplementsSelection, ReachableUsersOnly, PTL DEF OnlyReachableUsers

\* BarredClientTriesEveryGrant, with the device-code login in full.
THEOREM LoginTriesEveryGrant == LoginSpec => []BarredClientTriesEveryGrant
BY LoginImplementsSelection, BarredClients, PTL DEF BarredClientTriesEveryGrant

(***************************************************************************)
(* The theorems of the device-code login                                   *)
(***************************************************************************)

LEMMA DeviceInvariant == LoginSpec => []DeviceInv
<1>1. LoginInit => DeviceInv
  BY DeviceInitially DEF LoginInit
<1>2. DeviceInv /\ [LoginNext]_loginVars => DeviceInv'
  BY DevicePart, DeviceStepKeeps
<1> QED BY <1>1, <1>2, PTL DEF LoginSpec

\* AssertionLastsWithTheCode: up to its cap the one assertion is good for as long as
\* the code, with whatever lifetimes and delays.
THEOREM AssertionLasts == LoginSpec => []AssertionLastsWithTheCode
<1>1. DeviceInv => AssertionLastsWithTheCode
  BY DEF DeviceInv
<1> QED BY <1>1, DeviceInvariant, PTL

(***************************************************************************)
(* Both parts together                                                     *)
(***************************************************************************)

\* What ties the two parts together: a prompt is the login's device attempt, and its
\* token is the login's.
LinkInv ==
    /\ pc # "authorize" => "device" \in Selection!Tried
    /\ outcome = "token" => phase = "done" /\ "device" \in consents

\* The login never takes back an attempt, a consent or its end.
LEMMA SelectionMonotone ==
    ASSUME Selection!IInv, [Selection!Next]_selectionVars
    PROVE  /\ Selection!Tried \subseteq Selection!Tried'
           /\ consents \subseteq consents'
           /\ phase = "done" => phase' = "done"
<1>1. \A k \in 1 .. i : k \in 1 .. i' /\ order'[k] = order[k]
  <2>1. CASE Selection!RefreshFails \/ Selection!Refresh \/ Selection!DiscoveryFails
             \/ Selection!PlanFails
    BY <2>1 DEF Selection!RefreshFails, Selection!Refresh, Selection!DiscoveryFails,
                Selection!PlanFails
  <2>2. CASE Selection!LoginBegins
    BY <2>2 DEF Selection!LoginBegins, Selection!IInv, Selection!ProgressInv
  <2>3. CASE Selection!Consent \/ Selection!Succeeds \/ Selection!Terminated
             \/ UNCHANGED selectionVars
    BY <2>3 DEF Selection!Consent, Selection!Succeeds, Selection!Terminated,
                Selection!vars, selectionVars
  <2>4. ASSUME NEW e \in Selection!Errors, Selection!AttemptFails(e)
        PROVE  \A k \in 1 .. i : k \in 1 .. i' /\ order'[k] = order[k]
    <3>1. i \in Nat
      BY DEF Selection!IInv, Selection!TypeOK
    <3> QED BY <2>4, <3>1 DEF Selection!AttemptFails, Selection!Fails
  <2> QED BY <2>1, <2>2, <2>3, <2>4 DEF Selection!Next
<1>2. consents \subseteq consents' /\ (phase = "done" => phase' = "done")
  BY DEF Selection!Next, Selection!RefreshFails, Selection!Refresh, Selection!Fails,
      Selection!DiscoveryFails, Selection!PlanFails, Selection!LoginBegins,
      Selection!Consent, Selection!Succeeds, Selection!AttemptFails,
      Selection!Terminated, Selection!vars, selectionVars
<1> QED BY <1>1, <1>2 DEF Selection!Tried

LEMMA LinkStep ==
    ASSUME DeviceInv, Selection!IInv, LinkInv, [LoginNext]_loginVars
    PROVE  LinkInv'
<1>1. [Selection!Next]_selectionVars
  BY SelectionPart
<1>2. /\ Selection!Tried \subseteq Selection!Tried'
      /\ consents \subseteq consents'
      /\ phase = "done" => phase' = "done"
  BY <1>1, SelectionMonotone
<1>3. CASE SelectionStep \/ UNCHANGED loginVars
  BY <1>2, <1>3 DEF SelectionStep, loginVars, deviceVars, vars, LinkInv
<1>4. CASE DeviceStep
  <2>1. InDevice
    BY <1>4 DEF DeviceStep, Approve, DeviceGoesOn, DeviceSucceeds, DeviceFails
  <2>2. "device" \in Selection!Tried
    <3>1. i \in 1 .. Len(order) /\ order[i] = "device"
      BY <2>1 DEF InDevice, Selection!IInv, Selection!ProgressInv, Selection!Attempting
    <3>2. order \in Orders /\ i \in 0 .. Len(order)
      BY DEF Selection!IInv, Selection!TypeOK, Orders
    <3>3. i \in 1 .. i
      BY <3>1, <3>2 DEF Orders
    <3> QED BY <3>1, <3>3 DEF Selection!Tried
  <2>3. outcome # "token"
    BY <2>1 DEF LinkInv, InDevice
  <2>4. outcome' = "token" => phase' = "done" /\ "device" \in consents'
    <3>1. CASE Approve
      BY <2>3, <3>1 DEF Approve, Answer
    <3>2. CASE DeviceGoesOn
      <4>1. CASE Poll
        BY <2>3, <3>2, <4>1 DEF DeviceGoesOn, Poll, Ends
      <4> QED BY <2>3, <3>2, <4>1 DEF DeviceGoesOn, Authorize, Mint, Answer, Tick
    <3>3. CASE DeviceSucceeds
      <4>1. /\ phase = "token" /\ phase' = "done"
            /\ consents' = consents /\ order[i] = "device"
        BY <2>1, <3>3 DEF DeviceSucceeds, Selection!Succeeds, InDevice
      <4> QED BY <4>1 DEF Selection!IInv, Selection!ProgressInv
    <3>4. CASE DeviceFails
      BY <3>4 DEF DeviceFails
    <3> QED BY <1>4, <3>1, <3>2, <3>3, <3>4 DEF DeviceStep
  <2> QED BY <1>2, <2>2, <2>4 DEF LinkInv
<1> QED BY <1>3, <1>4 DEF LoginNext

\* PartsAgree: with whatever lifetimes, delays and answers, only an attempt with the
\* device grant prompts, and it succeeds only after the user's consent.
THEOREM PartsStayInStep == LoginSpec => []PartsAgree
<1>1. LoginInit => LinkInv
  BY DEF LoginInit, Init, LinkInv
<1>2. DeviceInv /\ Selection!IInv /\ LinkInv /\ [LoginNext]_loginVars => LinkInv'
  BY LinkStep
<1>3. DeviceInv /\ Selection!IInv /\ LinkInv => PartsAgree
  BY DEF DeviceInv, Selection!IInv, LinkInv, PartsAgree
<1> QED BY <1>1, <1>2, <1>3, DeviceInvariant, LoginImplementsSelection,
           SelectionInvariant, PTL DEF LoginSpec

=============================================================================
