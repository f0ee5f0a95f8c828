---------------------------- MODULE DeviceLogin -----------------------------
(***************************************************************************)
(* The device-code login, oidc.Provider.DeviceLogin, in time (a unit is a  *)
(* minute): the device authorization, the client assertion, minted once,   *)
(* and the poll loop of x/oauth2 that presents it at every poll until its  *)
(* context ends.                                                           *)
(***************************************************************************)
EXTENDS Naturals

CONSTANTS
    Expiries,    \* expires_in an issuer may answer with; 0: the field is missing
    Fallback,    \* deviceLoginFallbackTimeout
    MaxLifetime, \* maxDeviceAssertionLifetime
    Lifetime,    \* clientAssertionLifetime
    MaxDelay     \* bound: how long the process may be held up at either end

ASSUME DeviceAssumption ==
    /\ Expiries \subseteq Nat
    /\ Fallback \in Nat /\ MaxLifetime \in Nat /\ Lifetime \in Nat /\ MaxDelay \in Nat
    /\ 0 < Lifetime /\ Lifetime <= MaxLifetime

VARIABLES
    expiresIn,  \* what the device authorization answers
    assertive,  \* the client authenticates with private_key_jwt
    pc,         \* where DeviceLogin is
    clock,      \* since the device code was issued
    deadline,   \* of the poll loop's context
    exp,        \* of the client assertion
    user,       \* what the user answered
    outcome     \* how the login ended

vars == <<expiresIn, assertive, pc, clock, deadline, exp, user, outcome>>

Users == {"pending", "approved", "denied"}

Outcomes == {"none", "token", "access_denied", "invalid_client", "deadline", "other"}

Smallest(a, b) == IF a <= b THEN a ELSE b

\* x/oauth2 ends the loop at the device code's expiry; without one DeviceLogin
\* bounds it itself.
Deadline(e, now) == IF e = 0 THEN now + Fallback ELSE e

\* Mutant of deviceAssertionLifetime: the fixed window of the other flows.
deviceAssertionLifetimeFixed(e, now) == Lifetime

deviceAssertionLifetime(e, now) ==
    IF e = 0 \/ e <= now THEN Lifetime ELSE Smallest(e - now, MaxLifetime)

Init ==
    /\ expiresIn \in Expiries
    /\ assertive \in BOOLEAN
    /\ pc = "authorize"
    /\ clock = 0 /\ deadline = 0 /\ exp = 0
    /\ user = "pending"
    /\ outcome = "none"

Ends(o) == pc' = "ended" /\ outcome' = o

AuthorizeFails ==
    /\ pc = "authorize"
    /\ Ends("other")
    /\ UNCHANGED <<expiresIn, assertive, clock, deadline, exp, user>>

\* The device code is issued and the prompt printed.
Authorize ==
    /\ pc = "authorize"
    /\ pc' = "prompted"
    /\ UNCHANGED <<expiresIn, assertive, clock, deadline, exp, user, outcome>>

Mint ==
    /\ pc = "prompted"
    /\ deadline' = Deadline(expiresIn, clock)
    /\ exp' = clock + deviceAssertionLifetime(expiresIn, clock)
    /\ pc' = "polling"
    /\ UNCHANGED <<expiresIn, assertive, clock, user, outcome>>

Answer(a) ==
    /\ pc \in {"prompted", "polling"} /\ user = "pending"
    /\ user' = a
    /\ UNCHANGED <<expiresIn, assertive, pc, clock, deadline, exp, outcome>>

Authentic == assertive => clock < exp

Poll ==
    /\ pc = "polling" /\ clock < deadline
    /\ CASE ~Authentic -> Ends("invalid_client")
         [] Authentic /\ user = "approved" -> Ends("token")
         [] Authentic /\ user = "denied" -> Ends("access_denied")
         [] OTHER -> UNCHANGED <<pc, outcome>>
    /\ UNCHANGED <<expiresIn, assertive, clock, deadline, exp, user>>

\* A request that cannot be sent, or an answer that is none, ends the loop.
PollFails ==
    /\ pc = "polling"
    /\ Ends("other")
    /\ UNCHANGED <<expiresIn, assertive, clock, deadline, exp, user>>

\* Mutant of Expire: only the device code's expiry ends the loop.
ExpireOfCode ==
    /\ pc = "polling" /\ clock >= deadline /\ expiresIn # 0
    /\ Ends("deadline")
    /\ UNCHANGED <<expiresIn, assertive, clock, deadline, exp, user>>

Expire ==
    /\ pc = "polling" /\ clock >= deadline
    /\ Ends("deadline")
    /\ UNCHANGED <<expiresIn, assertive, clock, deadline, exp, user>>

\* The bound of the clock: the process is held up for at most MaxDelay.
Tick ==
    /\ \/ pc = "prompted" /\ clock < MaxDelay
       \/ pc = "polling" /\ clock < deadline + MaxDelay
    /\ clock' = clock + 1
    /\ UNCHANGED <<expiresIn, assertive, pc, deadline, exp, user, outcome>>

Terminated == pc = "ended" /\ UNCHANGED vars

Next == \/ AuthorizeFails \/ Authorize \/ Mint
        \/ Answer("approved") \/ Answer("denied")
        \/ Poll \/ PollFails \/ Expire
        \/ Tick \/ Terminated

Spec == Init /\ [][Next]_vars

(***************************************************************************)
(* Properties                                                              *)
(***************************************************************************)

TypeOK ==
    /\ expiresIn \in Expiries /\ assertive \in BOOLEAN
    /\ pc \in {"authorize", "prompted", "polling", "ended"}
    /\ clock \in Nat /\ deadline \in Nat /\ exp \in Nat
    /\ user \in Users /\ outcome \in Outcomes

\* A code that lives no longer than the cap of the assertion is never refused for
\* a stale assertion, however late before its expiry the user answers and the
\* assertion was minted (deviceAssertionLifetime).
AssertionLastsWithTheCode ==
    expiresIn \in 1 .. MaxLifetime => outcome # "invalid_client"

\* device.go:85: the one assertion of the flow "must outlive the whole poll loop".
AssertionOutlivesPollLoop == outcome # "invalid_client"

\* The inductive invariant behind the theorems of InteractiveLoginProofs.
TimeInv ==
    /\ pc = "prompted" => clock <= MaxDelay
    /\ pc = "authorize" => clock = 0
    /\ pc = "polling" =>
         /\ deadline <= (IF expiresIn = 0 THEN Fallback + MaxDelay ELSE expiresIn)
         /\ expiresIn \in 1 .. MaxLifetime => deadline <= exp
    /\ pc # "ended" => outcome = "none"

DeviceInv == TypeOK /\ TimeInv /\ AssertionLastsWithTheCode

=============================================================================
