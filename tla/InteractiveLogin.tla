-------------------------- MODULE InteractiveLogin --------------------------
(***************************************************************************)
(* Source.Login with the device-code attempt in full: GrantSelection, whose *)
(* attempt with the device grant is DeviceLogin, step by step and in time. *)
(* The attempt with the authorization code stays GrantSelection's;         *)
(* LoopbackCallback is its detail.                                         *)
(***************************************************************************)
EXTENDS DeviceLogin, Sequences

VARIABLES setup, provider, phase, order, i, failure, errs, consents

deviceVars == vars

selectionVars == <<setup, provider, phase, order, i, failure, errs, consents>>

Selection == INSTANCE GrantSelection WITH pc <- phase

InDevice == phase \in {"authorize", "token"} /\ order[i] = "device"

\* What Login is told of a device-code attempt that ended without a token.
DeviceErrors ==
    CASE outcome' \in {"access_denied", "invalid_client"} -> {[from |-> "endpoint", code |-> "other"]}
      [] outcome' = "deadline" -> {[from |-> "other", code |-> ""]}
      [] OTHER -> {e \in Selection!Errors : e.from # "authorization"}

LoginInit == Init /\ Selection!Init

SelectionStep == ~InDevice /\ Selection!Next /\ UNCHANGED deviceVars

Approve ==
    /\ InDevice /\ Answer("approved")
    /\ Selection!Consent

\* Every other step of an attempt that goes on.
DeviceGoesOn ==
    /\ InDevice /\ pc # "ended"
    /\ \/ Authorize \/ Mint \/ Answer("denied") \/ Poll \/ Tick
    /\ pc' # "ended"
    /\ UNCHANGED selectionVars

DeviceSucceeds ==
    /\ InDevice /\ Poll
    /\ outcome' = "token"
    /\ Selection!Succeeds

DeviceFails ==
    /\ InDevice
    /\ AuthorizeFails \/ Poll \/ PollFails \/ Expire
    /\ pc' = "ended" /\ outcome' # "token"
    /\ \E e \in DeviceErrors : Selection!AttemptFails(e)

DeviceStep == Approve \/ DeviceGoesOn \/ DeviceSucceeds \/ DeviceFails

LoginNext == SelectionStep \/ DeviceStep

loginVars == <<deviceVars, selectionVars>>

LoginSpec == LoginInit /\ [][LoginNext]_loginVars

\* What the process and its clock do by themselves.
OwnDeviceStep ==
    DeviceStep /\ (Authorize \/ AuthorizeFails \/ Mint \/ Tick \/ Expire)

\* The login waits for the callback of an attempt with the authorization code.
InBrowser == phase = "authorize" /\ order[i] = "authcode"

\* Process and clock go on.  No user has to answer, no request has to fail, and
\* nothing ends the wait for a callback here: when it ends is LoopbackCallback's.
LoginFairSpec ==
    LoginSpec /\ WF_loginVars(SelectionStep /\ ~InBrowser) /\ WF_loginVars(OwnDeviceStep)

(***************************************************************************)
(* Properties                                                              *)
(***************************************************************************)

\* Both parts keep their types, only an attempt with the device grant prompts with
\* a user code, and it succeeds only after the user's consent (Source.attempt).
PartsAgree ==
    /\ TypeOK /\ Selection!TypeOK
    /\ pc # "authorize" => "device" \in Selection!Tried
    /\ outcome = "token" => phase = "done" /\ "device" \in consents

\* GrantSelection's NoSecondLoginForNothing, with the device code in full.
NoSecondLoginForNothing == Selection!NoSecondLoginForNothing

\* GrantSelection's OnlyReachableUsers, with the device code in full.
OnlyReachableUsers == Selection!OnlyReachableUsers

\* GrantSelection's BarredClientTriesEveryGrant, with the device code in full.
BarredClientTriesEveryGrant == Selection!BarredClientTriesEveryGrant

\* Nobody has to answer for a login to end, after a fallback either: a device-code
\* attempt brings its own deadline, whatever the issuer says of the code.  Only the
\* wait for a callback may last, and LoopbackCallback's EveryLoginEnds says when:
\* while a peer keeps a connection open that Shutdown waits for (callback.go:76).
EveryLoginEnds == <>(phase \in {"done", "failed"}) \/ <>[]InBrowser

=============================================================================
