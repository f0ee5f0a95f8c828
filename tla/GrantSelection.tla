--------------------------- MODULE GrantSelection ---------------------------
(***************************************************************************)
(* authflow.Source in one invocation: discovery, the silent refresh of the *)
(* runner, the choice of the interactive grants (plan) and the attempts of *)
(* Login with the bounded fallback.  An attempt has two phases, the user's *)
(* part (authorize) and the token request after it (token).                *)
(***************************************************************************)
EXTENDS Naturals, Sequences

\* OAuth2 error codes an endpoint may answer with; "other" is any of the rest.
Codes == {"unauthorized_client", "invalid_grant", "other"}

Grants == {"authcode", "device"}

\* --grant-type, --non-interactive, the Environment, and what discovery reports:
\* SupportsGrant of both grants, the device authorization endpoint, PKCE's S256.
Setups == [grantType : {"auto", "authcode", "device-code"}, nonInteractive : BOOLEAN,
           tty : BOOLEAN, display : BOOLEAN,
           authcode : BOOLEAN, device : BOOLEAN, endpoint : BOOLEAN, s256 : BOOLEAN]

\* Errors of an attempt: of the authorization endpoint (AuthorizationError), of
\* a token or device endpoint (RetrieveError), or any other.
Errors == [from : {"authorization", "endpoint"}, code : Codes]
            \cup [from : {"other"}, code : {""}]

VARIABLES
    setup,     \* this invocation's configuration, environment and issuer
    provider,  \* discovery has succeeded and is kept
    pc,        \* where the invocation is
    order,     \* what plan returned
    i,         \* the attempt of Login's loop
    failure,   \* why there is no token
    errs,      \* history: the errors of the attempts
    consents   \* history: the grants whose user part was completed

vars == <<setup, provider, pc, order, i, failure, errs, consents>>

Control == {"refresh", "login", "authorize", "token", "done", "failed"}

Failures == {"none", "discovery", "unsupported", "unavailable", "attempt"}

Init ==
    /\ setup \in Setups
    /\ provider = FALSE
    /\ pc \in {"refresh", "login"}
    /\ order = <<>>
    /\ i = 0
    /\ failure = "none"
    /\ errs = <<>>
    /\ consents = {}

(***************************************************************************)
(* plan                                                                    *)
(***************************************************************************)

AuthcodeAdvertised(s) == s.authcode

DeviceAdvertised(s) == s.endpoint /\ s.device

AuthcodeViable(s) == AuthcodeAdvertised(s) /\ s.display

\* Mutant of DeviceViable: --non-interactive is not asked.
DeviceViableUnasked(s) == DeviceAdvertised(s) /\ s.tty

DeviceViable(s) == DeviceAdvertised(s) /\ s.tty /\ ~s.nonInteractive

Eligible(s) == CASE s.grantType = "authcode" -> {"authcode"}
                 [] s.grantType = "device-code" -> {"device"}
                 [] OTHER -> Grants

Advertised(s) ==
    \/ "authcode" \in Eligible(s) /\ AuthcodeAdvertised(s)
    \/ "device" \in Eligible(s) /\ DeviceAdvertised(s)

\* Mutant of Plan: the device code comes first.
PlanDeviceFirst(s) ==
    (IF "device" \in Eligible(s) /\ DeviceViable(s) THEN <<"device">> ELSE <<>>)
      \o (IF "authcode" \in Eligible(s) /\ AuthcodeViable(s) THEN <<"authcode">> ELSE <<>>)

Plan(s) ==
    (IF "authcode" \in Eligible(s) /\ AuthcodeViable(s) THEN <<"authcode">> ELSE <<>>)
      \o (IF "device" \in Eligible(s) /\ DeviceViable(s) THEN <<"device">> ELSE <<>>)

\* Mutant of isPerClientRejection: the codes count wherever they come from.
isPerClientRejectionAnywhere(e) == e.code \in {"unauthorized_client", "invalid_grant"}

isPerClientRejection(e) ==
    \/ e.from = "endpoint" /\ e.code = "unauthorized_client"
    \/ e.from = "authorization" /\ e.code \in {"unauthorized_client", "invalid_grant"}

(***************************************************************************)
(* Refresh and Login                                                       *)
(***************************************************************************)

Fails(f) == pc' = "failed" /\ failure' = f

\* Discovery or the request fails; only a discovery that succeeded is kept.
RefreshFails ==
    /\ pc = "refresh"
    /\ provider' \in BOOLEAN
    /\ pc' = "login"
    /\ UNCHANGED <<setup, order, i, failure, errs, consents>>

Refresh ==
    /\ pc = "refresh"
    /\ provider' = TRUE
    /\ pc' = "done"
    /\ UNCHANGED <<setup, order, i, failure, errs, consents>>

DiscoveryFails ==
    /\ pc = "login"
    /\ ~provider
    /\ Fails("discovery")
    /\ UNCHANGED <<setup, provider, order, i, errs, consents>>

PlanFails ==
    /\ pc = "login"
    /\ Plan(setup) = <<>>
    /\ provider' = TRUE
    /\ Fails(IF Advertised(setup) THEN "unavailable" ELSE "unsupported")
    /\ UNCHANGED <<setup, order, i, errs, consents>>

LoginBegins ==
    /\ pc = "login"
    /\ Plan(setup) # <<>>
    /\ provider' = TRUE
    /\ order' = Plan(setup)
    /\ i' = 1
    /\ pc' = "authorize"
    /\ UNCHANGED <<setup, failure, errs, consents>>

\* The user signs in and agrees, in the browser or with the user code.
\* Authcode refuses an issuer that lacks S256 before anyone is asked.
Consent ==
    /\ pc = "authorize"
    /\ order[i] = "authcode" => setup.s256
    /\ consents' = consents \cup {order[i]}
    /\ pc' = "token"
    /\ UNCHANGED <<setup, provider, order, i, failure, errs>>

Succeeds ==
    /\ pc = "token"
    /\ pc' = "done"
    /\ UNCHANGED <<setup, provider, order, i, failure, errs, consents>>

\* What an attempt may fail with where it stands.
PossibleErrors ==
    CASE pc = "authorize" /\ order[i] = "authcode" ->
            {e \in Errors : /\ e.from # "endpoint"
                            /\ setup.s256 \/ e.from = "other"}
      [] pc = "authorize" /\ order[i] = "device" -> {e \in Errors : e.from # "authorization"}
      [] pc = "token" -> {e \in Errors : e.from # "authorization"}
      [] OTHER -> {}

\* Mutant of AttemptFails: the loop stops after the first attempt.
AttemptFailsAtOnce(e) ==
    /\ pc \in {"authorize", "token"} /\ e \in PossibleErrors
    /\ errs' = Append(errs, e)
    /\ Fails("attempt")
    /\ UNCHANGED <<setup, provider, order, i, consents>>

AttemptFails(e) ==
    /\ pc \in {"authorize", "token"} /\ e \in PossibleErrors
    /\ errs' = Append(errs, e)
    /\ IF i = Len(order) \/ ~isPerClientRejection(e)
         THEN Fails("attempt") /\ UNCHANGED i
         ELSE pc' = "authorize" /\ i' = i + 1 /\ UNCHANGED failure
    /\ UNCHANGED <<setup, provider, order, consents>>

Terminated == pc \in {"done", "failed"} /\ UNCHANGED vars

Next == \/ RefreshFails \/ Refresh
        \/ DiscoveryFails \/ PlanFails \/ LoginBegins
        \/ Consent \/ Succeeds \/ \E e \in Errors : AttemptFails(e)
        \/ Terminated

Spec == Init /\ [][Next]_vars

(***************************************************************************)
(* Properties                                                              *)
(***************************************************************************)

TypeOK ==
    /\ setup \in Setups
    /\ provider \in BOOLEAN
    /\ pc \in Control
    /\ order \in {<<>>, <<"authcode">>, <<"device">>, <<"authcode", "device">>}
    /\ i \in 0 .. Len(order)
    /\ failure \in Failures
    /\ errs \in Seq(Errors) /\ Len(errs) <= i
    /\ consents \subseteq Grants

\* The grants attempted so far.
Tried == {order[k] : k \in 1 .. i}

\* The loop tries each grant once, authcode before device, and a user who has
\* completed one login is asked for another only because this client may not use
\* the first grant: an expired or used code, a declined consent or a timeout is
\* never answered with a second prompt (Login, isPerClientRejection).
NoSecondLoginForNothing ==
    /\ i = 2 => order = <<"authcode", "device">>
    /\ Len(errs) = 2 \/ i = 2 =>
         \/ errs[1] = [from |-> "endpoint", code |-> "unauthorized_client"]
         \/ errs[1].from = "authorization" /\ "authcode" \notin consents
              /\ errs[1].code \in {"unauthorized_client", "invalid_grant"}

\* Nobody is left waiting for a prompt that cannot reach them: the browser is used
\* only with a display, the user code only at an attended terminal that was not
\* declared unattended (plan, --non-interactive).
OnlyReachableUsers ==
    /\ "authcode" \in Tried => setup.display
    /\ "device" \in Tried => setup.tty /\ ~setup.nonInteractive

\* A client the issuer bars from one grant fails only after every grant that this
\* setup could use was tried (Login's fallback).
BarredClientTriesEveryGrant ==
    pc = "failed" /\ errs # <<>> /\ isPerClientRejection(errs[Len(errs)]) =>
        \A g \in Eligible(setup) \ Tried :
            IF g = "authcode" THEN ~setup.display \/ ~setup.authcode
            ELSE ~setup.tty \/ setup.nonInteractive \/ ~setup.endpoint \/ ~setup.device

(***************************************************************************)
(* The inductive invariant behind the theorems of InteractiveLoginProofs   *)
(***************************************************************************)

Attempting == pc \in {"authorize", "token"}

\* Before the attempts nothing has happened; during them there is one error for
\* every attempt that is over; the order is the plan's.
ProgressInv ==
    /\ pc \in {"refresh", "login"} =>
         order = <<>> /\ i = 0 /\ errs = <<>> /\ consents = {}
    /\ pc # "failed" => failure = "none"
    /\ order \in {<<>>, Plan(setup)}
    /\ Attempting => order = Plan(setup) /\ i \in 1 .. Len(order) /\ Len(errs) = i - 1
    /\ errs # <<>> => order = Plan(setup) /\ i \in 1 .. Len(order)
    /\ consents \subseteq Tried
    /\ pc = "authorize" => order[i] \notin consents
    /\ pc = "token" => order[i] \in consents

\* Why the attempts ended, and why there was a second one.
ErrorsInv ==
    /\ errs \in {<<>>} \cup {<<e>> : e \in Errors} \cup {<<e, f>> : e, f \in Errors}
    /\ errs # <<>> /\ pc = "failed" =>
         i = Len(order) \/ ~isPerClientRejection(errs[Len(errs)])
    /\ Len(errs) = 2 => i = 2
    /\ i = 2 => /\ errs # <<>> /\ isPerClientRejection(errs[1])
                /\ errs[1].from = "authorization" => "authcode" \notin consents

IInv == TypeOK /\ ProgressInv /\ ErrorsInv

=============================================================================
