---------------------------- MODULE TokenOutput ----------------------------
(***************************************************************************)
(* From a response of the token endpoint to the bytes on stdout: the two   *)
(* parsers (x/oauth2, and postTokenRequest where that has no hook),        *)
(* Provider.toResult, the runner's verdict on the id_token, the cached     *)
(* entry, and the document writeResult prints.  One user's commands follow *)
(* each other; TokenRunner has the concurrent ones.                        *)
(***************************************************************************)
CONSTANTS
    Answers,    \* responses of the token endpoint: success (the status), json (the
                \* body is), its fields, and for each standard one the spelling
                \* it comes under last
    Misspelt,   \* names that are standard ones but for the case of letters, each with
                \* the one it is
    None        \* an empty field

Standard == {"access_token", "token_type", "refresh_token", "expires_in", "id_token",
             "issued_token_type", "error", "error_description", "error_uri"}

\* json.Unmarshal looks for a struct's fields without regard to case, a map's keys with.
Member(n) == IF n \in DOMAIN Misspelt THEN Misspelt[n] ELSE n

\* What cannot be verified comes as an id_token, under whatever spelling.
ASSUME AnswerAssumption ==
    /\ None \notin {"unverified", "foreign", "mistyped", "past", "future", "authcode"}
    /\ None \notin {0, 1}
    /\ DOMAIN Misspelt \cap Standard = {}
    /\ \A a \in Answers :
         /\ \A n \in DOMAIN a.fields :
              a.fields[n] = "unverified" => Member(n) = "id_token"
         /\ \A k \in Standard :
              /\ Member(a.last[k]) = k
              /\ (\E n \in DOMAIN a.fields : Member(n) = k) => a.last[k] \in DOMAIN a.fields

Credentials == {"access_token", "id_token", "refresh_token"}

\* Verify refuses an "unverified" id_token; the nonce in a "foreign" one is not
\* this login's.
IDTokens == {"good", "foreign", "unverified"}

\* A command.  login: the grant an interactive login uses; assertion: the client
\* authenticates with private_key_jwt.
Calls == [command : {"run", "exchange"}, login : {"authcode", "device"},
          assertion : BOOLEAN, format : {"token", "json", "exec-credential"},
          tokenType : {"access_token", "id_token"}]

VARIABLES
    call,       \* the command that runs
    pc,         \* where it is
    grant,      \* of the request it waits for
    entry,      \* the cached profile
    res,        \* output.Result
    stdout,     \* the documents on it; "cut" is part of one
    exit        \* exit status, or None

vars == <<call, pc, grant, entry, res, stdout, exit>>

Get(f, k) == IF k \in DOMAIN f THEN f[k] ELSE None

\* f with the fields of g in place of its own.
Overlaid(f, g) ==
    [k \in DOMAIN f \cup DOMAIN g |-> IF k \in DOMAIN g THEN g[k] ELSE f[k]]

\* The fields of f that are not empty.
NonEmpty(f) == [k \in {k \in DOMAIN f : f[k] # None} |-> f[k]]

NoFields == [k \in {} |-> None]

NoEntry == [k \in Credentials \cup {"expiry"} |-> None]

NoResult == [token |-> NoEntry, issued |-> None, badIDToken |-> FALSE, extra |-> NoFields]

(***************************************************************************)
(* The two parsers                                                         *)
(***************************************************************************)

\* A field of the struct both parsers fill: the last of its spellings stays.
Parsed(a, k) == Get(a.fields, a.last[k])

Mistyped(a) == {Member(n) : n \in {n \in DOMAIN a.fields : a.fields[n] = "mistyped"}}

\* Fields x/oauth2 leaves in a map, for toResult to take out under their own names.
Loose == {"id_token", "issued_token_type"}

\* x/oauth2: a number in quotes is a number, a huge one is capped.
LibraryAccepts(a) ==
    a.success /\ a.json /\ Parsed(a, "error") = None
    /\ Parsed(a, "access_token") # None
    /\ Mistyped(a) \cap (Standard \ Loose) = {}

LibraryExpiry(lifetime) ==
    CASE lifetime = None -> {None}
      [] lifetime \in {"negative", "short"} -> {"past"}
      [] OTHER -> {"future"}

\* postTokenRequest: one field of another type, and nothing of the response counts.
OwnAccepts(a) ==
    a.success /\ a.json /\ Parsed(a, "error") = None
    /\ Parsed(a, "access_token") # None
    /\ Mistyped(a) \cap Standard = {} /\ Parsed(a, "expires_in") # "quoted"

\* expires_in * time.Second may overflow, to either side of now.
OwnExpiry(lifetime) ==
    CASE lifetime \in {None, "negative"} -> {None}
      [] lifetime = "short" -> {"past"}
      [] lifetime = "huge" -> {"past", "future"}
      [] OTHER -> {"future"}

\* Mutant of Extensions: the id_token is not taken out.
ExtensionsAndIDToken(f) ==
    [k \in DOMAIN f \ (Standard \ {"id_token"}) |-> f[k]]

\* The keys of the map, without the standard names as they are spelled.
Extensions(f) == [k \in DOMAIN f \ Standard |-> f[k]]

\* The requests x/oauth2 has no hook for.
Own == grant = "exchange" \/ (grant = "refresh" /\ call.assertion)

Accepts(a) == IF Own THEN OwnAccepts(a) ELSE LibraryAccepts(a)

\* A string of the response.
Given(a, k) ==
    IF Own \/ k \notin Loose THEN Parsed(a, k)
    ELSE IF Get(a.fields, k) = "mistyped" THEN None ELSE Get(a.fields, k)

Expiries(a) == LET lifetime == Parsed(a, "expires_in")
               IN IF Own THEN OwnExpiry(lifetime) ELSE LibraryExpiry(lifetime)

\* Mutant of Verified: the nonce is not looked at.
VerifiedAnyNonce(idToken) == idToken # "unverified"

\* The nonce counts where one was sent.
Verified(idToken) ==
    idToken # "unverified" /\ (grant = "authcode" => idToken # "foreign")

\* Provider.toResult.
ToResult(a, expiry) ==
    LET idToken == Given(a, "id_token") IN
    [token |-> [access_token |-> Given(a, "access_token"),
                id_token |-> IF Verified(idToken) THEN idToken ELSE None,
                refresh_token |-> Given(a, "refresh_token"),
                expiry |-> expiry],
     issued |-> Given(a, "issued_token_type"),
     badIDToken |-> ~Verified(idToken),
     extra |-> IF Own THEN Extensions(a.fields) ELSE NoFields]

(***************************************************************************)
(* The runner                                                              *)
(***************************************************************************)

EntryValid(e) ==
    /\ e.access_token # None \/ e.id_token # None
    /\ IF e.expiry = None THEN e.refresh_token = None ELSE e.expiry = "future"

\* Mutant of Persisted: an entry has no place for the id_token.
PersistedBare(r) == [r.token EXCEPT !.id_token = None]

Persisted(r) == r.token

Fatal(r) == r.badIDToken /\ call.tokenType = "id_token"

\* A refresh answer without a refresh token leaves the old one in force.
Keeping(r) ==
    IF grant = "refresh" /\ r.token.refresh_token = None
      THEN [r EXCEPT !.token.refresh_token = entry.refresh_token] ELSE r

Init ==
    /\ call \in Calls
    /\ pc = "start"
    /\ grant = None
    /\ entry = NoEntry
    /\ res = NoResult
    /\ stdout = <<>>
    /\ exit = None

ServeCached ==
    /\ pc = "start" /\ call.command = "run" /\ EntryValid(entry)
    /\ res' = [NoResult EXCEPT !.token = entry]
    /\ pc' = "output"
    /\ UNCHANGED <<call, grant, entry, stdout, exit>>

Request(g) ==
    /\ grant' = g
    /\ pc' = "ask"
    /\ UNCHANGED <<call, entry, res, stdout, exit>>

Ask ==
    /\ pc = "start"
    /\ \/ call.command = "exchange" /\ Request("exchange")
       \/ /\ call.command = "run" /\ ~EntryValid(entry)
          /\ Request(IF entry.refresh_token # None THEN "refresh" ELSE call.login)

Fail ==
    /\ pc' = "ended" /\ exit' = 1
    /\ UNCHANGED <<call, grant, entry, res, stdout>>

\* A refresh that fails, for whatever reason, falls through to the login.
GiveUp == IF grant = "refresh" THEN Request(call.login) ELSE Fail

\* No answer, or one that is no token.
Refused ==
    /\ pc = "ask"
    /\ \E a \in Answers : ~Accepts(a)
    /\ GiveUp

\* Runner.checkIDToken; an exchange does not come by there.
RefusedIDToken ==
    /\ pc = "ask" /\ call.command = "run"
    /\ \E a \in Answers : Accepts(a) /\ \E e \in Expiries(a) : Fatal(ToResult(a, e))
    /\ GiveUp

\* The save fails.
RunGranted ==
    /\ pc = "ask" /\ call.command = "run"
    /\ \E a \in Answers : \E e \in Expiries(a) :
         LET r == Keeping(ToResult(a, e)) IN
         /\ Accepts(a) /\ ~Fatal(r)
         /\ \/ /\ entry' = Persisted(r) /\ res' = r
               /\ pc' = "output"
               /\ UNCHANGED <<call, grant, stdout, exit>>
            \/ GiveUp

ExchangeGranted ==
    /\ pc = "ask" /\ call.command = "exchange"
    /\ \E a \in Answers : \E e \in Expiries(a) :
         Accepts(a) /\ res' = ToResult(a, e)
    /\ pc' = "output"
    /\ UNCHANGED <<call, grant, entry, stdout, exit>>

(***************************************************************************)
(* The output                                                              *)
(***************************************************************************)

Selected == res.token[call.tokenType]

\* Mutant of Printable: the token goes to stdout unchecked.
PrintableAlways == TRUE

\* output.Select says ok; --format=json takes what there is.
Printable == call.format = "json" \/ Selected # None

\* output.WriteAll, WriteExecCredential, WriteBare.
Document ==
    CASE call.format = "json" ->
           Overlaid(NonEmpty(Overlaid(res.token, [issued_token_type |-> res.issued])), res.extra)
      [] call.format = "exec-credential" ->
           Overlaid([token |-> Selected],
                    NonEmpty([expirationTimestamp |-> res.token.expiry]))
      [] OTHER -> [token |-> Selected]

NothingToPrint == pc = "output" /\ ~Printable /\ Fail

Write ==
    /\ pc = "output" /\ Printable
    /\ stdout' = <<Document>> /\ exit' = 0
    /\ pc' = "ended"
    /\ UNCHANGED <<call, grant, entry, res>>

\* The one write comes back short: a full disk, a closed pipe.
WriteFails ==
    /\ pc = "output" /\ Printable
    /\ stdout' \in {<<>>, <<"cut">>} /\ exit' = 1
    /\ pc' = "ended"
    /\ UNCHANGED <<call, grant, entry, res>>

NextCommand ==
    /\ pc = "ended"
    /\ call' \in Calls
    /\ pc' = "start" /\ grant' = None
    /\ res' = NoResult /\ stdout' = <<>> /\ exit' = None
    /\ UNCHANGED entry

Expire ==
    /\ entry.expiry = "future"
    /\ entry' = [entry EXCEPT !.expiry = "past"]
    /\ UNCHANGED <<call, pc, grant, res, stdout, exit>>

Next == \/ ServeCached \/ Ask \/ Refused \/ RefusedIDToken \/ RunGranted
        \/ ExchangeGranted \/ NothingToPrint \/ Write \/ WriteFails
        \/ NextCommand \/ Expire

Spec == Init /\ [][Next]_vars

(***************************************************************************)
(* Properties                                                              *)
(***************************************************************************)

TypeOK ==
    /\ call \in Calls
    /\ pc \in {"start", "ask", "output", "ended"}
    /\ grant \in {None, "refresh", "authcode", "device", "exchange"}
    /\ DOMAIN entry = DOMAIN NoEntry /\ DOMAIN res.token = DOMAIN NoEntry
    /\ exit \in {None, 0, 1} /\ (exit = None) = (pc # "ended")

\* An id_token that failed verification, and one with another login's nonce, is not
\* the profile's and not the result's, in no field, although the command goes on without
\* it (toResult, checkIDToken).  It reaches stdout only where the issuer's own spelling
\* of the name slips by postTokenRequest's list of standard fields: in a JSON document,
\* of a response that x/oauth2 has not read, under that spelling.
UnverifiedOnlyMisspelt ==
    /\ \A k \in DOMAIN entry : entry[k] # "unverified"
    /\ \A k \in DOMAIN res.token : res.token[k] # "unverified"
    /\ grant = "authcode" => res.token.id_token # "foreign"
    /\ exit = 0 => \A k \in DOMAIN stdout[1] :
         stdout[1][k] = "unverified" =>
             Own /\ call.format = "json" /\ k \in DOMAIN Misspelt

\* What a run prints is what the next run finds: the credentials it holds, and
\* those it has printed, are those of the profile, renewed or not, in every format,
\* with the refresh token the issuer did not repeat (persist before writeResult).
PrintedIsStored ==
    call.command = "run" =>
        /\ pc = "output" => \A k \in Credentials : res.token[k] = entry[k]
        /\ exit = 0 =>
             IF call.format = "json"
               THEN \A k \in Credentials : Get(stdout[1], k) = entry[k]
               ELSE /\ stdout[1].token = entry[call.tokenType]
                    /\ call.format = "exec-credential" =>
                         ("expirationTimestamp" \in DOMAIN stdout[1]) = (entry.expiry # None)

\* Exit status 0 comes with one document and a token in it, the one that was asked
\* for unless the format is JSON; no whole document comes with another status
\* (main.go:4-8, output.Select).
ZeroMeansAToken ==
    /\ exit = 0 =>
         IF call.format = "json"
           THEN \E k \in {"access_token", "id_token"} : Get(stdout[1], k) # None
           ELSE stdout[1].token # None
    /\ exit # 0 => stdout \in {<<>>, <<"cut">>}

(***************************************************************************)
(* The inductive invariant behind the theorems of TokenOutputProofs        *)
(***************************************************************************)

Clean(f) == \A k \in DOMAIN f : f[k] # "unverified"

\* Extension fields: none has a standard name, and only a misspelt one an id_token.
CleanExtra(f) ==
    /\ DOMAIN f \cap Standard = {}
    /\ \A k \in DOMAIN f : f[k] = "unverified" => Own /\ k \in DOMAIN Misspelt

ResultInv ==
    /\ Clean(entry) /\ Clean(res.token) /\ CleanExtra(res.extra)
    /\ res.issued # "unverified"
    /\ pc \in {"start", "ask"} => res = NoResult
    /\ pc = "start" => grant = None
    /\ pc = "output" => res.token.access_token # None \/ res.token.id_token # None

\* What a run is about to print is in the profile, dated or not.
HeldInv ==
    call.command = "run" /\ pc = "output" =>
        (res.token.expiry = None) = (entry.expiry = None)

IInv == /\ TypeOK /\ ResultInv /\ HeldInv
        /\ UnverifiedOnlyMisspelt /\ PrintedIsStored /\ ZeroMeansAToken

=============================================================================
