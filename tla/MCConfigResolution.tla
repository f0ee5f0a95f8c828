------------------------ MODULE MCConfigResolution ------------------------
(***************************************************************************)
(* Invocations for TLC: the settings that bear on each other vary together *)
(* in all three layers, and the others are left alone.                     *)
(***************************************************************************)
EXTENDS ConfigResolution

Pairs == {"redirect_port", "extra"}

Says(s) == CASE s \in Switches -> {"yes", "no"}
             [] s \in Pairs -> {"some"}
             [] s = "grant_type" -> {"auto", "token-exchange", "bogus"}
             [] s \in {"token_type", "subject_token_type"} -> {"", "access_token", "id_token"}
             [] s = "token_store" -> {"auto", "keychain", "none", "bogus"}
             [] s = "format" -> {"token", "json", "bogus"}
             [] s = "client_auth_method" -> {"", "client_secret_basic", "private_key_jwt"}
             [] s = "private_key_alg" -> {"", "some", "bogus"}
             [] s = "subject_token_source" -> {"", "github-actions"}
             [] OTHER -> {"", "some"}

OnFlag(s) ==
    {Unset} \cup Says(s) \cup IF s \in Switches \cup Pairs THEN {"mistyped"} ELSE {}

InFile(s) == {Unset, "mistyped"} \cup Says(s)

InEnv(s) ==
    {Unset} \cup (IF s \in NoVariable THEN {} ELSE Says(s) \ {""})
            \cup (IF s = "logout" THEN {"mistyped"} ELSE {})

\* All ways to fill one layer in the settings S, the others as given.
Fill(S, given, Values(_)) ==
    {[s \in Settings |-> IF s \in S THEN l[s] ELSE given[s]] :
        l \in {l \in [S -> UNION {Values(s) : s \in S}] : \A s \in S : l[s] \in Values(s)}}

Silent == [s \in Settings |-> Unset]
Profile == [Silent EXCEPT !.issuer = "some"]
Exchanging == [Profile EXCEPT !.grant_type = "token-exchange"]

\* The settings S in all layers, beside the flags of base.
Vary(S, base, secrets, tokens) ==
    [env : Fill(S, Silent, InEnv), file : Fill(S, Silent, InFile), flag : Fill(S, base, OnFlag),
     config : {"read"}, secretFile : secrets, tokenFile : tokens,
     home : {TRUE}, key : {TRUE}]

Spoilt(inputs) == [env : {in.env : in \in inputs}, file : {Silent},
                   flag : {in.flag : in \in inputs}, config : {"read", "bad"},
                   secretFile : {Unset}, tokenFile : {Unset}, home : BOOLEAN, key : BOOLEAN]

Content == {Unset, "", "some", "unreadable"}
NotGiven == {Unset}

MCInputs == UNION {
    Vary({"issuer", "logout"}, Profile, NotGiven, NotGiven),
    Vary({"grant_type", "logout"}, Profile, NotGiven, {Unset, "some"}),
    Vary({"format", "all"}, Profile, NotGiven, NotGiven),
    Vary({"extra", "redirect_port"}, Profile, NotGiven, NotGiven),
    Vary({"token_type", "logout"}, Profile, NotGiven, NotGiven),
    Vary({"resource", "grant_type"}, Profile, NotGiven, {Unset, "some"}),
    Vary({"private_key_alg"}, [Profile EXCEPT !.client_auth_method = "private_key_jwt",
                                              !.private_key_file = "some"], NotGiven, NotGiven),
    Vary({"client_auth_method", "client_secret"}, Profile, Content, NotGiven),
    Vary({"subject_token", "subject_token_source"}, Exchanging, NotGiven, Content),
    Vary({"subject_token", "grant_type"}, Profile, NotGiven, Content),
    Vary({"subject_token_source", "subject_token_type"}, Exchanging, NotGiven, NotGiven),
    Vary({"requested_token_type", "grant_type"}, Profile, NotGiven, NotGiven),
    Spoilt(Vary({"token_store", "token_store_dir"}, Profile, NotGiven, NotGiven)),
    Spoilt(Vary({"client_auth_method", "private_key_file"}, Profile, NotGiven, NotGiven))}

=============================================================================
