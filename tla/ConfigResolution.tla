------------------------- MODULE ConfigResolution -------------------------
(***************************************************************************)
(* From the command line to the command: config.Parse, which merges flags, *)
(* a config file, the environment and defaults and validates the result    *)
(* together with the token-exchange grant, and main.run's choice between   *)
(* an exchange, a logout and a run.  A layer maps each setting to the text *)
(* it gives, or to Unset; "mistyped" is a value of another type than the   *)
(* setting's, or one that is no number, truth value or key=value pair.     *)
(***************************************************************************)
EXTENDS Integers, FiniteSetsExt

CONSTANTS
    Unset,   \* a layer does not mention the setting
    Inputs   \* what an invocation may find

\* client_id is like issuer, non_interactive like logout, and scope, audience and
\* the like are passed on as they are.
Settings == {"issuer", "grant_type", "token_type", "token_store", "token_store_dir",
             "redirect_port", "format", "all", "logout", "extra",
             "client_auth_method", "client_secret", "private_key_file",
             "private_key_alg", "subject_token", "subject_token_source",
             "subject_token_type", "requested_token_type", "resource"}

Switches == {"all", "logout"}

Texts == {"", "yes", "no", "some", "bogus", "auto", "keychain", "none", "token", "json",
          "token-exchange", "client_secret_basic", "private_key_jwt",
          "github-actions", "access_token", "id_token"}

Layers == [Settings -> Texts \cup {Unset, "mistyped"}]

\* The flags that name a file: not given, its content, or it cannot be read.
Files == Texts \cup {Unset, "unreadable"}

\* home: $XDG_CACHE_HOME or $HOME is there.  key: --private-key-file parses.
AllInputs == [env : Layers, file : Layers, flag : Layers, config : {"read", "bad"},
              secretFile : Files, tokenFile : Files, home : BOOLEAN, key : BOOLEAN]

NoVariable == {"all", "extra", "redirect_port", "requested_token_type", "resource"}

\* An empty variable counts as none.  A variable and most flags are texts, which
\* suits every setting but the switches, numbers and pairs.
ASSUME InputAssumption ==
    /\ Unset \notin Texts \cup {"unreadable", "mistyped"}
    /\ Inputs \subseteq AllInputs
    /\ \A in \in Inputs : \A s \in Settings :
          /\ in.env[s] # "" /\ (s \in NoVariable => in.env[s] = Unset)
          /\ in.env[s] = "mistyped" => s \in Switches
          /\ in.flag[s] = "mistyped" => s \in Switches \cup {"redirect_port", "extra"}

VARIABLES
    input,  \* what this invocation finds
    cfg,    \* config.Config with the token-exchange grant's fields
    pc      \* where main.run is

vars == <<input, cfg, pc>>

Default(s) == CASE s \in {"grant_type", "token_store"} -> "auto"
                [] s = "format" -> "token"
                [] s = "token_type" -> "access_token"
                [] s = "private_key_alg" -> "some"
                [] s \in {"all", "logout"} -> "no"
                [] OTHER -> ""

Defaults == [s \in Settings |-> Default(s)]

(***************************************************************************)
(* config.Parse                                                            *)
(***************************************************************************)

\* Mutant of HeardEnv: a variable turns a switch on whatever it says.
HeardEnvAny(value) == IF value = "mistyped" THEN "yes" ELSE value

\* BoolField.ApplyEnv: all but "1" and "true" means no.
HeardEnv(value) == IF value = "mistyped" THEN "no" ELSE value

\* ApplyFile: what is of another type is passed over, and so is a list of none.
HeardFile(s, value) ==
    IF value = "mistyped" \/ (s = "resource" /\ value = "") THEN Unset ELSE value

Layer(in, s) == <<HeardEnv(in.env[s]), HeardFile(s, in.file[s]), in.flag[s]>>

Given(in, s) == LET layer == Layer(in, s) IN {k \in 1 .. 3 : layer[k] # Unset}

\* Mutant of Layered: the first source that gives a value wins.
LayeredFirst(in, s) ==
    IF Given(in, s) = {} THEN Default(s) ELSE Layer(in, s)[Min(Given(in, s))]

Layered(in, s) ==
    LET given == Given(in, s) IN
    IF given = {} THEN Default(s) ELSE Layer(in, s)[Max(given)]

\* The table, the deprecated --all, and extra, of which a key in the config file
\* replaces the one on the command line.
Resolved(in) ==
    [s \in Settings |->
        CASE s = "format" /\ in.flag.format = Unset /\ Layered(in, "all") = "yes" -> "json"
          [] s = "extra" /\ HeardFile(s, in.file[s]) # Unset -> in.file[s]
          [] OTHER -> Layered(in, s)]

\* Mutant of FromFile: the file is the fallback of the other sources.
FromFileLast(file, c, s) == IF c[s] = "" /\ file # Unset THEN file ELSE c[s]

\* --client-secret-file, --subject-token-file: given with an unreadable file, the
\* content stands for the error.
FromFile(file, c, s) == IF file # Unset THEN file ELSE c[s]

DefaultTokenType(source) == IF source = "github-actions" THEN "id_token" ELSE "access_token"

\* What the table leaves: the files, the default directory, the default type.
Finalized(in, c) ==
    [c EXCEPT !.client_secret = FromFile(in.secretFile, c, "client_secret"),
              !.subject_token = FromFile(in.tokenFile, c, "subject_token"),
              !.token_store_dir =
                  IF @ = "" /\ c.token_store # "none" /\ in.home THEN "some" ELSE @,
              !.subject_token_type =
                  IF @ = "" THEN DefaultTokenType(c.subject_token_source) ELSE @]

\* Mutant of Unreadable: a secret that could not be read goes unnoticed.
UnreadableConfigOnly(in, c) ==
    \/ \E s \in Settings : in.flag[s] = "mistyped"
    \/ in.config = "bad" \/ (c.token_store_dir = "" /\ c.token_store # "none")

Unreadable(in, c) ==
    \/ \E s \in Settings : in.flag[s] = "mistyped"
    \/ in.config = "bad" \/ "unreadable" \in {in.secretFile, in.tokenFile}
    \/ c.token_store_dir = "" /\ c.token_store # "none"

\* "auto" stands for the interactive grants and for the stores that can fall back or
\* need no keychain, "json" for exec-credential, client_secret_basic for _post.
ConfigValid(c) ==
    /\ c.issuer # ""
    /\ c.grant_type \in {"auto", "token-exchange"}
    /\ c.token_type \in {"access_token", "id_token"}
    /\ c.format \in {"token", "json"}
    /\ c.token_store \in {"auto", "keychain", "none"}
    /\ \/ c.client_auth_method = "" /\ c.client_secret = "" /\ c.private_key_file = ""
       \/ c.client_auth_method = "client_secret_basic" /\ c.client_secret # ""
       \/ /\ c.client_auth_method = "private_key_jwt"
          /\ c.private_key_file # "" /\ c.private_key_alg = "some"

\* Mutant of GrantsValid: only the selected grant is validated.
GrantsValidSelected(c) ==
    c.grant_type = "token-exchange" =>
        /\ c.subject_token_source \in {"", "github-actions"}
        /\ (c.subject_token_source = "") # (c.subject_token = "")

\* TokenExchange.Validate, or ValidateNotSelected.
GrantsValid(c) ==
    IF c.grant_type = "token-exchange"
      THEN /\ c.subject_token_source \in {"", "github-actions"}
           /\ (c.subject_token_source = "") # (c.subject_token = "")
      ELSE \A s \in {"subject_token", "subject_token_source", "requested_token_type",
                     "resource"} : c[s] = ""

KeyLoads(in, c) == c.client_auth_method = "private_key_jwt" => in.key

\* What Parse returns: the configuration, or Unset for an error.
Command(in) ==
    LET c == Finalized(in, Resolved(in)) IN
    IF ~Unreadable(in, c) /\ ConfigValid(c) /\ GrantsValid(c) /\ KeyLoads(in, c)
      THEN c ELSE Unset

(***************************************************************************)
(* main.run                                                                *)
(***************************************************************************)

Init ==
    /\ input \in Inputs
    /\ cfg = Defaults
    /\ pc = "parse"

ParseFails ==
    /\ pc = "parse" /\ Command(input) = Unset
    /\ pc' = "failed"
    /\ UNCHANGED <<input, cfg>>

Parse ==
    /\ pc = "parse" /\ Command(input) # Unset
    /\ cfg' = Command(input)
    /\ pc' = "dispatch"
    /\ UNCHANGED <<input>>

\* Token exchange comes first, --logout or not, and uses no store.
Exchange ==
    /\ pc = "dispatch" /\ cfg.grant_type = "token-exchange"
    /\ pc' = "exchange"
    /\ UNCHANGED <<input, cfg>>

\* The ambient source, the issuer or the output fails.
ExchangeFails ==
    /\ pc = "exchange"
    /\ pc' = "failed"
    /\ UNCHANGED <<input, cfg>>

ExchangeWrites ==
    /\ pc = "exchange"
    /\ pc' = "done"
    /\ UNCHANGED <<input, cfg>>

\* --token-store=keychain is probed, whatever the command.
ProbeFails ==
    /\ pc = "dispatch" /\ cfg.grant_type # "token-exchange"
    /\ cfg.token_store = "keychain"
    /\ pc' = "failed"
    /\ UNCHANGED <<input, cfg>>

\* From here on the process is one of TokenRunner's.
Start ==
    /\ pc = "dispatch" /\ cfg.grant_type # "token-exchange"
    /\ pc' = IF cfg.logout = "yes" THEN "logout" ELSE "run"
    /\ UNCHANGED <<input, cfg>>

Terminated == pc \in {"failed", "done", "logout", "run"} /\ UNCHANGED vars

Next == \/ ParseFails \/ Parse \/ Exchange \/ ExchangeFails \/ ExchangeWrites
        \/ ProbeFails \/ Start \/ Terminated

Spec == Init /\ [][Next]_vars

(***************************************************************************)
(* Properties                                                              *)
(***************************************************************************)

\* Every setting of an accepted command has a value: no read error is taken for one.
TypeOK ==
    /\ input \in AllInputs
    /\ cfg \in [Settings -> Texts]
    /\ pc \in {"parse", "dispatch", "exchange", "done", "failed", "logout", "run"}

\* The invocation without what its environment and config file say of a setting,
\* or without what any of the three says.
WithoutLower(in, s) == [in EXCEPT !.env[s] = Unset, !.file[s] = Unset]
Without(in, s) == [WithoutLower(in, s) EXCEPT !.flag[s] = Unset]

\* The invocation without the values of the wrong type in its environment and file.
WellTyped(in) ==
    LET Dropped(layer) == [s \in Settings |-> IF layer[s] = "mistyped" THEN Unset ELSE layer[s]]
    IN [in EXCEPT !.env = Dropped(@), !.file = Dropped(@)]

\* What a variable or a config file says in the wrong type neither refuses a command
\* nor changes it, whatever else is given: it hides no lower layer and turns no
\* switch on (flagbinding's ApplyEnv and ApplyFile).
MistypedValuesAreSilent == pc = "parse" => Command(input) = Command(WellTyped(input))

\* A setting on the command line makes the environment and the config file
\* irrelevant for it, not only its value but also every default, check and refusal
\* that follows from it: Parse's "Flags always win", which --extra is outside of.
FlagsShadowEnvAndFile ==
    pc = "parse" =>
        LET command == Command(input) IN
        \A s \in Settings \ {"extra"} :
            input.flag[s] # Unset => command = Command(WithoutLower(input, s))

\* A secret or subject token read from a file decides alone, also against an empty
\* file and against a flag: nothing in the other sources can change or refuse the
\* command (Parse's "always takes precedence", Finalize's counterpart).
SecretFilesShadowTheRest ==
    pc = "parse" =>
        /\ input.secretFile # Unset => Command(input) = Command(Without(input, "client_secret"))
        /\ input.tokenFile # Unset => Command(input) = Command(Without(input, "subject_token"))

\* What reaches a request fits together, wherever its parts came from: an exchange
\* has one subject token of the type its source issues unless told otherwise, a
\* login or logout has none, and a public client carries no secret (validate and
\* the grants' Validate run on the merged values).
CommandsAreConsistent ==
    pc \in {"exchange", "run", "logout"} =>
        /\ (pc = "exchange") = (cfg.subject_token # "" \/ cfg.subject_token_source # "")
        /\ cfg.subject_token = "" \/ cfg.subject_token_source = ""
        /\ cfg.resource # "" \/ cfg.requested_token_type # "" => pc = "exchange"
        /\ cfg.client_auth_method = "" => cfg.client_secret = "" /\ cfg.private_key_file = ""
        /\ pc = "exchange" /\ Given(input, "subject_token_type") = {}
           => (cfg.subject_token_type = "id_token") = (cfg.subject_token_source = "github-actions")

=============================================================================
