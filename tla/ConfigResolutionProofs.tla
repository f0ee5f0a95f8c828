----------------------- MODULE ConfigResolutionProofs -----------------------
(***************************************************************************)
(* Theorems of ConfigResolution: for every set of invocations, whatever    *)
(* each layer says of each setting.                                        *)
(***************************************************************************)
EXTENDS ConfigResolution, TLAPS

(***************************************************************************)
(* Lemmas about config.Parse                                               *)
(***************************************************************************)

LEMMA Highest ==
    ASSUME NEW S \in SUBSET (1 .. 3)
    PROVE  /\ 3 \in S => Max(S) = 3
           /\ 2 \in S /\ 3 \notin S => Max(S) = 2
           /\ 1 \in S /\ 2 \notin S /\ 3 \notin S => Max(S) = 1
<1>1. \A m \in S : (\A y \in S : m >= y) => \A x \in S : (\A y \in S : x >= y) => x = m
  OBVIOUS
<1>2. ASSUME NEW m \in S, \A y \in S : m >= y
      PROVE  Max(S) = m
  <2>1. Max(S) \in S /\ \A y \in S : Max(S) >= y
    BY <1>2 DEF Max
  <2> QED BY <1>1, <1>2, <2>1
<1>3. CASE 3 \in S
  <2>1. \A y \in S : 3 >= y
    OBVIOUS
  <2> QED BY <1>2, <1>3, <2>1
<1>4. CASE 3 \notin S /\ 2 \in S
  <2>1. \A y \in S : 2 >= y
    BY <1>4
  <2> QED BY <1>2, <1>4, <2>1
<1>5. CASE 3 \notin S /\ 2 \notin S /\ 1 \in S
  <2>1. \A y \in S : 1 >= y
    BY <1>5
  <2> QED BY <1>2, <1>5, <2>1
<1> QED BY <1>3, <1>4, <1>5

\* A flag wins over the config file, the file over the environment, and each over
\* the default.
LEMMA Precedence ==
    ASSUME NEW in, NEW s
    PROVE  Layered(in, s) =
             IF in.flag[s] # Unset THEN in.flag[s]
             ELSE IF HeardFile(s, in.file[s]) # Unset THEN HeardFile(s, in.file[s])
             ELSE IF HeardEnv(in.env[s]) # Unset THEN HeardEnv(in.env[s])
             ELSE Default(s)
<1> DEFINE layer == Layer(in, s)
           given == Given(in, s)
<1>1. /\ layer[1] = HeardEnv(in.env[s])
      /\ layer[2] = HeardFile(s, in.file[s])
      /\ layer[3] = in.flag[s]
  BY DEF Layer
<1>2. given \in SUBSET (1 .. 3) /\ \A k \in 1 .. 3 : k \in given <=> layer[k] # Unset
  BY DEF Given
<1>3. Layered(in, s) = IF given = {} THEN Default(s) ELSE layer[Max(given)]
  BY DEF Layered
<1> HIDE DEF layer, given
<1>4. given = {} <=> 1 \notin given /\ 2 \notin given /\ 3 \notin given
  BY <1>2
<1>5. /\ 3 \in given => Max(given) = 3
      /\ 2 \in given /\ 3 \notin given => Max(given) = 2
      /\ 1 \in given /\ 2 \notin given /\ 3 \notin given => Max(given) = 1
  BY <1>2, Highest
<1>6. CASE 3 \in given
  <2>1. Layered(in, s) = layer[3]
    BY <1>3, <1>4, <1>5, <1>6
  <2> QED BY <1>1, <1>2, <1>6, <2>1
<1>7. CASE 3 \notin given /\ 2 \in given
  <2>1. Layered(in, s) = layer[2]
    BY <1>3, <1>4, <1>5, <1>7
  <2> QED BY <1>1, <1>2, <1>7, <2>1
<1>8. CASE 3 \notin given /\ 2 \notin given /\ 1 \in given
  <2>1. Layered(in, s) = layer[1]
    BY <1>3, <1>4, <1>5, <1>8
  <2> QED BY <1>1, <1>2, <1>8, <2>1
<1>9. CASE given = {}
  BY <1>1, <1>2, <1>3, <1>4, <1>9
<1> QED BY <1>4, <1>6, <1>7, <1>8, <1>9

\* The command depends on the layers through the resolved settings only.
LEMMA CommandOfResolved ==
    ASSUME NEW in, NEW other,
           Finalized(in, Resolved(in)) = Finalized(other, Resolved(other)),
           (\E s \in Settings : in.flag[s] = "mistyped")
             <=> (\E s \in Settings : other.flag[s] = "mistyped"),
           other.config = in.config, other.secretFile = in.secretFile,
           other.tokenFile = in.tokenFile, other.key = in.key
    PROVE  Command(other) = Command(in)
<1> DEFINE c == Finalized(in, Resolved(in))
<1>1. Unreadable(in, c) <=> Unreadable(other, c)
  BY DEF Unreadable
<1>2. KeyLoads(in, c) <=> KeyLoads(other, c)
  BY DEF KeyLoads
<1> HIDE DEF c
<1>3. c = Finalized(in, Resolved(in)) /\ c = Finalized(other, Resolved(other))
  BY DEF c
<1> QED BY <1>1, <1>2, <1>3 DEF Command


LEMMA InputFacts ==
    ASSUME NEW in \in Inputs
    PROVE  /\ in \in AllInputs
           /\ in.env \in Layers /\ in.file \in Layers /\ in.flag \in Layers
           /\ in.secretFile \in Files /\ in.tokenFile \in Files
           /\ \A s \in Settings :
                /\ in.env[s] \in Texts \cup {Unset, "mistyped"}
                /\ in.file[s] \in Texts \cup {Unset, "mistyped"}
                /\ in.flag[s] \in Texts \cup {Unset, "mistyped"}
                /\ in.env[s] = "mistyped" => s \in Switches
                /\ in.flag[s] = "mistyped" => s \in Switches \cup {"redirect_port", "extra"}
<1>1. in \in AllInputs
  BY InputAssumption
<1>2. in.env \in Layers /\ in.file \in Layers /\ in.flag \in Layers
      /\ in.secretFile \in Files /\ in.tokenFile \in Files
  BY <1>1 DEF AllInputs
<1>3. ASSUME NEW s \in Settings
      PROVE  /\ in.env[s] \in Texts \cup {Unset, "mistyped"}
             /\ in.file[s] \in Texts \cup {Unset, "mistyped"}
             /\ in.flag[s] \in Texts \cup {Unset, "mistyped"}
             /\ in.env[s] = "mistyped" => s \in Switches
             /\ in.flag[s] = "mistyped" => s \in Switches \cup {"redirect_port", "extra"}
  BY <1>2, InputAssumption DEF Layers
<1> QED BY <1>1, <1>2, <1>3

\* A setting is resolved to a text of some layer, or to a flag of the wrong type.
LEMMA ResolvedType ==
    ASSUME NEW in \in Inputs, NEW s \in Settings
    PROVE  \/ Resolved(in)[s] \in Texts
           \/ Resolved(in)[s] = "mistyped" /\ in.flag[s] = "mistyped"
<1>1. /\ in.env[s] \in Texts \cup {Unset, "mistyped"}
      /\ in.file[s] \in Texts \cup {Unset, "mistyped"}
      /\ in.flag[s] \in Texts \cup {Unset, "mistyped"}
  BY InputFacts
<1>2. HeardEnv(in.env[s]) \in Texts \cup {Unset}
  BY <1>1 DEF HeardEnv, Texts
<1>3. HeardFile(s, in.file[s]) \in Texts \cup {Unset}
  BY <1>1 DEF HeardFile
<1>4. Default(s) \in Texts
  BY DEF Default, Texts
<1>5. \/ Layered(in, s) \in Texts
      \/ Layered(in, s) = "mistyped" /\ in.flag[s] = "mistyped"
  BY <1>1, <1>2, <1>3, <1>4, Precedence
<1>6. s = "extra" /\ HeardFile(s, in.file[s]) # Unset => in.file[s] \in Texts
  BY <1>1, InputAssumption DEF HeardFile, Texts
<1>7. "json" \in Texts
  BY DEF Texts
<1> QED BY <1>5, <1>6, <1>7 DEF Resolved

\* Finalize, setting by setting.
FinalizedSetting(in, c, s) ==
    CASE s = "client_secret" -> FromFile(in.secretFile, c, s)
      [] s = "subject_token" -> FromFile(in.tokenFile, c, s)
      [] s = "token_store_dir" ->
           IF c[s] = "" /\ c["token_store"] # "none" /\ in.home THEN "some" ELSE c[s]
      [] s = "subject_token_type" ->
           IF c[s] = "" THEN DefaultTokenType(c["subject_token_source"]) ELSE c[s]
      [] OTHER -> c[s]

LEMMA FinalizedValue ==
    ASSUME NEW in, NEW s \in Settings
    PROVE  Finalized(in, Resolved(in))[s] = FinalizedSetting(in, Resolved(in), s)
<1> DEFINE c == Resolved(in)
<1>1. c = [t \in Settings |-> c[t]]
  BY DEF Resolved
<1> HIDE DEF c
<1>2. Finalized(in, c)[s] = FinalizedSetting(in, c, s)
  BY <1>1 DEF Finalized, FinalizedSetting, Settings
<1> QED BY <1>2 DEF c

\* Two invocations that differ in no resolved setting that Finalize keeps.
LEMMA FinalizedAgree ==
    ASSUME NEW in, NEW other, NEW kept \in SUBSET Settings,
           \A s \in kept : Resolved(other)[s] = Resolved(in)[s],
           \A s \in Settings \ kept :
             \/ s = "client_secret" /\ in.secretFile # Unset
             \/ s = "subject_token" /\ in.tokenFile # Unset,
           other.secretFile = in.secretFile, other.tokenFile = in.tokenFile,
           other.home = in.home
    PROVE  Finalized(other, Resolved(other)) = Finalized(in, Resolved(in))
<1> DEFINE c == Resolved(in)
           d == Resolved(other)
<1>1. \A s \in Settings : Finalized(other, d)[s] = Finalized(in, c)[s]
  <2> SUFFICES ASSUME NEW s \in Settings
               PROVE  FinalizedSetting(other, d, s) = FinalizedSetting(in, c, s)
    BY FinalizedValue
  <2>1. /\ d["token_store"] = c["token_store"]
        /\ d["subject_token_source"] = c["subject_token_source"]
    BY DEF Settings
  <2>2. s \in kept \/ (s = "client_secret" /\ in.secretFile # Unset)
                   \/ (s = "subject_token" /\ in.tokenFile # Unset)
    OBVIOUS
  <2>3. s \in kept => d[s] = c[s]
    OBVIOUS
  <2> HIDE DEF c, d
  <2> QED BY <2>1, <2>2, <2>3 DEF FinalizedSetting, FromFile
<1>2. /\ c = [s \in Settings |-> c[s]]
      /\ d = [s \in Settings |-> d[s]]
  BY DEF Resolved
<1>3. /\ Finalized(in, c) = [s \in Settings |-> Finalized(in, c)[s]]
      /\ Finalized(other, d) = [s \in Settings |-> Finalized(other, d)[s]]
  BY <1>2 DEF Finalized
<1> QED BY <1>1, <1>3

(***************************************************************************)
(* Which layers a command does not depend on                               *)
(***************************************************************************)

\* An invocation that differs in layers which the resolved settings do not show.
LEMMA SameCommand ==
    ASSUME NEW in, NEW other, NEW kept \in SUBSET Settings,
           \A s \in kept : Resolved(other)[s] = Resolved(in)[s],
           \A s \in Settings \ kept :
             \/ s = "client_secret" /\ in.secretFile # Unset
             \/ s = "subject_token" /\ in.tokenFile # Unset,
           (\E s \in Settings : in.flag[s] = "mistyped")
             <=> (\E s \in Settings : other.flag[s] = "mistyped"),
           other.config = in.config, other.secretFile = in.secretFile,
           other.tokenFile = in.tokenFile, other.home = in.home, other.key = in.key
    PROVE  Command(other) = Command(in)
<1>1. Finalized(in, Resolved(in)) = Finalized(other, Resolved(other))
  BY FinalizedAgree
<1> QED BY <1>1, CommandOfResolved

\* A setting is resolved from what the three layers say of it, and the format from
\* what they say of all as well.
LEMMA SameSetting ==
    ASSUME NEW in, NEW other, NEW s \in Settings,
           Layered(other, s) = Layered(in, s),
           s = "format" => /\ Layered(other, "all") = Layered(in, "all")
                           /\ other.flag[s] = in.flag[s],
           s = "extra" => /\ HeardFile(s, other.file[s]) = HeardFile(s, in.file[s])
                          /\ HeardFile(s, in.file[s]) # Unset => other.file[s] = in.file[s]
    PROVE  Resolved(other)[s] = Resolved(in)[s]
BY DEF Resolved

LEMMA MistypedIsSilent ==
    ASSUME NEW in \in Inputs
    PROVE  Command(in) = Command(WellTyped(in))
<1> DEFINE other == WellTyped(in)
<1>1. /\ \A s \in Settings :
           /\ other.env[s] = IF in.env[s] = "mistyped" THEN Unset ELSE in.env[s]
           /\ other.file[s] = IF in.file[s] = "mistyped" THEN Unset ELSE in.file[s]
      /\ other.flag = in.flag /\ other.config = in.config
      /\ other.secretFile = in.secretFile /\ other.tokenFile = in.tokenFile
      /\ other.home = in.home /\ other.key = in.key
  <2>1. in \in AllInputs
    BY InputFacts
  <2> QED BY <2>1 DEF WellTyped, AllInputs
<1> HIDE DEF other
<1>2. ASSUME NEW s \in Settings
      PROVE  /\ Layered(other, s) = Layered(in, s)
             /\ HeardFile(s, other.file[s]) = HeardFile(s, in.file[s])
             /\ HeardFile(s, in.file[s]) # Unset => other.file[s] = in.file[s]
  <2>1. HeardFile(s, other.file[s]) = HeardFile(s, in.file[s])
        /\ (HeardFile(s, in.file[s]) # Unset => other.file[s] = in.file[s])
    BY <1>1, InputAssumption DEF HeardFile
  <2>2. CASE in.env[s] = "mistyped"
    <3>1. s \in Switches
      BY <2>2, InputFacts
    <3>2. Default(s) = "no" /\ HeardEnv(in.env[s]) = "no" /\ "no" # Unset
      BY <2>2, <3>1, InputAssumption DEF Default, HeardEnv, Switches, Texts
    <3>3. HeardEnv(other.env[s]) = Unset
      BY <1>1, <2>2, InputAssumption DEF HeardEnv
    <3> QED BY <1>1, <2>1, <3>2, <3>3, Precedence
  <2>3. CASE in.env[s] # "mistyped"
    <3>1. HeardEnv(other.env[s]) = HeardEnv(in.env[s])
      BY <1>1, <2>3
    <3> QED BY <1>1, <2>1, <3>1, Precedence
  <2> QED BY <2>1, <2>2, <2>3
<1>3. "all" \in Settings
  BY DEF Settings
<1>4. \A s \in Settings : Resolved(other)[s] = Resolved(in)[s]
  BY <1>1, <1>2, <1>3, SameSetting
<1>5. Command(other) = Command(in)
  BY <1>1, <1>4, SameCommand
<1> QED BY <1>5 DEF other

LEMMA FlagShadows ==
    ASSUME NEW in \in Inputs, NEW s \in Settings \ {"extra"}, in.flag[s] # Unset
    PROVE  Command(in) = Command(WithoutLower(in, s))
<1> DEFINE other == WithoutLower(in, s)
<1>1. /\ \A t \in Settings \ {s} : other.env[t] = in.env[t] /\ other.file[t] = in.file[t]
      /\ other.flag = in.flag /\ other.config = in.config
      /\ other.secretFile = in.secretFile /\ other.tokenFile = in.tokenFile
      /\ other.home = in.home /\ other.key = in.key
  <2>1. in \in AllInputs /\ in.env \in Layers /\ in.file \in Layers
    BY InputFacts
  <2> QED BY <2>1 DEF WithoutLower, AllInputs, Layers
<1> HIDE DEF other
<1>2. ASSUME NEW t \in Settings
      PROVE  Layered(other, t) = Layered(in, t)
  <2>1. CASE t = s
    BY <1>1, <2>1, Precedence
  <2>2. CASE t # s
    BY <1>1, <2>2, Precedence
  <2> QED BY <2>1, <2>2
<1>3. "all" \in Settings
  BY DEF Settings
<1>4. ASSUME NEW t \in Settings
      PROVE  Resolved(other)[t] = Resolved(in)[t]
  BY <1>1, <1>2, <1>3, SameSetting
<1>5. Command(other) = Command(in)
  BY <1>1, <1>4, SameCommand
<1> QED BY <1>5 DEF other

LEMMA SecretFileShadows ==
    ASSUME NEW in \in Inputs, NEW s \in {"client_secret", "subject_token"},
           s = "client_secret" => in.secretFile # Unset,
           s = "subject_token" => in.tokenFile # Unset
    PROVE  Command(in) = Command(Without(in, s))
<1> DEFINE other == Without(in, s)
<1>1. /\ \A t \in Settings \ {s} : /\ other.env[t] = in.env[t]
                                   /\ other.file[t] = in.file[t]
                                   /\ other.flag[t] = in.flag[t]
      /\ other.flag[s] = Unset
      /\ other.config = in.config
      /\ other.secretFile = in.secretFile /\ other.tokenFile = in.tokenFile
      /\ other.home = in.home /\ other.key = in.key
  <2>1. in \in AllInputs /\ in.env \in Layers /\ in.file \in Layers /\ in.flag \in Layers
    BY InputFacts
  <2>2. s \in Settings
    BY DEF Settings
  <2> QED BY <2>1, <2>2 DEF Without, WithoutLower, AllInputs, Layers
<1> HIDE DEF other
<1>2. ASSUME NEW t \in Settings \ {s}
      PROVE  Layered(other, t) = Layered(in, t)
  BY <1>1, Precedence
<1>3. "all" \in Settings \ {s} /\ "format" \in Settings \ {s} /\ "extra" \in Settings \ {s}
  BY DEF Settings
<1>4. ASSUME NEW t \in Settings \ {s}
      PROVE  Resolved(other)[t] = Resolved(in)[t]
  BY <1>1, <1>2, <1>3, SameSetting
<1>5. (\E t \in Settings : in.flag[t] = "mistyped")
        <=> (\E t \in Settings : other.flag[t] = "mistyped")
  <2>1. s \in Settings /\ s \notin Switches \cup {"redirect_port", "extra"}
    BY DEF Settings, Switches
  <2>2. in.flag[s] # "mistyped" /\ other.flag[s] # "mistyped"
    BY <1>1, <2>1, InputFacts, InputAssumption
  <2> QED BY <1>1, <2>2
<1>6. \A t \in Settings \ (Settings \ {s}) :
        \/ t = "client_secret" /\ in.secretFile # Unset
        \/ t = "subject_token" /\ in.tokenFile # Unset
  OBVIOUS
<1>7. Command(other) = Command(in)
  <2> DEFINE kept == Settings \ {s}
  <2>1. kept \in SUBSET Settings /\ \A t \in kept : Resolved(other)[t] = Resolved(in)[t]
    BY <1>4
  <2>2. \A t \in Settings \ kept :
          \/ t = "client_secret" /\ in.secretFile # Unset
          \/ t = "subject_token" /\ in.tokenFile # Unset
    BY <1>6
  <2> HIDE DEF kept
  <2> QED BY <1>1, <1>5, <2>1, <2>2, SameCommand
<1> QED BY <1>7 DEF other

(***************************************************************************)
(* The invariant                                                           *)
(***************************************************************************)

\* The configuration is the one Parse returned, from the moment it is accepted.
AcceptedInv ==
    /\ input \in Inputs
    /\ pc \in {"parse", "dispatch", "exchange", "done", "failed", "logout", "run"}
    /\ cfg \in {Defaults, Command(input)}
    /\ cfg = Defaults \/ Command(input) # Unset
    /\ pc \in {"dispatch", "exchange", "logout", "run"} =>
         cfg = Command(input) /\ Command(input) # Unset
    /\ pc = "exchange" => cfg.grant_type = "token-exchange"
    /\ pc \in {"logout", "run"} => cfg.grant_type # "token-exchange"

LEMMA Accepted == Spec => []AcceptedInv
<1>1. Init => AcceptedInv
  BY DEF Init, AcceptedInv
<1>2. AcceptedInv /\ [Next]_vars => AcceptedInv'
  <2> SUFFICES ASSUME AcceptedInv, [Next]_vars PROVE AcceptedInv'
    OBVIOUS
  <2> USE DEF AcceptedInv
  <2>1. CASE Parse
    <3>1. Command(input') = Command(input)
      BY <2>1 DEF Parse
    <3> QED BY <2>1, <3>1 DEF Parse
  <2>2. CASE UNCHANGED <<input, cfg>>
    <3>1. Command(input') = Command(input)
      BY <2>2
    <3> QED BY <2>2, <3>1 DEF Next, ParseFails, Parse, Exchange, ExchangeFails,
                              ExchangeWrites, ProbeFails, Start, Terminated, vars
  <2> QED BY <2>1, <2>2 DEF Next, ParseFails, Exchange, ExchangeFails, ExchangeWrites,
                            ProbeFails, Start, Terminated, vars
<1> QED BY <1>1, <1>2, PTL DEF Spec

\* What Parse accepts has passed every check.
LEMMA CommandFacts ==
    ASSUME NEW in \in Inputs, Command(in) # Unset
    PROVE  /\ Command(in) = Finalized(in, Resolved(in))
           /\ ~Unreadable(in, Command(in))
           /\ ConfigValid(Command(in)) /\ GrantsValid(Command(in))
           /\ Command(in) \in [Settings -> Texts]
<1> DEFINE c == Resolved(in)
           d == Finalized(in, c)
<1>1. Command(in) = d /\ ~Unreadable(in, d) /\ ConfigValid(d) /\ GrantsValid(d)
  BY DEF Command
<1>2. /\ \A s \in Settings : in.flag[s] # "mistyped"
      /\ in.secretFile \in Texts \cup {Unset} /\ in.tokenFile \in Texts \cup {Unset}
  BY <1>1, InputFacts DEF Unreadable, Files
<1>3. \A s \in Settings : c[s] \in Texts
  BY <1>2, ResolvedType
<1>4. \A s \in Settings : d[s] \in Texts
  <2> SUFFICES ASSUME NEW s \in Settings PROVE FinalizedSetting(in, c, s) \in Texts
    BY FinalizedValue
  <2>1. c[s] \in Texts
    BY <1>3
  <2>2. FromFile(in.secretFile, c, s) \in Texts /\ FromFile(in.tokenFile, c, s) \in Texts
    BY <1>2, <2>1 DEF FromFile
  <2>3. {"some", "id_token", "access_token"} \subseteq Texts
    BY DEF Texts
  <2> HIDE DEF c
  <2> QED BY <2>1, <2>2, <2>3 DEF FinalizedSetting, DefaultTokenType
<1>5. d = [s \in Settings |-> d[s]]
  <2>1. c = [s \in Settings |-> c[s]]
    BY DEF Resolved
  <2> HIDE DEF c
  <2> QED BY <2>1 DEF Finalized
<1>6. d \in [Settings -> Texts]
  <2> HIDE DEF d
  <2> QED BY <1>4, <1>5
<1> QED BY <1>1, <1>6

(***************************************************************************)
(* The theorems                                                            *)
(***************************************************************************)

\* TypeOK: every setting of an accepted command is a text, whatever was unreadable or
\* of the wrong type on the way (Parse reports it instead).
THEOREM CommandsAreTyped == Spec => []TypeOK
<1>1. AcceptedInv => TypeOK
  <2> SUFFICES ASSUME AcceptedInv PROVE TypeOK
    OBVIOUS
  <2>1. input \in AllInputs
    BY InputFacts DEF AcceptedInv
  <2>2. Defaults \in [Settings -> Texts]
    BY DEF Defaults, Default, Texts
  <2>3. cfg \in [Settings -> Texts]
    BY <2>2, CommandFacts DEF AcceptedInv
  <2> QED BY <2>1, <2>3 DEF AcceptedInv, TypeOK
<1> QED BY <1>1, Accepted, PTL

\* MistypedValuesAreSilent: for every invocation, the command is the one without the
\* values of the wrong type in its environment and config file.
THEOREM MistypedValuesHideNothing == Spec => []MistypedValuesAreSilent
<1>1. AcceptedInv => MistypedValuesAreSilent
  BY MistypedIsSilent DEF AcceptedInv, MistypedValuesAreSilent
<1> QED BY <1>1, Accepted, PTL

\* FlagsShadowEnvAndFile: for every invocation and every setting but extra, a flag makes
\* environment and config file irrelevant to the whole command.
THEOREM FlagsWin == Spec => []FlagsShadowEnvAndFile
<1>1. AcceptedInv => FlagsShadowEnvAndFile
  BY FlagShadows DEF AcceptedInv, FlagsShadowEnvAndFile
<1> QED BY <1>1, Accepted, PTL

\* SecretFilesShadowTheRest: for every invocation, a secret read from a file makes all
\* three layers irrelevant for it.
THEOREM SecretFilesWin == Spec => []SecretFilesShadowTheRest
<1>1. AcceptedInv => SecretFilesShadowTheRest
  BY SecretFileShadows DEF AcceptedInv, SecretFilesShadowTheRest
<1> QED BY <1>1, Accepted, PTL

\* CommandsAreConsistent: what reaches a request fits together, from whichever layers
\* its parts came.
THEOREM AcceptedCommandsFitTogether == Spec => []CommandsAreConsistent
<1>1. AcceptedInv => CommandsAreConsistent
  <2> SUFFICES ASSUME AcceptedInv, pc \in {"exchange", "run", "logout"}
               PROVE  CommandsAreConsistent
    BY DEF CommandsAreConsistent
  <2>1. /\ input \in Inputs
        /\ cfg = Finalized(input, Resolved(input))
        /\ ConfigValid(cfg) /\ GrantsValid(cfg)
        /\ (pc = "exchange") = (cfg.grant_type = "token-exchange")
    BY CommandFacts DEF AcceptedInv
  <2>2. cfg.subject_token = "" \/ cfg.subject_token_source = ""
    BY <2>1 DEF GrantsValid
  <2>3. /\ (pc = "exchange") = (cfg.subject_token # "" \/ cfg.subject_token_source # "")
        /\ cfg.resource # "" \/ cfg.requested_token_type # "" => pc = "exchange"
    BY <2>1 DEF GrantsValid
  <2>4. cfg.client_auth_method = "" => cfg.client_secret = "" /\ cfg.private_key_file = ""
    BY <2>1 DEF ConfigValid
  <2>5. ASSUME pc = "exchange", Given(input, "subject_token_type") = {}
        PROVE  (cfg.subject_token_type = "id_token")
                 = (cfg.subject_token_source = "github-actions")
    <3> DEFINE c == Resolved(input)
    <3>1. {"subject_token_type", "subject_token_source"} \subseteq Settings
      BY DEF Settings
    <3>2. c["subject_token_type"] = ""
      <4>1. Layered(input, "subject_token_type") = ""
        BY <2>5 DEF Layered, Default
      <4> QED BY <3>1, <4>1 DEF Resolved
    <3>3. cfg["subject_token_source"] = c["subject_token_source"]
      BY <2>1, <3>1, FinalizedValue DEF FinalizedSetting
    <3>4. cfg["subject_token_type"] = DefaultTokenType(c["subject_token_source"])
      BY <2>1, <3>1, <3>2, FinalizedValue DEF FinalizedSetting
    <3> QED BY <3>3, <3>4 DEF DefaultTokenType
  <2> QED BY <2>2, <2>3, <2>4, <2>5 DEF CommandsAreConsistent
<1> QED BY <1>1, Accepted, PTL

=============================================================================
