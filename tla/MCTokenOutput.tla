--------------------------- MODULE MCTokenOutput ---------------------------
(***************************************************************************)
(* Responses for TLC.                                                      *)
(***************************************************************************)
EXTENDS TokenOutput

MCMisspelt == [n \in {"ID_Token"} |-> "id_token"]

Values(k) == CASE k = "access_token" -> {"some"}
               [] k \in {"id_token", "ID_Token"} -> IDTokens \cup {"mistyped"}
               [] k = "refresh_token" -> {"r1", "r2"}
               [] k = "expires_in" -> {"negative", "short", "long", "huge", "quoted"}
               [] k = "issued_token_type" -> {"some", "mistyped"}
               [] k = "error" -> {"invalid_grant"}
               [] OTHER -> {"some"}

\* All ways to fill the fields K, some of them perhaps missing.
Bodies(K) ==
    UNION {{f \in [D -> UNION {Values(k) : k \in K}] : \A k \in D : f[k] \in Values(k)} :
              D \in SUBSET K}

\* The responses with the fields f; where a field comes in two spellings, either is last.
Responses(S, J, f) ==
    {[success |-> s, json |-> j, fields |-> f,
      last |-> [k \in Standard |-> IF k = "id_token" THEN n ELSE k]] :
        s \in S, j \in J,
        n \in IF {"id_token", "ID_Token"} \cap DOMAIN f = {} THEN {"id_token"}
              ELSE {"id_token", "ID_Token"} \cap DOMAIN f}

WithAccessToken(f) == [k \in DOMAIN f \cup {"access_token"} |->
                         IF k = "access_token" THEN "some" ELSE f[k]]

MCAnswers ==
    UNION ({Responses({TRUE}, {TRUE}, WithAccessToken(f)) :
              f \in Bodies({"id_token", "refresh_token", "expires_in"})
                    \cup Bodies({"id_token", "issued_token_type", "expiry"})
                    \cup Bodies({"id_token", "ID_Token"})}
           \cup {Responses(BOOLEAN, BOOLEAN, f) :
                    f \in Bodies({"access_token", "id_token", "error"})})

=============================================================================
