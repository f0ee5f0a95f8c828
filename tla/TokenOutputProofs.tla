------------------------- MODULE TokenOutputProofs -------------------------
(***************************************************************************)
(* Theorems of TokenOutput, for every set of responses.                    *)
(***************************************************************************)
EXTENDS TokenOutput, TLAPS

\* What a parser reads as another field than the id_token is not one.
LEMMA OnlyIDTokensAreUnverified ==
    ASSUME NEW a \in Answers,
           NEW k \in {"access_token", "refresh_token", "issued_token_type"}
    PROVE  Given(a, k) # "unverified"
<1>1. k \in Standard /\ k # "id_token" /\ k \notin DOMAIN Misspelt
  BY AnswerAssumption DEF Standard
<1>2. Get(a.fields, k) # "unverified"
  BY <1>1, AnswerAssumption DEF Get, Member
<1>3. Parsed(a, k) # "unverified"
  BY <1>1, AnswerAssumption DEF Parsed, Get
<1> QED BY <1>2, <1>3, AnswerAssumption DEF Given

LEMMA ExtensionsAreClean ==
    ASSUME NEW a \in Answers, Own
    PROVE  CleanExtra(Extensions(a.fields))
<1>1. \A n \in DOMAIN a.fields \ Standard :
         a.fields[n] = "unverified" => n \in DOMAIN Misspelt
  BY AnswerAssumption DEF Member, Standard
<1> QED BY <1>1 DEF CleanExtra, Extensions

\* The result made of an answer has every field and no unverified value.
LEMMA ResultIsClean ==
    ASSUME IInv, NEW a \in Answers, NEW e \in Expiries(a)
    PROVE  LET r == ToResult(a, e) IN
           /\ Accepts(a) => r.token.access_token # None
           /\ DOMAIN r.token = DOMAIN NoEntry
           /\ Clean(r.token) /\ CleanExtra(r.extra) /\ r.issued # "unverified"
           /\ grant = "authcode" => r.token.id_token # "foreign"
<1> DEFINE r == ToResult(a, e)
<1>1. e \in {None, "past", "future"}
  BY DEF Expiries, OwnExpiry, LibraryExpiry
<1>2. \A k \in {"access_token", "refresh_token", "issued_token_type"} :
         Given(a, k) # "unverified"
  BY OnlyIDTokensAreUnverified
<1>3. r.token.id_token \notin {"unverified"} /\
      (grant = "authcode" => r.token.id_token # "foreign")
  BY AnswerAssumption DEF ToResult, Verified
<1>4. DOMAIN r.token = DOMAIN NoEntry
  BY DEF ToResult, NoEntry, Credentials
<1>5. Clean(r.token)
  BY <1>1, <1>2, <1>3, AnswerAssumption DEF ToResult, Clean
<1>6. CleanExtra(r.extra)
  <2>1. CASE Own
    BY <2>1, ExtensionsAreClean DEF ToResult
  <2>2. CASE ~Own
    BY <2>2 DEF ToResult, CleanExtra, NoFields
  <2> QED BY <2>1, <2>2
<1>7. r.issued # "unverified"
  BY <1>2 DEF ToResult
<1>8. Accepts(a) => r.token.access_token # None
  BY DEF ToResult, Accepts, OwnAccepts, LibraryAccepts, Given, Loose
<1> QED BY <1>3, <1>4, <1>5, <1>6, <1>7, <1>8

LEMMA Initially == Init => IInv
<1> SUFFICES ASSUME Init PROVE IInv
  OBVIOUS
<1> USE AnswerAssumption DEF Init, NoResult, NoEntry, NoFields
<1>1. TypeOK
  BY DEF TypeOK, Calls
<1>2. ResultInv
  BY DEF ResultInv, Clean, CleanExtra, Credentials
<1>3. HeldInv /\ UnverifiedOnlyMisspelt /\ PrintedIsStored /\ ZeroMeansAToken
  BY DEF HeldInv, UnverifiedOnlyMisspelt, PrintedIsStored, ZeroMeansAToken, Credentials
<1> QED BY <1>1, <1>2, <1>3 DEF IInv

\* A step that prints nothing and leaves profile and result alone.
LEMMA Elsewhere ==
    ASSUME IInv, pc \in {"start", "ask", "output"},
           UNCHANGED <<call, entry, res, stdout>>,
           \/ pc # "output" /\ pc' = "ask" /\ exit' = exit
              /\ grant' \in {"refresh", "authcode", "device", "exchange"}
           \/ pc' = "ended" /\ exit' = 1 /\ grant' = grant
    PROVE  IInv'
<1> USE AnswerAssumption
<1>1. TypeOK'
  BY DEF IInv, TypeOK
<1>2. CleanExtra(res.extra)'
  <2>1. CASE pc \in {"start", "ask"}
    BY <2>1 DEF IInv, ResultInv, NoResult, NoFields, CleanExtra
  <2>2. CASE grant' = grant
    BY <2>2 DEF IInv, ResultInv, CleanExtra, Own
  <2> QED BY <2>1, <2>2
<1>3. ResultInv' /\ HeldInv'
  BY <1>2 DEF IInv, TypeOK, ResultInv, HeldInv, Clean
<1>4. pc \in {"start", "ask"} => res.token.id_token = None
  BY DEF IInv, ResultInv, NoResult, NoEntry, Credentials
<1>5. UnverifiedOnlyMisspelt'
  BY <1>4 DEF IInv, TypeOK, UnverifiedOnlyMisspelt
<1>6. PrintedIsStored'
  BY DEF IInv, TypeOK, PrintedIsStored
<1>7. ZeroMeansAToken'
  BY DEF IInv, TypeOK, ZeroMeansAToken
<1> QED BY <1>1, <1>3, <1>5, <1>6, <1>7 DEF IInv

\* A step that brings a result to print.
LEMMA Arrives ==
    ASSUME IInv, pc # "ended", pc' = "output", UNCHANGED <<call, grant, stdout, exit>>,
           DOMAIN entry' = DOMAIN NoEntry, DOMAIN res'.token = DOMAIN NoEntry,
           Clean(entry'), Clean(res'.token), CleanExtra(res'.extra),
           res'.issued # "unverified",
           grant = "authcode" => res'.token.id_token # "foreign",
           res'.token.access_token # None \/ res'.token.id_token # None,
           call.command = "run" => entry' = res'.token
    PROVE  IInv'
<1> USE AnswerAssumption
<1>1. TypeOK'
  BY DEF IInv, TypeOK
<1>2. ResultInv' /\ HeldInv'
  BY DEF IInv, TypeOK, ResultInv, HeldInv, Clean, CleanExtra, Own
<1>3. "id_token" \in DOMAIN entry' /\ "id_token" \in DOMAIN res'.token
  BY DEF NoEntry, Credentials
<1>4. UnverifiedOnlyMisspelt'
  BY <1>3 DEF IInv, TypeOK, UnverifiedOnlyMisspelt, Clean
<1>5. PrintedIsStored'
  BY DEF IInv, TypeOK, PrintedIsStored
<1>6. ZeroMeansAToken'
  BY DEF IInv, TypeOK, ZeroMeansAToken
<1> QED BY <1>1, <1>2, <1>4, <1>5, <1>6 DEF IInv

LEMMA RequestStep ==
    ASSUME IInv, pc \in {"start", "ask"},
           NEW g \in {"refresh", "authcode", "device", "exchange"}, Request(g)
    PROVE  IInv'
BY Elsewhere DEF Request

LEMMA GiveUpStep ==
    ASSUME IInv, pc = "ask", GiveUp
    PROVE  IInv'
<1>1. call.login \in {"authcode", "device"}
  BY DEF IInv, TypeOK, Calls
<1>2. CASE Fail
  BY <1>2, Elsewhere DEF Fail
<1>3. CASE Request(call.login)
  BY <1>1, <1>3, RequestStep
<1> QED BY <1>2, <1>3 DEF GiveUp

LEMMA AskStep == ASSUME IInv, Ask PROVE IInv'
<1>1. call.login \in {"authcode", "device"}
  BY DEF IInv, TypeOK, Calls
<1> QED BY <1>1, RequestStep DEF Ask

LEMMA ServeCachedStep == ASSUME IInv, ServeCached PROVE IInv'
<1>1. res' = [token |-> entry, issued |-> None, badIDToken |-> FALSE, extra |-> NoFields]
  BY DEF ServeCached, NoResult
<1>2. Clean(entry) /\ DOMAIN entry = DOMAIN NoEntry
  BY DEF IInv, TypeOK, ResultInv
<1>3. grant # "authcode"
  BY AnswerAssumption DEF IInv, ResultInv, ServeCached
<1> QED BY <1>1, <1>2, <1>3, Arrives, AnswerAssumption 
     DEF ServeCached, EntryValid, NoFields, Clean, CleanExtra

LEMMA RunGrantedStep == ASSUME IInv, RunGranted PROVE IInv'
<1>0. PICK a \in Answers : \E e \in Expiries(a) :
        LET r == Keeping(ToResult(a, e)) IN
        /\ Accepts(a)
        /\ \/ entry' = Persisted(r) /\ res' = r /\ pc' = "output"
              /\ UNCHANGED <<call, grant, stdout, exit>>
           \/ GiveUp
  BY DEF RunGranted
<1>1. PICK e \in Expiries(a) :
        LET r == Keeping(ToResult(a, e)) IN
        /\ Accepts(a)
        /\ \/ entry' = Persisted(r) /\ res' = r /\ pc' = "output"
              /\ UNCHANGED <<call, grant, stdout, exit>>
           \/ GiveUp
  BY <1>0
<1> DEFINE r0 == ToResult(a, e)
<1> DEFINE r == Keeping(r0)
<1>2. pc = "ask"
  BY DEF RunGranted
<1>3. CASE GiveUp
  BY <1>2, <1>3, GiveUpStep
<1>4. CASE entry' = Persisted(r) /\ res' = r /\ pc' = "output"
           /\ UNCHANGED <<call, grant, stdout, exit>>
  <2>1. /\ DOMAIN r0.token = DOMAIN NoEntry
        /\ Clean(r0.token) /\ CleanExtra(r0.extra) /\ r0.issued # "unverified"
        /\ grant = "authcode" => r0.token.id_token # "foreign"
        /\ r0.token.access_token # None
    BY <1>1, ResultIsClean
  <2>2. entry.refresh_token # "unverified"
    BY DEF IInv, TypeOK, ResultInv, Clean, CleanExtra, NoEntry, Credentials
  <2>3. /\ DOMAIN r.token = DOMAIN NoEntry
        /\ Clean(r.token) /\ r.extra = r0.extra /\ r.issued = r0.issued
        /\ r.token.id_token = r0.token.id_token
        /\ r.token.access_token = r0.token.access_token
    <3>1. CASE r = r0
      BY <3>1, <2>1
    <3>2. CASE r = [r0 EXCEPT !.token.refresh_token = entry.refresh_token]
      <4>1. r0 = [token |-> r0.token, issued |-> r0.issued,
                  badIDToken |-> r0.badIDToken, extra |-> r0.extra]
        BY DEF ToResult
      <4>2. /\ r.token = [r0.token EXCEPT !.refresh_token = entry.refresh_token]
            /\ r.extra = r0.extra /\ r.issued = r0.issued
        BY <3>2, <4>1
      <4> HIDE DEF r, r0
      <4> QED BY <4>2, <2>1, <2>2 DEF Clean, NoEntry, Credentials
    <3> QED BY <3>1, <3>2 DEF Keeping
  <2>4. entry' = r.token
    BY <1>4 DEF Persisted
  <2> HIDE DEF r, r0
  <2> QED BY <1>2, <1>4, <2>1, <2>3, <2>4, Arrives
<1> QED BY <1>1, <1>3, <1>4

LEMMA ExchangeGrantedStep == ASSUME IInv, ExchangeGranted PROVE IInv'
<1>0. PICK a \in Answers : \E e \in Expiries(a) :
        Accepts(a) /\ res' = ToResult(a, e)
  BY DEF ExchangeGranted
<1>1. PICK e \in Expiries(a) : Accepts(a) /\ res' = ToResult(a, e)
  BY <1>0
<1> DEFINE r == ToResult(a, e)
<1>2. /\ DOMAIN r.token = DOMAIN NoEntry
      /\ Clean(r.token) /\ CleanExtra(r.extra) /\ r.issued # "unverified"
      /\ grant = "authcode" => r.token.id_token # "foreign"
      /\ r.token.access_token # None
  BY <1>1, ResultIsClean
<1>3. Clean(entry') /\ DOMAIN entry' = DOMAIN NoEntry
  BY DEF IInv, TypeOK, ResultInv, ExchangeGranted
<1> HIDE DEF r
<1> QED BY <1>1, <1>2, <1>3, Arrives DEF r, ExchangeGranted, Calls

LEMMA NothingToPrintStep == ASSUME IInv, NothingToPrint PROVE IInv'
BY Elsewhere DEF NothingToPrint, Fail

\* The document has nothing in it that the result has not, and the credentials of
\* the result under their own names.
Decent(doc) ==
    \A k \in DOMAIN doc : doc[k] = "unverified" =>
        Own /\ call.format = "json" /\ k \in DOMAIN Misspelt

LEMMA DocumentIsFaithful ==
    ASSUME IInv, pc = "output", Printable
    PROVE  /\ Decent(Document)
           /\ IF call.format = "json"
                THEN \A k \in Credentials : Get(Document, k) = res.token[k]
                ELSE /\ Document.token = Selected /\ Selected # None
                     /\ call.format = "exec-credential" =>
                          ("expirationTimestamp" \in DOMAIN Document) = (res.token.expiry # None)
<1> USE AnswerAssumption
<1>1. /\ DOMAIN res.token = Credentials \cup {"expiry"}
      /\ Clean(res.token) /\ CleanExtra(res.extra) /\ res.issued # "unverified"
  BY DEF IInv, TypeOK, ResultInv, NoEntry
<1>2. call.tokenType \in {"access_token", "id_token"}
  BY DEF IInv, TypeOK, Calls
<1>3. CASE call.format = "json"
  <2> DEFINE all == Overlaid(res.token, [issued_token_type |-> res.issued])
  <2> DEFINE given == NonEmpty(all)
  <2>1. Document = Overlaid(given, res.extra)
    BY <1>3 DEF Document
  <2>2. /\ DOMAIN all = Credentials \cup {"expiry", "issued_token_type"}
        /\ \A k \in Credentials \cup {"expiry"} : all[k] = res.token[k]
        /\ all["issued_token_type"] = res.issued
    BY <1>1 DEF Overlaid, Credentials
  <2>3. Clean(all)
    BY <1>1, <2>2 DEF Clean
  <2> HIDE DEF all
  <2>4. /\ Clean(given)
        /\ \A k \in Credentials : Get(given, k) = all[k]
    BY <2>2, <2>3 DEF Clean, NonEmpty, Get
  <2> HIDE DEF given
  <2>5. Decent(Document)
    BY <1>1, <1>3, <2>1, <2>4 DEF Clean, CleanExtra, Decent, Overlaid
  <2>6. \A k \in Credentials : k \notin DOMAIN res.extra
    BY <1>1 DEF CleanExtra, Credentials, Standard
  <2>7. \A k \in Credentials : Get(Document, k) = Get(given, k)
    BY <2>1, <2>6 DEF Get, Overlaid
  <2> QED BY <1>3, <2>2, <2>4, <2>5, <2>7
<1>4. CASE call.format = "exec-credential"
  <2>1. Selected # None /\ Selected # "unverified" /\ res.token.expiry # "unverified"
    BY <1>1, <1>2, <1>4 DEF Printable, Selected, Clean, Credentials
  <2> DEFINE date == NonEmpty([expirationTimestamp |-> res.token.expiry])
  <2>2. Document = Overlaid([token |-> Selected], date)
    BY <1>4 DEF Document
  <2>3. /\ ("expirationTimestamp" \in DOMAIN date) = (res.token.expiry # None)
        /\ DOMAIN date \subseteq {"expirationTimestamp"}
        /\ Clean(date)
    BY <2>1 DEF NonEmpty, Clean
  <2> HIDE DEF date
  <2> QED BY <1>4, <2>1, <2>2, <2>3 DEF Overlaid, Clean, Decent
<1>5. CASE call.format = "token"
  <2>1. Selected # None /\ Selected # "unverified"
    BY <1>1, <1>2, <1>5 DEF Printable, Selected, Clean, Credentials
  <2>2. Document = [token |-> Selected]
    BY <1>5 DEF Document
  <2> QED BY <1>5, <2>1, <2>2 DEF Decent
<1> QED BY <1>3, <1>4, <1>5 DEF IInv, TypeOK, Calls

LEMMA WriteStep == ASSUME IInv, Write PROVE IInv'
<1> USE AnswerAssumption
<1>1. /\ stdout' = <<Document>> /\ stdout'[1] = Document
      /\ pc = "output" /\ pc' = "ended" /\ exit' = 0
      /\ UNCHANGED <<call, grant, entry, res>>
  BY DEF Write
<1>2. /\ Decent(Document)
      /\ IF call.format = "json"
           THEN \A k \in Credentials : Get(Document, k) = res.token[k]
           ELSE /\ Document.token = Selected /\ Selected # None
                /\ call.format = "exec-credential" =>
                     ("expirationTimestamp" \in DOMAIN Document) = (res.token.expiry # None)
  BY DocumentIsFaithful DEF Write
<1>3. TypeOK' /\ ResultInv' /\ HeldInv'
  BY <1>1 DEF IInv, TypeOK, ResultInv, HeldInv, Clean, CleanExtra, Own
<1>4. UnverifiedOnlyMisspelt'
  BY <1>1, <1>2 DEF IInv, UnverifiedOnlyMisspelt, Decent, Own
<1>5. call.tokenType \in Credentials
  BY DEF IInv, TypeOK, Calls, Credentials
<1>6. call.command = "run" =>
        /\ \A k \in Credentials : res.token[k] = entry[k]
        /\ (res.token.expiry = None) = (entry.expiry = None)
  BY <1>1 DEF IInv, PrintedIsStored, HeldInv
<1>7. PrintedIsStored'
  BY <1>1, <1>2, <1>5, <1>6 DEF PrintedIsStored, Selected, Get
<1>8. res.token.access_token # None \/ res.token.id_token # None
  BY <1>1 DEF IInv, ResultInv
<1>9. ZeroMeansAToken'
  <2>1. call.format = "json" =>
          \E k \in {"access_token", "id_token"} : Get(Document, k) # None
    BY <1>2, <1>8 DEF Credentials
  <2> QED BY <1>1, <1>2, <2>1 DEF ZeroMeansAToken, Get
<1> QED BY <1>3, <1>4, <1>7, <1>9 DEF IInv

LEMMA WriteFailsStep == ASSUME IInv, WriteFails PROVE IInv'
<1> USE AnswerAssumption DEF WriteFails
<1>1. TypeOK' /\ ResultInv' /\ HeldInv'
  BY DEF IInv, TypeOK, ResultInv, HeldInv, Clean, CleanExtra, Own
<1>2. UnverifiedOnlyMisspelt' /\ PrintedIsStored'
  BY DEF IInv, UnverifiedOnlyMisspelt, PrintedIsStored
<1>3. ZeroMeansAToken'
  BY DEF ZeroMeansAToken
<1> QED BY <1>1, <1>2, <1>3 DEF IInv

LEMMA NextCommandStep == ASSUME IInv, NextCommand PROVE IInv'
<1> USE AnswerAssumption DEF NextCommand
<1>1. res' = NoResult /\ Clean(res'.token) /\ CleanExtra(res.extra)' /\ res'.issued # "unverified"
      /\ DOMAIN res'.token = DOMAIN NoEntry
      /\ res'.token.id_token = None
  BY DEF NoResult, NoEntry, NoFields, Clean, CleanExtra, Credentials
<1>2. TypeOK' /\ ResultInv' /\ HeldInv'
  BY <1>1 DEF IInv, TypeOK, ResultInv, HeldInv, Clean, CleanExtra, Own
<1>3. UnverifiedOnlyMisspelt'
  BY <1>1 DEF IInv, UnverifiedOnlyMisspelt, Clean
<1>4. PrintedIsStored' /\ ZeroMeansAToken'
  BY DEF PrintedIsStored, ZeroMeansAToken
<1> QED BY <1>2, <1>3, <1>4 DEF IInv

LEMMA ExpireStep == ASSUME IInv, Expire PROVE IInv'
<1> USE AnswerAssumption DEF Expire
<1>1. /\ DOMAIN entry' = DOMAIN entry /\ DOMAIN entry = Credentials \cup {"expiry"}
      /\ \A k \in Credentials : entry'[k] = entry[k]
      /\ entry'.expiry = "past"
  BY DEF IInv, TypeOK, NoEntry, Credentials
<1>2. TypeOK'
  BY <1>1 DEF IInv, TypeOK
<1>3. ResultInv' /\ HeldInv'
  BY <1>1 DEF IInv, ResultInv, HeldInv, Clean, CleanExtra, Own
<1>4. UnverifiedOnlyMisspelt'
  BY <1>1 DEF IInv, UnverifiedOnlyMisspelt, Credentials, Own
<1>5. call.tokenType \in Credentials
  BY DEF IInv, TypeOK, Calls, Credentials
<1>6. PrintedIsStored'
  BY <1>1, <1>5 DEF IInv, PrintedIsStored
<1>7. ZeroMeansAToken'
  BY DEF IInv, ZeroMeansAToken
<1> QED BY <1>2, <1>3, <1>4, <1>6, <1>7 DEF IInv

\* IInv holds throughout, whatever the token endpoint answers.
THEOREM OutputInvariant == Spec => []IInv
<1>1. IInv /\ [Next]_vars => IInv'
  <2> SUFFICES ASSUME IInv, [Next]_vars PROVE IInv'
    OBVIOUS
  <2>1. CASE ServeCached BY <2>1, ServeCachedStep
  <2>2. CASE Ask BY <2>2, AskStep
  <2>3. CASE Refused BY <2>3, GiveUpStep DEF Refused
  <2>4. CASE RefusedIDToken BY <2>4, GiveUpStep DEF RefusedIDToken
  <2>5. CASE RunGranted BY <2>5, RunGrantedStep
  <2>6. CASE ExchangeGranted BY <2>6, ExchangeGrantedStep
  <2>7. CASE NothingToPrint BY <2>7, NothingToPrintStep
  <2>8. CASE Write BY <2>8, WriteStep
  <2>9. CASE WriteFails BY <2>9, WriteFailsStep
  <2>10. CASE NextCommand BY <2>10, NextCommandStep
  <2>11. CASE Expire BY <2>11, ExpireStep
  <2>12. CASE UNCHANGED vars
    BY <2>12 DEF vars, IInv, TypeOK, ResultInv, HeldInv, UnverifiedOnlyMisspelt,
                 PrintedIsStored, ZeroMeansAToken, Clean, CleanExtra,
                 Own, Get
  <2> QED BY <2>1, <2>2, <2>3, <2>4, <2>5, <2>6, <2>7, <2>8, <2>9, <2>10, <2>11, <2>12
          DEF Next
<1> QED BY Initially, <1>1, PTL DEF Spec

\* UnverifiedOnlyMisspelt: an id_token that failed verification is neither kept nor
\* printed, but for the extension field that a misspelt name makes of it.
THEOREM UnverifiedIDTokensStayOut == Spec => []UnverifiedOnlyMisspelt
<1>1. IInv => UnverifiedOnlyMisspelt BY DEF IInv
<1> QED BY OutputInvariant, <1>1, PTL

\* PrintedIsStored: the credentials a run prints are those of the profile.
THEOREM PrintedCredentialsAreStored == Spec => []PrintedIsStored
<1>1. IInv => PrintedIsStored BY DEF IInv
<1> QED BY OutputInvariant, <1>1, PTL

\* ZeroMeansAToken: exit status 0 comes with the token that was asked for.
THEOREM ZeroComesWithAToken == Spec => []ZeroMeansAToken
<1>1. IInv => ZeroMeansAToken BY DEF IInv
<1> QED BY OutputInvariant, <1>1, PTL

=============================================================================
