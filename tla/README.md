# A TLA+ model of oidc-token-cli

oidc-token prints an OIDC token. One invocation resolves its configuration, then serves
the token from a cached profile, renews it silently, or logs the user in; other
invocations for the same profile run at the same time, die at any moment, and share
nothing but the token store and the identity provider. These modules describe that
behaviour, TLC checks them on small instances, and TLAPS proves the main results for any
number of processes. Paths below are relative to `src/`.

## 1. The system

| part | state it keeps | operations | hard because |
|---|---|---|---|
| configuration (`internal/config`, `flagbinding`, `grant/*`) | the merged Config | Parse: table, file flags, Finalize, validate, Bridge | four layers, two rounds of validation, values of a wrong type, values that decide about other values |
| dispatch (`cmd/oidc-token/main.go`) | none | token exchange, logout, or run; one write to stdout | order of the cases |
| runner (`internal/runner`) | an entry in hand, the refresh token it means to send | Run, tryRefresh, login, Logout, persist | concurrent invocations; crash, timeout or failure between the issuer's answer and the save |
| file store (`internal/cache/cache.go`) | one file and one lock file per profile | Load, Save, Delete, WithLock | not atomic: create, write, chmod, close, rename; crash in between |
| keychain, chain store (`keychain.go`, `chain.go`) | one keychain item, and the file | the same, first backend first | a backend that cannot be reached now and can later; leftovers in the other one |
| grant selection (`internal/authflow/select.go`) | the discovered provider | Refresh, Login, plan, attempt | which error of the first grant justifies a second login |
| authorization code (`internal/oidc/authcode.go`, `callback.go`) | a listener, a one-element channel | AuthCodeLogin, awaitCallback | handler goroutines, a deadline, other logins with the same port, browsers that repeat themselves |
| device code (`internal/oidc/device.go`, `clientauth.go`) | one client assertion | DeviceLogin | three lifetimes that must fit each other |
| requests (`refresh.go`, `tokenexchange.go`, `token.go`) | none | one request each | rotation of the refresh token; two parsers for the same response |
| subject token sources (`internal/subjecttoken`) | none | one GET | – |
| output (`internal/output`, `writeResult`) | none | token, JSON or ExecCredential, one write | each format looks for its token in its own way; fields kept beside the standard ones |

They interact through calls; the exceptions are what makes the system hard. Invocations
meet in the store (file, lock file, keychain) and at the issuer, which may spend a refresh
token that someone else still holds. Inside a login, handler goroutines meet the login's
goroutine in `resultCh`. Logins of one machine meet at a fixed `--redirect` port.

What makes each part correct:

- runner: nobody is in the read-refresh-write section beside another; a spent refresh
  token does not stay in the store if the code can help it; concurrent runs converge on
  one renewal; a refresh never loses the refresh token; every process ends.
- stores: a register, whatever crashes or is left over; a logout empties what it can reach and
  does not report success over an error.
- logins: the answer taken is the first one to this login; ports are given back; the wait
  ends unless a peer holds it up; a user is not sent through a second login for nothing and
  never prompted where nobody is; the assertion lasts as long as the device code.
- requests and output: what is printed is what is stored; no unverified id_token is either,
  but for one the issuer spells in another case; a zero exit status comes with a token.
- configuration: what is on the command line decides; a mistyped value hides and turns on
  nothing; what reaches a request fits together.

The single hazards, each with its line, are in PROJECT.json.

## 2. The modules

| module | models | composes |
|---|---|---|
| TokenRunner | runner, WithLock, the rotating issuer | abstracts the store to one step per call, as ProfileStore justifies |
| TimedRunner | TokenRunner against the clock: lock wait, refresh timeout | every step is a step of TokenRunner or a tick |
| RunnerOverChain | TokenRunner over keychain and file, with a keychain that comes and goes | TokenRunner, its entry the one of the backend that answers; Save and Delete of ChainStore |
| ProfileStore | what `cache.Store` promises for one profile: a register | – |
| FileStore | the file backend, one system call per step | implements ProfileStore |
| ChainStore | keychain + file, one backend call per step | implements ProfileStore; its file calls are FileStore's register |
| TokenOutput | a token response through parser, verification, cache and format to stdout | the runner reduced to one user's commands |
| LoopbackCallback | AuthCodeLogin and awaitCallback with goroutines | – |
| GrantSelection | Source.Refresh, Source.Login, plan | an attempt is a consent and a token request |
| DeviceLogin | DeviceLogin in minutes | – |
| InteractiveLogin | Source.Login whose device-code attempts are DeviceLogin | implements GrantSelection |
| ConfigResolution | Parse, validation, dispatch | its ends `run` and `logout` are TokenRunner's processes |
| MC... | constants for TLC | |
| ...Proofs | theorems | |

A definition that starts "Mutant of" is the definition named there with a plausible
mistake. No specification uses it; it stands beside the original to show which property
notices the mistake.

### TokenRunner

Each member of `Runs` is a process in `Runner.Run` and the final write; each member of
`Logouts` one in `Runner.Logout`. `pc` is the place in the code: `start` (Load), `wantLock`
(WithLock waits), `reread`, `sent`, `answered`, `save`, `unlockOK`/`unlockErr` (inside
WithLock's function), `login`, `saveLogin`, `output`. `entry` is the stored profile,
`holders` who is inside the lock, `rt` and `res` the locals. A refresh token is a number;
an access token is there or not, an id_token is absent, good, or bad (it fails
verification); an expiry is unknown, ahead, or past.

The issuer: a refresh is answered with any of `Answers`, with a new refresh token
(`minted`, the old one joins `redeemed`) or without. A request whose sender gave up
(refreshTimeout) or died stays `stray` and may still rotate the token. `lost` records tokens
whose successor never reached the store, by a crash, a timeout, a failed save or a fatal
id_token.

`Backend` is "file" (flock: `file` and `auto`), "keychain" (a mutex of one process only) or
"none". `Faults` says what may fail: loads, saves, the lock, the refresh, the login, the
delete, and crashes.

### TimedRunner

TokenRunner lets a wait for the lock fail at any moment. TimedRunner adds, per process, the
ticks it has waited, since it sent its request, and inside the section. `TimedStep` is a
TokenRunner step in no time, except that LockFails needs a wait of lockAcquireTimeout
and an abandoned refresh one of refreshTimeout; `Tick` advances all clocks, never past such
an end, and not while a free lock is wanted (lockRetryDelay is far below a tick). The calls of
the store have no bound: a holder may be stuck in front of a locked keychain. Among waiters
the lock goes to anyone.

### RunnerOverChain

`store` has an entry for the keychain and one for the file, `where` is the backend that
answers. It instantiates TokenRunner with `entry <- store[where]`: a run's step also says what
it writes there; a logout empties the file and, if it answers, the keychain; one that fails
has still tried both, and may have emptied one of them. `Flap` changes `where` between any two
steps. The lock is always the file's. Four history variables say what the properties need:
whether the keychain changed while a run was renewing (`straddled`), the newest token at the last
logout that succeeded (`cutoff`), whether that logout met a run in progress or could not reach
the keychain (`excused`), and whether the IdP has answered a run since (`granted`).

### ProfileStore, FileStore, ChainStore

ProfileStore is a register: a call is asked for, takes effect once or is dropped, and a
Load returns the register's content.

FileStore splits Save into create, write, close and chmod, rename, with the deferred removal on
every error, which may itself fail (its error is ignored); Load into open and read; Delete is an
unlink. Inodes are separate from the name `dest`, so a reader keeps the inode it opened. A crash
and a failed removal leave the temporary file; `Restart` is the next invocation in the process's
place. Mapped to the register, Save acts at the rename and Load at the open.

ChainStore has the keychain (`daemon` is "reachable", "absent", which go-keyring reports in a way
`isUnavailable` knows, or "silent": a session bus without a Secret Service provider, whose D-Bus
error it does not know) and the file. Each action is one backend call. The register is the
backend that counts (`Current`). A keychain that changes between reachable and not (`Flap`) makes
the chain serve another backend, so the refinement is to `[Register!Next \/ Disturbed]`: a step
is one of the register, however often the keychain has come and gone before, unless it is that
change itself or goes on with a call that had tried the keychain when it came or went and has the
file still to try (`torn`). Three history variables tell the story of each process's last Delete:
whether it reported success (`loggedOut`), whether anybody's Save has taken effect since it began
(`saved`), and whether it found the keychain unavailable (`missed`). `firstErr` is the code's own
variable: that it outlives the second backend is what LogoutClearsWhatItReached depends on.

### TokenOutput

One user's commands, runs and exchanges, follow each other over one profile. A response is a
status, whether it is JSON, and its fields; an id_token is good, carries another login's nonce
("foreign"), fails verification ("unverified"), or is not a string ("mistyped"). A name may be a
standard one but for its case (`Misspelt`): json.Unmarshal takes it for the standard one, the last
spelling stays (`Parsed`), while the deletes of refresh.go:130-136 look for the exact names only.
The request decides which parser reads it: x/oauth2 (`LibraryAccepts`, external), which finds
id_token and issued_token_type in a map and ignores them if mistyped, or postTokenRequest
(`OwnAccepts`), which refuses the whole response for any mistyped member and keeps the fields it
does not strike off (`Extensions`). `ToResult`, `EntryValid`, `Fatal`, `Keeping` and
`Persisted` are the code's functions; `Document` is the one of each format. A write may come
back short (`WriteFails`).

### LoopbackCallback

Per login: `pc` through AuthCodeLogin, its listener, its redirect, `resultCh` and `got`. Per
connection one handler: `Reject` (another state: 400), `Answer` (the buffered send with its
default). When a handler has returned, its connection is over, or it stays active because its
peer has announced a body and not sent it (`AwaitsBody`, `BodyEnds`): the server has a
ReadHeaderTimeout and no ReadTimeout. `Receive` takes the result and begins Shutdown, which stops
the listener and waits for active connections without a deadline; `TimesOut` is the login's
deadline, after which the connections are closed.
Browsers are an adversary without malice: late, repeated, contradicting and stray requests to
whoever has the port by then.

### GrantSelection, DeviceLogin, InteractiveLogin

GrantSelection draws one of 384 setups (flags, environment, issuer) and follows
Source.Refresh and Source.Login; an attempt has the user's part and the token request, each
with the errors it can produce there (`PossibleErrors`).

DeviceLogin counts minutes from the device authorization: the poll loop's deadline, the
assertion's expiry, the user's answer. `MaxDelay` lets the process be slow between the
response and the mint and at the end of the loop; it bounds the clock. Lifetimes are whole
units: that the claim `exp` is cut to whole seconds on its way is left out.

InteractiveLogin runs the two together: outside a device-code attempt a step is
GrantSelection's (`SelectionStep`), inside one it is DeviceLogin's, and its approval, its success
and each way it fails are the attempt's consent, success and error (`DeviceErrors`). The
composition implements GrantSelection. An attempt with the authorization code is a wait for the
callback (`InBrowser`), whose ends are all possible and none is certain: LoopbackCallback has them.

### ConfigResolution

It maps each setting to what each layer says of it. A variable's switch is on for "1" and
"true" and off for anything else; a value of another type in the config file is passed over
(`HeardEnv`, `HeardFile`); a mistyped flag is an error. Texts, switches, a number, pairs and a
list are there; settings that Parse only passes on behave as one that is. The order among several
errors is left out.

## 3. The runs

| run | instance | distinct states | shows |
|---|---|---|---|
| runner_file | 2 runs (one wants an id_token), 1 logout, flock, 10 answers, 7 prior entries, every fault | 290 953 | exclusion; spent tokens; refresh token kept; IInv; every process ends |
| runner_timed | 3 runs, 3 ticks for the lock and for a refresh, 3 answers, store calls of any length | 241 527 | who gives up on the lock, and that nobody waits for ever; convergence beside those who gave up |
| runner_chain | 2 runs, 1 logout, 2 backends, a keychain that flaps, every fault | 551 891 | where a spent token may stay; that a logout is final, for access tokens too; IInv |
| runner_idtoken | 2 runs, login with and refresh without an id_token | – | a violation, section 6 |
| file_crash | 2 processes, 2 entries, 4 inodes, failing calls, crashes | 209 711 | register, whatever failed Saves leave; immutable inodes |
| chain_both | 2 processes, 2 entries, failing backends, crashes, a keychain that flaps | 662 778 | register but in a flap and the calls it cuts in two; a logout that reports success has emptied what it reached |
| chain_provider | 1 process, keychain comes and goes | – | a violation, section 6 |
| output_formats | one user, every command line (grant, authentication, format, token type), 226 responses | 154 864 | where an unverified id_token can reach; printed is stored; zero means a token |
| callback_port | 2 logins, 1 port, 2 connections | 193 456 | whose answer, which one, when the port is free; every login ends unless a peer stalls |
| login | 384 setups, 9 expiries around the cap, any minute of answer | 202 015 | no login for nothing; only reachable users; a barred client tries every grant; the assertion lasts with the code; only the wait for a callback may last |
| device_assertion | the same | – | a violation, section 6 |
| config_layers | 38 205 invocations | 96 194 | mistyped values are silent; flags and secret files shadow the rest; commands fit together |

Bounds. Two runs and a logout are the smallest instance in which a run can wait, find the entry
changed, and meet both an unlocked delete and an unlocked login save; the theorems remove the
bound. The IdP's tokens need no bound: a process refreshes at most once. Three runs queue in
runner_timed, so that the last finds the renewal of a renewal and gives up when two shares of the
wait went to the others; three ticks leave room for a section of none, one or two. In
runner_chain the two backends start with different refresh tokens, as they do after any two
logins. Four inodes hold one stored file, two temporary ones and one orphan of a crash or of a
removal that failed; with more orphans, creating a temporary file fails, as on a full disk. Two
connections are enough to overfill the channel: a first answer is read, one that was accepted
before fills it again, the other finds it full. The responses of output_formats have every kind
of id_token, mistyped ones too, with every kind of lifetime and refresh token, every combination
with issued_token_type and an extension field named expiry, every two id_tokens under both
spellings in either order, and id_tokens in failing or unreadable responses. In login the
expiries lie at 0, around the assertion's 5 minutes, and around the cap of 15. In config_layers
only settings that bear on each other vary together, all their values in all three layers.

Symmetry is used for process and value sets in runs without liveness (file_crash,
chain_both, runner_chain), never with EveryInvocationEnds, WaitersMoveOn or EveryLoginEnds.
Deadlock is checked everywhere: where the system may stop there is an explicit self-loop for
the end.

Fairness. TokenRunner's FairSpec has weak fairness on each live process's own steps, since
the operating system runs it and every wait for the network has a timeout (refreshTimeout,
the grants' timeouts). It demands neither a lock timeout (`LockFails`) nor a crash, so the
progress shown does not come from giving up. TimedFairSpec is weaker where it matters: time
passes, a waiter polls, a request ends by its timeout, and nothing says that the holder ever
leaves the section. LoopbackCallback's FairSpec has weak fairness for the login's goroutine,
its deadline and the handlers, which the Go runtime schedules and which wait for nothing; no
browser has to do anything, and no peer has to send the body it announced. So
EveryLoginEnds has an exception: a login that has its answer may wait in Shutdown for such a
connection for ever, and for nothing else. LoginFairSpec has fairness for the process and the
clock: no user has to answer, no request has to fail, and nothing ends the wait for a callback;
its EveryLoginEnds says that everything else ends, LoopbackCallback's when that wait does.

Of ConcurrentRunsConverge, runner_timed checks that nobody fails; "lock" being a fault there, that
nobody logs in is the theorem's alone (Convergence). runner_file has the file backend; that a
spent token does not stay in a keychain without a lock, if the issuer always rotates, is again the
theorem's (SpentTokens).

## 4. The theorems

All are about `Spec` (`LoginSpec` for InteractiveLogin, `TimedSpec` for TimedRunner) without
fairness, any number of processes, and only the ASSUMEs of the modules unless stated.

**TokenRunnerProofs.** TypeCorrect, MutualExclusion, InductiveInvariant, SpentTokens,
Convergence, RefreshKeepsRefreshToken. The hard one is SpentTokens: a spent token is stored
only while the run that spent it is about to save the successor, or when that successor was
lost. It is not inductive: one needs to know that the successor is known to nobody else
(NewTokenIsPrivate), which needs that the numbers in circulation are issued ones (TokensInv);
that whoever keeps the token it sent was not overtaken (KeptTokenInv), which needs the lock
(LockInv), or an issuer that always rotates (RotatingOnlyInv). That alternative covers the
keychain store, which has no lock between processes. Each conjunct has its own step
lemma with one case per action. Convergence adds ConvergeInv: in an instance undisturbed but
for lock waits that time out, the section always sends a live token, so no refresh is
refused. OnlyFaultsLoseTokens names all the ways to lose a token: without a crash, an
abandoned refresh, a failed save and a fatal id_token, a spent one is stored only until its
successor is, however logins, logouts, lock waits and refusals meet.

The same module has the theorems about TimedSpec. TimedImplementsRunner: the runner in time is
the runner, so that its theorems hold there too (TimedConvergence). GivingUpIsSlow: for any
finite number of processes and any timeouts, a run gives up on the lock only when another one
was inside for its share of the wait. TimedInvariant carries it, by WaitInv: nobody has waited
longer than the sections of the processes that are past theirs (`Past`), each at most the
`slowest`, and what the present holder has used. A process is inside once (StepPlaces), so it
joins `Past` when it unlocks and its time is accounted for; a tick adds one to both sides,
because the clock does not move while a free lock is wanted.

**RunnerOverChainProofs.** ChainInvariant, and from it LogoutsAreFinal and
SpentTokensAreReplaced. LogoutIsFinal needs to know where tokens travel: no process at rest holds
one (IdleInv), since the logout none that is older than `cutoff` is in a backend, in a run's
hands or in its result (FreshInv), and until the IdP answers a run again, both backends are empty
and no run is past the login it then needs (ClearedInv). SpentTokenOnlyAfterStraddling needs the
invariants of TokenRunner for two backends at once: a new token is in neither (StoredInv); the
backends share none, and what a run renews is not in the other one (SeparateInv), which a
keychain that comes or goes under the run would break and is why `straddled` is there. StepMoves
sorts all of TokenRunner's actions into six kinds by what they do to the tokens (Proceeds,
GivesUp, IsGranted, Adopts, LogsIn, Saves); each conjunct then has a step lemma over the kinds.
The one assumption on what lies in the backends at first is that of TokenRunner: an earlier
invocation's refresh token is number 1, or there is none.

**FileStoreProofs.** InodesAreImmutable (nobody writes to an inode a Load can reach),
FileStoreImplementsRegister (step by step: every system call maps to a step of ProfileStore or
to a stutter).

**ChainStoreProofs.** FileOnlyInItsPlace, ChainStoreImplementsRegister (whatever the keychain
does, see section 2) and LogoutClears. The invariant says which calls a flap can cut in two,
those between their two backends; any other call at the file found the keychain unavailable,
and it still is. For LogoutClears it also says what half a Delete has achieved (HalfDeletedInv):
unless an error is noted, the keychain is empty, was unavailable, or has been saved to since.

**TokenOutputProofs.** OutputInvariant, and from it UnverifiedIDTokensStayOut,
PrintedCredentialsAreStored and ZeroComesWithAToken, for any set of responses and any misspelt
names. The invariant adds that no extension field has the name of a standard one, that only a
misspelt one holds an unverified id_token, and that what waits to be printed has an access token
or an id_token. The assumption on responses (AnswerAssumption) is that a token that cannot be
verified comes as an id_token, under any spelling of that name, and that the last spelling is one
that is there.

**LoopbackCallbackProofs.** CallbackInvariant (a listener belongs to a login that is bound or
waiting and has that port in its redirect; what is in the channel is the first answer, and
to this login), and from it AnswersStayApart, FirstAnswer and PortsAreGivenBack, for any
number of logins, ports and connections.

**InteractiveLoginProofs.** SelectionInvariant is about GrantSelection by itself: at every step
of Source.Login the provider, the plan, the attempts made and the errors kept agree.
LoginImplementsSelection goes by steps; through it the three properties of grant selection hold
with the device code in full (LoginAsksOnce, LoginReachesTheUser, LoginTriesEveryGrant).
PartsStayInStep: the two parts of the composition agree about the
prompt and the consent; it needs that the token request of a grant follows its consent.
AssertionLasts is for every expires_in up to the cap, with every bound and delay.

**ConfigResolutionProofs.** CommandsAreTyped, MistypedValuesHideNothing, FlagsWin,
SecretFilesWin, AcceptedCommandsFitTogether: for any invocations, whatever each layer says of each
setting of the module.
Precedence says what the four layers come to, one lemma per kind of setting what Finalize adds;
two invocations that resolve to the same settings are the same command (SameCommand), which
makes each property one about the resolution of single settings. The invariant is that a
command on its way was accepted from its invocation.

Only model-checked: liveness, which the proof system does not reach under fairness
(EveryInvocationEnds, WaitersMoveOn, EveryLoginEnds of both logins). Every other property of a
passing run is a theorem.

## 5. What is not modelled

- Wording, usage layout, hints and warnings; the encoding of requests and documents.
- `OpenBrowser`: one process per platform, a failure of which is only a warning.
- The environment probing of `DetectEnvironment`: its two answers are inputs.
- The issuer's discovery document beyond what plan reads; TLS, HTTP limits.
- x/oauth2 beyond what this code relies on: form-encoded answers, and an `_extensions` member of
  its own response, which would reach the document as if it were the extension fields
  (`token.go:32`, `output.go:85`).
- Which of its two refusals (issuer, environment) a plan without a grant reports is in the model
  (`PlanFails`), but no property is about it. Without S256 the environment may be blamed where
  the attempt would fail anywhere.
- The request to the GitHub OIDC endpoint: it is one possible failure. The `Execute` methods of
  `internal/grant`, which nothing calls.
- Settings that are only passed on to a request.
- `internal/oidctest` and `e2e`: fixtures.

## 6. Where documents and code differ

Shown by a run:

- `keychain.go:49` counts a missing Secret Service provider among the reasons to fall back;
  `isUnavailable` does not recognise that error, so the default store fails (chain_provider).
- `runner.go:52` promises to stop at the first step that yields a usable token; a renewed
  entry without an id_token fails a `--token-type=id_token` run that a login would serve
  (runner_idtoken).
- `device.go:85` says the assertion must outlive the poll loop; without expires_in it lasts 5
  of 15 minutes, and with a longer one it ends at the cap (device_assertion).

Met while modelling, without a run of their own:

- A logout that cannot reach the keychain deletes the file entry and reports success; the
  keychain entry is served again later. `chain.go:85` says "every backend in the chain,
  best-effort". LogoutClearsWhatItReached states what does hold.
- A key of the config file's `extra` replaces the same key of `--extra`, against "Flags always
  win" (`config.go:182`). FlagsShadowEnvAndFile excludes it.
- The help of `--non-interactive` (`config.go:227`) says it disables browser prompts; the README
  and `plan` allow the browser.
- `--logout` (`README.md:108`) clears the entry and exits; with `--grant-type=token-exchange` the
  exchange is performed instead.
- An exported `OIDC_TOKEN_SUBJECT_TOKEN` makes every login and logout fail, since
  ValidateNotSelected looks at merged values, not at flags (`grant.go:52`).
- `main.go:151` says a write failure must never leave a partial token on stdout. The document is
  built first, but the one write of it may still be cut short, by a full disk say; `WriteFails`
  has both outcomes.
- A JSON run served from the cache has neither `issued_token_type` nor the extension fields that
  the run which stored the entry printed: an entry has no place for them.
- An extension field named `expiry` replaces the document's own (`output.go:85`).
- `output.go:36` calls the extension fields of a response non-standard. Of a response with an
  id_token under another case, `ID_Token` say, that postTokenRequest reads, json.Unmarshal takes
  it for the id_token (`refresh.go:121`), the deletes by exact name miss it
  (`refresh.go:130-136`), and it is an extension field of the JSON document, verified or not.
  UnverifiedOnlyMisspelt says that this is the only way.
- A quoted `expires_in` is read by x/oauth2 and refused by postTokenRequest (`refresh.go:122`),
  after the issuer has rotated the refresh token; so is an id_token or issued_token_type that is
  not a string, which x/oauth2 and toResult ignore. A lifetime beyond 292 years overflows there
  (`refresh.go:157`), while x/oauth2 caps it.
- `authcode.go:19` gives a login its deadline "so this can never hang forever". It ends the wait
  for an answer; after one, `srv.Shutdown(context.Background())` (`callback.go:76`) waits for
  active connections without any, and the server limits the reading of headers only
  (`callback.go:71`): a local peer that announces a body and does not send it holds the login up.
  EveryLoginEnds names that exception.
- The temporary file of a failed Save holds the tokens; its removal is best effort
  (`cache.go:124-130`), and a crash leaves it too: nothing ever clears such files away.
- A token exchange whose id_token cannot be verified prints the rest without the warning a run
  gives (`main.go:106-118`, `runner.go:182`).
- The cache key is issuer and client_id (`tokenexchange.go:17` says so, to explain why exchanges
  are not cached): a login with another `--audience` or `--scope` is served the entry of the
  first.
- An issuer without S256 fails the authorization-code attempt with an error of its own, and the
  device grant is not tried (`authcode.go:37`).
- A switch's variable set to "yes" or "TRUE" means no (`binding.go:87`).

## 7. The plan

Done, in this order, the most important first: TokenRunner and its proofs; the stores and
their refinements; LoopbackCallback and its proofs; GrantSelection; DeviceLogin;
ConfigResolution; then the runner over the flapping chain, the runner in time, the login with
the device code in full, the output, and their proofs.

Then the proofs: the runner over the flapping chain with both backends, the bound on the wait for
the lock, the configuration, the parts of the login.

Next: LoopbackCallback as the detail of InteractiveLogin's authorization-code attempt, with the
errors of its ends (a failed bind, a deadline, a refused answer) as that attempt's errors.
