----------------------------- MODULE ChainStore -----------------------------
(***************************************************************************)
(* The default store, --token-store=auto: cache.ChainStore over the OS     *)
(* keychain and the file backend, for one profile.  A backend call is one  *)
(* step (FileStore shows that of the file backend to be one); the chain    *)
(* makes up to two of them, and the keychain may come and go in between.   *)
(***************************************************************************)
CONSTANTS
    Procs,    \* processes using the profile
    Values,   \* the entries that may be saved
    NoEntry,  \* ok = false
    Nothing,  \* no answer, or an error
    Faults    \* subset of {"flap", "keychain", "file", "crash"}

ASSUME ChainAssumption ==
    /\ NoEntry \notin Values /\ Nothing \notin Values /\ NoEntry # Nothing
    /\ Faults \subseteq {"flap", "keychain", "file", "crash"}

VARIABLES
    keychain,  \* the profile's keychain item
    file,      \* the profile's file
    daemon,    \* "reachable"; "absent" if go-keyring cannot even try (no platform,
               \* no binary to run); "silent" if the session bus answers but
               \* nobody provides the Secret Service
    pc,        \* where each process is
    arg,       \* the entry it saves
    firstErr,  \* the firstErr of its Delete is set
    got,       \* what its last Load returned
    loggedOut, \* the processes whose last Delete returned nil
    saved,     \* history: those since whose last Delete began somebody has saved
    missed,    \* history: of the others, those whose last Delete found the keychain
               \* unavailable
    torn       \* history: the processes under whose call the keychain came or went,
               \* after the call had tried it and before it gets to the file

logouts == <<loggedOut, saved, missed>>

vars == <<keychain, file, daemon, pc, arg, firstErr, got, logouts, torn>>

Contents == Values \cup {NoEntry}

Daemons == {"reachable", "absent", "silent"}

Control == {"idle", "load2", "save", "save2", "delete", "delete2", "dead"}

Init ==
    /\ keychain \in Contents
    /\ file \in Contents
    /\ daemon \in Daemons
    /\ pc = [p \in Procs |-> "idle"]
    /\ arg = [p \in Procs |-> Nothing]
    /\ firstErr = [p \in Procs |-> FALSE]
    /\ got = [p \in Procs |-> Nothing]
    /\ loggedOut = {} /\ saved = {} /\ missed = {}
    /\ torn = {}

Goto(p, l) == pc' = [pc EXCEPT ![p] = l]

Returns(p, g) == /\ got' = [got EXCEPT ![p] = g]
                 /\ Goto(p, "idle")

\* isUnavailable: the errors that become ErrBackendUnavailable.
Unavailable == daemon = "absent"

\* An error of another kind.
KeychainFails == daemon = "silent" \/ (daemon = "reachable" /\ "keychain" \in Faults)

(***************************************************************************)
(* Load                                                                    *)
(***************************************************************************)

\* Mutant of LoadKeychain: a plain miss is looked up in the file.
LoadKeychainOnHit(p) ==
    /\ pc[p] = "idle" /\ daemon = "reachable"
    /\ IF keychain = NoEntry THEN Goto(p, "load2") /\ UNCHANGED got
                             ELSE Returns(p, keychain)
    /\ UNCHANGED <<keychain, file, daemon, arg, firstErr, logouts>>

LoadKeychain(p) ==
    /\ pc[p] = "idle" /\ daemon = "reachable"
    /\ Returns(p, keychain)
    /\ UNCHANGED <<keychain, file, daemon, arg, firstErr, logouts>>

LoadUnavailable(p) ==
    /\ pc[p] = "idle" /\ Unavailable
    /\ Goto(p, "load2")
    /\ UNCHANGED <<keychain, file, daemon, arg, firstErr, got, logouts>>

LoadFile(p) ==
    /\ pc[p] = "load2"
    /\ Returns(p, file)
    /\ UNCHANGED <<keychain, file, daemon, arg, firstErr, logouts>>

\* Mutant of LoadFails: any keychain error falls back to the file.
LoadFailsOver(p) ==
    /\ pc[p] = "idle" /\ KeychainFails
    /\ Goto(p, "load2")
    /\ UNCHANGED <<keychain, file, daemon, arg, firstErr, got, logouts>>

\* Any other error of a backend is Load's error.
LoadFails(p) ==
    /\ \/ pc[p] = "idle" /\ KeychainFails
       \/ pc[p] = "load2" /\ "file" \in Faults
    /\ Returns(p, Nothing)
    /\ UNCHANGED <<keychain, file, daemon, arg, firstErr, logouts>>

(***************************************************************************)
(* Save                                                                    *)
(***************************************************************************)

SaveBegins(p, v) ==
    /\ pc[p] = "idle"
    /\ arg' = [arg EXCEPT ![p] = v]
    /\ Goto(p, "save")
    /\ UNCHANGED <<keychain, file, daemon, firstErr, got, logouts>>

SaveKeychain(p) ==
    /\ pc[p] = "save" /\ daemon = "reachable"
    /\ keychain' = arg[p]
    /\ saved' = Procs /\ missed' = {}
    /\ Goto(p, "idle")
    /\ UNCHANGED <<file, daemon, arg, firstErr, got, loggedOut>>

SaveUnavailable(p) ==
    /\ pc[p] = "save" /\ Unavailable
    /\ Goto(p, "save2")
    /\ UNCHANGED <<keychain, file, daemon, arg, firstErr, got, logouts>>

SaveFile(p) ==
    /\ pc[p] = "save2"
    /\ file' = arg[p]
    /\ saved' = Procs /\ missed' = {}
    /\ Goto(p, "idle")
    /\ UNCHANGED <<keychain, daemon, arg, firstErr, got, loggedOut>>

SaveFails(p) ==
    /\ \/ pc[p] = "save" /\ KeychainFails
       \/ pc[p] = "save2" /\ "file" \in Faults
    /\ Goto(p, "idle")
    /\ UNCHANGED <<keychain, file, daemon, arg, firstErr, got, logouts>>

(***************************************************************************)
(* Delete: every backend is tried, an unavailable one is not an error      *)
(***************************************************************************)

DeleteBegins(p) ==
    /\ pc[p] = "idle"
    /\ loggedOut' = loggedOut \ {p}
    /\ saved' = saved \ {p}
    /\ missed' = missed \ {p}
    /\ Goto(p, "delete")
    /\ UNCHANGED <<keychain, file, daemon, arg, firstErr, got>>

DeleteKeychain(p) ==
    /\ pc[p] = "delete" /\ daemon = "reachable"
    /\ keychain' = NoEntry
    /\ Goto(p, "delete2")
    /\ UNCHANGED <<file, daemon, arg, firstErr, got, logouts>>

DeleteUnavailable(p) ==
    /\ pc[p] = "delete" /\ Unavailable
    /\ missed' = missed \cup ({p} \ saved)
    /\ Goto(p, "delete2")
    /\ UNCHANGED <<keychain, file, daemon, arg, firstErr, got, loggedOut, saved>>

\* Mutant of DeleteKeychainFails: the error does not outlive the next backend.
DeleteKeychainForgets(p) ==
    /\ pc[p] = "delete" /\ KeychainFails
    /\ Goto(p, "delete2")
    /\ UNCHANGED <<keychain, file, daemon, arg, firstErr, got, logouts>>

DeleteKeychainFails(p) ==
    /\ pc[p] = "delete" /\ KeychainFails
    /\ firstErr' = [firstErr EXCEPT ![p] = TRUE]
    /\ Goto(p, "delete2")
    /\ UNCHANGED <<keychain, file, daemon, arg, got, logouts>>

\* The end of the loop: Delete returns firstErr.
DeleteFile(p) ==
    /\ pc[p] = "delete2"
    /\ file' = NoEntry
    /\ loggedOut' = IF firstErr[p] THEN loggedOut ELSE loggedOut \cup {p}
    /\ firstErr' = [firstErr EXCEPT ![p] = FALSE]
    /\ Goto(p, "idle")
    /\ UNCHANGED <<keychain, daemon, arg, got, saved, missed>>

DeleteFileFails(p) ==
    /\ pc[p] = "delete2" /\ "file" \in Faults
    /\ firstErr' = [firstErr EXCEPT ![p] = FALSE]
    /\ Goto(p, "idle")
    /\ UNCHANGED <<keychain, file, daemon, arg, got, logouts>>

(***************************************************************************)
(* The keychain and the processes come and go                              *)
(***************************************************************************)

\* The processes between their calls of the two backends.
HalfWay == {p \in Procs : pc[p] \in {"load2", "save2", "delete2"}}

Flap ==
    /\ "flap" \in Faults
    /\ daemon' \in Daemons \ {daemon}
    /\ torn' = IF Unavailable' = Unavailable THEN torn ELSE torn \cup HalfWay
    /\ UNCHANGED <<keychain, file, pc, arg, firstErr, got, logouts>>

Crash(p) ==
    /\ "crash" \in Faults
    /\ pc[p] # "dead"
    /\ firstErr' = [firstErr EXCEPT ![p] = FALSE]
    /\ got' = [got EXCEPT ![p] = Nothing]
    /\ Goto(p, "dead")
    /\ UNCHANGED <<keychain, file, daemon, arg, logouts>>

Restart(p) ==
    /\ pc[p] = "dead"
    /\ Goto(p, "idle")
    /\ UNCHANGED <<keychain, file, daemon, arg, firstErr, got, logouts>>

Load(p) == LoadKeychain(p) \/ LoadUnavailable(p) \/ LoadFile(p) \/ LoadFails(p)

Save(p) == \/ \E v \in Values : SaveBegins(p, v)
           \/ SaveKeychain(p) \/ SaveUnavailable(p) \/ SaveFile(p) \/ SaveFails(p)

Delete(p) == DeleteBegins(p) \/ DeleteKeychain(p) \/ DeleteUnavailable(p)
               \/ DeleteKeychainFails(p) \/ DeleteFile(p) \/ DeleteFileFails(p)

Step(p) == Load(p) \/ Save(p) \/ Delete(p) \/ Crash(p) \/ Restart(p)

Next == \/ \E p \in Procs : Step(p) /\ torn' = torn \ {p}
        \/ Flap

Spec == Init /\ [][Next]_vars

(***************************************************************************)
(* Properties                                                              *)
(***************************************************************************)

TypeOK ==
    /\ keychain \in Contents /\ file \in Contents
    /\ daemon \in Daemons
    /\ pc \in [Procs -> Control]
    /\ arg \in [Procs -> Values \cup {Nothing}]
    /\ firstErr \in [Procs -> BOOLEAN]
    /\ got \in [Procs -> Contents \cup {Nothing}]
    /\ loggedOut \subseteq Procs /\ saved \subseteq Procs /\ missed \subseteq Procs
    /\ torn \subseteq Procs

\* The backend that counts.
Current == IF Unavailable THEN file ELSE keychain

\* A write in progress that has not reached the backend that counts.
Asked(p) == IF p \in torn THEN Nothing
            ELSE IF pc[p] \in {"save", "save2"} THEN arg[p]
            ELSE IF pc[p] = "delete" \/ (pc[p] = "delete2" /\ Unavailable) THEN NoEntry
            ELSE Nothing

Register == INSTANCE ProfileStore WITH
    stored <- Current,
    asked <- [p \in Procs |-> Asked(p)]

\* The keychain comes or goes, so that another backend counts, or a call goes on
\* under which it did.
Disturbed == Unavailable' # Unavailable \/ \E p \in torn : pc'[p] # pc[p]

\* Otherwise the chain is one register, however often the keychain has come and gone:
\* a leftover in the other backend is never returned, and no fallback makes a Save
\* or a Delete visible twice or in parts (ChainStore.Load, Save, Delete).
ImplementsProfileStore ==
    Register!Init /\ [][Register!Next \/ Disturbed]_(Register!vars)

\* After a logout that reported success, and until somebody's next Save, the only
\* entry that can come back is a keychain item whose keychain was unavailable: the
\* file is gone even when the keychain answered first, and an error of one backend is
\* not forgotten over the success of the other (ChainStore.Delete's firstErr).
LogoutClearsWhatItReached ==
    \A p \in loggedOut \ saved :
        /\ file = NoEntry
        /\ keychain # NoEntry => p \in missed

\* keychain.go:49: a keychain without a "D-Bus session/Secret Service provider" is
\* unavailable, so a Load falls back to the file and does not fail on it.
NoProviderIsUnavailable ==
    [][\A p \in Procs : LoadFails(p) => pc[p] = "load2" \/ daemon = "reachable"]_vars

(***************************************************************************)
(* The inductive invariant of ChainStoreProofs                             *)
(***************************************************************************)

\* Unless the keychain comes under the call, the file is consulted only in its place.
FallbackInv ==
    /\ torn \subseteq HalfWay
    /\ \A p \in Procs \ torn : pc[p] \in {"load2", "save2"} => Unavailable
    /\ \A p \in Procs : pc[p] \in {"save", "save2"} => arg[p] \in Values

\* Half of a Delete: unless an error is noted, the keychain is empty, was unavailable,
\* or has been saved to since.
HalfDeletedInv ==
    \A p \in Procs :
        /\ pc[p] \in {"delete", "delete2"} => p \notin loggedOut
        /\ pc[p] = "delete2" /\ p \notin saved =>
             firstErr[p] \/ keychain = NoEntry \/ p \in missed

IInv == TypeOK /\ FallbackInv /\ HalfDeletedInv /\ LogoutClearsWhatItReached

=============================================================================
