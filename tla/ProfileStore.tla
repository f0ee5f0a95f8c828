---------------------------- MODULE ProfileStore ----------------------------
(***************************************************************************)
(* What cache.Store promises for one (issuer, client_id) profile: a single *)
(* register.  Save replaces it as a whole, Delete empties it, Load returns *)
(* what it holds, and a call may fail without any effect on it.            *)
(***************************************************************************)

CONSTANTS
    Procs,    \* the callers
    Values,   \* the entries that may be saved
    NoEntry,  \* a clean miss
    Nothing   \* the caller has no answer: none asked for, or an error

VARIABLES
    stored,   \* the register
    asked,    \* the write each caller has called for: an entry, or NoEntry
    got       \* what each caller's last Load returned

vars == <<stored, asked, got>>

Contents == Values \cup {NoEntry}

Init == /\ stored \in Contents
        /\ asked = [p \in Procs |-> Nothing]
        /\ got = [p \in Procs |-> Nothing]

\* p calls Save with an entry, or Delete.
Call(p) == /\ asked[p] = Nothing
           /\ \E v \in Contents : asked' = [asked EXCEPT ![p] = v]
           /\ UNCHANGED <<stored, got>>

\* The call takes effect, once, as a whole, before it returns.
Write(p) == /\ asked[p] # Nothing
            /\ stored' = asked[p]
            /\ asked' = [asked EXCEPT ![p] = Nothing]
            /\ UNCHANGED got

Load(p) == /\ asked[p] = Nothing
           /\ got' = [got EXCEPT ![p] = stored]
           /\ UNCHANGED <<stored, asked>>

\* A call fails, or its caller dies.
Drop(p) == /\ asked' = [asked EXCEPT ![p] = Nothing]
           /\ \E g \in {got[p], Nothing} : got' = [got EXCEPT ![p] = g]
           /\ UNCHANGED stored

Next == \E p \in Procs : Call(p) \/ Write(p) \/ Load(p) \/ Drop(p)

Spec == Init /\ [][Next]_vars

=============================================================================
