----------------------------- MODULE FileStore ------------------------------
(***************************************************************************)
(* The file backend, cache.Cache, for one profile: Save writes a temporary *)
(* file and renames it over the profile's file, Load reads that file,      *)
(* Delete unlinks it.  Processes interleave between any two system calls   *)
(* and may die there.  A file's bytes belong to its inode, so a reader     *)
(* that opened the file before a rename or an unlink reads the old inode.  *)
(***************************************************************************)
EXTENDS Naturals, FiniteSets

CONSTANTS
    Procs,    \* processes using the profile's file
    Values,   \* the entries that may be saved
    NoEntry,  \* ok = false: no file
    Nothing,  \* no answer, or an error
    Inodes,   \* inodes of the file system; a free one is used again
    NoFile,   \* no inode
    Partial,  \* an inode that does not hold a whole entry yet
    Faults    \* subset of {"io", "crash"}

ASSUME FileAssumption ==
    /\ NoFile \notin Inodes
    /\ {NoEntry, Nothing, Partial} \cap Values = {}
    /\ NoEntry # Nothing /\ NoEntry # Partial /\ Nothing # Partial
    /\ Faults \subseteq {"io", "crash"}
    /\ Values # {}

VARIABLES
    dest,    \* the inode at path(issuer, clientID)
    temps,   \* the inodes in the directory under temporary names
    data,    \* the bytes of each inode
    pc,      \* where each process is
    arg,     \* the entry it saves
    tmp,     \* its temporary file
    handle,  \* the inode it has open for reading
    result   \* what its last Load returned

vars == <<dest, temps, data, pc, arg, tmp, handle, result>>

Saving == {"create", "write", "chmod", "rename"}
Control == {"idle", "reading", "unlink", "dead"} \cup Saving

InUse == temps \cup {dest} \cup {tmp[p] : p \in Procs} \cup {handle[p] : p \in Procs}

Init ==
    /\ dest \in Inodes \cup {NoFile}
    /\ temps = {}
    /\ data \in [Inodes -> Values \cup {Partial}]
    /\ \A i \in Inodes : data[i] = Partial <=> i # dest
    /\ pc = [p \in Procs |-> "idle"]
    /\ arg = [p \in Procs |-> Nothing]
    /\ tmp = [p \in Procs |-> NoFile]
    /\ handle = [p \in Procs |-> NoFile]
    /\ result = [p \in Procs |-> Nothing]

Goto(p, l) == pc' = [pc EXCEPT ![p] = l]

(***************************************************************************)
(* Save                                                                    *)
(***************************************************************************)

SaveBegins(p, v) ==
    /\ pc[p] = "idle"
    /\ arg' = [arg EXCEPT ![p] = v]
    /\ Goto(p, "create")
    /\ UNCHANGED <<dest, temps, data, tmp, handle, result>>

\* Mutant of CreateTemp: the profile's own file is opened and truncated.
CreateInPlace(p) ==
    /\ pc[p] = "create"
    /\ \E i \in Inodes :
         /\ i = dest \/ (dest = NoFile /\ i \notin InUse)
         /\ dest' = i
         /\ data' = [data EXCEPT ![i] = Partial]
         /\ tmp' = [tmp EXCEPT ![p] = i]
    /\ Goto(p, "write")
    /\ UNCHANGED <<temps, arg, handle, result>>

CreateTemp(p) ==
    /\ pc[p] = "create"
    /\ \E i \in Inodes \ InUse :
         /\ temps' = temps \cup {i}
         /\ data' = [data EXCEPT ![i] = Partial]
         /\ tmp' = [tmp EXCEPT ![p] = i]
    /\ Goto(p, "write")
    /\ UNCHANGED <<dest, arg, handle, result>>

\* Mutant of WriteTemp: the rename does not wait for the write.
WriteLater(p) ==
    /\ pc[p] = "write"
    /\ Goto(p, "chmod")
    /\ UNCHANGED <<dest, temps, data, arg, tmp, handle, result>>

WriteTemp(p) ==
    /\ pc[p] = "write"
    /\ data' = [data EXCEPT ![tmp[p]] = arg[p]]
    /\ Goto(p, "chmod")
    /\ UNCHANGED <<dest, temps, arg, tmp, handle, result>>

\* Close and chmod, before the file gets its final name.
Chmod(p) ==
    /\ pc[p] = "chmod"
    /\ Goto(p, "rename")
    /\ UNCHANGED <<dest, temps, data, arg, tmp, handle, result>>

Rename(p) ==
    /\ pc[p] = "rename"
    /\ dest' = tmp[p]
    /\ temps' = temps \ {tmp[p]}
    /\ tmp' = [tmp EXCEPT ![p] = NoFile]
    /\ Goto(p, "idle")
    /\ UNCHANGED <<data, arg, handle, result>>

\* Any failing call returns through the deferred removal of the temporary file, whose
\* own failure is ignored: the file may stay.
SaveFails(p) ==
    /\ "io" \in Faults
    /\ pc[p] \in Saving
    /\ temps' \in {temps, temps \ {tmp[p]}}
    /\ tmp' = [tmp EXCEPT ![p] = NoFile]
    /\ Goto(p, "idle")
    /\ UNCHANGED <<dest, data, arg, handle, result>>

(***************************************************************************)
(* Load and Delete                                                         *)
(***************************************************************************)

LoadMisses(p) ==
    /\ pc[p] = "idle"
    /\ dest = NoFile
    /\ result' = [result EXCEPT ![p] = NoEntry]
    /\ UNCHANGED <<dest, temps, data, pc, arg, tmp, handle>>

LoadOpens(p) ==
    /\ pc[p] = "idle"
    /\ dest # NoFile
    /\ handle' = [handle EXCEPT ![p] = dest]
    /\ Goto(p, "reading")
    /\ UNCHANGED <<dest, temps, data, arg, tmp, result>>

\* A file that does not hold a whole entry does not parse, and is a miss.
LoadReads(p) ==
    /\ pc[p] = "reading"
    /\ result' = [result EXCEPT ![p] =
                    IF data[handle[p]] = Partial THEN NoEntry ELSE data[handle[p]]]
    /\ handle' = [handle EXCEPT ![p] = NoFile]
    /\ Goto(p, "idle")
    /\ UNCHANGED <<dest, temps, data, arg, tmp>>

LoadFails(p) ==
    /\ "io" \in Faults
    /\ pc[p] \in {"idle", "reading"}
    /\ result' = [result EXCEPT ![p] = Nothing]
    /\ handle' = [handle EXCEPT ![p] = NoFile]
    /\ Goto(p, "idle")
    /\ UNCHANGED <<dest, temps, data, arg, tmp>>

DeleteBegins(p) ==
    /\ pc[p] = "idle"
    /\ arg' = [arg EXCEPT ![p] = NoEntry]
    /\ Goto(p, "unlink")
    /\ UNCHANGED <<dest, temps, data, tmp, handle, result>>

\* An absent file is not an error.
Delete(p) ==
    /\ pc[p] = "unlink"
    /\ dest' = NoFile
    /\ Goto(p, "idle")
    /\ UNCHANGED <<temps, data, arg, tmp, handle, result>>

DeleteFails(p) ==
    /\ "io" \in Faults
    /\ pc[p] = "unlink"
    /\ Goto(p, "idle")
    /\ UNCHANGED <<dest, temps, data, arg, tmp, handle, result>>

(***************************************************************************)
(* Process death, and the next invocation in its place                     *)
(***************************************************************************)

Crash(p) ==
    /\ "crash" \in Faults
    /\ pc[p] # "dead"
    /\ tmp' = [tmp EXCEPT ![p] = NoFile]
    /\ handle' = [handle EXCEPT ![p] = NoFile]
    /\ result' = [result EXCEPT ![p] = Nothing]
    /\ Goto(p, "dead")
    /\ UNCHANGED <<dest, temps, data, arg>>

Restart(p) ==
    /\ pc[p] = "dead"
    /\ Goto(p, "idle")
    /\ UNCHANGED <<dest, temps, data, arg, tmp, handle, result>>

Next == \E p \in Procs :
          \/ \E v \in Values : SaveBegins(p, v)
          \/ CreateTemp(p) \/ WriteTemp(p) \/ Chmod(p) \/ Rename(p)
          \/ SaveFails(p) \/ LoadMisses(p) \/ LoadOpens(p) \/ LoadReads(p)
          \/ LoadFails(p) \/ DeleteBegins(p) \/ Delete(p) \/ DeleteFails(p)
          \/ Crash(p) \/ Restart(p)

Spec == Init /\ [][Next]_vars

(***************************************************************************)
(* Properties                                                              *)
(***************************************************************************)

TypeOK ==
    /\ dest \in Inodes \cup {NoFile}
    /\ temps \subseteq Inodes
    /\ data \in [Inodes -> Values \cup {Partial}]
    /\ pc \in [Procs -> Control]
    /\ arg \in [Procs -> Values \cup {NoEntry, Nothing}]
    /\ tmp \in [Procs -> Inodes \cup {NoFile}]
    /\ handle \in [Procs -> Inodes \cup {NoFile}]
    /\ result \in [Procs -> Values \cup {NoEntry, Nothing}]

\* The content behind an inode as a Load would report it.
Content(i) == IF i = NoFile \/ data[i] = Partial THEN NoEntry ELSE data[i]

\* A Load takes effect when it opens the file.
Register == INSTANCE ProfileStore WITH
    stored <- Content(dest),
    asked <- [p \in Procs |-> IF pc[p] \in Saving \cup {"unlink"} THEN arg[p]
                              ELSE Nothing],
    got <- [p \in Procs |-> IF pc[p] = "reading" THEN Content(handle[p])
                            ELSE result[p]]

\* The file backend is one register: no Load, whatever it overlaps with, sees a
\* partly written entry, an entry that was never saved, or a miss during a
\* replacement; no crash and no failed Save changes what is stored (Save's
\* "a crash never leaves a partially written cache file").
ImplementsProfileStore == Register!Spec

(***************************************************************************)
(* The inductive invariant of FileStoreProofs                              *)
(***************************************************************************)

\* Nobody writes to an inode that a Load can reach.
InodeInv ==
    /\ dest \notin temps
    /\ dest # NoFile => data[dest] # Partial
    /\ \A p \in Procs :
         /\ pc[p] = "reading" => /\ handle[p] # NoFile
                                 /\ data[handle[p]] # Partial
         /\ pc[p] \in {"write", "chmod", "rename"} =>
              /\ tmp[p] \in temps /\ tmp[p] # dest
              /\ \A q \in Procs : handle[q] # tmp[p] /\ (tmp[q] = tmp[p] => p = q)
         /\ pc[p] \in {"chmod", "rename"} => data[tmp[p]] = arg[p]
         /\ pc[p] \in Saving => arg[p] \in Values
         /\ pc[p] = "unlink" => arg[p] = NoEntry
         /\ pc[p] \notin {"write", "chmod", "rename"} => tmp[p] = NoFile
         /\ pc[p] # "reading" => handle[p] = NoFile
    /\ \A p \in Procs : handle[p] \notin temps

IInv == TypeOK /\ InodeInv

=============================================================================
