---------------------------- MODULE RaftStorage -----------------------------
(***************************************************************************)
(* The files of a replica: PersistentVector (the log) and PersistentStore  *)
(* (VotedFor and CurrentTerm), with RaftState::persist and the bootstrap   *)
(* of RaftManager.  A step is one system call that changes a file; all of  *)
(* them run under state_.Mut, one operation at a time.                     *)
(*                                                                         *)
(* A record of the log file takes Width units (sizeof(LogEntry) bytes in   *)
(* the code); a unit names the item it is a part of.  The process may die  *)
(* between any two system calls and in the middle of a write.              *)
(***************************************************************************)
EXTENDS Naturals, Sequences

CONSTANTS
    Item,        \* log entries, as the file holds them (without promise)
    Garbled,     \* a record made of the parts of two
    Vote, NoVote,
    Width        \* units per record

CONSTANTS        \* bounds of the model
    MaxLen,      \* items in the vector
    MaxTerm,
    MaxCrash

ASSUME StorageAssumption ==
    /\ Garbled \notin Item
    /\ NoVote \in Vote
    /\ Width \in Nat \ {0}
    /\ MaxLen \in Nat /\ MaxTerm \in Nat /\ MaxCrash \in Nat

VARIABLES
    vec,             \* the vector in memory
    persistedItems,
    logFile,         \* the units in the log file
    votedFor, currentTerm,
    file, tmpFile,   \* the files of PersistentStore, by key: <<value>>, or
                     \* <<>> if there is none
    op,              \* idle, or the operation in progress
    written, key,    \* and how far it is: items in the file, key to store
    crashes,
    torn             \* history: a crash left a part of a record in the file

logVars   == <<vec, persistedItems, logFile>>
storeVars == <<votedFor, currentTerm, file, tmpFile>>
opVars    == <<op, written, key>>
vars      == <<logVars, storeVars, opVars, crashes, torn>>

Key == {"VotedFor", "CurrentTerm"}

\* The units of a record, the record that units make up, and the records of a
\* file: what does not fill a record at the end is left out.
Units(item) == [k \in 1..Width |-> <<item, k>>]

Record(units) == IF \E item \in Item : units = Units(item)
                 THEN CHOOSE item \in Item : units = Units(item)
                 ELSE Garbled

Records(units) ==
    [i \in 1..(Len(units) \div Width) |-> Record(SubSeq(units, (i - 1) * Width + 1, i * Width))]

\* Mutation: the default of load is 0 for every key.
DefaultZero == IF file["VotedFor"] = <<>> THEN 0 ELSE file["VotedFor"][1]

\* What load returns for the two keys.
LoadVotedFor    == IF file["VotedFor"] = <<>> THEN NoVote ELSE file["VotedFor"][1]
LoadCurrentTerm == IF file["CurrentTerm"] = <<>> THEN 0 ELSE file["CurrentTerm"][1]

\* The first start.  Without --bootstrap the log file is truncated and VotedFor
\* and CurrentTerm are saved; with it and without files nothing is.
Init ==
    /\ vec = <<>>
    /\ persistedItems = 0
    /\ logFile = <<>>
    /\ votedFor = NoVote
    /\ currentTerm = 0
    /\ \/ file = [VotedFor |-> <<NoVote>>, CurrentTerm |-> <<0>>]
       \/ file = [k \in Key |-> <<>>]
    /\ tmpFile = [k \in Key |-> <<>>]
    /\ op = "idle"
    /\ written = 0
    /\ key = "VotedFor"
    /\ crashes = 0
    /\ torn = FALSE

-----------------------------------------------------------------------------
\* PersistentVector.

PushBack(item) ==
    /\ op = "idle"
    /\ Len(vec) < MaxLen
    /\ vec' = Append(vec, item)
    /\ UNCHANGED <<persistedItems, logFile, storeVars, opVars, crashes, torn>>

\* Mutation: the items are dropped in memory only.
ResizeMemory(n) ==
    /\ op = "idle"
    /\ n \in 0..Len(vec)
    /\ vec' = SubSeq(vec, 1, n)
    /\ persistedItems' = IF n <= persistedItems THEN n ELSE persistedItems
    /\ UNCHANGED <<logFile, storeVars, opVars, crashes, torn>>

Resize(n) ==
    /\ op = "idle"
    /\ n \in 0..Len(vec)
    /\ vec' = SubSeq(vec, 1, n)
    /\ IF n <= persistedItems
       THEN /\ logFile' = SubSeq(logFile, 1, n * Width)
            /\ persistedItems' = n
       ELSE UNCHANGED <<persistedItems, logFile>>
    /\ UNCHANGED <<storeVars, opVars, crashes, torn>>

\* persist() returns if nothing is new.  Otherwise it writes the items after
\* persistedItems; persistedItems itself moves when all are written.
Persist ==
    /\ op = "idle"
    /\ Len(vec) # persistedItems
    /\ op' = "write"
    /\ written' = persistedItems
    /\ UNCHANGED <<logVars, storeVars, key, crashes, torn>>

WriteItem ==
    /\ op = "write"
    /\ written < Len(vec)
    /\ logFile' = logFile \o Units(vec[written + 1])
    /\ written' = written + 1
    /\ UNCHANGED <<vec, persistedItems, storeVars, op, key, crashes, torn>>

Persisted ==
    /\ op = "write"
    /\ written = Len(vec)
    /\ persistedItems' = Len(vec)
    /\ op' = "idle"
    /\ UNCHANGED <<vec, logFile, storeVars, written, key, crashes, torn>>

-----------------------------------------------------------------------------
\* PersistentStore.

\* Mutation: only CurrentTerm is stored.
BecomeWithoutVote(vote, term) ==
    /\ op = "idle"
    /\ votedFor' = vote
    /\ currentTerm' = term
    /\ op' = "store"
    /\ key' = "CurrentTerm"
    /\ UNCHANGED <<logVars, file, tmpFile, written, crashes, torn>>

\* becomeFollower, becomeCandidate, becomeLeader and RequestVote set the two
\* values and call RaftState::persist, which stores one key after the other.
Become(vote, term) ==
    /\ op = "idle"
    /\ votedFor' = vote
    /\ currentTerm' = term
    /\ op' = "store"
    /\ key' = "VotedFor"
    /\ UNCHANGED <<logVars, file, tmpFile, written, crashes, torn>>

Value(k) == IF k = "VotedFor" THEN votedFor ELSE currentTerm

\* store(key, val) writes a temporary file ...
WriteTmp ==
    /\ op = "store"
    /\ tmpFile' = [tmpFile EXCEPT ![key] = <<Value(key)>>]
    /\ op' = "rename"
    /\ UNCHANGED <<logVars, votedFor, currentTerm, file, written, key, crashes, torn>>

\* ... and renames it.
Rename ==
    /\ op = "rename"
    /\ file' = [file EXCEPT ![key] = tmpFile[key]]
    /\ tmpFile' = [tmpFile EXCEPT ![key] = <<>>]
    /\ \/ key = "VotedFor"    /\ op' = "store" /\ key' = "CurrentTerm"
       \/ key = "CurrentTerm" /\ op' = "idle"  /\ UNCHANGED key
    /\ UNCHANGED <<logVars, votedFor, currentTerm, written, crashes, torn>>

-----------------------------------------------------------------------------
\* bootstrap reads the file into the vector.  Its resize to the same size
\* happens before persistedItems is set, so that it does not touch the file
\* (with no item at all it truncates a descriptor that is not the file's).
Bootstrap(units) ==
    /\ logFile' = units
    /\ vec' = Records(units)
    /\ persistedItems' = Len(vec')
    /\ votedFor' = LoadVotedFor
    /\ currentTerm' = LoadCurrentTerm
    /\ op' = "idle"
    /\ crashes < MaxCrash
    /\ crashes' = crashes + 1
    /\ UNCHANGED <<file, tmpFile, written, key>>

\* The process dies between two system calls and is started with --bootstrap.
Crash == Bootstrap(logFile) /\ UNCHANGED torn

\* The process dies when a part of a record is written.
CrashInWrite ==
    /\ op = "write"
    /\ written < Len(vec)
    /\ \E k \in 1..(Width - 1) : Bootstrap(logFile \o SubSeq(Units(vec[written + 1]), 1, k))
    /\ torn' = TRUE

Next ==
    \/ \E item \in Item : PushBack(item)
    \/ \E n \in 0..MaxLen : Resize(n)
    \/ Persist
    \/ WriteItem
    \/ Persisted
    \/ \E vote \in Vote, term \in {currentTerm, currentTerm + 1} : term <= MaxTerm /\ Become(vote, term)
    \/ WriteTmp
    \/ Rename
    \/ Crash
    \/ CrashInWrite

Spec == Init /\ [][Next]_vars

-----------------------------------------------------------------------------
\* Types of the files and of what is in memory.
TypeOK ==
    /\ vec \in Seq(Item \cup {Garbled})
    /\ persistedItems \in Nat
    /\ logFile \in Seq((Item \cup {Garbled}) \X (1..Width))
    /\ votedFor \in Vote
    /\ currentTerm \in Nat
    /\ DOMAIN file = Key /\ DOMAIN tmpFile = Key
    /\ op \in {"idle", "write", "store", "rename"}
    /\ written \in Nat /\ key \in Key
    /\ crashes \in Nat
    /\ torn \in BOOLEAN

\* persistedItems is the truth: between two operations the file holds exactly
\* the items it counts, whatever was cut, written again or crashed before.  (A
\* part of a record at the end is not cut off by bootstrap, and puts the records
\* written after it out of step.)
PersistedIsOnDisk ==
    op = "idle" /\ ~torn =>
        /\ persistedItems <= Len(vec)
        /\ Len(logFile) = persistedItems * Width
        /\ Records(logFile) = SubSeq(vec, 1, persistedItems)

\* The files are what OhMyRaft takes them for, up to and including the first crash
\* that tears a record: bootstrap then finds every record but the torn one.
Abstract == INSTANCE DurableState WITH
                Term <- 0..MaxTerm, log <- vec, diskLog <- Records(logFile),
                diskVotedFor <- LoadVotedFor, diskCurrentTerm <- LoadCurrentTerm
ImplementsDurableState ==
    /\ Abstract!Init
    /\ [][torn \/ Abstract!Next]_<<Abstract!memory, Abstract!disk>>

\* "Hopefully the below approach works and we won't need atomic temp file write
\* and swap": what bootstrap reads back is made of records that were written.
NothingGarbled == \A i \in DOMAIN vec : vec[i] # Garbled
=============================================================================
