---------------------------- MODULE DurableState ----------------------------
(***************************************************************************)
(* What OhMyRaft expects of the disk of a replica.  The log is cut and      *)
(* extended on disk entry by entry, VotedFor is saved before CurrentTerm,  *)
(* and a replica that crashes continues with what was on disk: the crash   *)
(* actions of OhMyRaft are these steps with a Crash in between.            *)
(***************************************************************************)
EXTENDS Naturals, Sequences

CONSTANTS Item, Vote, Term

VARIABLES
    log, votedFor, currentTerm,                \* in memory
    diskLog, diskVotedFor, diskCurrentTerm     \* on disk

memory == <<log, votedFor, currentTerm>>
disk   == <<diskLog, diskVotedFor, diskCurrentTerm>>

Init ==
    /\ log = <<>> /\ diskLog = <<>>
    /\ votedFor \in Vote /\ diskVotedFor = votedFor
    /\ currentTerm \in Term /\ diskCurrentTerm = currentTerm

Push ==
    /\ \E item \in Item : log' = Append(log, item)
    /\ UNCHANGED <<votedFor, currentTerm, disk>>

\* Cutting the log cuts what is on disk of it.
Cut ==
    /\ \E n \in 0..Len(log) :
          /\ log' = SubSeq(log, 1, n)
          /\ diskLog' = IF n < Len(diskLog) THEN SubSeq(diskLog, 1, n) ELSE diskLog
    /\ UNCHANGED <<votedFor, currentTerm, diskVotedFor, diskCurrentTerm>>

Write ==
    /\ Len(diskLog) < Len(log)
    /\ diskLog' = Append(diskLog, log[Len(diskLog) + 1])
    /\ UNCHANGED <<memory, diskVotedFor, diskCurrentTerm>>

Vouch ==
    /\ votedFor' \in Vote
    /\ currentTerm' \in Term
    /\ UNCHANGED <<log, disk>>

SaveVotedFor ==
    /\ diskVotedFor' = votedFor
    /\ UNCHANGED <<memory, diskLog, diskCurrentTerm>>

\* The term is saved once the vote is.
SaveCurrentTerm ==
    /\ diskVotedFor = votedFor
    /\ diskCurrentTerm' = currentTerm
    /\ UNCHANGED <<memory, diskLog, diskVotedFor>>

Crash ==
    /\ log' = diskLog
    /\ votedFor' = diskVotedFor
    /\ currentTerm' = diskCurrentTerm
    /\ UNCHANGED disk

Next == Push \/ Cut \/ Write \/ Vouch \/ SaveVotedFor \/ SaveCurrentTerm \/ Crash

Spec == Init /\ [][Next]_<<memory, disk>>
=============================================================================
