------------------------------ MODULE OhMyRaft ------------------------------
(***************************************************************************)
(* The Raft core of one cluster: RaftManager of ohmyraft/OhMyRaft.H on     *)
(* every replica, and the RPC threads between them.                        *)
(*                                                                         *)
(* One action is one critical section of state_.Mut.  The code spawns a    *)
(* detached thread per peer and RPC; such a thread is one element of rpcs  *)
(* and passes through three phases:                                        *)
(*   "spawned"  created by startElection or runLeaderOneIter, its          *)
(*              parameters not yet read from the replica's state,          *)
(*   "request"  sent to the peer, whose handler has not run,               *)
(*   "reply"    answered, the caller has not processed the answer.         *)
(* Threads are independent, so requests and replies overtake each other; a *)
(* failed RPC ends its thread.  Identical threads are one element.         *)
(*                                                                         *)
(* Membership is the fixed ClusterConfig Server, so every candidate is a   *)
(* known peer.  ClusterChange has the membership changes.                  *)
(*                                                                         *)
(* Left out: time (an election timer may expire whenever its replica is a  *)
(* follower), LastKnownLeaderId, and the role Dead, which nothing sets.    *)
(***************************************************************************)
EXTENDS RaftRPC

CONSTANTS
    Server,       \* ids of the replicas: the keys of ClusterConfig
    Op,           \* the operations clients submit, each at most once
    Nil,          \* VotedFor = -1
    InitTerm,     \* CurrentTerm found by bootstrap, per replica
    InitLog       \* log found by bootstrap, per replica

(***************************************************************************)
(* What the environment and the scheduler may do.  All of it can happen to *)
(* the real system; these are parameters because what the code guarantees  *)
(* depends on the three BOOLEANs.                                          *)
(***************************************************************************)
CONSTANTS
    MayStand,       \* the replicas whose election timer may expire
    ForgottenVotes, \* may a replica be asked for its vote in a term in which it
                    \* voted before, its VotedFor having been cleared since?
    Preemption,     \* may the state change while a thread is between reading
                    \* it and acting on what it read?
    StaleReplies,   \* may a thread process an answer after its replica left the
                    \* term of the request?
    Lossy           \* the kinds of RPC that may fail

CONSTANTS        \* bounds of the model
    MaxTerm,     \* no election is started beyond this term
    MaxStragglers, \* RPC threads in progress when a round or an election starts
    MaxCrash     \* crashes in a behaviour

ASSUME ServerAssumption ==
    /\ IsFiniteSet(Server)
    /\ MayStand \subseteq Server
    /\ Nil \notin Server

ASSUME ScheduleAssumption ==
    /\ ForgottenVotes \in BOOLEAN
    /\ Preemption \in BOOLEAN
    /\ StaleReplies \in BOOLEAN
    /\ Lossy \subseteq {"RequestVote", "AppendEntries"}

ASSUME BoundAssumption ==
    /\ MaxTerm \in Nat
    /\ MaxStragglers \in Nat
    /\ MaxCrash \in Nat

Entry == [term : Nat, op : Op]

ASSUME BootstrapAssumption ==
    /\ InitTerm \in [Server -> Nat]
    /\ InitLog \in [Server -> Seq(Entry)]

VARIABLES
    currentTerm, votedFor, log,               \* persistent state
    role, commitIndex, lastApplied,           \* volatile state
    votesReceived,
    nextIndex, matchIndex,                    \* leader state, per peer
    dispatchOut, raftIn, inRound,             \* input of the raft thread
    raftOut,                                  \* operations handed to the executer
    rpcs,                                     \* RPC threads of all replicas
    unsubmitted, crashes,                     \* environment
    voted, elections, committed               \* history: votes given, elections
                                              \* won (by which votes, with which
                                              \* log), what leaders committed

persistentVars == <<currentTerm, votedFor, log>>
leaderVars     == <<nextIndex, matchIndex>>
applyVars      == <<commitIndex, lastApplied, raftOut>>
inputVars      == <<dispatchOut, raftIn, inRound>>
envVars        == <<unsubmitted, crashes>>
historyVars    == <<voted, elections, committed>>
vars == <<persistentVars, role, applyVars, votesReceived,
          leaderVars, inputVars, rpcs, envVars, historyVars>>

Peers(s) == Server \ {s}
Term     == Nat
Index    == Nat \cup {-1}

\* matchCount * 2 > ClusterConfig.size()
IsMajority(n) == 2 * n > Cardinality(Server)

-----------------------------------------------------------------------------
\* The records of rpcs, by phase and kind.
Threads(phase, kind) == {r \in rpcs : r.phase = phase /\ r.kind = kind}

\* Without Preemption a round and the reads of the threads it spawns are over
\* before anything else happens.
Settled ==
    \/ Preemption
    \/ /\ \A s \in Server : ~inRound[s]
       /\ \A r \in rpcs : r.phase # "spawned"

\* Without StaleReplies an answer that outlives the term it was asked for in is
\* lost.
Timely(r) == StaleReplies \/ r.term = currentTerm[r.from]

\* A vote, and who voted for c in a term.
Vote(s, term, c) == [voter |-> s, term |-> term, candidate |-> c]
Voters(c, term)  == {s \in Server : Vote(s, term, c) \in voted}

\* The votes that s gave in a term, and the request r asks a replica for a vote
\* that it gave to another one and does not remember.
VotesOf(s, term) == {v \in voted : v.voter = s /\ v.term = term}
Forgotten(r) ==
    /\ currentTerm[r.to] = r.term
    /\ votedFor[r.to] = Nil
    /\ \E v \in VotesOf(r.to, r.term) : v.candidate # r.from

-----------------------------------------------------------------------------
Init ==
    /\ currentTerm = InitTerm
    /\ votedFor = [s \in Server |-> Nil]
    /\ log = InitLog
    /\ role = [s \in Server |-> "Follower"]
    /\ commitIndex = [s \in Server |-> -1]
    /\ lastApplied = [s \in Server |-> -1]
    /\ votesReceived = [s \in Server |-> 0]
    /\ nextIndex = [s \in Server |-> [p \in Peers(s) |-> 0]]
    /\ matchIndex = [s \in Server |-> [p \in Peers(s) |-> -1]]
    /\ dispatchOut = [s \in Server |-> <<>>]
    /\ raftIn = [s \in Server |-> <<>>]
    /\ inRound = [s \in Server |-> FALSE]
    /\ raftOut = [s \in Server |-> <<>>]
    /\ rpcs = {}
    /\ unsubmitted = {op \in Op : \A s \in Server : \A i \in DOMAIN log[s] : log[s][i].op # op}
    /\ crashes = 0
    /\ voted = {}
    /\ elections = {}
    /\ committed = {}

-----------------------------------------------------------------------------
\* Role transitions.  Each persists VotedFor and CurrentTerm before the lock is
\* released, so on disk they are always what they are in memory.

\* Mutation: the role is not reset.
BecomeFollowerInTermOnly(s, term) ==
    /\ currentTerm' = [currentTerm EXCEPT ![s] = term]
    /\ votedFor' = [votedFor EXCEPT ![s] = Nil]
    /\ UNCHANGED role

BecomeFollower(s, term) ==
    /\ currentTerm' = [currentTerm EXCEPT ![s] = term]
    /\ role' = [role EXCEPT ![s] = "Follower"]
    /\ votedFor' = [votedFor EXCEPT ![s] = Nil]

BecomeCandidate(s, term) ==
    /\ currentTerm' = [currentTerm EXCEPT ![s] = term]
    /\ role' = [role EXCEPT ![s] = "Candidate"]
    /\ votedFor' = [votedFor EXCEPT ![s] = s]

\* Mutation: NextIndex starts one past the end of the log.
BecomeLeaderTooFar(s) ==
    /\ role' = [role EXCEPT ![s] = "Leader"]
    /\ votedFor' = [votedFor EXCEPT ![s] = Nil]
    /\ nextIndex' = [nextIndex EXCEPT ![s] = [p \in Peers(s) |-> Len(log[s]) + 1]]
    /\ matchIndex' = [matchIndex EXCEPT ![s] = [p \in Peers(s) |-> -1]]

BecomeLeader(s) ==
    /\ role' = [role EXCEPT ![s] = "Leader"]
    /\ votedFor' = [votedFor EXCEPT ![s] = Nil]
    /\ nextIndex' = [nextIndex EXCEPT ![s] = [p \in Peers(s) |-> Len(log[s])]]
    /\ matchIndex' = [matchIndex EXCEPT ![s] = [p \in Peers(s) |-> -1]]

-----------------------------------------------------------------------------
\* Election.

\* The election timer of a follower expires; candidates and leaders ignore it.
MayTimeOut(s) ==
    /\ s \in MayStand
    /\ role[s] = "Follower"
    /\ currentTerm[s] < MaxTerm
    /\ Cardinality(rpcs) <= MaxStragglers

StartElection(s) ==
    /\ MayTimeOut(s)
    /\ BecomeCandidate(s, currentTerm[s] + 1)
    /\ votesReceived' = [votesReceived EXCEPT ![s] = 1]
    /\ rpcs' = rpcs \cup {Spawned("RequestVote", s, p, currentTerm[s] + 1) : p \in Peers(s)}
    /\ voted' = voted \cup {Vote(s, currentTerm[s] + 1, s)}
    /\ UNCHANGED <<log, applyVars, leaderVars, inputVars, envVars, elections, committed>>

\* A thread of startElection reads the end of the log and calls the peer.
SendRequestVote(r) ==
    /\ rpcs' = (rpcs \ {r}) \cup {VoteRequest(r, log[r.from])}
    /\ UNCHANGED <<persistentVars, role, applyVars, votesReceived,
                   leaderVars, inputVars, envVars, historyVars>>

\* The request comes from a later term than that of the replica it reaches.
Newer(r) == r.term > currentTerm[r.to]

\* Mutation: a vote given before does not bind.
AnyCandidate(vote, candidate) == TRUE

\* A replica whose VotedFor is vote may vote for the candidate.
MayVote(vote, candidate) == vote \in {Nil, candidate}

RequestVote(r) ==
    LET s        == r.to
        term     == IF Newer(r) THEN r.term ELSE currentTerm[s]
        vote     == IF Newer(r) THEN Nil ELSE votedFor[s]
        granted  == r.term = term /\ MayVote(vote, r.from) /\ UpToDate(r, log[s])
    IN  /\ currentTerm' = [currentTerm EXCEPT ![s] = term]
        /\ role' = IF Newer(r) THEN [role EXCEPT ![s] = "Follower"] ELSE role
        /\ votedFor' = [votedFor EXCEPT ![s] = IF granted THEN r.from ELSE vote]
        /\ rpcs' = (rpcs \ {r}) \cup {VoteReply(r, term, granted)}
        /\ voted' = IF granted THEN voted \cup {Vote(s, term, r.from)}
                              ELSE voted
        /\ UNCHANGED <<log, applyVars, votesReceived, leaderVars, inputVars, envVars,
                       elections, committed>>

\* A thread of startElection processes the answer.  The term it compares with
\* is the one its election started with, not the current one.
RequestVoteReply(r) ==
    LET s == r.from
        counted == r.replyTerm = r.term /\ r.voteGranted
    IN  /\ rpcs' = rpcs \ {r}
        /\ \/ /\ role[s] # "Candidate"
              /\ UNCHANGED <<currentTerm, votedFor, role, votesReceived, leaderVars, elections>>
           \/ /\ role[s] = "Candidate"
              /\ r.replyTerm > r.term
              /\ BecomeFollower(s, r.replyTerm)
              /\ UNCHANGED <<votesReceived, leaderVars, elections>>
           \/ /\ role[s] = "Candidate"
              /\ counted
              /\ votesReceived' = [votesReceived EXCEPT ![s] = @ + 1]
              /\ \/ /\ IsMajority(votesReceived[s] + 1)
                    /\ BecomeLeader(s)
                    /\ elections' = elections \cup
                          {[term |-> currentTerm[s], leader |-> s, log |-> log[s],
                            voters |-> Voters(s, currentTerm[s])]}
                 \/ /\ ~IsMajority(votesReceived[s] + 1)
                    /\ UNCHANGED <<votedFor, role, leaderVars, elections>>
              /\ UNCHANGED currentTerm
           \/ /\ role[s] = "Candidate"
              /\ r.replyTerm <= r.term
              /\ ~counted
              /\ UNCHANGED <<currentTerm, votedFor, role, votesReceived, leaderVars, elections>>
        /\ UNCHANGED <<log, applyVars, inputVars, envVars, voted, committed>>

-----------------------------------------------------------------------------
\* Replication.

Submit(s, op) ==
    /\ op \in unsubmitted
    /\ role[s] = "Leader"
    /\ dispatchOut' = [dispatchOut EXCEPT ![s] = Append(@, op)]
    /\ unsubmitted' = unsubmitted \ {op}
    /\ UNCHANGED <<persistentVars, role, applyVars, votesReceived,
                   leaderVars, raftIn, inRound, rpcs, crashes, historyVars>>

\* raftImpl swaps the lists and finds the replica to be the leader.
RaftImplLeader(s) ==
    /\ ~inRound[s]
    /\ role[s] = "Leader"
    /\ Cardinality(rpcs) <= MaxStragglers
    /\ raftIn' = [raftIn EXCEPT ![s] = dispatchOut[s]]
    /\ dispatchOut' = [dispatchOut EXCEPT ![s] = <<>>]
    /\ inRound' = [inRound EXCEPT ![s] = TRUE]
    /\ UNCHANGED <<persistentVars, role, applyVars, votesReceived,
                   leaderVars, rpcs, envVars, historyVars>>

\* raftImpl finds the replica not to be the leader: what it swapped in is
\* cleared after the sleep, neither appended nor aborted.
RaftImplOther(s) ==
    /\ ~inRound[s]
    /\ role[s] # "Leader"
    /\ dispatchOut[s] # <<>>
    /\ dispatchOut' = [dispatchOut EXCEPT ![s] = <<>>]
    /\ UNCHANGED <<persistentVars, role, applyVars, votesReceived,
                   leaderVars, raftIn, inRound, rpcs, envVars, historyVars>>

\* The first n operations of the input, as entries of the current term.
Appended(s, n) == [i \in 1..n |-> [term |-> currentTerm[s], op |-> raftIn[s][i]]]

\* One round: append the input under the current term and spawn a thread per
\* peer.  The role that raftImpl saw is not looked at again.
RunLeaderOneIter(s) ==
    /\ inRound[s]
    /\ log' = [log EXCEPT ![s] = @ \o Appended(s, Len(raftIn[s]))]
    /\ rpcs' = rpcs \cup {Spawned("AppendEntries", s, p, currentTerm[s]) : p \in Peers(s)}
    /\ raftIn' = [raftIn EXCEPT ![s] = <<>>]
    /\ inRound' = [inRound EXCEPT ![s] = FALSE]
    /\ UNCHANGED <<currentTerm, votedFor, role, applyVars, votesReceived,
                   leaderVars, dispatchOut, envVars, historyVars>>

\* The term read for the entry before next.  NextIndex may lie beyond a log
\* that was truncated in the meantime: the read is then out of bounds.
PrevLogTerms(lg, next) ==
    CASE next = 0       -> {-1}
      [] next \in 1..Len(lg) -> {lg[next].term}
      [] OTHER          -> 0..MaxTerm

\* A thread of runLeaderOneIter reads the state and calls the peer.
SendAppendEntries(r) ==
    LET s    == r.from
        next == nextIndex[s][r.to]
    IN  /\ \E prevTerm \in PrevLogTerms(log[s], next) :
              rpcs' = (rpcs \ {r}) \cup
                      {AppendRequest(r, next, prevTerm,
                                     SubSeq(log[s], next + 1, Len(log[s])), commitIndex[s])}
        /\ UNCHANGED <<persistentVars, role, applyVars, votesReceived,
                       leaderVars, inputVars, envVars, historyVars>>

\* Mutation: the log is cut even if it already holds all the entries.
CutAndAppend(lg, prev, es) == SubSeq(lg, 1, prev + 1) \o es

\* The log after the loop of AppendEntries: unchanged unless some entry is new,
\* otherwise cut at the first disagreement and extended with the rest of es.
Merge(lg, prev, es) ==
    LET n == Agreeing(lg, prev, es)
    IN  IF n = Len(es)
        THEN lg
        ELSE SubSeq(lg, 1, prev + 1 + n) \o SubSeq(es, n + 1, Len(es))

\* Mutation: LastApplied is not moved.
ApplyAgain(s, lg, commit) ==
    /\ commitIndex' = [commitIndex EXCEPT ![s] = commit]
    /\ raftOut' = [raftOut EXCEPT ![s] =
                      @ \o [i \in 1..(commit - lastApplied[s]) |-> lg[lastApplied[s] + 1 + i].op]]
    /\ UNCHANGED lastApplied

\* Entries after lastApplied and up to commit are queued for the executer.
Apply(s, lg, commit) ==
    /\ commitIndex' = [commitIndex EXCEPT ![s] = commit]
    /\ lastApplied' = [lastApplied EXCEPT ![s] = commit]
    /\ raftOut' = [raftOut EXCEPT ![s] =
                      @ \o [i \in 1..(commit - lastApplied[s]) |-> lg[lastApplied[s] + 1 + i].op]]

\* The request makes its receiver a follower, and of which log it accepts.
StepsDown(r) == Newer(r) \/ (r.term = currentTerm[r.to] /\ role[r.to] # "Follower")
Accepted(r)  == r.term >= currentTerm[r.to] /\ PrevMatches(r, log[r.to])

\* Mutation: the leader's CommitIndex is taken over as it comes.
TakesCommit(r) == TRUE

\* An accepted request carries a CommitIndex the receiver has not reached.
AdvancesCommit(r) == r.leaderCommit > commitIndex[r.to]

AppendEntries(r) ==
    LET s      == r.to
        newLog == IF Accepted(r) THEN Merge(log[s], r.prevLogIndex, r.entries) ELSE log[s]
        least  == IF r.leaderCommit < Len(newLog) THEN r.leaderCommit ELSE LastLogIndex(newLog)
    IN  /\ IF StepsDown(r) THEN BecomeFollower(s, r.term)
                           ELSE UNCHANGED <<currentTerm, role, votedFor>>
        /\ log' = [log EXCEPT ![s] = newLog]
        /\ IF Accepted(r) /\ AdvancesCommit(r) THEN Apply(s, newLog, least)
                                               ELSE UNCHANGED applyVars
        /\ rpcs' = (rpcs \ {r}) \cup {AppendReply(r, currentTerm'[s], Accepted(r))}
        /\ UNCHANGED <<votesReceived, leaderVars, inputVars, envVars, historyVars>>

\* Mutation: entries of earlier terms are committed by counting.
MayCommitAnyTerm(s, i) == TRUE

\* A leader commits by counting only entries of its own term.
MayCommit(s, i) == log[s][i + 1].term = currentTerm[s]

\* The indices after CommitIndex that the leader may commit, with match the
\* indices its peers reached.
Committable(s, match) ==
    {i \in (commitIndex[s] + 1)..LastLogIndex(log[s]) :
        /\ MayCommit(s, i)
        /\ IsMajority(1 + Cardinality({p \in Peers(s) : match[p] >= i}))}

\* The greatest of them, or CommitIndex: it moves past every index that is not
\* beyond all of them.
NewCommitIndex(s, match) ==
    commitIndex[s] + Cardinality({i \in (commitIndex[s] + 1)..LastLogIndex(log[s]) :
                                     \E j \in Committable(s, match) : i <= j})

\* Mutation: a refusal leaves NextIndex where it is.
NextAfterSuccess(r) == IF r.success THEN r.nextIndex + r.count ELSE r.nextIndex

\* NextIndex after an answer: past the entries sent, or one entry back.
NextAfter(r) == IF r.success THEN r.nextIndex + r.count ELSE r.nextIndex - 1

\* A thread of runLeaderOneIter processes the answer.  It checks that the
\* replica is a leader, not that it still leads the term of the request.
AppendEntriesReply(r) ==
    LET s      == r.from
        match  == [matchIndex[s] EXCEPT ![r.to] = NextAfter(r) - 1]
        commit == NewCommitIndex(s, match)
    IN  /\ rpcs' = rpcs \ {r}
        /\ \/ /\ r.replyTerm > r.term
              /\ BecomeFollower(s, r.replyTerm)
              /\ UNCHANGED <<applyVars, leaderVars, committed>>
           \/ /\ r.replyTerm <= r.term
              /\ UNCHANGED <<currentTerm, votedFor, role>>
              /\ \/ /\ ~(role[s] = "Leader" /\ r.replyTerm = r.term)
                    /\ UNCHANGED <<applyVars, leaderVars, committed>>
                 \/ /\ role[s] = "Leader" /\ r.replyTerm = r.term /\ r.success
                    /\ nextIndex' = [nextIndex EXCEPT ![s][r.to] = NextAfter(r)]
                    /\ matchIndex' = [matchIndex EXCEPT ![s] = match]
                    /\ IF commit # commitIndex[s] THEN Apply(s, log[s], commit)
                                                  ELSE UNCHANGED applyVars
                    /\ committed' = committed \cup
                          {[index |-> i, entry |-> log[s][i + 1], term |-> currentTerm[s]]
                             : i \in (commitIndex[s] + 1)..commit}
                 \/ /\ role[s] = "Leader" /\ r.replyTerm = r.term /\ ~r.success
                    /\ nextIndex' = [nextIndex EXCEPT ![s][r.to] = NextAfter(r)]
                    /\ UNCHANGED <<applyVars, matchIndex, committed>>
        /\ UNCHANGED <<log, votesReceived, inputVars, envVars, voted, elections>>

-----------------------------------------------------------------------------
\* Failures.

\* The RPC fails, or RaftRPCRouter drops it: the thread returns.
LoseRPC(r) ==
    /\ r.phase # "spawned"
    /\ r.kind \in Lossy \/ (r.phase = "reply" /\ ~Timely(r))
    /\ rpcs' = rpcs \ {r}
    /\ UNCHANGED <<persistentVars, role, applyVars, votesReceived,
                   leaderVars, inputVars, envVars, historyVars>>

\* The process dies, is started again with --bootstrap and reads its files;
\* its threads, and the RPCs they wait for, are gone.
Restart(s) ==
    /\ role' = [role EXCEPT ![s] = "Follower"]
    /\ commitIndex' = [commitIndex EXCEPT ![s] = -1]
    /\ lastApplied' = [lastApplied EXCEPT ![s] = -1]
    /\ votesReceived' = [votesReceived EXCEPT ![s] = 0]
    /\ nextIndex' = [nextIndex EXCEPT ![s] = [p \in Peers(s) |-> 0]]
    /\ matchIndex' = [matchIndex EXCEPT ![s] = [p \in Peers(s) |-> -1]]
    /\ dispatchOut' = [dispatchOut EXCEPT ![s] = <<>>]
    /\ raftIn' = [raftIn EXCEPT ![s] = <<>>]
    /\ inRound' = [inRound EXCEPT ![s] = FALSE]
    /\ raftOut' = [raftOut EXCEPT ![s] = <<>>]
    /\ crashes < MaxCrash
    /\ crashes' = crashes + 1
    /\ UNCHANGED <<unsubmitted, historyVars>>

Crash(s) ==
    /\ Restart(s)
    /\ rpcs' = {r \in rpcs : r.from # s}
    /\ UNCHANGED persistentVars

\* persist() writes the file of VotedFor, then that of CurrentTerm.  The
\* process dies in between: the new vote is on disk with the old term.
CrashInPersist(s) ==
    /\ Restart(s)
    /\ UNCHANGED <<currentTerm, log>>
    /\ \/ /\ MayTimeOut(s)                       \* in becomeCandidate
          /\ votedFor' = [votedFor EXCEPT ![s] = s]
          /\ rpcs' = {r \in rpcs : r.from # s}
       \/ \E r \in rpcs :                        \* in becomeFollower
             /\ \/ r.phase = "request" /\ r.to = s /\ r.term > currentTerm[s]
                \/ /\ r.phase = "reply" /\ r.from = s /\ r.replyTerm > r.term /\ Timely(r)
                   /\ r.kind = "RequestVote" => role[s] = "Candidate"
             /\ votedFor' = [votedFor EXCEPT ![s] = Nil]
             /\ rpcs' = {q \in rpcs \ {r} : q.from # s}

\* The process dies while it writes its log: a round has appended only some of
\* the new entries; an AppendEntries has saved the new term and nothing else, or
\* has also cut the file and appended some of them.
CrashInRound(s) ==
    /\ inRound[s]
    /\ Restart(s)
    /\ rpcs' = {r \in rpcs : r.from # s}
    /\ \E n \in 0..Len(raftIn[s]) :
          log' = [log EXCEPT ![s] = @ \o Appended(s, n)]
    /\ UNCHANGED <<currentTerm, votedFor>>

CrashInAppendEntries(r) ==
    LET s    == r.to
        kept == r.prevLogIndex + 1 + Agreeing(log[s], r.prevLogIndex, r.entries)
        new  == Merge(log[s], r.prevLogIndex, r.entries)
    IN  /\ Accepted(r)
        /\ new # log[s]
        /\ Restart(s)
        /\ \/ UNCHANGED log
           \/ \E n \in kept..Len(new) : log' = [log EXCEPT ![s] = SubSeq(new, 1, n)]
        /\ currentTerm' = [currentTerm EXCEPT ![s] = r.term]
        /\ votedFor' = [votedFor EXCEPT ![s] = IF StepsDown(r) THEN Nil ELSE @]
        /\ rpcs' = {q \in rpcs \ {r} : q.from # s}

-----------------------------------------------------------------------------
\* The steps of a thread that acts on what it read before.
Continue ==
    \/ \E s \in Server : RunLeaderOneIter(s) \/ CrashInRound(s)
    \/ \E r \in Threads("spawned", "RequestVote")   : SendRequestVote(r)
    \/ \E r \in Threads("spawned", "AppendEntries") : SendAppendEntries(r)

Next ==
    \/ Continue
    \/ /\ Settled
       /\ \/ \E s \in Server :
                \/ StartElection(s)
                \/ \E op \in Op : Submit(s, op)
                \/ RaftImplLeader(s)
                \/ RaftImplOther(s)
                \/ Crash(s)
                \/ CrashInPersist(s)
          \/ \E r \in Threads("request", "RequestVote") :
                (ForgottenVotes \/ ~Forgotten(r)) /\ RequestVote(r)
          \/ \E r \in Threads("reply", "RequestVote") : Timely(r) /\ RequestVoteReply(r)
          \/ \E r \in Threads("request", "AppendEntries") : AppendEntries(r) \/ CrashInAppendEntries(r)
          \/ \E r \in Threads("reply", "AppendEntries") : Timely(r) /\ AppendEntriesReply(r)
          \/ \E r \in rpcs : LoseRPC(r)

Spec == Init /\ [][Next]_vars

-----------------------------------------------------------------------------
\* The elements of rpcs, by phase and kind.
SpawnedThread ==
    [phase : {"spawned"}, kind : {"RequestVote", "AppendEntries"},
     from : Server, to : Server, term : Term]
VoteRequests ==
    [phase : {"request"}, kind : {"RequestVote"}, from : Server, to : Server, term : Term,
     lastLogIndex : Index, lastLogTerm : Index]
VoteReplies ==
    [phase : {"reply"}, kind : {"RequestVote"}, from : Server, to : Server, term : Term,
     replyTerm : Term, voteGranted : BOOLEAN]
AppendRequests ==
    [phase : {"request"}, kind : {"AppendEntries"}, from : Server, to : Server, term : Term,
     prevLogIndex : Index, prevLogTerm : Index, entries : Seq(Entry), leaderCommit : Index]
AppendReplies ==
    [phase : {"reply"}, kind : {"AppendEntries"}, from : Server, to : Server, term : Term,
     nextIndex : Nat, count : Nat, replyTerm : Term, success : BOOLEAN]
RPC == SpawnedThread \cup VoteRequests \cup VoteReplies \cup AppendRequests \cup AppendReplies

\* Types.  That NextIndex stays a natural number is a property of the protocol:
\* it is decremented on every refusal, and a refusal at NextIndex 0 would make
\* runLeaderOneIter read Logs[-2].
TypeOK ==
    /\ currentTerm \in [Server -> Term]
    /\ votedFor \in [Server -> Server \cup {Nil}]
    /\ log \in [Server -> Seq(Entry)]
    /\ role \in [Server -> {"Follower", "Candidate", "Leader"}]
    /\ commitIndex \in [Server -> Index]
    /\ lastApplied \in [Server -> Index]
    /\ votesReceived \in [Server -> Nat]
    /\ DOMAIN nextIndex = Server
    /\ \A s \in Server : nextIndex[s] \in [Peers(s) -> Nat]
    /\ DOMAIN matchIndex = Server
    /\ \A s \in Server : matchIndex[s] \in [Peers(s) -> Index]
    /\ dispatchOut \in [Server -> Seq(Op)]
    /\ raftIn \in [Server -> Seq(Op)]
    /\ inRound \in [Server -> BOOLEAN]
    /\ raftOut \in [Server -> Seq(Op)]
    /\ rpcs \subseteq RPC
    /\ \A r \in rpcs : r.from # r.to
    /\ unsubmitted \subseteq Op
    /\ crashes \in Nat
    /\ voted \subseteq [voter : Server, term : Term, candidate : Server]
    /\ elections \subseteq [term : Term, leader : Server, log : Seq(Entry), voters : SUBSET Server]
    /\ committed \subseteq [index : Nat, entry : Entry, term : Term]

-----------------------------------------------------------------------------
\* Safety.

\* A term has at most one leader: RequestVote grants one vote per term, and
\* becomeLeader needs the votes of a majority.
ElectionSafety ==
    \A s, p \in Server :
        (role[s] = "Leader" /\ role[p] = "Leader" /\ currentTerm[s] = currentTerm[p]) => s = p

\* Two logs that hold an entry of the same term at the same index are equal up
\* to it.  AppendEntries compares terms only, and relies on it.
LogMatching ==
    \A s, p \in Server :
        \A i \in DOMAIN log[s] \cap DOMAIN log[p] :
            log[s][i].term = log[p][i].term => SubSeq(log[s], 1, i) = SubSeq(log[p], 1, i)

\* An entry that a leader counted as committed is in the log of every leader
\* of that and of every later term, whatever crashed or got lost since.
LeaderCompleteness ==
    \A c \in committed, s \in Server :
        (role[s] = "Leader" /\ currentTerm[s] >= c.term) =>
            c.index + 1 \in DOMAIN log[s] /\ log[s][c.index + 1] = c.entry

\* No two leaders commit different entries at an index, and a replica hands its
\* executer exactly the committed operations, in the order of the log.
StateMachineSafety ==
    /\ \A c, d \in committed : c.index = d.index => c.entry = d.entry
    /\ \A s \in Server : \A i \in DOMAIN raftOut[s] :
          \E c \in committed : c.index = i - 1 /\ c.entry.op = raftOut[s][i]

\* A committed entry is in the log, on disk, of a majority of the replicas from
\* then on: no crash in the middle of a write and no late AppendEntries with
\* fewer entries takes it away again.
DurableCommit ==
    \A c \in committed :
        LET holders == {s \in Server : c.index + 1 \in DOMAIN log[s]
                                       /\ log[s][c.index + 1] = c.entry}
        IN  2 * Cardinality(holders) > Cardinality(Server)

\* What was handed to the executer since the last start is the log up to
\* LastApplied: no applied entry is ever truncated, skipped or applied twice.
AppliedIsLogPrefix ==
    \A s \in Server :
        /\ lastApplied[s] = commitIndex[s]
        /\ Len(raftOut[s]) = lastApplied[s] + 1
        /\ lastApplied[s] < Len(log[s])
        /\ \A i \in DOMAIN raftOut[s] : raftOut[s][i] = log[s][i].op

\* A leader's MatchIndex tells the truth about a peer that has not moved on to
\* a later term, however replies were delayed and reordered.
MatchIndexSound ==
    \A s \in Server : role[s] = "Leader" =>
        \A p \in Peers(s) : currentTerm[p] = currentTerm[s] =>
            LET m == matchIndex[s][p] + 1
            IN  /\ m <= Len(log[s])
                /\ m <= Len(log[p])
                /\ SubSeq(log[s], 1, m) = SubSeq(log[p], 1, m)

\* The AppendEntries thread of a leader finds the entry before NextIndex in the
\* log: Logs[prevLogIndex] is not read out of bounds.
ReadInBounds ==
    \A r \in Threads("spawned", "AppendEntries") : nextIndex[r.from][r.to] <= Len(log[r.from])

-----------------------------------------------------------------------------
\* What a step may never do.

\* CommitIndex moves back only when the process is restarted.
CommitMonotonic ==
    [][\A s \in Server : crashes' = crashes => commitIndex'[s] >= commitIndex[s]]_vars

\* A replica that leads, and still leads after the step, has at most extended
\* its log.
LeaderAppendOnly ==
    [][\A s \in Server : role[s] = "Leader" /\ role'[s] = "Leader" =>
          /\ Len(log[s]) <= Len(log'[s])
          /\ SubSeq(log'[s], 1, Len(log[s])) = log[s]]_vars

-----------------------------------------------------------------------------
\* Liveness.

\* Threads run, and so do the raft thread's loop and the election timer.  An
\* AppendEntries to a peer may fail any number of times, but not for ever: sent
\* again and again it gets through again and again, and so does its answer.
\* RequestVote is not repeated, so nothing of the kind can be said of it.
Fairness ==
    /\ WF_vars(\E s \in Server : StartElection(s))
    /\ WF_vars(\E s \in Server, op \in Op : Submit(s, op))
    /\ WF_vars(\E s \in Server : RaftImplLeader(s))
    /\ WF_vars(\E s \in Server : RunLeaderOneIter(s))
    /\ WF_vars(\E r \in Threads("spawned", "RequestVote") : SendRequestVote(r))
    /\ WF_vars(\E r \in Threads("spawned", "AppendEntries") : SendAppendEntries(r))
    /\ WF_vars(\E r \in Threads("request", "RequestVote") : RequestVote(r))
    /\ WF_vars(\E r \in Threads("reply", "RequestVote") : RequestVoteReply(r))
    /\ \A p \in Server :
          /\ SF_vars(\E r \in Threads("request", "AppendEntries") : r.to = p /\ AppendEntries(r))
          /\ SF_vars(\E r \in Threads("reply", "AppendEntries") : r.to = p /\ AppendEntriesReply(r))

FairSpec == Spec /\ Fairness

\* All replicas end up with the same log, all of it applied by all of them.
\* (One replica stands for election, and clients submit an operation to it.)
Converges ==
    <>[](\A s, p \in Server : log[s] = log[p] /\ Len(raftOut[s]) = Len(log[s]))
=============================================================================
