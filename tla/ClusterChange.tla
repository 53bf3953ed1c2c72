--------------------------- MODULE ClusterChange ---------------------------
(***************************************************************************)
(* Membership changes: AddServer and RemoveServer of RaftManager           *)
(* (ohmyraft/OhMyRaft.H), and what ClusterConfig and peers_ being variable *)
(* means for elections, rounds and the AppendEntries handler.              *)
(*                                                                         *)
(* A change is an entry of the log.  Every replica applies it when it      *)
(* pushes the entry, long before the entry is committed, and to do so it   *)
(* releases state_.Mut in the middle of the loop that pushes entries:      *)
(* ApplyAddServer and ApplyRemoveServer unlock, call addPeer or            *)
(* removePeer, and lock again.  A thread in that gap is an element of      *)
(* unlocked.  The handlers of AddServer and RemoveServer themselves only   *)
(* submit the entry and poll the state; each is an element of calls.       *)
(*                                                                         *)
(* Behaviours start when First has been elected in term 1 by the cluster   *)
(* Members, whose logs are empty.  The other servers are started with      *)
(* --addedNode.  Entries pass through RaftTransport.                       *)
(*                                                                         *)
(* OhMyRaft has the rest of the replica, for a fixed membership: crashes,  *)
(* the hand-over to the executer, and the step between the creation of an  *)
(* RPC thread and its reading of the state, which is one step here.        *)
(***************************************************************************)
EXTENDS RaftRPC, RaftTransport, SequencesExt

CONSTANTS
    Server,       \* ids of all processes
    Members,      \* ids in the configuration file: the initial ClusterConfig
    First,        \* the leader of term 1
    Op,           \* the operations of clients, each submitted at most once
    Change,       \* the changes that administrators ask for
    Nil           \* VotedFor = -1

\* What the environment and the scheduler may do.
CONSTANTS
    MayStand,      \* the replicas whose election timer may expire
    Overlap,       \* may other threads run while a loop has released the mutex?
    ParallelCalls, \* may a change be asked for while another call is served?
    Prompt,        \* do polls (100 ms), rounds (50 ms) and the start of a process
                   \* happen before election timers (3.5 s) and limits of polling
                   \* (10 s) expire?
    Lossy          \* the kinds of RPC that may fail

CONSTANTS        \* bounds of the model
    MaxTerm,       \* no election is started beyond this term
    MaxStragglers, \* RPC threads in progress when a round starts
    MaxCalls       \* calls that a leader starts to serve

ASSUME ClusterAssumption ==
    /\ IsFiniteSet(Server) /\ Server \subseteq Nat /\ 0 \in Server
    /\ Members \subseteq Server /\ First \in Members
    /\ Nil \notin Server

ASSUME ClusterScheduleAssumption ==
    /\ MayStand \subseteq Server
    /\ Overlap \in BOOLEAN /\ ParallelCalls \in BOOLEAN /\ Prompt \in BOOLEAN
    /\ Lossy \subseteq {"RequestVote", "AppendEntries"}
    /\ MaxTerm \in Nat /\ MaxStragglers \in Nat /\ MaxCalls \in Nat

ASSUME OperationAssumption ==
    /\ Op \subseteq RaftOps(Nat, Nat, Server)
    /\ Change \subseteq RaftOps(Nat, Nat, Server)
    /\ \A op \in Op : ~IsChange(op)
    /\ \A op \in Change : IsChange(op)

VARIABLES
    currentTerm, votedFor, role, votesReceived, log, commitIndex,
    nextIndex, matchIndex,
    clusterConfig,          \* the keys of ClusterConfig
    lastConfigChangeIndex,
    peers,                  \* the keys of peers_
    lastKnownLeaderId,
    dispatchOut,            \* input of the raft thread
    rpcs,                   \* RPC threads: a request, or its answer
    unlocked,               \* loops that have released the mutex
    calls,                  \* handlers of AddServer and RemoveServer
    booting,                \* processes that have not yet filled peers_
    unsubmitted, callsLeft, \* environment
    detached                \* history: replicas whose ClusterConfig changed
                            \* otherwise than with the log

termVars   == <<currentTerm, votedFor, role>>
leaderVars == <<nextIndex, matchIndex>>
configVars == <<clusterConfig, lastConfigChangeIndex, detached>>
adminVars  == <<calls, callsLeft>>
vars == <<termVars, votesReceived, log, commitIndex, leaderVars, configVars, peers,
          lastKnownLeaderId, dispatchOut, rpcs, unlocked, adminVars, booting, unsubmitted>>

\* n votes or copies are more than half of ClusterConfig.size(), which counts
\* whatever the map holds on s.
IsMajority(s, n) == 2 * n > Cardinality(clusterConfig[s])

-----------------------------------------------------------------------------
Init ==
    /\ currentTerm = [s \in Server |-> IF s \in Members THEN 1 ELSE 0]
    /\ votedFor = [s \in Server |-> IF s \in Members \ {First} THEN First ELSE Nil]
    /\ role = [s \in Server |-> IF s = First THEN "Leader" ELSE "Follower"]
    /\ votesReceived = [s \in Server |-> IF s = First THEN Cardinality(Members) ELSE 0]
    /\ log = [s \in Server |-> <<>>]
    /\ commitIndex = [s \in Server |-> -1]
    /\ nextIndex = [s \in Server |-> [p \in Server |-> 0]]
    /\ matchIndex = [s \in Server |-> [p \in Server |->
                        IF s \in Members /\ p \in Members \ {s} THEN -1 ELSE 0]]
    /\ clusterConfig = [s \in Server |-> Members]
    /\ lastConfigChangeIndex = [s \in Server |-> -1]
    /\ peers = [s \in Server |-> IF s \in Members THEN Members \ {s} ELSE {}]
    /\ lastKnownLeaderId = [s \in Server |-> IF s = First THEN First ELSE 0]
    /\ dispatchOut = [s \in Server |-> <<>>]
    /\ rpcs = {}
    /\ unlocked = {}
    /\ calls = {}
    /\ booting = Server \ Members
    /\ unsubmitted = Op
    /\ callsLeft = MaxCalls
    /\ detached = {}

-----------------------------------------------------------------------------
\* Peers.  Keys of NextIndex and MatchIndex that are not in the map read as 0.

AddPeers(s, ids) ==
    /\ peers' = [peers EXCEPT ![s] = @ \cup ids]
    /\ nextIndex' = [nextIndex EXCEPT ![s] = [p \in Server |-> IF p \in ids THEN 0 ELSE @[p]]]
    /\ matchIndex' = [matchIndex EXCEPT ![s] = [p \in Server |-> IF p \in ids THEN -1 ELSE @[p]]]

RemovePeer(s, p) ==
    /\ peers' = [peers EXCEPT ![s] = @ \ {p}]
    /\ nextIndex' = [nextIndex EXCEPT ![s][p] = 0]
    /\ matchIndex' = [matchIndex EXCEPT ![s][p] = 0]

\* The end of initialiseServices: the RPC server has been answering for a while
\* when the peers of the configuration file are added and the threads started.
FinishBoot(s) ==
    /\ s \in booting
    /\ booting' = booting \ {s}
    /\ AddPeers(s, Members \ {s})
    /\ UNCHANGED <<termVars, votesReceived, log, commitIndex, configVars,
                   lastKnownLeaderId, dispatchOut, rpcs, unlocked, adminVars, unsubmitted>>

-----------------------------------------------------------------------------
\* Role transitions.

BecomeFollower(s, term) ==
    /\ currentTerm' = [currentTerm EXCEPT ![s] = term]
    /\ role' = [role EXCEPT ![s] = "Follower"]
    /\ votedFor' = [votedFor EXCEPT ![s] = Nil]

BecomeCandidate(s, term) ==
    /\ currentTerm' = [currentTerm EXCEPT ![s] = term]
    /\ role' = [role EXCEPT ![s] = "Candidate"]
    /\ votedFor' = [votedFor EXCEPT ![s] = s]

BecomeLeader(s) ==
    /\ role' = [role EXCEPT ![s] = "Leader"]
    /\ votedFor' = [votedFor EXCEPT ![s] = Nil]
    /\ lastKnownLeaderId' = [lastKnownLeaderId EXCEPT ![s] = s]
    /\ nextIndex' = [nextIndex EXCEPT ![s] = [p \in Server |->
                        IF p \in peers[s] THEN Len(log[s]) ELSE 0]]
    /\ matchIndex' = [matchIndex EXCEPT ![s] = [p \in Server |->
                        IF p \in peers[s] THEN -1 ELSE 0]]

-----------------------------------------------------------------------------
\* Elections.

Threads(phase, kind) == {r \in rpcs : r.phase = phase /\ r.kind = kind}

StartElection(s) ==
    /\ s \in MayStand \ booting
    /\ role[s] = "Follower"
    /\ currentTerm[s] < MaxTerm
    /\ Prompt => dispatchOut[s] = <<>> /\ \A c \in calls : c.at # s
    /\ BecomeCandidate(s, currentTerm[s] + 1)
    /\ votesReceived' = [votesReceived EXCEPT ![s] = 1]
    /\ rpcs' = rpcs \cup 
                    {VoteRequest(Spawned("RequestVote", s, p, currentTerm[s] + 1), log[s]) : p \in peers[s]}
    /\ UNCHANGED <<log, commitIndex, leaderVars, configVars, peers, lastKnownLeaderId,
                   dispatchOut, unlocked, adminVars, booting, unsubmitted>>

Newer(r) == r.term > currentTerm[r.to]

\* "Candidate is not a member": nothing but the answer, also if the candidate's
\* term is newer.
RefuseStranger(r) ==
    /\ r.from \notin peers[r.to]
    /\ rpcs' = (rpcs \ {r}) \cup {VoteReply(r, currentTerm[r.to], FALSE)}
    /\ UNCHANGED <<termVars, votesReceived, log, commitIndex, leaderVars, configVars, peers,
                   lastKnownLeaderId, dispatchOut, unlocked, adminVars, booting, unsubmitted>>

RequestVote(r) ==
    LET s       == r.to
        term    == IF Newer(r) THEN r.term ELSE currentTerm[s]
        vote    == IF Newer(r) THEN Nil ELSE votedFor[s]
        granted == r.term = term /\ vote \in {Nil, r.from} /\ UpToDate(r, log[s])
    IN  /\ r.from \in peers[s]
        /\ currentTerm' = [currentTerm EXCEPT ![s] = term]
        /\ role' = [role EXCEPT ![s] = IF Newer(r) THEN "Follower" ELSE @]
        /\ votedFor' = [votedFor EXCEPT ![s] = IF granted THEN r.from ELSE vote]
        /\ rpcs' = (rpcs \ {r}) \cup {VoteReply(r, term, granted)}
        /\ UNCHANGED <<votesReceived, log, commitIndex, leaderVars, configVars, peers,
                       lastKnownLeaderId, dispatchOut, unlocked, adminVars, booting, unsubmitted>>

RequestVoteReply(r) ==
    LET s     == r.from
        votes == votesReceived[s] + 1
    IN  /\ rpcs' = rpcs \ {r}
        /\ \/ /\ role[s] = "Candidate" /\ r.replyTerm > r.term
              /\ BecomeFollower(s, r.replyTerm)
              /\ UNCHANGED <<votesReceived, leaderVars, lastKnownLeaderId>>
           \/ /\ role[s] = "Candidate" /\ r.replyTerm = r.term /\ r.voteGranted
              /\ votesReceived' = [votesReceived EXCEPT ![s] = votes]
              /\ IF IsMajority(s, votes) THEN BecomeLeader(s)
                 ELSE UNCHANGED <<role, votedFor, lastKnownLeaderId, leaderVars>>
              /\ UNCHANGED currentTerm
           \/ /\ \/ role[s] # "Candidate"
                 \/ r.replyTerm < r.term
                 \/ r.replyTerm = r.term /\ ~r.voteGranted
              /\ UNCHANGED <<termVars, votesReceived, leaderVars, lastKnownLeaderId>>
        /\ UNCHANGED <<log, commitIndex, configVars, peers, dispatchOut, unlocked,
                       adminVars, booting, unsubmitted>>

-----------------------------------------------------------------------------
\* The loop that pushes entries, in a round and in AppendEntries.

\* How many of the operations are pushed before the loop calls ApplyAddServer or
\* ApplyRemoveServer, the change included.
Batch(ops) ==
    CHOOSE n \in 0..Len(ops) :
        /\ \A i \in 1..(n - 1) : ~IsChange(ops[i])
        /\ n = Len(ops) \/ (n > 0 /\ IsChange(ops[n]))

\* The batch ends with a change.
HasChange(ops) == ops # <<>> /\ IsChange(ops[Batch(ops)])

OpsOf(es) == [i \in DOMAIN es |-> es[i].op]

\* Mutation: the removed server stays in ClusterConfig.
AddOnly(config, op) ==
    IF op.kind = "ADD_SERVER" THEN config \cup {op.info.id} ELSE config

\* ClusterConfig after a change.
Changed(config, op) ==
    IF op.kind = "ADD_SERVER" THEN config \cup {op.info.id} ELSE config \ {op.id}

\* Push the first batch of the entries es on the log lg, and begin to apply the
\* change at its end.
Push(s, lg, es) ==
    LET n  == Batch(OpsOf(es))
        op == es[n].op
    IN  /\ log' = [log EXCEPT ![s] = lg \o SubSeq(es, 1, n)]
        /\ IF HasChange(OpsOf(es))
           THEN /\ clusterConfig' = [clusterConfig EXCEPT ![s] = Changed(@, op)]
                /\ lastConfigChangeIndex' = [lastConfigChangeIndex EXCEPT ![s] = Len(lg) + n - 1]
           ELSE UNCHANGED <<clusterConfig, lastConfigChangeIndex>>

\* The rest of ApplyAddServer and ApplyRemoveServer, after the mutex was released.
\* A replica is no peer of itself.
ApplyToPeers(s, op) ==
    \/ /\ ChangedId(op) = s
       /\ UNCHANGED <<peers, leaderVars>>
    \/ /\ ChangedId(op) # s
       /\ op.kind = "ADD_SERVER"
       /\ AddPeers(s, {ChangedId(op)})
    \/ /\ ChangedId(op) # s
       /\ op.kind = "REMOVE_SERVER"
       /\ RemovePeer(s, ChangedId(op))

\* The mutex is free: no thread is between two locked sections of one loop, or it
\* has released the mutex, which it does not for a change of the replica itself.
Settled == \A u \in unlocked : Overlap /\ ChangedId(u.change) # u.at

-----------------------------------------------------------------------------
\* Rounds.

\* The entries of the log from index next on, as they are sent.
Shipped(lg, next) ==
    Pack([i \in 1..(Len(lg) - next) |->
             [term |-> lg[next + i].term, index |-> next + i - 1, op |-> lg[next + i].op]])

Ship(s, p, term, lg, next) ==
    AppendRequest(Spawned("AppendEntries", s, p, term), next,
                  IF next = 0 THEN -1 ELSE lg[next].term, Shipped(lg, next), commitIndex[s])

Submit(s, op) ==
    /\ op \in unsubmitted
    /\ role[s] = "Leader"
    /\ dispatchOut' = [dispatchOut EXCEPT ![s] = Append(@, op)]
    /\ unsubmitted' = unsubmitted \ {op}
    /\ UNCHANGED <<termVars, votesReceived, log, commitIndex, leaderVars, configVars, peers,
                   lastKnownLeaderId, rpcs, unlocked, adminVars, booting>>

\* A round pushes ops under the current term, whatever became of the replica
\* since the round began, and sends to all peers under the term that it began
\* with.
Round(s, ops, term, others) ==
    LET es == [i \in DOMAIN ops |-> [term |-> currentTerm[s], op |-> ops[i]]]
        n  == Batch(ops)
    IN  /\ Push(s, log[s], es)
        /\ IF HasChange(ops)
           THEN /\ unlocked' = others \cup
                      {[thread |-> "round", at |-> s, change |-> ops[n],
                        rest |-> SubSeq(ops, n + 1, Len(ops)), term |-> term]}
                /\ UNCHANGED rpcs
           ELSE /\ unlocked' = others
                /\ rpcs' = rpcs \cup
                      {Ship(s, p, term, log'[s], nextIndex'[s][p]) : p \in peers'[s]}

\* The raft thread is in the middle of a round.
InRound(s) == \E u \in unlocked : u.at = s /\ u.thread = "round"

RunLeaderOneIter(s) ==
    /\ role[s] = "Leader"
    /\ ~InRound(s)
    /\ Cardinality(rpcs) <= MaxStragglers
    /\ dispatchOut' = [dispatchOut EXCEPT ![s] = <<>>]
    /\ UNCHANGED <<peers, leaderVars>>
    /\ Round(s, dispatchOut[s], currentTerm[s], unlocked)
    /\ UNCHANGED <<termVars, votesReceived, commitIndex, detached, lastKnownLeaderId,
                   adminVars, booting, unsubmitted>>

ResumeRound(u) ==
    /\ u.thread = "round"
    /\ ApplyToPeers(u.at, u.change)
    /\ Round(u.at, u.rest, u.term, unlocked \ {u})
    /\ UNCHANGED <<termVars, votesReceived, commitIndex, detached, lastKnownLeaderId,
                   dispatchOut, adminVars, booting, unsubmitted>>

\* raftImpl of a replica that does not lead drops its input, changes included.
RaftImplOther(s) ==
    /\ role[s] # "Leader"
    /\ s \notin booting
    /\ ~InRound(s)
    /\ dispatchOut[s] # <<>>
    /\ dispatchOut' = [dispatchOut EXCEPT ![s] = <<>>]
    /\ UNCHANGED <<termVars, votesReceived, log, commitIndex, leaderVars, configVars, peers,
                   lastKnownLeaderId, rpcs, unlocked, adminVars, booting, unsubmitted>>

-----------------------------------------------------------------------------
\* AppendEntries.

StepsDown(r) == Newer(r) \/ (r.term = currentTerm[r.to] /\ role[r.to] # "Follower")
Accepted(r)  == r.term >= currentTerm[r.to] /\ PrevMatches(r, log[r.to])

\* Mutation: CommitIndex is taken over together with entries only.
CommitWithEntries(r, old, lg) ==
    IF r.entries # <<>> /\ r.leaderCommit > old
    THEN Min({r.leaderCommit, LastLogIndex(lg)}) ELSE old

FollowerCommit(r, old, lg) ==
    IF r.leaderCommit > old THEN Min({r.leaderCommit, LastLogIndex(lg)}) ELSE old

\* The handler pushes the entries es, the first of which has the given index in
\* the leader's log, on the log lg.  When no change stops it, it takes the
\* leader's CommitIndex over and answers, with the term of that moment.
Extend(s, lg, es, index, r, others) ==
    LET n == Batch(OpsOf(es))
    IN  /\ Push(s, lg, [i \in DOMAIN es |-> [term |-> es[i].term, op |-> es[i].op]])
        /\ IF HasChange(OpsOf(es))
           THEN /\ unlocked' = others \cup
                      {[thread |-> "AppendEntries", at |-> s, change |-> es[n].op, request |-> r,
                        rest |-> SubSeq(es, n + 1, Len(es)), index |-> index + n]}
                /\ rpcs' = rpcs \ {r}
                /\ UNCHANGED commitIndex
           ELSE /\ unlocked' = others
                /\ rpcs' = (rpcs \ {r}) \cup {AppendReply(r, currentTerm'[s], TRUE)}
                /\ commitIndex' = [commitIndex EXCEPT ![s] = FollowerCommit(r, @, log'[s])]

AppendEntries(r) ==
    LET s    == r.to
        es   == Unpack(r.entries)
        n    == Agreeing(log[s], r.prevLogIndex, es)
        kept == IF n = Len(es) THEN log[s] ELSE SubSeq(log[s], 1, r.prevLogIndex + 1 + n)
    IN  /\ IF StepsDown(r) THEN BecomeFollower(s, r.term) ELSE UNCHANGED termVars
        /\ lastKnownLeaderId' = [lastKnownLeaderId EXCEPT ![s] = r.from]
        /\ \/ /\ Accepted(r)
              /\ Extend(s, kept, SubSeq(es, n + 1, Len(es)), r.prevLogIndex + 1 + n, r, unlocked)
              /\ detached' = IF \E i \in (Len(kept) + 1)..Len(log[s]) : IsChange(log[s][i].op)
                             THEN detached \cup {s} ELSE detached
           \/ /\ ~Accepted(r)
              /\ rpcs' = (rpcs \ {r}) \cup {AppendReply(r, currentTerm'[s], FALSE)}
              /\ UNCHANGED <<log, commitIndex, configVars, unlocked>>
        /\ UNCHANGED <<votesReceived, leaderVars, peers, dispatchOut, adminVars, booting, unsubmitted>>

ResumeAppendEntries(u) ==
    /\ u.thread = "AppendEntries"
    /\ ApplyToPeers(u.at, u.change)
    /\ UNCHANGED <<termVars, lastKnownLeaderId>>
    /\ Extend(u.at, log[u.at], u.rest, u.index, u.request, unlocked \ {u})
    /\ UNCHANGED <<votesReceived, detached, dispatchOut, adminVars, booting, unsubmitted>>

\* The leader's count of copies of the entry with index i, with match the indices
\* its peers reached.  A leader that is being removed does not count itself.
Copies(s, match, i) ==
    (IF s \in clusterConfig[s] THEN 1 ELSE 0) + Cardinality({p \in peers[s] : match[p] >= i})

Committable(s, match) ==
    {i \in (commitIndex[s] + 1)..LastLogIndex(log[s]) :
        log[s][i + 1].term = currentTerm[s] /\ IsMajority(s, Copies(s, match, i))}

NewCommitIndex(s, match) == Max(Committable(s, match) \cup {commitIndex[s]})

AppendEntriesReply(r) ==
    LET s     == r.from
        match == [matchIndex[s] EXCEPT ![r.to] = r.nextIndex + r.count - 1]
        heard == role[s] = "Leader" /\ r.replyTerm = r.term
    IN  /\ rpcs' = rpcs \ {r}
        /\ \/ /\ r.replyTerm > r.term
              /\ BecomeFollower(s, r.replyTerm)
              /\ UNCHANGED <<leaderVars, commitIndex>>
           \/ /\ heard /\ r.success
              /\ nextIndex' = [nextIndex EXCEPT ![s][r.to] = r.nextIndex + r.count]
              /\ matchIndex' = [matchIndex EXCEPT ![s] = match]
              /\ commitIndex' = [commitIndex EXCEPT ![s] = NewCommitIndex(s, match)]
              /\ UNCHANGED termVars
           \/ /\ heard /\ ~r.success
              /\ nextIndex' = [nextIndex EXCEPT ![s][r.to] = r.nextIndex - 1]
              /\ UNCHANGED <<termVars, matchIndex, commitIndex>>
           \/ /\ r.replyTerm <= r.term /\ ~heard
              /\ UNCHANGED <<termVars, leaderVars, commitIndex>>
        /\ UNCHANGED <<votesReceived, log, configVars, peers, lastKnownLeaderId, dispatchOut,
                       unlocked, adminVars, booting, unsubmitted>>

LoseRPC(r) ==
    /\ r.kind \in Lossy
    /\ rpcs' = rpcs \ {r}
    /\ UNCHANGED <<termVars, votesReceived, log, commitIndex, leaderVars, configVars, peers,
                   lastKnownLeaderId, dispatchOut, unlocked, adminVars, booting, unsubmitted>>

-----------------------------------------------------------------------------
\* AddServer and RemoveServer.  A call is a handler that a leader has started.

\* getLastKnownLeaderRaftAddr looks the last known leader up with operator[],
\* which inserts an id that is not there.
Insert(s) == [clusterConfig EXCEPT ![s] = @ \cup {lastKnownLeaderId[s]}]

\* Every answer but OK carries that address.
AnswerError(s) ==
    /\ clusterConfig' = Insert(s)
    /\ detached' = IF Insert(s) = clusterConfig THEN detached ELSE detached \cup {s}
    /\ UNCHANGED lastConfigChangeIndex

\* SERVER_EXISTS, SERVER_NOT_FOUND.
Pointless(s, op) == (ChangedId(op) \in clusterConfig[s]) = (op.kind = "ADD_SERVER")

MayCall(op) ==
    /\ ParallelCalls \/ calls = {}
    /\ Prompt => ChangedId(op) \notin booting

\* NOT_LEADER, or nothing to do.
RefuseCall(s, op) ==
    /\ MayCall(op)
    /\ role[s] # "Leader" \/ Pointless(s, op)
    /\ AnswerError(s)
    /\ UNCHANGED <<termVars, votesReceived, log, commitIndex, leaderVars, peers, lastKnownLeaderId,
                   dispatchOut, rpcs, unlocked, adminVars, booting, unsubmitted>>

BeginCall(s, op) ==
    /\ MayCall(op)
    /\ callsLeft > 0
    /\ role[s] = "Leader" /\ ~Pointless(s, op)
    /\ calls' = calls \cup {[at |-> s, change |-> op, phase |-> "waitPrev", prev |-> -1]}
    /\ callsLeft' = callsLeft - 1
    /\ UNCHANGED <<termVars, votesReceived, log, commitIndex, leaderVars, configVars, peers,
                   lastKnownLeaderId, dispatchOut, rpcs, unlocked, booting, unsubmitted>>

\* The last change that s knows of is not committed.
ChangePending(s) == lastConfigChangeIndex[s] > commitIndex[s]

\* The previous change is committed: note its index, and unlock.
PassPrev(c) ==
    /\ c.phase = "waitPrev"
    /\ ~ChangePending(c.at)
    /\ calls' = (calls \ {c}) \cup
                  {[c EXCEPT !.phase = "submit", !.prev = lastConfigChangeIndex[c.at]]}
    /\ UNCHANGED <<termVars, votesReceived, log, commitIndex, leaderVars, configVars, peers,
                   lastKnownLeaderId, dispatchOut, rpcs, unlocked, callsLeft, booting, unsubmitted>>

\* submit takes a change whatever the role is by now.
SubmitChange(c) ==
    /\ c.phase = "submit"
    /\ calls' = (calls \ {c}) \cup {[c EXCEPT !.phase = "waitCommit"]}
    /\ dispatchOut' = [dispatchOut EXCEPT ![c.at] = Append(@, c.change)]
    /\ UNCHANGED <<termVars, votesReceived, log, commitIndex, leaderVars, configVars, peers,
                   lastKnownLeaderId, rpcs, unlocked, callsLeft, booting, unsubmitted>>

\* AddServer gives up when the replica does not lead any more.
RoleLost(c) == c.change.kind = "ADD_SERVER" /\ role[c.at] # "Leader"

\* Mutation: any change will do, if it is committed.
NothingPending(c) == ~ChangePending(c.at)

\* A later change than the one noted is the last one, and committed.
ChangeCommitted(c) ==
    /\ c.prev < lastConfigChangeIndex[c.at]
    /\ ~ChangePending(c.at)

\* OK.  A leader that removed itself resigns, to the term -1.
AnswerOk(c) ==
    /\ c.phase = "waitCommit"
    /\ ~RoleLost(c)
    /\ ChangeCommitted(c)
    /\ calls' = calls \ {c}
    /\ IF c.change.kind = "REMOVE_SERVER" /\ c.change.id = c.at
       THEN BecomeFollower(c.at, -1)
       ELSE UNCHANGED termVars
    /\ UNCHANGED <<votesReceived, log, commitIndex, leaderVars, configVars, peers, lastKnownLeaderId,
                   dispatchOut, rpcs, unlocked, callsLeft, booting, unsubmitted>>

\* The change has not left the list that the raft thread takes its input from.
StillQueued(c) ==
    \/ \E i \in DOMAIN dispatchOut[c.at] : dispatchOut[c.at][i] = c.change
    \/ \E u \in unlocked : u.at = c.at

\* NOT_LEADER, PREV_NOT_COMMITTED_TIMEOUT and CUR_NOT_COMMITTED_TIMEOUT.  What was
\* submitted remains so.
GiveUp(c) ==
    /\ \/ c.phase = "waitPrev" /\ ChangePending(c.at)
       \/ c.phase = "waitCommit" /\ RoleLost(c)
       \/ /\ c.phase = "waitCommit" /\ ~RoleLost(c) /\ ~ChangeCommitted(c)
          /\ Prompt => ~StillQueued(c)
    /\ calls' = calls \ {c}
    /\ AnswerError(c.at)
    /\ UNCHANGED <<termVars, votesReceived, log, commitIndex, leaderVars, peers, lastKnownLeaderId,
                   dispatchOut, rpcs, unlocked, callsLeft, booting, unsubmitted>>

-----------------------------------------------------------------------------
Next ==
    \/ \E u \in unlocked : ResumeRound(u) \/ ResumeAppendEntries(u)
    \/ /\ Settled
       /\ \/ \E s \in Server :
                \/ FinishBoot(s)
                \/ StartElection(s)
                \/ \E op \in Op : Submit(s, op)
                \/ RunLeaderOneIter(s)
                \/ RaftImplOther(s)
                \/ \E op \in Change : RefuseCall(s, op) \/ BeginCall(s, op)
          \/ \E r \in Threads("request", "RequestVote") : RefuseStranger(r) \/ RequestVote(r)
          \/ \E r \in Threads("reply", "RequestVote") : RequestVoteReply(r)
          \/ \E r \in Threads("request", "AppendEntries") : AppendEntries(r)
          \/ \E r \in Threads("reply", "AppendEntries") : AppendEntriesReply(r)
          \/ \E r \in rpcs : LoseRPC(r)
          \/ \E c \in calls : PassPrev(c) \/ SubmitChange(c) \/ AnswerOk(c) \/ GiveUp(c)

Spec == Init /\ [][Next]_vars

-----------------------------------------------------------------------------
TypeOK ==
    /\ currentTerm \in [Server -> Nat \cup {-1}]
    /\ votedFor \in [Server -> Server \cup {Nil}]
    /\ role \in [Server -> {"Follower", "Candidate", "Leader"}]
    /\ votesReceived \in [Server -> Nat]
    /\ \A s \in Server : \A i \in DOMAIN log[s] :
          log[s][i].term \in Nat /\ log[s][i].op \in Op \cup Change
    /\ commitIndex \in [Server -> Nat \cup {-1}]
    /\ nextIndex \in [Server -> [Server -> Nat]]
    /\ matchIndex \in [Server -> [Server -> Nat \cup {-1}]]
    /\ clusterConfig \in [Server -> SUBSET Server]
    /\ lastConfigChangeIndex \in [Server -> Nat \cup {-1}]
    /\ peers \in [Server -> SUBSET Server]
    /\ lastKnownLeaderId \in [Server -> Server]
    /\ \A s \in Server : \A i \in DOMAIN dispatchOut[s] : dispatchOut[s][i] \in Op \cup Change
    /\ \A r \in rpcs : r.from \in Server /\ r.to \in Server \ {r.from} /\ r.term \in Nat
    /\ \A u \in unlocked : u.at \in Server /\ u.change \in Change
    /\ calls \subseteq [at : Server, change : Change, phase : {"waitPrev", "submit", "waitCommit"},
                        prev : Nat \cup {-1}]
    /\ booting \subseteq Server \ Members
    /\ unsubmitted \subseteq Op
    /\ callsLeft \in 0..MaxCalls
    /\ detached \subseteq Server

\* The changes in a log, by position, and the last one about an id.
ChangesIn(lg)   == {i \in DOMAIN lg : IsChange(lg[i].op)}
Latest(lg, id)  == {i \in ChangesIn(lg) : /\ ChangedId(lg[i].op) = id
                                          /\ \A j \in ChangesIn(lg) :
                                                ChangedId(lg[j].op) = id => j <= i}
\* The configuration that a log stands for.
ConfigOf(lg) ==
    {id \in Server : IF Latest(lg, id) = {} THEN id \in Members
                     ELSE \A i \in Latest(lg, id) : lg[i].op.kind = "ADD_SERVER"}

\* ClusterConfig, peers_ and LastConfigChangeIndex of a replica are what the
\* changes in its log make of the configuration file, at every moment at which
\* no loop of that replica has released the mutex.  Two things detach them from
\* the log, and nothing else: an AppendEntries that cuts a change off, which
\* undoes none of the three, and the lookup of an address that inserts a key.
ConfigFollowsLog ==
    \A s \in Server \ detached :
        (\A u \in unlocked : u.at # s) =>
            /\ clusterConfig[s] = ConfigOf(log[s])
            /\ s \notin booting => peers[s] = ConfigOf(log[s]) \ {s}
            /\ lastConfigChangeIndex[s] + 1 \in ChangesIn(log[s]) \cup {0}
            /\ \A i \in ChangesIn(log[s]) : i <= lastConfigChangeIndex[s] + 1

\* "wait until it is committed": when a leader answers OK, the change asked for is
\* below its CommitIndex, and the entry is in the logs of a majority of the
\* configuration after the change.  AddServer answers OK as a leader only.
\* RemoveServer does not look at the role while it waits, so a former leader may
\* answer OK when the entry that replaced the change is committed.
OkIsCommitted ==
    [][\A c \in calls :
          (AnswerOk(c) /\ role[c.at] = "Leader") =>
             \E i \in 1..(commitIndex[c.at] + 1) :
                /\ log[c.at][i].op = c.change
                /\ LET copies == {p \in clusterConfig[c.at] :
                                     i \in DOMAIN log[p] /\ log[p][i] = log[c.at][i]}
                   IN  2 * Cardinality(copies) > Cardinality(clusterConfig[c.at])]_vars

\* LogError("mismatch of index"): the entry that AppendEntries pushes next after
\* it released the mutex lands at the index it has in the leader's log.
IndexMatches ==
    \A u \in unlocked :
        (u.thread = "AppendEntries" /\ u.rest # <<>>) => Len(log[u.at]) = u.index

-----------------------------------------------------------------------------
\* Liveness.

\* Threads run, and an RPC that does not fail is served and answered.
ThreadStep ==
    \/ \E u \in unlocked : ResumeRound(u) \/ ResumeAppendEntries(u)
    \/ /\ Settled
       /\ \/ \E r \in Threads("request", "RequestVote") : RefuseStranger(r) \/ RequestVote(r)
          \/ \E r \in Threads("reply", "RequestVote") : RequestVoteReply(r)
          \/ \E r \in Threads("request", "AppendEntries") : AppendEntries(r)
          \/ \E r \in Threads("reply", "AppendEntries") : AppendEntriesReply(r)

\* The raft thread of a leader starts a round every 50 ms: only the bound on
\* stragglers ever disables it, hence SF.
Fairness ==
    /\ WF_vars(ThreadStep)
    /\ \A s \in MayStand \cup {First} : SF_vars(Settled /\ RunLeaderOneIter(s))

FairSpec == Spec /\ Fairness

\* "CatchUp happens using the usual AppendEntries RPC": the peers of a leader,
\* those that were added under it included, end up with all entries of its log
\* and reach its CommitIndex, once nothing is submitted and nobody stands for
\* election any more.  A peer may keep more entries for ever: AppendEntries cuts
\* a log only to push a new entry, and a new leader has none.
PeersCatchUp ==
    <>[](\A s \in Server : role[s] = "Leader" =>
            \A p \in peers[s] : IsPrefix(log[s], log[p]) /\ commitIndex[p] >= commitIndex[s])
=============================================================================
