--------------------------- MODULE OhMyRaftProofs ---------------------------
(***************************************************************************)
(* Proofs about OhMyRaft, for every set of replicas and operations, every  *)
(* bootstrap state and every bound: its types, what leaders do to their    *)
(* logs, and elections.                                                    *)
(***************************************************************************)
EXTENDS OhMyRaft, FiniteSetTheorems, SequenceTheorems, TLAPS

-----------------------------------------------------------------------------
(***************************************************************************)
(* Types.  TypeOK is not inductive: NextIndex of a peer is decremented when *)
(* the peer refuses, and stays a natural number because a request with     *)
(* NextIndex 0 is refused only by a peer of a later term.                  *)
(***************************************************************************)
Refused(r) == r \in AppendReplies /\ ~r.success /\ r.replyTerm = r.term

RefusedAboveZero == \A r \in rpcs : Refused(r) => r.nextIndex >= 1

TypeInv == TypeOK /\ RefusedAboveZero

\* The kinds of threads have different records.
LEMMA ThreadKinds ==
    ASSUME NEW r \in RPC
    PROVE  /\ r.from \in Server /\ r.to \in Server /\ r.term \in Term
           /\ r.phase = "spawned" => r \in SpawnedThread
           /\ (r.phase = "request" /\ r.kind = "RequestVote") => r \in VoteRequests
           /\ (r.phase = "reply" /\ r.kind = "RequestVote") => r \in VoteReplies
           /\ (r.phase = "request" /\ r.kind = "AppendEntries") => r \in AppendRequests
           /\ (r.phase = "reply" /\ r.kind = "AppendEntries") => r \in AppendReplies
  BY DEF RPC, SpawnedThread, VoteRequests, VoteReplies, AppendRequests, AppendReplies

\* The elements of a log.
LEMMA EntriesOfLog ==
    ASSUME NEW lg \in Seq(Entry), NEW i \in 1..Len(lg)
    PROVE  lg[i] \in Entry /\ lg[i].term \in Nat /\ lg[i].op \in Op
  <1>1. lg[i] \in Entry
    OBVIOUS
  <1> QED BY <1>1 DEF Entry

\* The end of a log, as a message carries it.
LEMMA LogEnd ==
    ASSUME NEW lg \in Seq(Entry)
    PROVE  LastLogIndex(lg) \in Index /\ LastLogTerm(lg) \in Index
  <1>1. Len(lg) \in Nat
    OBVIOUS
  <1>2. LastLogIndex(lg) \in Index
    BY <1>1 DEF LastLogIndex, Index
  <1>3. ASSUME lg # <<>> PROVE lg[Len(lg)].term \in Nat
    <2>1. Len(lg) \in DOMAIN lg
      BY <1>3
    <2>2. lg[Len(lg)] \in Entry
      BY <2>1
    <2> QED BY <2>2 DEF Entry
  <1> QED BY <1>2, <1>3 DEF LastLogTerm, Index

\* The size of a set of integers between two bounds.
LEMMA IntervalSubset ==
    ASSUME NEW a \in Int, NEW b \in Int, NEW S \in SUBSET (a..b)
    PROVE  /\ IsFiniteSet(S)
           /\ Cardinality(S) \in Nat
           /\ a <= b => Cardinality(S) <= b - a + 1
           /\ a > b => Cardinality(S) = 0
  <1>1. IsFiniteSet(a..b) /\ Cardinality(a..b) = IF a > b THEN 0 ELSE b - a + 1
    BY FS_Interval
  <1>2. IsFiniteSet(S) /\ Cardinality(S) <= Cardinality(a..b)
    BY <1>1, FS_Subset
  <1>3. Cardinality(S) \in Nat
    BY <1>2, FS_CardinalityType
  <1> QED BY <1>1, <1>2, <1>3

LEMMA InitialSubset ==
    ASSUME NEW n \in Nat, NEW S \in SUBSET (1..n)
    PROVE  Cardinality(S) \in Nat /\ Cardinality(S) <= n
  <1>1. n \in Int /\ 1 \in Int
    OBVIOUS
  <1>2. Cardinality(S) \in Nat
    BY <1>1, IntervalSubset
  <1>3. 1 <= n => Cardinality(S) <= n - 1 + 1
    BY <1>1, IntervalSubset
  <1>4. 1 > n => Cardinality(S) = 0
    BY <1>1, IntervalSubset
  <1> QED BY <1>2, <1>3, <1>4

\* The agreeing entries are among those sent and among those the log has.
LEMMA AgreeingRange ==
    ASSUME NEW lg \in Seq(Entry), NEW es \in Seq(Entry), NEW prev \in Index,
           prev < Len(lg)
    PROVE  /\ Agreeing(lg, prev, es) \in 0..Len(es)
           /\ prev + 1 + Agreeing(lg, prev, es) <= Len(lg)
  <1> DEFINE A == {j \in 1..Len(es) : \A k \in 1..j :
                      prev + 1 + k <= Len(lg) /\ lg[prev + 1 + k].term = es[k].term}
             w == Len(es)
             m == Len(lg) - prev - 1
  <1>1. w \in Nat /\ m \in Nat
    BY DEF Index
  <1>2. A \in SUBSET (1..w) /\ A \in SUBSET (1..m)
    BY <1>1 DEF Index
  <1>3. Agreeing(lg, prev, es) = Cardinality(A)
    BY DEF Agreeing
  <1>4. w = Len(es) /\ m = Len(lg) - prev - 1
    OBVIOUS
  <1> HIDE DEF A, w, m
  <1>5. Cardinality(A) \in Nat /\ Cardinality(A) <= w
    BY <1>1, <1>2, InitialSubset
  <1>6. Cardinality(A) <= m
    BY <1>1, <1>2, InitialSubset
  <1> QED BY <1>1, <1>3, <1>4, <1>5, <1>6 DEF Index

\* What AppendEntries makes of a log is a log.
LEMMA MergeType ==
    ASSUME NEW lg \in Seq(Entry), NEW es \in Seq(Entry), NEW prev \in Index,
           prev < Len(lg)
    PROVE  Merge(lg, prev, es) \in Seq(Entry)
  <1> DEFINE n == Agreeing(lg, prev, es)
  <1>1. n \in 0..Len(es) /\ prev + 1 + n <= Len(lg)
    BY AgreeingRange
  <1>2. SubSeq(lg, 1, prev + 1 + n) \in Seq(Entry) /\ SubSeq(es, n + 1, Len(es)) \in Seq(Entry)
    BY <1>1 DEF Index
  <1> QED BY <1>1, <1>2 DEF Merge

\* The new CommitIndex lies in the log and does not move back.
LEMMA NewCommitIndexRange ==
    ASSUME NEW s \in Server, NEW match, commitIndex[s] \in Index, log[s] \in Seq(Entry)
    PROVE  /\ NewCommitIndex(s, match) \in Index
           /\ NewCommitIndex(s, match) >= commitIndex[s]
           /\ \/ NewCommitIndex(s, match) = commitIndex[s]
              \/ NewCommitIndex(s, match) <= LastLogIndex(log[s])
  <1> DEFINE c == commitIndex[s]
             l == LastLogIndex(log[s])
             A == {i \in (c + 1)..l : \E j \in Committable(s, match) : i <= j}
  <1>1. c \in Int /\ l \in Int /\ A \in SUBSET ((c + 1)..l)
    BY DEF Index, LastLogIndex
  <1>2. NewCommitIndex(s, match) = c + Cardinality(A)
    BY DEF NewCommitIndex
  <1>3. c >= -1 /\ l >= -1
    BY DEF Index, LastLogIndex
  <1> HIDE DEF A, c, l
  <1>4. /\ Cardinality(A) \in Nat
        /\ c + 1 <= l => Cardinality(A) <= l - c
        /\ c + 1 > l => Cardinality(A) = 0
    <2>1. c + 1 \in Int
      BY <1>1
    <2>2. /\ Cardinality(A) \in Nat
          /\ c + 1 <= l => Cardinality(A) <= l - (c + 1) + 1
          /\ c + 1 > l => Cardinality(A) = 0
      BY <1>1, <2>1, IntervalSubset
    <2> QED BY <1>1, <2>2
  <1>5. /\ NewCommitIndex(s, match) \in Index
        /\ NewCommitIndex(s, match) >= c
        /\ NewCommitIndex(s, match) = c \/ NewCommitIndex(s, match) <= l
    BY <1>1, <1>2, <1>3, <1>4 DEF Index
  <1> QED BY <1>5 DEF c, l

\* The initial states have the types.
LEMMA InitTypeInv == Init => TypeInv
  <1> SUFFICES ASSUME Init PROVE TypeInv
    OBVIOUS
  <1>1. /\ currentTerm \in [Server -> Term]
        /\ votedFor \in [Server -> Server \cup {Nil}]
        /\ log \in [Server -> Seq(Entry)]
        /\ role \in [Server -> {"Follower", "Candidate", "Leader"}]
        /\ commitIndex \in [Server -> Index]
        /\ lastApplied \in [Server -> Index]
        /\ votesReceived \in [Server -> Nat]
    BY BootstrapAssumption DEF Init, Term, Index
  <1>2. /\ DOMAIN nextIndex = Server
        /\ \A s \in Server : nextIndex[s] \in [Peers(s) -> Nat]
        /\ DOMAIN matchIndex = Server
        /\ \A s \in Server : matchIndex[s] \in [Peers(s) -> Index]
    BY DEF Init, Index
  <1>3. /\ dispatchOut \in [Server -> Seq(Op)]
        /\ raftIn \in [Server -> Seq(Op)]
        /\ inRound \in [Server -> BOOLEAN]
        /\ raftOut \in [Server -> Seq(Op)]
        /\ rpcs = {} /\ unsubmitted \subseteq Op /\ crashes \in Nat
        /\ voted = {} /\ elections = {} /\ committed = {}
    BY DEF Init
  <1> QED BY <1>1, <1>2, <1>3 DEF TypeInv, TypeOK, RefusedAboveZero

-----------------------------------------------------------------------------
\* What the threads put into rpcs.
LEMMA SpawnedType ==
    ASSUME NEW kind \in {"RequestVote", "AppendEntries"}, NEW s \in Server, NEW p \in Server,
           NEW term \in Term
    PROVE  Spawned(kind, s, p, term) \in SpawnedThread
  BY DEF Spawned, SpawnedThread

LEMMA VoteRequestType ==
    ASSUME NEW r \in SpawnedThread, NEW lg \in Seq(Entry)
    PROVE  VoteRequest(r, lg) \in VoteRequests
  BY LogEnd DEF VoteRequest, VoteRequests, SpawnedThread

LEMMA VoteReplyType ==
    ASSUME NEW r \in VoteRequests, NEW term \in Term, NEW granted \in BOOLEAN
    PROVE  VoteReply(r, term, granted) \in VoteReplies
  BY DEF VoteReply, VoteReplies, VoteRequests

LEMMA AppendRequestType ==
    ASSUME NEW r \in SpawnedThread, NEW next \in Nat, NEW prevTerm \in Index,
           NEW entries \in Seq(Entry), NEW leaderCommit \in Index
    PROVE  AppendRequest(r, next, prevTerm, entries, leaderCommit)
             \in [phase : {"request"}, kind : {"AppendEntries"}, from : Server, to : Server,
                  term : Term, prevLogIndex : Index, prevLogTerm : Index,
                  entries : Seq(Entry), leaderCommit : Index]
  <1>1. next - 1 \in Index
    BY DEF Index
  <1> QED BY <1>1 DEF AppendRequest, SpawnedThread

LEMMA AppendReplyType ==
    ASSUME NEW r \in AppendRequests, NEW term \in Term, NEW success \in BOOLEAN
    PROVE  /\ AppendReply(r, term, success) \in AppendReplies
           /\ AppendReply(r, term, success).nextIndex = r.prevLogIndex + 1
  <1>1. r.prevLogIndex + 1 \in Nat /\ Len(r.entries) \in Nat
    BY DEF AppendRequests, Index
  <1> QED BY <1>1 DEF AppendReply, AppendReplies, AppendRequests

-----------------------------------------------------------------------------
\* One lemma per action, or per group of actions that do the same to the types.
\* What a step does to rpcs:
RpcsOK == rpcs \subseteq RPC /\ (\A r \in rpcs : r.from # r.to) /\ RefusedAboveZero

\* A step that only ends threads.
LEMMA FewerThreads ==
    ASSUME RpcsOK, rpcs' \subseteq rpcs
    PROVE  RpcsOK'
  BY DEF RpcsOK, RefusedAboveZero

\* A step that adds threads that are not refusals.
LEMMA MoreThreads ==
    ASSUME RpcsOK, NEW new, rpcs' \subseteq rpcs \cup new,
           \A r \in new : r \in RPC /\ r.from # r.to /\ (Refused(r) => r.nextIndex >= 1)
    PROVE  RpcsOK'
  <1>1. \A r \in rpcs' : r \in RPC /\ r.from # r.to /\ (Refused(r) => r.nextIndex >= 1)
    BY DEF RpcsOK, RefusedAboveZero
  <1> QED BY <1>1 DEF RpcsOK, RefusedAboveZero

\* A thread that goes on to its next phase.
LEMMA NextPhase ==
    ASSUME RpcsOK, NEW r, NEW q \in RPC, rpcs' = (rpcs \ {r}) \cup {q},
           q.from # q.to, Refused(q) => q.nextIndex >= 1
    PROVE  RpcsOK'
  <1>1. \A p \in rpcs' : p \in RPC /\ p.from # p.to /\ (Refused(p) => p.nextIndex >= 1)
    BY DEF RpcsOK, RefusedAboveZero
  <1> QED BY <1>1 DEF RpcsOK, RefusedAboveZero

\* The threads that startElection and runLeaderOneIter spawn.
LEMMA SpawnedThreads ==
    ASSUME RpcsOK, NEW kind \in {"RequestVote", "AppendEntries"}, NEW s \in Server,
           NEW term \in Term,
           rpcs' = rpcs \cup {Spawned(kind, s, p, term) : p \in Peers(s)}
    PROVE  RpcsOK'
  <1> DEFINE new == {Spawned(kind, s, p, term) : p \in Peers(s)}
  <1>1. \A p \in Peers(s) : /\ Spawned(kind, s, p, term) \in SpawnedThread
                            /\ Spawned(kind, s, p, term).from # Spawned(kind, s, p, term).to
    BY SpawnedType DEF Peers, Spawned
  <1>2. \A r \in SpawnedThread : r \in RPC /\ ~Refused(r)
    BY DEF RPC, Refused, SpawnedThread, AppendReplies
  <1>3. \A r \in new : r \in RPC /\ r.from # r.to /\ ~Refused(r)
    BY <1>1, <1>2
  <1> QED BY <1>3, MoreThreads

LEMMA TypeStartElection ==
    ASSUME TypeInv, NEW s \in Server, StartElection(s)
    PROVE  TypeInv'
  <1>1. currentTerm[s] + 1 \in Term
    BY DEF TypeInv, TypeOK, Term
  <1>2. RpcsOK'
    BY <1>1, SpawnedThreads DEF StartElection, TypeInv, TypeOK, RpcsOK
  <1>3. /\ currentTerm' \in [Server -> Term]
        /\ votedFor' \in [Server -> Server \cup {Nil}]
        /\ role' \in [Server -> {"Follower", "Candidate", "Leader"}]
        /\ votesReceived' \in [Server -> Nat]
        /\ voted' \subseteq [voter : Server, term : Term, candidate : Server]
    BY <1>1 DEF StartElection, BecomeCandidate, Vote, TypeInv, TypeOK
  <1> QED BY <1>2, <1>3 DEF StartElection, TypeInv, TypeOK, RpcsOK, RefusedAboveZero,
                            applyVars, leaderVars, inputVars, envVars

LEMMA TypeSendRequestVote ==
    ASSUME TypeInv, NEW r \in Threads("spawned", "RequestVote"), SendRequestVote(r)
    PROVE  TypeInv'
  <1>1. r \in SpawnedThread /\ r.from # r.to
    BY ThreadKinds DEF Threads, TypeInv, TypeOK
  <1>2. log[r.from] \in Seq(Entry)
    BY <1>1 DEF TypeInv, TypeOK, SpawnedThread
  <1> DEFINE q == VoteRequest(r, log[r.from])
  <1>3. q \in VoteRequests
    BY <1>1, <1>2, VoteRequestType
  <1>4. q \in RPC /\ q.from # q.to /\ ~Refused(q)
    BY <1>1, <1>3 DEF RPC, VoteRequest, VoteRequests, Refused, AppendReplies
  <1>5. RpcsOK /\ rpcs' = (rpcs \ {r}) \cup {q}
    BY DEF SendRequestVote, TypeInv, TypeOK, RpcsOK
  <1>6. RpcsOK'
    BY <1>4, <1>5, NextPhase
  <1> QED BY <1>6 DEF SendRequestVote, TypeInv, TypeOK, RpcsOK, RefusedAboveZero, persistentVars,
                      applyVars, leaderVars, inputVars, envVars, historyVars

LEMMA TypeRequestVote ==
    ASSUME TypeInv, NEW r \in Threads("request", "RequestVote"), RequestVote(r)
    PROVE  TypeInv'
  <1>1. r \in VoteRequests /\ r.from # r.to
    BY ThreadKinds DEF Threads, TypeInv, TypeOK
  <1>2. r.from \in Server /\ r.to \in Server /\ r.term \in Term
    BY <1>1 DEF VoteRequests
  <1> DEFINE s       == r.to
             term    == IF Newer(r) THEN r.term ELSE currentTerm[s]
             vote    == IF Newer(r) THEN Nil ELSE votedFor[s]
             granted == r.term = term /\ MayVote(vote, r.from) /\ UpToDate(r, log[s])
             q       == VoteReply(r, term, granted)
  <1>3. term \in Term /\ granted \in BOOLEAN
    BY <1>2 DEF TypeInv, TypeOK
  <1>4. q \in VoteReplies
    BY <1>1, <1>3, VoteReplyType
  <1>5. q \in RPC /\ q.from # q.to /\ ~Refused(q)
    BY <1>1, <1>4 DEF RPC, VoteReply, VoteReplies, Refused, AppendReplies
  <1>6. RpcsOK /\ rpcs' = (rpcs \ {r}) \cup {q}
    BY DEF RequestVote, TypeInv, TypeOK, RpcsOK
  <1>7. RpcsOK'
    BY <1>5, <1>6, NextPhase
  <1>8. currentTerm' \in [Server -> Term]
    BY <1>2, <1>3 DEF RequestVote, TypeInv, TypeOK
  <1>9. votedFor' \in [Server -> Server \cup {Nil}]
    <2>1. vote \in Server \cup {Nil}
      BY <1>2 DEF TypeInv, TypeOK
    <2>2. votedFor' = [votedFor EXCEPT ![s] = IF granted THEN r.from ELSE vote]
      BY DEF RequestVote
    <2> QED BY <1>2, <2>1, <2>2 DEF TypeInv, TypeOK
  <1>10. role' \in [Server -> {"Follower", "Candidate", "Leader"}]
    BY <1>2 DEF RequestVote, TypeInv, TypeOK
  <1>11. voted' \subseteq [voter : Server, term : Term, candidate : Server]
    <2>1. voted' \subseteq voted \cup {Vote(s, term, r.from)}
      BY DEF RequestVote
    <2>2. voted \subseteq [voter : Server, term : Term, candidate : Server]
      BY DEF TypeInv, TypeOK
    <2>3. Vote(s, term, r.from) \in [voter : Server, term : Term, candidate : Server]
      BY <1>2, <1>3 DEF Vote
    <2> HIDE DEF term, s
    <2> QED BY <2>1, <2>2, <2>3
  <1> QED BY <1>7, <1>8, <1>9, <1>10, <1>11
          DEF RequestVote, TypeInv, TypeOK, RpcsOK, RefusedAboveZero,
              applyVars, leaderVars, inputVars, envVars

LEMMA TypeRequestVoteReply ==
    ASSUME TypeInv, NEW r \in Threads("reply", "RequestVote"), RequestVoteReply(r)
    PROVE  TypeInv'
  <1>1. r \in VoteReplies
    BY ThreadKinds DEF Threads, TypeInv, TypeOK
  <1>2. r.from \in Server /\ r.replyTerm \in Term
    BY <1>1 DEF VoteReplies
  <1>3. RpcsOK'
    BY FewerThreads DEF RequestVoteReply, TypeInv, TypeOK, RpcsOK
  <1>4. log[r.from] \in Seq(Entry) /\ Len(log[r.from]) \in Nat
    BY <1>2 DEF TypeInv, TypeOK
  <1> DEFINE s == r.from
  <1>5. /\ currentTerm' \in [Server -> Term]
        /\ votedFor' \in [Server -> Server \cup {Nil}]
        /\ role' \in [Server -> {"Follower", "Candidate", "Leader"}]
        /\ votesReceived' \in [Server -> Nat]
    <2>1. CASE UNCHANGED <<currentTerm, votedFor, role, votesReceived>>
      BY <2>1 DEF TypeInv, TypeOK
    <2>2. CASE BecomeFollower(s, r.replyTerm) /\ UNCHANGED votesReceived
      BY <1>2, <2>2 DEF BecomeFollower, TypeInv, TypeOK
    <2>3. CASE /\ votesReceived' = [votesReceived EXCEPT ![s] = @ + 1]
               /\ BecomeLeader(s) \/ UNCHANGED <<votedFor, role>>
               /\ UNCHANGED currentTerm
      <3>1. votesReceived' \in [Server -> Nat] /\ currentTerm' \in [Server -> Term]
        BY <1>2, <2>3 DEF TypeInv, TypeOK
      <3>2. /\ votedFor' \in [Server -> Server \cup {Nil}]
            /\ role' \in [Server -> {"Follower", "Candidate", "Leader"}]
        BY <1>2, <2>3 DEF BecomeLeader, TypeInv, TypeOK
      <3> QED BY <3>1, <3>2
    <2> QED BY <2>1, <2>2, <2>3 DEF RequestVoteReply
  <1>6. /\ DOMAIN nextIndex' = Server
        /\ \A p \in Server : nextIndex'[p] \in [Peers(p) -> Nat]
        /\ DOMAIN matchIndex' = Server
        /\ \A p \in Server : matchIndex'[p] \in [Peers(p) -> Index]
    <2>1. CASE UNCHANGED leaderVars
      BY <2>1 DEF TypeInv, TypeOK, leaderVars
    <2>2. CASE BecomeLeader(s)
      BY <1>2, <1>4, <2>2 DEF BecomeLeader, TypeInv, TypeOK, Index
    <2> QED BY <2>1, <2>2 DEF RequestVoteReply
  <1>7. elections' \subseteq [term : Term, leader : Server, log : Seq(Entry), voters : SUBSET Server]
    <2>1. \/ elections' = elections
          \/ elections' = elections \cup {[term |-> currentTerm[s], leader |-> s, log |-> log[s],
                                           voters |-> Voters(s, currentTerm[s])]}
      BY DEF RequestVoteReply
    <2>2. Voters(s, currentTerm[s]) \in SUBSET Server
      BY DEF Voters
    <2> QED BY <1>2, <1>4, <2>1, <2>2, SMTT(30) DEF TypeInv, TypeOK
  <1> QED BY <1>3, <1>5, <1>6, <1>7
          DEF RequestVoteReply, TypeInv, TypeOK, RpcsOK, RefusedAboveZero,
              applyVars, inputVars, envVars

LEMMA TypeInput ==
    ASSUME TypeInv, NEW s \in Server,
           (\E op \in Op : Submit(s, op)) \/ RaftImplLeader(s) \/ RaftImplOther(s)
    PROVE  TypeInv'
  <1>1. /\ dispatchOut' \in [Server -> Seq(Op)]
        /\ raftIn' \in [Server -> Seq(Op)]
        /\ inRound' \in [Server -> BOOLEAN]
        /\ unsubmitted' \subseteq Op
    <2>1. CASE \E op \in Op : Submit(s, op)
      BY <2>1 DEF Submit, TypeInv, TypeOK
    <2>2. CASE RaftImplLeader(s)
      BY <2>2 DEF RaftImplLeader, TypeInv, TypeOK, envVars
    <2>3. CASE RaftImplOther(s)
      BY <2>3 DEF RaftImplOther, TypeInv, TypeOK, envVars
    <2> QED BY <2>1, <2>2, <2>3
  <1> QED BY <1>1 DEF Submit, RaftImplLeader, RaftImplOther, TypeInv, TypeOK, RefusedAboveZero,
                      persistentVars, applyVars, leaderVars, envVars, historyVars

\* Operations under the current term are entries.
LEMMA AppendedType ==
    ASSUME TypeInv, NEW s \in Server, NEW n \in 0..Len(raftIn[s])
    PROVE  Appended(s, n) \in Seq(Entry)
  <1>1. raftIn[s] \in Seq(Op) /\ currentTerm[s] \in Nat
    BY DEF TypeInv, TypeOK, Term
  <1>2. \A i \in 1..n : [term |-> currentTerm[s], op |-> raftIn[s][i]] \in Entry
    BY <1>1 DEF Entry
  <1>3. n \in Nat
    BY <1>1
  <1> QED BY <1>2, <1>3 DEF Appended

LEMMA TypeRunLeaderOneIter ==
    ASSUME TypeInv, NEW s \in Server, RunLeaderOneIter(s)
    PROVE  TypeInv'
  <1>1. currentTerm[s] \in Term /\ Len(raftIn[s]) \in 0..Len(raftIn[s]) /\ log[s] \in Seq(Entry)
    BY DEF TypeInv, TypeOK
  <1>2. Appended(s, Len(raftIn[s])) \in Seq(Entry)
    BY <1>1, AppendedType
  <1>3. RpcsOK'
    BY <1>1, SpawnedThreads DEF RunLeaderOneIter, TypeInv, TypeOK, RpcsOK
  <1>4. log[s] \o Appended(s, Len(raftIn[s])) \in Seq(Entry)
    BY <1>1, <1>2
  <1>5. /\ log' \in [Server -> Seq(Entry)]
        /\ raftIn' \in [Server -> Seq(Op)]
        /\ inRound' \in [Server -> BOOLEAN]
    BY <1>4 DEF RunLeaderOneIter, TypeInv, TypeOK
  <1> QED BY <1>3, <1>5 DEF RunLeaderOneIter, TypeInv, TypeOK, RpcsOK, RefusedAboveZero,
                            applyVars, leaderVars, envVars, historyVars

LEMMA TypeSendAppendEntries ==
    ASSUME TypeInv, NEW r \in Threads("spawned", "AppendEntries"), SendAppendEntries(r)
    PROVE  TypeInv'
  <1> DEFINE s    == r.from
             next == nextIndex[s][r.to]
             es   == SubSeq(log[s], next + 1, Len(log[s]))
  <1>1. r \in SpawnedThread /\ r.from # r.to
    BY ThreadKinds DEF Threads, TypeInv, TypeOK
  <1>2. s \in Server /\ r.to \in Peers(s)
    BY <1>1 DEF SpawnedThread, Peers
  <1>3. next \in Nat /\ log[s] \in Seq(Entry) /\ commitIndex[s] \in Index
    BY <1>2 DEF TypeInv, TypeOK
  <1>4. es \in Seq(Entry)
    BY <1>3
  <1>5. PICK prevTerm \in PrevLogTerms(log[s], next) :
           rpcs' = (rpcs \ {r}) \cup {AppendRequest(r, next, prevTerm, es, commitIndex[s])}
    BY DEF SendAppendEntries
  <1>6. prevTerm \in Index
    <2>1. \A i \in 1..Len(log[s]) : log[s][i].term \in Nat
      BY <1>3, EntriesOfLog
    <2>2. CASE next = 0
      BY <1>5, <2>2 DEF PrevLogTerms, Index
    <2>3. CASE next \in 1..Len(log[s])
      BY <1>5, <2>1, <2>3 DEF PrevLogTerms, Index
    <2>4. CASE next # 0 /\ next \notin 1..Len(log[s])
      BY <1>5, <2>4, BoundAssumption DEF PrevLogTerms, Index
    <2> QED BY <2>2, <2>3, <2>4
  <1> DEFINE q == AppendRequest(r, next, prevTerm, es, commitIndex[s])
  <1>7. q \in AppendRequests
    BY <1>1, <1>3, <1>4, <1>6, AppendRequestType DEF AppendRequests
  <1>8. q \in RPC /\ q.from # q.to /\ ~Refused(q)
    BY <1>1, <1>7 DEF RPC, AppendRequest, AppendRequests, Refused, AppendReplies
  <1>9. RpcsOK /\ rpcs' = (rpcs \ {r}) \cup {q}
    BY <1>5 DEF TypeInv, TypeOK, RpcsOK
  <1>10. RpcsOK'
    BY <1>8, <1>9, NextPhase
  <1> QED BY <1>10 DEF SendAppendEntries, TypeInv, TypeOK, RpcsOK, RefusedAboveZero, persistentVars,
                       applyVars, leaderVars, inputVars, envVars, historyVars

\* Applying entries that the log has.
LEMMA TypeApply ==
    ASSUME TypeInv, NEW s \in Server, NEW lg \in Seq(Entry), NEW commit \in Index,
           commit <= LastLogIndex(lg), Apply(s, lg, commit)
    PROVE  /\ commitIndex' \in [Server -> Index]
           /\ lastApplied' \in [Server -> Index]
           /\ raftOut' \in [Server -> Seq(Op)]
  <1> DEFINE l    == lastApplied[s]
             outs == [i \in 1..(commit - l) |-> lg[l + 1 + i].op]
  <1>1. l \in Index /\ raftOut[s] \in Seq(Op)
    BY DEF TypeInv, TypeOK
  <1>2. outs \in Seq(Op)
    <2>1. \A i \in 1..(commit - l) : l + 1 + i \in 1..Len(lg)
      BY <1>1, SMTT(30) DEF Index, LastLogIndex
    <2>2. \A i \in 1..(commit - l) : lg[l + 1 + i].op \in Op
      BY <2>1, EntriesOfLog
    <2>3. CASE commit - l \in Nat
      BY <2>2, <2>3
    <2>4. CASE commit - l < 0
      <3>1. 1..(commit - l) = 1..0
        BY <1>1, <2>4 DEF Index
      <3>2. outs = <<>> /\ <<>> \in Seq(Op)
        BY <3>1
      <3> HIDE DEF outs
      <3> QED BY <3>2
    <2> QED BY <1>1, <2>3, <2>4 DEF Index
  <1>3. raftOut[s] \o outs \in Seq(Op)
    BY <1>1, <1>2
  <1> QED BY <1>3 DEF Apply, TypeInv, TypeOK

LEMMA TypeAppendEntries ==
    ASSUME TypeInv, NEW r \in Threads("request", "AppendEntries"), AppendEntries(r)
    PROVE  TypeInv'
  <1> DEFINE s      == r.to
             newLog == IF Accepted(r) THEN Merge(log[s], r.prevLogIndex, r.entries) ELSE log[s]
             least  == IF r.leaderCommit < Len(newLog) THEN r.leaderCommit
                                                       ELSE LastLogIndex(newLog)
             q      == AppendReply(r, currentTerm'[s], Accepted(r))
  <1>1. r \in AppendRequests /\ r.from # r.to
    BY ThreadKinds DEF Threads, TypeInv, TypeOK
  <1>2. /\ r.from \in Server /\ s \in Server /\ r.term \in Term
        /\ r.prevLogIndex \in Index /\ r.entries \in Seq(Entry) /\ r.leaderCommit \in Index
    BY <1>1 DEF AppendRequests
  <1>3. /\ log[s] \in Seq(Entry) /\ Len(log[s]) \in Nat /\ currentTerm[s] \in Term
    BY <1>2 DEF TypeInv, TypeOK
  <1>4. newLog \in Seq(Entry)
    <2>1. CASE Accepted(r)
      <3>1. r.prevLogIndex < Len(log[s])
        BY <1>2, <1>3, <2>1 DEF Accepted, PrevMatches, LastLogIndex
      <3> QED BY <1>2, <1>3, <2>1, <3>1, MergeType
    <2> QED BY <1>3, <2>1
  <1> HIDE DEF newLog
  <1>5. least \in Index /\ least <= LastLogIndex(newLog)
    <2>1. Len(newLog) \in Nat
      BY <1>4
    <2> QED BY <1>2, <2>1 DEF LastLogIndex, Index
  <1>6. /\ currentTerm' \in [Server -> Term]
        /\ votedFor' \in [Server -> Server \cup {Nil}]
        /\ role' \in [Server -> {"Follower", "Candidate", "Leader"}]
    <2>1. CASE StepsDown(r)
      BY <1>2, <2>1 DEF AppendEntries, BecomeFollower, TypeInv, TypeOK
    <2>2. CASE ~StepsDown(r)
      BY <2>2 DEF AppendEntries, TypeInv, TypeOK
    <2> QED BY <2>1, <2>2
  <1>7. log' \in [Server -> Seq(Entry)]
    <2>1. log' = [log EXCEPT ![s] = newLog]
      BY DEF AppendEntries, newLog
    <2> QED BY <1>4, <2>1 DEF TypeInv, TypeOK
  <1>8. /\ commitIndex' \in [Server -> Index]
        /\ lastApplied' \in [Server -> Index]
        /\ raftOut' \in [Server -> Seq(Op)]
    <2>1. CASE Apply(s, newLog, least)
      BY <1>2, <1>4, <1>5, <2>1, TypeApply
    <2>2. CASE UNCHANGED applyVars
      BY <2>2 DEF applyVars, TypeInv, TypeOK
    <2> QED BY <2>1, <2>2 DEF AppendEntries, newLog
  <1>9. RpcsOK'
    <2>1. currentTerm'[s] \in Term /\ Accepted(r) \in BOOLEAN
      BY <1>2, <1>6 DEF Accepted
    <2>2. q \in AppendReplies /\ q.nextIndex = r.prevLogIndex + 1
      BY <1>1, <2>1, AppendReplyType
    <2>3. q.from # q.to /\ q.term = r.term /\ q.replyTerm = currentTerm'[s] /\ q.success = Accepted(r)
      BY <1>1 DEF AppendReply
    <2>4. ASSUME ~Accepted(r), currentTerm'[s] = r.term PROVE r.prevLogIndex + 1 >= 1
      <3>1. CASE r.term < currentTerm[s]
        <4>1. ~StepsDown(r)
          BY <1>2, <1>3, <3>1 DEF StepsDown, Newer, Term
        <4>2. currentTerm'[s] = currentTerm[s]
          BY <4>1 DEF AppendEntries
        <4> QED BY <1>2, <1>3, <2>4, <3>1, <4>2 DEF Term
      <3>2. CASE r.term >= currentTerm[s]
        <4>1. r.prevLogIndex # -1
          BY <2>4, <3>2 DEF Accepted, PrevMatches
        <4> QED BY <1>2, <4>1 DEF Index
      <3> QED BY <1>2, <1>3, <3>1, <3>2 DEF Term
    <2>5. Refused(q) => q.nextIndex >= 1
      BY <2>2, <2>3, <2>4 DEF Refused
    <2>6. q \in RPC
      BY <2>2 DEF RPC
    <2>7. RpcsOK /\ rpcs' = (rpcs \ {r}) \cup {q}
      BY DEF AppendEntries, TypeInv, TypeOK, RpcsOK
    <2> QED BY <2>3, <2>5, <2>6, <2>7, NextPhase
  <1> QED BY <1>6, <1>7, <1>8, <1>9 DEF AppendEntries, TypeInv, TypeOK, RpcsOK, RefusedAboveZero,
                                        leaderVars, inputVars, envVars, historyVars

LEMMA TypeAppendEntriesReply ==
    ASSUME TypeInv, NEW r \in Threads("reply", "AppendEntries"), AppendEntriesReply(r)
    PROVE  TypeInv'
  <1> DEFINE s      == r.from
             match  == [matchIndex[s] EXCEPT ![r.to] = NextAfter(r) - 1]
             commit == NewCommitIndex(s, match)
  <1>1. r \in AppendReplies /\ r.from # r.to /\ (Refused(r) => r.nextIndex >= 1)
    BY ThreadKinds DEF Threads, TypeInv, TypeOK, RefusedAboveZero
  <1>2. /\ s \in Server /\ r.to \in Peers(s) /\ r.term \in Term /\ r.replyTerm \in Term
        /\ r.nextIndex \in Nat /\ r.count \in Nat /\ r.success \in BOOLEAN
    BY <1>1 DEF AppendReplies, Peers
  <1>3. /\ commitIndex[s] \in Index /\ log[s] \in Seq(Entry) /\ currentTerm[s] \in Term
        /\ matchIndex[s] \in [Peers(s) -> Index] /\ nextIndex[s] \in [Peers(s) -> Nat]
    BY <1>2 DEF TypeInv, TypeOK
  <1>4. RpcsOK'
    BY FewerThreads DEF AppendEntriesReply, TypeInv, TypeOK, RpcsOK
  <1>5. r.replyTerm = r.term => NextAfter(r) \in Nat /\ NextAfter(r) - 1 \in Index
    <2>1. CASE r.success
      BY <1>2, <2>1 DEF NextAfter, Index
    <2>2. CASE ~r.success
      BY <1>1, <1>2, <2>2 DEF NextAfter, Index, Refused
    <2> QED BY <2>1, <2>2
  <1>6. /\ commit \in Index /\ commit >= commitIndex[s]
        /\ commit = commitIndex[s] \/ commit <= LastLogIndex(log[s])
    BY <1>2, <1>3, NewCommitIndexRange
  <1> HIDE DEF commit
  <1>7. /\ currentTerm' \in [Server -> Term]
        /\ votedFor' \in [Server -> Server \cup {Nil}]
        /\ role' \in [Server -> {"Follower", "Candidate", "Leader"}]
    <2>1. CASE BecomeFollower(s, r.replyTerm)
      BY <1>2, <2>1 DEF BecomeFollower, TypeInv, TypeOK
    <2>2. CASE UNCHANGED <<currentTerm, votedFor, role>>
      BY <2>2 DEF TypeInv, TypeOK
    <2> QED BY <2>1, <2>2 DEF AppendEntriesReply
  <1>8. /\ DOMAIN nextIndex' = Server
        /\ \A p \in Server : nextIndex'[p] \in [Peers(p) -> Nat]
    <2>1. CASE UNCHANGED nextIndex
      BY <2>1 DEF TypeInv, TypeOK
    <2>2. CASE r.replyTerm = r.term /\ nextIndex' = [nextIndex EXCEPT ![s][r.to] = NextAfter(r)]
      BY <1>2, <1>3, <1>5, <2>2 DEF TypeInv, TypeOK
    <2> QED BY <2>1, <2>2 DEF AppendEntriesReply, leaderVars
  <1>9. /\ DOMAIN matchIndex' = Server
        /\ \A p \in Server : matchIndex'[p] \in [Peers(p) -> Index]
    <2>1. CASE UNCHANGED matchIndex
      BY <2>1 DEF TypeInv, TypeOK
    <2>2. CASE r.replyTerm = r.term /\ matchIndex' = [matchIndex EXCEPT ![s] = match]
      <3>1. match \in [Peers(s) -> Index]
        BY <1>2, <1>3, <1>5, <2>2
      <3> HIDE DEF match
      <3> QED BY <1>2, <2>2, <3>1 DEF TypeInv, TypeOK
    <2> QED BY <2>1, <2>2 DEF AppendEntriesReply, leaderVars
  <1>10. /\ commitIndex' \in [Server -> Index]
         /\ lastApplied' \in [Server -> Index]
         /\ raftOut' \in [Server -> Seq(Op)]
    <2>1. CASE UNCHANGED applyVars
      BY <2>1 DEF applyVars, TypeInv, TypeOK
    <2>2. CASE commit # commitIndex[s] /\ Apply(s, log[s], commit)
      BY <1>2, <1>3, <1>6, <2>2, TypeApply
    <2> QED BY <2>1, <2>2 DEF AppendEntriesReply, commit
  <1>11. committed' \subseteq [index : Nat, entry : Entry, term : Term]
    <2> DEFINE new == {[index |-> i, entry |-> log[s][i + 1], term |-> currentTerm[s]]
                          : i \in (commitIndex[s] + 1)..commit}
    <2>1. committed' \subseteq committed \cup new
      BY DEF AppendEntriesReply, commit
    <2>2. ASSUME NEW i \in (commitIndex[s] + 1)..commit
          PROVE  i \in Nat /\ i + 1 \in 1..Len(log[s])
      BY <1>3, <1>6 DEF Index, LastLogIndex
    <2>3. ASSUME NEW i \in (commitIndex[s] + 1)..commit
          PROVE  i \in Nat /\ log[s][i + 1] \in Entry
      BY <1>3, <2>2, EntriesOfLog
    <2>4. new \subseteq [index : Nat, entry : Entry, term : Term]
      BY <1>3, <2>3
    <2> QED BY <2>1, <2>4 DEF TypeInv, TypeOK
  <1> QED BY <1>4, <1>7, <1>8, <1>9, <1>10, <1>11
          DEF AppendEntriesReply, TypeInv, TypeOK, RpcsOK, RefusedAboveZero, inputVars, envVars

LEMMA TypeLoseRPC ==
    ASSUME TypeInv, NEW r \in rpcs, LoseRPC(r)
    PROVE  TypeInv'
  <1>1. RpcsOK'
    BY FewerThreads DEF LoseRPC, TypeInv, TypeOK, RpcsOK
  <1> QED BY <1>1 DEF LoseRPC, TypeInv, TypeOK, RpcsOK, RefusedAboveZero, persistentVars,
                      applyVars, leaderVars, inputVars, envVars, historyVars

\* What a restart, which ends threads, does to the volatile state.
LEMMA TypeRestart ==
    ASSUME TypeInv, NEW s \in Server, Restart(s), rpcs' \subseteq rpcs,
           currentTerm' \in [Server -> Term],
           votedFor' \in [Server -> Server \cup {Nil}],
           log' \in [Server -> Seq(Entry)]
    PROVE  TypeInv'
  <1>1. RpcsOK'
    BY FewerThreads DEF TypeInv, TypeOK, RpcsOK
  <1>2. /\ role' \in [Server -> {"Follower", "Candidate", "Leader"}]
        /\ commitIndex' \in [Server -> Index]
        /\ lastApplied' \in [Server -> Index]
        /\ votesReceived' \in [Server -> Nat]
        /\ crashes' \in Nat
    BY DEF Restart, TypeInv, TypeOK, Index
  <1>3. /\ DOMAIN nextIndex' = Server
        /\ \A p \in Server : nextIndex'[p] \in [Peers(p) -> Nat]
        /\ DOMAIN matchIndex' = Server
        /\ \A p \in Server : matchIndex'[p] \in [Peers(p) -> Index]
    BY DEF Restart, TypeInv, TypeOK, Index
  <1>4. /\ dispatchOut' \in [Server -> Seq(Op)]
        /\ raftIn' \in [Server -> Seq(Op)]
        /\ inRound' \in [Server -> BOOLEAN]
        /\ raftOut' \in [Server -> Seq(Op)]
    BY DEF Restart, TypeInv, TypeOK
  <1> QED BY <1>1, <1>2, <1>3, <1>4
          DEF Restart, TypeInv, TypeOK, RpcsOK, RefusedAboveZero, historyVars

LEMMA TypeCrash ==
    ASSUME TypeInv, NEW s \in Server, Crash(s) \/ CrashInPersist(s) \/ CrashInRound(s)
    PROVE  TypeInv'
  <1>1. Restart(s) /\ rpcs' \subseteq rpcs
    BY DEF Crash, CrashInPersist, CrashInRound
  <1>2. currentTerm' \in [Server -> Term]
    <2>1. UNCHANGED currentTerm
      BY DEF Crash, CrashInPersist, CrashInRound, persistentVars
    <2> QED BY <2>1 DEF TypeInv, TypeOK
  <1>3. votedFor' \in [Server -> Server \cup {Nil}]
    <2>1. \/ UNCHANGED votedFor
          \/ \E v \in {s, Nil} : votedFor' = [votedFor EXCEPT ![s] = v]
      BY DEF Crash, CrashInPersist, CrashInRound, persistentVars
    <2>2. votedFor \in [Server -> Server \cup {Nil}]
      BY DEF TypeInv, TypeOK
    <2> QED BY <2>1, <2>2
  <1>4. log' \in [Server -> Seq(Entry)]
    <2>1. CASE UNCHANGED log
      BY <2>1 DEF TypeInv, TypeOK
    <2>2. CASE CrashInRound(s)
      <3>1. PICK n \in 0..Len(raftIn[s]) : log' = [log EXCEPT ![s] = @ \o Appended(s, n)]
        BY <2>2 DEF CrashInRound
      <3>2. log[s] \in Seq(Entry) /\ Appended(s, n) \in Seq(Entry)
        BY AppendedType DEF TypeInv, TypeOK
      <3>3. log[s] \o Appended(s, n) \in Seq(Entry)
        BY <3>2
      <3> QED BY <3>1, <3>3 DEF TypeInv, TypeOK
    <2> QED BY <2>1, <2>2 DEF Crash, CrashInPersist, persistentVars
  <1> QED BY <1>1, <1>2, <1>3, <1>4, TypeRestart

LEMMA TypeCrashInAppendEntries ==
    ASSUME TypeInv, NEW r \in Threads("request", "AppendEntries"), CrashInAppendEntries(r)
    PROVE  TypeInv'
  <1> DEFINE s    == r.to
             kept == r.prevLogIndex + 1 + Agreeing(log[s], r.prevLogIndex, r.entries)
             new  == Merge(log[s], r.prevLogIndex, r.entries)
  <1>1. r \in AppendRequests
    BY ThreadKinds DEF Threads, TypeInv, TypeOK
  <1>2. /\ s \in Server /\ r.term \in Term
        /\ r.prevLogIndex \in Index /\ r.entries \in Seq(Entry)
    BY <1>1 DEF AppendRequests
  <1>3. log[s] \in Seq(Entry) /\ Len(log[s]) \in Nat
    BY <1>2 DEF TypeInv, TypeOK
  <1>4. r.prevLogIndex < Len(log[s])
    BY <1>2, <1>3 DEF CrashInAppendEntries, Accepted, PrevMatches, LastLogIndex
  <1>5. new \in Seq(Entry)
    BY <1>2, <1>3, <1>4, MergeType
  <1>6. kept \in Nat
    <2>1. Agreeing(log[s], r.prevLogIndex, r.entries) \in 0..Len(r.entries)
      BY <1>2, <1>3, <1>4, AgreeingRange
    <2> QED BY <1>2, <2>1 DEF Index
  <1>7. \/ log' = log
        \/ \E n \in kept..Len(new) : log' = [log EXCEPT ![s] = SubSeq(new, 1, n)]
    BY DEF CrashInAppendEntries
  <1> HIDE DEF new, kept
  <1>8. ASSUME NEW n \in kept..Len(new) PROVE SubSeq(new, 1, n) \in Seq(Entry)
    <2>1. n \in Nat /\ n <= Len(new)
      BY <1>5, <1>6, <1>8
    <2> QED BY <1>5, <2>1
  <1>9. log \in [Server -> Seq(Entry)]
    BY DEF TypeInv, TypeOK
  <1>10. log' \in [Server -> Seq(Entry)]
    BY <1>7, <1>8, <1>9
  <1>11. /\ currentTerm' \in [Server -> Term]
         /\ votedFor' \in [Server -> Server \cup {Nil}]
    BY <1>2 DEF CrashInAppendEntries, TypeInv, TypeOK
  <1>12. Restart(s) /\ rpcs' \subseteq rpcs
    BY DEF CrashInAppendEntries
  <1> QED BY <1>2, <1>10, <1>11, <1>12, TypeRestart

LEMMA NextTypeInv == TypeInv /\ [Next]_vars => TypeInv'
  <1> SUFFICES ASSUME TypeInv, [Next]_vars PROVE TypeInv'
    OBVIOUS
  <1>1. ASSUME NEW s \in Server, RunLeaderOneIter(s) PROVE TypeInv'
    BY <1>1, TypeRunLeaderOneIter
  <1>2. ASSUME NEW s \in Server, Crash(s) \/ CrashInPersist(s) \/ CrashInRound(s) PROVE TypeInv'
    BY <1>2, TypeCrash
  <1>3. ASSUME NEW r \in Threads("spawned", "RequestVote"), SendRequestVote(r) PROVE TypeInv'
    BY <1>3, TypeSendRequestVote
  <1>4. ASSUME NEW r \in Threads("spawned", "AppendEntries"), SendAppendEntries(r) PROVE TypeInv'
    BY <1>4, TypeSendAppendEntries
  <1>5. ASSUME NEW s \in Server, StartElection(s) PROVE TypeInv'
    BY <1>5, TypeStartElection
  <1>6. ASSUME NEW s \in Server,
               (\E op \in Op : Submit(s, op)) \/ RaftImplLeader(s) \/ RaftImplOther(s)
        PROVE  TypeInv'
    BY <1>6, TypeInput
  <1>7. ASSUME NEW r \in Threads("request", "RequestVote"), RequestVote(r) PROVE TypeInv'
    BY <1>7, TypeRequestVote
  <1>8. ASSUME NEW r \in Threads("reply", "RequestVote"), RequestVoteReply(r) PROVE TypeInv'
    BY <1>8, TypeRequestVoteReply
  <1>9. ASSUME NEW r \in Threads("request", "AppendEntries"), AppendEntries(r) PROVE TypeInv'
    BY <1>9, TypeAppendEntries
  <1>10. ASSUME NEW r \in Threads("request", "AppendEntries"), CrashInAppendEntries(r) PROVE TypeInv'
    BY <1>10, TypeCrashInAppendEntries
  <1>11. ASSUME NEW r \in Threads("reply", "AppendEntries"), AppendEntriesReply(r) PROVE TypeInv'
    BY <1>11, TypeAppendEntriesReply
  <1>12. ASSUME NEW r \in rpcs, LoseRPC(r) PROVE TypeInv'
    BY <1>12, TypeLoseRPC
  <1>13. CASE UNCHANGED vars
    BY <1>13 DEF vars, TypeInv, TypeOK, RefusedAboveZero, persistentVars, applyVars, leaderVars,
                 inputVars, envVars, historyVars
  <1> QED BY <1>1, <1>2, <1>3, <1>4, <1>5, <1>6, <1>7, <1>8, <1>9, <1>10, <1>11,
             <1>12, <1>13 DEF Next, Continue

\* Types, for every cluster and every schedule: in particular NextIndex never
\* becomes negative, whichever answers the threads of runLeaderOneIter get and
\* in whatever order.
THEOREM TypeCorrect == Spec => []TypeOK
  <1>1. TypeInv => TypeOK
    BY DEF TypeInv
  <1> QED BY <1>1, InitTypeInv, NextTypeInv, PTL DEF Spec

-----------------------------------------------------------------------------
\* The log of a leader.
Extends(new, lg) == Len(lg) <= Len(new) /\ SubSeq(new, 1, Len(lg)) = lg

LEMMA LogExtendsItself ==
    ASSUME NEW lg \in Seq(Entry)
    PROVE  Extends(lg, lg)
  BY DEF Extends

LEMMA ConcatExtends ==
    ASSUME NEW lg \in Seq(Entry), NEW es \in Seq(Entry)
    PROVE  Extends(lg \o es, lg)
  <1>1. /\ lg \o es \in Seq(Entry) /\ Len(lg \o es) = Len(lg) + Len(es)
        /\ Len(lg) \in Nat /\ Len(es) \in Nat
    OBVIOUS
  <1>2. \A i \in 1..Len(lg) : (lg \o es)[i] = lg[i]
    OBVIOUS
  <1>3. SubSeq(lg \o es, 1, Len(lg)) \in Seq(Entry) /\ Len(SubSeq(lg \o es, 1, Len(lg))) = Len(lg)
    BY <1>1
  <1>4. \A i \in 1..Len(lg) : SubSeq(lg \o es, 1, Len(lg))[i] = lg[i]
    BY <1>1, <1>2
  <1>5. SubSeq(lg \o es, 1, Len(lg)) = lg
    BY <1>3, <1>4, SeqEqual
  <1> QED BY <1>1, <1>5 DEF Extends

\* Only a round of its own writes to the log of a leader that stays leader.
LEMMA LeaderLogGrows ==
    ASSUME TypeInv, [Next]_vars, NEW s \in Server, role[s] = "Leader", role'[s] = "Leader"
    PROVE  Extends(log'[s], log[s])
  <1>1. log[s] \in Seq(Entry) /\ log \in [Server -> Seq(Entry)]
        /\ currentTerm \in [Server -> Nat] /\ role \in [Server -> {"Follower", "Candidate", "Leader"}]
    BY DEF TypeInv, TypeOK, Term
  <1>2. CASE log'[s] = log[s]
    BY <1>1, <1>2, LogExtendsItself
  <1>3. ASSUME NEW p \in Server, RunLeaderOneIter(p) PROVE Extends(log'[s], log[s])
    <2>1. CASE p = s
      <3>1. log'[s] = log[s] \o Appended(s, Len(raftIn[s]))
        BY <1>1, <1>3, <2>1 DEF RunLeaderOneIter
      <3>2. Len(raftIn[s]) \in 0..Len(raftIn[s])
        BY DEF TypeInv, TypeOK
      <3>3. Appended(s, Len(raftIn[s])) \in Seq(Entry)
        BY <3>2, AppendedType
      <3> QED BY <1>1, <3>1, <3>3, ConcatExtends
    <2>2. CASE p # s
      BY <1>2, <1>3, <2>2 DEF RunLeaderOneIter
    <2> QED BY <2>1, <2>2
  <1>4. ASSUME NEW p \in Server, Restart(p) PROVE p # s
    BY <1>1, <1>4 DEF Restart
  <1>5. ASSUME NEW p \in Server, Crash(p) \/ CrashInPersist(p) \/ CrashInRound(p)
        PROVE  Extends(log'[s], log[s])
    <2>1. p # s
      BY <1>4, <1>5 DEF Crash, CrashInPersist, CrashInRound
    <2>2. UNCHANGED log \/ \E new : log' = [log EXCEPT ![p] = new]
      BY <1>5 DEF Crash, CrashInPersist, CrashInRound, persistentVars
    <2>3. log'[s] = log[s]
      BY <1>1, <2>1, <2>2
    <2> QED BY <1>2, <2>3
  <1>6. ASSUME NEW r \in Threads("request", "AppendEntries"),
               AppendEntries(r) \/ CrashInAppendEntries(r)
        PROVE  Extends(log'[s], log[s])
    <2>1. r \in AppendRequests
      BY ThreadKinds DEF Threads, TypeInv, TypeOK
    <2>2. r.to \in Server /\ r.term \in Nat
      BY <2>1 DEF AppendRequests, Term
    <2>3. CASE r.to # s
      <3>1. UNCHANGED log \/ \E new : log' = [log EXCEPT ![r.to] = new]
        BY <1>6 DEF AppendEntries, CrashInAppendEntries
      <3>2. log'[s] = log[s]
        BY <1>1, <2>2, <2>3, <3>1
      <3> QED BY <1>2, <3>2
    <2>4. CASE r.to = s /\ ~Accepted(r)
      BY <1>1, <1>2, <1>6, <2>4 DEF AppendEntries, CrashInAppendEntries
    <2>5. CASE r.to = s /\ Accepted(r)
      <3>1. r.term >= currentTerm[s]
        BY <2>5 DEF Accepted
      <3>2. StepsDown(r)
        BY <1>1, <2>2, <2>5, <3>1 DEF StepsDown, Newer
      <3>3. ~AppendEntries(r)
        BY <1>1, <2>5, <3>2 DEF AppendEntries, BecomeFollower
      <3>4. ~CrashInAppendEntries(r)
        BY <1>4, <2>2, <2>5 DEF CrashInAppendEntries
      <3> QED BY <1>6, <3>3, <3>4
    <2> QED BY <2>3, <2>4, <2>5
  <1>7. CASE UNCHANGED log
    BY <1>2, <1>7
  <1>8. CASE \/ \E p \in Server : \/ StartElection(p) \/ RaftImplLeader(p) \/ RaftImplOther(p)
                                  \/ \E op \in Op : Submit(p, op)
             \/ \E r \in rpcs : \/ LoseRPC(r) \/ SendRequestVote(r) \/ SendAppendEntries(r)
                                \/ RequestVote(r) \/ RequestVoteReply(r) \/ AppendEntriesReply(r)
             \/ UNCHANGED vars
    BY <1>7, <1>8 DEF StartElection, RaftImplLeader, RaftImplOther, Submit, LoseRPC, SendRequestVote,
                      SendAppendEntries, RequestVote, RequestVoteReply, AppendEntriesReply, vars,
                      persistentVars
  <1> QED BY <1>3, <1>5, <1>6, <1>8 DEF Next, Continue, Threads

\* LeaderAppendOnly for every cluster and every schedule: whatever AppendEntries
\* a leader receives, it obeys none without becoming a follower first.
THEOREM LeadersOnlyAppend == Spec => LeaderAppendOnly
  <1>1. TypeInv /\ [Next]_vars =>
          [\A s \in Server : role[s] = "Leader" /\ role'[s] = "Leader" =>
             /\ Len(log[s]) <= Len(log'[s])
             /\ SubSeq(log'[s], 1, Len(log[s])) = log[s]]_vars
    BY LeaderLogGrows DEF Extends
  <1> QED BY <1>1, InitTypeInv, NextTypeInv, PTL DEF Spec, LeaderAppendOnly

-----------------------------------------------------------------------------
(***************************************************************************)
(* Elections.  If no replica is asked for a vote that it gave and forgot,  *)
(* and no thread processes an answer after its replica left the term of    *)
(* the request, then terms never decrease and a term has one leader, for   *)
(* every cluster and whatever is lost, reordered, delayed or restarted.    *)
(* (The run raft_two_leaders shows that the first premise is needed.)      *)
(***************************************************************************)

\* The schedules the theorems are about.
Remembered == ~ForgottenVotes /\ ~StaleReplies

VoteThreads == {r \in rpcs : r.kind = "RequestVote"}

\* The voters of s whose thread in the election of the current term is over:
\* those that VotesReceived may have counted.
Asked(s, p, term) == \E r \in VoteThreads : r.from = s /\ r.to = p /\ r.term = term
Heard(s) == {p \in Voters(s, currentTerm[s]) : ~Asked(s, p, currentTerm[s])}

\* The inductive invariant, beyond the types.  A vote belongs to a term its
\* voter has reached, and VotedFor, if it names another replica, tells for whom.
\* (It may name the replica itself: a crash in persist leaves a vote for itself
\* on disk with the term before.)
VotesAreOfThePast == \A v \in voted : v.term <= currentTerm[v.voter]
OneVotePerTerm    == \A v, w \in voted : v.voter = w.voter /\ v.term = w.term => v = w
VotedForIsTheVote ==
    \A v \in voted : (/\ v.term = currentTerm[v.voter]
                      /\ votedFor[v.voter] \notin {Nil, v.voter}) => votedFor[v.voter] = v.candidate

\* An election asks every peer once, and an answer that grants a vote is true.
AskedOnce ==
    /\ \A r \in VoteThreads : r.term <= currentTerm[r.from]
    /\ \A q, r \in VoteThreads : (q.from = r.from /\ q.to = r.to /\ q.term = r.term) => q = r
GrantedIsVoted ==
    \A r \in VoteThreads : (r.phase = "reply" /\ r.replyTerm = r.term /\ r.voteGranted)
                              => Vote(r.to, r.term, r.from) \in voted

\* A candidate has counted no voter twice, and a leader has been elected.
CountIsSound ==
    \A s \in Server : role[s] = "Candidate" => votesReceived[s] <= Cardinality(Heard(s))
LeaderIsElected ==
    \A s \in Server : role[s] = "Leader" => IsMajority(Cardinality(Voters(s, currentTerm[s])))

ElectionInv ==
    /\ VotesAreOfThePast
    /\ OneVotePerTerm
    /\ VotedForIsTheVote
    /\ AskedOnce
    /\ GrantedIsVoted
    /\ CountIsSound
    /\ LeaderIsElected

-----------------------------------------------------------------------------
\* Majorities.
LEMMA VotersFinite ==
    ASSUME NEW S \in SUBSET Server
    PROVE  IsFiniteSet(S) /\ Cardinality(S) \in Nat /\ Cardinality(S) <= Cardinality(Server)
  <1>1. IsFiniteSet(S) /\ Cardinality(S) <= Cardinality(Server)
    BY ServerAssumption, FS_Subset
  <1> QED BY <1>1, FS_CardinalityType

LEMMA SubsetCount ==
    ASSUME NEW S \in SUBSET Server, NEW T \in SUBSET S
    PROVE  Cardinality(T) \in Nat /\ Cardinality(S) \in Nat /\ Cardinality(T) <= Cardinality(S)
  <1>1. IsFiniteSet(S) /\ Cardinality(S) \in Nat
    BY VotersFinite
  <1>2. IsFiniteSet(T) /\ Cardinality(T) <= Cardinality(S)
    BY <1>1, FS_Subset
  <1> QED BY <1>1, <1>2, FS_CardinalityType

LEMMA MoreIsMajority ==
    ASSUME NEW m \in Nat, NEW n \in Nat, m <= n, IsMajority(m)
    PROVE  IsMajority(n)
  <1>1. Cardinality(Server) \in Nat
    BY ServerAssumption, FS_CardinalityType
  <1> QED BY <1>1 DEF IsMajority

\* Two majorities have a replica in common.
LEMMA MajoritiesMeet ==
    ASSUME NEW S \in SUBSET Server, NEW T \in SUBSET Server,
           IsMajority(Cardinality(S)), IsMajority(Cardinality(T))
    PROVE  S \cap T # {}
  <1>1. /\ Cardinality(S) \in Nat /\ Cardinality(T) \in Nat /\ Cardinality(Server) \in Nat
    BY VotersFinite, ServerAssumption, FS_CardinalityType
  <1>2. Cardinality(S) + Cardinality(T) > Cardinality(Server)
    BY <1>1 DEF IsMajority
  <1> QED BY <1>2, ServerAssumption, FS_MajoritiesIntersect

-----------------------------------------------------------------------------
\* Steps that give no vote, count none and start no election: every replica
\* keeps its part in elections, or becomes a follower of the same or a later
\* term whose VotedFor is cleared (or, after a crash in persist, its own id).
Keeps(p) ==
    /\ currentTerm'[p] = currentTerm[p]
    /\ votedFor'[p] = votedFor[p]
    /\ role'[p] = role[p]
    /\ votesReceived'[p] = votesReceived[p]
Follows(p) ==
    /\ currentTerm'[p] >= currentTerm[p]
    /\ role'[p] = "Follower"
    /\ \/ votedFor'[p] \in {Nil, p}
       \/ currentTerm'[p] = currentTerm[p] /\ votedFor'[p] = votedFor[p]
Quiet ==
    /\ voted' = voted
    /\ VoteThreads' \subseteq VoteThreads
    /\ \A p \in Server : Keeps(p) \/ Follows(p)

LEMMA QuietStep ==
    ASSUME TypeInv, TypeInv', ElectionInv, Quiet
    PROVE  ElectionInv'
  <1>1. /\ currentTerm \in [Server -> Nat] /\ currentTerm' \in [Server -> Nat]
        /\ votesReceived \in [Server -> Nat]
        /\ voted \subseteq [voter : Server, term : Nat, candidate : Server]
        /\ rpcs \subseteq RPC
    BY DEF TypeInv, TypeOK, Term
  <1>2. \A p \in Server : currentTerm'[p] >= currentTerm[p]
    BY <1>1 DEF Quiet, Keeps, Follows
  <1>3. VotesAreOfThePast'
    BY <1>1, <1>2 DEF VotesAreOfThePast, ElectionInv, Quiet
  <1>4. OneVotePerTerm'
    BY DEF OneVotePerTerm, ElectionInv, Quiet
  <1>5. VotedForIsTheVote'
    <2> SUFFICES ASSUME NEW v \in voted, v.term = currentTerm'[v.voter],
                        votedFor'[v.voter] \notin {Nil, v.voter}
                 PROVE  votedFor'[v.voter] = v.candidate
      BY DEF VotedForIsTheVote, Quiet
    <2>1. v.voter \in Server
      BY <1>1
    <2>2. currentTerm'[v.voter] = currentTerm[v.voter] /\ votedFor'[v.voter] = votedFor[v.voter]
      BY <2>1 DEF Quiet, Keeps, Follows
    <2> QED BY <2>2 DEF VotedForIsTheVote, ElectionInv
  <1>6. AskedOnce'
    <2>1. \A r \in VoteThreads : r.from \in Server /\ r.term \in Nat
      BY <1>1, ThreadKinds DEF VoteThreads, Term
    <2> QED BY <1>1, <1>2, <2>1 DEF AskedOnce, ElectionInv, Quiet
  <1>7. GrantedIsVoted'
    BY DEF GrantedIsVoted, ElectionInv, Quiet
  <1>8. CountIsSound'
    <2> SUFFICES ASSUME NEW s \in Server, role'[s] = "Candidate"
                 PROVE  votesReceived'[s] <= Cardinality(Heard(s)')
      BY DEF CountIsSound
    <2>1. Keeps(s) /\ role[s] = "Candidate"
      BY DEF Quiet, Keeps, Follows
    <2>2. Heard(s) \subseteq Heard(s)' /\ Heard(s)' \subseteq Server
      BY <2>1 DEF Heard, Asked, Voters, Quiet, Keeps
    <2>3. /\ Cardinality(Heard(s)) \in Nat /\ Cardinality(Heard(s)') \in Nat
          /\ Cardinality(Heard(s)) <= Cardinality(Heard(s)')
      BY <2>2, SubsetCount
    <2>4. votesReceived[s] <= Cardinality(Heard(s))
      BY <2>1 DEF CountIsSound, ElectionInv
    <2> QED BY <1>1, <2>1, <2>3, <2>4 DEF Keeps
  <1>9. LeaderIsElected'
    <2> SUFFICES ASSUME NEW s \in Server, role'[s] = "Leader"
                 PROVE  IsMajority(Cardinality(Voters(s, currentTerm[s])'))
      BY DEF LeaderIsElected
    <2>1. Keeps(s) /\ role[s] = "Leader"
      BY DEF Quiet, Keeps, Follows
    <2>2. Voters(s, currentTerm[s])' = Voters(s, currentTerm[s])
      BY <2>1 DEF Voters, Quiet, Keeps
    <2> QED BY <2>1, <2>2 DEF LeaderIsElected, ElectionInv
  <1> QED BY <1>3, <1>4, <1>5, <1>6, <1>7, <1>8, <1>9 DEF ElectionInv

\* Which steps are quiet.
LEMMA QuietReplication ==
    ASSUME TypeInv, NEW s \in Server,
           \/ \E op \in Op : Submit(s, op)
           \/ RaftImplLeader(s) \/ RaftImplOther(s) \/ RunLeaderOneIter(s)
           \/ \E r \in Threads("spawned", "AppendEntries") : SendAppendEntries(r)
    PROVE  Quiet
  <1>1. voted' = voted /\ \A p \in Server : Keeps(p)
    BY DEF Submit, RaftImplLeader, RaftImplOther, RunLeaderOneIter, SendAppendEntries, Keeps,
           persistentVars, historyVars
  <1>2. VoteThreads' \subseteq VoteThreads
    <2>1. CASE rpcs' = rpcs
      BY <2>1 DEF VoteThreads
    <2>2. CASE RunLeaderOneIter(s)
      <3>1. \A p \in Peers(s) : Spawned("AppendEntries", s, p, currentTerm[s]).kind # "RequestVote"
        BY DEF Spawned
      <3> QED BY <2>2, <3>1 DEF RunLeaderOneIter, VoteThreads
    <2>3. CASE \E r \in Threads("spawned", "AppendEntries") : SendAppendEntries(r)
      <3>1. PICK r \in Threads("spawned", "AppendEntries") : SendAppendEntries(r)
        BY <2>3
      <3>2. PICK next, prevTerm, es, commit :
               rpcs' = (rpcs \ {r}) \cup {AppendRequest(r, next, prevTerm, es, commit)}
        BY <3>1 DEF SendAppendEntries
      <3>3. AppendRequest(r, next, prevTerm, es, commit).kind # "RequestVote"
        BY DEF AppendRequest
      <3> QED BY <3>2, <3>3 DEF VoteThreads
    <2> QED BY <2>1, <2>2, <2>3 DEF Submit, RaftImplLeader, RaftImplOther
  <1> QED BY <1>1, <1>2 DEF Quiet

LEMMA QuietAppendEntries ==
    ASSUME TypeInv, NEW r \in Threads("request", "AppendEntries"), AppendEntries(r)
    PROVE  Quiet
  <1>1. r \in AppendRequests
    BY ThreadKinds DEF Threads, TypeInv, TypeOK
  <1>2. r.to \in Server /\ r.term \in Nat
    BY <1>1 DEF AppendRequests, Term
  <1>3. VoteThreads' \subseteq VoteThreads
    BY DEF AppendEntries, AppendReply, VoteThreads
  <1>4. /\ currentTerm \in [Server -> Nat] /\ role \in [Server -> {"Follower", "Candidate", "Leader"}]
        /\ votedFor \in [Server -> Server \cup {Nil}]
    BY DEF TypeInv, TypeOK, Term
  <1>5. \A p \in Server : Keeps(p) \/ Follows(p)
    <2>1. CASE StepsDown(r)
      <3>1. BecomeFollower(r.to, r.term) /\ votesReceived' = votesReceived
        BY <2>1 DEF AppendEntries
      <3>2. r.term >= currentTerm[r.to]
        BY <1>2, <1>4, <2>1 DEF StepsDown, Newer
      <3> QED BY <1>2, <1>4, <3>1, <3>2 DEF BecomeFollower, Keeps, Follows
    <2>2. CASE ~StepsDown(r)
      BY <2>2 DEF AppendEntries, Keeps
    <2> QED BY <2>1, <2>2
  <1> QED BY <1>3, <1>5 DEF Quiet, AppendEntries, historyVars

LEMMA QuietAppendEntriesReply ==
    ASSUME TypeInv, ~StaleReplies, NEW r \in Threads("reply", "AppendEntries"),
           Timely(r), AppendEntriesReply(r)
    PROVE  Quiet
  <1>1. r \in AppendReplies
    BY ThreadKinds DEF Threads, TypeInv, TypeOK
  <1>2. r.from \in Server /\ r.term \in Nat /\ r.replyTerm \in Nat
    BY <1>1 DEF AppendReplies, Term
  <1>3. VoteThreads' \subseteq VoteThreads
    BY DEF AppendEntriesReply, VoteThreads
  <1>4. /\ currentTerm \in [Server -> Nat] /\ role \in [Server -> {"Follower", "Candidate", "Leader"}]
        /\ votedFor \in [Server -> Server \cup {Nil}]
    BY DEF TypeInv, TypeOK, Term
  <1>5. r.term = currentTerm[r.from]
    BY DEF Timely
  <1>6. \A p \in Server : Keeps(p) \/ Follows(p)
    <2>1. CASE r.replyTerm > r.term /\ BecomeFollower(r.from, r.replyTerm)
      BY <1>2, <1>4, <1>5, <2>1 DEF AppendEntriesReply, BecomeFollower, Keeps, Follows
    <2>2. CASE UNCHANGED <<currentTerm, votedFor, role>>
      BY <2>2 DEF AppendEntriesReply, Keeps
    <2> QED BY <2>1, <2>2 DEF AppendEntriesReply
  <1> QED BY <1>3, <1>6 DEF Quiet, AppendEntriesReply

LEMMA QuietFailure ==
    ASSUME TypeInv, NEW s \in Server,
           \/ \E r \in rpcs : LoseRPC(r)
           \/ Crash(s) \/ CrashInPersist(s) \/ CrashInRound(s)
    PROVE  Quiet
  <1>1. voted' = voted /\ VoteThreads' \subseteq VoteThreads
    BY DEF LoseRPC, Crash, CrashInPersist, CrashInRound, Restart, historyVars, VoteThreads
  <1>2. /\ currentTerm \in [Server -> Nat] /\ role \in [Server -> {"Follower", "Candidate", "Leader"}]
        /\ votedFor \in [Server -> Server \cup {Nil}] /\ votesReceived \in [Server -> Nat]
    BY DEF TypeInv, TypeOK, Term
  <1>3. \A p \in Server : Keeps(p) \/ Follows(p)
    <2>1. CASE \E r \in rpcs : LoseRPC(r)
      BY <2>1 DEF LoseRPC, Keeps, persistentVars
    <2>2. CASE Crash(s) \/ CrashInRound(s)
      BY <1>2, <2>2 DEF Crash, CrashInRound, Restart, Keeps, Follows, persistentVars
    <2>3. CASE CrashInPersist(s)
      <3>1. /\ Restart(s) /\ UNCHANGED currentTerm
            /\ \/ votedFor' = [votedFor EXCEPT ![s] = s]
               \/ votedFor' = [votedFor EXCEPT ![s] = Nil]
        BY <2>3 DEF CrashInPersist
      <3> QED BY <1>2, <3>1 DEF Restart, Keeps, Follows
    <2> QED BY <2>1, <2>2, <2>3
  <1> QED BY <1>1, <1>3 DEF Quiet

LEMMA QuietCrashInAppendEntries ==
    ASSUME TypeInv, NEW r \in Threads("request", "AppendEntries"), CrashInAppendEntries(r)
    PROVE  Quiet
  <1>1. r \in AppendRequests
    BY ThreadKinds DEF Threads, TypeInv, TypeOK
  <1>2. r.to \in Server /\ r.term \in Nat
    BY <1>1 DEF AppendRequests, Term
  <1>3. voted' = voted /\ VoteThreads' \subseteq VoteThreads
    BY DEF CrashInAppendEntries, Restart, historyVars, VoteThreads
  <1>4. /\ currentTerm \in [Server -> Nat] /\ role \in [Server -> {"Follower", "Candidate", "Leader"}]
        /\ votedFor \in [Server -> Server \cup {Nil}] /\ votesReceived \in [Server -> Nat]
    BY DEF TypeInv, TypeOK, Term
  <1>5. /\ r.term >= currentTerm[r.to]
        /\ currentTerm' = [currentTerm EXCEPT ![r.to] = r.term]
        /\ votedFor' = [votedFor EXCEPT ![r.to] = IF StepsDown(r) THEN Nil ELSE @]
        /\ Restart(r.to)
    BY DEF CrashInAppendEntries, Accepted
  <1>6. ~StepsDown(r) => r.term = currentTerm[r.to]
    BY <1>2, <1>4, <1>5 DEF StepsDown, Newer
  <1>7. Follows(r.to)
    BY <1>2, <1>4, <1>5, <1>6 DEF Follows, Restart
  <1>8. \A p \in Server \ {r.to} : Keeps(p)
    BY <1>2, <1>4, <1>5 DEF Keeps, Restart
  <1> QED BY <1>3, <1>7, <1>8 DEF Quiet

-----------------------------------------------------------------------------
\* Types, in the form the following lemmas use.
LEMMA ElectionTypes ==
    ASSUME TypeInv
    PROVE  /\ currentTerm \in [Server -> Nat] /\ votesReceived \in [Server -> Nat]
           /\ votedFor \in [Server -> Server \cup {Nil}]
           /\ role \in [Server -> {"Follower", "Candidate", "Leader"}]
           /\ voted \subseteq [voter : Server, term : Nat, candidate : Server]
           /\ \A r \in VoteThreads : /\ r \in RPC /\ r.from \in Server /\ r.to \in Server
                                     /\ r.term \in Nat /\ r.from # r.to
  BY ThreadKinds DEF TypeInv, TypeOK, VoteThreads, Term

\* A replica that keeps its term, role and count keeps what is sound about them
\* if votes are only added and the threads of its election only end or go on.
LEMMA StillSound ==
    ASSUME TypeInv, TypeInv', ElectionInv, NEW s \in Server, voted \subseteq voted',
           currentTerm'[s] = currentTerm[s], role'[s] = role[s],
           votesReceived'[s] = votesReceived[s],
           \A p \in Server : Asked(s, p, currentTerm[s])' => Asked(s, p, currentTerm[s])
    PROVE  /\ role'[s] = "Candidate" => votesReceived'[s] <= Cardinality(Heard(s)')
           /\ role'[s] = "Leader" => IsMajority(Cardinality(Voters(s, currentTerm[s])'))
  <1>1. Heard(s) \subseteq Heard(s)' /\ Heard(s)' \subseteq Server
    BY DEF Heard, Voters
  <1>2. /\ Cardinality(Heard(s)) \in Nat /\ Cardinality(Heard(s)') \in Nat
        /\ Cardinality(Heard(s)) <= Cardinality(Heard(s)')
    BY <1>1, SubsetCount
  <1>3. /\ Voters(s, currentTerm[s]) \subseteq Voters(s, currentTerm[s])'
        /\ Voters(s, currentTerm[s])' \subseteq Server
    BY DEF Voters
  <1>4. /\ Cardinality(Voters(s, currentTerm[s])) \in Nat
        /\ Cardinality(Voters(s, currentTerm[s])') \in Nat
        /\ Cardinality(Voters(s, currentTerm[s])) <= Cardinality(Voters(s, currentTerm[s])')
    BY <1>3, SubsetCount
  <1>5. votesReceived[s] \in Nat
    BY ElectionTypes
  <1>6. role'[s] = "Candidate" => votesReceived'[s] <= Cardinality(Heard(s)')
    <2>1. role[s] = "Candidate" => votesReceived[s] <= Cardinality(Heard(s))
      BY DEF ElectionInv, CountIsSound
    <2> QED BY <1>2, <1>5, <2>1
  <1>7. role'[s] = "Leader" => IsMajority(Cardinality(Voters(s, currentTerm[s])'))
    BY <1>4, MoreIsMajority DEF ElectionInv, LeaderIsElected
  <1> QED BY <1>6, <1>7

\* A thread that goes on to its next phase asks whom it asked before.
LEMMA SameAsked ==
    ASSUME TypeInv, ElectionInv, NEW r \in VoteThreads, NEW q, rpcs' = (rpcs \ {r}) \cup {q},
           q.kind = "RequestVote", q.from = r.from, q.to = r.to, q.term = r.term,
           currentTerm' \in [Server -> Nat],
           \A s \in Server : currentTerm'[s] >= currentTerm[s]
    PROVE  /\ AskedOnce'
           /\ \A s, p \in Server, t \in Nat : Asked(s, p, t)' => Asked(s, p, t)
  <1>1. VoteThreads' = (VoteThreads \ {r}) \cup {q}
    BY DEF VoteThreads
  <1>2. \A x \in VoteThreads' : x.from \in Server /\ x.term \in Nat /\ x.term <= currentTerm'[x.from]
    BY <1>1, ElectionTypes DEF ElectionInv, AskedOnce
  <1>3. \A x, y \in VoteThreads' : (x.from = y.from /\ x.to = y.to /\ x.term = y.term) => x = y
    BY <1>1 DEF ElectionInv, AskedOnce
  <1>4. \A s, p \in Server, t \in Nat : Asked(s, p, t)' => Asked(s, p, t)
    BY <1>1 DEF Asked
  <1> QED BY <1>2, <1>3, <1>4 DEF AskedOnce

LEMMA ElectionSendRequestVote ==
    ASSUME TypeInv, TypeInv', ElectionInv,
           NEW r \in Threads("spawned", "RequestVote"), SendRequestVote(r)
    PROVE  ElectionInv'
  <1> DEFINE q == VoteRequest(r, log[r.from])
  <1>1. r \in VoteThreads /\ rpcs' = (rpcs \ {r}) \cup {q}
    BY DEF Threads, VoteThreads, SendRequestVote
  <1>2. /\ q.kind = "RequestVote" /\ q.phase = "request"
        /\ q.from = r.from /\ q.to = r.to /\ q.term = r.term
    BY DEF VoteRequest
  <1>3. UNCHANGED <<currentTerm, votedFor, role, votesReceived, voted>>
    BY DEF SendRequestVote, persistentVars, historyVars
  <1>4. currentTerm' \in [Server -> Nat] /\ \A s \in Server : currentTerm'[s] >= currentTerm[s]
    BY <1>3, ElectionTypes
  <1> HIDE DEF q
  <1>5. AskedOnce' /\ \A s, p \in Server, t \in Nat : Asked(s, p, t)' => Asked(s, p, t)
    BY <1>1, <1>2, <1>4, SameAsked
  <1>6. GrantedIsVoted'
    BY <1>1, <1>2, <1>3 DEF ElectionInv, GrantedIsVoted, VoteThreads
  <1>7. VotesAreOfThePast' /\ OneVotePerTerm' /\ VotedForIsTheVote'
    BY <1>3 DEF ElectionInv, VotesAreOfThePast, OneVotePerTerm, VotedForIsTheVote
  <1>8. ASSUME NEW s \in Server
        PROVE  /\ role'[s] = "Candidate" => votesReceived'[s] <= Cardinality(Heard(s)')
               /\ role'[s] = "Leader" => IsMajority(Cardinality(Voters(s, currentTerm[s])'))
    <2>1. currentTerm[s] \in Nat
      BY ElectionTypes
    <2> QED BY <1>3, <1>5, <2>1, StillSound
  <1>9. CountIsSound' /\ LeaderIsElected'
    BY <1>8 DEF CountIsSound, LeaderIsElected
  <1> QED BY <1>5, <1>6, <1>7, <1>9 DEF ElectionInv

\* RequestVote: a vote is granted only to the candidate that got the earlier
\* votes of this replica in this term, if there are any.
LEMMA ElectionRequestVote ==
    ASSUME TypeInv, TypeInv', ElectionInv, NEW r \in Threads("request", "RequestVote"),
           ~Forgotten(r), RequestVote(r)
    PROVE  ElectionInv'
  <1> DEFINE s       == r.to
             term    == IF Newer(r) THEN r.term ELSE currentTerm[s]
             vote    == IF Newer(r) THEN Nil ELSE votedFor[s]
             granted == r.term = term /\ MayVote(vote, r.from) /\ UpToDate(r, log[s])
             q       == VoteReply(r, term, granted)
             new     == Vote(s, term, r.from)
  <1>1. /\ r \in VoteThreads /\ s \in Server /\ r.from \in Server /\ r.from # s /\ r.term \in Nat
    BY ElectionTypes DEF Threads, VoteThreads
  <1>2. /\ currentTerm' = [currentTerm EXCEPT ![s] = term]
        /\ role' = IF Newer(r) THEN [role EXCEPT ![s] = "Follower"] ELSE role
        /\ votedFor' = [votedFor EXCEPT ![s] = IF granted THEN r.from ELSE vote]
        /\ rpcs' = (rpcs \ {r}) \cup {q}
        /\ voted' = IF granted THEN voted \cup {new} ELSE voted
        /\ votesReceived' = votesReceived
    BY DEF RequestVote, Vote
  <1>3. /\ q.kind = "RequestVote" /\ q.phase = "reply" /\ q.replyTerm = term
        /\ q.voteGranted = granted
        /\ q.from = r.from /\ q.to = s /\ q.term = r.term
        /\ new.voter = s /\ new.term = term /\ new.candidate = r.from
    BY DEF VoteReply, Vote
  <1>4. term \in Nat /\ term >= currentTerm[s]
    BY <1>1, ElectionTypes DEF Newer
  <1>5. ASSUME granted, NEW v \in voted, v.voter = s, v.term = term
        PROVE  v.candidate = r.from /\ v = new
    <2>1. ~Newer(r)
      <3>1. v.term <= currentTerm[s]
        BY <1>5 DEF ElectionInv, VotesAreOfThePast
      <3> QED BY <1>1, <1>5, <3>1, ElectionTypes DEF Newer
    <2>2. votedFor[s] \in {Nil, r.from} /\ currentTerm[s] = r.term
      BY <1>5, <2>1 DEF MayVote
    <2>3. v.candidate = r.from
      <3>1. CASE votedFor[s] = Nil
        BY <1>5, <2>2, <3>1 DEF Forgotten, VotesOf
      <3>2. CASE votedFor[s] = r.from
        <4>1. votedFor[s] \notin {Nil, s}
          BY <1>1, <3>2, ServerAssumption
        <4> QED BY <1>5, <2>2, <3>2, <4>1 DEF ElectionInv, VotedForIsTheVote
      <3> QED BY <2>2, <3>1, <3>2
    <2> QED BY <1>5, <2>3, ElectionTypes DEF Vote
  <1>6. currentTerm' \in [Server -> Nat] /\ \A p \in Server : currentTerm'[p] >= currentTerm[p]
    BY <1>1, <1>2, <1>4, ElectionTypes
  <1> HIDE DEF q, new, granted, vote, term
  <1>7. AskedOnce' /\ \A x, p \in Server, t \in Nat : Asked(x, p, t)' => Asked(x, p, t)
    BY <1>1, <1>2, <1>3, <1>6, SameAsked
  <1>8. GrantedIsVoted'
    <2>1. granted => r.term = term
      BY DEF granted
    <2>2. VoteThreads' \subseteq VoteThreads \cup {q}
      BY <1>2 DEF VoteThreads
    <2>3. q.voteGranted => Vote(q.to, q.term, q.from) \in voted'
      BY <1>2, <1>3, <2>1 DEF new
    <2> QED BY <1>2, <2>2, <2>3 DEF ElectionInv, GrantedIsVoted
  <1>9. VotesAreOfThePast'
    <2>1. currentTerm'[s] = term
      BY <1>1, <1>2, ElectionTypes
    <2>2. \A v \in voted : v.term <= currentTerm'[v.voter]
      BY <1>6, ElectionTypes DEF ElectionInv, VotesAreOfThePast
    <2> QED BY <1>2, <1>3, <1>4, <2>1, <2>2 DEF VotesAreOfThePast
  <1>10. OneVotePerTerm'
    BY <1>2, <1>3, <1>5 DEF ElectionInv, OneVotePerTerm
  <1>11. VotedForIsTheVote'
    <2> SUFFICES ASSUME NEW v \in voted', v.term = currentTerm'[v.voter],
                        votedFor'[v.voter] \notin {Nil, v.voter}
                 PROVE  votedFor'[v.voter] = v.candidate
      BY DEF VotedForIsTheVote
    <2>1. v.voter \in Server
      BY ElectionTypes, <1>1, <1>2, <1>3
    <2>2. CASE v.voter # s
      <3>1. v \in voted /\ currentTerm'[v.voter] = currentTerm[v.voter] /\ votedFor'[v.voter] = votedFor[v.voter]
        BY <1>2, <1>3, <2>1, <2>2, ElectionTypes
      <3> QED BY <3>1 DEF ElectionInv, VotedForIsTheVote
    <2>3. CASE v.voter = s /\ granted
      <3>1. votedFor'[s] = r.from /\ currentTerm'[s] = term
        BY <1>1, <1>2, <2>3, ElectionTypes
      <3>2. v.candidate = r.from
        BY <1>2, <1>3, <1>5, <2>3, <3>1
      <3> QED BY <2>3, <3>1, <3>2
    <2>4. CASE v.voter = s /\ ~granted
      <3>1. votedFor'[s] = vote /\ currentTerm'[s] = term /\ v \in voted
        BY <1>1, <1>2, <2>4, ElectionTypes
      <3>2. vote = votedFor[s] /\ term = currentTerm[s]
        BY <2>4, <3>1 DEF vote, term
      <3> QED BY <2>4, <3>1, <3>2 DEF ElectionInv, VotedForIsTheVote
    <2> QED BY <2>2, <2>3, <2>4
  <1>12. ASSUME NEW p \in Server
         PROVE  /\ role'[p] = "Candidate" => votesReceived'[p] <= Cardinality(Heard(p)')
                /\ role'[p] = "Leader" => IsMajority(Cardinality(Voters(p, currentTerm[p])'))
    <2>1. CASE p = s /\ Newer(r)
      BY <1>1, <1>2, <2>1, ElectionTypes
    <2>2. CASE ~(p = s /\ Newer(r))
      <3>1. currentTerm'[p] = currentTerm[p] /\ role'[p] = role[p] /\ votesReceived'[p] = votesReceived[p]
        BY <1>1, <1>2, <2>2, ElectionTypes DEF term
      <3>2. voted \subseteq voted' /\ currentTerm[p] \in Nat
        BY <1>2, ElectionTypes
      <3> QED BY <1>7, <3>1, <3>2, StillSound
    <2> QED BY <2>1, <2>2
  <1>13. CountIsSound' /\ LeaderIsElected'
    BY <1>12 DEF CountIsSound, LeaderIsElected
  <1> QED BY <1>7, <1>8, <1>9, <1>10, <1>11, <1>13 DEF ElectionInv

\* startElection: the new term is new to the voter and to its threads.
LEMMA ElectionStartElection ==
    ASSUME TypeInv, TypeInv', ElectionInv, NEW s \in Server, StartElection(s)
    PROVE  ElectionInv'
  <1> DEFINE term == currentTerm[s] + 1
             new  == Vote(s, term, s)
             asks == {Spawned("RequestVote", s, p, term) : p \in Peers(s)}
  <1>1. /\ currentTerm' = [currentTerm EXCEPT ![s] = term]
        /\ role' = [role EXCEPT ![s] = "Candidate"]
        /\ votedFor' = [votedFor EXCEPT ![s] = s]
        /\ votesReceived' = [votesReceived EXCEPT ![s] = 1]
        /\ rpcs' = rpcs \cup asks
        /\ voted' = voted \cup {new}
    BY DEF StartElection, BecomeCandidate, Vote
  <1>2. term \in Nat /\ term > currentTerm[s] /\ new.voter = s /\ new.term = term
    BY ElectionTypes DEF Vote
  <1>3. /\ currentTerm'[s] = term
        /\ \A p \in Server : currentTerm'[p] >= currentTerm[p] /\ currentTerm'[p] \in Nat
        /\ \A p \in Server \ {s} : currentTerm'[p] = currentTerm[p] /\ votedFor'[p] = votedFor[p]
                                   /\ role'[p] = role[p] /\ votesReceived'[p] = votesReceived[p]
    BY <1>1, <1>2, ElectionTypes
  <1>4. \A r \in asks : /\ r.kind = "RequestVote" /\ r.phase = "spawned"
                        /\ r.from = s /\ r.to \in Peers(s) /\ r.term = term
    BY DEF Spawned
  <1>5. \A q, r \in asks : q.to = r.to => q = r
    BY DEF Spawned
  <1>6. VoteThreads' = VoteThreads \cup asks
    BY <1>1, <1>4 DEF VoteThreads
  <1> HIDE DEF asks, new, term
  <1>7. \A r \in VoteThreads : r.from \in Server /\ r.term \in Nat /\ (r.from = s => r.term # term)
    BY <1>2, ElectionTypes DEF ElectionInv, AskedOnce
  <1>8. \A v \in voted : v.voter \in Server /\ v.term \in Nat /\ (v.voter = s => v.term # term)
    BY <1>2, ElectionTypes DEF ElectionInv, VotesAreOfThePast
  <1>9. AskedOnce'
    <2>1. \A r \in VoteThreads' : r.term <= currentTerm'[r.from]
      BY <1>2, <1>3, <1>4, <1>6, <1>7, ElectionTypes DEF ElectionInv, AskedOnce
    <2>2. \A q, r \in VoteThreads' : (q.from = r.from /\ q.to = r.to /\ q.term = r.term) => q = r
      BY <1>4, <1>5, <1>6, <1>7 DEF ElectionInv, AskedOnce
    <2> QED BY <2>1, <2>2 DEF AskedOnce
  <1>10. GrantedIsVoted'
    BY <1>1, <1>4, <1>6 DEF ElectionInv, GrantedIsVoted
  <1>11. VotesAreOfThePast'
    <2>1. \A v \in voted : /\ v.term <= currentTerm[v.voter] /\ currentTerm[v.voter] \in Nat
                            /\ currentTerm[v.voter] <= currentTerm'[v.voter]
      BY <1>3, <1>8, ElectionTypes DEF ElectionInv, VotesAreOfThePast
    <2>2. \A v \in voted : v.term <= currentTerm'[v.voter]
      BY <1>3, <1>8, <2>1
    <2> QED BY <1>1, <1>2, <1>3, <2>2 DEF VotesAreOfThePast
  <1>12. OneVotePerTerm'
    BY <1>1, <1>2, <1>8 DEF ElectionInv, OneVotePerTerm
  <1>13. VotedForIsTheVote'
    <2>1. votedFor'[s] = s
      BY <1>1, ElectionTypes
    <2> QED BY <1>1, <1>2, <1>3, <1>8, <2>1 DEF ElectionInv, VotedForIsTheVote
  <1>14. 1 <= Cardinality(Heard(s)')
    <2>1. s \in Heard(s)'
      <3>1. s \in Voters(s, currentTerm[s])'
        BY <1>1, <1>3 DEF Voters, new
      <3>2. ~Asked(s, s, currentTerm[s])'
        BY <1>3, <1>4, <1>6, <1>7 DEF Asked, Peers
      <3> QED BY <3>1, <3>2 DEF Heard
    <2>2. {s} \in SUBSET Heard(s)' /\ Heard(s)' \in SUBSET Server
      BY <2>1 DEF Heard, Voters
    <2>3. Cardinality({s}) <= Cardinality(Heard(s)') /\ Cardinality(Heard(s)') \in Nat
      BY <2>2, SubsetCount
    <2> QED BY <2>3, FS_Singleton
  <1>15. ASSUME NEW p \in Server
         PROVE  /\ role'[p] = "Candidate" => votesReceived'[p] <= Cardinality(Heard(p)')
                /\ role'[p] = "Leader" => IsMajority(Cardinality(Voters(p, currentTerm[p])'))
    <2>1. CASE p = s
      <3>1. role'[s] = "Candidate" /\ votesReceived'[s] = 1
        BY <1>1, ElectionTypes
      <3> QED BY <1>14, <2>1, <3>1
    <2>2. CASE p # s
      <3>1. \A x \in Server : Asked(p, x, currentTerm[p])' => Asked(p, x, currentTerm[p])
        BY <1>3, <1>4, <1>6, <2>2 DEF Asked
      <3> QED BY <1>1, <1>3, <2>2, <3>1, StillSound
    <2> QED BY <2>1, <2>2
  <1>16. CountIsSound' /\ LeaderIsElected'
    BY <1>15 DEF CountIsSound, LeaderIsElected
  <1> QED BY <1>9, <1>10, <1>11, <1>12, <1>13, <1>16 DEF ElectionInv

\* A thread of startElection counts a vote, or does nothing that matters here.
LEMMA ElectionRequestVoteReply ==
    ASSUME TypeInv, TypeInv', ElectionInv, ~StaleReplies,
           NEW r \in Threads("reply", "RequestVote"), Timely(r), RequestVoteReply(r)
    PROVE  ElectionInv'
  <1> DEFINE s == r.from
             counts == /\ role[s] = "Candidate"
                       /\ r.replyTerm = r.term /\ r.voteGranted
                       /\ votesReceived' = [votesReceived EXCEPT ![s] = @ + 1]
                       /\ \/ IsMajority(votesReceived[s] + 1) /\ BecomeLeader(s)
                          \/ UNCHANGED <<votedFor, role>>
                       /\ UNCHANGED currentTerm
  <1>1. /\ r \in VoteThreads /\ s \in Server /\ r.to \in Server /\ r.term \in Nat
        /\ r.phase = "reply"
    BY ElectionTypes DEF Threads, VoteThreads
  <1>2. r.term = currentTerm[s]
    BY DEF Timely
  <1>3. rpcs' = rpcs \ {r} /\ voted' = voted /\ VoteThreads' = VoteThreads \ {r}
    BY DEF RequestVoteReply, historyVars, VoteThreads
  <1>4. CASE ~counts
    <2>1. r \in VoteReplies
      BY ThreadKinds DEF Threads, TypeInv, TypeOK
    <2>2. r.replyTerm \in Nat
      BY <2>1 DEF VoteReplies, Term
    <2>3. CASE UNCHANGED <<currentTerm, votedFor, role, votesReceived>>
      BY <1>3, <2>3, QuietStep DEF Quiet, Keeps
    <2>4. CASE r.replyTerm > r.term /\ BecomeFollower(s, r.replyTerm) /\ UNCHANGED votesReceived
      <3>1. \A p \in Server : Keeps(p) \/ Follows(p)
        BY <1>1, <1>2, <2>2, <2>4, ElectionTypes DEF BecomeFollower, Keeps, Follows
      <3> QED BY <1>3, <3>1, QuietStep DEF Quiet
    <2> QED BY <1>4, <2>3, <2>4 DEF RequestVoteReply
  <1>5. CASE counts
    <2>1. currentTerm' = currentTerm /\ votesReceived' = [votesReceived EXCEPT ![s] = @ + 1]
      BY <1>5
    <2>2. /\ \A p \in Server \ {s} : /\ role'[p] = role[p] /\ votedFor'[p] = votedFor[p]
                                     /\ votesReceived'[p] = votesReceived[p]
          /\ votedFor'[s] \in {Nil, votedFor[s]}
          /\ votesReceived'[s] = votesReceived[s] + 1
          /\ \/ role'[s] = "Leader" /\ IsMajority(votesReceived[s] + 1)
             \/ role'[s] = "Candidate"
      BY <1>1, <1>5, ElectionTypes DEF BecomeLeader
    <2>3. /\ VotesAreOfThePast' /\ OneVotePerTerm' /\ AskedOnce' /\ GrantedIsVoted'
      BY <1>3, <2>1 DEF ElectionInv, VotesAreOfThePast, OneVotePerTerm, AskedOnce, GrantedIsVoted
    <2>4. VotedForIsTheVote'
      BY <1>3, <2>1, <2>2, ElectionTypes DEF ElectionInv, VotedForIsTheVote
    <2>5. r.to \in Heard(s)' /\ r.to \notin Heard(s) /\ Heard(s) \subseteq Heard(s)'
      <3>1. Vote(r.to, currentTerm[s], s) \in voted
        BY <1>1, <1>2, <1>5 DEF ElectionInv, GrantedIsVoted
      <3>2. Asked(s, r.to, currentTerm[s])
        BY <1>1, <1>2 DEF Asked
      <3>3. ~Asked(s, r.to, currentTerm[s])'
        BY <1>1, <1>2, <1>3, <2>1 DEF Asked, ElectionInv, AskedOnce
      <3>4. \A p \in Server : Asked(s, p, currentTerm[s])' => Asked(s, p, currentTerm[s])
        BY <1>3, <2>1 DEF Asked
      <3> QED BY <1>1, <1>3, <2>1, <3>1, <3>2, <3>3, <3>4 DEF Heard, Voters
    <2>6. votesReceived[s] + 1 <= Cardinality(Heard(s)') /\ Cardinality(Heard(s)') \in Nat
      <3>1. Heard(s) \in SUBSET Server /\ Heard(s) \cup {r.to} \in SUBSET Heard(s)'
            /\ Heard(s)' \in SUBSET Server
        BY <2>5 DEF Heard, Voters
      <3>2. IsFiniteSet(Heard(s)) /\ Cardinality(Heard(s)) \in Nat
        BY <3>1, VotersFinite
      <3>3. Cardinality(Heard(s) \cup {r.to}) = Cardinality(Heard(s)) + 1
        BY <2>5, <3>2, FS_AddElement
      <3>4. /\ Cardinality(Heard(s) \cup {r.to}) <= Cardinality(Heard(s)')
            /\ Cardinality(Heard(s)') \in Nat
        BY <3>1, SubsetCount
      <3>5. votesReceived[s] <= Cardinality(Heard(s)) /\ votesReceived[s] \in Nat
        BY <1>1, <1>5, ElectionTypes DEF ElectionInv, CountIsSound
      <3> QED BY <3>2, <3>3, <3>4, <3>5
    <2>7. role'[s] = "Leader" => IsMajority(Cardinality(Voters(s, currentTerm[s])'))
      <3>1. Heard(s)' \in SUBSET Voters(s, currentTerm[s])' /\ Voters(s, currentTerm[s])' \in SUBSET Server
        BY DEF Heard, Voters
      <3>2. /\ Cardinality(Heard(s)') <= Cardinality(Voters(s, currentTerm[s])')
            /\ Cardinality(Voters(s, currentTerm[s])') \in Nat
        BY <3>1, SubsetCount
      <3>3. votesReceived[s] + 1 \in Nat
        BY <1>1, ElectionTypes
      <3>4. votesReceived[s] + 1 <= Cardinality(Voters(s, currentTerm[s])')
        BY <2>6, <3>2, <3>3
      <3> QED BY <2>2, <3>2, <3>3, <3>4, MoreIsMajority
    <2>8. ASSUME NEW p \in Server, p # s
          PROVE  /\ role'[p] = "Candidate" => votesReceived'[p] <= Cardinality(Heard(p)')
                 /\ role'[p] = "Leader" => IsMajority(Cardinality(Voters(p, currentTerm[p])'))
      <3>1. \A x \in Server : Asked(p, x, currentTerm[p])' => Asked(p, x, currentTerm[p])
        BY <1>3, <2>1 DEF Asked
      <3> QED BY <1>3, <2>1, <2>2, <2>8, <3>1, StillSound
    <2>9. CountIsSound' /\ LeaderIsElected'
      BY <1>1, <2>2, <2>6, <2>7, <2>8 DEF CountIsSound, LeaderIsElected
    <2> QED BY <2>3, <2>4, <2>9 DEF ElectionInv
  <1> QED BY <1>4, <1>5

-----------------------------------------------------------------------------
LEMMA InitElectionInv == Init => ElectionInv
  <1> SUFFICES ASSUME Init PROVE ElectionInv
    OBVIOUS
  <1>1. voted = {} /\ VoteThreads = {} /\ \A s \in Server : role[s] = "Follower"
    BY DEF Init, VoteThreads
  <1> QED BY <1>1 DEF ElectionInv, VotesAreOfThePast, OneVotePerTerm, VotedForIsTheVote,
                      AskedOnce, GrantedIsVoted, CountIsSound, LeaderIsElected

\* The steps of Next, with the guards that Remembered turns on.
LEMMA NextElectionInv ==
    ASSUME Remembered, TypeInv, TypeInv', ElectionInv, [Next]_vars
    PROVE  ElectionInv'
  <1>1. ASSUME NEW s \in Server,
               \/ \E op \in Op : Submit(s, op)
               \/ RaftImplLeader(s) \/ RaftImplOther(s) \/ RunLeaderOneIter(s)
               \/ \E r \in Threads("spawned", "AppendEntries") : SendAppendEntries(r)
        PROVE  ElectionInv'
    BY <1>1, QuietReplication, QuietStep
  <1>2. ASSUME NEW s \in Server,
               \/ \E r \in rpcs : LoseRPC(r)
               \/ Crash(s) \/ CrashInPersist(s) \/ CrashInRound(s)
        PROVE  ElectionInv'
    BY <1>2, QuietFailure, QuietStep
  <1>3. ASSUME NEW r \in Threads("spawned", "RequestVote"), SendRequestVote(r) PROVE ElectionInv'
    BY <1>3, ElectionSendRequestVote
  <1>4. ASSUME NEW s \in Server, StartElection(s) PROVE ElectionInv'
    BY <1>4, ElectionStartElection
  <1>5. ASSUME NEW r \in Threads("request", "RequestVote"),
               ForgottenVotes \/ ~Forgotten(r), RequestVote(r)
        PROVE  ElectionInv'
    BY <1>5, ElectionRequestVote DEF Remembered
  <1>6. ASSUME NEW r \in Threads("reply", "RequestVote"), Timely(r), RequestVoteReply(r)
        PROVE  ElectionInv'
    BY <1>6, ElectionRequestVoteReply DEF Remembered
  <1>7. ASSUME NEW r \in Threads("request", "AppendEntries"), AppendEntries(r) PROVE ElectionInv'
    BY <1>7, QuietAppendEntries, QuietStep
  <1>8. ASSUME NEW r \in Threads("request", "AppendEntries"), CrashInAppendEntries(r)
        PROVE  ElectionInv'
    BY <1>8, QuietCrashInAppendEntries, QuietStep
  <1>9. ASSUME NEW r \in Threads("reply", "AppendEntries"), Timely(r), AppendEntriesReply(r)
        PROVE  ElectionInv'
    BY <1>9, QuietAppendEntriesReply, QuietStep DEF Remembered
  <1>10. CASE UNCHANGED vars
    BY <1>10, QuietStep DEF vars, persistentVars, historyVars, Quiet, Keeps, VoteThreads
  <1>11. \A r \in rpcs : r.from \in Server
    BY ThreadKinds DEF TypeInv, TypeOK
  <1>12. ASSUME NEW r \in rpcs, LoseRPC(r) PROVE ElectionInv'
    BY <1>2, <1>11, <1>12
  <1>13. ASSUME NEW r \in Threads("spawned", "AppendEntries"), SendAppendEntries(r) PROVE ElectionInv'
    BY <1>1, <1>11, <1>13 DEF Threads
  <1> QED BY <1>1, <1>2, <1>3, <1>4, <1>5, <1>6, <1>7, <1>8, <1>9, <1>10, <1>12, <1>13
          DEF Next, Continue

\* The invariant implies that a term has one leader.
LEMMA OneLeader == TypeInv /\ ElectionInv => ElectionSafety
  <1> SUFFICES ASSUME TypeInv, ElectionInv, NEW s \in Server, NEW p \in Server,
                      role[s] = "Leader", role[p] = "Leader", currentTerm[s] = currentTerm[p]
               PROVE  s = p
    BY DEF ElectionSafety
  <1> DEFINE S == Voters(s, currentTerm[s])
             T == Voters(p, currentTerm[s])
  <1>1. S \in SUBSET Server /\ T \in SUBSET Server
    BY DEF Voters
  <1>2. IsMajority(Cardinality(S)) /\ IsMajority(Cardinality(T))
    BY DEF ElectionInv, LeaderIsElected
  <1> HIDE DEF S, T
  <1>3. PICK v \in Server : v \in S /\ v \in T
    BY <1>1, <1>2, MajoritiesMeet
  <1> DEFINE x == Vote(v, currentTerm[s], s)
             y == Vote(v, currentTerm[s], p)
  <1>4. x \in voted /\ y \in voted
    BY <1>3 DEF S, T, Voters
  <1>5. x.voter = y.voter /\ x.term = y.term /\ x.candidate = s /\ y.candidate = p
    BY DEF Vote
  <1>6. x = y
    BY <1>4, <1>5 DEF ElectionInv, OneVotePerTerm
  <1> HIDE DEF x, y
  <1> QED BY <1>5, <1>6

\* ElectionSafety for every cluster: with the votes of a term remembered and
\* stale answers dropped, whatever RPCs are lost, delayed or reordered, however
\* the threads are preempted, and wherever replicas crash, persist included.
THEOREM ElectionSafe == ASSUME Remembered PROVE Spec => []ElectionSafety
  <1> DEFINE I == TypeInv /\ ElectionInv
  <1>1. Init => I
    BY InitTypeInv, InitElectionInv
  <1>2. I /\ [Next]_vars => I'
    BY NextTypeInv, NextElectionInv
  <1>3. I => ElectionSafety
    BY OneLeader
  <1> QED BY <1>1, <1>2, <1>3, PTL DEF Spec
=============================================================================
