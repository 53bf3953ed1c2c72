# Verification of oh-my-db

oh-my-db is a key-value store replicated with Raft.  Every replica is one
process: an RPC server for clients, a `ReplicaManager` in front of a
`RaftManager`, and a LevelDB database that committed operations are executed on.
This directory holds TLA+ models of that program, written from its source, the
TLC configurations that check them on small instances, and TLAPS proofs of what
matters most for every instance.

Contents: [the system](#1-the-system), [the modules](#2-the-modules),
[the runs](#3-the-runs), [bounds](#4-bounds-and-schedule-parameters),
[fairness](#5-fairness), [proofs](#6-proofs), [findings](#7-findings),
[what is not modelled, and the plan](#8-not-modelled-and-the-plan).

To repeat a run: `tlc -workers 2 -config RaftRestart.cfg MCOhMyRaft`; to repeat
a proof: `tlapm OhMyRaftProofs.tla`.  `PROJECT.json` lists the runs, ties every
definition to the lines it models, and gives for every property a mutation of
the model under which TLC finds it violated.

## 1. The system

Paths are relative to `src/`.

| component | state | operations | correct if |
|---|---|---|---|
| **Raft core**, `ohmyraft/OhMyRaft.H`, `ConsensusUtils.H` | `CurrentTerm`, `VotedFor`, `Logs` (persistent), role, `CommitIndex`, `LastApplied`, `VotesReceived`, `NextIndex`, `MatchIndex`, the lists `dispatchOut_`, `raftIn_`, `raftOut_`, `execIn_` | `submit`, `raftImpl`/`runLeaderOneIter`, `electionImpl`/`startElection`, the handlers `AppendEntries` and `RequestVote`, one detached thread per outgoing RPC | one leader per term; a committed entry is never lost or changed; replicas apply the same operations in the same order; replication and elections make progress |
| **Executer and TimeTravelSignal**, `OhMyRaft.H`, `ohmyraft/TimeTravelSignal.H` | the lists between the raft threads and the executer, `noBlock`, `waiting`, `keepRunning_` | `signal`, `wait`, `executerImpl`, `stop` | every committed operation is executed, once, in order, eventually; `stop()` returns |
| **Persistent state**, `ohmyraft/PersistentVector.H`, `PersistentStore.H`, `RaftState::persist` | a log file of fixed-width records, one small file per key, `persistedItems_` | `push_back`, `resize`, `persist`, `bootstrap`, `store`, `load` | after a crash the process finds a state it could have saved |
| **Replica front end**, `ohmydb/OhMyReplica.H`, `ohmyraft/ConsensusUtils.H`, `PromiseStore.H` | promises of waiting calls, and the handles to them in the lists and in the log | `get`, `put`, `Operation::execute`, `Operation::abort` | every call is answered once, with what the log says |
| **Database backend**, `ohmydb/LevelDBProxy.H` | a map on disk | `get`, `put` | external (LevelDB) |
| **Client library**, `ohmydb/ReplicatedDB.H`, `ohmyserver/DatabaseServiceImpl.C`, `DatabaseClient.H` | the server it is connected to, the map of servers, which lookups enlarge | `get` and `put` with up to `MAX_TRIES` attempts | a call reported as done is done; the leader is found if there is one |
| **Admin tool**, `ohmyserver/admin.cpp` | as the client library | `AddServer`, `RemoveServer` with up to `MAX_TRIES` attempts | it gives up only if no server can take the request |
| **Membership changes**, `OhMyRaft.H:620-876` | `ClusterConfig`, `peers_`, `LastConfigChangeIndex` | `AddServer`, `RemoveServer`, `ApplyAddServer`, `ApplyRemoveServer` | the configuration follows the log; one change at a time; an OK means a committed change; a new server catches up |
| **Fault injection**, `ohmyraft/RaftRPCRouter.H` | a mask of links and delays | `NetworkUpdate` and every outgoing RPC | any mask is a network Raft must tolerate |
| **Raft transport**, `ohmyserver/RaftServiceImpl.C`, `RaftService.H`, `raft.proto` | none | packing of entries | decoding gives back what was encoded |
| **Configuration files**, **command-line programs**, **Go prototype**, **scripts and logger** | none that matters | | |

How they interact.  A client's RPC runs `ReplicaManager::put` or `get` on a
server thread: it puts a promise in the `PromiseStore`, hands an `Operation` with
the handle to `RaftManager::submit` and blocks.  The *raft thread* swaps
`dispatchOut_` with `raftIn_`, appends the operations to the log if the replica is
the leader, and spawns a thread per peer that sends AppendEntries and processes the
answer.  The *election thread* turns a follower that heard nothing for a while
into a candidate and spawns a thread per peer that asks for a vote.  The *handlers*
run on the threads of the RPC server.  Whoever moves `CommitIndex` queues the new
entries for the *executer thread* and signals it; the executer applies them to
LevelDB and fulfils the promises.  `AppendEntries` aborts the promises of the
entries it truncates.  Everything is guarded by `state_.Mut`, but no thread holds
it across an RPC, and the raft thread releases it between looking at the role and
appending.

What is hard: six kinds of threads that read state, unlock and act on it later;
answers that arrive after the term, the role or the log changed; crashes between
the system calls of one logical write; votes that have to be remembered; a hand-made
signalling primitive; promise handles that are copied with the entries that carry
them; membership changes that take effect when they are appended, in loops that release
the mutex halfway.  `PROJECT.json` lists each such place with its line ("hazards").

## 2. The modules

| module | models | composed of |
|---|---|---|
| `RaftRPC` | the two RPCs as records, and the comparisons of logs their handlers make | |
| `OhMyRaft` | Raft core of all replicas and the RPC threads between them, fixed membership | `RaftRPC` |
| `MCOhMyRaft` | initial states and symmetry for TLC | `OhMyRaft` |
| `OhMyReplica` | client calls, promises, execution on the database, the answer the client gets | `OhMyRaft` |
| `MCOhMyReplica` | the calls of the instances | `OhMyReplica` |
| `Executer` | executer thread, `TimeTravelSignal`, `stop()` | |
| `WorkQueue` | abstract: what the executer promises | refined by `Executer` |
| `RaftStorage` | the files of one replica, one system call per step | |
| `DurableState` | abstract: what `OhMyRaft` assumes of the disk | refined by `RaftStorage` |
| `Failover` | the loops of the client library and of the admin tool that look for the leader | |
| `RaftTransport` | packing of log entries into structs, and unpacking | |
| `ClusterChange` | `AddServer`, `RemoveServer`, and Raft with a variable membership | `RaftRPC`, `RaftTransport` |
| `MCClusterChange` | the changes and operations of the instances | `ClusterChange` |
| `OhMyRaftProofs`, `OhMyRaftLogProofs`, `OhMyRaftCommitProofs` | theorems about `OhMyRaft`: types and elections, logs, commits | each extends the one before |
| `OhMyReplicaProofs` | theorems about `OhMyReplica`: calls, promises, what gets return | `OhMyReplica`, `OhMyRaftCommitProofs` |
| `ClusterChangeProofs` | theorems about `RaftTransport` and `ClusterChange`: packing, types, the configuration and the log | `ClusterChange` |
| `ExecuterProofs`, `RaftStorageProofs`, `FailoverProofs` | theorems | the modules of their names |

### OhMyRaft

One action is one critical section of `state_.Mut`.  A detached thread of the code is
one element of `rpcs`: *spawned* (its parameters are not read yet), *request*
(sent), *reply* (answered, not processed).  Since `rpcs` is a set, any request or
reply may overtake any other; a thread whose RPC fails disappears.

| code | model |
|---|---|
| `becomeFollower`, `becomeCandidate`, `becomeLeader` | `BecomeFollower`, `BecomeCandidate`, `BecomeLeader` |
| `electionImpl`, `startElection` and the two halves of its threads | `MayTimeOut`, `StartElection`, `SendRequestVote`, `RequestVoteReply` |
| handler `RequestVote` | `RequestVote` (`Newer`, `MayVote`, `UpToDate`) |
| `submit` | `Submit` |
| `raftImpl` before and after it unlocks | `RaftImplLeader` / `RaftImplOther`, `RunLeaderOneIter` |
| threads of `runLeaderOneIter` | `SendAppendEntries`, `AppendEntriesReply` (`NextAfter`, `Committable`, `NewCommitIndex`) |
| handler `AppendEntries` | `AppendEntries` (`StepsDown`, `Accepted`, `Merge`, `Apply`) |
| RPC failure, `RaftRPCRouter` dropping a call | `LoseRPC` |
| process killed and started with `--bootstrap` | `Crash`, and `CrashInPersist`, `CrashInRound`, `CrashInAppendEntries` for the points inside a write (`persist()` between its two files; the log before it is cut, and after each entry) |

Indices have the code's values: the first entry has index 0, -1 is "none".
`PrevLogTerms` makes the out-of-bounds read of `Logs[prevLogIndex]` a
nondeterministic value.  `voted`, `elections` and `committed` are history variables: the
votes that were given; the elections that were won, each with the log and the voters of the
winner; and the entries that leaders counted as committed.  Of the guards only `Forgotten`,
which serves a schedule parameter, reads one of them.
`elections` serves the proofs only, so the passing runs leave it out of the states they
compare (`VIEW WithoutElections`): no action, property or fairness condition of theirs
depends on it, and it changes only with the role of the winner.  `raft_restart` compares
still less (`LiveState`): `VotesReceived` of candidates and `NextIndex` and `MatchIndex` of leaders
only, since the others are set before they are read again; that a thread which reads
`NextIndex` finds a leader, if nothing is preempted, is proved (`RoundsAreLeaders`).

### OhMyReplica

It extends `OhMyRaft`, whose operations become calls.  Steps that move a handle are
conjoined with what happens to it: `Call` = `Submit` + a promise; `Round` =
`RunLeaderOneIter` + handles enter the log; `Replicate` = `AppendEntries` + aborts of
what is cut off; `Drop` = `RaftImplOther` + the lost handles; `Commit` = `AppendEntriesReply` +
the copies that go to the executer; `Execute` is the executer working on `raftOut`; `Lost` goes with
every crash.  All other steps of `OhMyRaft` are taken as they are (`RaftStep`).
A handle exists only in the process that took the call: it is neither sent nor
written to disk, but stays in the log after the promise is gone, so using it again
is undefined behaviour (`misused`).  What moves `CommitIndex` copies the entries to `raftOut_`
with the handles that they have in the log then (`Copied`, in `Commit` and `Replicate`), and
`Execute` uses those copies (`outHandles`): a copy whose entry is cut off and aborted before the
executer comes to it would be used after its promise is gone.  `PutReturns` and `GetReturns` are what the
service, the client stub and `ReplicatedDB` make of a result.

### Executer

The grain is that of `raftOutMutex_` and of the mutex inside `TimeTravelSignal`:
`Lock`, `Queue` and `Signal` are a thread that moves `CommitIndex`; `Wait`, `Wake`,
`WakeSpuriously`, `Swap`, `Execute`, `Executed` and `End` are `executerImpl`.
`OhMyRaft` hands operations to `raftOut` in one step; `Executer` justifies this by
refining `WorkQueue`, in which `pending` is `execIn \o raftOut`.

### RaftStorage

`PushBack`, `Resize`, `Persist`/`WriteItem`/`Persisted` are `PersistentVector`;
`Become`, `WriteTmp`, `Rename` are a change of role with the two calls of
`PersistentStore::store`; `Crash` and `CrashInWrite` restart the process with
`Bootstrap`.  A record is `Width` units and a unit knows which record it is a part of, so a file
that is read out of step gives `Garbled` records.  `OhMyRaft` treats a write as
atomic except for its `CrashIn...` actions; `RaftStorage` refines `DurableState`, whose
steps with a `Crash` in between are those actions: the log is cut and extended entry
by entry, `VotedFor` is saved before `CurrentTerm`.  Only the machine going down
(`store()` does not sync) is outside the model.

### Failover

One process, either a client (`ClientNext`: `ReplicatedDB::get` and `put`, which are the
same loop) or the admin tool (`AdminNext`), against a cluster of which only the
role, the life and the `LastKnownLeaderId` of each server matter.  `Redirect` follows a
NOT_LEADER answer; `NextBackup` and `NextServer` go on by counting ids after a
failed RPC.  The keys of the map are a variable, because `serverInfo_[backupID]`
and `servers_[server_id]` insert ids that are not there and the end of a pass is
decided by the size of the map.  `HearFrom` lets a server point to any server, since
`AppendEntries` notes the sender before it looks at the term.  
What a call went through is in history variables: the tries since a leader last took it
or the cluster last changed (`astray`), those of them that failed (`failures`), the servers
that redirected it since the last of these (`visited`), whether it reached a leader (`found`),
and whether the cluster changed meanwhile (`disturbed`; so does an RPC that fails although
its server is running).  `LeaderReachable` says that there is a leader and that no running
servers point only to each other; servers may still point to dead ones.

### RaftTransport

`Pack` and `Unpack` are the two loops of `RaftServiceImpl.C`.  The struct has room for the
arguments of every kind of operation; what the kind does not use is 0, or, in
`serverInfo`, whatever was on the stack (`Garbage`).  Every AppendEntries of
`ClusterChange` passes through it.

### ClusterChange

`ClusterConfig`, `peers_` and `LastConfigChangeIndex` are variables of every replica, and
the handlers of `AddServer` and `RemoveServer` are elements of `calls`.  Behaviours
start with a leader elected by the members of the configuration file; the other
processes were started with `--addedNode`.

| code | model |
|---|---|
| `addPeer`, `removePeer` | `AddPeers`, `RemovePeer` |
| end of `initialiseServices` | `FinishBoot` |
| loop that pushes entries, up to a change | `Batch`, `Push` |
| `ApplyAddServer`, `ApplyRemoveServer`: under the mutex, after it | `Changed`, `ApplyToPeers` |
| a round, and a round that goes on after a change | `RunLeaderOneIter`, `ResumeRound` (`Round`) |
| `AppendEntries`, and the same after a change | `AppendEntries`, `ResumeAppendEntries` (`Extend`) |
| check of the candidate against `peers_` | `RefuseStranger` |
| `AddServer`, `RemoveServer`: early returns; the first waiting loop; `submit`; the second waiting loop | `RefuseCall`, `BeginCall`; `ChangePending`, `PassPrev`; `SubmitChange`; `RoleLost`, `ChangeCommitted`, `AnswerOk`, `GiveUp` |
| `getLastKnownLeaderRaftAddr` | `Insert`, `AnswerError` |

The loop that pushes entries releases the mutex at every change.  A thread in that gap is
an element of `unlocked`, with the operations it still has to push; with `Overlap` any other
thread may run meanwhile, without it only the thread itself.  `detached` is a history
variable: the replicas whose `ClusterConfig` changed otherwise than with their log, which
is by truncation (nothing is undone) and by the lookup of an address (`operator[]` inserts).
What `OhMyRaft` has and `ClusterChange` has not: crashes, the hand-over to the executer,
and the step between the start of an RPC thread and its reading of the state.

## 3. The runs

| run | instance | properties | what it shows |
|---|---|---|---|
| `raft_restart` | 3 replicas start with diverged logs of terms 1 and 2; two of them may stand, up to term 4; overlapping rounds; 1 crash at any point (also between the files of `persist()` and inside a log write); 0.9 million states | `TypeOK`, `ElectionSafety`, `LogMatching`, `LeaderCompleteness`, `DurableCommit`, `StateMachineSafety`, `AppliedIsLogPrefix`, `MatchIndexSound`, `ReadInBounds`, `LeaderAppendOnly`, `CommitMonotonic` | one leader per term; commits do not go back; logs are repaired; a committed entry stays on a majority of disks and in the log of every later leader, and nobody applies anything else in its place; late answers leave `NextIndex` and `MatchIndex` sound; all under the conditions of section 4.  This is the instance in which committing an entry of an earlier term by counting would fail |
| `raft_converge` | diverged logs as in `tests/correctness_1`, fairness; 67 thousand states | `Converges` | all replicas end up with the same log and apply all of it |
| `executer_queue` | 4 jobs, spurious wakeups, `stop()`, fairness; 1650 states | `TypeOK`, `NoLostWakeup`, `InOrder`, `ImplementsWorkQueue`, `JobsGetDone`, `StopReturns` | jobs are executed in order and once, whatever happens; without a spurious wakeup none is slept on and all get done; after `stop()` the executer ends with the next commit |
| `storage_files` | 3 items, 2 crashes, between system calls and inside a write; 1.5 million states | `TypeOK`, `PersistedIsOnDisk`, `ImplementsDurableState` | the files are what `OhMyRaft` takes them for, as long as nothing is written after a torn record |
| `replica_promises` | a put and a get, two leaders, lossy AppendEntries; 0.3 million states | `HandlesUsedOnce`, `ClientTypeOK`, `RealTimeOrder`, `WaitingIsQueued` | no promise is fulfilled twice; executed calls respect real time; a call waits in vain only if `raftImpl` cleared it from its input |
| `client_failover` | configurations {0,1,2}, {1,3}, {0,3}, {2}; any state of the cluster at the start and any changes of it; 10 tries per call, any number of calls; 1.2 million states | `TypeOK`, `EveryServerTried`, `FindsLeaderSoon`, `LeaderIsFound` | no pass of either loop leaves a server out, with gaps in the ids or without; while there is a leader and no redirection leads in a circle, the tries that go astray are bounded; a call during which the cluster does not change reaches the leader, past servers that point to dead ones, before the loop gives up |
| `cluster_change` | members 0 and 1, led by 0; 2 is added and 0 is removed, in either order; one put, two calls served, each may give up; 2 may stand before and after it is a member; lossy RequestVotes; fairness; 0.4 million states | `TypeOK`, `ConfigFollowsLog`, `OkIsCommitted`, `PeersCatchUp` | `ClusterConfig`, `peers_` and `LastConfigChangeIndex` are what the log makes of them unless a change is cut off or an address lookup inserts a key; a leader's OK means a change on a majority of the new configuration; a new server catches up through ordinary rounds |
| `replica_replay` | two puts and a get, 1 crash; 0.8 million states | `ReadsFollowTheLog` | executing the log again on the database left behind gives the answers of the log |

Each of the following runs checks one thing the repository says of itself, and TLC finds
it violated (section 7): `raft_two_leaders`, `storage_torn`, `replica_lost_put`,
`cluster_index_mismatch`.

Deadlock checking is off in the Raft, replica and membership runs because their bounds
stop them (no election beyond `MaxTerm`, no more crashes, no more calls); the runs of the
executer, of the storage and of the loops check for deadlock.

## 4. Bounds and schedule parameters

Bounds: `MaxTerm` (elections), `MaxCrash`, `MaxStragglers` (RPC threads that may still be in
progress when a new round or election starts, so rounds overlap but do not pile up), the finite
set `Op` (each operation submitted at most once), `MaxJobs`, `MaxLen`, `MaxCalls` (calls of
`AddServer` and `RemoveServer` that a leader serves; two, so that one change follows another),
`MaxTries` (ten; `MAX_TRIES` is 1000 in the code.  Ten is more than `TriesToLeader` of every
configuration in the run, of which the largest is nine, for three running servers 0, 1 and 2,
so that `LeaderIsFound` covers calls that use up their tries).  Two terms give an old and a new
leader, which is what the properties of elections and truncation compare; commitment of an
entry of an earlier term needs a third election, and `raft_restart` starts where two of them
have happened.  One straggler is enough for an old answer to meet a new round.

`MayStand` restricts who stands for election in runs about one leader.  `Lossy` is empty
where it would multiply states without adding behaviours of interest: a lost request
then is one that is delivered after everything that matters.

What the code guarantees depends on three things a scheduler may or may not do.  They
are parameters of `OhMyRaft`, so that the model shows both sides:

* `ForgottenVotes`: a replica is asked for a vote in a term in which it voted
  before and has cleared `VotedFor` since (`becomeLeader`, or a second `becomeFollower`
  in one term).  With TRUE `ElectionSafety` fails (`raft_two_leaders`).
* `Preemption`: the state changes between a thread's read and its use of what it
  read (`raftImpl` / `runLeaderOneIter`, the start of an RPC thread).  With TRUE
  `LogMatching` fails (in `RaftTwoLeaders.cfg`, with votes remembered, no losses,
  `Op = {a, b}` and `MaxTerm = 2`).
* `StaleReplies`: an answer is processed after its replica left the term of
  the request.  Both kinds of threads compare the answer with the term they saved.  With TRUE
  a vote of one term is counted for an election of another: TLC finds a replica elected by its own
  vote and one of an earlier term, so that the invariant
  `\A e \in elections : IsMajority(Cardinality(e.voters))` fails (in `RaftTwoLeaders.cfg`, with votes
  remembered, two replicas that stand and `MaxTerm = 3`).  `becomeFollower`, which stores what it is
  given, takes `CurrentTerm` back.

All three can happen in the real system.  The passing Raft and replica runs set
them to FALSE: they show what the code guarantees on the schedules that avoid the
three.  That terms do not decrease is not among the properties: `StaleReplies` is the only
way in which they could, and with it they do.  The theorems say which of the three they
need: `TypeCorrect`, `LeadersOnlyAppend`, `ReplicaImplementsRaft` and `ClientTypes` need none,
`ElectionSafe` `~ForgottenVotes` and `~StaleReplies`, and the theorems about logs and
commits all three (`Scheduled`): each of the three breaks `LogMatching` or the elections it
rests on.

`ClusterChange` has parameters of its own:

* `Overlap`: other threads run while a loop that pushes entries has released the mutex.
  With TRUE `IndexMatches` fails (`cluster_index_mismatch`); `cluster_change` sets it to
  FALSE and shows what holds when nothing falls into the gap.
* `ParallelCalls`: an administrator asks for a change while another call is being
  served.  FALSE in the passing run: the check for a pending change and the
  submission are separate critical sections, so with TRUE two calls pass the check one after
  the other and the second change is appended while the first is not committed; and
  `OkIsCommitted` fails (in `ClusterJoin.cfg` with `Spec`, `MayStand = {}` and `MaxTerm = 1`).
  That there is one change at a time is therefore not among the properties.
* `Prompt`: polls (100 ms), rounds (50 ms) and the start of a process finish before
  election timers (3.5 s) and limits of polling (10 s) expire.  TRUE in `cluster_change`; with
  FALSE TLC finds `ConfigFollowsLog` violated (a process that has not yet filled `peers_` gets a
  change).  It also keeps elections from happening during a call.  The code does not guarantee
  that, since a call may poll for longer than an election timer runs; the run is about calls
  that are answered, or give up, under one leader, and about elections between them.
* `MayStand = {2}`: the newcomer stands, as a stranger whom everybody refuses and as a
  member who can be elected and depose the leader that added it, so that a
  change is handed over, committed or cut off by another leader.  A round starts when
  the threads of the previous one have ended (`MaxStragglers = 0`); elections are not
  bounded by that.

Within these bounds two branches of the code are not taken: a vote that does not yet make
a majority (clusters of two and three), and two changes in one round.

`Executer` and `RaftStorage` have no such parameters.  Spurious wakeups, `stop()`
and torn writes are always possible there, and a history variable (`spurious`,
`torn`) lets a property say that it holds until one has happened.

Symmetry is used only in runs without liveness and without fixed initial logs:
replicas that may stand, replicas that may not, and operations are interchangeable.

## 5. Fairness

`OhMyRaft!Fairness` (used by `raft_converge`): the threads
are scheduled, the raft thread's loop keeps running and a follower's timer expires
(weak fairness).  AppendEntries is repeated every round, so that a link that works
again and again delivers it again and again: strong fairness per receiver for
requests and for answers.  RequestVote is sent once per election, and nothing is assumed of
it beyond that its threads run; `raft_converge` therefore makes AppendEntries lossy
and RequestVote not.  Crashes, losses and stray elections are never fair.

`Executer!FairSpec`: a committing thread goes on to `Signal`; the executer takes its
steps; it gets `raftOutMutex_` if that is free again and again (strong fairness of
`Swap`), since between two commits lies an RPC.  A spurious wakeup is never owed.

`ClusterChange!Fairness` (used by `cluster_change`): threads that were started run and
RPCs are served (weak fairness of `ThreadStep`); the raft thread of a leader starts a
round every 50 ms, which only the bound on stragglers disables, hence strong fairness of
rounds.  AppendEntries does not fail there; RequestVote may, and is not owed.  Elections,
submissions, calls, polls and the end of a start-up are not fair.

## 6. Proofs

All proofs are checked by TLAPS with the SMT and Zenon backends and LS4 for the temporal
steps.  The constants are arbitrary up to the assumptions of their modules: any
finite set of servers, any operations, any bootstrapped logs and terms, any bounds.

* **`TypeCorrect`**: `Spec => []TypeOK`.  Not inductive, because `NextIndex` stays a
  natural number only if nobody refuses a request at index 0.  `TypeInv` adds
  `RefusedAboveZero`: a refusal on its way back in the caller's term was for
  a `prevLogIndex` of at least 0.
* **`LeadersOnlyAppend`**: `Spec => LeaderAppendOnly`, from `TypeInv`: each action
  either leaves the log of a leader alone, extends it, or takes the role away.
* **`ElectionSafe`**: `Spec => []ElectionSafety` if votes are not forgotten and answers
  not stale.  `ElectionInv` strengthens it: votes are of terms the voter reached
  (`VotesAreOfThePast`), one per term, `VotedFor` is the vote of the current term
  or nothing, a candidate asks a peer once per term (`AskedOnce`), a granted answer was
  voted (`GrantedIsVoted`), the votes counted are not more than those given and not
  still on their way (`CountIsSound`), and a leader has the votes of a majority
  (`LeaderIsElected`).  Two majorities meet (`MajoritiesMeet`), and the voter they
  share voted once.  The crash between the two files of `persist()` is a step of the
  proof: a vote is then on disk with an older term, which is harmless because the
  vote counts only as "not nobody" there.
* **`LogsMatch`**, **`ReadsInBounds`**, **`MatchIndexIsSound`** (`OhMyRaftLogProofs`):
  `Spec => []LogMatching`, `[]ReadInBounds`, `[]MatchIndexSound`.  Induction over a log is
  avoided by cutting it into *links*: an entry with its index and the term of the entry
  before it.  All links of logs, of the logs of past winners and of requests on their way
  form one set (`Links`), and an index and a term name one link of it (`LinksUnique`).
  Two logs with a common link agree on the one before, so the last disagreement below
  a common entry, if there were one, would be followed by an agreement that forces it to agree
  (`MatchingLogs`).  Uniqueness is preserved because every link not found by bootstrap
  was made by the winner of its term on top of the log it won with (`LinksMade`,
  `LeaderExtends`), and a term has one winner (`ElectionInv`).  `AppendsOfLeaders` says
  that requests are pieces of their sender's log, `AcksSound` that a success in the
  leader's term stands for a prefix that is on the peer's disk, `NextInBounds`
  that `NextIndex` is within the log.  A log write that a crash
  cuts short leaves the log as it was, or a prefix of what it would have left, and a prefix has no
  new links (`PrefixLinks`).
* **`LeadersAreComplete`**, **`CommitsAreDurable`**, **`StateMachinesAgree`**,
  **`AppliedIsPrefix`**, **`CommitsNeverRetreat`** (`OhMyRaftCommitProofs`): `Spec =>
  []LeaderCompleteness`, `[]DurableCommit`, `[]StateMachineSafety`, `[]AppliedIsLogPrefix`, and
  `CommitMonotonic`.  `Acked` is what a replica's success means from then on: it
  holds the entry at index `j` of term `t`, and whomever it votes for in a later term holds it
  too, both unless somebody without the entry has been elected before (`Bypassed`).
  Every step preserves that (`AckStep`).  If a majority acknowledged the entry (`Chosen`),
  nobody without it is ever elected: the first such winner would have the vote of one of
  them (`Electors`), who would have had to be bypassed before (`Completeness`).
  `AcksKept` ties `MatchIndex` and successes on their way
  to acknowledgements.  `CommittedAnchored` anchors each committed entry at a chosen entry
  of the leader's own term at or after it, which is where the rule that a leader counts
  only entries of its term is used.  `CommitHeld` and `RequestCommits` say that a
  replica's `CommitIndex`, and the `leaderCommit` of a request, only cover anchored entries, and
  `Applied` that the executer got exactly those.
* These eight theorems, and the four below about calls, assume `Scheduled` (section 4) and of the state found by bootstrap
  (`Bootstrapped`, `Recovered`): the logs are made of unique links with terms that do not
  decrease, no entry is ahead of its replica's `CurrentTerm`, and no replica that may
  stand has a `CurrentTerm` behind the term of any entry.  A first start (empty logs)
  satisfies all of it, and so do the initial states of the runs.  The last condition is
  there because the model has no record of the votes of before the bootstrap, so a
  second winner of an old term could not be ruled out; within a behaviour crashes and
  restarts are covered without it.
* **`ExecuterTypes`**, **`JobsInOrder`** (`Spec => []InOrder`: done, being done and queued
  jobs are 1 to `queued` in order), **`NoJobIsSleptOn`** (`Spec => []NoLostWakeup`; the
  invariant ties `noBlock`, `waiting` and the executer's place together until the first
  spurious wakeup), **`ExecuterImplementsWorkQueue`** (`Spec => ImplementsWorkQueue`, with
  spurious wakeups and `stop()`).
* **`ReplicaImplementsRaft`**: `ReplicaSpec => Spec`: whatever clients, promises and
  databases do, the replicas behave as `OhMyRaft` allows, so every theorem about
  it carries over.
* **`ClientTypes`**: `ReplicaSpec => []ClientTypeOK`: aborted or executed, a get is answered
  with an optional value and a put with a Boolean; uses `TypeCorrect` through the
  refinement.
* **`HandlesAreUsedOnce`**, **`WaitingCallsAreQueued`**: `ReplicaSpec => []HandlesUsedOnce` and
  `[]WaitingIsQueued`.  `CallInv` says of each replica that a call which has a promise is in
  exactly one place: in one of the two input lists, or in the log at an index with a
  *live* handle, one that the executer has not come to (`OnePlace`, and `Placed` for the
  other direction, which `raftImpl` breaks for the calls it clears).  The executer uses the
  copies in `raftOut`, which truncation does not reach.  `CopyInv` says that these
  have the handles of their entries in the log; it is preserved because an entry that was copied
  is never cut off, which is `AppliedIsPrefix` of `OhMyRaft`.  So what truncation aborts was
  not handed to the executer, and what is executed was not aborted.
* **`CallsRespectRealTime`**: `ReplicaSpec => []RealTimeOrder`.  `OrderInv` follows an operation
  from the call to its commitment: an operation that was not called is in no log and no request
  (`KnownOps`); what is executed is committed (`ExecutedCommitted`); the committed indices
  have no gap (`CommittedDown`).  A put that was acknowledged before a call thus has a
  committed index, and the call gets a place above it (`AfterAcked`), since an index that
  is committed later is above those that were committed: a new leader has them all.
* **`ReadsAreOfTheLog`**: `ReplicaSpec => []ReadsFollowTheLog`.  Without induction over the log:
  `HoldsLast` says that a key of the database has the value of the last put to it that this
  process executed, and `HoldsOld` that what it has from a process that was killed was put
  by a committed entry which lies before every call that still waits, so that a get that is
  answered finds it executed again.  What a get was answered stays true because whatever
  is committed later lies above it (`ReadStays`).

* **`NoServerLeftOut`** and **`FailoverTypes`**: `Spec => []EveryServerTried` and
  `Spec => []TypeOK` of `Failover`, for any finite configurations of ids.  `Counted`
  strengthens them: what was connected to by counting is an interval from 0, and all
  of it is in the map.  When the count reaches the size of the map, the map is that
  interval (`Interval`, from the cardinality of subsets), so no id beyond it is left.

* **`LeaderIsFoundSoon`** and **`UndisturbedCallFindsLeader`**: `Spec => []FindsLeaderSoon` and
  `Spec => []LeaderIsFound`: for any configurations and any `MaxTries`, no more than `TriesToLeader`
  tries in a row go astray while a leader is reachable, and a call during which the cluster does
  not change reaches a leader before the tool finds all servers dead, and before either
  loop has used up its tries if these are more than `TriesToLeader`.  `FoundInv` adds to what was
  counted:
  * that no id beyond the largest is ever inserted (`IdsBounded`);
  * that the RPCs that failed and those that may still fail before the count comes to a leader are
    together at most the number of ids (`FailuresBounded`; of the client for each turn at the
    largest id).  For the tool this means that the count cannot end above the leader
    without having connected to it;
  * that the servers which redirected the call since the last failure point to each other or to
    where the call is now (`Chain`).  If the call came back to one of them, they
    would point only to each other, so each redirects at most once between two failures;
  * that the tries that went astray are the failures with the redirections in between
    (`AstraySums`), and for a call that is not disturbed all its tries (`TriesOfCall`).

  That a finite set of ids has a largest one is proved without induction, from the
  well-foundedness of `<` (`Largest`).
* **`PersistedItemsAreOnDisk`**, **`StorageTypes`**: `Spec => []PersistedIsOnDisk` and
  `Spec => []TypeOK` of `RaftStorage`, for any width of a record.  The file is looked at unit by
  unit: unit `(i - 1) * Width + k` is part `k` of item `i` (`HoldsItems`), so that `Records`, which
  cuts the file by division, finds exactly those items and drops a remainder that is less than
  a record (`RecordsOf`).  `Aligned` says so of the log file until a record is torn, `InFile`
  that the file is never shorter than what the process counts.
* **`FilesAreDurable`**: `Spec => ImplementsDurableState`: each step of `RaftStorage`
  is a step of `DurableState` or invisible to it: writing the temporary file of
  `PersistentStore::store` changes nothing that `load` sees and the rename replaces one value;
  a crash in a write leaves the whole records of it.  `Stored` says that what is renamed is what
  was to be stored, and that the vote is stored before its term.

* **`TransportIsFaithful`**: `Unpack(Pack(es)) = es` for any entries `es` over any keys,
  values and ids, and any `Garbage`; by cases on the kind of operation
  (`UnpackOpOfPack`).

* **`ClusterTypes`**, **`ConfigIsOfTheLog`** (`ClusterChangeProofs`):
  `Spec => []TypeOK` and `[]ConfigFollowsLog` of `ClusterChange`, for any cluster, members,
  operations and changes, and with parallel calls or without.  Both assume `~Overlap` (nothing
  runs in a gap of another loop), the second also `Prompt`: conditions of `cluster_change`,
  discussed in section 4.  The second rests on the first:
  * `TypeInv`: besides types, that whoever leads or stands has a term other than -1, that
    refusals in the sender's term are of requests above index 0 (so that `NextIndex` stays a
    natural number), that a loop in a gap is a round on a leader or an AppendEntries on a follower,
    and that only processes that are awake are peers or get requests (`Awake`).
  * `ConfigInv`: `Follows` says what the peers are *going to be* while a loop is in its gap: the
    change that is being applied, applied to `peers_`, gives the configuration of the log.
    `LastChange` bounds the changes of every log, also of detached replicas.  Each push
    ends at the first change (`BatchHas`), and the configuration of a log is changed by its
    last change only (`PushedNoChange`, `PushedChange`); a cut leaves it alone unless it cuts
    a change off (`PrefixChanges`).

Only model-checked: `OkIsCommitted`, which would need the argument of `CommitsAreDurable` for
quorums that change, and liveness (`Converges`, `JobsGetDone`, `StopReturns`, `PeersCatchUp`),
since fairness is out of the prover's reach.

The inductive invariants of the Raft and replica theorems (`TypeInv`, `ElectionInv`, `LogInv`,
`SafetyInv`, `CallInv`, `OrderInv`, `ReadInv`), those of `ClusterChangeProofs`, `FoundInv` and
the `IInv` of `RaftStorageProofs` were checked with TLC on small instances before they were proved.

## 7. Findings

| run | what the code does |
|---|---|
| `raft_two_leaders` | `becomeLeader`, and `becomeFollower` without a new term, clear `VotedFor`: a replica votes twice, and two leaders are elected in one term |
| `storage_torn` | after a torn write `bootstrap` does not cut the file; later records are read out of step |
| `replica_lost_put` | an aborted put is reported to the client as done |
| `cluster_index_mismatch` | `AppendEntries` releases the mutex to add a peer; the handler of the next round pushes the entries that are left, and the first handler pushes them again: the follower holds an entry twice |

`PROJECT.json` quotes the comment or document each of them contradicts.  Weaknesses that
the models show without a run of their own:

* `raftImpl` looks at the role, unlocks, and `runLeaderOneIter` appends under
  `CurrentTerm`: a replica that was made a follower in between appends entries under
  the term of another leader, and two logs differ at one index and term (`Preemption`).
* `becomeFollower` takes `CurrentTerm` back to the term of a late answer, and an answer to a
  RequestVote is counted if the replica is a candidate, in whatever term: it can be elected by
  votes of two terms that are no majority in either (`StaleReplies`).
* A candidate has no timer: after a split vote, or when its requests are lost, it stays a
  candidate until someone else's RPC reaches it.  `Converges` is therefore about one
  replica that stands, and RequestVotes that arrive.
* A spurious return from `cvar.wait` leaves `waiting` set, and the next signal is
  lost; hence `~spurious` in `NoLostWakeup` and `JobsGetDone`.
* `stop()` joins an executer that nobody wakes; hence the premise of `StopReturns`.
* `raftImpl` clears the input of a replica that is no longer the leader without
  aborting it, and the calls wait for ever; hence `dropped` in `WaitingIsQueued`.
* An aborted get is reported as `KEY_NOT_FOUND`.
* Truncation does not undo a membership change, and looking up the address of a leader that
  was removed puts it back into `ClusterConfig`, without an address; majorities are then
  counted over a configuration that no log has (`detached` in `ConfigFollowsLog`).
* `RemoveServer` does not look at the role while it waits: a deposed leader whose
  change was cut off answers OK once the entry in its place is committed, and resigns to
  term -1 if the change was about itself.  `OkIsCommitted` is about answers of a
  leader; without that premise TLC finds this behaviour in `ClusterJoin.cfg`.
* Two calls of `AddServer` and `RemoveServer` at once may both find nothing pending, and the
  second change is appended while the first is not committed.  Each of
  the calls takes the first change that is committed for its own, so that one of them may answer
  OK before its change is in any log (`ParallelCalls`).
* A new leader appends nothing of its own: entries that a deposed leader has in excess
  stay in its log until the next operation arrives; hence `IsPrefix` in `PeersCatchUp`.
* The admin tool reports "All servers are dead" after as many failed RPCs as there are ids,
  although several may have been to one dead server, reached by counting and again by redirection:
  with 0 running, and 1 and 2 dead, it is redirected from 0 to 1, fails there, counts to 1 and 2,
  and gives up.  That it does not do so while a leader can be reached is `LeaderIsFound`.
* Two former leaders that point to each other send a client to and fro until its tries are used
  up; hence the premise `LeaderReachable`.

## 8. Not modelled, and the plan

Not modelled at all: text parsing (`OhMyConfig`, command lines), printing, benchmarks,
scripts, the logger, LevelDB's own errors, failure of the machine, and the Go
prototype, which is not part of the database.

Of the membership changes: crashes (after a restart `ClusterConfig` is read from the
configuration file again, and changes in the bootstrapped log are not applied), clusters
of more than three, and in the runs elections during a call and two calls at once.  The use of `peers_` without the mutex and
the destruction of a client whose RPC is in flight are undefined behaviour without
outcomes to enumerate; reads of `peers_` are atomic in the model.  The mask of `NetworkUpdate`
is not a variable: `LoseRPC` may drop any call of the kinds in `Lossy`.  The file that
the admin tool writes after a change is not modelled.

Planned, in this order:

1. The repeated put: `Failover` over an abstract key-value register, with the abstract
   specification of a linearizable register with at-least-once puts.
2. `ClusterChange` with crashes, and the configuration file that an administrator edits.
3. A proof of `OkIsCommitted`, and of the theorems about `ClusterChange` with other threads
   running in the gaps (`Overlap`), where the role of a loop in its gap may change.
