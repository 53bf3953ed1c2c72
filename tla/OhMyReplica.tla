---------------------------- MODULE OhMyReplica ----------------------------
(***************************************************************************)
(* What clients see of the replicas: ReplicaManager::get and put           *)
(* (ohmydb/OhMyReplica.H), the PromiseStore a call waits on, Operation::   *)
(* execute and abort (ohmyraft/ConsensusUtils.H), the database, and what   *)
(* OhMyDBService, OhMyDBClient and ReplicatedDB make of the result.        *)
(*                                                                         *)
(* The module composes these with the replicas of OhMyRaft: the operations *)
(* of OhMyRaft are the calls of clients, and each of its steps that moves  *)
(* a promise handle is taken together with what happens to the handle.     *)
(*                                                                         *)
(* An operation carries the handle of a promise as long as it stays in the *)
(* process that was called: it is not sent to peers and not written to     *)
(* disk.  raftOut_ gets a copy of the operation, with its handle, and the  *)
(* executer works on that copy: the entry in the log keeps its handle      *)
(* after the promise is gone, and the copy keeps it if the entry is        *)
(* aborted.                                                                *)
(***************************************************************************)
EXTENDS OhMyRaft

CONSTANTS
    Key, Value,
    NoValue,      \* an empty std::optional
    Args          \* what each operation is

ASSUME ArgsAssumption ==
    /\ NoValue \notin Value
    /\ Args \in [Op -> [kind : {"GET"}, key : Key] \cup [kind : {"PUT"}, key : Key, val : Value]]

VARIABLES
    store,      \* PromiseStore of each replica: the calls whose promise it holds
    handles,    \* the places in the log of each replica whose operation has a
                \* promise handle
    outHandles, \* the places in raftOut whose operation was copied with a handle
    executed,   \* how many operations each replica executed since it was started
    db,         \* the database of each replica, on disk
    answer,     \* what ReplicatedDB::get or put returned to the client
    dropped,    \* history: the operations cleared from raftIn_ with their handles
    misused,    \* a handle was used whose promise was gone (undefined behaviour)
    ackedBefore \* history: the puts acknowledged when a call was submitted

clientVars  == <<store, handles, outHandles, executed, db, answer, dropped, misused, ackedBefore>>
replicaVars == <<vars, clientVars>>

Gets == {op \in Op : Args[op].kind = "GET"}
Puts == {op \in Op : Args[op].kind = "PUT"}

\* by tells who fulfilled the promise; "rpc" means that the RPC failed, and
\* "none" that the call has not returned.
NoAnswer       == [by |-> "none"]
Returned(by, ret) == [by |-> by, ret |-> ret]
Executed(op)   == answer[op].by = "execute"
Answered(op)   == answer[op].by \in {"execute", "abort"}

ReplicaInit ==
    /\ Init
    /\ store = [s \in Server |-> {}]
    /\ handles = [s \in Server |-> {}]
    /\ outHandles = [s \in Server |-> {}]
    /\ executed = [s \in Server |-> 0]
    /\ db = [s \in Server |-> [k \in Key |-> NoValue]]
    /\ answer = [op \in Op |-> NoAnswer]
    /\ dropped = {}
    /\ misused = FALSE
    /\ ackedBefore = [op \in Op |-> {}]

-----------------------------------------------------------------------------
\* What the client is told.  PutResponse has no field for the result of the put,
\* and OhMyDBClient fills in -1, which counts as true.
PutReturns(res) == TRUE
GetReturns(res) == res

Returns(op, res) == IF op \in Puts THEN PutReturns(res) ELSE GetReturns(res)

\* getAndRemove and set_value for each of ops; res[op] is the result.
Fulfil(s, ops, by, res) ==
    /\ misused' = (misused \/ ~(ops \subseteq store[s]))
    /\ store' = [store EXCEPT ![s] = @ \ ops]
    /\ answer' = [op \in Op |-> IF op \in ops THEN Returned(by, Returns(op, res[op]))
                                              ELSE answer[op]]

\* get or put puts a promise in the store, submits the operation with its handle
\* and waits.  On a replica that is not the leader the promise is taken out
\* again and the client tries another one.
Call(s, op) ==
    /\ Submit(s, op)
    /\ store' = [store EXCEPT ![s] = @ \cup {op}]
    /\ ackedBefore' = [ackedBefore EXCEPT ![op] = {p \in Puts : Executed(p)}]
    /\ UNCHANGED <<handles, outHandles, executed, db, answer, dropped, misused>>

\* Mutation: the calls return as soon as the leader has written its log.
AnswerOnAppend(s) ==
    /\ RunLeaderOneIter(s)
    /\ Fulfil(s, {raftIn[s][i] : i \in DOMAIN raftIn[s]}, "execute",
              [op \in Op |-> IF op \in Puts THEN TRUE ELSE NoValue])
    /\ UNCHANGED <<handles, outHandles, executed, db, dropped, ackedBefore>>

\* The operations of raftIn_ go into the log with their handles.
Round(s) ==
    /\ RunLeaderOneIter(s)
    /\ handles' = [handles EXCEPT ![s] = @ \cup (Len(log[s]) + 1)..(Len(log[s]) + Len(raftIn[s]))]
    /\ UNCHANGED <<store, outHandles, executed, db, answer, dropped, misused, ackedBefore>>

\* What is queued for the executer on s are copies of the entries of its log, with
\* the handles that those have at that moment.
Copied(s) ==
    outHandles' = [outHandles EXCEPT ![s] =
                      @ \cup {i \in handles'[s] : i > Len(raftOut[s]) /\ i <= Len(raftOut'[s])}]

\* The leader counts the copies of its entries and queues those it commits.
Commit(r) ==
    /\ AppendEntriesReply(r)
    /\ UNCHANGED <<store, handles, executed, db, answer, dropped, misused, ackedBefore>>
    /\ Copied(r.from)

\* A replica that is not the leader clears its input, and does not abort it.
Drop(s) ==
    /\ RaftImplOther(s)
    /\ dropped' = dropped \cup {dispatchOut[s][i] : i \in DOMAIN dispatchOut[s]}
    /\ UNCHANGED <<store, handles, outHandles, executed, db, answer, misused, ackedBefore>>

\* The places that AppendEntries cuts off the log of the receiver.
CutOff(r) ==
    {i \in DOMAIN log[r.to] : i > r.prevLogIndex + 1 + Agreeing(log[r.to], r.prevLogIndex, r.entries)}

\* The operations that the request makes its receiver abort: AppendEntries cuts
\* the log only if it accepts the request and finds a new entry in it.
Cuts(r)    == Accepted(r) /\ Merge(log[r.to], r.prevLogIndex, r.entries) # log[r.to]
Aborted(r) == {log[r.to][i].op : i \in {j \in CutOff(r) : Cuts(r) /\ j \in handles[r.to]}}

\* Mutation: a get is aborted like a put.
AlwaysFalse(op) == FALSE

\* An aborted put is false, an aborted get has no value.
AbortResult(op) == IF op \in Puts THEN FALSE ELSE NoValue

\* Mutation: what is cut off is not aborted.
ReplicateOnly(r) ==
    /\ AppendEntries(r)
    /\ handles' = [handles EXCEPT ![r.to] = IF Cuts(r) THEN @ \ CutOff(r) ELSE @]
    /\ Copied(r.to)
    /\ UNCHANGED <<store, executed, db, answer, dropped, misused, ackedBefore>>

Replicate(r) ==
    LET s == r.to
    IN  /\ AppendEntries(r)
        /\ handles' = [handles EXCEPT ![s] = IF Cuts(r) THEN @ \ CutOff(r) ELSE @]
        /\ Copied(s)
        /\ Fulfil(s, Aborted(r), "abort", [op \in Op |-> AbortResult(op)])
        /\ UNCHANGED <<executed, db, dropped, ackedBefore>>

\* Mutation: a put does not overwrite.
PutIfAbsent(d, op) ==
    IF d[Args[op].key] = NoValue THEN [d EXCEPT ![Args[op].key] = Args[op].val] ELSE d

\* LevelDB's put.
Put(d, op) == [d EXCEPT ![Args[op].key] = Args[op].val]

\* The executer takes the next operation it was handed, with the handle that the
\* copy has, whatever became of the entry in the log since.
Execute(s) ==
    LET i   == executed[s] + 1
        op  == raftOut[s][i]
        res == IF op \in Puts THEN TRUE ELSE db[s][Args[op].key]
    IN  /\ i <= Len(raftOut[s])
        /\ executed' = [executed EXCEPT ![s] = i]
        /\ db' = IF op \in Puts THEN [db EXCEPT ![s] = Put(@, op)] ELSE db
        /\ Fulfil(s, IF i \in outHandles[s] THEN {op} ELSE {}, "execute", [o \in Op |-> res])
        /\ UNCHANGED <<vars, handles, outHandles, dropped, ackedBefore>>

\* The process of s dies: the calls it was serving fail, except those told that
\* they are aborted.  After the restart the whole log is executed again, on the
\* database as it is.
Lost(s, told) ==
    /\ store' = [store EXCEPT ![s] = {}]
    /\ handles' = [handles EXCEPT ![s] = {}]
    /\ outHandles' = [outHandles EXCEPT ![s] = {}]
    /\ executed' = [executed EXCEPT ![s] = 0]
    /\ answer' = [op \in Op |->
                     IF op \in told THEN Returned("abort", Returns(op, AbortResult(op)))
                     ELSE IF op \in store[s] THEN [by |-> "rpc"]
                     ELSE answer[op]]
    /\ UNCHANGED <<db, dropped, misused, ackedBefore>>

-----------------------------------------------------------------------------
\* The steps of OhMyRaft that do not touch a promise.
RaftStep ==
    /\ \/ \E r \in Threads("spawned", "RequestVote")   : SendRequestVote(r)
       \/ \E r \in Threads("spawned", "AppendEntries") : SendAppendEntries(r)
       \/ /\ Settled
          /\ \/ \E s \in Server : StartElection(s) \/ RaftImplLeader(s)
             \/ \E r \in Threads("request", "RequestVote") :
                   (ForgottenVotes \/ ~Forgotten(r)) /\ RequestVote(r)
             \/ \E r \in Threads("reply", "RequestVote") : Timely(r) /\ RequestVoteReply(r)
             \/ \E r \in rpcs : LoseRPC(r)
    /\ UNCHANGED clientVars

CrashStep ==
    \/ \E s \in Server : CrashInRound(s) /\ Lost(s, {})
    \/ /\ Settled
       /\ \/ \E s \in Server : (Crash(s) \/ CrashInPersist(s)) /\ Lost(s, {})
          \/ \E r \in Threads("request", "AppendEntries") : 
                CrashInAppendEntries(r) /\ \E told \in SUBSET Aborted(r) : Lost(r.to, told)

ReplicaNext ==
    \/ RaftStep
    \/ CrashStep
    \/ \E s \in Server : Round(s) \/ Execute(s)
    \/ /\ Settled
       /\ \/ \E s \in Server : Drop(s) \/ \E op \in Op : Call(s, op)
          \/ \E r \in Threads("request", "AppendEntries") : Replicate(r)
          \/ \E r \in Threads("reply", "AppendEntries") : Timely(r) /\ Commit(r)

ReplicaSpec == ReplicaInit /\ [][ReplicaNext]_replicaVars

-----------------------------------------------------------------------------
\* Types.  That a get is answered with an optional value and a put with a Boolean,
\* by execute and by abort, is what the std::get of ReplicaManager relies on.
ClientTypeOK ==
    /\ store \in [Server -> SUBSET Op]
    /\ handles \in [Server -> SUBSET (Nat \ {0})]
    /\ outHandles \in [Server -> SUBSET (Nat \ {0})]
    /\ executed \in [Server -> Nat]
    /\ db \in [Server -> [Key -> Value \cup {NoValue}]]
    /\ DOMAIN answer = Op
    /\ \A op \in Op : Answered(op) =>
          answer[op].ret \in IF op \in Puts THEN BOOLEAN ELSE Value \cup {NoValue}
    /\ dropped \subseteq Op
    /\ misused \in BOOLEAN
    /\ ackedBefore \in [Op -> SUBSET Puts]

\* A promise is fulfilled once: the executer and AppendEntries never take the
\* same handle, although the log keeps the handle of an executed operation and
\* the copy in the executer's queue that of an entry which is aborted meanwhile.
HandlesUsedOnce == ~misused

\* The places of an operation among the committed ones.
PlacesOf(op) == {c.index : c \in {e \in committed : e.entry.op = op}}

\* A get that was executed returns the value of the last put to its key before
\* it in the log, also on a replica that was restarted and has executed the log
\* again on the database it left behind.
ReadsFollowTheLog ==
    \A g \in {op \in Gets : Executed(op)} : \E i \in PlacesOf(g) :
        LET earlier == {c \in committed : /\ c.index < i
                                          /\ c.entry.op \in Puts
                                          /\ Args[c.entry.op].key = Args[g].key}
        IN  \/ earlier = {} /\ answer[g].ret = NoValue
            \/ \E c \in earlier : /\ \A e \in earlier : e.index <= c.index
                                  /\ answer[g].ret = Args[c.entry.op].val

\* A call that is executed takes effect after every put that was executed and
\* acknowledged before the call was made, whichever replica was called.
RealTimeOrder ==
    \A op \in Op : Executed(op) =>
        \A p \in ackedBefore[op] : \A i \in PlacesOf(op) : \E j \in PlacesOf(p) : j < i

\* "put failed": a put that was given up is not reported as done.
AckedPutIsCommitted ==
    \A p \in Puts : Answered(p) /\ answer[p].ret = TRUE => PlacesOf(p) # {}

\* "all went well and job is submitted -> must block for execution": a call that
\* waits is on its way to being executed or aborted, and so will not wait for
\* ever, unless raftImpl cleared it from its input.
WaitingIsQueued ==
    \A s \in Server : \A op \in store[s] \ dropped :
        \/ \E i \in DOMAIN dispatchOut[s] : dispatchOut[s][i] = op
        \/ \E i \in DOMAIN raftIn[s] : raftIn[s][i] = op
        \/ \E i \in handles[s] : /\ i \in DOMAIN log[s]
                                 /\ i > executed[s]
                                 /\ log[s][i].op = op
=============================================================================
