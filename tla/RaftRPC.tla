------------------------------ MODULE RaftRPC ------------------------------
(***************************************************************************)
(* RequestVote and AppendEntries as records, and the comparisons of logs   *)
(* that their handlers make (ohmyraft/OhMyRaft.H).  Shared by OhMyRaft,    *)
(* for a fixed membership, and ClusterChange.                              *)
(*                                                                         *)
(* A thread that calls a peer is one record, in a phase.  Log indices keep *)
(* the code's values: the first entry of the log lg has index 0 (it is     *)
(* lg[1]), and -1 stands for "none".                                       *)
(***************************************************************************)
EXTENDS Integers, Sequences, FiniteSets

LastLogIndex(lg) == Len(lg) - 1
LastLogTerm(lg)  == IF lg = <<>> THEN -1 ELSE lg[Len(lg)].term

-----------------------------------------------------------------------------
\* A thread that has not yet read its parameters, and what becomes of it.
Spawned(kind, s, p, term) ==
    [phase |-> "spawned", kind |-> kind, from |-> s, to |-> p, term |-> term]

VoteRequest(r, lg) ==
    [phase |-> "request", kind |-> "RequestVote",
     from |-> r.from, to |-> r.to, term |-> r.term,
     lastLogIndex |-> LastLogIndex(lg), lastLogTerm |-> LastLogTerm(lg)]

VoteReply(r, replyTerm, granted) ==
    [phase |-> "reply", kind |-> "RequestVote",
     from |-> r.from, to |-> r.to, term |-> r.term,
     replyTerm |-> replyTerm, voteGranted |-> granted]

AppendRequest(r, next, prevTerm, entries, leaderCommit) ==
    [phase |-> "request", kind |-> "AppendEntries",
     from |-> r.from, to |-> r.to, term |-> r.term,
     prevLogIndex |-> next - 1, prevLogTerm |-> prevTerm,
     entries |-> entries, leaderCommit |-> leaderCommit]

\* nextIndex and count are what the calling thread remembers of its request.
AppendReply(r, replyTerm, success) ==
    [phase |-> "reply", kind |-> "AppendEntries",
     from |-> r.from, to |-> r.to, term |-> r.term,
     nextIndex |-> r.prevLogIndex + 1, count |-> Len(r.entries),
     replyTerm |-> replyTerm, success |-> success]

-----------------------------------------------------------------------------
\* Mutation: the logs are not compared.
AnyLog(r, lg) == TRUE

\* The candidate's log is at least as up to date as lg.
UpToDate(r, lg) ==
    \/ r.lastLogTerm > LastLogTerm(lg)
    \/ r.lastLogTerm = LastLogTerm(lg) /\ r.lastLogIndex >= LastLogIndex(lg)

\* Mutations: only the length of the log is looked at; an empty prefix is refused.
LongEnough(r, lg) == r.prevLogIndex <= LastLogIndex(lg)
NonEmptyPrevMatches(r, lg) ==
    r.prevLogIndex \in 0..LastLogIndex(lg) /\ r.prevLogTerm = lg[r.prevLogIndex + 1].term

\* The log agrees with the request on the entry before the new ones.
PrevMatches(r, lg) ==
    \/ r.prevLogIndex = -1
    \/ /\ r.prevLogIndex \in 0..LastLogIndex(lg)
       /\ r.prevLogTerm = lg[r.prevLogIndex + 1].term

\* How many entries of es the log lg already has after index prev: the loop of
\* AppendEntries compares their terms and stops at the first difference.
Agreeing(lg, prev, es) ==
    Cardinality({j \in 1..Len(es) : \A k \in 1..j :
                    prev + 1 + k <= Len(lg) /\ lg[prev + 1 + k].term = es[k].term})
=============================================================================
