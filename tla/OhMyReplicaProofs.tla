-------------------------- MODULE OhMyReplicaProofs --------------------------
(***************************************************************************)
(* Proofs about OhMyReplica, for every cluster, every set of calls and     *)
(* every schedule.                                                         *)
(***************************************************************************)
EXTENDS OhMyReplica, OhMyRaftCommitProofs

\* A step of the replicas and their clients is a step of OhMyRaft or leaves the
\* state of OhMyRaft alone (the executer's).
LEMMA ReplicaStepIsRaftStep == [ReplicaNext]_replicaVars => [Next]_vars
  <1> SUFFICES ASSUME [ReplicaNext]_replicaVars
               PROVE  [Next]_vars
    OBVIOUS
  <1>1. CASE RaftStep
    BY <1>1 DEF RaftStep, Next, Continue
  <1>2. CASE CrashStep
    BY <1>2 DEF CrashStep, Next, Continue
  <1>3. ASSUME NEW s \in Server, Round(s) PROVE Next
    BY <1>3 DEF Round, Next, Continue
  <1>4. ASSUME NEW s \in Server, Execute(s) PROVE UNCHANGED vars
    BY <1>4 DEF Execute
  <1>5. ASSUME Settled, NEW s \in Server, NEW op \in Op, Call(s, op) PROVE Next
    BY <1>5 DEF Call, Next
  <1>5a. ASSUME Settled, NEW s \in Server, Drop(s) PROVE Next
    BY <1>5a DEF Drop, Next
  <1>6. ASSUME Settled, NEW r \in Threads("request", "AppendEntries"), Replicate(r) PROVE Next
    BY <1>6 DEF Replicate, Next
  <1>6a. ASSUME Settled, NEW r \in Threads("reply", "AppendEntries"), Timely(r), Commit(r) PROVE Next
    BY <1>6a DEF Commit, Next
  <1>7. CASE UNCHANGED replicaVars
    BY <1>7 DEF replicaVars
  <1> QED BY <1>1, <1>2, <1>3, <1>4, <1>5, <1>5a, <1>6, <1>6a, <1>7 DEF ReplicaNext

\* The replicas with their clients, promises and databases implement OhMyRaft:
\* none of it interferes with the consensus, and what is proved of OhMyRaft
\* holds for them.
THEOREM ReplicaImplementsRaft == ReplicaSpec => Spec
  <1>1. ReplicaInit => Init
    BY DEF ReplicaInit
  <1> QED BY <1>1, ReplicaStepIsRaftStep, PTL DEF ReplicaSpec, Spec

-----------------------------------------------------------------------------
\* What an operation returns to the client has the type of its result.
LEMMA ReturnsType ==
    ASSUME NEW op \in Op, NEW res, op \in Puts \/ res \in Value \cup {NoValue}
    PROVE  Returns(op, res) \in IF op \in Puts THEN BOOLEAN ELSE Value \cup {NoValue}
  BY DEF Returns, PutReturns, GetReturns

\* Operations are gets or puts, with a key and, if puts, a value.
LEMMA ArgsType ==
    ASSUME NEW op \in Op
    PROVE  /\ Args[op].key \in Key
           /\ op \in Puts => Args[op].val \in Value
  BY ArgsAssumption DEF Puts

\* Fulfilling promises with results of the right type.
LEMMA FulfilType ==
    ASSUME ClientTypeOK, NEW s \in Server, NEW ops \in SUBSET Op, NEW res,
           NEW by \in {"execute", "abort"}, Fulfil(s, ops, by, res),
           \A op \in ops : op \in Puts \/ res[op] \in Value \cup {NoValue}
    PROVE  /\ store' \in [Server -> SUBSET Op]
           /\ misused' \in BOOLEAN
           /\ DOMAIN answer' = Op
           /\ \A op \in Op : answer'[op].by \in {"execute", "abort"} =>
                 answer'[op].ret \in IF op \in Puts THEN BOOLEAN ELSE Value \cup {NoValue}
  <1>1. store' \in [Server -> SUBSET Op]
    BY DEF ClientTypeOK, Fulfil
  <1>2. misused' \in BOOLEAN
    BY DEF ClientTypeOK, Fulfil
  <1>3. DOMAIN answer' = Op
    BY DEF Fulfil
  <1>4. ASSUME NEW op \in Op, answer'[op].by \in {"execute", "abort"}
        PROVE  answer'[op].ret \in IF op \in Puts THEN BOOLEAN ELSE Value \cup {NoValue}
    <2>1. CASE op \in ops
      <3>1. answer'[op].ret = Returns(op, res[op])
        BY <2>1 DEF Fulfil, Returned
      <3>2. op \in Puts \/ res[op] \in Value \cup {NoValue}
        BY <2>1
      <3> QED BY <3>1, <3>2, ReturnsType
    <2>2. CASE op \notin ops
      <3>1. answer'[op] = answer[op]
        BY <2>2 DEF Fulfil
      <3> QED BY <1>4, <3>1 DEF ClientTypeOK, Answered
    <2> QED BY <2>1, <2>2
  <1> QED BY <1>1, <1>2, <1>3, <1>4

LEMMA InitClientType == ReplicaInit => ClientTypeOK
  <1> SUFFICES ASSUME ReplicaInit PROVE ClientTypeOK
    OBVIOUS
  <1>1. \A op \in Op : ~Answered(op)
    BY DEF ReplicaInit, NoAnswer, Answered
  <1>2. /\ store \in [Server -> SUBSET Op]
        /\ handles \in [Server -> SUBSET (Nat \ {0})]
        /\ outHandles \in [Server -> SUBSET (Nat \ {0})]
        /\ executed \in [Server -> Nat]
        /\ db \in [Server -> [Key -> Value \cup {NoValue}]]
        /\ DOMAIN answer = Op
        /\ dropped \subseteq Op
        /\ ackedBefore \in [Op -> SUBSET Puts]
    BY DEF ReplicaInit
  <1>3. misused \in BOOLEAN
    BY DEF ReplicaInit
  <1> QED BY <1>1, <1>2, <1>3 DEF ClientTypeOK

LEMMA TypeCall ==
    ASSUME ClientTypeOK, NEW s \in Server, NEW op \in Op, Call(s, op)
    PROVE  ClientTypeOK'
  <1>1. {p \in Puts : Executed(p)} \in SUBSET Puts
    OBVIOUS
  <1> QED BY <1>1 DEF ClientTypeOK, Call, Answered

LEMMA TypeDrop ==
    ASSUME TypeInv, ClientTypeOK, NEW s \in Server, Drop(s)
    PROVE  ClientTypeOK'
  <1>1. {dispatchOut[s][i] : i \in DOMAIN dispatchOut[s]} \subseteq Op
    BY DEF TypeInv, TypeOK
  <1> QED BY <1>1 DEF ClientTypeOK, Drop, Answered

LEMMA TypeRound ==
    ASSUME TypeInv, ClientTypeOK, NEW s \in Server, Round(s)
    PROVE  ClientTypeOK'
  <1>1. Len(log[s]) \in Nat /\ Len(raftIn[s]) \in Nat
    BY DEF TypeInv, TypeOK
  <1>2. ASSUME NEW m \in Nat, NEW n \in Nat PROVE (m + 1)..(m + n) \in SUBSET (Nat \ {0})
    OBVIOUS
  <1>3. PICK new \in SUBSET (Nat \ {0}) : handles' = [handles EXCEPT ![s] = @ \cup new]
    BY <1>1, <1>2 DEF Round
  <1>4. handles' \in [Server -> SUBSET (Nat \ {0})]
    BY <1>3 DEF ClientTypeOK
  <1> QED BY <1>4 DEF ClientTypeOK, Round, Answered

\* The handles of the copies are handles of the log.
LEMMA CopiedType ==
    ASSUME ClientTypeOK, handles' \in [Server -> SUBSET (Nat \ {0})], NEW s \in Server, Copied(s)
    PROVE  outHandles' \in [Server -> SUBSET (Nat \ {0})]
  BY DEF ClientTypeOK, Copied

LEMMA TypeCommit ==
    ASSUME ClientTypeOK, NEW r, r.from \in Server, Commit(r)
    PROVE  ClientTypeOK'
  <1>1. handles' \in [Server -> SUBSET (Nat \ {0})]
    BY DEF ClientTypeOK, Commit
  <1>2. outHandles' \in [Server -> SUBSET (Nat \ {0})]
    BY <1>1, CopiedType DEF Commit
  <1> QED BY <1>2 DEF ClientTypeOK, Commit, Answered

\* The operations that AppendEntries aborts are those of entries of the log.
LEMMA AbortedType ==
    ASSUME TypeInv, NEW r, r.to \in Server
    PROVE  /\ Aborted(r) \in SUBSET Op
           /\ \A op \in Op : op \in Puts \/ AbortResult(op) \in Value \cup {NoValue}
  <1>1. log[r.to] \in Seq(Entry)
    BY DEF TypeInv, TypeOK
  <1>2. ASSUME NEW i \in DOMAIN log[r.to] PROVE log[r.to][i].op \in Op
    BY <1>1, <1>2, EntriesOfLog
  <1> QED BY <1>2 DEF Aborted, CutOff, AbortResult

LEMMA TypeReplicate ==
    ASSUME TypeInv, ClientTypeOK, NEW r, r.to \in Server, Replicate(r)
    PROVE  ClientTypeOK'
  <1>1. Fulfil(r.to, Aborted(r), "abort", [op \in Op |-> AbortResult(op)])
    BY DEF Replicate
  <1>2. \A op \in Aborted(r) :
           op \in Puts \/ [o \in Op |-> AbortResult(o)][op] \in Value \cup {NoValue}
    BY AbortedType
  <1>3. /\ store' \in [Server -> SUBSET Op]
        /\ misused' \in BOOLEAN
        /\ DOMAIN answer' = Op
        /\ \A op \in Op : answer'[op].by \in {"execute", "abort"} =>
              answer'[op].ret \in IF op \in Puts THEN BOOLEAN ELSE Value \cup {NoValue}
    <2>1. Aborted(r) \in SUBSET Op
      BY AbortedType
    <2> QED BY <1>1, <1>2, <2>1, FulfilType
  <1>4. handles' \in [Server -> SUBSET (Nat \ {0})]
    BY DEF ClientTypeOK, Replicate
  <1>5. outHandles' \in [Server -> SUBSET (Nat \ {0})]
    BY <1>4, CopiedType DEF Replicate
  <1> QED BY <1>3, <1>4, <1>5 DEF ClientTypeOK, Replicate, Answered

LEMMA TypeExecute ==
    ASSUME TypeInv, ClientTypeOK, NEW s \in Server, Execute(s)
    PROVE  ClientTypeOK'
  <1> DEFINE i   == executed[s] + 1
             op  == raftOut[s][i]
             res == IF op \in Puts THEN TRUE ELSE db[s][Args[op].key]
             ops == IF i \in outHandles[s] THEN {op} ELSE {}
  <1>0. /\ executed \in [Server -> Nat]
        /\ executed[s] \in Nat
        /\ raftOut[s] \in Seq(Op)
    BY DEF TypeInv, TypeOK, ClientTypeOK
  <1>1. i <= Len(raftOut[s]) /\ executed' = [executed EXCEPT ![s] = i]
    BY DEF Execute
  <1>2. op \in Op
    BY <1>0, <1>1
  <1>3. executed' \in [Server -> Nat]
    BY <1>0, <1>1
  <1>4. db' \in [Server -> [Key -> Value \cup {NoValue}]]
    <2>1. CASE op \in Puts
      <3>1. Put(db[s], op) \in [Key -> Value \cup {NoValue}]
        BY <1>2, <2>1, ArgsType DEF Put, ClientTypeOK
      <3>2. db' = [db EXCEPT ![s] = Put(db[s], op)]
        BY <2>1 DEF Execute
      <3> QED BY <3>1, <3>2 DEF ClientTypeOK
    <2>2. CASE op \notin Puts
      <3>1. db' = db
        BY <2>2 DEF Execute
      <3>2. db \in [Server -> [Key -> Value \cup {NoValue}]]
        BY DEF ClientTypeOK
      <3> QED BY <3>1, <3>2
    <2> QED BY <2>1, <2>2
  <1>5. op \in Puts \/ res \in Value \cup {NoValue}
    <2>1. db[s] \in [Key -> Value \cup {NoValue}]
      BY DEF ClientTypeOK
    <2>2. Args[op].key \in Key
      BY <1>2, ArgsType
    <2> HIDE DEF op
    <2> QED BY <2>1, <2>2
  <1>6. Fulfil(s, ops, "execute", [o \in Op |-> res])
    BY DEF Execute
  <1>7. ops \in SUBSET Op /\ \A o \in ops : o \in Puts \/ [q \in Op |-> res][o] \in Value \cup {NoValue}
    BY <1>2, <1>5
  <1>8. /\ store' \in [Server -> SUBSET Op]
        /\ misused' \in BOOLEAN
        /\ DOMAIN answer' = Op
        /\ \A o \in Op : answer'[o].by \in {"execute", "abort"} =>
              answer'[o].ret \in IF o \in Puts THEN BOOLEAN ELSE Value \cup {NoValue}
    BY <1>6, <1>7, FulfilType
  <1> QED BY <1>3, <1>4, <1>8 DEF ClientTypeOK, Execute, Answered

LEMMA TypeLost ==
    ASSUME TypeInv, ClientTypeOK, NEW s \in Server, NEW told \in SUBSET Op, Lost(s, told)
    PROVE  ClientTypeOK'
  <1>1. ASSUME NEW op \in Op, answer'[op].by \in {"execute", "abort"}
        PROVE  answer'[op].ret \in IF op \in Puts THEN BOOLEAN ELSE Value \cup {NoValue}
    <2>1. CASE op \in told
      <3>1. answer'[op].ret = Returns(op, AbortResult(op))
        BY <2>1 DEF Lost, Returned
      <3> QED BY <3>1, ReturnsType DEF AbortResult
    <2>2. CASE op \notin told
      <3>1. answer'[op] = [by |-> "rpc"] \/ answer'[op] = answer[op]
        BY <2>2 DEF Lost
      <3> QED BY <1>1, <3>1 DEF ClientTypeOK, Answered
    <2> QED BY <2>1, <2>2
  <1> QED BY <1>1 DEF ClientTypeOK, Lost, Answered

LEMMA NextClientType == TypeInv /\ ClientTypeOK /\ [ReplicaNext]_replicaVars => ClientTypeOK'
  <1> SUFFICES ASSUME TypeInv, ClientTypeOK, [ReplicaNext]_replicaVars
               PROVE  ClientTypeOK'
    OBVIOUS
  <1>1. ASSUME NEW r \in Threads("request", "AppendEntries") PROVE r.to \in Server
    BY ThreadKinds DEF Threads, TypeInv, TypeOK
  <1>1a. ASSUME NEW r \in Threads("reply", "AppendEntries") PROVE r.from \in Server
    BY ThreadKinds DEF Threads, TypeInv, TypeOK
  <1>2. CASE UNCHANGED clientVars
    BY <1>2 DEF clientVars, ClientTypeOK, Answered
  <1>3. CASE CrashStep
    <2>1. PICK s \in Server, told \in SUBSET Op : Lost(s, told)
      BY <1>1, <1>3, AbortedType DEF CrashStep
    <2> QED BY <2>1, TypeLost
  <1>4. ASSUME NEW s \in Server, Round(s) \/ Execute(s) PROVE ClientTypeOK'
    BY <1>4, TypeRound, TypeExecute
  <1>5. ASSUME NEW s \in Server, NEW op \in Op, Call(s, op) PROVE ClientTypeOK'
    BY <1>5, TypeCall
  <1>5a. ASSUME NEW s \in Server, Drop(s) PROVE ClientTypeOK'
    BY <1>5a, TypeDrop
  <1>6. ASSUME NEW r \in Threads("request", "AppendEntries"), Replicate(r) PROVE ClientTypeOK'
    BY <1>1, <1>6, TypeReplicate
  <1>7. ASSUME NEW r \in Threads("reply", "AppendEntries"), Commit(r) PROVE ClientTypeOK'
    BY <1>1a, <1>7, TypeCommit
  <1> QED BY <1>2, <1>3, <1>4, <1>5, <1>5a, <1>6, <1>7 DEF ReplicaNext, RaftStep, replicaVars

\* The state of the clients' side has its types: in particular a get is always
\* answered with an optional value, executed or aborted, so that the std::get of
\* ReplicaManager::get finds the alternative it asks for.
THEOREM ClientTypes == ReplicaSpec => []ClientTypeOK
  <1>1. ReplicaInit => TypeInv /\ ClientTypeOK
    BY InitTypeInv, InitClientType DEF ReplicaInit
  <1>2. TypeInv /\ ClientTypeOK /\ [ReplicaNext]_replicaVars => (TypeInv /\ ClientTypeOK)'
    BY ReplicaStepIsRaftStep, NextTypeInv, NextClientType
  <1> QED BY <1>1, <1>2, PTL DEF ReplicaSpec

-----------------------------------------------------------------------------
(***************************************************************************)
(* The calls that wait.  On a replica, S are the calls whose promise it    *)
(* holds, H the places of its log lg with a handle that is still to be     *)
(* used, and in and out its two input lists.  Each call is in one place,   *)
(* and has its promise; and unless it is among D, which were cleared, a    *)
(* call that has a promise has a place.                                    *)
(***************************************************************************)
OnePlace(S, H, lg, in, out) ==
    /\ H \subseteq 1..Len(lg)
    /\ \A i \in H : lg[i].op \in S
    /\ \A i \in 1..Len(in) : in[i] \in S
    /\ \A i \in 1..Len(out) : out[i] \in S
    /\ \A i, j \in H : lg[i].op = lg[j].op => i = j
    /\ \A i, j \in 1..Len(in) : in[i] = in[j] => i = j
    /\ \A i, j \in 1..Len(out) : out[i] = out[j] => i = j
    /\ \A i \in H : \A j \in 1..Len(in) : lg[i].op # in[j]
    /\ \A i \in H : \A j \in 1..Len(out) : lg[i].op # out[j]
    /\ \A i \in 1..Len(in) : \A j \in 1..Len(out) : in[i] # out[j]
Placed(S, D, H, lg, in, out) ==
    \A op \in S \ D : \/ \E i \in 1..Len(out) : out[i] = op
                      \/ \E i \in 1..Len(in) : in[i] = op
                      \/ \E i \in H : lg[i].op = op

\* A call is submitted.
LEMMA PlacedCall ==
    ASSUME NEW S, NEW D, NEW H, NEW lg \in Seq(Entry), NEW in \in Seq(Op), NEW out \in Seq(Op),
           NEW op \in Op, op \notin S, OnePlace(S, H, lg, in, out), Placed(S, D, H, lg, in, out)
    PROVE  /\ OnePlace(S \cup {op}, H, lg, in, Append(out, op))
           /\ Placed(S \cup {op}, D, H, lg, in, Append(out, op))
  <1> DEFINE new == Append(out, op)
  <1>1. /\ Len(out) \in Nat /\ Len(new) = Len(out) + 1 /\ new[Len(out) + 1] = op
        /\ \A i \in 1..Len(out) : new[i] = out[i]
        /\ \A i \in 1..Len(new) : i \in 1..Len(out) \/ i = Len(out) + 1
        /\ \A i \in 1..Len(out) : i \in 1..Len(new)
        /\ Len(out) + 1 \in 1..Len(new)
    OBVIOUS
  <1> HIDE DEF new
  <1>2. OnePlace(S \cup {op}, H, lg, in, new)
    <2>1. \A i \in 1..Len(new) : new[i] \in S \/ (i = Len(out) + 1 /\ new[i] = op)
      BY <1>1 DEF OnePlace
    <2>2. \A i \in 1..Len(new) : new[i] \in S \cup {op}
      BY <2>1
    <2>3. \A i, j \in 1..Len(new) : new[i] = new[j] => i = j
      BY <1>1 DEF OnePlace
    <2>4. /\ \A i \in H : \A j \in 1..Len(new) : lg[i].op # new[j]
          /\ \A i \in 1..Len(in) : \A j \in 1..Len(new) : in[i] # new[j]
      <3>1. \A j \in 1..Len(new) : (\E l \in 1..Len(out) : new[j] = out[l]) \/ new[j] = op
        BY <1>1
      <3>2. /\ \A i \in H : lg[i].op # op /\ \A l \in 1..Len(out) : lg[i].op # out[l]
            /\ \A i \in 1..Len(in) : in[i] # op /\ \A l \in 1..Len(out) : in[i] # out[l]
        BY DEF OnePlace
      <3> QED BY <3>1, <3>2, ZenonT(30)
    <2>5. /\ \A i \in H : lg[i].op \in S \cup {op}
          /\ \A i \in 1..Len(in) : in[i] \in S \cup {op}
          /\ \A i, j \in H : lg[i].op = lg[j].op => i = j
          /\ \A i, j \in 1..Len(in) : in[i] = in[j] => i = j
          /\ \A i \in H : \A j \in 1..Len(in) : lg[i].op # in[j]
      BY <1>1 DEF OnePlace
    <2> HIDE DEF new
    <2> QED BY <2>2, <2>3, <2>4, <2>5 DEF OnePlace
  <1>3. Placed(S \cup {op}, D, H, lg, in, new)
    BY <1>1 DEF Placed
  <1> QED BY <1>2, <1>3 DEF new

\* The operations of the input go into the log.
LEMMA PlacedRound ==
    ASSUME NEW S, NEW D, NEW H, NEW lg \in Seq(Entry), NEW in \in Seq(Op), NEW out \in Seq(Op),
           OnePlace(S, H, lg, in, out), Placed(S, D, H, lg, in, out),
           NEW new \in Seq(Entry), Len(new) = Len(lg) + Len(in),
           \A i \in 1..Len(lg) : new[i] = lg[i],
           \A k \in 1..Len(in) : new[Len(lg) + k].op = in[k]
    PROVE  LET H2 == H \cup (Len(lg) + 1)..(Len(lg) + Len(in))
           IN  OnePlace(S, H2, new, <<>>, out) /\ Placed(S, D, H2, new, <<>>, out)
  <1> DEFINE H2 == H \cup (Len(lg) + 1)..(Len(lg) + Len(in))
  <1>1. Len(lg) \in Nat /\ Len(in) \in Nat /\ Len(new) \in Nat /\ Len(<<>>) = 0
    OBVIOUS
  <1>2. \A k \in 1..Len(in) : Len(lg) + k \in H2 /\ new[Len(lg) + k].op = in[k]
    BY <1>1
  <1>3. ASSUME NEW i \in H2
        PROVE  \/ i \in H /\ i \in 1..Len(lg) /\ new[i].op = lg[i].op
               \/ \E k \in 1..Len(in) : i = Len(lg) + k /\ new[i].op = in[k]
    <2>1. CASE i \in H
      BY <2>1 DEF OnePlace
    <2>2. CASE i \in (Len(lg) + 1)..(Len(lg) + Len(in))
      <3>1. i - Len(lg) \in 1..Len(in) /\ i = Len(lg) + (i - Len(lg))
        BY <1>1, <2>2
      <3> QED BY <1>2, <3>1
    <2> QED BY <2>1, <2>2
  <1>4. H2 \subseteq 1..Len(new)
    <2> SUFFICES ASSUME NEW i \in H2 PROVE i \in 1..Len(new)
      OBVIOUS
    <2> HIDE DEF H2
    <2> QED BY <1>1, <1>3
  <1> HIDE DEF H2
  <1>5. \A i \in H2 : new[i].op \in S
    BY <1>3 DEF OnePlace
  <1>5a. /\ \A i, j \in H : lg[i].op = lg[j].op => i = j
         /\ \A i \in H : \A k \in 1..Len(in) : lg[i].op # in[k]
    BY DEF OnePlace
  <1>6. ASSUME NEW i \in H2, NEW j \in H2, new[i].op = new[j].op PROVE i = j
    <2>1. CASE i \in H /\ new[i].op = lg[i].op
      <3>1. CASE j \in H /\ new[j].op = lg[j].op
        BY <1>5a, <1>6, <2>1, <3>1, ZenonT(30)
      <3>2. CASE \E k \in 1..Len(in) : new[j].op = in[k]
        BY <1>5a, <1>6, <2>1, <3>2, ZenonT(30)
      <3> QED BY <1>3, <3>1, <3>2
    <2>2. ASSUME NEW k \in 1..Len(in), i = Len(lg) + k, new[i].op = in[k] PROVE i = j
      <3>1. CASE j \in H /\ new[j].op = lg[j].op
        BY <1>6, <2>2, <3>1 DEF OnePlace
      <3>2. ASSUME NEW l \in 1..Len(in), j = Len(lg) + l, new[j].op = in[l] PROVE i = j
        BY <1>6, <2>2, <3>2 DEF OnePlace
      <3> QED BY <1>3, <3>1, <3>2
    <2> QED BY <1>3, <2>1, <2>2
  <1>7. \A i \in H2 : \A j \in 1..Len(out) : new[i].op # out[j]
    <2>1. /\ \A i \in H : \A j \in 1..Len(out) : lg[i].op # out[j]
          /\ \A i \in 1..Len(in) : \A j \in 1..Len(out) : in[i] # out[j]
      BY DEF OnePlace
    <2> SUFFICES ASSUME NEW i \in H2, NEW j \in 1..Len(out) PROVE new[i].op # out[j]
      OBVIOUS
    <2>2. (i \in H /\ new[i].op = lg[i].op) \/ \E k \in 1..Len(in) : new[i].op = in[k]
      BY <1>3
    <2> QED BY <2>1, <2>2
  <1>8. OnePlace(S, H2, new, <<>>, out)
    <2>1. /\ \A i \in 1..Len(out) : out[i] \in S
          /\ \A i, j \in 1..Len(out) : out[i] = out[j] => i = j
      BY DEF OnePlace
    <2>2. \A i \in 1..Len(<<>>) : FALSE
      BY <1>1
    <2> QED BY <1>4, <1>5, <1>6, <1>7, <2>1, <2>2 DEF OnePlace
  <1>9. \A i \in H : i \in H2 /\ new[i].op = lg[i].op
    BY DEF H2, OnePlace
  <1>10. Placed(S, D, H2, new, <<>>, out)
    <2> SUFFICES ASSUME NEW op \in S \ D
                 PROVE  (\E i \in 1..Len(out) : out[i] = op) \/ (\E i \in H2 : new[i].op = op)
      BY DEF Placed
    <2>1. (\E i \in 1..Len(out) : out[i] = op) \/ (\E k \in 1..Len(in) : in[k] = op)
          \/ (\E i \in H : lg[i].op = op)
      BY DEF Placed
    <2> QED BY <1>2, <1>9, <2>1
  <1> QED BY <1>8, <1>10 DEF H2

\* The promises of the calls at X are fulfilled; the log may be cut there.
Fulfilled(S, H, lg, X, S2, H2, new) ==
    /\ \A i : i \in H2 <=> i \in H /\ i \notin X
    /\ \A op : op \in S2 <=> op \in S /\ \A i \in X : lg[i].op # op
    /\ \A i \in H2 : i \in 1..Len(new) /\ new[i] = lg[i]

LEMMA PlacedFulfil ==
    ASSUME NEW S, NEW D, NEW H, NEW lg \in Seq(Entry), NEW in \in Seq(Op), NEW out \in Seq(Op),
           OnePlace(S, H, lg, in, out), Placed(S, D, H, lg, in, out),
           NEW X \in SUBSET H, NEW S2, NEW H2, NEW new, Fulfilled(S, H, lg, X, S2, H2, new)
    PROVE  OnePlace(S2, H2, new, in, out) /\ Placed(S2, D, H2, new, in, out)
  <1>1. \A op : op \in S2 <=> op \in S /\ \A i \in X : lg[i].op # op
    BY DEF Fulfilled
  <1>2. \A i \in H2 : i \in H /\ i \notin X /\ new[i].op = lg[i].op /\ i \in 1..Len(new)
    BY DEF Fulfilled
  <1>3. ASSUME NEW i \in H2 PROVE new[i].op \in S2
    <2>1. lg[i].op \in S /\ \A j \in H : lg[j].op = lg[i].op => j = i
      BY <1>2 DEF OnePlace
    <2>2. \A j \in X : lg[j].op # lg[i].op
      BY <1>2, <2>1
    <2> QED BY <1>1, <1>2, <2>1, <2>2
  <1>4. (\A i \in 1..Len(in) : in[i] \in S2) /\ (\A i \in 1..Len(out) : out[i] \in S2)
    BY <1>1 DEF OnePlace
  <1>5. OnePlace(S2, H2, new, in, out)
    <2>1. \A i, j \in H2 : new[i].op = new[j].op => i = j
      BY <1>2 DEF OnePlace
    <2>2. /\ \A i \in H2 : \A j \in 1..Len(in) : new[i].op # in[j]
          /\ \A i \in H2 : \A j \in 1..Len(out) : new[i].op # out[j]
      BY <1>2 DEF OnePlace
    <2>3. H2 \subseteq 1..Len(new)
      BY <1>2
    <2> QED BY <1>3, <1>4, <2>1, <2>2, <2>3 DEF OnePlace
  <1>6. Placed(S2, D, H2, new, in, out)
    <2>1. \A i \in H : i \in X \/ (i \in H2 /\ new[i].op = lg[i].op)
      BY DEF Fulfilled
    <2> QED BY <1>1, <2>1 DEF Placed
  <1> QED BY <1>5, <1>6

-----------------------------------------------------------------------------
\* The invariant.  A replica executes what it was handed, and between two rounds
\* its raftIn_ is empty.
Live(s) == {i \in handles[s] : i > executed[s]}
CallsOf(s) ==
    /\ OnePlace(store[s], Live(s), log[s], raftIn[s], dispatchOut[s])
    /\ Placed(store[s], dropped, Live(s), log[s], raftIn[s], dispatchOut[s])
    /\ executed[s] <= Len(raftOut[s])
    /\ inRound[s] \/ raftIn[s] = <<>>
    /\ store[s] \cap unsubmitted = {}
CallInv == ~misused /\ \A s \in Server : CallsOf(s)

\* The copies in raftOut have the handles that their entries in the log have: what
\* was copied is never cut off, so no copy outlives the handle of its entry.
CopiesOf(s) == outHandles[s] = {i \in handles[s] : i <= Len(raftOut[s])}
CopyInv == \A s \in Server : CopiesOf(s)

LEMMA CallTypes ==
    ASSUME TypeInv, ClientTypeOK
    PROVE  /\ \A s \in Server :
                 /\ store[s] \in SUBSET Op /\ handles[s] \in SUBSET Nat /\ executed[s] \in Nat
                 /\ outHandles[s] \in SUBSET Nat
                 /\ log[s] \in Seq(Entry) /\ Len(log[s]) \in Nat
                 /\ raftIn[s] \in Seq(Op) /\ Len(raftIn[s]) \in Nat
                 /\ dispatchOut[s] \in Seq(Op) /\ Len(dispatchOut[s]) \in Nat
                 /\ raftOut[s] \in Seq(Op) /\ Len(raftOut[s]) \in Nat
           /\ DOMAIN store = Server /\ DOMAIN handles = Server /\ DOMAIN executed = Server
           /\ DOMAIN outHandles = Server
           /\ DOMAIN log = Server /\ DOMAIN raftIn = Server /\ DOMAIN dispatchOut = Server
           /\ DOMAIN raftOut = Server /\ DOMAIN inRound = Server /\ DOMAIN db = Server
  BY DEF TypeInv, TypeOK, ClientTypeOK

LEMMA NewCallTypes ==
    ASSUME TypeInv', ClientTypeOK'
    PROVE  \A s \in Server :
              /\ executed'[s] \in Nat
              /\ log'[s] \in Seq(Entry) /\ Len(log'[s]) \in Nat
              /\ raftOut'[s] \in Seq(Op) /\ Len(raftOut'[s]) \in Nat
  BY DEF TypeInv, TypeOK, ClientTypeOK

\* What SafetyInv says of the operations handed to the executer.
HandedOver(s) ==
    /\ Len(raftOut[s]) <= Len(log[s]) /\ Len(raftOut[s]) = commitIndex[s] + 1
    /\ commitIndex[s] \in Index
    /\ \A i \in 1..Len(raftOut[s]) : raftOut[s][i] = log[s][i].op
AllHandedOver == \A s \in Server : HandedOver(s)

LEMMA OutIsHandedOver == SafetyInv => AllHandedOver
  <1> SUFFICES ASSUME SafetyInv, NEW s \in Server PROVE HandedOver(s)
    BY DEF AllHandedOver
  <1>1. TypeInv /\ AppliedIsLogPrefix
    BY AppliedFollows DEF SafetyInv, HistoryInv, ReplicationInv
  <1>2. commitIndex[s] \in Index /\ raftOut[s] \in Seq(Op) /\ Len(log[s]) \in Nat
    BY <1>1, CommitTypes, LogTypes
  <1> QED BY <1>1, <1>2 DEF AppliedIsLogPrefix, Index, HandedOver

LEMMA NewOutIsHandedOver == SafetyInv' => AllHandedOver'
  BY OutIsHandedOver, PTL

\* The part of a log that its replica has committed is kept.
LEMMA HandedOverKept ==
    ASSUME Scheduled, SafetyInv, SafetyInv', [Next]_vars, NEW s \in Server
    PROVE  \A i \in 1..Len(raftOut[s]) : i <= Len(log'[s]) /\ log'[s][i] = log[s][i]
  <1>1. /\ HistoryInv /\ HistoryInv' /\ CommitHeld /\ TypeInv'
    BY DEF SafetyInv, HistoryInv, ReplicationInv, CommitInv
  <1>2. /\ commitIndex[s] < Len(log'[s]) /\ Len(log'[s]) \in Nat
        /\ \A i \in 1..(commitIndex[s] + 1) : log'[s][i] = log[s][i]
    BY <1>1, CommitKept, NewTypes
  <1>3. commitIndex[s] \in Index /\ Len(raftOut[s]) = commitIndex[s] + 1
    BY OutIsHandedOver DEF AllHandedOver, HandedOver
  <1> QED BY <1>2, <1>3 DEF Index

\* The operations handed over stay what they are while the process lives.
LEMMA OutGrows ==
    ASSUME Scheduled, SafetyInv, SafetyInv', [Next]_vars, NEW s \in Server, crashes' = crashes
    PROVE  /\ Len(raftOut[s]) <= Len(raftOut'[s])
           /\ \A i \in 1..Len(raftOut[s]) : raftOut'[s][i] = raftOut[s][i]
  <1>1. commitIndex'[s] >= commitIndex[s]
    BY CommitGrows
  <1>2. /\ commitIndex[s] \in Index /\ Len(raftOut[s]) = commitIndex[s] + 1
        /\ commitIndex'[s] \in Index /\ Len(raftOut'[s]) = commitIndex'[s] + 1
    BY OutIsHandedOver, NewOutIsHandedOver DEF AllHandedOver, HandedOver
  <1>3. Len(raftOut[s]) <= Len(raftOut'[s]) /\ \A i \in 1..Len(raftOut[s]) : i \in 1..Len(raftOut'[s])
    BY <1>1, <1>2 DEF Index
  <1>4. /\ \A i \in 1..Len(raftOut[s]) : raftOut[s][i] = log[s][i].op
        /\ \A i \in 1..Len(raftOut'[s]) : raftOut'[s][i] = log'[s][i].op
    BY OutIsHandedOver, NewOutIsHandedOver DEF AllHandedOver, HandedOver
  <1> QED BY <1>3, <1>4, HandedOverKept

\* What AppendEntries cuts off has not been handed to the executer.
LEMMA CutUnused ==
    ASSUME Scheduled, SafetyInv, SafetyInv', [Next]_vars,
           NEW r \in Threads("request", "AppendEntries"), AppendEntries(r)
    PROVE  /\ r.to \in Server
           /\ \A p \in Server \ {r.to} : log'[p] = log[p]
           /\ ~Cuts(r) => log' = log
           /\ Cuts(r) => /\ \A i \in CutOff(r) : i > Len(raftOut[r.to])
                         /\ \A i \in 1..Len(log[r.to]) \ CutOff(r) :
                               i <= Len(log'[r.to]) /\ log'[r.to][i] = log[r.to][i]
  <1> DEFINE s  == r.to
             lg == log[s]
             es == r.entries
             n  == Agreeing(lg, r.prevLogIndex, es)
             m  == Merge(lg, r.prevLogIndex, es)
             b  == r.prevLogIndex + 1 + n
  <1>1. TypeInv
    BY DEF SafetyInv, HistoryInv, ReplicationInv
  <1>2. /\ s \in Server /\ lg \in Seq(Entry) /\ Len(lg) \in Nat /\ log \in [Server -> Seq(Entry)]
        /\ r.prevLogIndex \in Index /\ es \in Seq(Entry)
    BY <1>1, LogTypes DEF Threads, Requests, AppendThreads, AppendRequests
  <1>3. \A p \in Server \ {s} : log'[p] = log[p]
    BY <1>2 DEF AppendEntries
  <1>4. log' = [log EXCEPT ![s] = IF Accepted(r) THEN m ELSE lg]
    BY DEF AppendEntries
  <1>5. ~Cuts(r) => log' = log
    BY <1>2, <1>4 DEF Cuts
  <1>6. ASSUME Cuts(r)
        PROVE  /\ \A i \in CutOff(r) : i > Len(raftOut[s])
               /\ \A i \in 1..Len(lg) \ CutOff(r) : i <= Len(log'[s]) /\ log'[s][i] = lg[i]
    <2>1. Accepted(r) /\ m # lg /\ r.prevLogIndex < Len(lg)
      BY <1>2, <1>6 DEF Cuts, Accepted, PrevMatches, LastLogIndex, Index
    <2>2. log'[s] = m
      BY <1>2, <1>4, <2>1
    <2>3. /\ n \in 0..Len(es) /\ b <= Len(lg) /\ Len(es) \in Nat
          /\ \/ n = Len(es) /\ m = lg
             \/ /\ n < Len(es) /\ Len(m) = r.prevLogIndex + 1 + Len(es)
                /\ \A i \in 1..b : m[i] = lg[i]
                /\ \A k \in (n + 1)..Len(es) : m[r.prevLogIndex + 1 + k] = es[k]
      <3>1. n \in 0..Len(es)
        BY <1>2, AgreeingExact
      <3>2. Len(es) \in Nat
        BY <1>2
      <3> QED BY <1>2, <2>1, <3>1, <3>2, MergeShape
    <2>4. n < Len(es) => ~(r.prevLogIndex + n + 2 <= Len(lg)
                           /\ lg[r.prevLogIndex + n + 2].term = es[n + 1].term)
      BY <1>2, AgreeingExact
    <2> HIDE DEF n, m, es
    <2>4a. n < Len(es)
      BY <2>1, <2>3
    <2>5. b \in Nat /\ b + 1 = r.prevLogIndex + n + 2 /\ b + 1 = r.prevLogIndex + 1 + (n + 1)
          /\ n + 1 \in (n + 1)..Len(es) /\ b <= r.prevLogIndex + 1 + Len(es)
      <3>1. r.prevLogIndex \in Int /\ r.prevLogIndex >= -1
        BY <1>2 DEF Index
      <3>2. n \in Nat /\ Len(es) \in Nat /\ n < Len(es)
        BY <2>3, <2>4a
      <3> QED BY <3>1, <3>2 DEF b
    <2>6. b + 1 <= Len(lg) => m[b + 1] # lg[b + 1]
      <3>1. m[b + 1] = es[n + 1]
        BY <2>3, <2>4a, <2>5
      <3> QED BY <2>4, <2>4a, <2>5, <3>1
    <2>7. b + 1 <= Len(lg) => b + 1 > Len(raftOut[s])
      <3>1. b + 1 \in 1..Len(raftOut[s]) => m[b + 1] = lg[b + 1]
        BY <1>2, <2>2, HandedOverKept
      <3>2. Len(raftOut[s]) \in Nat
        BY <1>1, <1>2, CommitTypes
      <3> QED BY <2>5, <2>6, <3>1, <3>2
    <2>8. \A i : i \in CutOff(r) <=> i \in 1..Len(lg) /\ i > b
      BY <1>2 DEF CutOff, n, es
    <2>9. \A i \in CutOff(r) : i > Len(raftOut[s])
      <3>1. Len(raftOut[s]) \in Nat
        BY <1>1, <1>2, CommitTypes
      <3> QED BY <1>2, <2>5, <2>7, <2>8, <3>1
    <2>10. \A i \in 1..Len(lg) \ CutOff(r) : i \in 1..b /\ i <= Len(m)
      <3>1. Len(m) = r.prevLogIndex + 1 + Len(es)
        BY <2>3, <2>4a
      <3> QED BY <1>2, <2>5, <2>8, <3>1
    <2> QED BY <2>2, <2>3, <2>4a, <2>9, <2>10
  <1> QED BY <1>2, <1>3, <1>5, <1>6

-----------------------------------------------------------------------------
\* Every step preserves the invariant.  A step is about one replica; on the others
\* nothing happens but that the executer may be handed more operations.
Untouched(s) ==
    /\ store'[s] = store[s] /\ handles'[s] = handles[s] /\ executed'[s] = executed[s]
    /\ log'[s] = log[s] /\ raftIn'[s] = raftIn[s] /\ dispatchOut'[s] = dispatchOut[s]
    /\ inRound'[s] = inRound[s]
    /\ Len(raftOut[s]) <= Len(raftOut'[s])
    /\ unsubmitted' \subseteq unsubmitted /\ dropped \subseteq dropped'

LEMMA StillCalls ==
    ASSUME TypeInv, ClientTypeOK, TypeInv', ClientTypeOK', NEW s \in Server, CallsOf(s), Untouched(s)
    PROVE  CallsOf(s)'
  <1>1. /\ executed[s] \in Nat /\ Len(raftOut[s]) \in Nat /\ Len(raftOut'[s]) \in Nat
    BY CallTypes, NewCallTypes
  <1>2. Live(s)' = Live(s)
    BY DEF Live, Untouched
  <1>3. OnePlace(store[s], Live(s), log[s], raftIn[s], dispatchOut[s])'
    BY <1>2 DEF CallsOf, Untouched
  <1>4. Placed(store[s], dropped, Live(s), log[s], raftIn[s], dispatchOut[s])'
    BY <1>2 DEF CallsOf, Untouched, Placed
  <1>5. /\ executed'[s] <= Len(raftOut'[s])
        /\ inRound'[s] \/ raftIn'[s] = <<>>
        /\ store'[s] \cap unsubmitted' = {}
    BY <1>1 DEF CallsOf, Untouched
  <1> QED BY <1>3, <1>4, <1>5 DEF CallsOf

\* Steps that leave a replica running.
Running == SafetyInv /\ SafetyInv' /\ ClientTypeOK /\ ClientTypeOK' /\ CallInv /\ CopyInv

LEMMA RunningFacts ==
    ASSUME Running
    PROVE  /\ TypeInv /\ TypeInv' /\ ClientTypeOK /\ ClientTypeOK' /\ SafetyInv /\ SafetyInv'
           /\ ~misused /\ RoundsAreLeaders
           /\ \A s \in Server : CallsOf(s) /\ CopiesOf(s)
  BY DEF Running, CopyInv, CallInv, SafetyInv, HistoryInv, ReplicationInv

LEMMA CallsInCall ==
    ASSUME Running, NEW s \in Server, NEW op \in Op, Call(s, op)
    PROVE  CallInv'
  <1>1. /\ TypeInv /\ TypeInv' /\ ClientTypeOK /\ ClientTypeOK' /\ ~misused
        /\ \A p \in Server : CallsOf(p)
    BY RunningFacts
  <1>2. /\ op \in unsubmitted /\ unsubmitted' = unsubmitted \ {op} /\ dropped' = dropped
        /\ dispatchOut' = [dispatchOut EXCEPT ![s] = Append(@, op)]
        /\ store' = [store EXCEPT ![s] = @ \cup {op}]
        /\ UNCHANGED <<handles, executed, log, raftIn, inRound, raftOut, misused>>
    BY DEF Call, Submit, persistentVars, applyVars
  <1>3. \A p \in Server \ {s} : Untouched(p)
    <2> SUFFICES ASSUME NEW p \in Server \ {s} PROVE Untouched(p)
      OBVIOUS
    <2>1. Len(raftOut[p]) <= Len(raftOut'[p])
      BY <1>1, <1>2, CallTypes
    <2> QED BY <1>1, <1>2, <2>1, CallTypes DEF Untouched
  <1>4. CallsOf(s)'
    <2> DEFINE S == store[s]
               out == dispatchOut[s]
    <2>1. /\ store'[s] = S \cup {op} /\ dispatchOut'[s] = Append(out, op) /\ Live(s)' = Live(s)
      BY <1>1, <1>2, CallTypes DEF Live
    <2>2. op \notin S
      BY <1>1, <1>2 DEF CallsOf
    <2>3. /\ OnePlace(S \cup {op}, Live(s), log[s], raftIn[s], Append(out, op))
          /\ Placed(S \cup {op}, dropped, Live(s), log[s], raftIn[s], Append(out, op))
      BY <1>1, <2>2, CallTypes, PlacedCall DEF CallsOf
    <2>4. (S \cup {op}) \cap unsubmitted' = {}
      BY <1>1, <1>2 DEF CallsOf
    <2> HIDE DEF S, out
    <2> QED BY <1>1, <1>2, <2>1, <2>3, <2>4 DEF CallsOf
  <1> QED BY <1>1, <1>2, <1>3, <1>4, StillCalls DEF CallInv

LEMMA CallsInDrop ==
    ASSUME Running, NEW s \in Server, Drop(s)
    PROVE  CallInv'
  <1>1. /\ TypeInv /\ TypeInv' /\ ClientTypeOK /\ ClientTypeOK' /\ ~misused
        /\ \A p \in Server : CallsOf(p)
    BY RunningFacts
  <1> DEFINE gone == {dispatchOut[s][i] : i \in DOMAIN dispatchOut[s]}
  <1>2. /\ dropped' = dropped \cup gone /\ dispatchOut' = [dispatchOut EXCEPT ![s] = <<>>]
        /\ UNCHANGED <<store, handles, executed, log, raftIn, inRound, raftOut, unsubmitted, misused>>
    BY DEF Drop, RaftImplOther, persistentVars, applyVars, envVars
  <1>3. \A p \in Server \ {s} : Untouched(p)
    <2> SUFFICES ASSUME NEW p \in Server \ {s} PROVE Untouched(p)
      OBVIOUS
    <2>1. Len(raftOut[p]) <= Len(raftOut'[p])
      BY <1>1, <1>2, CallTypes
    <2> QED BY <1>1, <1>2, <2>1, CallTypes DEF Untouched
  <1>4. CallsOf(s)'
    <2>1. dispatchOut'[s] = <<>> /\ Live(s)' = Live(s) /\ Len(<<>>) = 0
      BY <1>1, <1>2, CallTypes DEF Live
    <2>2. /\ OnePlace(store[s], Live(s), log[s], raftIn[s], dispatchOut[s])
          /\ Placed(store[s], dropped, Live(s), log[s], raftIn[s], dispatchOut[s])
      BY <1>1 DEF CallsOf
    <2>3. OnePlace(store[s], Live(s), log[s], raftIn[s], <<>>)
      BY <2>1, <2>2 DEF OnePlace
    <2>4. Placed(store[s], dropped \cup gone, Live(s), log[s], raftIn[s], <<>>)
      <3>1. \A i \in 1..Len(dispatchOut[s]) : dispatchOut[s][i] \in gone
        BY <1>1, CallTypes
      <3> HIDE DEF gone
      <3> QED BY <2>2, <3>1 DEF Placed
    <2> HIDE DEF gone
    <2> QED BY <1>1, <1>2, <2>1, <2>3, <2>4 DEF CallsOf
  <1> QED BY <1>1, <1>2, <1>3, <1>4, StillCalls DEF CallInv

LEMMA CallsInRound ==
    ASSUME Running, NEW s \in Server, Round(s)
    PROVE  CallInv'
  <1>1. /\ TypeInv /\ TypeInv' /\ ClientTypeOK /\ ClientTypeOK' /\ ~misused /\ SafetyInv
        /\ \A p \in Server : CallsOf(p)
    BY RunningFacts
  <1> DEFINE lg   == log[s]
             in   == raftIn[s]
             more == (Len(lg) + 1)..(Len(lg) + Len(in))
             new  == lg \o Appended(s, Len(in))
  <1>2. /\ log' = [log EXCEPT ![s] = new] /\ raftIn' = [raftIn EXCEPT ![s] = <<>>]
        /\ inRound' = [inRound EXCEPT ![s] = FALSE]
        /\ handles' = [handles EXCEPT ![s] = @ \cup more]
        /\ UNCHANGED <<store, executed, dispatchOut, raftOut, dropped, unsubmitted, misused>>
    BY DEF Round, RunLeaderOneIter, applyVars, envVars
  <1>3. \A p \in Server \ {s} : Untouched(p)
    <2> SUFFICES ASSUME NEW p \in Server \ {s} PROVE Untouched(p)
      OBVIOUS
    <2>1. Len(raftOut[p]) <= Len(raftOut'[p])
      BY <1>1, <1>2, CallTypes
    <2> QED BY <1>1, <1>2, <2>1, CallTypes DEF Untouched
  <1>4. /\ lg \in Seq(Entry) /\ in \in Seq(Op) /\ Len(lg) \in Nat /\ Len(in) \in Nat
        /\ dispatchOut[s] \in Seq(Op) /\ executed[s] \in Nat /\ currentTerm[s] \in Nat
    BY <1>1, CallTypes, LogTypes
  <1>5. /\ new \in Seq(Entry) /\ Len(new) = Len(lg) + Len(in)
        /\ \A i \in 1..Len(lg) : new[i] = lg[i]
        /\ \A k \in 1..Len(in) : new[Len(lg) + k].op = in[k]
    <2> DEFINE es == Appended(s, Len(in))
    <2>1. es \in Seq(Entry) /\ Len(es) = Len(in) /\ \A k \in 1..Len(in) : es[k].op = in[k]
      BY <1>4 DEF Appended, Entry
    <2> HIDE DEF es, lg, in
    <2>2. /\ lg \o es \in Seq(Entry) /\ Len(lg \o es) = Len(lg) + Len(es)
          /\ \A i \in 1..Len(lg) : (lg \o es)[i] = lg[i]
          /\ \A k \in 1..Len(es) : (lg \o es)[Len(lg) + k] = es[k]
      <3>1. lg \in Seq(Entry) /\ es \in Seq(Entry)
        BY <1>4, <2>1
      <3> QED BY <3>1, ConcatParts
    <2>3. new = lg \o es
      BY DEF es
    <2> HIDE DEF new
    <2> QED BY <2>1, <2>2, <2>3
  <1>6. executed[s] <= Len(raftOut[s]) /\ executed[s] <= Len(lg)
    <2>1. /\ executed[s] <= Len(raftOut[s]) /\ Len(raftOut[s]) <= Len(lg) /\ Len(raftOut[s]) \in Nat
      BY <1>1, OutIsHandedOver, CallTypes DEF CallsOf, AllHandedOver, HandedOver
    <2> QED BY <1>4, <2>1
  <1>7. Live(s)' = Live(s) \cup more
    <2>1. \A i \in more : i > executed[s]
      BY <1>4, <1>6
    <2>2. handles'[s] = handles[s] \cup more /\ executed'[s] = executed[s]
      BY <1>1, <1>2, CallTypes
    <2> HIDE DEF more
    <2> QED BY <2>1, <2>2 DEF Live
  <1>8. CallsOf(s)'
    <2>1. /\ log'[s] = new /\ raftIn'[s] = <<>> /\ dispatchOut'[s] = dispatchOut[s]
          /\ store'[s] = store[s] /\ executed'[s] = executed[s] /\ raftOut'[s] = raftOut[s]
      BY <1>1, <1>2, CallTypes
    <2> HIDE DEF new
    <2>2. /\ OnePlace(store[s], Live(s) \cup more, new, <<>>, dispatchOut[s])
          /\ Placed(store[s], dropped, Live(s) \cup more, new, <<>>, dispatchOut[s])
      BY <1>1, <1>4, <1>5, PlacedRound DEF CallsOf
    <2>3. store[s] \cap unsubmitted = {}
      BY <1>1 DEF CallsOf
    <2> HIDE DEF more, lg, in
    <2> QED BY <1>2, <1>6, <1>7, <2>1, <2>2, <2>3 DEF CallsOf
  <1> QED BY <1>1, <1>2, <1>3, <1>8, StillCalls DEF CallInv

\* AppendEntries: what is cut off is aborted, and nothing of it has been executed
\* or handed to the executer.
LEMMA CallsInReplicate ==
    ASSUME Scheduled, Running, [Next]_vars, NEW r \in Threads("request", "AppendEntries"), Replicate(r)
    PROVE  CallInv'
  <1>1. /\ TypeInv /\ TypeInv' /\ ClientTypeOK /\ ClientTypeOK' /\ ~misused /\ SafetyInv /\ SafetyInv'
        /\ \A p \in Server : CallsOf(p)
    BY RunningFacts
  <1> DEFINE s == r.to
             X == {i \in Live(s) : Cuts(r) /\ i \in CutOff(r)}
  <1>2. AppendEntries(r)
    BY DEF Replicate
  <1>3. /\ s \in Server
        /\ \A p \in Server \ {s} : log'[p] = log[p]
        /\ ~Cuts(r) => log' = log
        /\ Cuts(r) => /\ \A i \in CutOff(r) : i > Len(raftOut[s])
                      /\ \A i \in 1..Len(log[s]) \ CutOff(r) :
                            i <= Len(log'[s]) /\ log'[s][i] = log[s][i]
    BY <1>1, <1>2, CutUnused
  <1>4. /\ UNCHANGED <<executed, dispatchOut, raftIn, inRound, unsubmitted, dropped, crashes>>
        /\ handles' = [handles EXCEPT ![s] = IF Cuts(r) THEN @ \ CutOff(r) ELSE @]
        /\ store' = [store EXCEPT ![s] = @ \ Aborted(r)]
        /\ misused' = (misused \/ ~(Aborted(r) \subseteq store[s]))
    BY DEF Replicate, Fulfil, AppendEntries, inputVars, envVars
  <1>5. \A p \in Server : Len(raftOut[p]) <= Len(raftOut'[p])
    BY <1>1, <1>4, OutGrows
  <1>6. \A p \in Server \ {s} : Untouched(p)
    BY <1>1, <1>3, <1>4, <1>5, CallTypes DEF Untouched
  <1>7. /\ executed[s] <= Len(raftOut[s]) /\ executed[s] \in Nat /\ Len(raftOut[s]) \in Nat
        /\ Live(s) \subseteq 1..Len(log[s]) /\ handles[s] \subseteq Nat
        /\ \A i \in Live(s) : log[s][i].op \in store[s]
    BY <1>1, <1>3, CallTypes DEF CallsOf, OnePlace
  <1>8. X = {i \in handles[s] : Cuts(r) /\ i \in CutOff(r)}
    BY <1>3, <1>7 DEF Live
  <1>9. Aborted(r) = {log[s][i].op : i \in X}
    BY <1>8 DEF Aborted
  <1>10. misused' = FALSE
    <2>1. Aborted(r) \subseteq store[s]
      BY <1>7, <1>9
    <2> QED BY <1>1, <1>4, <2>1
  <1>11. /\ Live(s)' = Live(s) \ X
         /\ \A i \in Live(s)' : i \in 1..Len(log'[s]) /\ log'[s][i] = log[s][i]
    <2>1. handles'[s] = handles[s] \ {i \in handles[s] : Cuts(r) /\ i \in CutOff(r)}
      BY <1>1, <1>3, <1>4, CallTypes
    <2>2. Live(s)' = Live(s) \ X
      BY <1>4, <2>1 DEF Live
    <2>3. ASSUME NEW i \in Live(s) \ X PROVE i \in 1..Len(log'[s]) /\ log'[s][i] = log[s][i]
      <3>1. i \in 1..Len(log[s]) /\ (Cuts(r) => i \notin CutOff(r))
        BY <1>7
      <3>2. i <= Len(log'[s]) /\ log'[s][i] = log[s][i]
        BY <1>3, <3>1
      <3> QED BY <1>1, <1>3, <3>1, <3>2, NewCallTypes
    <2> QED BY <2>2, <2>3
  <1>12. CallsOf(s)'
    <2> DEFINE S2 == store[s] \ {log[s][i].op : i \in X}
               H2 == Live(s) \ X
    <2>1. /\ store'[s] = S2 /\ Live(s)' = H2
          /\ raftIn'[s] = raftIn[s] /\ dispatchOut'[s] = dispatchOut[s] /\ executed'[s] = executed[s]
          /\ inRound'[s] = inRound[s] /\ dropped' = dropped /\ unsubmitted' = unsubmitted
      BY <1>1, <1>3, <1>4, <1>9, <1>11, CallTypes
    <2>2. /\ OnePlace(store[s], Live(s), log[s], raftIn[s], dispatchOut[s])
          /\ Placed(store[s], dropped, Live(s), log[s], raftIn[s], dispatchOut[s])
          /\ inRound[s] \/ raftIn[s] = <<>>
          /\ store[s] \cap unsubmitted = {}
      BY <1>1, <1>3 DEF CallsOf
    <2>3. OnePlace(S2, H2, log'[s], raftIn[s], dispatchOut[s])
          /\ Placed(S2, dropped, H2, log'[s], raftIn[s], dispatchOut[s])
      <3>1. /\ log[s] \in Seq(Entry) /\ raftIn[s] \in Seq(Op) /\ dispatchOut[s] \in Seq(Op)
            /\ X \in SUBSET Live(s)
        BY <1>1, <1>3, CallTypes
      <3>2. Fulfilled(store[s], Live(s), log[s], X, S2, H2, log'[s])
        BY <1>11 DEF Fulfilled
      <3> HIDE DEF X, H2, S2
      <3> QED BY <2>2, <3>1, <3>2, PlacedFulfil
    <2>4. S2 \cap unsubmitted = {}
      BY <2>2
    <2>5. executed[s] <= Len(raftOut'[s])
      BY <1>1, <1>3, <1>5, <1>7, NewCallTypes
    <2> HIDE DEF S2, H2, X
    <2> QED BY <2>1, <2>2, <2>3, <2>4, <2>5 DEF CallsOf
  <1> QED BY <1>1, <1>6, <1>10, <1>12, StillCalls DEF CallInv

\* The executer: the entry at the place it has reached is the operation that it
\* was handed, and if there is a handle, the promise is there.
LEMMA CallsInExecute ==
    ASSUME Running, NEW s \in Server, Execute(s)
    PROVE  CallInv'
  <1>1. /\ TypeInv /\ TypeInv' /\ ClientTypeOK /\ ClientTypeOK' /\ ~misused /\ SafetyInv
        /\ \A p \in Server : CallsOf(p)
    BY RunningFacts
  <1> DEFINE i   == executed[s] + 1
             X   == {j \in Live(s) : j = i}
             ops == IF i \in outHandles[s] THEN {raftOut[s][i]} ELSE {}
  <1>2. /\ i <= Len(raftOut[s]) /\ executed' = [executed EXCEPT ![s] = i]
        /\ store' = [store EXCEPT ![s] = @ \ ops]
        /\ misused' = (misused \/ ~(ops \subseteq store[s]))
        /\ UNCHANGED <<handles, log, raftIn, dispatchOut, inRound, raftOut, unsubmitted, dropped>>
    BY DEF Execute, Fulfil, vars, persistentVars, inputVars, applyVars, envVars
  <1>3. \A p \in Server \ {s} : Untouched(p)
    <2> SUFFICES ASSUME NEW p \in Server \ {s} PROVE Untouched(p)
      OBVIOUS
    <2>1. Len(raftOut[p]) <= Len(raftOut'[p])
      BY <1>1, <1>2, CallTypes
    <2> QED BY <1>1, <1>2, <2>1, CallTypes DEF Untouched
  <1>4. executed[s] \in Nat /\ Len(raftOut[s]) \in Nat /\ handles[s] \subseteq Nat
    BY <1>1, CallTypes
  <1>5. raftOut[s][i] = log[s][i].op
    BY <1>1, <1>2, <1>4, OutIsHandedOver DEF AllHandedOver, HandedOver
  <1>6. i \in handles[s] => X = {i}
    BY <1>4 DEF Live
  <1>7. i \notin handles[s] => X = {}
    BY DEF Live
  <1>7a. i \in outHandles[s] <=> i \in handles[s]
    BY <1>2, RunningFacts DEF CopiesOf
  <1>8. ops = {log[s][j].op : j \in X}
    <2>1. CASE i \in handles[s]
      BY <1>5, <1>6, <1>7a, <2>1
    <2>2. CASE i \notin handles[s]
      BY <1>7, <1>7a, <2>2
    <2> QED BY <2>1, <2>2
  <1>9. Live(s)' = Live(s) \ X
    <2>1. handles'[s] = handles[s] /\ executed'[s] = executed[s] + 1
      BY <1>1, <1>2, CallTypes
    <2>2. \A j \in Nat : j > executed[s] + 1 <=> j > executed[s] /\ j # executed[s] + 1
      BY <1>4
    <2> QED BY <1>4, <2>1, <2>2 DEF Live
  <1>10. /\ OnePlace(store[s], Live(s), log[s], raftIn[s], dispatchOut[s])
         /\ Placed(store[s], dropped, Live(s), log[s], raftIn[s], dispatchOut[s])
         /\ inRound[s] \/ raftIn[s] = <<>>
         /\ store[s] \cap unsubmitted = {}
    BY <1>1 DEF CallsOf
  <1>11. misused' = FALSE
    <2>1. \A j \in Live(s) : log[s][j].op \in store[s]
      BY <1>10 DEF OnePlace
    <2>2. ops \subseteq store[s]
      BY <1>8, <2>1
    <2> QED BY <1>1, <1>2, <2>2
  <1>12. CallsOf(s)'
    <2> DEFINE S2 == store[s] \ {log[s][j].op : j \in X}
               H2 == Live(s) \ X
    <2>1. /\ store'[s] = S2 /\ Live(s)' = H2 /\ log'[s] = log[s]
          /\ raftIn'[s] = raftIn[s] /\ dispatchOut'[s] = dispatchOut[s] /\ executed'[s] = i
          /\ inRound'[s] = inRound[s] /\ dropped' = dropped /\ unsubmitted' = unsubmitted
          /\ raftOut'[s] = raftOut[s]
      BY <1>1, <1>2, <1>8, <1>9, CallTypes
    <2>2. OnePlace(S2, H2, log[s], raftIn[s], dispatchOut[s])
          /\ Placed(S2, dropped, H2, log[s], raftIn[s], dispatchOut[s])
      <3>1. /\ log[s] \in Seq(Entry) /\ raftIn[s] \in Seq(Op) /\ dispatchOut[s] \in Seq(Op)
            /\ X \in SUBSET Live(s)
        BY <1>1, CallTypes
      <3>2. Fulfilled(store[s], Live(s), log[s], X, S2, H2, log[s])
        BY <1>10 DEF OnePlace, Fulfilled
      <3> HIDE DEF X, H2, S2
      <3> QED BY <1>10, <3>1, <3>2, PlacedFulfil
    <2>3. S2 \cap unsubmitted = {}
      BY <1>10
    <2> HIDE DEF S2, H2, X
    <2> QED BY <1>2, <1>10, <2>1, <2>2, <2>3 DEF CallsOf
  <1> QED BY <1>1, <1>3, <1>11, <1>12, StillCalls DEF CallInv

\* A crash: the calls that waited on the replica have failed.
LEMMA CallsInCrash ==
    ASSUME Running, NEW s \in Server, NEW told, Lost(s, told),
           Crash(s) \/ CrashInPersist(s) \/ CrashInRound(s)
             \/ \E r \in Threads("request", "AppendEntries") : r.to = s /\ CrashInAppendEntries(r)
    PROVE  CallInv'
  <1>1. /\ TypeInv /\ TypeInv' /\ ClientTypeOK /\ ClientTypeOK' /\ ~misused
        /\ \A p \in Server : CallsOf(p)
    BY RunningFacts
  <1>2. /\ store' = [store EXCEPT ![s] = {}] /\ handles' = [handles EXCEPT ![s] = {}]
        /\ executed' = [executed EXCEPT ![s] = 0] /\ UNCHANGED <<dropped, misused>>
    BY DEF Lost
  <1>3. Restart(s)
    BY DEF Crash, CrashInPersist, CrashInRound, CrashInAppendEntries
  <1>4. /\ dispatchOut' = [dispatchOut EXCEPT ![s] = <<>>] /\ raftIn' = [raftIn EXCEPT ![s] = <<>>]
        /\ inRound' = [inRound EXCEPT ![s] = FALSE] /\ raftOut' = [raftOut EXCEPT ![s] = <<>>]
        /\ unsubmitted' = unsubmitted
    BY <1>3 DEF Restart
  <1>5. \A p \in Server \ {s} : log'[p] = log[p]
    BY <1>1, CallTypes DEF Crash, CrashInPersist, CrashInRound, CrashInAppendEntries, persistentVars
  <1>6. \A p \in Server \ {s} : Untouched(p)
    <2> SUFFICES ASSUME NEW p \in Server \ {s} PROVE Untouched(p)
      OBVIOUS
    <2>1. Len(raftOut[p]) <= Len(raftOut'[p])
      BY <1>1, <1>4, CallTypes
    <2> QED BY <1>1, <1>2, <1>4, <1>5, <2>1, CallTypes DEF Untouched
  <1>7. CallsOf(s)'
    <2>1. /\ store'[s] = {} /\ handles'[s] = {} /\ executed'[s] = 0
          /\ dispatchOut'[s] = <<>> /\ raftIn'[s] = <<>> /\ raftOut'[s] = <<>>
          /\ Len(<<>>) = 0
      BY <1>1, <1>2, <1>4, CallTypes
    <2>2. Live(s)' = {}
      BY <2>1 DEF Live
    <2> QED BY <2>1, <2>2 DEF CallsOf, OnePlace, Placed
  <1> QED BY <1>1, <1>2, <1>6, <1>7, StillCalls DEF CallInv

LEMMA CallsInRaftStep ==
    ASSUME Scheduled, Running, [Next]_vars, RaftStep
    PROVE  CallInv'
  <1>1. /\ TypeInv /\ TypeInv' /\ ClientTypeOK /\ ClientTypeOK' /\ ~misused /\ SafetyInv /\ SafetyInv'
        /\ \A p \in Server : CallsOf(p)
    BY RunningFacts
  <1>2. UNCHANGED <<store, handles, executed, dropped, misused>>
    BY DEF RaftStep, clientVars
  <1>3. /\ UNCHANGED <<log, unsubmitted, crashes>>
        /\ UNCHANGED <<dispatchOut, raftIn, inRound>> \/ \E s \in Server : RaftImplLeader(s)
    BY DEF RaftStep, SendRequestVote, SendAppendEntries, StartElection, RaftImplLeader, RequestVote,
           RequestVoteReply, LoseRPC, persistentVars, inputVars, envVars
  <1>4. \A p \in Server : Len(raftOut[p]) <= Len(raftOut'[p])
    BY <1>1, <1>3, OutGrows
  <1>5. CASE UNCHANGED <<dispatchOut, raftIn, inRound>>
    <2>1. \A p \in Server : Untouched(p)
      BY <1>2, <1>3, <1>4, <1>5 DEF Untouched
    <2> QED BY <1>1, <1>2, <2>1, StillCalls DEF CallInv
  <1>6. ASSUME NEW s \in Server, RaftImplLeader(s) PROVE CallInv'
    <2>1. /\ ~inRound[s] /\ raftIn' = [raftIn EXCEPT ![s] = dispatchOut[s]]
          /\ dispatchOut' = [dispatchOut EXCEPT ![s] = <<>>]
          /\ inRound' = [inRound EXCEPT ![s] = TRUE]
      BY <1>6 DEF RaftImplLeader
    <2>2. \A p \in Server \ {s} : Untouched(p)
      BY <1>1, <1>2, <1>3, <1>4, <2>1, CallTypes DEF Untouched
    <2>3. CallsOf(s)'
      <3>1. /\ raftIn'[s] = dispatchOut[s] /\ dispatchOut'[s] = <<>> /\ inRound'[s] = TRUE
            /\ Live(s)' = Live(s) /\ raftIn[s] = <<>> /\ Len(<<>>) = 0
        BY <1>1, <1>2, <2>1, CallTypes DEF Live, CallsOf
      <3>2. /\ OnePlace(store[s], Live(s), log[s], <<>>, dispatchOut[s])
            /\ Placed(store[s], dropped, Live(s), log[s], <<>>, dispatchOut[s])
            /\ executed[s] <= Len(raftOut[s])
            /\ store[s] \cap unsubmitted = {}
        BY <1>1, <3>1 DEF CallsOf
      <3>3. OnePlace(store[s], Live(s), log[s], dispatchOut[s], <<>>)
        BY <3>1, <3>2 DEF OnePlace
      <3>4. Placed(store[s], dropped, Live(s), log[s], dispatchOut[s], <<>>)
        BY <3>1, <3>2 DEF Placed
      <3>5. executed[s] <= Len(raftOut'[s])
        BY <1>1, <1>4, <3>2, CallTypes, NewCallTypes
      <3> QED BY <1>2, <1>3, <3>1, <3>2, <3>3, <3>4, <3>5 DEF CallsOf
    <2> QED BY <1>1, <1>2, <2>2, <2>3, StillCalls DEF CallInv
  <1> QED BY <1>3, <1>5, <1>6

\* A leader that commits moves no handle.
LEMMA CallsInCommit ==
    ASSUME Scheduled, Running, [Next]_vars, NEW r, Commit(r)
    PROVE  CallInv'
  <1>1. /\ TypeInv /\ TypeInv' /\ ClientTypeOK /\ ClientTypeOK' /\ ~misused /\ SafetyInv /\ SafetyInv'
        /\ \A p \in Server : CallsOf(p)
    BY RunningFacts
  <1>2. UNCHANGED <<store, handles, executed, dropped, misused, log, unsubmitted, crashes,
                    dispatchOut, raftIn, inRound>>
    BY DEF Commit, AppendEntriesReply, persistentVars, inputVars, envVars
  <1>3. \A p \in Server : Len(raftOut[p]) <= Len(raftOut'[p])
    BY <1>1, <1>2, OutGrows
  <1>4. \A p \in Server : Untouched(p)
    BY <1>2, <1>3 DEF Untouched
  <1> QED BY <1>1, <1>2, <1>4, StillCalls DEF CallInv

LEMMA InitCallInv == ReplicaInit => CallInv
  <1> SUFFICES ASSUME ReplicaInit PROVE CallInv
    OBVIOUS
  <1>1. ASSUME NEW s \in Server PROVE CallsOf(s)
    <2>1. /\ store[s] = {} /\ handles[s] = {} /\ executed[s] = 0
          /\ dispatchOut[s] = <<>> /\ raftIn[s] = <<>> /\ raftOut[s] = <<>>
          /\ Len(<<>>) = 0
      BY DEF ReplicaInit, Init
    <2>2. Live(s) = {}
      BY <2>1 DEF Live
    <2> QED BY <2>1, <2>2 DEF CallsOf, OnePlace, Placed
  <1>2. ~misused
    BY DEF ReplicaInit
  <1> QED BY <1>1, <1>2 DEF CallInv

LEMMA NextCallInv ==
    ASSUME Scheduled, Running, [ReplicaNext]_replicaVars
    PROVE  CallInv'
  <1>1. /\ TypeInv /\ TypeInv' /\ ClientTypeOK /\ ClientTypeOK' /\ ~misused
        /\ (\A p \in Server : CallsOf(p)) /\ [Next]_vars
    BY RunningFacts, ReplicaStepIsRaftStep
  <1>2. CASE CrashStep
    <2>1. ASSUME NEW s \in Server, Crash(s) \/ CrashInPersist(s) \/ CrashInRound(s), Lost(s, {})
          PROVE  CallInv'
      BY <2>1, CallsInCrash
    <2>2. ASSUME NEW r \in Threads("request", "AppendEntries"), NEW told,
                 CrashInAppendEntries(r), Lost(r.to, told)
          PROVE  CallInv'
      <3>1. r.to \in Server
        BY <1>1, ThreadKinds DEF Threads, TypeInv, TypeOK
      <3> QED BY <2>2, <3>1, CallsInCrash
    <2> QED BY <1>2, <2>1, <2>2 DEF CrashStep
  <1>3. CASE UNCHANGED replicaVars
    <2>1. /\ UNCHANGED <<store, handles, executed, log, raftIn, dispatchOut, inRound, raftOut,
                         unsubmitted, dropped, misused>>
      BY <1>3 DEF replicaVars, clientVars, vars, persistentVars, inputVars, applyVars, envVars
    <2>2. \A s \in Server : Untouched(s)
      BY <1>1, <2>1, CallTypes DEF Untouched
    <2> QED BY <1>1, <2>1, <2>2, StillCalls DEF CallInv
  <1>4. \A s \in Server : Round(s) \/ Execute(s) \/ Drop(s) \/ (\E op \in Op : Call(s, op)) => CallInv'
    BY CallsInRound, CallsInExecute, CallsInDrop, CallsInCall
  <1>5. \A r \in Threads("request", "AppendEntries") : Replicate(r) => CallInv'
    BY <1>1, CallsInReplicate
  <1>6. RaftStep => CallInv'
    BY <1>1, CallsInRaftStep
  <1>7. \A r \in Threads("reply", "AppendEntries") : Commit(r) => CallInv'
    BY <1>1, CallsInCommit
  <1> QED BY <1>2, <1>3, <1>4, <1>5, <1>6, <1>7 DEF ReplicaNext

-----------------------------------------------------------------------------
\* The copies that the executer works on.
SameCopies(s) == /\ outHandles'[s] = outHandles[s] /\ handles'[s] = handles[s]
                 /\ Len(raftOut'[s]) = Len(raftOut[s])

\* New copies are made with the handles of their entries; those of the earlier
\* copies are still there.
LEMMA CopiesInCopied ==
    ASSUME Running, NEW s \in Server, Copied(s),
           \A p \in Server \ {s} : SameCopies(p),
           Len(raftOut[s]) <= Len(raftOut'[s]),
           \A i \in 1..Len(raftOut[s]) : i \in handles'[s] <=> i \in handles[s]
    PROVE  CopyInv'
  <1>1. TypeInv /\ ClientTypeOK /\ TypeInv' /\ ClientTypeOK' /\ \A p \in Server : CopiesOf(p)
    BY RunningFacts
  <1>2. /\ Len(raftOut[s]) \in Nat /\ Len(raftOut'[s]) \in Nat
        /\ handles[s] \subseteq Nat \ {0} /\ handles'[s] \subseteq Nat \ {0}
    BY <1>1, CallTypes, NewCallTypes DEF ClientTypeOK
  <1>3. outHandles'[s] = outHandles[s] \cup
                           {i \in handles'[s] : i > Len(raftOut[s]) /\ i <= Len(raftOut'[s])}
    BY <1>1, CallTypes DEF Copied
  <1>4. outHandles[s] = {i \in handles[s] : i <= Len(raftOut[s])}
    BY <1>1 DEF CopiesOf
  <1>5. \A i : i \in outHandles'[s] <=> i \in handles'[s] /\ i <= Len(raftOut'[s])
    BY <1>2, <1>3, <1>4
  <1>6. CopiesOf(s)'
    BY <1>5 DEF CopiesOf
  <1>7. \A p \in Server \ {s} : CopiesOf(p)'
    BY <1>1 DEF CopiesOf, SameCopies
  <1> QED BY <1>6, <1>7 DEF CopyInv

\* Only the replica that applies entries queues any.
LEMMA AppliesOnly ==
    ASSUME TypeInv, NEW s \in Server, UNCHANGED applyVars \/ \E lg, n : Apply(s, lg, n)
    PROVE  \A p \in Server \ {s} : raftOut'[p] = raftOut[p]
  <1>1. DOMAIN raftOut = Server
    BY DEF TypeInv, TypeOK
  <1>2. ASSUME NEW lg, NEW n, Apply(s, lg, n), NEW p \in Server \ {s} PROVE raftOut'[p] = raftOut[p]
    BY <1>1, <1>2 DEF Apply
  <1> QED BY <1>2 DEF applyVars

LEMMA CopiesInReplicate ==
    ASSUME Scheduled, Running, [Next]_vars, NEW r \in Threads("request", "AppendEntries"), Replicate(r)
    PROVE  CopyInv'
  <1>1. TypeInv /\ ClientTypeOK /\ SafetyInv /\ SafetyInv' /\ TypeInv' /\ ClientTypeOK'
    BY RunningFacts
  <1>2. /\ r.to \in Server
        /\ Cuts(r) => \A i \in CutOff(r) : i > Len(raftOut[r.to])
    BY <1>1, CutUnused DEF Replicate
  <1>3. /\ handles' = [handles EXCEPT ![r.to] = IF Cuts(r) THEN @ \ CutOff(r) ELSE @]
        /\ Copied(r.to) /\ crashes' = crashes
    BY DEF Replicate, AppendEntries, envVars
  <1>3a. \A p \in Server \ {r.to} : raftOut'[p] = raftOut[p]
    <2>1. UNCHANGED applyVars \/ \E lg, n : Apply(r.to, lg, n)
      BY DEF Replicate, AppendEntries
    <2> QED BY <1>1, <1>2, <2>1, AppliesOnly
  <1>4. \A p \in Server \ {r.to} : SameCopies(p)
    <2>1. \A p \in Server \ {r.to} : handles'[p] = handles[p] /\ outHandles'[p] = outHandles[p]
      BY <1>1, <1>2, <1>3, CallTypes DEF Copied
    <2> QED BY <1>3a, <2>1 DEF SameCopies
  <1>5. Len(raftOut[r.to]) <= Len(raftOut'[r.to]) /\ Len(raftOut[r.to]) \in Nat
    BY <1>1, <1>2, <1>3, OutGrows, CallTypes
  <1>6. \A i \in 1..Len(raftOut[r.to]) : i \in handles'[r.to] <=> i \in handles[r.to]
    BY <1>1, <1>2, <1>3, <1>5, CallTypes
  <1>7. Copied(r.to)
    BY <1>3
  <1> QED BY <1>2, <1>4, <1>5, <1>6, <1>7, CopiesInCopied

LEMMA CopiesInCommit ==
    ASSUME Scheduled, Running, [Next]_vars, NEW r \in Threads("reply", "AppendEntries"), Commit(r)
    PROVE  CopyInv'
  <1>1. TypeInv /\ ClientTypeOK /\ SafetyInv /\ SafetyInv' /\ TypeInv' /\ ClientTypeOK'
    BY RunningFacts
  <1>2. r.from \in Server
    BY <1>1, ThreadKinds DEF Threads, TypeInv, TypeOK
  <1>3. /\ handles' = handles /\ Copied(r.from) /\ crashes' = crashes
    BY DEF Commit, AppendEntriesReply, envVars
  <1>3a. \A p \in Server \ {r.from} : raftOut'[p] = raftOut[p]
    <2>1. UNCHANGED applyVars \/ \E lg, n : Apply(r.from, lg, n)
      BY DEF Commit, AppendEntriesReply
    <2> QED BY <1>1, <1>2, <2>1, AppliesOnly
  <1>4. \A p \in Server \ {r.from} : SameCopies(p)
    <2>1. \A p \in Server \ {r.from} : outHandles'[p] = outHandles[p]
      BY <1>1, <1>2, <1>3, CallTypes DEF Copied
    <2> QED BY <1>3, <1>3a, <2>1 DEF SameCopies
  <1>5. Len(raftOut[r.from]) <= Len(raftOut'[r.from])
    BY <1>1, <1>2, <1>3, OutGrows
  <1>6. Copied(r.from) /\ \A i \in 1..Len(raftOut[r.from]) : i \in handles'[r.from] <=> i \in handles[r.from]
    BY <1>3
  <1> QED BY <1>2, <1>4, <1>5, <1>6, CopiesInCopied

LEMMA InitCopyInv == ReplicaInit => CopyInv
  <1> SUFFICES ASSUME ReplicaInit, NEW s \in Server PROVE CopiesOf(s)
    BY DEF CopyInv
  <1>1. handles[s] = {} /\ outHandles[s] = {}
    BY DEF ReplicaInit
  <1> QED BY <1>1 DEF CopiesOf

LEMMA NextCopyInv ==
    ASSUME Scheduled, Running, [ReplicaNext]_replicaVars
    PROVE  CopyInv'
  <1>1. /\ TypeInv /\ TypeInv' /\ ClientTypeOK /\ ClientTypeOK' /\ SafetyInv /\ SafetyInv'
        /\ (\A p \in Server : CopiesOf(p)) /\ [Next]_vars
    BY RunningFacts, ReplicaStepIsRaftStep
  <1>2. (\A s \in Server : SameCopies(s)) => CopyInv'
    BY <1>1 DEF SameCopies, CopiesOf, CopyInv
  <1>3. ASSUME NEW s \in Server, Round(s) PROVE CopyInv'
    <2>1. /\ handles' = [handles EXCEPT ![s] = @ \cup (Len(log[s]) + 1)..(Len(log[s]) + Len(raftIn[s]))]
          /\ UNCHANGED <<outHandles, raftOut>>
      BY <1>3 DEF Round, RunLeaderOneIter, applyVars
    <2>2. /\ Len(raftOut[s]) <= Len(log[s]) /\ Len(raftOut[s]) \in Nat /\ Len(log[s]) \in Nat
          /\ Len(raftIn[s]) \in Nat /\ handles[s] \subseteq Nat
      BY <1>1, OutIsHandedOver, CallTypes DEF AllHandedOver, HandedOver
    <2>3. \A i : i \in handles'[s] /\ i <= Len(raftOut[s]) <=> i \in handles[s] /\ i <= Len(raftOut[s])
      BY <1>1, <2>1, <2>2, CallTypes
    <2>4. CopiesOf(s)'
      BY <1>1, <2>1, <2>3 DEF CopiesOf
    <2>5. \A p \in Server \ {s} : CopiesOf(p)'
      BY <1>1, <2>1, CallTypes DEF CopiesOf
    <2> QED BY <2>4, <2>5 DEF CopyInv
  <1>4. ASSUME NEW s \in Server, NEW told, Lost(s, told), Restart(s) PROVE CopyInv'
    <2>1. /\ outHandles' = [outHandles EXCEPT ![s] = {}] /\ handles' = [handles EXCEPT ![s] = {}]
          /\ raftOut' = [raftOut EXCEPT ![s] = <<>>]
      BY <1>4 DEF Lost, Restart
    <2>2. CopiesOf(s)'
      BY <1>1, <2>1, CallTypes DEF CopiesOf
    <2>3. \A p \in Server \ {s} : CopiesOf(p)'
      BY <1>1, <2>1, CallTypes DEF CopiesOf
    <2> QED BY <2>2, <2>3 DEF CopyInv
  <1>5. CASE CrashStep
    <2>1. ASSUME NEW r \in Threads("request", "AppendEntries") PROVE r.to \in Server
      BY <1>1, ThreadKinds DEF Threads, TypeInv, TypeOK
    <2> QED BY <1>4, <1>5, <2>1
            DEF CrashStep, Crash, CrashInPersist, CrashInRound, CrashInAppendEntries
  <1>6. CASE RaftStep
    <2>1. UNCHANGED <<handles, outHandles, raftOut>>
      BY <1>6 DEF RaftStep, clientVars, SendRequestVote, SendAppendEntries, StartElection,
                  RaftImplLeader, RequestVote, RequestVoteReply, LoseRPC, applyVars
    <2> QED BY <1>2, <2>1 DEF SameCopies
  <1>7. ASSUME NEW s \in Server, Execute(s) \/ Drop(s) \/ \E op \in Op : Call(s, op) PROVE CopyInv'
    <2>1. UNCHANGED <<handles, outHandles, raftOut>>
      BY <1>7 DEF Execute, Drop, Call, RaftImplOther, Submit, vars, applyVars
    <2> QED BY <1>2, <2>1 DEF SameCopies
  <1>8. CASE UNCHANGED replicaVars
    BY <1>2, <1>8 DEF SameCopies, replicaVars, clientVars, vars, applyVars
  <1>9. \A r \in Threads("request", "AppendEntries") : Replicate(r) => CopyInv'
    BY <1>1, CopiesInReplicate
  <1>10. \A r \in Threads("reply", "AppendEntries") : Commit(r) => CopyInv'
    BY <1>1, CopiesInCommit
  <1> QED BY <1>3, <1>5, <1>6, <1>7, <1>8, <1>9, <1>10 DEF ReplicaNext

\* What is proved of the replicas holds for them and their clients.
LEMMA ReplicaSafety ==
    ASSUME Scheduled, Recovered
    PROVE  ReplicaSpec => [](SafetyInv /\ ClientTypeOK)
  BY Safety, ReplicaImplementsRaft, ClientTypes, PTL

LEMMA CallsWait == ASSUME Scheduled, Recovered PROVE ReplicaSpec => [](CallInv /\ CopyInv)
  <1>1. ReplicaInit => CallInv /\ CopyInv
    BY InitCallInv, InitCopyInv
  <1>2. SafetyInv /\ ClientTypeOK /\ (SafetyInv /\ ClientTypeOK)' /\ CallInv /\ CopyInv => Running
    BY DEF Running
  <1>3. Running /\ [ReplicaNext]_replicaVars => (CallInv /\ CopyInv)'
    BY NextCallInv, NextCopyInv
  <1> QED BY <1>1, <1>2, <1>3, ReplicaSafety, PTL DEF ReplicaSpec

\* No promise is fulfilled twice, and none that is gone, although the executer and
\* AppendEntries hold copies of the same handle: the executer uses the one that its
\* operation had when it was queued, and no entry of which there is a copy in that
\* queue is ever aborted, whatever a leader that was deposed left in its log.
THEOREM HandlesAreUsedOnce == ASSUME Scheduled, Recovered PROVE ReplicaSpec => []HandlesUsedOnce
  <1>1. CallInv => HandlesUsedOnce
    BY DEF CallInv, HandlesUsedOnce
  <1> QED BY <1>1, CallsWait, PTL

\* A call that waits is in an input of its replica, or its operation is in the
\* log, with its handle and not yet executed; unless raftImpl cleared it.
THEOREM WaitingCallsAreQueued == ASSUME Scheduled, Recovered PROVE ReplicaSpec => []WaitingIsQueued
  <1>1. TypeInv /\ ClientTypeOK /\ CallInv => WaitingIsQueued
    <2> SUFFICES ASSUME TypeInv, ClientTypeOK, CallInv, NEW s \in Server, NEW op \in store[s] \ dropped
                 PROVE  \/ \E i \in DOMAIN dispatchOut[s] : dispatchOut[s][i] = op
                        \/ \E i \in DOMAIN raftIn[s] : raftIn[s][i] = op
                        \/ \E i \in handles[s] : /\ i \in DOMAIN log[s]
                                                 /\ i > executed[s]
                                                 /\ log[s][i].op = op
      BY DEF WaitingIsQueued
    <2>1. /\ \/ \E i \in 1..Len(dispatchOut[s]) : dispatchOut[s][i] = op
             \/ \E i \in 1..Len(raftIn[s]) : raftIn[s][i] = op
             \/ \E i \in Live(s) : log[s][i].op = op
          /\ Live(s) \subseteq 1..Len(log[s])
      BY DEF CallInv, CallsOf, Placed, OnePlace
    <2>2. /\ DOMAIN dispatchOut[s] = 1..Len(dispatchOut[s]) /\ DOMAIN raftIn[s] = 1..Len(raftIn[s])
          /\ DOMAIN log[s] = 1..Len(log[s])
      BY CallTypes
    <2> QED BY <2>1, <2>2 DEF Live
  <1>2. SafetyInv => TypeInv
    BY DEF SafetyInv, HistoryInv, ReplicationInv
  <1> QED BY <1>1, <1>2, CallsWait, ReplicaSafety, PTL

-----------------------------------------------------------------------------
(***************************************************************************)
(* Real time.  An operation that was not submitted is nowhere, the         *)
(* committed entries fill an initial piece of the log, and entries that    *)
(* are committed later lie beyond it: so a put that was acknowledged lies  *)
(* before any call that is submitted afterwards.                           *)
(***************************************************************************)
Known(lg) == \A i \in 1..Len(lg) : lg[i].op \notin unsubmitted
KnownOps ==
    /\ \A s \in Server : Known(log[s])
    /\ \A r \in Requests : Known(r.entries)

\* Where an entry of the log of s comes from.
FromLog(x, s)   == \E k \in 1..Len(log[s]) : x = log[s][k]
FromRequest(x)  == \E r \in Requests : \E k \in 1..Len(r.entries) : x = r.entries[k]
FromInput(x, s) == \E k \in 1..Len(raftIn[s]) : x.op = raftIn[s][k]

LEMMA MergeParts ==
    ASSUME NEW lg \in Seq(Entry), NEW es \in Seq(Entry), NEW prev \in Index, prev < Len(lg),
           NEW i \in 1..Len(Merge(lg, prev, es))
    PROVE  \/ \E k \in 1..Len(lg) : Merge(lg, prev, es)[i] = lg[k]
           \/ \E k \in 1..Len(es) : Merge(lg, prev, es)[i] = es[k]
  <1> DEFINE n == Agreeing(lg, prev, es)
             m == Merge(lg, prev, es)
  <1>1. /\ prev + 1 + n <= Len(lg)
        /\ \/ n = Len(es) /\ m = lg
           \/ /\ n < Len(es) /\ Len(m) = prev + 1 + Len(es)
              /\ \A k \in 1..(prev + 1 + n) : m[k] = lg[k]
              /\ \A k \in (n + 1)..Len(es) : m[prev + 1 + k] = es[k]
    BY MergeShape
  <1>2. n \in 0..Len(es)
    BY AgreeingRange
  <1>3. n \in Nat /\ prev \in Int /\ Len(lg) \in Nat /\ Len(es) \in Nat /\ i \in Nat
    BY <1>2 DEF Index
  <1>4. i \in 1..Len(m)
    OBVIOUS
  <1> HIDE DEF n, m
  <1>5. CASE m = lg
    BY <1>4, <1>5 DEF m
  <1>6. CASE m # lg /\ i <= prev + 1 + n
    <2>1. i \in 1..(prev + 1 + n) /\ i \in 1..Len(lg)
      BY <1>1, <1>3, <1>4, <1>6
    <2> QED BY <1>1, <1>6, <2>1 DEF m
  <1>7. CASE m # lg /\ i > prev + 1 + n
    <2>1. i <= prev + 1 + Len(es)
      BY <1>1, <1>4, <1>7
    <2>2. i - (prev + 1) \in (n + 1)..Len(es) /\ i - (prev + 1) \in 1..Len(es)
          /\ prev + 1 + (i - (prev + 1)) = i
      BY <1>3, <1>7, <2>1, Offset
    <2> QED BY <1>1, <1>7, <2>2 DEF m
  <1> QED BY <1>3, <1>5, <1>6, <1>7

LEMMA LogSources ==
    ASSUME TypeInv, [Next]_vars, NEW s \in Server, NEW i \in 1..Len(log'[s])
    PROVE  FromLog(log'[s][i], s) \/ FromRequest(log'[s][i]) \/ FromInput(log'[s][i], s)
  <1>1. CASE log'[s] = log[s]
    BY <1>1 DEF FromLog
  <1>2. ASSUME NEW p \in Server, RunLeaderOneIter(p) \/ CrashInRound(p), log'[s] # log[s]
        PROVE  FromLog(log'[s][i], s) \/ FromInput(log'[s][i], s)
    <2>1. raftIn[p] \in Seq(Op) /\ Len(raftIn[p]) \in 0..Len(raftIn[p]) /\ log \in [Server -> Seq(Entry)]
      BY DEF TypeInv, TypeOK
    <2>2. PICK n \in 0..Len(raftIn[p]) : log' = [log EXCEPT ![p] = @ \o Appended(p, n)]
      BY <1>2, <2>1 DEF RunLeaderOneIter, CrashInRound
    <2>3. p = s
      BY <1>2, <2>1, <2>2
    <2> DEFINE es == Appended(s, n)
               lg == log[s]
    <2>4. es \in Seq(Entry) /\ lg \in Seq(Entry)
      BY <2>1, <2>2, <2>3, AppendedType
    <2>5. n \in Nat /\ Len(es) = n /\ \A k \in 1..n : es[k].op = raftIn[s][k]
      BY <2>1, <2>2 DEF Appended
    <2>6. log'[s] = lg \o es
      BY <2>1, <2>2, <2>3
    <2> HIDE DEF es
    <2>7. /\ Len(lg \o es) = Len(lg) + Len(es)
          /\ \A k \in 1..Len(lg) : (lg \o es)[k] = lg[k]
          /\ \A k \in 1..Len(es) : (lg \o es)[Len(lg) + k] = es[k]
      <3> HIDE DEF lg
      <3> QED BY <2>4, ConcatParts
    <2>8. Len(lg) \in Nat /\ i \in 1..(Len(lg) + n)
      <3>1. Len(lg) \in Nat /\ Len(log'[s]) = Len(lg) + n
        BY <2>4, <2>5, <2>6, <2>7
      <3> HIDE DEF lg
      <3> QED BY <3>1
    <2>9. CASE i \in 1..Len(lg)
      BY <2>6, <2>7, <2>9 DEF FromLog
    <2>10. CASE i \notin 1..Len(lg)
      <3>1. i - Len(lg) \in 1..n /\ Len(lg) + (i - Len(lg)) = i
        BY <2>5, <2>8, <2>10
      <3>2. i - Len(lg) \in 1..Len(raftIn[s])
        BY <2>1, <2>3, <3>1
      <3>3. log'[s][i].op = raftIn[s][i - Len(lg)]
        BY <2>5, <2>6, <2>7, <3>1
      <3> HIDE DEF lg
      <3> QED BY <3>2, <3>3 DEF FromInput
    <2> QED BY <2>9, <2>10
  <1>3. ASSUME NEW r \in Threads("request", "AppendEntries"),
               AppendEntries(r) \/ CrashInAppendEntries(r), log'[s] # log[s]
        PROVE  FromLog(log'[s][i], s) \/ FromRequest(log'[s][i])
    <2>1. r \in Requests /\ r \in AppendRequests /\ log \in [Server -> Seq(Entry)] /\ r.to \in Server
      BY LogTypes DEF Threads, Requests, AppendThreads
    <2>2. Overwrites(r)
      BY <1>3, AppendEntriesShape DEF Refuses
    <2> DEFINE lg == log[s]
               m  == Merge(lg, r.prevLogIndex, r.entries)
    <2>3. r.to = s
      BY <1>3, <2>1, <2>2 DEF Overwrites
    <2>4. /\ lg \in Seq(Entry) /\ r.entries \in Seq(Entry) /\ r.prevLogIndex \in Index
          /\ r.prevLogIndex < Len(lg)
      BY <2>1, <2>2, <2>3 DEF AppendRequests, Overwrites, Accepted, PrevMatches, LastLogIndex, Index
    <2>5. m \in Seq(Entry) /\ Agreeing(lg, r.prevLogIndex, r.entries) \in 0..Len(r.entries)
      BY <2>4, MergeShape, AgreeingRange
    <2>6. PICK n \in (r.prevLogIndex + 1 + Agreeing(lg, r.prevLogIndex, r.entries))..Len(m) :
             log' = [log EXCEPT ![r.to] = SubSeq(m, 1, n)]
      BY <2>2, <2>3 DEF Overwrites
    <2> HIDE DEF m
    <2>7. n \in Int /\ n <= Len(m) /\ n >= 0
      BY <2>4, <2>5, <2>6 DEF Index
    <2>8. log'[s] = SubSeq(m, 1, n)
      BY <2>1, <2>3, <2>6
    <2>9. i \in 1..Len(m) /\ log'[s][i] = m[i]
      BY <2>5, <2>7, <2>8
    <2>10. \/ \E k \in 1..Len(lg) : m[i] = lg[k]
           \/ \E k \in 1..Len(r.entries) : m[i] = r.entries[k]
      BY <2>4, <2>9, MergeParts DEF m
    <2> QED BY <2>1, <2>9, <2>10 DEF FromLog, FromRequest
  <1>4. \/ UNCHANGED log
        \/ \E p \in Server : RunLeaderOneIter(p) \/ CrashInRound(p)
        \/ \E r \in Threads("request", "AppendEntries") : AppendEntries(r) \/ CrashInAppendEntries(r)
    BY DEF Next, Continue, SendRequestVote, SendAppendEntries, StartElection, Submit, RaftImplLeader,
           RaftImplOther, Crash, CrashInPersist, RequestVote, RequestVoteReply, AppendEntriesReply,
           LoseRPC, persistentVars, vars
  <1> QED BY <1>1, <1>2, <1>3, <1>4

\* Operations are only ever taken out of unsubmitted.
LEMMA Submissions == ASSUME [Next]_vars PROVE unsubmitted' \subseteq unsubmitted
  BY DEF Next, Continue, RunLeaderOneIter, CrashInRound, SendRequestVote, SendAppendEntries,
         StartElection, Submit, RaftImplLeader, RaftImplOther, Crash, CrashInPersist, RequestVote,
         RequestVoteReply, AppendEntries, CrashInAppendEntries, AppendEntriesReply, LoseRPC,
         Restart, envVars, vars

LEMMA InitKnownOps == Init => KnownOps
  <1> SUFFICES ASSUME Init PROVE KnownOps
    OBVIOUS
  <1>1. ASSUME NEW s \in Server PROVE Known(log[s])
    <2>1. log[s] \in Seq(Entry) /\ DOMAIN log[s] = 1..Len(log[s])
      BY BootstrapAssumption DEF Init
    <2> QED BY <2>1 DEF Known, Init
  <1>2. Requests = {}
    BY DEF Init, Requests, AppendThreads
  <1> QED BY <1>1, <1>2 DEF KnownOps

LEMMA InPiece ==
    ASSUME NEW p \in Int, NEW n \in Nat, NEW m \in Nat, NEW k \in 1..n, p >= -1, p + 1 + n <= m
    PROVE  p + 1 + k \in 1..m
  OBVIOUS

LEMMA NextKnownOps ==
    ASSUME Scheduled, Running, KnownOps, [Next]_vars
    PROVE  KnownOps'
  <1>1. /\ TypeInv /\ TypeInv' /\ ReplicationInv /\ ClientTypeOK /\ \A p \in Server : CallsOf(p)
    BY RunningFacts DEF SafetyInv, HistoryInv
  <1>2. unsubmitted' \subseteq unsubmitted
    BY Submissions
  <1>3. \A s \in Server : \A i \in 1..Len(log'[s]) : log'[s][i].op \notin unsubmitted
    <2> SUFFICES ASSUME NEW s \in Server, NEW i \in 1..Len(log'[s])
                 PROVE  log'[s][i].op \notin unsubmitted
      OBVIOUS
    <2>1. FromLog(log'[s][i], s) \/ FromRequest(log'[s][i]) \/ FromInput(log'[s][i], s)
      BY <1>1, LogSources
    <2>2. \A k \in 1..Len(raftIn[s]) : raftIn[s][k] \notin unsubmitted
      BY <1>1 DEF CallsOf, OnePlace
    <2> QED BY <2>1, <2>2 DEF FromLog, FromRequest, FromInput, KnownOps, Known
  <1>4. ASSUME NEW r \in Requests', NEW k \in 1..Len(r.entries) PROVE r.entries[k].op \notin unsubmitted
    <2>1. CASE r \in Requests
      BY <1>4, <2>1 DEF KnownOps, Known
    <2>2. ASSUME NEW s \in Server, NEW q \in AppendRequests, Sent(s, q), r = q
          PROVE  r.entries[k].op \notin unsubmitted
      <3>1. /\ q.prevLogIndex + 1 + Len(q.entries) <= Len(log[s])
            /\ q.entries[k] = log[s][q.prevLogIndex + 1 + k]
        BY <1>4, <2>2 DEF Sent, PieceOf
      <3>2. q.prevLogIndex \in Index /\ Len(q.entries) \in Nat /\ Len(log[s]) \in Nat /\ k \in 1..Len(q.entries)
        BY <1>1, <1>4, <2>2, LogTypes DEF AppendRequests
      <3>3. q.prevLogIndex + 1 + k \in 1..Len(log[s])
        <4>1. q.prevLogIndex >= -1 /\ q.prevLogIndex \in Int
          BY <3>2 DEF Index
        <4> QED BY <3>1, <3>2, <4>1, InPiece
      <3> QED BY <2>2, <3>1, <3>3 DEF KnownOps, Known
    <2>3. Requests' \subseteq Requests \/ Sends
      <3>1. ASSUME NEW q \in Requests, Overwrites(q) PROVE Requests' \subseteq Requests
        <4>1. AppendReply(q, q.term, TRUE).phase # "request"
          BY DEF AppendReply
        <4> QED BY <3>1, <4>1 DEF Overwrites, Requests
      <3> QED BY <1>1, <3>1, StepKinds DEF Steady, Wins, LeaderRound, Requests
    <2> QED BY <1>4, <2>1, <2>2, <2>3 DEF Sends
  <1> QED BY <1>2, <1>3, <1>4 DEF KnownOps, Known

\* The committed entries reach down to the start of the log.
CommittedDown == \A c \in committed : \A i \in 0..c.index : \E d \in committed : d.index = i

LEMMA NextCommittedDown ==
    ASSUME Scheduled, SafetyInv, SafetyInv', CommittedDown, [Next]_vars
    PROVE  CommittedDown'
  <1>1. /\ TypeInv /\ HistoryInv /\ HistoryInv' /\ CommitHeld /\ AcksKept'
        /\ committed \subseteq committed'
    BY CommittedGrows DEF SafetyInv, HistoryInv, ReplicationInv, CommitInv
  <1>2. CASE committed' = committed
    BY <1>2 DEF CommittedDown
  <1>3. ASSUME NEW s \in Server, Counts(s) PROVE CommittedDown'
    <2> DEFINE n == commitIndex'[s]
    <2>1. commitIndex[s] \in Index /\ \A c \in committed : c.index \in Nat
      BY <1>1, CommitTypes
    <2>2. /\ n \in (commitIndex[s] + 1)..LastLogIndex(log[s])
          /\ \A c \in committed' : c \in committed \/ c.index \in (commitIndex[s] + 1)..n
          /\ \A i \in (commitIndex[s] + 1)..n : \E c \in committed' : c.index = i
      <3> DEFINE t == currentTerm[s]
      <3>1. n = commitIndex'[s] /\ t = currentTerm[s]
        OBVIOUS
      <3> HIDE DEF n, t
      <3> QED BY <1>1, <1>3, <3>1, CountAnchors
    <2> HIDE DEF n
    <2>3. \A i \in 0..commitIndex[s] : \E c \in committed' : c.index = i
      BY <1>1 DEF CommitHeld, Covers
    <2>4. ASSUME NEW c \in committed', NEW i \in 0..c.index PROVE \E d \in committed' : d.index = i
      <3>1. CASE c \in committed
        BY <1>1, <3>1 DEF CommittedDown
      <3>2. CASE c.index \in (commitIndex[s] + 1)..n
        <4>1. i \in 0..commitIndex[s] \/ i \in (commitIndex[s] + 1)..n
          BY <2>1, <2>2, <3>2 DEF Index
        <4> QED BY <2>2, <2>3, <4>1
      <3> QED BY <2>2, <3>1, <3>2
    <2> QED BY <2>4 DEF CommittedDown
  <1> QED BY <1>1, <1>2, <1>3, CommitKinds DEF CatchesUp, Restart, historyVars

LEMMA NewAgreement == SafetyInv' => StateMachineSafety'
  BY AgreementFollows, PTL

\* A newly committed entry is beyond all others, unless it is one that another
\* leader has committed before.
LEMMA NewCommits ==
    ASSUME Scheduled, SafetyInv, SafetyInv', CommittedDown, [Next]_vars, NEW c \in committed'
    PROVE  /\ c.index \in Nat
           /\ \/ \E d \in committed : d.index = c.index /\ d.entry = c.entry
              \/ \A d \in committed : d.index < c.index
  <1>1. TypeInv /\ committed \subseteq committed'
    BY CommittedGrows DEF SafetyInv, HistoryInv, ReplicationInv
  <1>2. (\A d \in committed : d.index \in Nat) /\ c.index \in Nat
    <2>1. TypeOK'
      BY DEF SafetyInv, HistoryInv, ReplicationInv, TypeInv
    <2> QED BY <1>1, <2>1, CommitTypes DEF TypeOK
  <1>3. \A d \in committed' : d.index = c.index => d.entry = c.entry
    BY NewAgreement DEF StateMachineSafety
  <1>4. ASSUME NEW d \in committed, d.index >= c.index
        PROVE  \E e \in committed : e.index = c.index /\ e.entry = c.entry
    <2>1. PICK e \in committed : e.index = c.index
      BY <1>2, <1>4 DEF CommittedDown
    <2> QED BY <1>1, <1>3, <2>1
  <1> QED BY <1>2, <1>4

\* So the places of operations stay, and new ones are beyond all others.
PlacesGrow ==
    \A op : /\ PlacesOf(op) \subseteq PlacesOf(op)'
            /\ \A i \in PlacesOf(op)' : i \in PlacesOf(op) \/ \A p : \A j \in PlacesOf(p) : j < i

LEMMA PlacesStep ==
    ASSUME Scheduled, SafetyInv, SafetyInv', CommittedDown, [Next]_vars
    PROVE  PlacesGrow
  <1>1. TypeInv /\ committed \subseteq committed'
    BY CommittedGrows DEF SafetyInv, HistoryInv, ReplicationInv
  <1> SUFFICES ASSUME NEW op
               PROVE  /\ PlacesOf(op) \subseteq PlacesOf(op)'
                      /\ \A i \in PlacesOf(op)' : i \in PlacesOf(op) \/ \A p : \A j \in PlacesOf(p) : j < i
    BY DEF PlacesGrow
  <1>2. PlacesOf(op) \subseteq PlacesOf(op)'
    BY <1>1 DEF PlacesOf
  <1>3. ASSUME NEW i \in PlacesOf(op)'
        PROVE  i \in PlacesOf(op) \/ \A p : \A j \in PlacesOf(p) : j < i
    <2>1. PICK c \in committed' : c.index = i /\ c.entry.op = op
      BY <1>3 DEF PlacesOf
    <2> QED BY <2>1, NewCommits DEF PlacesOf
  <1> QED BY <1>2, <1>3

\* A committed operation has been submitted.
LEMMA CommittedIsKnown ==
    ASSUME SafetyInv, KnownOps, NEW c \in committed
    PROVE  c.entry.op \notin unsubmitted
  <1>1. PICK j \in Nat, Q \in SUBSET Server :
           /\ AnchoredAt(c, j) /\ IsMajority(Cardinality(Q))
           /\ \A q \in Q : /\ Holds(log[q], j, c.term) /\ c.index + 1 \in 1..Len(log[q])
                           /\ log[q][c.index + 1] = c.entry
    BY Anchor
  <1>2. PICK q \in Server : q \in Q
    BY <1>1, MajoritiesMeet
  <1> QED BY <1>1, <1>2 DEF KnownOps, Known

\* How a step may answer a call with an execution: the executer does it.
Executes(s, op) ==
    /\ Execute(s) /\ executed[s] + 1 \in outHandles[s] /\ op = raftOut[s][executed[s] + 1]
    /\ answer'[op].ret = Returns(op, IF op \in Puts THEN TRUE ELSE db[s][Args[op].key])

LEMMA Answers ==
    ASSUME [ReplicaNext]_replicaVars, NEW op \in Op, Executed(op)'
    PROVE  \/ Executed(op) /\ answer'[op] = answer[op]
           \/ \E s \in Server : Executes(s, op)
  <1>1. CASE UNCHANGED answer
    BY <1>1 DEF Executed
  <1>2. ASSUME NEW s, NEW told, Lost(s, told) PROVE answer'[op] = answer[op]
    BY <1>2 DEF Lost, Executed, Returned
  <1>3. ASSUME NEW r, Replicate(r) PROVE answer'[op] = answer[op]
    BY <1>3 DEF Replicate, Fulfil, Executed, Returned
  <1>4. ASSUME NEW s \in Server, Execute(s)
        PROVE  answer'[op] = answer[op] \/ Executes(s, op)
    <2> DEFINE i   == executed[s] + 1
               res == IF raftOut[s][i] \in Puts THEN TRUE ELSE db[s][Args[raftOut[s][i]].key]
               ops == IF i \in outHandles[s] THEN {raftOut[s][i]} ELSE {}
    <2>1. answer'[op] = IF op \in ops THEN Returned("execute", Returns(op, res)) ELSE answer[op]
      BY <1>4 DEF Execute, Fulfil
    <2>2. CASE op \in ops
      <3>1. op = raftOut[s][i] /\ i \in outHandles[s]
        BY <2>2
      <3>2. answer'[op].ret = Returns(op, res)
        BY <2>1, <2>2 DEF Returned
      <3> QED BY <1>4, <3>1, <3>2 DEF Executes
    <2> QED BY <2>1, <2>2
  <1>5. CASE \E s, told : Lost(s, told)
    BY <1>2, <1>5 DEF Executed
  <1>6. CASE \E r : Replicate(r)
    BY <1>3, <1>6 DEF Executed
  <1>7. CASE \E s \in Server : Execute(s)
    BY <1>4, <1>7 DEF Executed
  <1> QED BY <1>1, <1>5, <1>6, <1>7
          DEF ReplicaNext, RaftStep, CrashStep, Round, Drop, Call, Commit, clientVars, replicaVars

\* What is executed was committed.
ExecutedCommitted == \A op \in Op : Executed(op) => PlacesOf(op) # {}

LEMMA OutIsCommitted ==
    ASSUME SafetyInv, NEW s \in Server, NEW i \in 1..Len(raftOut[s])
    PROVE  \E c \in committed : c.index = i - 1 /\ c.entry.op = raftOut[s][i]
  <1>1. DOMAIN raftOut[s] = 1..Len(raftOut[s])
    BY DEF SafetyInv, HistoryInv, ReplicationInv, TypeInv, TypeOK
  <1> QED BY <1>1, AgreementFollows DEF StateMachineSafety

LEMMA NextExecutedCommitted ==
    ASSUME Scheduled, Running, CommittedDown, ExecutedCommitted, [ReplicaNext]_replicaVars
    PROVE  ExecutedCommitted'
  <1>1. /\ [Next]_vars /\ SafetyInv /\ SafetyInv' /\ TypeInv /\ ClientTypeOK
    BY RunningFacts, ReplicaStepIsRaftStep
  <1>2. PlacesGrow
    BY <1>1, PlacesStep
  <1>3. ASSUME NEW op \in Op, NEW s \in Server, Executes(s, op) PROVE PlacesOf(op) # {}
    <2>1. executed[s] \in Nat /\ executed[s] + 1 <= Len(raftOut[s]) /\ Len(raftOut[s]) \in Nat
      BY <1>1, <1>3, CallTypes DEF Executes, Execute
    <2>2. executed[s] + 1 \in 1..Len(raftOut[s])
      BY <2>1
    <2>3. PICK c \in committed : c.entry.op = op
      BY <1>1, <1>3, <2>2, OutIsCommitted DEF Executes
    <2> QED BY <2>3 DEF PlacesOf
  <1>4. ASSUME NEW op \in Op, Executed(op)' PROVE PlacesOf(op)' # {}
    BY <1>2, <1>3, <1>4, Answers DEF ExecutedCommitted, PlacesGrow
  <1> QED BY <1>4 DEF ExecutedCommitted

\* A call lies after each put that was acknowledged before it was submitted.
AfterAcked ==
    \A op \in Op : \A p \in ackedBefore[op] :
        \E j \in PlacesOf(p) : \A i \in PlacesOf(op) : j < i

LEMMA NextAfterAcked ==
    ASSUME Scheduled, Running, KnownOps, CommittedDown, ExecutedCommitted, AfterAcked,
           [ReplicaNext]_replicaVars
    PROVE  AfterAcked'
  <1>1. [Next]_vars /\ SafetyInv /\ SafetyInv' /\ TypeInv /\ ClientTypeOK
    BY RunningFacts, ReplicaStepIsRaftStep
  <1>2. PlacesGrow
    BY <1>1, PlacesStep
  <1>3. ASSUME NEW op \in Op, ackedBefore'[op] = ackedBefore[op], NEW p \in ackedBefore'[op]
        PROVE  \E j \in PlacesOf(p)' : \A i \in PlacesOf(op)' : j < i
    <2>1. PICK j \in PlacesOf(p) : \A i \in PlacesOf(op) : j < i
      BY <1>3 DEF AfterAcked
    <2> QED BY <1>2, <2>1 DEF PlacesGrow
  <1>4. ASSUME NEW s \in Server, NEW op \in Op, Call(s, op) PROVE AfterAcked'
    <2>1. /\ op \in unsubmitted /\ committed' = committed
          /\ ackedBefore' = [ackedBefore EXCEPT ![op] = {p \in Puts : Executed(p)}]
          /\ ackedBefore \in [Op -> SUBSET Puts]
      BY <1>1, <1>4 DEF Call, Submit, historyVars, ClientTypeOK
    <2>2. PlacesOf(op) = {} /\ \A p : PlacesOf(p)' = PlacesOf(p)
      BY <1>1, <2>1, CommittedIsKnown DEF PlacesOf
    <2>3. ASSUME NEW p \in ackedBefore'[op] PROVE PlacesOf(p) # {}
      BY <2>1, <2>3 DEF ExecutedCommitted, Puts
    <2>4. \A q \in Op \ {op} : ackedBefore'[q] = ackedBefore[q]
      BY <2>1
    <2>5. ASSUME NEW q \in Op, NEW p \in ackedBefore'[q]
          PROVE  \E j \in PlacesOf(p)' : \A i \in PlacesOf(q)' : j < i
      <3>1. CASE q = op
        BY <2>2, <2>3, <2>5, <3>1
      <3>2. CASE q # op
        BY <1>3, <2>4, <2>5, <3>2
      <3> QED BY <3>1, <3>2
    <2> QED BY <2>5 DEF AfterAcked
  <1>5. CASE UNCHANGED ackedBefore
    BY <1>3, <1>5 DEF AfterAcked
  <1> QED BY <1>4, <1>5 DEF ReplicaNext, RaftStep, CrashStep, Lost, Round, Execute, Drop, Replicate,
                            Commit, clientVars, replicaVars

OrderInv == KnownOps /\ CommittedDown /\ ExecutedCommitted /\ AfterAcked

LEMMA CallsAreOrdered == ASSUME Scheduled, Recovered PROVE ReplicaSpec => []OrderInv
  <1>1. ReplicaInit => OrderInv
    <2> SUFFICES ASSUME ReplicaInit PROVE OrderInv
      OBVIOUS
    <2>1. KnownOps /\ CommittedDown
      BY InitKnownOps DEF ReplicaInit, Init, CommittedDown
    <2>2. ExecutedCommitted
      BY DEF ReplicaInit, ExecutedCommitted, Executed, NoAnswer
    <2>3. AfterAcked
      BY DEF ReplicaInit, AfterAcked
    <2> QED BY <2>1, <2>2, <2>3 DEF OrderInv
  <1>2. Running /\ OrderInv /\ [ReplicaNext]_replicaVars => OrderInv'
    <2> SUFFICES ASSUME Running, OrderInv, [ReplicaNext]_replicaVars PROVE OrderInv'
      OBVIOUS
    <2>1. [Next]_vars /\ SafetyInv /\ SafetyInv'
      BY RunningFacts, ReplicaStepIsRaftStep
    <2>2. KnownOps /\ CommittedDown /\ ExecutedCommitted /\ AfterAcked
      BY DEF OrderInv
    <2> QED BY <2>1, <2>2, NextKnownOps, NextCommittedDown, NextExecutedCommitted, NextAfterAcked
            DEF OrderInv
  <1>3. SafetyInv /\ ClientTypeOK /\ (SafetyInv /\ ClientTypeOK)' /\ CallInv /\ CopyInv => Running
    BY DEF Running
  <1> QED BY <1>1, <1>2, <1>3, CallsWait, ReplicaSafety, PTL DEF ReplicaSpec

\* A call that is executed takes effect after every put that was executed and
\* acknowledged before the call was made, whichever replicas were called and
\* whoever led them, crashed or was deposed in between.
THEOREM CallsRespectRealTime == ASSUME Scheduled, Recovered PROVE ReplicaSpec => []RealTimeOrder
  <1>1. OrderInv => RealTimeOrder
    BY DEF OrderInv, AfterAcked, RealTimeOrder
  <1> QED BY <1>1, CallsAreOrdered, PTL

-----------------------------------------------------------------------------
(***************************************************************************)
(* Reads.  Of a key, the database of s holds the value of the last put     *)
(* that s executed since it was started, and if there was none, that of a  *)
(* committed put, which then lies before every place of the log of s whose *)
(* handle is still to be used: s appended those when it was the leader and *)
(* its log held all that was committed.                                    *)
(***************************************************************************)
Writes(op, k) == op \in Puts /\ Args[op].key = k
Done(s, k)    == {i \in 1..executed[s] : Writes(raftOut[s][i], k)}
HoldsLast(s, k) ==
    \/ Done(s, k) = {}
    \/ \E m \in Done(s, k) : (\A i \in Done(s, k) : i <= m) /\ db[s][k] = Args[raftOut[s][m]].val
HoldsOld(s, k) ==
    db[s][k] # NoValue =>
        \E c \in committed : /\ Writes(c.entry.op, k) /\ c.term <= currentTerm[s]
                             /\ Done(s, k) # {} \/ \A i \in Live(s) : c.index + 1 < i
Written(s) == \A k \in Key : HoldsLast(s, k) /\ HoldsOld(s, k)

\* Nothing is executed, and new handles are those of a leader's new entries.
DbKept(s) ==
    /\ db'[s] = db[s] /\ executed'[s] = executed[s]
    /\ \A i \in 1..executed[s] : raftOut'[s][i] = raftOut[s][i]
    /\ \A i \in Live(s)' : i \in Live(s) \/ (role[s] = "Leader" /\ i > Len(log[s]) /\ i \in Nat)

LEMMA StillWritten ==
    ASSUME Scheduled, Running, [Next]_vars, NEW s \in Server, DbKept(s), Written(s)
    PROVE  Written(s)'
  <1>1. /\ SafetyInv /\ TypeInv /\ TypeInv' /\ ReplicationInv /\ committed \subseteq committed'
    BY RunningFacts, CommittedGrows DEF SafetyInv, HistoryInv
  <1>2. currentTerm'[s] >= currentTerm[s] /\ currentTerm[s] \in Nat /\ currentTerm'[s] \in Nat
    BY <1>1, Grow, LogTypes, NewTypes
  <1> SUFFICES ASSUME NEW k \in Key PROVE HoldsLast(s, k)' /\ HoldsOld(s, k)'
    BY DEF Written
  <1>3. Done(s, k)' = Done(s, k)
    BY DEF Done, DbKept, Writes
  <1>4. HoldsLast(s, k) /\ HoldsOld(s, k)
    BY DEF Written
  <1>5. \A i \in Done(s, k) : raftOut'[s][i] = raftOut[s][i]
    BY DEF Done, DbKept
  <1>6. HoldsLast(s, k)'
    BY <1>3, <1>4, <1>5 DEF HoldsLast, DbKept
  <1>7. ASSUME db'[s][k] # NoValue
        PROVE  \E c \in committed' : /\ Writes(c.entry.op, k) /\ c.term <= currentTerm'[s]
                                     /\ Done(s, k) # {} \/ \A i \in Live(s)' : c.index + 1 < i
    <2>1. PICK c \in committed : /\ Writes(c.entry.op, k) /\ c.term <= currentTerm[s]
                                 /\ Done(s, k) # {} \/ \A i \in Live(s) : c.index + 1 < i
      BY <1>4, <1>7 DEF HoldsOld, DbKept
    <2>2. c.index \in Nat /\ c.term \in Nat /\ Len(log[s]) \in Nat /\ DOMAIN log[s] = 1..Len(log[s])
      BY <1>1, CommitTypes, LogTypes
    <2>3. role[s] = "Leader" => c.index + 1 \in 1..Len(log[s])
      BY <1>1, <1>2, <2>1, <2>2, CompletenessFollows DEF LeaderCompleteness
    <2>4. Done(s, k) # {} \/ \A i \in Live(s)' : c.index + 1 < i
      BY <2>1, <2>2, <2>3 DEF DbKept
    <2> QED BY <1>1, <1>2, <2>1, <2>2, <2>4
  <1>8. HoldsOld(s, k)'
    BY <1>3, <1>7 DEF HoldsOld, Writes
  <1> QED BY <1>6, <1>8

\* A replica that is started again has executed nothing and no handles.
LEMMA WrittenLost ==
    ASSUME Scheduled, Running, [Next]_vars, NEW s \in Server, NEW told, Lost(s, told), Written(s)
    PROVE  Written(s)'
  <1>1. /\ TypeInv /\ ClientTypeOK /\ TypeInv' /\ ReplicationInv /\ committed \subseteq committed'
    BY RunningFacts, CommittedGrows DEF SafetyInv, HistoryInv
  <1>2. currentTerm'[s] >= currentTerm[s] /\ currentTerm[s] \in Nat /\ currentTerm'[s] \in Nat
    BY <1>1, Grow, LogTypes, NewTypes
  <1>3. executed'[s] = 0 /\ handles'[s] = {} /\ db' = db
    BY <1>1, CallTypes DEF Lost
  <1> SUFFICES ASSUME NEW k \in Key PROVE HoldsLast(s, k)' /\ HoldsOld(s, k)'
    BY DEF Written
  <1>4. Done(s, k)' = {} /\ Live(s)' = {}
    BY <1>3 DEF Done, Live
  <1>5. ASSUME db[s][k] # NoValue
        PROVE  \E c \in committed' : Writes(c.entry.op, k) /\ c.term <= currentTerm'[s]
    <2>1. PICK c \in committed : Writes(c.entry.op, k) /\ c.term <= currentTerm[s]
      BY <1>5 DEF Written, HoldsOld
    <2> QED BY <1>1, <1>2, <2>1, CommitTypes
  <1> QED BY <1>3, <1>4, <1>5 DEF HoldsLast, HoldsOld, Writes

\* What a replica has committed was committed in a term that it has reached.
LEMMA OutIsOfTerm ==
    ASSUME SafetyInv, NEW s \in Server, NEW i \in 1..Len(raftOut[s])
    PROVE  \E c \in committed : c.entry.op = raftOut[s][i] /\ c.term <= currentTerm[s]
  <1>1. /\ HandedOver(s) /\ CommitHeld /\ TermsBounded /\ TypeInv
    BY OutIsHandedOver DEF AllHandedOver, SafetyInv, HistoryInv, ReplicationInv, CommitInv
  <1>2. /\ i - 1 \in 0..commitIndex[s] /\ (i - 1) + 1 = i /\ raftOut[s][i] = log[s][i].op
    BY <1>1 DEF HandedOver, Index
  <1>3. PICK c \in committed, j \in Nat : Covers(c, j, i - 1, log[s])
    BY <1>1, <1>2 DEF CommitHeld
  <1>4. c.index = i - 1 /\ Holds(log[s], j, c.term) /\ log[s][c.index + 1] = c.entry
    BY <1>3 DEF Covers, AnchoredAt, Fixed
  <1>5. c.term <= currentTerm[s]
    BY <1>1, <1>4 DEF Holds, TermsBounded
  <1> QED BY <1>2, <1>4, <1>5

\* The executer.
LEMMA WrittenExecute ==
    ASSUME Scheduled, Running, NEW s \in Server, Execute(s), Written(s)
    PROVE  Written(s)'
  <1> DEFINE n  == executed[s]
             op == raftOut[s][n + 1]
  <1>1. SafetyInv /\ TypeInv /\ ClientTypeOK
    BY RunningFacts
  <1>2. /\ n \in Nat /\ n + 1 \in 1..Len(raftOut[s])
        /\ executed'[s] = n + 1
        /\ db' = IF op \in Puts THEN [db EXCEPT ![s] = Put(@, op)] ELSE db
        /\ UNCHANGED <<raftOut, handles, committed, currentTerm>>
    <2>1. n \in Nat /\ Len(raftOut[s]) \in Nat /\ DOMAIN executed = Server
      BY <1>1, CallTypes
    <2>2. UNCHANGED <<raftOut, handles, committed, currentTerm>>
      BY DEF Execute, vars, applyVars, historyVars, persistentVars
    <2>3. /\ n + 1 <= Len(raftOut[s])
          /\ executed' = [executed EXCEPT ![s] = n + 1]
          /\ db' = IF op \in Puts THEN [db EXCEPT ![s] = Put(@, op)] ELSE db
      BY DEF Execute
    <2> HIDE DEF op
    <2> QED BY <2>1, <2>2, <2>3
  <1>3. db[s] \in [Key -> Value \cup {NoValue}] /\ raftOut[s] \in Seq(Op)
    BY <1>1, CallTypes DEF ClientTypeOK
  <1>4. op \in Op
    BY <1>2, <1>3
  <1>5. Live(s)' \subseteq Live(s)
    BY <1>1, <1>2, CallTypes DEF Live
  <1> SUFFICES ASSUME NEW k \in Key PROVE HoldsLast(s, k)' /\ HoldsOld(s, k)'
    BY DEF Written
  <1>6. HoldsLast(s, k) /\ HoldsOld(s, k)
    BY DEF Written
  <1>7. Done(s, k) \subseteq 1..n
    BY DEF Done
  <1> HIDE DEF n
  <1>8. CASE Writes(op, k)
    <2>1. db'[s][k] = Args[op].val
      BY <1>1, <1>2, <1>3, <1>8, CallTypes DEF Writes, Put
    <2>2. n + 1 \in Done(s, k)' /\ \A i \in Done(s, k)' : i <= n + 1
      BY <1>2, <1>8 DEF Done, Writes
    <2>3. HoldsLast(s, k)'
      BY <1>2, <2>1, <2>2 DEF HoldsLast
    <2>4. PICK c \in committed : c.entry.op = op /\ c.term <= currentTerm[s]
      BY <1>1, <1>2, OutIsOfTerm
    <2>5. HoldsOld(s, k)'
      BY <1>2, <1>8, <2>2, <2>4 DEF HoldsOld, Writes
    <2> QED BY <2>3, <2>5
  <1>9. CASE ~Writes(op, k)
    <2>1. db'[s][k] = db[s][k]
      BY <1>1, <1>2, <1>3, <1>9, CallTypes DEF Writes, Put
    <2>2. Done(s, k)' = Done(s, k)
      <3>1. \A i : i \in 1..(n + 1) <=> i \in 1..n \/ i = n + 1
        BY <1>2
      <3> QED BY <1>2, <1>9, <3>1 DEF Done, Writes, n
    <2>3. HoldsLast(s, k)'
      BY <1>2, <1>6, <2>1, <2>2 DEF HoldsLast
    <2>4. HoldsOld(s, k)'
      BY <1>2, <1>5, <1>6, <2>1, <2>2 DEF HoldsOld, Writes
    <2> QED BY <2>3, <2>4
  <1> QED BY <1>8, <1>9

DbFollows == \A s \in Server : Written(s)

LEMMA NextDbFollows ==
    ASSUME Scheduled, Running, DbFollows, [ReplicaNext]_replicaVars
    PROVE  DbFollows'
  <1>1. /\ [Next]_vars /\ SafetyInv /\ SafetyInv' /\ TypeInv /\ ClientTypeOK /\ TypeInv' /\ ClientTypeOK'
        /\ RoundsAreLeaders /\ \A s \in Server : CallsOf(s)
    BY RunningFacts, ReplicaStepIsRaftStep
  <1>2. \A s \in Server : DbKept(s) => Written(s)'
    BY <1>1, StillWritten DEF DbFollows
  <1>3. ASSUME crashes' = crashes, NEW s \in Server
        PROVE  \A i \in 1..executed[s] : raftOut'[s][i] = raftOut[s][i]
    <2>1. executed[s] <= Len(raftOut[s]) /\ executed[s] \in Nat /\ Len(raftOut[s]) \in Nat
      BY <1>1, CallTypes DEF CallsOf
    <2>2. \A i \in 1..Len(raftOut[s]) : raftOut'[s][i] = raftOut[s][i]
      BY <1>1, <1>3, OutGrows
    <2> QED BY <2>1, <2>2
  <1>4. ASSUME crashes' = crashes, UNCHANGED <<db, executed>>, \A s \in Server : handles'[s] \subseteq handles[s]
        PROVE  DbFollows'
    <2>1. \A s \in Server : Live(s)' \subseteq Live(s)
      BY <1>4 DEF Live
    <2> QED BY <1>2, <1>3, <1>4, <2>1 DEF DbKept, DbFollows
  <1>5. ASSUME NEW s \in Server, Round(s) PROVE DbFollows'
    <2>1. /\ inRound[s] /\ UNCHANGED <<db, executed, crashes>>
          /\ handles' = [handles EXCEPT ![s] = @ \cup (Len(log[s]) + 1)..(Len(log[s]) + Len(raftIn[s]))]
      BY <1>5 DEF Round, RunLeaderOneIter, envVars
    <2>2. \A p \in Server \ {s} : Live(p)' = Live(p)
      BY <1>1, <2>1, CallTypes DEF Live
    <2>3. \A i \in Live(s)' : i \in Live(s) \/ (role[s] = "Leader" /\ i > Len(log[s]) /\ i \in Nat)
      <3>1. role[s] = "Leader" /\ Len(log[s]) \in Nat /\ Len(raftIn[s]) \in Nat
        BY <1>1, <2>1, CallTypes DEF RoundsAreLeaders
      <3>2. handles'[s] = handles[s] \cup (Len(log[s]) + 1)..(Len(log[s]) + Len(raftIn[s]))
        BY <1>1, <2>1, CallTypes
      <3>3. ASSUME NEW i \in Live(s)'
            PROVE  i \in Live(s) \/ (role[s] = "Leader" /\ i > Len(log[s]) /\ i \in Nat)
        <4>1. i \in handles'[s] /\ i > executed[s]
          BY <2>1 DEF Live
        <4>2. CASE i \in handles[s]
          BY <4>1, <4>2 DEF Live
        <4>3. CASE i \in (Len(log[s]) + 1)..(Len(log[s]) + Len(raftIn[s]))
          BY <3>1, <4>3
        <4> QED BY <3>2, <4>1, <4>2, <4>3
      <3> QED BY <3>3
    <2>4. \A p \in Server : DbKept(p)
      BY <1>3, <2>1, <2>2, <2>3 DEF DbKept
    <2> QED BY <1>2, <2>4 DEF DbFollows
  <1>6. ASSUME NEW s \in Server, Execute(s) PROVE DbFollows'
    <2>1. \A p \in Server \ {s} : DbKept(p)
      <3>1. /\ executed' = [executed EXCEPT ![s] = executed[s] + 1]
            /\ db' = [db EXCEPT ![s] = Put(@, raftOut[s][executed[s] + 1])] \/ db' = db
            /\ UNCHANGED <<handles, raftOut>>
        BY <1>6 DEF Execute, vars, applyVars
      <3> QED BY <1>1, <3>1, CallTypes DEF DbKept, Live
    <2> QED BY <1>2, <1>6, <2>1, WrittenExecute DEF DbFollows
  <1>7. ASSUME NEW s \in Server, NEW told, Lost(s, told), Restart(s) PROVE DbFollows'
    <2>1. \A p \in Server \ {s} : DbKept(p)
      BY <1>1, <1>7, CallTypes DEF DbKept, Live, Lost, Restart
    <2> QED BY <1>1, <1>2, <1>7, <2>1, WrittenLost DEF DbFollows
  <1>8. CASE CrashStep
    <2>1. ASSUME NEW r \in Threads("request", "AppendEntries") PROVE r.to \in Server
      BY <1>1, ThreadKinds DEF Threads, TypeInv, TypeOK
    <2> QED BY <1>7, <1>8, <2>1
            DEF CrashStep, Crash, CrashInPersist, CrashInRound, CrashInAppendEntries
  <1>9. CASE RaftStep
    <2>1. crashes' = crashes
      BY <1>9 DEF RaftStep, SendRequestVote, SendAppendEntries, StartElection, RaftImplLeader,
                  RequestVote, RequestVoteReply, LoseRPC, envVars
    <2> QED BY <1>4, <1>9, <2>1 DEF RaftStep, clientVars
  <1>10. ASSUME NEW s \in Server, Drop(s) \/ \E op \in Op : Call(s, op) PROVE DbFollows'
    BY <1>4, <1>10 DEF Drop, Call, RaftImplOther, Submit, envVars
  <1>11. ASSUME NEW r \in Threads("request", "AppendEntries"), Replicate(r) PROVE DbFollows'
    <2>1. crashes' = crashes /\ UNCHANGED <<db, executed>>
      BY <1>11 DEF Replicate, AppendEntries, envVars
    <2>2. handles' = [handles EXCEPT ![r.to] = IF Cuts(r) THEN @ \ CutOff(r) ELSE @]
      BY <1>11 DEF Replicate
    <2>3. \A s \in Server : handles'[s] \subseteq handles[s]
      BY <1>1, <2>2, CallTypes
    <2> QED BY <1>4, <2>1, <2>3
  <1>11a. ASSUME NEW r, Commit(r) PROVE DbFollows'
    BY <1>4, <1>11a DEF Commit, AppendEntriesReply, envVars
  <1>12. CASE UNCHANGED replicaVars
    BY <1>4, <1>12 DEF replicaVars, clientVars, vars, envVars
  <1> QED BY <1>5, <1>6, <1>8, <1>9, <1>10, <1>11, <1>11a, <1>12 DEF ReplicaNext

\* What a get that is at place i of the log returns.
PutsBefore(i, k) == {c \in committed : c.index < i /\ Writes(c.entry.op, k)}
ReadAt(i, k, v) ==
    \/ PutsBefore(i, k) = {} /\ v = NoValue
    \/ \E c \in PutsBefore(i, k) : /\ \A e \in PutsBefore(i, k) : e.index <= c.index
                                   /\ v = Args[c.entry.op].val
ReadsAt == \A g \in Gets : Executed(g) => \E i \in PlacesOf(g) : ReadAt(i, Args[g].key, answer[g].ret)

\* It is settled when the get is committed.
LEMMA ReadStays ==
    ASSUME Scheduled, SafetyInv, SafetyInv', CommittedDown, [Next]_vars, NEW g, NEW i \in PlacesOf(g),
           NEW k, NEW v, ReadAt(i, k, v)
    PROVE  i \in PlacesOf(g)' /\ ReadAt(i, k, v)'
  <1>1. TypeInv /\ committed \subseteq committed'
    BY CommittedGrows DEF SafetyInv, HistoryInv, ReplicationInv
  <1>2. PICK d \in committed : d.index = i
    BY DEF PlacesOf
  <1>3. i \in Nat /\ \A c \in committed : c.index \in Nat
    BY <1>1, <1>2, CommitTypes
  <1>4. PutsBefore(i, k) \subseteq PutsBefore(i, k)'
    BY <1>1 DEF PutsBefore, Writes
  <1>5. ASSUME NEW c \in PutsBefore(i, k)'
        PROVE  \E e \in PutsBefore(i, k) : e.index = c.index
    <2>1. c \in committed' /\ c.index < i /\ Writes(c.entry.op, k)
      BY DEF PutsBefore, Writes
    <2>2. PICK e \in committed : e.index = c.index /\ e.entry = c.entry
      BY <1>2, <1>3, <2>1, NewCommits
    <2> QED BY <2>1, <2>2 DEF PutsBefore
  <1>6. ReadAt(i, k, v)'
    <2>1. CASE PutsBefore(i, k) = {} /\ v = NoValue
      BY <1>5, <2>1 DEF ReadAt
    <2>2. ASSUME NEW c \in PutsBefore(i, k), \A e \in PutsBefore(i, k) : e.index <= c.index,
                 v = Args[c.entry.op].val
          PROVE  ReadAt(i, k, v)'
      <3>1. c \in PutsBefore(i, k)' /\ \A e \in PutsBefore(i, k)' : e.index <= c.index
        BY <1>4, <1>5, <2>2
      <3> QED BY <2>2, <3>1 DEF ReadAt
    <2> QED BY <2>1, <2>2 DEF ReadAt
  <1> QED BY <1>1, <1>6 DEF PlacesOf

\* The executer reads what the puts before the get have left.
LEMMA ExecutedRead ==
    ASSUME Running, NEW s \in Server, NEW g \in Gets, Executes(s, g), Written(s)
    PROVE  \E i \in PlacesOf(g) : ReadAt(i, Args[g].key, answer'[g].ret)
  <1> DEFINE n == executed[s]
             k == Args[g].key
             v == db[s][k]
  <1>1. SafetyInv /\ TypeInv /\ ClientTypeOK /\ StateMachineSafety
    BY RunningFacts, AgreementFollows
  <1>2. /\ n \in Nat /\ Len(raftOut[s]) \in Nat /\ n + 1 \in 1..Len(raftOut[s]) /\ n + 1 \in Live(s)
        /\ g = raftOut[s][n + 1]
    <2>1. executed[s] \in Nat /\ Len(raftOut[s]) \in Nat /\ handles[s] \subseteq Nat
      BY <1>1, CallTypes
    <2>2. /\ executed[s] + 1 <= Len(raftOut[s]) /\ executed[s] + 1 \in handles[s]
          /\ g = raftOut[s][executed[s] + 1]
      BY RunningFacts DEF Executes, Execute, CopiesOf
    <2> QED BY <2>1, <2>2 DEF Live
  <1>3. answer'[g].ret = v
    BY DEF Executes, Returns, GetReturns, Gets, Puts
  <1>4. k \in Key
    BY ArgsType DEF Gets
  <1>5. \A j \in 1..n : \E c \in committed : c.index = j - 1 /\ c.entry.op = raftOut[s][j]
    <2>1. \A j \in 1..n : j \in 1..Len(raftOut[s])
      BY <1>2
    <2> QED BY <1>1, <2>1, OutIsCommitted
  <1>6. n \in PlacesOf(g)
    <2>1. PICK c \in committed : c.index = (n + 1) - 1 /\ c.entry.op = raftOut[s][n + 1]
      BY <1>1, <1>2, OutIsCommitted
    <2>2. c.index = n
      BY <1>2, <2>1
    <2> QED BY <1>2, <2>1, <2>2 DEF PlacesOf
  <1>7. HoldsLast(s, k) /\ HoldsOld(s, k)
    BY <1>4 DEF Written
  <1>8. \A c \in committed : c.index \in Nat
    BY <1>1, CommitTypes
  <1>9. ASSUME NEW e \in PutsBefore(n, k) PROVE e.index + 1 \in Done(s, k)
    <2>1. e \in committed /\ e.index < n /\ Writes(e.entry.op, k)
      BY DEF PutsBefore
    <2>2. e.index + 1 \in 1..n /\ (e.index + 1) - 1 = e.index
      BY <1>2, <1>8, <2>1
    <2>3. PICK c \in committed : c.index = (e.index + 1) - 1 /\ c.entry.op = raftOut[s][e.index + 1]
      BY <1>5, <2>2
    <2>4. c.entry = e.entry
      BY <1>1, <2>1, <2>2, <2>3 DEF StateMachineSafety
    <2> QED BY <2>1, <2>2, <2>3, <2>4 DEF Done
  <1> HIDE DEF n, v
  <1>10. CASE Done(s, k) = {}
    <2>1. PutsBefore(n, k) = {}
      BY <1>9, <1>10
    <2>2. ASSUME v # NoValue PROVE FALSE
      <3>1. PICK c \in committed : Writes(c.entry.op, k) /\ \A i \in Live(s) : c.index + 1 < i
        BY <1>7, <1>10, <2>2 DEF HoldsOld, v
      <3>2. c.index < n
        BY <1>2, <1>8, <3>1
      <3> QED BY <2>1, <3>1, <3>2 DEF PutsBefore
    <2> QED BY <1>3, <1>6, <2>1, <2>2 DEF ReadAt
  <1>11. CASE Done(s, k) # {}
    <2>1. PICK m \in Done(s, k) : (\A i \in Done(s, k) : i <= m) /\ v = Args[raftOut[s][m]].val
      BY <1>7, <1>11 DEF HoldsLast, v
    <2>2. m \in 1..n /\ Writes(raftOut[s][m], k)
      BY DEF Done, n
    <2>3. PICK c \in committed : c.index = m - 1 /\ c.entry.op = raftOut[s][m]
      BY <1>5, <2>2
    <2>4. c \in PutsBefore(n, k)
      BY <1>2, <2>2, <2>3 DEF PutsBefore
    <2>5. \A e \in PutsBefore(n, k) : e.index <= c.index
      <3>1. \A e \in PutsBefore(n, k) : e.index \in Nat /\ e.index + 1 <= m
        BY <1>8, <1>9, <2>1 DEF PutsBefore
      <3> QED BY <1>2, <2>2, <2>3, <3>1
    <2> QED BY <1>3, <1>6, <2>1, <2>3, <2>4, <2>5 DEF ReadAt
  <1> QED BY <1>10, <1>11

LEMMA NextReadsAt ==
    ASSUME Scheduled, Running, CommittedDown, DbFollows, ReadsAt, [ReplicaNext]_replicaVars
    PROVE  ReadsAt'
  <1>1. [Next]_vars /\ SafetyInv /\ SafetyInv'
    BY RunningFacts, ReplicaStepIsRaftStep
  <1>2. ASSUME NEW g \in Gets, Executed(g)'
        PROVE  \E i \in PlacesOf(g)' : ReadAt(i, Args[g].key, answer[g].ret)'
    <2>1. CASE Executed(g) /\ answer'[g] = answer[g]
      <3>1. PICK v : v = answer[g].ret
        OBVIOUS
      <3>2. PICK i \in PlacesOf(g) : ReadAt(i, Args[g].key, v)
        BY <2>1, <3>1 DEF ReadsAt
      <3>3. i \in PlacesOf(g)' /\ ReadAt(i, Args[g].key, v)'
        BY <1>1, <3>2, ReadStays
      <3>4. answer'[g].ret = v
        BY <2>1, <3>1
      <3> QED BY <3>3, <3>4 DEF ReadAt, PutsBefore, Writes
    <2>2. ASSUME NEW s \in Server, Executes(s, g)
          PROVE  \E i \in PlacesOf(g)' : ReadAt(i, Args[g].key, answer[g].ret)'
      <3>1. committed' = committed
        BY <2>2 DEF Executes, Execute, vars, historyVars
      <3>2. PICK i \in PlacesOf(g) : ReadAt(i, Args[g].key, answer'[g].ret)
        BY <2>2, ExecutedRead DEF DbFollows
      <3> QED BY <3>1, <3>2 DEF PlacesOf, ReadAt, PutsBefore, Writes
    <2> QED BY <1>2, <2>1, <2>2, Answers DEF Gets
  <1> QED BY <1>2 DEF ReadsAt

ReadInv == DbFollows /\ ReadsAt

LEMMA ReadsFollow == ASSUME Scheduled, Recovered PROVE ReplicaSpec => []ReadInv
  <1>1. ReplicaInit => ReadInv
    <2> SUFFICES ASSUME ReplicaInit PROVE ReadInv
      OBVIOUS
    <2>1. ASSUME NEW s \in Server, NEW k \in Key PROVE HoldsLast(s, k) /\ HoldsOld(s, k)
      <3>1. executed[s] = 0 /\ db[s][k] = NoValue
        BY DEF ReplicaInit
      <3>2. Done(s, k) = {}
        BY <3>1 DEF Done
      <3> QED BY <3>1, <3>2 DEF HoldsLast, HoldsOld
    <2>2. DbFollows
      BY <2>1 DEF DbFollows, Written
    <2>3. ReadsAt
      BY DEF ReplicaInit, ReadsAt, Executed, NoAnswer, Gets
    <2> QED BY <2>2, <2>3 DEF ReadInv
  <1>2. Running /\ OrderInv /\ ReadInv /\ [ReplicaNext]_replicaVars => ReadInv'
    BY NextDbFollows, NextReadsAt DEF OrderInv, ReadInv
  <1>3. SafetyInv /\ ClientTypeOK /\ (SafetyInv /\ ClientTypeOK)' /\ CallInv /\ CopyInv => Running
    BY DEF Running
  <1> QED BY <1>1, <1>2, <1>3, CallsWait, CallsAreOrdered, ReplicaSafety, PTL DEF ReplicaSpec

\* A get that was executed returns the value of the last put to its key before it
\* in the log, or that there is none: also from a replica that was restarted, and
\* executes its log again on the database that it left behind.
THEOREM ReadsAreOfTheLog == ASSUME Scheduled, Recovered PROVE ReplicaSpec => []ReadsFollowTheLog
  <1>1. ReadsAt => ReadsFollowTheLog
    <2> SUFFICES ASSUME ReadsAt, NEW g \in Gets, Executed(g)
                 PROVE  \E i \in PlacesOf(g) :
                    LET earlier == {c \in committed : /\ c.index < i
                                                      /\ c.entry.op \in Puts
                                                      /\ Args[c.entry.op].key = Args[g].key}
                    IN  \/ earlier = {} /\ answer[g].ret = NoValue
                        \/ \E c \in earlier : /\ \A e \in earlier : e.index <= c.index
                                              /\ answer[g].ret = Args[c.entry.op].val
      BY DEF ReadsFollowTheLog
    <2>1. PICK i \in PlacesOf(g) : ReadAt(i, Args[g].key, answer[g].ret)
      BY DEF ReadsAt
    <2>2. PutsBefore(i, Args[g].key) = {c \in committed : /\ c.index < i
                                                         /\ c.entry.op \in Puts
                                                         /\ Args[c.entry.op].key = Args[g].key}
      BY DEF PutsBefore, Writes
    <2> QED BY <2>1, <2>2 DEF ReadAt
  <1> QED BY <1>1, ReadsFollow, PTL DEF ReadInv
=============================================================================
