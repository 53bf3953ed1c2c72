--------------------------- MODULE MCOhMyReplica ---------------------------
(***************************************************************************)
(* Instances of OhMyReplica for TLC.                                       *)
(***************************************************************************)
EXTENDS OhMyReplica, TLC

CONSTANTS s1, s2, s3, k, v1, v2, put1, put2, get

\* A cluster started without --bootstrap.
FreshTerm == [s \in Server |-> 0]
FreshLog  == [s \in Server |-> <<>>]

\* Two clients write a key, a third one reads it.
Calls == [op \in Op |-> CASE op = put1 -> [kind |-> "PUT", key |-> k, val |-> v1]
                          [] op = put2 -> [kind |-> "PUT", key |-> k, val |-> v2]
                          [] op = get  -> [kind |-> "GET", key |-> k]]

\* Nothing tells replicas apart but whether they stand for election.
Symmetry == Permutations(MayStand) \cup Permutations(Server \ MayStand)

\* The history of elections is there for the proofs about OhMyRaft: no action
\* and no property that a run checks depends on it.
WithoutElections ==
    <<persistentVars, role, applyVars, votesReceived, leaderVars, inputVars, rpcs, envVars,
      voted, committed, clientVars>>
=============================================================================
