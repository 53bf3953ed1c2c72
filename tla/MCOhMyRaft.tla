---------------------------- MODULE MCOhMyRaft ----------------------------
(***************************************************************************)
(* Instances of OhMyRaft for TLC.                                          *)
(***************************************************************************)
EXTENDS OhMyRaft, TLC

\* A cluster started without --bootstrap.
FreshTerm == [s \in Server |-> 0]
FreshLog  == [s \in Server |-> <<>>]

CONSTANTS s1, s2, s3, a, b, c, d

\* Every process of a cluster was killed and is started with --bootstrap.
\* Entry a was appended in term 1 by s1 and reached nobody else, then b in term
\* 2 by s3: whoever is elected next finds entries of earlier terms.
RestartedTerm == [s \in Server |-> 2]
RestartedLog  == (s1 :> << [term |-> 1, op |-> a] >>)
              @@ (s2 :> << >>)
              @@ (s3 :> << [term |-> 2, op |-> b] >>)

\* Logs as those of tests/correctness_1: s1 is ahead, s2 has an entry of an old
\* term that nobody else has, s3 lags behind.
DivergedTerm == (s1 :> 2) @@ (s2 :> 1) @@ (s3 :> 1)
DivergedLog  == (s1 :> << [term |-> 1, op |-> a], [term |-> 2, op |-> b] >>)
             @@ (s2 :> << [term |-> 1, op |-> a], [term |-> 1, op |-> c] >>)
             @@ (s3 :> << >>)

\* Nothing tells replicas apart but whether they stand for election, and
\* nothing operations.
Symmetry == Permutations(MayStand) \cup Permutations(Server \ MayStand)
              \cup Permutations(Op)

\* The history of elections: no action depends on it, nor a property of the runs
\* that have this view, so states that differ in it only are one.
WithoutElections ==
    <<persistentVars, role, applyVars, votesReceived, leaderVars, inputVars, rpcs, envVars,
      voted, committed>>

\* Nor does anything depend, as long as no thread is preempted, on VotesReceived
\* of a replica that is not a candidate and on NextIndex and MatchIndex of one
\* that is not a leader: they are set before they are read again.
Ballots == [s \in {x \in Server : role[x] = "Candidate"} |-> votesReceived[s]]
Indices == [s \in {x \in Server : role[x] = "Leader"} |-> <<nextIndex[s], matchIndex[s]>>]
LiveState ==
    <<persistentVars, role, applyVars, Ballots, Indices, inputVars, rpcs, envVars, voted, committed>>
=============================================================================
