--------------------------- MODULE FailoverProofs ---------------------------
(***************************************************************************)
(* Neither loop of Failover leaves a server out, and both find the leader  *)
(* in a bounded number of tries when the cluster stays as it is, whatever  *)
(* the ids of the configuration are and wherever stale pointers lead.      *)
(*                                                                         *)
(* What is connected to by counting is an interval from 0, and all of it   *)
(* is in the map (Counted).  A pass is over when the count reaches the     *)
(* size of the map: then the map is that interval and nothing else, and it *)
(* holds every server.                                                     *)
(***************************************************************************)
EXTENDS Failover, FiniteSetTheorems, TLAPS

\* The tool has connected to server_id as well, the client only to the servers
\* before backupID.
Counted ==
    /\ program = "ReplicatedDB" => connected = 0..(next - 1)
    /\ program = "Admin" /\ state \in {"trying", "waiting", "failed"} => connected = 0..next
    /\ connected \subseteq ids

IInv == TypeOK /\ Counted /\ EveryServerTried

\* A set of ids that holds 0..n has more than n elements, and none but those of
\* 0..n if it has no more than n + 1.
LEMMA Interval ==
    ASSUME NEW S, IsFiniteSet(S), NEW n \in Nat, 0..n \subseteq S
    PROVE  /\ Cardinality(S) \in Nat
           /\ n < Cardinality(S)
           /\ n + 1 >= Cardinality(S) => S = 0..n
<1>1. Cardinality(0..n) = n + 1
  BY FS_Interval
<1>2. Cardinality(S) \in Nat
  BY FS_CardinalityType
<1>3. /\ Cardinality(0..n) <= Cardinality(S)
      /\ Cardinality(S) = Cardinality(0..n) => S = 0..n
  BY FS_Subset
<1>. QED
  BY <1>1, <1>2, <1>3

\* The configuration is a finite set of numbers.
LEMMA ServersFinite ==
    ASSUME NEW c \in Config
    PROVE  c \subseteq Nat /\ IsFiniteSet(c)
BY FailoverAssumption

\* The initial states satisfy the invariant.
LEMMA InitIInv == Init => IInv
<1>. SUFFICES ASSUME Init PROVE IInv
  OBVIOUS
<1>1. servers \in Config /\ servers \subseteq Nat /\ IsFiniteSet(servers)
  BY ServersFinite DEF Init
<1>2. IsFiniteSet(ids) /\ servers \subseteq ids /\ ids \subseteq Nat
  BY <1>1, FS_AddElement DEF Init
<1>3. Cardinality(ids) \in Nat
  BY <1>2, FS_CardinalityType
<1>4. ids # {}
  BY <1>1, <1>2, FailoverAssumption
<1>5. Cardinality(ids) # 0
  BY <1>2, <1>4, FS_EmptySet
<1>6. target \in servers \cup {Nowhere}
  BY DEF Init, Address
<1>7. TypeOK
  <2>1. disturbed \in BOOLEAN /\ found \in BOOLEAN
    BY DEF Init
  <2>2. /\ up \subseteq servers /\ leaders \subseteq up /\ known \in [servers -> servers \cup {0}]
        /\ program \in Programs /\ state = "idle" /\ next = 0 /\ iters = 0
        /\ connected = {} /\ missed = {} /\ astray = 0 /\ failures = 0 /\ visited = {}
    BY DEF Init
  <2>. QED
    BY <1>1, <1>2, <1>3, <1>5, <1>6, <2>1, <2>2, FailoverAssumption DEF TypeOK, States, Ended
<1>8. Counted
  BY DEF Init, Counted
<1>. QED
  BY <1>7, <1>8 DEF IInv, EveryServerTried, Init

\* What a step of either loop does to the map and the count: an id is looked up,
\* the one that the interval of ids connected to needs next.
LEMMA LookUp ==
    ASSUME TypeOK, NEW n \in Nat, 0..(n - 1) \subseteq ids
    PROVE  /\ IsFiniteSet(ids \cup {n})
           /\ ids \cup {n} \subseteq Nat
           /\ 0..n \subseteq ids \cup {n}
           /\ Cardinality(ids \cup {n}) \in Nat
           /\ n < Cardinality(ids \cup {n})
           /\ n + 1 >= Cardinality(ids \cup {n}) => ids \cup {n} = 0..n
<1>1. IsFiniteSet(ids \cup {n}) /\ ids \cup {n} \subseteq Nat
  BY FS_AddElement DEF TypeOK
<1>2. 0..n \subseteq ids \cup {n}
  OBVIOUS
<1>3. /\ Cardinality(ids \cup {n}) \in Nat
      /\ n < Cardinality(ids \cup {n})
      /\ n + 1 >= Cardinality(ids \cup {n}) => ids \cup {n} = 0..n
  <2>. DEFINE S == ids \cup {n}
  <2>1. IsFiniteSet(S) /\ 0..n \subseteq S
    BY <1>1, <1>2
  <2>. HIDE DEF S
  <2>2. /\ Cardinality(S) \in Nat
        /\ n < Cardinality(S)
        /\ n + 1 >= Cardinality(S) => S = 0..n
    BY <2>1, Interval
  <2>. QED
    BY <2>2 DEF S
<1>. QED
  BY <1>1, <1>2, <1>3

\* Steps of the cluster do not touch the count.
LEMMA ClusterStep == IInv /\ ClusterNext => IInv'
<1>. SUFFICES ASSUME IInv, ClusterNext PROVE IInv'
  OBVIOUS
<1>. USE DEF IInv, TypeOK, Counted, EveryServerTried
<1>1. PICK s \in servers :
         \/ Die(s) \/ Start(s) \/ BecomeLeader(s) \/ BecomeFollower(s)
         \/ \E l \in servers : HearFrom(s, l)
  BY DEF ClusterNext
<1>2. /\ astray' = 0 /\ failures' = 0 /\ visited' = {} /\ disturbed' = TRUE /\ found' = found
      /\ connected' = connected /\ missed' = missed
  BY DEF ClusterNext, CountAnew, counted
<1>3. CASE Die(s)
  BY <1>2, <1>3 DEF Die, States, Ended
<1>4. CASE Start(s)
  BY <1>2, <1>4 DEF Start, loopVars
<1>5. CASE BecomeLeader(s)
  BY <1>2, <1>5 DEF BecomeLeader, loopVars
<1>6. CASE BecomeFollower(s)
  BY <1>2, <1>6 DEF BecomeFollower, loopVars
<1>7. CASE \E l \in servers : HearFrom(s, l)
  BY <1>2, <1>7 DEF HearFrom, loopVars
<1>. QED
  BY <1>1, <1>3, <1>4, <1>5, <1>6, <1>7

\* The steps that both loops take leave the count alone.
LEMMA SharedStep ==
    IInv /\ (Redirect \/ Accept \/ Answer \/ Exceed) => IInv'
<1>. SUFFICES ASSUME IInv, Redirect \/ Accept \/ Answer \/ Exceed PROVE IInv'
  OBVIOUS
<1>. USE DEF IInv, TypeOK, Counted, EveryServerTried, States, Ended, clusterVars, history, counted,
             tries, CountAnew
<1>1. CASE Redirect
  <2>1. target' \in servers \cup {Nowhere}
    BY <1>1 DEF Redirect, Address
  <2>2. iters' \in 0..MaxTries
    BY <1>1, FailoverAssumption DEF Redirect, MaySend, Left
  <2>. QED
    BY <1>1, <2>1, <2>2 DEF Redirect, MaySend
<1>2. CASE Accept
  <2>1. iters' \in 0..MaxTries
    BY <1>2, FailoverAssumption DEF Accept, MaySend, Left
  <2>. QED
    BY <1>2, <2>1 DEF Accept, MaySend
<1>3. CASE Answer
  BY <1>3 DEF Answer
<1>4. CASE Exceed
  BY <1>4 DEF Exceed
<1>. QED
  BY <1>1, <1>2, <1>3, <1>4

\* What a failed RPC leaves of the tries.
LEMMA FailsTypes ==
    ASSUME TypeOK, Fails
    PROVE  /\ iters' \in 0..MaxTries
           /\ astray' \in Nat /\ failures' \in Nat /\ visited' = {}
           /\ disturbed' \in BOOLEAN /\ found' \in BOOLEAN
<1>1. iters' \in 0..MaxTries
  BY FailoverAssumption DEF TypeOK, Fails, MaySend, Left
<1>2. astray' \in Nat /\ failures' \in Nat /\ visited' = {}
  <2>1. CASE target \in up
    BY <2>1 DEF Fails, CountAnew
  <2>2. CASE target \notin up
    <3>1. astray' = astray + 1 /\ failures' = failures + 1 /\ visited' = {}
      BY <2>2 DEF Fails
    <3>. QED
      BY <3>1 DEF TypeOK
  <2>. QED
    BY <2>1, <2>2
<1>3. disturbed' \in BOOLEAN /\ found' \in BOOLEAN
  BY DEF TypeOK, Fails
<1>. QED
  BY <1>1, <1>2, <1>3

\* The client's loop.
LEMMA ClientStep == IInv /\ ClientNext => IInv'
<1>. SUFFICES ASSUME IInv, ClientNext PROVE IInv'
  OBVIOUS
<1>. USE DEF IInv, TypeOK, Counted, EveryServerTried, States, Ended, clusterVars, Programs, CountAnew
<1>0. program = "ReplicatedDB" /\ Cardinality(ids) \in Nat /\ 0 < Cardinality(ids)
  BY FS_CardinalityType DEF ClientNext
<1>1. CASE CallDB
  <2>1. disturbed' \in BOOLEAN /\ found' \in BOOLEAN
    BY <1>1 DEF CallDB
  <2>2. /\ UNCHANGED <<servers, up, leaders, known, program, target, ids, missed>>
        /\ state' = "trying" /\ next' = 0 /\ iters' = MaxTries /\ connected' = {}
        /\ astray' = 0 /\ failures' = 0 /\ visited' = {}
    BY <1>1 DEF CallDB
  <2>. QED
    BY <1>0, <2>1, <2>2, FailoverAssumption
<1>2. CASE NextBackup
  <2>. DEFINE S == ids \cup {next}
  <2>1. next \in Nat /\ connected = 0..(next - 1)
    BY <1>0
  <2>2. /\ IsFiniteSet(S) /\ S \subseteq Nat /\ 0..next \subseteq S
        /\ Cardinality(S) \in Nat /\ next < Cardinality(S)
        /\ next + 1 >= Cardinality(S) => S = 0..next
    BY <2>1, LookUp
  <2>3. connected \cup {next} = 0..next
    BY <2>1
  <2>4. ids' = S /\ state' = "trying" /\ program' = program /\ servers' = servers
    BY <1>2 DEF NextBackup
  <2>5. target' \in servers \cup {Nowhere}
    BY <1>2 DEF NextBackup, Address
  <2>6. /\ iters' \in 0..MaxTries /\ astray' \in Nat /\ failures' \in Nat /\ visited' = {}
        /\ disturbed' \in BOOLEAN /\ found' \in BOOLEAN
    BY <1>2, FailsTypes DEF NextBackup
  <2>7. CASE Wraps(next)
    <3>1. S = 0..next
      BY <2>2, <2>7 DEF Wraps
    <3>2. servers \subseteq connected \cup {next}
      BY <2>3, <3>1
    <3>3. missed' = {} /\ next' = 0 /\ connected' = {}
      BY <1>2, <2>7, <3>2 DEF NextBackup
    <3>. QED
      BY <1>0, <1>2, <2>2, <2>4, <2>5, <2>6, <3>3 DEF NextBackup
  <2>8. CASE ~Wraps(next)
    <3>1. next + 1 < Cardinality(S)
      BY <2>1, <2>2, <2>8 DEF Wraps
    <3>2. missed' = {} /\ next' = next + 1 /\ connected' = 0..next
      BY <1>2, <2>3, <2>8 DEF NextBackup
    <3>. QED
      BY <1>0, <1>2, <2>1, <2>2, <2>4, <2>5, <2>6, <3>1, <3>2 DEF NextBackup
  <2>. QED
    BY <2>7, <2>8
<1>. QED
  BY <1>1, <1>2, SharedStep DEF ClientNext

\* The loop of the admin tool.
LEMMA AdminStep == IInv /\ AdminNext => IInv'
<1>. SUFFICES ASSUME IInv, AdminNext PROVE IInv'
  OBVIOUS
<1>. USE DEF IInv, TypeOK, Counted, EveryServerTried, States, Ended, clusterVars, Programs, CountAnew
<1>0. program = "Admin" /\ Cardinality(ids) \in Nat /\ next \in Nat
  BY FS_CardinalityType DEF AdminNext
<1>1. CASE CallAdmin
  <2>. DEFINE S == ids \cup {0}
  <2>1. IsFiniteSet(S) /\ S \subseteq Nat /\ Cardinality(S) \in Nat
    BY LookUp
  <2>2. target' \in servers \cup {Nowhere}
    BY <1>1 DEF CallAdmin, Address
  <2>3. disturbed' \in BOOLEAN /\ found' \in BOOLEAN
    BY <1>1 DEF CallAdmin
  <2>4. /\ UNCHANGED <<servers, up, leaders, known, program, missed>>
        /\ state' = "trying" /\ ids' = S /\ next' = 0 /\ iters' = MaxTries
        /\ connected' = 0..0 /\ 0 \in S
        /\ astray' = 0 /\ failures' = 0 /\ visited' = {}
    BY <1>1 DEF CallAdmin
  <2>. QED
    BY <1>0, <2>1, <2>2, <2>3, <2>4, FailoverAssumption
<1>2. CASE NoPing
  BY <1>0, <1>2 DEF NoPing, history, counted, tries
<1>3. CASE NextServer
  <2>. DEFINE n == next + 1
              S == ids \cup {n}
  <2>1. n \in Nat /\ connected = 0..(n - 1)
    BY <1>0, <1>3 DEF NextServer, Fails, MaySend
  <2>2. /\ IsFiniteSet(S) /\ S \subseteq Nat /\ 0..n \subseteq S
        /\ Cardinality(S) \in Nat /\ n < Cardinality(S)
    BY <2>1, LookUp
  <2>3. connected' = 0..n
    BY <1>3, <2>1 DEF NextServer
  <2>4. target' \in servers \cup {Nowhere}
    BY <1>3 DEF NextServer, Address
  <2>5. /\ iters' \in 0..MaxTries /\ astray' \in Nat /\ failures' \in Nat /\ visited' = {}
        /\ disturbed' \in BOOLEAN /\ found' \in BOOLEAN
    BY <1>3, FailsTypes DEF NextServer
  <2>6. ids' = S /\ next' = n /\ state' = "trying"
    BY <1>3 DEF NextServer
  <2>. QED
    BY <1>0, <1>3, <2>1, <2>2, <2>3, <2>4, <2>5, <2>6 DEF NextServer
<1>4. CASE AllDead
  <2>1. connected = 0..next /\ 0..next \subseteq ids
    BY <1>0, <1>4 DEF AllDead, Fails, MaySend
  <2>2. next < Cardinality(ids) /\ ids = 0..next
    BY <1>0, <1>4, <2>1, Interval DEF AllDead
  <2>3. missed' = {} /\ next' = next + 1 /\ connected' = connected
    BY <1>4, <2>1, <2>2 DEF AllDead
  <2>4. /\ iters' \in 0..MaxTries /\ astray' \in Nat /\ failures' \in Nat /\ visited' = {}
        /\ disturbed' \in BOOLEAN /\ found' \in BOOLEAN
    BY <1>4, FailsTypes DEF AllDead
  <2>. QED
    BY <1>0, <1>4, <2>1, <2>2, <2>3, <2>4 DEF AllDead
<1>5. CASE Retry
  BY <1>0, <1>5 DEF Retry, history, counted, tries
<1>. QED
  BY <1>1, <1>2, <1>3, <1>4, <1>5, SharedStep DEF AdminNext

\* The invariant holds in every state.
THEOREM FailoverInvariant == Spec => []IInv
<1>1. IInv /\ [Next]_vars => IInv'
  <2>1. IInv /\ UNCHANGED vars => IInv'
    BY DEF IInv, TypeOK, Counted, EveryServerTried, vars, clusterVars, loopVars, history, counted,
           tries
  <2>. QED
    BY <2>1, ClusterStep, ClientStep, AdminStep DEF Next
<1>. QED
  BY InitIInv, <1>1, PTL DEF Spec

\* The variables keep their types, and backupID stays inside the map it counts,
\* for any configuration and any number of tries.
THEOREM FailoverTypes == Spec => []TypeOK
BY FailoverInvariant, PTL DEF IInv

\* For any configuration, whatever the cluster does: the client starts again, and
\* the tool reports all servers dead, only after connecting to every server.
THEOREM NoServerLeftOut == Spec => []EveryServerTried
BY FailoverInvariant, PTL DEF IInv

-----------------------------------------------------------------------------
(***************************************************************************)
(* How soon a leader is found.  Let l be a leader.  The client counts on   *)
(* to l, over the largest id and 0 if it is beyond l, and the tool counts  *)
(* up to the largest id at most: so the failed tries and those that may    *)
(* still fail are never more than the ids to count.  In between no server  *)
(* redirects twice, or those that redirected would send clients only to    *)
(* each other.                                                             *)
(***************************************************************************)

\* A set of numbers that is not empty has a smallest one.
LEMMA Smallest ==
    ASSUME NEW T, T \subseteq Nat, T # {}
    PROVE  \E x \in T : \A y \in T : x <= y
<1>. DEFINE R == OpToRel(<, Nat)
<1>1. IsWellFoundedOn(R, Nat)
  BY NatLessThanWellFounded
<1>2. \A x, y \in Nat : y < x => <<y, x>> \in R
  BY DEF OpToRel
<1>. HIDE DEF R
<1>3. PICK x \in T : \A y \in T : ~(<<y, x>> \in R)
  BY <1>1, WFMin
<1>4. x \in Nat /\ \A y \in T : y \in Nat /\ ~(y < x)
  BY <1>2, <1>3
<1>. QED
  BY <1>4

\* A finite set of numbers has a largest one: from some number on none is
\* left, and the first such number is in the set.
LEMMA Largest ==
    ASSUME NEW S, S \subseteq Nat, IsFiniteSet(S), S # {}
    PROVE  \E n \in S : \A m \in S : m <= n
<1>. DEFINE Below(n) == S \cap 0..n
            Above(n) == Cardinality(S) - Cardinality(Below(n))
            Aboves == {Above(n) : n \in Nat}
            Bounds == {n \in Nat : S \subseteq 0..n}
<1>1. ASSUME NEW n \in Nat
      PROVE  IsFiniteSet(Below(n)) /\ Cardinality(Below(n)) \in Nat /\ Above(n) \in Nat
  <2>1. IsFiniteSet(Below(n)) /\ Cardinality(Below(n)) <= Cardinality(S)
    BY FS_Subset
  <2>2. Cardinality(Below(n)) \in Nat /\ Cardinality(S) \in Nat
    BY <2>1, FS_CardinalityType
  <2>. QED
    BY <2>1, <2>2
<1>2. \E n \in Nat : \A k \in Nat : Above(n) <= Above(k)
  <2>1. Aboves \subseteq Nat /\ Aboves # {}
    BY <1>1
  <2>2. PICK x \in Aboves : \A y \in Aboves : x <= y
    <3>. HIDE DEF Aboves
    <3>. QED
      BY <2>1, Smallest
  <2>. QED
    BY <2>2
<1>3. \E n \in Nat : S \subseteq 0..n
  <2>1. PICK n \in Nat : \A k \in Nat : Above(n) <= Above(k)
    BY <1>2
  <2>2. ASSUME NEW m \in S, m \notin 0..n PROVE FALSE
    <3>1. m \in Nat /\ m > n
      BY <2>2
    <3>2. Below(n) \subseteq Below(m) /\ m \in Below(m) /\ m \notin Below(n)
      BY <2>2, <3>1
    <3>3. /\ Cardinality(Below(n)) <= Cardinality(Below(m))
          /\ Cardinality(Below(n)) = Cardinality(Below(m)) => Below(n) = Below(m)
      <4>1. IsFiniteSet(Below(m))
        BY <1>1, <3>1
      <4>. HIDE DEF Below
      <4>. QED
        BY <3>2, <4>1, FS_Subset
    <3>4. Cardinality(Below(n)) < Cardinality(Below(m))
      <4>1. Below(n) # Below(m)
        BY <3>2
      <4>2. Cardinality(Below(n)) \in Nat /\ Cardinality(Below(m)) \in Nat
        BY <1>1, <3>1
      <4>. HIDE DEF Below
      <4>. QED
        BY <3>3, <4>1, <4>2
    <3>5. Cardinality(S) \in Nat /\ Above(n) <= Above(m)
      BY <2>1, <3>1, FS_CardinalityType
    <3>. QED
      BY <1>1, <3>1, <3>4, <3>5
  <2>. QED
    BY <2>2
<1>4. PICK n \in Bounds : \A k \in Bounds : n <= k
  <2>1. Bounds \subseteq Nat /\ Bounds # {}
    BY <1>3
  <2>. HIDE DEF Bounds
  <2>. QED
    BY <2>1, Smallest
<1>5. n \in Nat /\ \A m \in S : m \in Nat /\ m <= n
  BY <1>4
<1>6. n \in S
  <2>1. CASE n = 0
    <3>1. PICK m \in S : m \in Nat /\ m <= 0
      BY <1>5, <2>1
    <3>. QED
      BY <2>1, <3>1
  <2>2. CASE n > 0
    <3>1. n - 1 \in Nat /\ n - 1 \notin Bounds
      BY <1>4, <1>5, <2>2
    <3>2. PICK m \in S : m \notin 0..(n - 1)
      BY <3>1
    <3>. QED
      BY <1>5, <2>2, <3>2
  <2>. QED
    BY <1>5, <2>1, <2>2
<1>. QED
  BY <1>5, <1>6

LEMMA LargestIdIs ==
    ASSUME servers \in Config
    PROVE  /\ LargestId \in servers \cup {0} /\ LargestId \in Nat
           /\ \A m \in servers \cup {0} : m \in 0..LargestId
<1>1. servers \subseteq Nat /\ IsFiniteSet(servers)
  BY ServersFinite
<1>2. \E n \in servers \cup {0} : \A m \in servers \cup {0} : m <= n
  <2>. DEFINE S == servers \cup {0}
  <2>1. S \subseteq Nat /\ IsFiniteSet(S) /\ S # {}
    BY <1>1, FS_AddElement
  <2>. HIDE DEF S
  <2>2. \E n \in S : \A m \in S : m <= n
    BY <2>1, Largest
  <2>. QED
    BY <2>2 DEF S
<1>3. \E n \in servers \cup {0} : \A m \in servers : m <= n
  BY <1>2
<1>4. LargestId \in servers \cup {0} /\ \A m \in servers : m <= LargestId
  BY <1>3 DEF LargestId
<1>. QED
  BY <1>1, <1>4

\* The failed tries that may still come before the loop has counted on to l.
ToCount(l) == IF program = "Admin" THEN LargestId - next
              ELSE IF next <= l THEN l - next ELSE LargestId + 1 - next + l
StillFail(l) == IF target \in leaders THEN 0 ELSE 1 + ToCount(l)

\* No id beyond the largest of the configuration is ever looked up.
IdsBounded == ids \subseteq 0..LargestId

\* A call that a leader took starts to count anew.
Reached == /\ state \in {"idle", "waiting", "failed"} => astray = 0 /\ failures = 0 /\ visited = {}
           /\ state \in {"waiting", "failed"} => found

FailuresBounded ==
    \A l \in leaders :
        /\ failures <= LargestId + 1
        /\ visited # {} => failures <= LargestId
        /\ state = "trying" => failures + StillFail(l) <= LargestId + 1

\* Those that redirected the call since the last failure point to each other or
\* to where the loop is now.
Chain ==
    /\ visited \subseteq up \ leaders
    /\ \A s \in visited : Address(known[s]) \in visited \cup {target}

\* Each failure is followed by at most one redirection by each of them.
Others     == Cardinality(up \ leaders)
AstraySums == LeaderReachable => astray <= failures * (Others + 1) + Cardinality(visited)

\* Of a call that is not disturbed every try so far went astray, and the tool has
\* counted no leader but the one that it is connected to.
TriesOfCall ==
    ~disturbed =>
        /\ state \in {"trying", "exceeded"} /\ ~found => astray = MaxTries - iters
        /\ state = "exceeded" => iters = 0
        /\ program = "Admin" /\ state \in {"trying", "waiting", "failed"}
              => connected \cap leaders \subseteq {target}
        /\ leaders # {} => state # "dead"

FoundInv == IdsBounded /\ Reached /\ FailuresBounded /\ Chain /\ AstraySums /\ TriesOfCall

LEMMA CountBounds ==
    ASSUME TypeOK, Counted, IdsBounded
    PROVE  /\ LargestId \in Nat /\ LargestId \in servers \cup {0}
           /\ Cardinality(ids) \in Nat /\ Cardinality(ids) <= LargestId + 1
           /\ \A l \in servers : l \in 0..LargestId
           /\ program = "ReplicatedDB" \/ state \in {"trying", "waiting", "failed"}
                 => next \in 0..LargestId
<1>1. /\ LargestId \in Nat /\ LargestId \in servers \cup {0}
      /\ \A l \in servers : l \in 0..LargestId
  BY LargestIdIs DEF TypeOK
<1>2. Cardinality(0..LargestId) = LargestId + 1 /\ IsFiniteSet(0..LargestId)
  BY <1>1, FS_Interval
<1>3. Cardinality(ids) \in Nat /\ Cardinality(ids) <= LargestId + 1
  <2>. DEFINE S == 0..LargestId
  <2>1. IsFiniteSet(S) /\ ids \subseteq S /\ Cardinality(S) = LargestId + 1
    BY <1>2 DEF IdsBounded
  <2>. HIDE DEF S
  <2>2. Cardinality(ids) <= Cardinality(S) /\ IsFiniteSet(ids)
    BY <2>1, FS_Subset
  <2>. QED
    BY <2>1, <2>2, FS_CardinalityType
<1>4. CASE program = "ReplicatedDB"
  BY <1>1, <1>3, <1>4 DEF TypeOK, Programs
<1>5. CASE program = "Admin"
  BY <1>1, <1>3, <1>5 DEF TypeOK, Counted, IdsBounded, Programs
<1>. QED
  BY <1>1, <1>3, <1>4, <1>5 DEF TypeOK, Programs

\* Wherever a try starts, counting reaches l, or the end, within all ids.
LEMMA ToCountBounds ==
    ASSUME TypeOK, Counted, IdsBounded, NEW l \in servers,
           state \in {"trying", "waiting", "failed"}
    PROVE  ToCount(l) \in 0..LargestId
BY CountBounds DEF ToCount

LEMMA SameLargest == servers' = servers => LargestId' = LargestId
BY DEF LargestId

\* The servers that may redirect a call.
LEMMA OthersType == TypeOK => IsFiniteSet(up \ leaders) /\ Others \in Nat
<1>. SUFFICES ASSUME TypeOK PROVE IsFiniteSet(up \ leaders) /\ Others \in Nat
  OBVIOUS
<1>1. IsFiniteSet(servers) /\ up \ leaders \subseteq servers
  BY ServersFinite DEF TypeOK
<1>2. IsFiniteSet(up \ leaders)
  BY <1>1, FS_Subset
<1>. QED
  BY <1>2, FS_CardinalityType DEF Others

\* Only they are in visited.
LEMMA VisitedFew ==
    ASSUME TypeOK, Chain
    PROVE  /\ IsFiniteSet(visited) /\ Cardinality(visited) \in Nat
           /\ Cardinality(visited) <= Others
<1>1. IsFiniteSet(visited) /\ Cardinality(visited) <= Cardinality(up \ leaders)
  BY OthersType, FS_Subset DEF Chain
<1>. QED
  BY <1>1, FS_CardinalityType DEF Others

\* A try is at most as far from a leader as there are ids to count.
StillFailBounded ==
    /\ LargestId \in Nat
    /\ state = "trying" => \A l \in leaders : StillFail(l) \in 0..(LargestId + 1)

LEMMA StillFailBounds == TypeOK /\ Counted /\ IdsBounded => StillFailBounded
<1>. SUFFICES ASSUME TypeOK, Counted, IdsBounded PROVE StillFailBounded
  OBVIOUS
<1>1. LargestId \in Nat /\ leaders \subseteq servers
  BY CountBounds DEF TypeOK
<1>2. ASSUME state = "trying", NEW l \in leaders PROVE StillFail(l) \in 0..(LargestId + 1)
  <2>1. ToCount(l) \in 0..LargestId
    BY <1>1, <1>2, ToCountBounds
  <2>. QED
    BY <1>1, <2>1 DEF StillFail
<1>. QED
  BY <1>1, <1>2 DEF StillFailBounded

\* So it is after a step.
LEMMA NewBounds ==
    /\ TypeOK' /\ Counted' /\ IdsBounded' => StillFailBounded'
    /\ TypeOK' => IsFiniteSet(up \ leaders)' /\ (Others \in Nat)'
BY StillFailBounds, OthersType, PTL

\* When the tries are counted anew nothing has gone astray.
LEMMA Anew ==
    ASSUME IInv', IdsBounded', CountAnew, state' \in {"waiting", "failed"} => found'
    PROVE  Reached' /\ FailuresBounded' /\ Chain' /\ AstraySums'
<1>1. astray' = 0 /\ failures' = 0 /\ visited' = {} /\ Cardinality({}) = 0
  BY FS_EmptySet DEF CountAnew
<1>2. Reached' /\ Chain'
  BY <1>1 DEF Reached, Chain
<1>3. FailuresBounded'
  <2>1. StillFailBounded'
    BY NewBounds DEF IInv
  <2>2. LargestId' \in Nat
    BY <2>1 DEF StillFailBounded
  <2>3. ASSUME NEW l \in leaders', state' = "trying"
        PROVE  StillFail(l)' \in 0..(LargestId' + 1)
    BY <2>1, <2>3 DEF StillFailBounded
  <2>4. ASSUME NEW l \in leaders', state' = "trying"
        PROVE  failures' + StillFail(l)' <= LargestId' + 1
    BY <1>1, <2>2, <2>3, <2>4
  <2>5. failures' <= LargestId' + 1
    <3>1. \A n \in Nat : 0 <= n + 1
      OBVIOUS
    <3>. QED
      BY <1>1, <2>2, <3>1, Zenon
  <2>6. visited' = {}
    BY <1>1
  <2>. QED
    BY <2>4, <2>5, <2>6, Zenon DEF FailuresBounded
<1>4. AstraySums'
  <2>1. Others' \in Nat
    BY NewBounds DEF IInv
  <2>. QED
    BY <1>1, <2>1 DEF AstraySums
<1>. QED
  BY <1>2, <1>3, <1>4

LEMMA InitFound == Init => FoundInv
<1>. SUFFICES ASSUME Init PROVE FoundInv
  OBVIOUS
<1>1. servers \in Config /\ TypeOK
  BY InitIInv DEF Init, IInv
<1>2. IdsBounded /\ LargestId \in Nat
  BY <1>1, LargestIdIs DEF Init, IdsBounded
<1>3. Reached /\ FailuresBounded /\ Chain /\ TriesOfCall
  BY <1>2 DEF Init, Reached, FailuresBounded, Chain, TriesOfCall
<1>4. AstraySums
  BY <1>1, OthersType, FS_EmptySet DEF Init, AstraySums
<1>. QED
  BY <1>2, <1>3, <1>4 DEF FoundInv

\* When the cluster changes the tries are counted anew.
LEMMA ClusterFound == IInv /\ IInv' /\ FoundInv /\ ClusterNext => FoundInv'
<1>. SUFFICES ASSUME IInv, IInv', FoundInv, ClusterNext PROVE FoundInv'
  OBVIOUS
<1>1. /\ servers' = servers /\ ids' = ids /\ found' = found /\ disturbed' = TRUE /\ CountAnew
      /\ state' \in {"waiting", "failed"} => state \in {"waiting", "failed"}
  BY DEF ClusterNext, Die, Start, BecomeLeader, BecomeFollower, HearFrom, loopVars
<1>2. IdsBounded'
  BY <1>1, SameLargest DEF FoundInv, IdsBounded
<1>3. TriesOfCall'
  BY <1>1 DEF TriesOfCall
<1>. QED
  BY <1>1, <1>2, <1>3, Anew DEF FoundInv, Reached

\* A redirection comes from a server that has not redirected the call since the
\* last failure, unless running servers send clients only to each other.
LEMMA RedirectVisits ==
    ASSUME IInv, FoundInv, Redirect
    PROVE  /\ LeaderReachable => target \notin visited
           /\ Chain'
           /\ AstraySums'
<1>1. /\ UNCHANGED clusterVars /\ target \in up \ leaders /\ target' = Address(known[target])
      /\ visited' = visited \cup {target} /\ astray' = astray + 1 /\ failures' = failures
  BY DEF Redirect
<1>2. /\ visited \subseteq up \ leaders /\ up \subseteq servers /\ Nowhere \notin servers
      /\ \A s \in visited : Address(known[s]) \in visited \cup {target}
  BY ServersFinite, FailoverAssumption DEF IInv, TypeOK, FoundInv, Chain
<1>3. ASSUME LeaderReachable, target \in visited PROVE FALSE
  <2>1. \A s \in visited : Address(known[s]) \in visited
    BY <1>2, <1>3
  <2>2. \A s \in visited : known[s] \in visited
    BY <1>2, <2>1 DEF Address
  <2>3. visited \in SUBSET (up \ leaders) /\ visited # {}
    BY <1>2, <1>3
  <2>. QED
    BY <1>3, <2>2, <2>3 DEF LeaderReachable
<1>4. Chain'
  BY <1>1, <1>2 DEF Chain, Address, clusterVars
<1>5. AstraySums'
  <2>1. Others' = Others /\ LeaderReachable' = LeaderReachable
    BY <1>1 DEF Others, LeaderReachable, clusterVars
  <2>2. /\ IsFiniteSet(visited) /\ Cardinality(visited) \in Nat /\ Others \in Nat
        /\ failures \in Nat /\ astray \in Nat
    BY VisitedFew, OthersType DEF IInv, TypeOK, FoundInv
  <2>3. LeaderReachable => Cardinality(visited') = Cardinality(visited) + 1
    BY <1>1, <1>3, <2>2, FS_AddElement
  <2>4. failures * (Others + 1) \in Nat
    BY <2>2
  <2>5. LeaderReachable => astray <= failures * (Others + 1) + Cardinality(visited)
    BY DEF FoundInv, AstraySums
  <2>6. LeaderReachable => astray' <= failures * (Others + 1) + Cardinality(visited')
    <3>. DEFINE sum == failures * (Others + 1)
    <3>1. sum \in Nat /\ (LeaderReachable => astray <= sum + Cardinality(visited))
      BY <2>4, <2>5
    <3>. HIDE DEF sum
    <3>2. LeaderReachable => astray' <= sum + Cardinality(visited')
      BY <1>1, <2>2, <2>3, <3>1
    <3>. QED
      BY <3>2 DEF sum
  <2>. QED
    BY <1>1, <2>1, <2>6 DEF AstraySums
<1>. QED
  BY <1>3, <1>4, <1>5

LEMMA RedirectFound == IInv /\ FoundInv /\ Redirect => FoundInv'
<1>. SUFFICES ASSUME IInv, FoundInv, Redirect PROVE FoundInv'
  OBVIOUS
<1>1. /\ UNCHANGED <<servers, leaders, program, ids, next, failures, connected, disturbed, found>>
      /\ target \in up \ leaders /\ state' = "trying" /\ astray' = astray + 1 /\ iters' = Left
      /\ MaySend \/ state = "waiting"
  BY DEF Redirect, clusterVars, counted
<1>2. LargestId' = LargestId /\ LargestId \in Nat /\ failures \in Nat /\ leaders \subseteq servers
  BY <1>1, SameLargest, CountBounds DEF IInv, FoundInv, TypeOK
<1>3. IdsBounded' /\ Reached'
  BY <1>1, <1>2 DEF FoundInv, IdsBounded, Reached
<1>4. FailuresBounded'
  <2>. SUFFICES ASSUME NEW l \in leaders
                PROVE  failures <= LargestId /\ failures + StillFail(l)' <= LargestId + 1
    BY <1>1, <1>2 DEF FailuresBounded
  <2>1. ToCount(l) \in 0..LargestId /\ ToCount(l)' = ToCount(l)
    BY <1>1, <1>2, ToCountBounds DEF IInv, FoundInv, MaySend, ToCount
  <2>2. failures + 1 + ToCount(l) <= LargestId + 1
    <3>1. CASE state = "trying"
      BY <1>1, <1>2, <2>1, <3>1 DEF FoundInv, FailuresBounded, StillFail
    <3>2. CASE state = "waiting"
      BY <1>2, <2>1, <3>2 DEF FoundInv, Reached
    <3>. QED
      BY <1>1, <3>1, <3>2 DEF MaySend
  <2>3. StillFail(l)' \in 0..(1 + ToCount(l))
    BY <1>1, <1>2, <2>1 DEF StillFail
  <2>. QED
    BY <1>2, <2>1, <2>2, <2>3
<1>5. TriesOfCall'
  <2>1. ~found => state = "trying" /\ iters' = iters - 1
    BY <1>1 DEF FoundInv, Reached, MaySend, Left
  <2>2. MaxTries \in Nat /\ iters \in Nat /\ astray \in Nat
    BY FailoverAssumption DEF IInv, TypeOK
  <2>3. ~disturbed /\ ~found => astray' = MaxTries - iters'
    BY <1>1, <2>1, <2>2 DEF FoundInv, TriesOfCall
  <2>4. ~disturbed /\ program = "Admin" => connected \cap leaders = {}
    BY <1>1 DEF FoundInv, TriesOfCall, MaySend
  <2>. QED
    BY <1>1, <2>3, <2>4 DEF TriesOfCall
<1>. QED
  BY <1>3, <1>4, <1>5, RedirectVisits DEF FoundInv

LEMMA SharedFound ==
    IInv /\ IInv' /\ FoundInv /\ (Redirect \/ Accept \/ Answer \/ Exceed) => FoundInv'
<1>. SUFFICES ASSUME IInv, IInv', FoundInv, Accept \/ Answer \/ Exceed PROVE FoundInv'
  BY RedirectFound
<1>1. UNCHANGED <<servers, up, leaders, known, program, ids, target, connected, disturbed>>
  BY DEF Accept, Answer, Exceed, clusterVars, history, counted, tries
<1>2. IdsBounded'
  BY <1>1, SameLargest DEF FoundInv, IdsBounded
<1>3. CASE Accept
  <2>1. state' = "waiting" /\ found' /\ CountAnew /\ state = "trying"
    BY <1>3 DEF Accept, MaySend
  <2>2. TriesOfCall'
    BY <1>1, <2>1 DEF FoundInv, TriesOfCall
  <2>. QED
    BY <1>2, <2>1, <2>2, Anew DEF FoundInv
<1>4. CASE Answer \/ Exceed
  <2>1. /\ UNCHANGED <<iters, found, astray, failures, visited>>
        /\ \/ state = "waiting" /\ state' = "answered"
           \/ state = "trying" /\ state' = "exceeded" /\ iters = 0
    BY <1>4 DEF Answer, Exceed, history, tries
  <2>2. LargestId' = LargestId /\ Others' = Others /\ LeaderReachable' = LeaderReachable
    BY <1>1, SameLargest DEF Others, LeaderReachable
  <2>3. Reached' /\ FailuresBounded' /\ AstraySums'
    BY <1>1, <2>1, <2>2 DEF FoundInv, Reached, FailuresBounded, AstraySums
  <2>4. Chain'
    BY <1>1, <2>1 DEF FoundInv, Chain, Address
  <2>5. TriesOfCall'
    BY <1>1, <2>1 DEF FoundInv, TriesOfCall
  <2>. QED
    BY <1>2, <2>3, <2>4, <2>5 DEF FoundInv
<1>. QED
  BY <1>3, <1>4

\* A failed RPC uses one of the tries that may fail, and makes room for one more
\* redirection by each of the others.
LEMMA FailsFound ==
    ASSUME IInv, IInv', FoundInv, Fails, UNCHANGED clusterVars, IdsBounded',
           state' \in {"trying", "dead"},
           state' = "trying" => \A l \in leaders : StillFail(l)' \in 0..ToCount(l)
    PROVE  Reached' /\ FailuresBounded' /\ Chain' /\ AstraySums'
<1>1. CASE target \in up
  BY <1>1, Anew DEF Fails
<1>2. CASE target \notin up
  <2>1. astray' = astray + 1 /\ failures' = failures + 1 /\ visited' = {}
    BY <1>2 DEF Fails
  <2>2. Reached' /\ Chain'
    BY <2>1 DEF Reached, Chain
  <2>3. LargestId' = LargestId /\ LargestId \in Nat /\ leaders' = leaders
    BY SameLargest, CountBounds DEF clusterVars, IInv, FoundInv
  <2>4. leaders \subseteq up /\ leaders \subseteq servers /\ failures \in Nat
    BY DEF IInv, TypeOK
  <2>5. ASSUME NEW l \in leaders PROVE failures + 1 + ToCount(l) <= LargestId + 1
    <3>1. ToCount(l) \in 0..LargestId
      BY <2>4, ToCountBounds DEF IInv, FoundInv, Fails, MaySend
    <3>2. CASE state = "trying"
      BY <1>2, <2>3, <2>4, <3>1, <3>2 DEF FoundInv, FailuresBounded, StillFail
    <3>3. CASE state # "trying"
      BY <2>3, <3>1, <3>3 DEF Fails, MaySend, FoundInv, Reached
    <3>. QED
      BY <3>2, <3>3
  <2>6. FailuresBounded'
    <3>. SUFFICES ASSUME NEW l \in leaders
                  PROVE  /\ failures + 1 <= LargestId + 1
                         /\ state' = "trying" => failures + 1 + StillFail(l)' <= LargestId + 1
      BY <2>1, <2>3 DEF FailuresBounded
    <3>1. ToCount(l) \in 0..LargestId
      BY <2>4, ToCountBounds DEF IInv, FoundInv, Fails, MaySend
    <3>. QED
      BY <2>3, <2>4, <2>5, <3>1
  <2>7. AstraySums'
    <3>1. Others' = Others /\ LeaderReachable' = LeaderReachable
      BY DEF Others, LeaderReachable, clusterVars
    <3>2. /\ Cardinality(visited) \in Nat /\ Cardinality(visited) <= Others /\ Others \in Nat
          /\ astray \in Nat /\ Cardinality({}) = 0
      BY VisitedFew, OthersType, FS_EmptySet DEF IInv, TypeOK, FoundInv
    <3>3. (failures + 1) * (Others + 1) = failures * (Others + 1) + Others + 1
      BY <2>4, <3>2
    <3>4. failures * (Others + 1) \in Nat
      BY <2>4, <3>2
    <3>5. LeaderReachable => astray <= failures * (Others + 1) + Cardinality(visited)
      BY DEF FoundInv, AstraySums
    <3>6. LeaderReachable => astray + 1 <= (failures + 1) * (Others + 1) + 0
      <4>. DEFINE sum  == failures * (Others + 1)
                  more == (failures + 1) * (Others + 1)
      <4>1. sum \in Nat /\ more = sum + Others + 1
        BY <3>3, <3>4
      <4>2. LeaderReachable => astray <= sum + Cardinality(visited)
        BY <3>5
      <4>. HIDE DEF sum, more
      <4>3. LeaderReachable => astray + 1 <= more + 0
        BY <3>2, <4>1, <4>2
      <4>. QED
        BY <4>3 DEF more
    <3>. QED
      BY <2>1, <3>1, <3>2, <3>6 DEF AstraySums
  <2>. QED
    BY <2>2, <2>6, <2>7
<1>. QED
  BY <1>1, <1>2

\* A call that a failure does not disturb was connected to no leader.
LEMMA FailsTries ==
    ASSUME IInv, FoundInv, Fails, ~disturbed'
    PROVE  /\ ~disturbed /\ target \notin leaders
           /\ ~found' => astray' = MaxTries - iters'
<1>1. /\ ~disturbed /\ target \notin up /\ found' = found /\ astray' = astray + 1 /\ iters' = Left
  BY DEF Fails
<1>2. MaxTries \in Nat /\ iters \in Nat /\ astray \in Nat /\ leaders \subseteq up
  BY FailoverAssumption DEF IInv, TypeOK
<1>3. ~found => state = "trying"
  BY DEF Fails, MaySend, FoundInv, Reached
<1>4. ~found => astray' = MaxTries - iters'
  BY <1>1, <1>2, <1>3 DEF FoundInv, TriesOfCall, Left
<1>. QED
  BY <1>1, <1>2, <1>4

LEMMA ClientFound == IInv /\ IInv' /\ FoundInv /\ ClientNext => FoundInv'
<1>. SUFFICES ASSUME IInv, IInv', FoundInv, ClientNext PROVE FoundInv'
  OBVIOUS
<1>1. CASE Redirect \/ Accept \/ Answer \/ Exceed
  BY <1>1, SharedFound
<1>2. /\ program = "ReplicatedDB" /\ LargestId \in Nat /\ LargestId \in servers \cup {0}
      /\ next \in 0..LargestId
      /\ \A l \in servers : l \in 0..LargestId
      /\ leaders \subseteq up /\ up \subseteq servers
  BY CountBounds DEF ClientNext, IInv, FoundInv, TypeOK
<1>3. CASE CallDB
  <2>1. /\ UNCHANGED <<servers, leaders, program, ids>> /\ CountAnew /\ state' = "trying"
        /\ iters' = MaxTries /\ astray' = 0
    BY <1>3 DEF CallDB, clusterVars, CountAnew
  <2>2. IdsBounded'
    BY <2>1, SameLargest DEF FoundInv, IdsBounded
  <2>3. TriesOfCall'
    BY <1>2, <2>1, FailoverAssumption DEF TriesOfCall
  <2>. QED
    BY <2>1, <2>2, <2>3, Anew DEF FoundInv
<1>4. CASE NextBackup
  <2>. DEFINE S == ids \cup {next}
  <2>1. /\ UNCHANGED clusterVars /\ UNCHANGED <<servers, leaders, program>> /\ Fails
        /\ state' = "trying" /\ target' = Address(next) /\ ids' = S
    BY <1>4 DEF NextBackup, clusterVars
  <2>2. LargestId' = LargestId /\ IdsBounded'
    BY <1>2, <2>1, SameLargest DEF FoundInv, IdsBounded
  <2>3. Wraps(next) <=> next = LargestId
    <3>1. /\ Cardinality(S) \in Nat
          /\ next + 1 >= Cardinality(S) => S = 0..next
      <4>1. next \in Nat /\ 0..(next - 1) \subseteq ids
        BY <1>2 DEF IInv, Counted
      <4>. QED
        BY <4>1, LookUp DEF IInv
    <3>2. Cardinality(S) <= LargestId + 1
      <4>. DEFINE T == 0..LargestId
      <4>1. S \subseteq T /\ IsFiniteSet(T) /\ Cardinality(T) = LargestId + 1
        BY <1>2, FS_Interval DEF FoundInv, IdsBounded
      <4>. HIDE DEF S, T
      <4>2. Cardinality(S) <= Cardinality(T)
        BY <4>1, FS_Subset
      <4>. QED
        BY <4>1, <4>2
    <3>3. ASSUME Wraps(next) PROVE next = LargestId
      <4>1. S = 0..next /\ servers \subseteq S
        BY <1>2, <3>1, <3>3 DEF Wraps, IInv, TypeOK
      <4>. QED
        BY <1>2, <4>1
    <3>. QED
      BY <1>2, <3>1, <3>2, <3>3 DEF Wraps
  <2>4. next' = IF next = LargestId THEN 0 ELSE next + 1
    BY <1>4, <2>3 DEF NextBackup
  <2>5. ASSUME NEW l \in leaders PROVE StillFail(l)' \in 0..ToCount(l)
    <3>1. l \in 0..LargestId /\ ToCount(l) \in Nat
      BY <1>2 DEF ToCount
    <3>2. CASE next = l
      <4>1. target' \in leaders'
        BY <1>2, <2>1, <3>2 DEF Address
      <4>. QED
        BY <3>1, <4>1 DEF StillFail
    <3>3. CASE next # l
      <4>1. ToCount(l)' = ToCount(l) - 1 /\ ToCount(l) >= 1
        BY <1>2, <2>1, <2>2, <2>4, <3>1, <3>3 DEF ToCount
      <4>. QED
        BY <3>1, <4>1 DEF StillFail
    <3>. QED
      BY <3>2, <3>3
  <2>6. TriesOfCall'
    BY <1>2, <2>1, FailsTries DEF TriesOfCall
  <2>. QED
    BY <2>1, <2>2, <2>5, <2>6, FailsFound DEF FoundInv
<1>. QED
  BY <1>1, <1>3, <1>4 DEF ClientNext

LEMMA AdminFound == IInv /\ IInv' /\ FoundInv /\ AdminNext => FoundInv'
<1>. SUFFICES ASSUME IInv, IInv', FoundInv, AdminNext PROVE FoundInv'
  OBVIOUS
<1>1. CASE Redirect \/ Accept \/ Answer \/ Exceed
  BY <1>1, SharedFound
<1>2. /\ program = "Admin" /\ LargestId \in Nat
      /\ \A l \in servers : l \in 0..LargestId
      /\ leaders \subseteq up /\ up \subseteq servers /\ MaxTries \in Nat
  BY CountBounds, FailoverAssumption DEF AdminNext, IInv, FoundInv, TypeOK
<1>3. CASE CallAdmin
  <2>1. /\ UNCHANGED <<servers, leaders, program>> /\ CountAnew /\ state' = "trying"
        /\ ids' = ids \cup {0} /\ iters' = MaxTries /\ astray' = 0
        /\ connected' = {0} /\ target' = Address(0)
    BY <1>3 DEF CallAdmin, clusterVars, CountAnew
  <2>2. IdsBounded'
    BY <1>2, <2>1, SameLargest DEF FoundInv, IdsBounded
  <2>3. TriesOfCall'
    BY <1>2, <2>1 DEF TriesOfCall, Address
  <2>. QED
    BY <2>1, <2>2, <2>3, Anew DEF FoundInv
<1>4. CASE NoPing
  <2>1. /\ UNCHANGED <<servers, up, leaders, known, target, ids, disturbed, astray, failures, visited>>
        /\ state' = "noPing"
    BY <1>4 DEF NoPing, clusterVars, history, tries
  <2>2. LargestId' = LargestId /\ Others' = Others /\ LeaderReachable' = LeaderReachable
    BY <2>1, SameLargest DEF Others, LeaderReachable
  <2>3. IdsBounded' /\ Reached' /\ FailuresBounded' /\ AstraySums' /\ TriesOfCall'
    BY <2>1, <2>2 DEF FoundInv, IdsBounded, Reached, FailuresBounded, AstraySums, TriesOfCall
  <2>4. Chain'
    BY <2>1 DEF FoundInv, Chain, Address
  <2>. QED
    BY <2>3, <2>4 DEF FoundInv
<1>5. CASE Retry
  <2>1. /\ UNCHANGED <<servers, leaders, program, target, ids, connected, disturbed, found>>
        /\ state = "waiting" /\ state' = "trying" /\ CountAnew /\ found
    BY <1>5 DEF Retry, clusterVars, history, counted, tries, FoundInv, Reached, CountAnew
  <2>2. IdsBounded'
    BY <2>1, SameLargest DEF FoundInv, IdsBounded
  <2>3. TriesOfCall'
    BY <2>1 DEF FoundInv, TriesOfCall
  <2>. QED
    BY <2>1, <2>2, <2>3, Anew DEF FoundInv
<1>6. CASE NextServer
  <2>1. /\ UNCHANGED clusterVars /\ UNCHANGED <<servers, leaders, program>> /\ Fails
        /\ state' = "trying" /\ target' = Address(next + 1) /\ next' = next + 1
        /\ ids' = ids \cup {next + 1} /\ next + 1 < Cardinality(ids)
        /\ connected' = connected \cup {next + 1}
    BY <1>6 DEF NextServer, clusterVars
  <2>2. next \in Nat /\ next < LargestId
    BY <1>2, <2>1, CountBounds DEF IInv, FoundInv, TypeOK, Fails, MaySend
  <2>3. LargestId' = LargestId /\ IdsBounded'
    BY <1>2, <2>1, <2>2, SameLargest DEF FoundInv, IdsBounded
  <2>4. ASSUME NEW l \in leaders PROVE StillFail(l)' \in 0..ToCount(l)
    <3>1. ToCount(l) \in Nat /\ ToCount(l) >= 1 /\ ToCount(l)' = ToCount(l) - 1
      BY <1>2, <2>1, <2>2, <2>3 DEF ToCount
    <3>. QED
      BY <3>1 DEF StillFail
  <2>5. TriesOfCall'
    <3>. SUFFICES ASSUME ~disturbed'
                  PROVE  /\ ~found' => astray' = MaxTries - iters'
                         /\ connected' \cap leaders' \subseteq {target'}
      BY <2>1 DEF TriesOfCall
    <3>1. ~disturbed /\ target \notin leaders /\ (~found' => astray' = MaxTries - iters')
      BY <2>1, FailsTries
    <3>2. connected \cap leaders = {}
      BY <1>2, <2>1, <3>1 DEF FoundInv, TriesOfCall, Fails, MaySend
    <3>3. next + 1 \in leaders => target' = next + 1
      BY <1>2, <2>1 DEF Address
    <3>. QED
      BY <2>1, <3>1, <3>2, <3>3
  <2>. QED
    BY <2>1, <2>3, <2>4, <2>5, FailsFound DEF FoundInv
<1>7. CASE AllDead
  <2>1. /\ UNCHANGED clusterVars /\ UNCHANGED <<servers, leaders, ids>> /\ Fails /\ state' = "dead"
    BY <1>7 DEF AllDead, clusterVars
  <2>2. IdsBounded'
    BY <2>1, SameLargest DEF FoundInv, IdsBounded
  <2>3. ASSUME ~disturbed' PROVE leaders = {}
    <3>1. ~disturbed /\ target \notin leaders
      BY <2>1, <2>3, FailsTries
    <3>2. connected \cap leaders = {}
      BY <1>2, <2>1, <3>1 DEF FoundInv, TriesOfCall, Fails, MaySend
    <3>3. servers \subseteq connected
      BY <1>7 DEF AllDead, IInv, EveryServerTried
    <3>. QED
      BY <1>2, <3>2, <3>3
  <2>4. TriesOfCall'
    BY <2>1, <2>3 DEF TriesOfCall
  <2>. QED
    BY <2>1, <2>2, <2>4, FailsFound DEF FoundInv
<1>. QED
  BY <1>1, <1>3, <1>4, <1>5, <1>6, <1>7 DEF AdminNext

LEMMA FailoverFound == Spec => [](IInv /\ FoundInv)
<1>1. IInv /\ IInv' /\ FoundInv /\ [Next]_vars => FoundInv'
  <2>1. IInv /\ FoundInv /\ UNCHANGED vars => FoundInv'
    <3>. SUFFICES ASSUME FoundInv, UNCHANGED vars PROVE FoundInv'
      OBVIOUS
    <3>1. LargestId' = LargestId /\ Others' = Others /\ LeaderReachable' = LeaderReachable
      BY SameLargest DEF vars, clusterVars, Others, LeaderReachable
    <3>. QED
      BY <3>1 DEF FoundInv, IdsBounded, Reached, FailuresBounded, StillFail, ToCount, Chain, Address,
                  AstraySums, TriesOfCall, vars, clusterVars, loopVars, history, counted, tries
  <2>. QED
    BY <2>1, ClusterFound, ClientFound, AdminFound DEF Next
<1>. QED
  BY InitFound, FailoverInvariant, <1>1, PTL DEF Spec

\* What the failures and the redirections after each of them add up to.
LEMMA AstrayBound == IInv /\ FoundInv => FindsLeaderSoon
<1>. SUFFICES ASSUME IInv, FoundInv, LeaderReachable PROVE astray <= TriesToLeader
  BY DEF FindsLeaderSoon
<1>. DEFINE m == Others + 1
<1>1. PICK l : l \in leaders
  BY DEF LeaderReachable
<1>2. /\ LargestId \in Nat /\ Others \in Nat /\ failures \in Nat /\ astray \in Nat
      /\ Cardinality(visited) \in Nat /\ Cardinality(visited) <= Others /\ Cardinality({}) = 0
  BY CountBounds, OthersType, VisitedFew, FS_EmptySet DEF IInv, FoundInv, TypeOK
<1>3. astray <= failures * m + Cardinality(visited)
  BY DEF FoundInv, AstraySums
<1>4. TriesToLeader = (LargestId + 1) * m
  BY DEF TriesToLeader, Others
<1>5. /\ failures <= LargestId + 1
      /\ visited # {} => failures <= LargestId
  BY <1>1 DEF FoundInv, FailuresBounded
<1>6. ASSUME NEW a \in Nat, NEW b \in Nat, a <= b PROVE a * m \in Nat /\ b * m \in Nat /\ a * m <= b * m
  <2>1. b - a \in Nat /\ m \in Nat
    BY <1>2, <1>6
  <2>2. (b - a) * m \in Nat /\ b * m = a * m + (b - a) * m
    BY <2>1
  <2>. QED
    BY <2>1, <2>2
<1>7. (LargestId + 1) * m = LargestId * m + m
  BY <1>2
<1>8. CASE visited = {}
  BY <1>2, <1>3, <1>4, <1>5, <1>6, <1>8
<1>9. CASE visited # {}
  <2>1. failures * m \in Nat /\ LargestId * m \in Nat /\ failures * m <= LargestId * m
    BY <1>2, <1>5, <1>6, <1>9
  <2>2. Cardinality(visited) < m /\ m \in Nat
    BY <1>2
  <2>. DEFINE x == failures * m
              y == LargestId * m
  <2>3. x \in Nat /\ y \in Nat /\ x <= y /\ astray <= x + Cardinality(visited) /\ TriesToLeader = y + m
    BY <1>3, <1>4, <1>7, <2>1
  <2>. HIDE DEF x, y, m
  <2>. QED
    BY <1>2, <2>2, <2>3
<1>. QED
  BY <1>8, <1>9

\* From any address and count of its loop only a bounded number of tries go astray
\* when the cluster has ceased to change, for any ids of servers, unless running
\* servers send clients in a circle.
THEOREM LeaderIsFoundSoon == Spec => []FindsLeaderSoon
BY FailoverFound, AstrayBound, PTL

\* A call that nothing disturbs finds the leader: the client and the tool do not
\* run out of tries before, and the tool does not find all servers dead, whatever
\* dead leaders the servers that run point to.
THEOREM UndisturbedCallFindsLeader == Spec => []LeaderIsFound
<1>1. IInv /\ FoundInv => LeaderIsFound
  <2>. SUFFICES ASSUME IInv, FoundInv, LeaderReachable, ~disturbed
                PROVE  /\ state # "dead"
                       /\ state = "exceeded" /\ MaxTries > TriesToLeader => found
    BY DEF LeaderIsFound
  <2>1. state # "dead"
    BY DEF FoundInv, TriesOfCall, LeaderReachable
  <2>2. astray <= TriesToLeader /\ TriesToLeader \in Nat /\ MaxTries \in Nat
    <3>1. LargestId \in Nat /\ Others \in Nat
      BY CountBounds, OthersType DEF IInv, FoundInv
    <3>2. TriesToLeader \in Nat
      BY <3>1 DEF TriesToLeader, Others
    <3>. QED
      BY <3>2, AstrayBound, FailoverAssumption DEF FindsLeaderSoon
  <2>3. state = "exceeded" /\ ~found => astray = MaxTries
    BY <2>2 DEF FoundInv, TriesOfCall
  <2>. QED
    BY <2>1, <2>2, <2>3
<1>. QED
  BY FailoverFound, <1>1, PTL
=============================================================================
