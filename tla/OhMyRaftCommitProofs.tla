------------------------ MODULE OhMyRaftCommitProofs ------------------------
(***************************************************************************)
(* Commits.  Under the hypotheses of the theorems about logs, an entry that *)
(* a leader counted as committed is in the log of every later leader and on *)
(* the disks of a majority for ever, and every replica hands its executer   *)
(* the committed operations and nothing else, for every cluster and         *)
(* whatever is lost, reordered, delayed or cut off in the middle by a crash. *)
(***************************************************************************)
EXTENDS OhMyRaftLogProofs

\* Besides what Bootstrapped says, no log that bootstrap finds is ahead of the
\* term that it finds.
Recovered ==
    /\ Bootstrapped
    /\ \A s \in Server : \A i \in 1..Len(InitLog[s]) : InitLog[s][i].term <= InitTerm[s]

-----------------------------------------------------------------------------
\* Logs made of links.
Made(lg)        == lg \in Seq(Entry) /\ LogLinks(lg) \subseteq Links
Holds(lg, j, t) == j \in 1..Len(lg) /\ lg[j].term = t

\* Entries are not ahead of the term of the log, the election or the request
\* they are in.
TermsBounded ==
    /\ \A s \in Server : \A i \in 1..Len(log[s]) : log[s][i].term <= currentTerm[s]
    /\ \A e \in elections : \A i \in 1..Len(e.log) : e.log[i].term <= e.term
    /\ \A r \in Requests : \A i \in 1..Len(r.entries) : r.entries[i].term <= r.term

LEMMA EntryTerms ==
    ASSUME NEW lg \in Seq(Entry)
    PROVE  Len(lg) \in Nat /\ \A i \in 1..Len(lg) : lg[i].term \in Nat
  <1>1. \A i \in 1..Len(lg) : lg[i] \in Entry
    OBVIOUS
  <1> QED BY <1>1 DEF Entry

LEMMA MadeLogs ==
    ASSUME TypeInv
    PROVE  /\ \A s \in Server : Made(log[s])
           /\ \A e \in elections : Made(e.log)
  BY LogTypes, LinkSources DEF Made

\* No election is of a term found by bootstrap.
LEMMA NotBoot ==
    ASSUME TypeInv, LogInv, NEW e \in elections, NEW t \in Nat, e.term <= t
    PROVE  ~BootTerm(t)
  <1>1. e.term \in Nat /\ e.leader \in Server /\ InitTerm[e.leader] \in Nat
    BY LogTypes
  <1>2. e.leader \in MayStand /\ e.term > InitTerm[e.leader]
    BY DEF LogInv, ElectionsWon, IsWon
  <1> QED BY <1>1, <1>2 DEF BootTerm

\* The election an entry comes from.
LEMMA MadeInTerm ==
    ASSUME TypeInv, LogInv, NEW lg, Made(lg), NEW n \in 1..Len(lg), ~BootTerm(lg[n].term)
    PROVE  \E e \in elections :
              /\ e.term = lg[n].term
              /\ \/ n = Len(e.log) + 1 /\ Before(-1, lg, n) = LastLogTerm(e.log)
                 \/ n > Len(e.log) + 1 /\ Before(-1, lg, n) = e.term
  <1> DEFINE x == Link(0, -1, lg, n)
  <1>1. x \in Links /\ x.index = n /\ x.entry = lg[n] /\ x.prev = Before(-1, lg, n)
    BY LogLink DEF Made
  <1> HIDE DEF x
  <1> QED BY <1>1 DEF LogInv, LinksMade, MadeIn

\* A log with an entry of the term of an election extends the log of that
\* election, by entries of that term up to this entry.
LEMMA TermLog ==
    ASSUME TypeInv, LogInv, NEW lg, Made(lg), NEW e \in elections, NEW n \in 1..Len(lg),
           lg[n].term = e.term
    PROVE  /\ Len(e.log) < n
           /\ \A i \in 1..Len(e.log) : lg[i] = e.log[i]
           /\ \A i \in (Len(e.log) + 1)..n : lg[i].term = e.term
  <1>1. lg \in Seq(Entry) /\ Len(lg) \in Nat /\ e.log \in Seq(Entry) /\ Len(e.log) \in Nat /\ e.term \in Nat
    BY LogTypes DEF Made
  <1>2. ASSUME NEW k \in 1..n, lg[k].term = e.term
        PROVE  \/ k = Len(e.log) + 1 /\ Before(-1, lg, k) = LastLogTerm(e.log)
               \/ k > Len(e.log) + 1 /\ Before(-1, lg, k) = e.term
    <2>1. k \in 1..Len(lg) /\ ~BootTerm(lg[k].term)
      BY <1>1, <1>2, NotBoot
    <2>2. PICK f \in elections :
              /\ f.term = lg[k].term
              /\ \/ k = Len(f.log) + 1 /\ Before(-1, lg, k) = LastLogTerm(f.log)
                 \/ k > Len(f.log) + 1 /\ Before(-1, lg, k) = f.term
      BY <2>1, MadeInTerm
    <2>3. f = e
      BY <1>2, <2>2 DEF LogInv, ElectionsWon
    <2> QED BY <2>2, <2>3
  <1>3. Len(e.log) < n
    <2>1. n \in 1..n
      OBVIOUS
    <2> QED BY <1>1, <1>2, <2>1
  <1> DEFINE Bad == {d \in Nat : n - d > Len(e.log) /\ lg[n - d].term # e.term}
  <1>4. ASSUME Bad # {} PROVE FALSE
    <2>1. PICK d \in Bad : \A b \in Bad : d <= b
      BY <1>4, Least
    <2>2. d \in Nat /\ n - d > Len(e.log) /\ lg[n - d].term # e.term
      BY <2>1
    <2>3. d # 0
      <3>1. n - 0 = n
        OBVIOUS
      <3> QED BY <2>2, <3>1
    <2>4. d - 1 \in Nat /\ n - (d - 1) > Len(e.log) /\ d - 1 \notin Bad /\ n - (d - 1) = (n - d) + 1
      <3>1. d - 1 \in Nat /\ n - (d - 1) > Len(e.log) /\ n - (d - 1) = (n - d) + 1 /\ ~(d <= d - 1)
        BY <1>1, <2>2, <2>3
      <3> HIDE DEF Bad
      <3> QED BY <2>1, <3>1
    <2>5. lg[(n - d) + 1].term = e.term
      BY <2>4
    <2>6. (n - d) + 1 \in 1..n /\ (n - d) + 1 > Len(e.log) + 1 /\ (n - d) + 1 # 1
          /\ ((n - d) + 1) - 1 = n - d
      BY <1>1, <2>2, <2>3
    <2>7. Before(-1, lg, (n - d) + 1) = e.term
      BY <1>1, <1>2, <2>5, <2>6
    <2> QED BY <2>2, <2>6, <2>7 DEF Before
  <1>5. \A i \in (Len(e.log) + 1)..n : lg[i].term = e.term
    <2> SUFFICES ASSUME NEW i \in (Len(e.log) + 1)..n, lg[i].term # e.term PROVE FALSE
      OBVIOUS
    <2>1. n - i \in Nat /\ n - (n - i) = i /\ i > Len(e.log)
      BY <1>1
    <2>2. n - i \in Bad
      BY <2>1
    <2> QED BY <1>4, <2>2
  <1>6. CASE Len(e.log) = 0
    BY <1>1, <1>3, <1>5, <1>6
  <1>7. CASE Len(e.log) # 0
    <2> DEFINE k == Len(e.log)
    <2>1. k \in 1..Len(e.log) /\ k <= Len(lg) /\ k + 1 \in (Len(e.log) + 1)..n /\ k + 1 \in 1..n
          /\ k + 1 # 1 /\ (k + 1) - 1 = k /\ k \in 1..Len(lg)
      BY <1>1, <1>3, <1>7
    <2>2. lg[k + 1].term = e.term
      BY <1>5, <2>1
    <2>3. Before(-1, lg, k + 1) = LastLogTerm(e.log)
      BY <1>1, <1>2, <2>1, <2>2
    <2>4. lg[k].term = e.log[k].term
      BY <1>1, <1>7, <2>1, <2>3 DEF Before, LastLogTerm
    <2>5. Unique(Links) /\ LogLinks(lg) \subseteq Links /\ LogLinks(e.log) \subseteq Links
      BY LinkSources DEF LogInv, LinksUnique, Made
    <2>6. \A i \in 1..k : lg[i] = e.log[i]
      BY <1>1, <2>1, <2>4, <2>5, MatchingLogs
    <2> QED BY <1>3, <1>5, <2>6
  <1> QED BY <1>6, <1>7

\* Terms do not decrease along a log.
LEMMA SortedLog ==
    ASSUME TypeInv, LogInv, TermsBounded, NEW lg, Made(lg), NEW i \in 1..Len(lg), NEW k \in i..Len(lg)
    PROVE  lg[i].term <= lg[k].term
  <1>1. lg \in Seq(Entry) /\ Len(lg) \in Nat /\ \A h \in 1..Len(lg) : lg[h].term \in Nat
    <2>1. lg \in Seq(Entry)
      BY DEF Made
    <2> QED BY <2>1, EntryTerms
  <1>2. ASSUME NEW h \in 2..Len(lg) PROVE lg[h - 1].term <= lg[h].term
    <2> DEFINE x == Link(0, -1, lg, h)
    <2>1. h \in 1..Len(lg) /\ h - 1 \in 1..Len(lg) /\ h # 1
      BY <1>1
    <2>2. x \in Links /\ x.entry = lg[h] /\ x.prev = lg[h - 1].term
      BY <2>1, LogLink DEF Made, Before
    <2> HIDE DEF x
    <2>3. ASSUME NEW e \in elections, MadeIn(x, e) PROVE lg[h - 1].term <= lg[h].term
      <3>1. e.term \in Nat /\ e.log \in Seq(Entry) /\ Len(e.log) \in Nat
        BY LogTypes
      <3>2. LastLogTerm(e.log) <= e.term
        <4>1. CASE e.log = <<>>
          BY <3>1, <4>1 DEF LastLogTerm
        <4>2. CASE e.log # <<>>
          <5>1. Len(e.log) \in 1..Len(e.log)
            BY <3>1, <4>2
          <5> QED BY <4>2, <5>1 DEF LastLogTerm, TermsBounded
        <4> QED BY <4>1, <4>2
      <3> QED BY <2>2, <2>3, <3>1, <3>2 DEF MadeIn
    <2> QED BY <2>2, <2>3 DEF LogInv, LinksMade
  <1> DEFINE Bad == {d \in Nat : i + d <= k /\ ~(lg[i].term <= lg[i + d].term)}
  <1>3. ASSUME Bad # {} PROVE FALSE
    <2>1. PICK d \in Bad : \A b \in Bad : d <= b
      BY <1>3, Least
    <2>2. d \in Nat /\ i + d <= k /\ ~(lg[i].term <= lg[i + d].term)
      BY <2>1
    <2>3. d # 0
      <3>1. i + 0 = i /\ lg[i].term <= lg[i].term
        BY <1>1
      <3> QED BY <2>2, <3>1
    <2>4. d - 1 \in Nat /\ i + (d - 1) <= k /\ d - 1 \notin Bad /\ i + (d - 1) = (i + d) - 1
      <3>1. d - 1 \in Nat /\ i + (d - 1) <= k /\ i + (d - 1) = (i + d) - 1 /\ ~(d <= d - 1)
        BY <1>1, <2>2, <2>3
      <3> HIDE DEF Bad
      <3> QED BY <2>1, <3>1
    <2>5. lg[i].term <= lg[(i + d) - 1].term
      BY <2>4
    <2>6. i + d \in 2..Len(lg) /\ i + d \in 1..Len(lg) /\ (i + d) - 1 \in 1..Len(lg)
      BY <1>1, <2>2, <2>3
    <2>7. lg[(i + d) - 1].term <= lg[i + d].term
      BY <1>2, <2>6
    <2> QED BY <1>1, <2>2, <2>5, <2>6, <2>7
  <1>4. k - i \in Nat /\ i + (k - i) = k /\ k <= k
    BY <1>1
  <1> SUFFICES ASSUME ~(lg[i].term <= lg[k].term) PROVE FALSE
    OBVIOUS
  <1>5. k - i \in Bad
    BY <1>4
  <1> QED BY <1>3, <1>5

-----------------------------------------------------------------------------
\* Acknowledgements.  q has told the leader of term t that its log holds an
\* entry of that term at index j.  From then on q holds it, unless a replica
\* that does not have it has been elected in a term that q has seen; q has voted
\* only for candidates that hold it, or such an election came before.
Bypassed(j, t, u) ==
    \E x \in elections : t < x.term /\ x.term <= u /\ ~Holds(x.log, j, t)
Runs(s, term) == role[s] = "Candidate" /\ currentTerm[s] = term
Acked(q, j, t) ==
    /\ \E e \in elections : e.term = t
    /\ t <= currentTerm[q]
    /\ Holds(log[q], j, t) \/ Bypassed(j, t, currentTerm[q])
    /\ \A v \in voted : v.voter = q /\ v.term > t /\ Runs(v.candidate, v.term)
          => Holds(log[v.candidate], j, t) \/ Bypassed(j, t, v.term)
    /\ \A x \in elections : q \in x.voters /\ x.term > t
          => Holds(x.log, j, t) \/ Bypassed(j, t, x.term - 1)

\* A majority has acknowledged the entry.
AckedByMajority(Q, j, t) ==
    Q \in SUBSET Server /\ IsMajority(Cardinality(Q)) /\ \A q \in Q : Acked(q, j, t)
Chosen(j, t) == \E Q \in SUBSET Server : AckedByMajority(Q, j, t)

\* Those who elected a leader.
Electors ==
    \A x \in elections : /\ x.voters \in SUBSET Server /\ IsMajority(Cardinality(x.voters))
                         /\ \A q \in x.voters : Vote(q, x.term, x.leader) \in voted

\* What a majority has acknowledged is in the log of everyone elected later.
LEMMA Completeness ==
    ASSUME TypeInv, Electors, NEW j \in Nat, NEW t \in Nat, Chosen(j, t),
           NEW x \in elections, x.term > t
    PROVE  Holds(x.log, j, t)
  <1>1. PICK Q \in SUBSET Server : AckedByMajority(Q, j, t)
    BY DEF Chosen
  <1>2. \A e \in elections : e.term \in Nat
    BY LogTypes
  <1> DEFINE Lacks(e) == e.term > t /\ ~Holds(e.log, j, t)
             Bad == {u \in Nat : \E e \in elections : e.term = u /\ Lacks(e)}
  <1>3. ASSUME Bad # {} PROVE FALSE
    <2>1. PICK u \in Bad : \A w \in Bad : u <= w
      BY <1>3, Least
    <2>2. PICK e \in elections : e.term = u /\ Lacks(e) /\ u \in Nat
      BY <2>1
    <2>3. e.voters \in SUBSET Server /\ IsMajority(Cardinality(e.voters))
      BY DEF Electors
    <2>4. PICK q \in Server : q \in e.voters /\ q \in Q
      BY <1>1, <2>3, MajoritiesMeet DEF AckedByMajority
    <2>5. Acked(q, j, t)
      BY <1>1, <2>4 DEF AckedByMajority
    <2>6. Bypassed(j, t, u - 1)
      BY <2>2, <2>4, <2>5 DEF Acked
    <2>7. PICK f \in elections : t < f.term /\ f.term <= u - 1 /\ ~Holds(f.log, j, t)
      BY <2>6 DEF Bypassed
    <2>8. f.term \in Bad
      BY <1>2, <2>7
    <2>9. u <= f.term
      <3> HIDE DEF Bad
      <3> QED BY <2>1, <2>8
    <2> QED BY <1>2, <2>2, <2>7, <2>9
  <1>4. ~Holds(x.log, j, t) => x.term \in Bad
    BY <1>2
  <1> QED BY <1>3, <1>4

\* Then nothing that a majority has acknowledged is bypassed, and the majority
\* holds it.
LEMMA MajorityHolds ==
    ASSUME TypeInv, Electors, NEW j \in Nat, NEW t \in Nat, NEW Q, AckedByMajority(Q, j, t)
    PROVE  /\ \A u : ~Bypassed(j, t, u)
           /\ \A q \in Q : Holds(log[q], j, t)
           /\ \E q \in Server : q \in Q
  <1>1. Chosen(j, t)
    BY DEF Chosen, AckedByMajority
  <1>2. \A u : ~Bypassed(j, t, u)
    BY <1>1, Completeness DEF Bypassed
  <1>3. \A q \in Q : Holds(log[q], j, t)
    BY <1>2 DEF AckedByMajority, Acked
  <1>4. \E q \in Server : q \in Q /\ q \in Q
    BY MajoritiesMeet DEF AckedByMajority
  <1> QED BY <1>2, <1>3, <1>4

\* A log that ends, at n, after an entry of term t at j, holds that entry, if
\* the replica elected in the term of its end does.
LEMMA Below ==
    ASSUME TypeInv, LogInv, NEW lg, Made(lg), NEW e \in elections, NEW j \in Nat, NEW n \in 1..Len(lg),
           Len(e.log) < j,
           \/ e.term < lg[n].term
           \/ e.term = lg[n].term /\ j <= n,
           \A x \in elections : x.term > e.term /\ x.term = lg[n].term => Holds(x.log, j, e.term)
    PROVE  Holds(lg, j, e.term)
  <1>1. /\ lg \in Seq(Entry) /\ Len(lg) \in Nat /\ e.log \in Seq(Entry) /\ Len(e.log) \in Nat /\ e.term \in Nat
        /\ lg[n].term \in Nat
    BY LogTypes, EntryTerms DEF Made
  <1>2. CASE e.term = lg[n].term /\ j <= n
    <2>1. j \in (Len(e.log) + 1)..n /\ j \in 1..Len(lg)
      BY <1>1, <1>2
    <2>2. lg[j].term = e.term
      BY <1>2, <2>1, TermLog
    <2> QED BY <2>1, <2>2 DEF Holds
  <1>3. CASE e.term < lg[n].term
    <2>1. ~BootTerm(lg[n].term)
      BY <1>1, <1>3, NotBoot
    <2>2. PICK x \in elections : x.term = lg[n].term
      BY <2>1, MadeInTerm
    <2>3. Holds(x.log, j, e.term)
      BY <1>1, <1>3, <2>2
    <2>4. Len(x.log) < n /\ \A i \in 1..Len(x.log) : lg[i] = x.log[i]
      BY <2>2, TermLog
    <2>5. x.log \in Seq(Entry) /\ Len(x.log) \in Nat
      BY LogTypes
    <2> QED BY <1>1, <2>3, <2>4, <2>5 DEF Holds
  <1> QED BY <1>2, <1>3

-----------------------------------------------------------------------------
\* The end of what a request carries: the end of the leader's log.
EndIndex(r) == r.prevLogIndex + 1 + Len(r.entries)
EndTerm(r)  == IF Len(r.entries) = 0 THEN r.prevLogTerm ELSE r.entries[Len(r.entries)].term
RequestEnds ==
    \A r \in Requests : Len(r.entries) # 0 =>
        \E e \in elections :
            /\ e.term = r.term
            /\ \/ EndTerm(r) = e.term /\ EndIndex(r) > Len(e.log)
               \/ EndTerm(r) = LastLogTerm(e.log) /\ EndIndex(r) = Len(e.log)

\* AppendEntries keeps all entries before a difference.
LEMMA KeptAll ==
    ASSUME NEW lg \in Seq(Entry), NEW r \in AppendRequests, PrevMatches(r, lg),
           Merge(lg, r.prevLogIndex, r.entries) # lg,
           NEW k \in Nat, k <= Len(lg), k <= EndIndex(r),
           \A i \in 1..k : Merge(lg, r.prevLogIndex, r.entries)[i] = lg[i]
    PROVE  k <= r.prevLogIndex + 1 + Agreeing(lg, r.prevLogIndex, r.entries)
  <1> DEFINE prev == r.prevLogIndex
             es   == r.entries
             a    == Agreeing(lg, prev, es)
             m    == Merge(lg, prev, es)
             w    == prev + 1
  <1>1. prev \in Index /\ es \in Seq(Entry) /\ Len(es) \in Nat /\ Len(lg) \in Nat
    BY DEF AppendRequests
  <1>2. prev < Len(lg) /\ w \in Nat /\ prev \in Int
    BY <1>1 DEF PrevMatches, LastLogIndex, Index
  <1>3. /\ a \in 0..Len(es)
        /\ a < Len(es) => ~(prev + a + 2 <= Len(lg) /\ lg[prev + a + 2].term = es[a + 1].term)
    BY <1>1, AgreeingExact
  <1>4. \/ m = lg
        \/ a < Len(es) /\ \A h \in (a + 1)..Len(es) : m[w + h] = es[h]
    BY <1>1, <1>2, MergeShape
  <1>5. m # lg /\ k <= w + Len(es) /\ \A i \in 1..k : m[i] = lg[i]
    BY DEF EndIndex
  <1> HIDE DEF a, m, prev, es
  <1>6. a \in Nat /\ a < Len(es) /\ a + 1 \in (a + 1)..Len(es)
    BY <1>1, <1>3, <1>4, <1>5
  <1>7. prev + a + 2 = w + (a + 1) /\ w + (a + 1) = (w + a) + 1 /\ w + a \in Nat
    BY <1>2, <1>6
  <1> HIDE DEF w
  <1>8. k <= w + a
    <2> SUFFICES ASSUME k > w + a PROVE FALSE
      BY <1>7
    <2>1. w + (a + 1) \in 1..k /\ w + (a + 1) <= Len(lg)
      BY <1>1, <1>7
    <2>2. lg[w + (a + 1)] = es[a + 1]
      BY <1>4, <1>5, <1>6, <2>1
    <2> QED BY <1>3, <1>6, <1>7, <2>1, <2>2
  <1> QED BY <1>8 DEF a, prev, es, w

\* AppendEntries leaves an entry of term t alone when it comes from the leader
\* of that term, or from a later leader that was elected with that entry.
LEMMA MergeKeepsEntry ==
    ASSUME TypeInv, LogInv, RequestEnds, NEW r \in Requests, NEW lg, Made(lg), PrevMatches(r, lg),
           NEW e \in elections, NEW j \in Nat, Holds(lg, j, e.term), e.term <= r.term,
           \A x \in elections : x.term > e.term /\ x.term = r.term => Holds(x.log, j, e.term)
    PROVE  LET m == Merge(lg, r.prevLogIndex, r.entries)
           IN  /\ m # lg => j <= r.prevLogIndex + 1 + Agreeing(lg, r.prevLogIndex, r.entries)
               /\ \A i \in 1..j : m[i] = lg[i]
  <1> DEFINE m == Merge(lg, r.prevLogIndex, r.entries)
             N == EndIndex(r)
             tau == EndTerm(r)
  <1>1. /\ r \in AppendRequests /\ lg \in Seq(Entry) /\ Len(lg) \in Nat /\ r \in AppendThreads
        /\ r.prevLogIndex \in Index /\ r.entries \in Seq(Entry) /\ Len(r.entries) \in Nat
        /\ e.log \in Seq(Entry) /\ Len(e.log) \in Nat /\ e.term \in Nat /\ r.term \in Nat
        /\ j \in 1..Len(lg) /\ lg[j].term = e.term
    BY LogTypes DEF Made, Holds, Requests, AppendRequests
  <1>2. /\ r.prevLogIndex < Len(lg)
        /\ LogLinks(m) \subseteq LogLinks(lg) \cup RequestLinks(r)
    BY <1>1, MergedLinks DEF LogInv, AppendsOfLeaders
  <1>3. CASE m = lg
    BY <1>3
  <1>4. CASE m # lg
    <2> DEFINE a == Agreeing(lg, r.prevLogIndex, r.entries)
    <2>0. /\ a \in 0..Len(r.entries) /\ m \in Seq(Entry)
          /\ a < Len(r.entries) /\ Len(m) = N
          /\ \A k \in (a + 1)..Len(r.entries) : m[r.prevLogIndex + 1 + k] = r.entries[k]
      <3>1. a \in 0..Len(r.entries)
        BY <1>1, AgreeingExact
      <3> QED BY <1>1, <1>2, <1>4, <3>1, MergeShape, ZenonT(60) DEF EndIndex
    <2>1. /\ m \in Seq(Entry) /\ Len(r.entries) # 0 /\ Len(m) = N
          /\ Len(r.entries) \in (a + 1)..Len(r.entries)
      <3> HIDE DEF m, a, N
      <3> QED BY <1>1, <2>0
    <2>2. m[N].term = tau
      <3>1. m[N] = r.entries[Len(r.entries)]
        BY <2>0, <2>1 DEF EndIndex
      <3> QED BY <2>1, <3>1 DEF EndTerm
    <2> HIDE DEF a
    <2>3. N \in 1..Len(m) /\ N \in Nat
      BY <1>1, <2>1, SMTT(30) DEF EndIndex, Index
    <2>4. Made(m)
      BY <1>2, <2>1, LinkSources DEF Made
    <2>5. Unique(Links) /\ LogLinks(lg) \subseteq Links /\ LogLinks(m) \subseteq Links
      BY <2>4 DEF LogInv, LinksUnique, Made
    <2>6. ASSUME NEW k \in 1..Len(lg), k <= N, m[k].term = lg[k].term
          PROVE  /\ \A i \in 1..k : m[i] = lg[i]
                 /\ k <= r.prevLogIndex + 1 + Agreeing(lg, r.prevLogIndex, r.entries)
      <3>1. \A i \in 1..k : m[i] = lg[i]
        <4> HIDE DEF m, N
        <4>1. k \in 1..Len(m) /\ k <= Len(lg)
          BY <1>1, <2>1, <2>3, <2>6
        <4> QED BY <1>1, <2>1, <2>5, <2>6, <4>1, MatchingLogs, SMTT(30)
      <3>2. k \in Nat /\ k <= Len(lg)
        BY <1>1
      <3> QED BY <1>1, <1>4, <2>6, <3>1, <3>2, KeptAll
    <2>7. PICK x \in elections :
              /\ x.term = r.term
              /\ \/ tau = x.term /\ N > Len(x.log)
                 \/ tau = LastLogTerm(x.log) /\ N = Len(x.log)
      BY <2>1 DEF RequestEnds
    <2>8. x.log \in Seq(Entry) /\ Len(x.log) \in Nat /\ Made(x.log) /\ LogLinks(x.log) \subseteq Links
      BY LogTypes, MadeLogs DEF Made
    <2> HIDE DEF m, N, tau
    <2>9. ASSUME N = Len(x.log), tau = LastLogTerm(x.log) PROVE \A i \in 1..N : m[i] = x.log[i]
      <3>1. m[N].term = x.log[N].term
        BY <2>2, <2>3, <2>8, <2>9 DEF LastLogTerm
      <3>2. N <= Len(m) /\ N <= Len(x.log) /\ Len(m) \in Nat
        BY <2>1, <2>3, <2>8, <2>9
      <3>3. N \in 1..Len(m) /\ N \in 1..Len(x.log)
        BY <2>3, <2>8, <2>9
      <3> QED BY <2>1, <2>3, <2>5, <2>8, <3>1, <3>2, <3>3, MatchingLogs
    <2>10. j <= N /\ m[j].term = lg[j].term
      <3>1. CASE e.term < r.term
        <4>1. Holds(x.log, j, e.term)
          BY <1>1, <2>7, <3>1
        <4>2. j \in 1..Len(x.log) /\ x.log[j].term = lg[j].term
          BY <1>1, <4>1 DEF Holds
        <4>3. CASE tau = x.term /\ N > Len(x.log)
          <5>1. \A i \in 1..Len(x.log) : m[i] = x.log[i]
            BY <2>2, <2>3, <2>4, <4>3, TermLog
          <5> QED BY <2>3, <2>8, <4>2, <4>3, <5>1
        <4>4. CASE tau = LastLogTerm(x.log) /\ N = Len(x.log)
          <5>1. j \in 1..N /\ m[j] = x.log[j]
            BY <2>9, <4>2, <4>4
          <5> QED BY <4>2, <5>1, <2>3
        <4> QED BY <2>7, <4>3, <4>4
      <3>2. CASE e.term = r.term
        <4>1. x = e
          BY <2>7, <3>2 DEF LogInv, ElectionsWon
        <4>2. /\ Len(e.log) < j
              /\ \A i \in 1..Len(e.log) : lg[i] = e.log[i]
              /\ \A i \in (Len(e.log) + 1)..j : lg[i].term = e.term
          BY <1>1, TermLog
        <4>3. CASE tau = e.term /\ N > Len(e.log) /\ j <= N
          <5>1. \A i \in (Len(e.log) + 1)..N : m[i].term = e.term
            BY <2>2, <2>3, <2>4, <4>3, TermLog
          <5>2. j \in (Len(e.log) + 1)..N
            BY <1>1, <2>3, <4>2, <4>3
          <5> QED BY <1>1, <4>3, <5>1, <5>2
        <4>4. CASE N < j
          <5>1. lg[N].term = tau
            <6>1. CASE tau = e.term /\ N > Len(e.log)
              <7>1. N \in (Len(e.log) + 1)..j
                BY <1>1, <2>3, <4>4, <6>1
              <7> QED BY <4>2, <6>1, <7>1
            <6>2. CASE tau = LastLogTerm(e.log) /\ N = Len(e.log)
              <7>1. lg[N] = e.log[N] /\ LastLogTerm(e.log) = e.log[N].term
                BY <1>1, <2>3, <4>2, <6>2, SMTT(30) DEF LastLogTerm
              <7> QED BY <6>2, <7>1
            <6> QED BY <2>7, <4>1, <6>1, <6>2
          <5>2. N \in 1..Len(lg) /\ N <= N
            BY <1>1, <2>3, <4>4
          <5>3. N <= r.prevLogIndex + 1 + Agreeing(lg, r.prevLogIndex, r.entries)
            BY <2>2, <2>6, <5>1, <5>2
          <5>4. Agreeing(lg, r.prevLogIndex, r.entries) \in 0..Len(r.entries)
            BY <1>1, AgreeingExact
          <5>5. Agreeing(lg, r.prevLogIndex, r.entries) + 1 <= Len(r.entries)
            BY <1>1, <2>1, <5>4 DEF a
          <5> QED BY <1>1, <5>3, <5>4, <5>5 DEF N, EndIndex, Index
        <4>5. CASE tau = LastLogTerm(e.log) /\ N = Len(e.log)
          BY <1>1, <2>3, <4>2, <4>4, <4>5
        <4> QED BY <1>1, <2>3, <2>7, <4>1, <4>3, <4>4, <4>5
      <3> QED BY <1>1, <3>1, <3>2
    <2> QED BY <1>1, <2>6, <2>10 DEF m
  <1> QED BY <1>3, <1>4

-----------------------------------------------------------------------------
\* The kinds of steps, by what they do to logs, elections and requests: nothing;
\* a leader sends the end of its log; and Wins, LeaderRound and Overwrites.
Steady ==
    RolesKept /\ UNCHANGED <<log, elections>> /\ Requests' \subseteq Requests
Sent(s, q) ==
    /\ role[s] = "Leader"
    /\ q.from = s /\ q.term = currentTerm[s] /\ q.leaderCommit = commitIndex[s]
    /\ q.prevLogIndex = -1 => q.prevLogTerm = -1
    /\ PieceOf(q, log[s])
    /\ EndIndex(q) = Len(log[s])
Sends ==
    /\ RolesKept /\ UNCHANGED <<log, elections, committed, commitIndex>>
    /\ \E s \in Server : \E q \in AppendRequests : Sent(s, q) /\ Requests' \subseteq Requests \cup {q}

LEMMA StepKinds ==
    ASSUME Scheduled, ReplicationInv, [Next]_vars
    PROVE  \/ Steady
           \/ Sends
           \/ \E s \in Server : Wins(s) \/ LeaderRound(s)
           \/ \E r \in Requests : Overwrites(r)
  <1>1. TypeInv /\ RoundsAreLeaders /\ NextInBounds /\ ~StaleReplies
    BY DEF ReplicationInv, LogInv, Scheduled, Remembered
  <1>2. ASSUME Calm PROVE Steady
    BY <1>2 DEF Calm, Steady, Requests
  <1>3. ASSUME NEW s \in Server, RunLeaderOneIter(s) \/ CrashInRound(s) PROVE LeaderRound(s)
    BY <1>1, <1>3, RoundExtends
  <1>4. ASSUME NEW r \in Threads("spawned", "AppendEntries"), SendAppendEntries(r) PROVE Sends
    <2>1. /\ r \in AppendThreads /\ r.from \in Server /\ r.phase = "spawned"
          /\ UNCHANGED <<currentTerm, log, role, voted, elections, committed, commitIndex>>
      BY <1>1, <1>4, LogTypes
         DEF Threads, AppendThreads, SendAppendEntries, persistentVars, historyVars, applyVars
    <2>2. role[r.from] = "Leader" /\ r.term = currentTerm[r.from]
      BY <1>1, <2>1 DEF RoundsAreLeaders
    <2>3. PICK q \in AppendRequests :
              /\ rpcs' = (rpcs \ {r}) \cup {q}
              /\ q.from = r.from /\ q.term = r.term
              /\ q.prevLogIndex = -1 => q.prevLogTerm = -1
              /\ q.leaderCommit = commitIndex[r.from]
              /\ PieceOf(q, log[r.from])
              /\ q.prevLogIndex + 1 + Len(q.entries) = Len(log[r.from])
      BY <1>1, <1>4, SentPiece
    <2>4. Sent(r.from, q)
      BY <2>2, <2>3 DEF Sent, EndIndex
    <2>5. Requests' \subseteq Requests \cup {q}
      BY <2>3 DEF Requests, AppendThreads
    <2>6. RolesKept
      BY <1>1, <2>1, LogTypes DEF RolesKept
    <2> QED BY <2>1, <2>4, <2>5, <2>6 DEF Sends
  <1>5. ASSUME NEW r \in Threads("request", "AppendEntries"),
               AppendEntries(r) \/ CrashInAppendEntries(r)
        PROVE  Steady \/ \E q \in Requests : Overwrites(q)
    <2>1. r \in Requests
      BY DEF Threads, Requests, AppendThreads
    <2>2. ASSUME Refuses(r) PROVE Steady
      <3>1. AppendReply(r, currentTerm'[r.to], FALSE).phase # "request"
        BY DEF AppendReply
      <3> QED BY <2>2, <3>1 DEF Refuses, Steady, Requests
    <2> QED BY <1>1, <1>5, <2>1, <2>2, AppendEntriesShape
  <1>6. ASSUME NEW r \in Threads("reply", "AppendEntries"), Timely(r), AppendEntriesReply(r)
        PROVE  Steady
    <2>1. log' = log /\ elections' = elections /\ rpcs' \subseteq rpcs
      BY <1>6 DEF AppendEntriesReply
    <2>2. RolesKept
      BY <1>1, <1>6, QuietAppendEntriesReply, QuietKeepsRoles
    <2> QED BY <2>1, <2>2 DEF Steady, Requests, AppendThreads
  <1>7. ASSUME NEW r \in Threads("reply", "RequestVote"), Timely(r), RequestVoteReply(r)
        PROVE  Steady \/ \E s \in Server : Wins(s)
    <2>1. r.from \in Server
      BY <1>1, ThreadKinds DEF TypeInv, TypeOK, Threads
    <2> QED BY <1>1, <1>2, <1>7, <2>1, CalmRequestVoteReply
  <1>8. ASSUME NEW r \in rpcs, LoseRPC(r) PROVE Steady
    <2>1. r.from \in Server
      BY <1>1, ThreadKinds DEF TypeInv, TypeOK
    <2> QED BY <1>1, <1>2, <1>8, <2>1, CalmFailure
  <1>9. ASSUME NEW s \in Server,
               \/ (\E op \in Op : Submit(s, op)) \/ RaftImplLeader(s) \/ RaftImplOther(s)
               \/ Crash(s) \/ CrashInPersist(s)
        PROVE  Steady
    BY <1>1, <1>2, <1>9, CalmFailure, CalmInput
  <1>10. CASE \/ \E s \in Server : StartElection(s)
              \/ \E r \in Threads("spawned", "RequestVote") : SendRequestVote(r)
              \/ \E r \in Threads("request", "RequestVote") : RequestVote(r)
    BY <1>1, <1>2, <1>10, CalmElection
  <1>11. CASE UNCHANGED vars
    <2>1. /\ UNCHANGED <<currentTerm, log, role, voted, elections, rpcs>>
          /\ \A s \in Server : currentTerm[s] \in Nat
      BY <1>1, <1>11, LogTypes DEF vars, persistentVars, historyVars
    <2> QED BY <2>1 DEF Steady, RolesKept, Requests, AppendThreads
  <1> QED BY <1>3, <1>4, <1>5, <1>6, <1>7, <1>8, <1>9, <1>10, <1>11 DEF Next, Continue

\* What all steps do: terms grow, elections stay on record.
LEMMA Grow ==
    ASSUME Scheduled, ReplicationInv, [Next]_vars
    PROVE  /\ \A s \in Server : currentTerm'[s] >= currentTerm[s]
           /\ elections \subseteq elections' /\ voted \subseteq voted'
  <1>1. \A s \in Server : currentTerm[s] \in Nat
    BY LogTypes DEF ReplicationInv
  <1> DEFINE Goal == /\ \A s \in Server : currentTerm'[s] >= currentTerm[s]
                     /\ elections \subseteq elections' /\ voted \subseteq voted'
  <1>2. ASSUME RolesKept, elections' = elections PROVE Goal
    BY <1>2 DEF RolesKept
  <1>3. ASSUME NEW s \in Server, Wins(s) PROVE Goal
    BY <1>1, <1>3 DEF Wins
  <1>4. ASSUME NEW s \in Server, LeaderRound(s) PROVE Goal
    BY <1>2, <1>4 DEF LeaderRound
  <1>5. ASSUME NEW r \in Requests, Overwrites(r) PROVE Goal
    BY <1>2, <1>5 DEF Overwrites
  <1>6. Steady \/ Sends => Goal
    BY <1>2 DEF Steady, Sends
  <1> HIDE DEF Goal
  <1>7. Goal
    BY <1>3, <1>4, <1>5, <1>6, StepKinds
  <1> QED BY <1>7 DEF Goal

LEMMA InitTermsBounded == ASSUME Recovered PROVE Init => TermsBounded /\ RequestEnds
  BY DEF Init, Recovered, TermsBounded, RequestEnds, Requests, AppendThreads

\* A leader's log ends in its election, or with an entry of its term, and so
\* does what it sends.
LEMMA SentEnd ==
    ASSUME TypeInv, LogInv, NEW s \in Server, NEW q \in AppendRequests, Sent(s, q), Len(q.entries) # 0
    PROVE  \E e \in elections :
            /\ e.term = q.term
            /\ \/ EndTerm(q) = e.term /\ EndIndex(q) > Len(e.log)
               \/ EndTerm(q) = LastLogTerm(e.log) /\ EndIndex(q) = Len(e.log)
  <1> DEFINE N == EndIndex(q)
  <1>1. role[s] = "Leader" /\ q.term = currentTerm[s] /\ PieceOf(q, log[s]) /\ N = Len(log[s])
    BY DEF Sent
  <1>2. /\ q.entries \in Seq(Entry) /\ Len(q.entries) \in Nat /\ q.prevLogIndex \in Index
        /\ Len(log[s]) \in Nat
    BY LogTypes DEF AppendRequests
  <1>3. PICK e \in elections : ElectedIn(s, currentTerm[s], e) /\ ExtendedIn(e, log[s])
    BY <1>1 DEF LogInv, LeaderExtends
  <1>4. e.log \in Seq(Entry) /\ Len(e.log) \in Nat
    BY LogTypes
  <1>5. Len(q.entries) \in 1..Len(q.entries) /\ EndTerm(q) = q.entries[Len(q.entries)].term
    BY <1>2 DEF EndTerm
  <1>6. EndTerm(q) = log[s][N].term
    BY <1>1, <1>5 DEF PieceOf, EndIndex
  <1>7. N \in Nat /\ N >= 1
    BY <1>1, <1>2 DEF EndIndex, Index
  <1> HIDE DEF N
  <1>8. CASE N > Len(e.log)
    <2>1. N \in (Len(e.log) + 1)..Len(log[s])
      BY <1>1, <1>2, <1>4, <1>7, <1>8
    <2>2. log[s][N].term = e.term
      BY <1>3, <2>1 DEF ExtendedIn
    <2> QED BY <1>1, <1>3, <1>6, <1>8, <2>2 DEF ElectedIn, N
  <1>9. CASE N = Len(e.log)
    <2>1. log[s][N] = e.log[N] /\ LastLogTerm(e.log) = e.log[N].term
      BY <1>3, <1>4, <1>7, <1>9 DEF ExtendedIn, LastLogTerm
    <2> QED BY <1>1, <1>3, <1>6, <1>9, <2>1 DEF ElectedIn, N
  <1> QED BY <1>1, <1>2, <1>3, <1>4, <1>7, <1>8, <1>9 DEF ExtendedIn

LEMMA NextRequestEnds ==
    ASSUME Scheduled, ReplicationInv, RequestEnds, [Next]_vars
    PROVE  RequestEnds'
  <1>1. elections \subseteq elections'
    BY Grow
  <1>2. TypeInv /\ LogInv
    BY DEF ReplicationInv
  <1>3. CASE Requests' \subseteq Requests
    BY <1>1, <1>3 DEF RequestEnds
  <1>4. CASE Sends
    <2>1. PICK s \in Server, q \in AppendRequests : Sent(s, q) /\ Requests' \subseteq Requests \cup {q}
      BY <1>4 DEF Sends
    <2> QED BY <1>1, <1>2, <2>1, SentEnd DEF RequestEnds
  <1>5. \A r \in Requests : Overwrites(r) => Requests' \subseteq Requests
    <2>1. \A r : AppendReply(r, r.term, TRUE).phase # "request"
      BY DEF AppendReply
    <2> QED BY <2>1 DEF Overwrites, Requests
  <1>6. \A s \in Server : Wins(s) \/ LeaderRound(s) => Requests' \subseteq Requests
    BY DEF Wins, LeaderRound, Requests
  <1> QED BY <1>3, <1>4, <1>5, <1>6, StepKinds DEF Steady

LEMMA Offset ==
    ASSUME NEW p \in Int, NEW a \in Nat, NEW n \in Nat, NEW i \in Nat, i > p + 1 + a, i <= p + 1 + n
    PROVE  /\ i - (p + 1) \in (a + 1)..n /\ i - (p + 1) \in 1..n
           /\ p + 1 + (i - (p + 1)) = i
  OBVIOUS

LEMMA NextTermsBounded ==
    ASSUME Scheduled, ReplicationInv, ReplicationInv', TermsBounded, [Next]_vars
    PROVE  TermsBounded'
  <1>1. TypeInv /\ TypeInv' /\ LogInv
    BY DEF ReplicationInv
  <1>2. /\ \A s \in Server : /\ currentTerm[s] \in Nat /\ currentTerm'[s] \in Nat
                             /\ log[s] \in Seq(Entry) /\ Len(log[s]) \in Nat
                             /\ \A i \in 1..Len(log[s]) : log[s][i].term \in Nat
        /\ \A r \in Requests : r.to \in Server /\ r.term \in Nat /\ r \in AppendRequests
    <2>1. \A r \in Requests : r \in AppendThreads
      BY DEF Requests
    <2> QED BY <1>1, <2>1, LogTypes, NewTypes, EntryTerms
  <1>3. \A s \in Server : currentTerm'[s] >= currentTerm[s]
    BY Grow
  <1>4. ASSUME NEW s \in Server, log'[s] = log[s], NEW i \in 1..Len(log'[s])
        PROVE  log'[s][i].term <= currentTerm'[s]
    <2>1. log[s][i].term <= currentTerm[s] /\ log[s][i].term \in Nat
      BY <1>2, <1>4 DEF TermsBounded
    <2> QED BY <1>2, <1>3, <1>4, <2>1
  <1>5. CASE Steady
    BY <1>4, <1>5 DEF Steady, TermsBounded
  <1>6. CASE Sends
    <2>1. PICK s \in Server, q \in AppendRequests : Sent(s, q) /\ Requests' \subseteq Requests \cup {q}
      BY <1>6 DEF Sends
    <2>2. ASSUME NEW k \in 1..Len(q.entries) PROVE q.entries[k].term <= q.term
      <3>1. q.prevLogIndex \in Index /\ Len(q.entries) \in Nat
        BY DEF AppendRequests
      <3>2. q.prevLogIndex + 1 + k \in 1..Len(log[s]) /\ q.entries[k] = log[s][q.prevLogIndex + 1 + k]
        BY <1>2, <2>1, <3>1, SMTT(30) DEF Sent, PieceOf, Index
      <3> QED BY <2>1, <3>2 DEF Sent, TermsBounded
    <2> QED BY <1>4, <1>6, <2>1, <2>2 DEF Sends, TermsBounded
  <1>7. ASSUME NEW s \in Server, Wins(s) PROVE TermsBounded'
    <2>1. PICK e : /\ elections' = elections \cup {e} /\ e.term = currentTerm[s] /\ e.log = log[s]
                   /\ log' = log /\ Requests' = Requests
      <3> DEFINE e == [term |-> currentTerm[s], leader |-> s, log |-> log[s],
                       voters |-> Voters(s, currentTerm[s])]
      <3>1. /\ elections' = elections \cup {e} /\ log' = log /\ Requests' = Requests
        BY <1>7 DEF Wins, Requests
      <3>2. e.term = currentTerm[s] /\ e.log = log[s]
        OBVIOUS
      <3> HIDE DEF e
      <3> QED BY <3>1, <3>2
    <2> QED BY <1>4, <2>1 DEF TermsBounded
  <1>8. ASSUME NEW s \in Server, LeaderRound(s) PROVE TermsBounded'
    <2>1. PICK es \in Seq(Entry) : /\ \A k \in 1..Len(es) : es[k].term = currentTerm[s]
                                   /\ log' = [log EXCEPT ![s] = @ \o es]
      BY <1>8 DEF LeaderRound
    <2> DEFINE new == log[s] \o es
    <2>2. log'[s] = new /\ \A p \in Server \ {s} : log'[p] = log[p]
      BY <1>1, <2>1, LogTypes
    <2>3. /\ Len(new) = Len(log[s]) + Len(es) /\ Len(es) \in Nat
          /\ \A i \in 1..Len(log[s]) : new[i] = log[s][i]
          /\ \A k \in 1..Len(es) : new[Len(log[s]) + k] = es[k]
      BY <1>2, ConcatParts
    <2> HIDE DEF new
    <2>4. ASSUME NEW i \in 1..Len(new) PROVE new[i].term <= currentTerm[s] /\ new[i].term \in Nat
      <3>1. CASE i <= Len(log[s])
        BY <1>2, <2>3, <3>1 DEF TermsBounded
      <3>2. CASE i > Len(log[s])
        <4>1. i - Len(log[s]) \in 1..Len(es) /\ Len(log[s]) + (i - Len(log[s])) = i
          BY <1>2, <2>3, <3>2
        <4>2. new[i] = es[i - Len(log[s])]
          BY <2>3, <4>1
        <4>3. new[i].term = currentTerm[s] /\ currentTerm[s] \in Nat
          BY <1>2, <2>1, <4>1, <4>2
        <4> QED BY <4>3
      <3> QED BY <1>2, <2>3, <3>1, <3>2
    <2>5. \A i \in 1..Len(log'[s]) : log'[s][i].term <= currentTerm'[s]
      BY <1>2, <1>3, <2>2, <2>4
    <2>6. elections' = elections /\ Requests' \subseteq Requests
      BY <1>8 DEF LeaderRound
    <2>7. \A p \in Server : \A i \in 1..Len(log'[p]) : log'[p][i].term <= currentTerm'[p]
      BY <1>4, <2>2, <2>5
    <2> QED BY <2>6, <2>7 DEF TermsBounded
  <1>9. ASSUME NEW r \in Requests, Overwrites(r) PROVE TermsBounded'
    <2> DEFINE s  == r.to
               lg == log[s]
               m  == Merge(lg, r.prevLogIndex, r.entries)
               a  == Agreeing(lg, r.prevLogIndex, r.entries)
    <2>1. /\ r.term >= currentTerm[s] /\ PrevMatches(r, lg) /\ currentTerm'[s] = r.term
          /\ elections' = elections
      BY <1>9 DEF Overwrites, Accepted
    <2>2. PICK n \in (r.prevLogIndex + 1 + a)..Len(m) : log' = [log EXCEPT ![s] = SubSeq(m, 1, n)]
      BY <1>9 DEF Overwrites
    <2>3. /\ s \in Server /\ lg \in Seq(Entry) /\ Len(lg) \in Nat /\ r.prevLogIndex \in Index
          /\ r.entries \in Seq(Entry) /\ Len(r.entries) \in Nat
      BY <1>2 DEF AppendRequests
    <2>4. r.prevLogIndex < Len(lg)
      BY <2>1, <2>3 DEF PrevMatches, LastLogIndex, Index
    <2>5. /\ m \in Seq(Entry) /\ a \in 0..Len(r.entries) /\ r.prevLogIndex + 1 + a <= Len(lg)
          /\ \/ m = lg
             \/ /\ Len(m) = r.prevLogIndex + 1 + Len(r.entries)
                /\ \A i \in 1..(r.prevLogIndex + 1 + a) : m[i] = lg[i]
                /\ \A k \in (a + 1)..Len(r.entries) : m[r.prevLogIndex + 1 + k] = r.entries[k]
      <3>1. a \in 0..Len(r.entries)
        BY <2>3, AgreeingExact
      <3> QED BY <2>3, <2>4, <3>1, MergeShape, ZenonT(60)
    <2> HIDE DEF m, a
    <2>6. ASSUME NEW i \in 1..Len(m) PROVE m[i].term <= r.term
      <3>1. ASSUME m[i] = lg[i], i \in 1..Len(lg) PROVE m[i].term <= r.term
        <4>1. lg[i].term <= currentTerm[s]
          BY <2>3, <3>1 DEF TermsBounded
        <4>2. lg[i].term \in Nat /\ currentTerm[s] \in Nat /\ r.term \in Nat
          BY <1>2, <2>3, <3>1
        <4> HIDE DEF lg, s
        <4> QED BY <2>1, <3>1, <4>1, <4>2
      <3>2. CASE m = lg
        BY <3>1, <3>2
      <3>3. CASE m # lg /\ i <= r.prevLogIndex + 1 + a
        <4>1. i \in 1..(r.prevLogIndex + 1 + a) /\ i \in 1..Len(lg)
          BY <2>3, <2>5, <3>3, SMTT(30) DEF Index
        <4> QED BY <2>5, <3>1, <3>3, <4>1
      <3>4. CASE m # lg /\ i > r.prevLogIndex + 1 + a
        <4> DEFINE k == i - (r.prevLogIndex + 1)
        <4>0. r.prevLogIndex \in Int /\ a \in Nat /\ Len(m) = r.prevLogIndex + 1 + Len(r.entries)
              /\ i \in Nat /\ i <= Len(m)
          BY <2>3, <2>5, <3>4 DEF Index
        <4>1. k \in (a + 1)..Len(r.entries) /\ k \in 1..Len(r.entries) /\ r.prevLogIndex + 1 + k = i
          BY <2>3, <3>4, <4>0, Offset, SMTT(30)
        <4>2. m[i] = r.entries[k]
          <5> HIDE DEF k
          <5> QED BY <2>5, <3>4, <4>1
        <4> HIDE DEF k
        <4> QED BY <4>1, <4>2 DEF TermsBounded
      <3> QED BY <2>3, <2>5, <3>2, <3>3, <3>4 DEF Index
    <2>7. n \in 0..Len(m) /\ Len(m) \in Nat
      BY <2>2, <2>3, <2>5 DEF Index
    <2>8. Len(SubSeq(m, 1, n)) = n /\ \A i \in 1..n : SubSeq(m, 1, n)[i] = m[i]
      BY <2>5, <2>7, PrefixLinks
    <2>9. log'[s] = SubSeq(m, 1, n) /\ \A p \in Server \ {s} : log'[p] = log[p]
      BY <1>1, <2>2, <2>3, LogTypes
    <2>10. \A i \in 1..Len(log'[s]) : log'[s][i].term <= currentTerm'[s]
      <3>1. \A i \in 1..n : i \in 1..Len(m)
        BY <2>7
      <3> QED BY <2>1, <2>6, <2>8, <2>9, <3>1
    <2>11. \A p \in Server : \A i \in 1..Len(log'[p]) : log'[p][i].term <= currentTerm'[p]
      BY <1>4, <2>9, <2>10
    <2>12. Requests' \subseteq Requests
      <3>1. AppendReply(r, r.term, TRUE).phase # "request"
        BY DEF AppendReply
      <3> QED BY <1>9, <3>1 DEF Overwrites, Requests
    <2> QED BY <2>1, <2>11, <2>12 DEF TermsBounded
  <1> QED BY <1>5, <1>6, <1>7, <1>8, <1>9, StepKinds

-----------------------------------------------------------------------------
\* Votes.  Nobody has voted for a replica in a term it has not reached, and as
\* long as a candidate runs, the requests for votes tell the end of its log.
VotesOfStanders == \A v \in voted : v.term <= currentTerm[v.candidate]
SpawnedByCandidates == \A r \in VoteThreads : r.phase = "spawned" => Runs(r.from, r.term)
VoteRequestsTrue ==
    \A r \in VoteThreads : r.phase = "request" /\ Runs(r.from, r.term) =>
        /\ r.lastLogIndex = LastLogIndex(log[r.from])
        /\ r.lastLogTerm = LastLogTerm(log[r.from])
VotesInv == VotesOfStanders /\ SpawnedByCandidates /\ VoteRequestsTrue /\ Electors

LEMMA VoteTypes ==
    ASSUME TypeInv
    PROVE  /\ \A r \in VoteThreads : r.from \in Server /\ r.to \in Server /\ r.term \in Nat
           /\ \A v \in voted : v.voter \in Server /\ v.candidate \in Server /\ v.term \in Nat
           /\ \A x \in elections : x.voters \in SUBSET Server
  <1>1. \A r \in VoteThreads : r \in RPC
    BY DEF TypeInv, TypeOK, VoteThreads
  <1> QED BY <1>1, ThreadKinds DEF TypeInv, TypeOK, Term

\* The kinds of steps, by what they do to candidates, votes and requests for
\* votes.
NobodyStands ==
    \A s \in Server : role'[s] = "Candidate" => role[s] = "Candidate" /\ currentTerm'[s] = currentTerm[s]

LEMMA VoteKinds ==
    ASSUME Scheduled, ReplicationInv, [Next]_vars
    PROVE  \/ voted' = voted /\ VoteThreads' \subseteq VoteThreads /\ NobodyStands
           \/ \E s \in Server : Settled /\ StartElection(s)
           \/ \E r \in Threads("spawned", "RequestVote") : SendRequestVote(r)
           \/ \E r \in Threads("request", "RequestVote") : Settled /\ RequestVote(r)
  <1> DEFINE Other == voted' = voted /\ VoteThreads' \subseteq VoteThreads /\ NobodyStands
  <1>1. TypeInv /\ ~StaleReplies
    BY DEF ReplicationInv, Scheduled, Remembered
  <1>2. role \in [Server -> {"Follower", "Candidate", "Leader"}]
    BY <1>1, LogTypes
  <1>3. ASSUME Quiet PROVE Other
    BY <1>3 DEF Quiet, Keeps, Follows, NobodyStands
  <1>4. ASSUME NEW s \in Server,
               \/ (\E op \in Op : Submit(s, op)) \/ RaftImplLeader(s) \/ RaftImplOther(s)
               \/ RunLeaderOneIter(s)
        PROVE  Quiet
    BY <1>1, <1>4, QuietReplication
  <1>5. ASSUME NEW s \in Server, Crash(s) \/ CrashInPersist(s) \/ CrashInRound(s)
        PROVE  Quiet
    BY <1>1, <1>5, QuietFailure
  <1>6. ASSUME NEW r \in rpcs, LoseRPC(r) PROVE Quiet
    <2>1. r.from \in Server
      BY <1>1, ThreadKinds DEF TypeInv, TypeOK
    <2> QED BY <1>1, <1>6, <2>1, QuietFailure
  <1>7. ASSUME NEW r \in Threads("spawned", "AppendEntries"), SendAppendEntries(r) PROVE Other
    <2>1. UNCHANGED <<voted, role, currentTerm>> /\ VoteThreads' \subseteq VoteThreads
      BY <1>7 DEF SendAppendEntries, AppendRequest, VoteThreads, persistentVars, historyVars
    <2> QED BY <2>1 DEF NobodyStands
  <1>8. ASSUME NEW r \in Threads("request", "AppendEntries"),
               AppendEntries(r) \/ CrashInAppendEntries(r)
        PROVE  Quiet
    BY <1>1, <1>8, QuietAppendEntries, QuietCrashInAppendEntries
  <1>9. ASSUME NEW r \in Threads("reply", "AppendEntries"), Timely(r), AppendEntriesReply(r)
        PROVE  Quiet
    BY <1>1, <1>9, QuietAppendEntriesReply
  <1>10. ASSUME NEW r \in Threads("reply", "RequestVote"), RequestVoteReply(r) PROVE Other
    <2>1. voted' = voted /\ VoteThreads' \subseteq VoteThreads
      BY <1>10 DEF RequestVoteReply, VoteThreads
    <2>2. CASE UNCHANGED <<role, currentTerm>>
      BY <2>1, <2>2 DEF NobodyStands
    <2>3. CASE BecomeFollower(r.from, r.replyTerm)
      BY <1>1, <1>2, <2>1, <2>3, LogTypes DEF BecomeFollower, NobodyStands
    <2>4. CASE BecomeLeader(r.from) /\ UNCHANGED currentTerm
      BY <1>2, <2>1, <2>4 DEF BecomeLeader, NobodyStands
    <2> QED BY <1>10, <2>2, <2>3, <2>4 DEF RequestVoteReply
  <1>11. ASSUME UNCHANGED vars PROVE Other
    <2>1. UNCHANGED <<voted, role, currentTerm, rpcs>>
      BY <1>11 DEF vars, persistentVars, historyVars
    <2> QED BY <2>1 DEF NobodyStands, VoteThreads
  <1> HIDE DEF Other
  <1> SUFFICES ASSUME ~Other,
                      ~\E s \in Server : Settled /\ StartElection(s),
                      ~\E r \in Threads("spawned", "RequestVote") : SendRequestVote(r),
                      ~\E r \in Threads("request", "RequestVote") : Settled /\ RequestVote(r)
               PROVE  FALSE
    BY DEF Other
  <1> QED BY <1>3, <1>4, <1>5, <1>6, <1>7, <1>8, <1>9, <1>10, <1>11 DEF Next, Continue

\* A candidate's log does not change.
LEMMA CandidateLog ==
    ASSUME Scheduled, ReplicationInv, [Next]_vars, NobodyStands, NEW s \in Server,
           role'[s] = "Candidate"
    PROVE  log'[s] = log[s]
  <1>1. TypeInv
    BY DEF ReplicationInv
  <1>2. role[s] = "Candidate"
    BY DEF NobodyStands
  <1>3. ASSUME NEW p \in Server, LeaderRound(p) PROVE log'[s] = log[s]
    <2>1. p # s
      BY <1>2, <1>3 DEF LeaderRound
    <2> QED BY <1>1, <1>3, <2>1, LogTypes DEF LeaderRound
  <1>4. ASSUME NEW r \in Requests, Overwrites(r) PROVE log'[s] = log[s]
    <2>1. r.to # s
      BY <1>4 DEF Overwrites
    <2> QED BY <1>1, <1>4, <2>1, LogTypes DEF Overwrites
  <1> QED BY <1>3, <1>4, StepKinds DEF Steady, Sends, Wins

\* What a request for a vote, and a new vote, do.
LEMMA Votes ==
    ASSUME TypeInv, NEW r \in Threads("request", "RequestVote"), RequestVote(r)
    PROVE  /\ r \in VoteThreads /\ r.to \in Server /\ r.from \in Server /\ r.term \in Nat
           /\ r \in VoteRequests /\ r.phase = "request"
           /\ UNCHANGED <<log, elections>> /\ NobodyStands
           /\ \A q \in VoteThreads' : q \in VoteThreads \/ q.phase = "reply"
           /\ \A v \in voted' : \/ v \in voted
                                \/ /\ v = Vote(r.to, r.term, r.from) /\ UpToDate(r, log[r.to])
                                   /\ currentTerm'[r.to] = r.term /\ r.term >= currentTerm[r.to]
  <1>1. r \in VoteThreads /\ r \in VoteRequests /\ r.phase = "request"
    BY ThreadKinds DEF Threads, VoteThreads, TypeInv, TypeOK
  <1>2. r.to \in Server /\ r.from \in Server /\ r.term \in Nat
    BY <1>1 DEF VoteRequests, Term
  <1>3. /\ currentTerm \in [Server -> Nat] /\ role \in [Server -> {"Follower", "Candidate", "Leader"}]
    BY LogTypes
  <1>4. NobodyStands
    BY <1>2, <1>3 DEF RequestVote, Newer, NobodyStands
  <1>5. UNCHANGED <<log, elections>>
    BY DEF RequestVote
  <1>6. \A q \in VoteThreads' : q \in VoteThreads \/ q.phase = "reply"
    BY DEF RequestVote, VoteReply, VoteThreads
  <1>7. ASSUME NEW v \in voted', v \notin voted
        PROVE  /\ v = Vote(r.to, r.term, r.from) /\ UpToDate(r, log[r.to])
               /\ currentTerm'[r.to] = r.term /\ r.term >= currentTerm[r.to]
    <2> DEFINE term == IF Newer(r) THEN r.term ELSE currentTerm[r.to]
    <2>1. /\ r.term = term /\ UpToDate(r, log[r.to]) /\ v = Vote(r.to, term, r.from)
          /\ currentTerm' = [currentTerm EXCEPT ![r.to] = term]
      BY <1>7 DEF RequestVote
    <2>2. term >= currentTerm[r.to]
      BY <1>2, <1>3 DEF Newer
    <2> HIDE DEF term
    <2> QED BY <1>2, <1>3, <2>1, <2>2
  <1> QED BY <1>1, <1>2, <1>4, <1>5, <1>6, <1>7

LEMMA InitVotesInv == Init => VotesInv
  BY DEF Init, VotesInv, VotesOfStanders, SpawnedByCandidates, VoteRequestsTrue, Electors, VoteThreads

LEMMA Stands ==
    ASSUME TypeInv, NEW s \in Server, StartElection(s)
    PROVE  /\ currentTerm[s] \in Nat /\ currentTerm'[s] = currentTerm[s] + 1 /\ role'[s] = "Candidate"
           /\ \A p \in Server \ {s} : role'[p] = role[p] /\ currentTerm'[p] = currentTerm[p]
           /\ UNCHANGED <<log, elections>>
           /\ voted' = voted \cup {Vote(s, currentTerm[s] + 1, s)}
           /\ \A q \in VoteThreads' :
                 \/ q \in VoteThreads
                 \/ q.phase = "spawned" /\ q.from = s /\ q.term = currentTerm[s] + 1
  <1>1. /\ currentTerm \in [Server -> Nat] /\ role \in [Server -> {"Follower", "Candidate", "Leader"}]
    BY LogTypes
  <1>2. \A q \in VoteThreads' :
            \/ q \in VoteThreads
            \/ q.phase = "spawned" /\ q.from = s /\ q.term = currentTerm[s] + 1
    BY DEF StartElection, Spawned, VoteThreads
  <1> QED BY <1>1, <1>2 DEF StartElection, BecomeCandidate

LEMMA NextVotesOfStanders ==
    ASSUME Scheduled, ReplicationInv, VotesInv, [Next]_vars
    PROVE  VotesOfStanders'
  <1>1. TypeInv /\ AskedOnce
    BY DEF ReplicationInv, ElectionInv
  <1>2. /\ \A s \in Server : currentTerm[s] \in Nat /\ currentTerm'[s] >= currentTerm[s]
        /\ \A v \in voted : v.candidate \in Server /\ v.term \in Nat
    BY <1>1, Grow, LogTypes, VoteTypes
  <1>3. \A s \in Server : currentTerm'[s] \in Nat
    BY NextReplicationInv, NewTypes DEF ReplicationInv
  <1>4. \A v \in voted : v.term <= currentTerm'[v.candidate]
    BY <1>2, <1>3 DEF VotesInv, VotesOfStanders
  <1>5. ASSUME NEW s \in Server, StartElection(s) PROVE VotesOfStanders'
    <2>1. voted' = voted \cup {Vote(s, currentTerm[s] + 1, s)} /\ currentTerm'[s] = currentTerm[s] + 1
      BY <1>1, <1>5, Stands
    <2>2. LET v == Vote(s, currentTerm[s] + 1, s) IN v.term <= currentTerm'[v.candidate]
      BY <1>2, <2>1 DEF Vote
    <2> QED BY <1>4, <2>1, <2>2 DEF VotesOfStanders
  <1>6. ASSUME NEW r \in Threads("request", "RequestVote"), RequestVote(r) PROVE VotesOfStanders'
    <2>1. /\ r \in VoteThreads /\ r.from \in Server /\ r.term \in Nat
          /\ \A v \in voted' : v \in voted \/ v = Vote(r.to, r.term, r.from)
      BY <1>1, <1>6, Votes
    <2>2. r.term <= currentTerm'[r.from]
      BY <1>1, <1>2, <1>3, <2>1 DEF AskedOnce
    <2> QED BY <1>4, <2>1, <2>2 DEF VotesOfStanders, Vote
  <1>7. ASSUME NEW r \in Threads("spawned", "RequestVote"), SendRequestVote(r) PROVE voted' = voted
    BY <1>7 DEF SendRequestVote, historyVars
  <1> QED BY <1>4, <1>5, <1>6, <1>7, VoteKinds DEF VotesOfStanders

LEMMA NextSpawned ==
    ASSUME Scheduled, ReplicationInv, VotesInv, [Next]_vars
    PROVE  SpawnedByCandidates'
  <1>1. TypeInv /\ ~Preemption
    BY DEF ReplicationInv, Scheduled
  <1>2. role \in [Server -> {"Follower", "Candidate", "Leader"}]
    BY <1>1, LogTypes
  <1>3. CASE Settled
    <2>1. \A r \in VoteThreads : r.phase # "spawned"
      BY <1>1, <1>3 DEF Settled, VoteThreads
    <2>2. ASSUME NEW s \in Server, StartElection(s) PROVE SpawnedByCandidates'
      BY <1>1, <2>1, <2>2, Stands DEF SpawnedByCandidates, Runs
    <2>3. ASSUME NEW r \in Threads("request", "RequestVote"), RequestVote(r) PROVE SpawnedByCandidates'
      BY <1>1, <2>1, <2>3, Votes DEF SpawnedByCandidates
    <2>4. Threads("spawned", "RequestVote") = {}
      BY <2>1 DEF Threads, VoteThreads
    <2> QED BY <2>1, <2>2, <2>3, <2>4, VoteKinds DEF SpawnedByCandidates
  <1>4. ASSUME NEW s \in Server, RunLeaderOneIter(s) PROVE SpawnedByCandidates'
    <2>1. UNCHANGED <<role, currentTerm>> /\ VoteThreads' \subseteq VoteThreads
      BY <1>4 DEF RunLeaderOneIter, Spawned, VoteThreads
    <2> QED BY <2>1 DEF VotesInv, SpawnedByCandidates, Runs
  <1>5. ASSUME NEW s \in Server, CrashInRound(s) PROVE SpawnedByCandidates'
    <2>1. /\ role' = [role EXCEPT ![s] = "Follower"] /\ currentTerm' = currentTerm
          /\ \A r \in VoteThreads' : r \in VoteThreads /\ r.from # s
      BY <1>5 DEF CrashInRound, Restart, VoteThreads
    <2> QED BY <1>1, <1>2, <2>1, VoteTypes DEF VotesInv, SpawnedByCandidates, Runs
  <1>6. ASSUME NEW r \in Threads("spawned", "RequestVote"), SendRequestVote(r) PROVE SpawnedByCandidates'
    <2>1. /\ UNCHANGED <<role, currentTerm>>
          /\ \A q \in VoteThreads' : q \in VoteThreads \/ q.phase = "request"
      BY <1>6 DEF SendRequestVote, VoteRequest, VoteThreads, persistentVars
    <2> QED BY <2>1 DEF VotesInv, SpawnedByCandidates, Runs
  <1>7. ASSUME NEW r \in Threads("spawned", "AppendEntries"), SendAppendEntries(r)
        PROVE  SpawnedByCandidates'
    <2>1. UNCHANGED <<role, currentTerm>> /\ VoteThreads' \subseteq VoteThreads
      BY <1>7 DEF SendAppendEntries, AppendRequest, VoteThreads, persistentVars
    <2> QED BY <2>1 DEF VotesInv, SpawnedByCandidates, Runs
  <1>8. CASE UNCHANGED vars
    BY <1>8 DEF vars, persistentVars, VotesInv, SpawnedByCandidates, Runs, VoteThreads
  <1>9. Continue => SpawnedByCandidates'
    BY <1>4, <1>5, <1>6, <1>7 DEF Continue
  <1> QED BY <1>3, <1>8, <1>9 DEF Next

LEMMA NextVoteRequests ==
    ASSUME Scheduled, ReplicationInv, VotesInv, [Next]_vars
    PROVE  VoteRequestsTrue'
  <1>1. TypeInv /\ AskedOnce
    BY DEF ReplicationInv, ElectionInv
  <1>2. ASSUME NobodyStands, NEW r \in VoteThreads, r.phase = "request", Runs(r.from, r.term)'
        PROVE  /\ r.lastLogIndex = LastLogIndex(log'[r.from])
               /\ r.lastLogTerm = LastLogTerm(log'[r.from])
    <2>1. r.from \in Server
      BY <1>1, VoteTypes
    <2>2. Runs(r.from, r.term) /\ role'[r.from] = "Candidate"
      BY <1>2, <2>1 DEF NobodyStands, Runs
    <2>3. log'[r.from] = log[r.from]
      BY <1>2, <2>1, <2>2, CandidateLog
    <2> QED BY <1>2, <2>2, <2>3 DEF VotesInv, VoteRequestsTrue
  <1>3. ASSUME NEW s \in Server, StartElection(s) PROVE VoteRequestsTrue'
    <2>1. /\ currentTerm[s] \in Nat /\ currentTerm'[s] = currentTerm[s] + 1
          /\ \A p \in Server \ {s} : role'[p] = role[p] /\ currentTerm'[p] = currentTerm[p]
          /\ log' = log /\ \A q \in VoteThreads' : q \in VoteThreads \/ q.phase = "spawned"
      BY <1>1, <1>3, Stands
    <2>2. ASSUME NEW r \in VoteThreads, r.phase = "request", Runs(r.from, r.term)'
          PROVE  Runs(r.from, r.term)
      <3>1. r.from \in Server /\ r.term \in Nat /\ r.term <= currentTerm[r.from]
        BY <1>1, VoteTypes DEF AskedOnce
      <3>2. r.from # s
        BY <2>1, <2>2, <3>1 DEF Runs
      <3> QED BY <2>1, <2>2, <3>1, <3>2 DEF Runs
    <2> QED BY <2>1, <2>2 DEF VotesInv, VoteRequestsTrue
  <1>4. ASSUME NEW r \in Threads("request", "RequestVote"), RequestVote(r) PROVE VoteRequestsTrue'
    BY <1>1, <1>2, <1>4, Votes DEF VoteRequestsTrue
  <1>5. ASSUME NEW r \in Threads("spawned", "RequestVote"), SendRequestVote(r) PROVE VoteRequestsTrue'
    <2> DEFINE q == VoteRequest(r, log[r.from])
    <2>1. /\ UNCHANGED <<role, currentTerm, log>>
          /\ \A p \in VoteThreads' : p \in VoteThreads \/ p = q
      BY <1>5 DEF SendRequestVote, VoteThreads, persistentVars
    <2>2. q.from = r.from /\ q.lastLogIndex = LastLogIndex(log[r.from])
          /\ q.lastLogTerm = LastLogTerm(log[r.from])
      BY DEF VoteRequest
    <2> HIDE DEF q
    <2> QED BY <2>1, <2>2 DEF VotesInv, VoteRequestsTrue, Runs
  <1>6. CASE VoteThreads' \subseteq VoteThreads /\ NobodyStands
    BY <1>2, <1>6 DEF VoteRequestsTrue
  <1> QED BY <1>3, <1>4, <1>5, <1>6, VoteKinds

LEMMA NextElectors ==
    ASSUME Scheduled, ReplicationInv, ReplicationInv', VotesInv, [Next]_vars
    PROVE  Electors'
  <1>1. voted \subseteq voted'
    BY Grow
  <1>2. CASE elections' = elections
    BY <1>1, <1>2 DEF VotesInv, Electors
  <1>3. ASSUME NEW s \in Server, Wins(s) PROVE Electors'
    <2>1. PICK e : e = [term |-> currentTerm[s], leader |-> s, log |-> log[s],
                        voters |-> Voters(s, currentTerm[s])]
      OBVIOUS
    <2>2. elections' = elections \cup {e}
      BY <1>3, <2>1 DEF Wins
    <2>3. e.term = currentTerm[s] /\ e.leader = s /\ e.voters = Voters(s, currentTerm[s])
      BY <2>1
    <2>4. IsMajority(Cardinality(Voters(s, currentTerm[s])))
      BY <1>3, TermIsNew DEF ReplicationInv
    <2>5. /\ e.voters \in SUBSET Server /\ IsMajority(Cardinality(e.voters))
          /\ \A q \in e.voters : Vote(q, e.term, e.leader) \in voted
      BY <2>3, <2>4 DEF Voters
    <2> QED BY <1>1, <2>2, <2>5 DEF VotesInv, Electors
  <1> QED BY <1>2, <1>3, StepKinds DEF Steady, Sends, LeaderRound, Overwrites

LEMMA NextVotesInv ==
    ASSUME Scheduled, ReplicationInv, ReplicationInv', VotesInv, [Next]_vars
    PROVE  VotesInv'
  BY NextVotesOfStanders, NextSpawned, NextVoteRequests, NextElectors DEF VotesInv

\* What holds besides the invariant of the theorems about logs.
HistoryInv == ReplicationInv /\ TermsBounded /\ RequestEnds /\ VotesInv

LEMMA InitHistoryInv == ASSUME Recovered PROVE Init => HistoryInv
  <1>1. Bootstrapped
    BY DEF Recovered
  <1> QED BY <1>1, InitReplicationInv, InitTermsBounded, InitVotesInv DEF HistoryInv

LEMMA NextHistoryInv == ASSUME Scheduled, HistoryInv, [Next]_vars PROVE HistoryInv'
  <1>1. ReplicationInv'
    BY NextReplicationInv DEF HistoryInv
  <1> QED BY <1>1, NextTermsBounded, NextRequestEnds, NextVotesInv DEF HistoryInv

-----------------------------------------------------------------------------
\* Acknowledgements are for ever.  A replica that holds the entry keeps it, and
\* all before it, unless it hears of a leader that was elected without it.
LEMMA KeepsEntry ==
    ASSUME Scheduled, HistoryInv, HistoryInv', [Next]_vars, NEW q \in Server, NEW e \in elections,
           NEW j \in Nat, Holds(log[q], j, e.term), ~Bypassed(j, e.term, currentTerm[q])'
    PROVE  j <= Len(log'[q]) /\ \A i \in 1..j : log'[q][i] = log[q][i]
  <1>1. TypeInv /\ LogInv /\ TermsBounded /\ RequestEnds /\ ReplicationInv
    BY DEF HistoryInv, ReplicationInv
  <1>2. /\ log \in [Server -> Seq(Entry)] /\ log[q] \in Seq(Entry) /\ Len(log[q]) \in Nat
        /\ currentTerm[q] \in Nat /\ e.term \in Nat
        /\ j \in 1..Len(log[q]) /\ log[q][j].term = e.term /\ Made(log[q])
    BY <1>1, LogTypes, MadeLogs DEF Holds
  <1>3. CASE log'[q] = log[q]
    BY <1>2, <1>3
  <1>4. ASSUME NEW s \in Server, LeaderRound(s), s = q
        PROVE  j <= Len(log'[q]) /\ \A i \in 1..j : log'[q][i] = log[q][i]
    <2>1. PICK es \in Seq(Entry) : log' = [log EXCEPT ![q] = @ \o es]
      BY <1>4 DEF LeaderRound
    <2>2. log'[q] = log[q] \o es
      BY <1>2, <2>1
    <2>3. /\ Len(log[q] \o es) = Len(log[q]) + Len(es) /\ Len(es) \in Nat
          /\ \A i \in 1..Len(log[q]) : (log[q] \o es)[i] = log[q][i]
      BY <1>2, ConcatParts
    <2> QED BY <1>2, <2>2, <2>3
  <1>5. ASSUME NEW r \in Requests, Overwrites(r), r.to = q
        PROVE  j <= Len(log'[q]) /\ \A i \in 1..j : log'[q][i] = log[q][i]
    <2> DEFINE lg == log[q]
               m  == Merge(lg, r.prevLogIndex, r.entries)
               k  == r.prevLogIndex + 1 + Agreeing(lg, r.prevLogIndex, r.entries)
    <2>1. /\ r.term >= currentTerm[q] /\ PrevMatches(r, lg) /\ currentTerm'[q] = r.term
          /\ elections' = elections
      BY <1>5 DEF Overwrites, Accepted
    <2>2. PICK n \in k..Len(m) : log' = [log EXCEPT ![q] = SubSeq(m, 1, n)] /\ (n = Len(m) \/ m # lg)
      BY <1>5 DEF Overwrites
    <2>3. /\ r \in AppendRequests /\ r.prevLogIndex \in Index /\ r.entries \in Seq(Entry)
          /\ r.term \in Nat /\ Len(r.entries) \in Nat
      BY <1>1, LogTypes DEF AppendRequests, Term
    <2>4. e.term <= r.term
      <3>1. log[q][j].term <= currentTerm[q]
        BY <1>1, <1>2 DEF TermsBounded
      <3> QED BY <1>2, <2>1, <2>3, <3>1
    <2>5. ASSUME NEW x \in elections, x.term > e.term, x.term = r.term PROVE Holds(x.log, j, e.term)
      BY <2>1, <2>3, <2>5 DEF Bypassed
    <2>6. /\ m # lg => j <= k
          /\ \A i \in 1..j : m[i] = lg[i]
      BY <1>1, <1>2, <2>1, <2>4, <2>5, MergeKeepsEntry
    <2>7. m \in Seq(Entry) /\ Len(m) \in Nat /\ k \in Nat
      <3>1. r.prevLogIndex < Len(lg)
        BY <1>2, <2>1, <2>3 DEF PrevMatches, LastLogIndex, Index
      <3>2. m \in Seq(Entry) /\ Agreeing(lg, r.prevLogIndex, r.entries) \in 0..Len(r.entries)
        BY <1>2, <2>3, <3>1, MergeShape, AgreeingExact
      <3> QED BY <2>3, <3>2 DEF Index
    <2> HIDE DEF m, k
    <2>8. n \in 0..Len(m) /\ j <= n
      BY <1>2, <2>2, <2>6, <2>7
    <2>9. Len(SubSeq(m, 1, n)) = n /\ \A i \in 1..n : SubSeq(m, 1, n)[i] = m[i]
      BY <2>7, <2>8, PrefixLinks
    <2>10. log'[q] = SubSeq(m, 1, n)
      BY <1>2, <2>2
    <2> QED BY <2>6, <2>8, <2>9, <2>10
  <1>6. ASSUME NEW s \in Server, LeaderRound(s), s # q PROVE log'[q] = log[q]
    BY <1>2, <1>6 DEF LeaderRound
  <1>7. ASSUME NEW r \in Requests, Overwrites(r), r.to # q PROVE log'[q] = log[q]
    BY <1>2, <1>7 DEF Overwrites
  <1>8. Steady \/ Sends \/ (\E s \in Server : Wins(s)) => log'[q] = log[q]
    BY DEF Steady, Sends, Wins
  <1> QED BY <1>1, <1>3, <1>4, <1>5, <1>6, <1>7, <1>8, StepKinds

\* An election on record stays there.
LEMMA StillBypassed ==
    ASSUME TypeInv, NEW j, NEW t, NEW u \in Nat \cup {-1}, NEW w \in Nat, u <= w, Bypassed(j, t, u),
           elections \subseteq elections'
    PROVE  Bypassed(j, t, w)'
  <1>1. PICK x \in elections : t < x.term /\ x.term <= u /\ ~Holds(x.log, j, t)
    BY DEF Bypassed
  <1>2. x.term \in Nat /\ x.term <= w
    BY <1>1, LogTypes
  <1> QED BY <1>1, <1>2 DEF Bypassed

\* The entry is at j, in the election of its term or after.
LEMMA HeldAfterElection ==
    ASSUME TypeInv, LogInv, NEW lg, Made(lg), NEW e \in elections, NEW j \in Nat, Holds(lg, j, e.term)
    PROVE  Len(e.log) < j
  BY TermLog DEF Holds

\* A candidate that gets the vote of a replica that holds the entry holds it,
\* unless the end of its log is of a leader that was elected without it.
LEMMA VoteForHolder ==
    ASSUME HistoryInv, NEW r \in VoteRequests, r \in VoteThreads, r.phase = "request",
           Runs(r.from, r.term), UpToDate(r, log[r.to]),
           NEW e \in elections, NEW j \in Nat, Holds(log[r.to], j, e.term)
    PROVE  Holds(log[r.from], j, e.term) \/ Bypassed(j, e.term, r.term)
  <1> DEFINE a == log[r.from]
             b == log[r.to]
             n == Len(a)
  <1>1. TypeInv /\ LogInv /\ TermsBounded
    BY DEF HistoryInv, ReplicationInv
  <1>2. /\ r.from \in Server /\ r.to \in Server
        /\ a \in Seq(Entry) /\ b \in Seq(Entry) /\ Len(a) \in Nat /\ Len(b) \in Nat
        /\ e.term \in Nat /\ Made(a) /\ Made(b)
        /\ \A i \in 1..Len(a) : a[i].term \in Nat
        /\ \A i \in 1..Len(b) : b[i].term \in Nat
    BY <1>1, LogTypes, MadeLogs, EntryTerms DEF VoteRequests
  <1>3. r.lastLogIndex = LastLogIndex(a) /\ r.lastLogTerm = LastLogTerm(a)
    BY DEF HistoryInv, VotesInv, VoteRequestsTrue
  <1>4. r.term = currentTerm[r.from]
    BY DEF Runs
  <1>5. j \in 1..Len(b) /\ b[j].term = e.term
    BY DEF Holds
  <1>6. Len(e.log) < j
    BY <1>1, <1>2, HeldAfterElection
  <1> HIDE DEF a, b, n
  <1>7. Len(b) \in j..Len(b) /\ Len(b) \in 1..Len(b)
    BY <1>2, <1>5
  <1>8. e.term <= b[Len(b)].term
    BY <1>1, <1>2, <1>5, <1>7, SortedLog
  <1>9. LastLogTerm(b) = b[Len(b)].term /\ LastLogIndex(b) = Len(b) - 1
    BY <1>2, <1>7 DEF LastLogTerm, LastLogIndex
  <1>10. UpToDate(r, b)
    BY DEF b
  <1>11. Len(a) # 0
    BY <1>2, <1>3, <1>7, <1>9, <1>10 DEF UpToDate, LastLogTerm
  <1>12. n \in 1..Len(a) /\ LastLogTerm(a) = a[n].term /\ LastLogIndex(a) = n - 1
    BY <1>2, <1>11 DEF n, LastLogTerm, LastLogIndex
  <1>13. \/ e.term < a[n].term
         \/ e.term = a[n].term /\ j <= n
    BY <1>2, <1>3, <1>5, <1>7, <1>8, <1>9, <1>10, <1>12, SMTT(30) DEF UpToDate
  <1>14. a[n].term <= r.term
    BY <1>1, <1>2, <1>4, <1>12 DEF TermsBounded, a
  <1>15. CASE \A x \in elections : x.term > e.term /\ x.term = a[n].term => Holds(x.log, j, e.term)
    <2>1. Holds(a, j, e.term)
      BY <1>1, <1>2, <1>6, <1>12, <1>13, <1>15, Below
    <2> QED BY <2>1 DEF a
  <1>16. CASE \E x \in elections : x.term > e.term /\ x.term = a[n].term /\ ~Holds(x.log, j, e.term)
    BY <1>14, <1>16 DEF Bypassed
  <1> QED BY <1>15, <1>16

\* The votes of a replica that has acknowledged an entry, and the elections they
\* decide.
LEMMA AckedVotes ==
    ASSUME Scheduled, HistoryInv, HistoryInv', [Next]_vars, NEW q \in Server, NEW j \in Nat, NEW t \in Nat,
           Acked(q, j, t), NEW v \in voted', v.voter = q, v.term > t, Runs(v.candidate, v.term)'
    PROVE  Holds(log'[v.candidate], j, t) \/ Bypassed(j, t, v.term)'
  <1> DEFINE c == v.candidate
             Goal == Holds(log'[c], j, t) \/ Bypassed(j, t, v.term)'
  <1>1. TypeInv /\ ReplicationInv /\ VotesInv
    BY DEF HistoryInv, ReplicationInv
  <1>2. elections \subseteq elections'
    BY <1>1, Grow
  <1>3. c \in Server /\ v.term \in Nat
    <2>1. TypeInv'
      BY DEF HistoryInv, ReplicationInv
    <2> QED BY <2>1 DEF TypeInv, TypeOK, Term
  <1>4. ASSUME v \in voted, Runs(c, v.term), log'[c] = log[c] PROVE Goal
    <2>1. Holds(log[c], j, t) \/ Bypassed(j, t, v.term)
      BY <1>4 DEF Acked
    <2>2. Bypassed(j, t, v.term) => Bypassed(j, t, v.term)'
      BY <1>2 DEF Bypassed
    <2> QED BY <1>4, <2>1, <2>2
  <1>5. ASSUME v \in voted, NobodyStands PROVE Goal
    <2>1. role'[c] = "Candidate" /\ currentTerm'[c] = v.term
      BY DEF Runs
    <2>2. Runs(c, v.term)
      BY <1>3, <1>5, <2>1 DEF NobodyStands, Runs
    <2>3. log'[c] = log[c]
      BY <1>1, <1>3, <1>5, <2>1, CandidateLog
    <2> HIDE DEF Goal
    <2> QED BY <1>4, <1>5, <2>2, <2>3
  <1>6. ASSUME NEW s \in Server, StartElection(s) PROVE Goal
    <2>1. /\ currentTerm[s] \in Nat /\ currentTerm'[s] = currentTerm[s] + 1
          /\ \A p \in Server \ {s} : role'[p] = role[p] /\ currentTerm'[p] = currentTerm[p]
          /\ log' = log /\ voted' = voted \cup {Vote(s, currentTerm[s] + 1, s)}
      BY <1>1, <1>6, Stands
    <2>2. CASE v \in voted
      <3>1. v.term <= currentTerm[c]
        BY <1>1, <2>2 DEF VotesInv, VotesOfStanders
      <3>2. c # s
        BY <1>3, <2>1, <3>1 DEF Runs
      <3>3. Runs(c, v.term)
        BY <1>3, <2>1, <3>2 DEF Runs
      <3> HIDE DEF Goal
      <3> QED BY <1>4, <2>1, <2>2, <3>3
    <2>3. CASE v = Vote(s, currentTerm[s] + 1, s)
      <3>1. q = s /\ c = s /\ v.term = currentTerm[s] + 1
        BY <2>3 DEF Vote
      <3>2. Holds(log[q], j, t) \/ Bypassed(j, t, currentTerm[q])
        BY DEF Acked
      <3>3. Bypassed(j, t, currentTerm[q]) => Bypassed(j, t, v.term)'
        BY <1>1, <1>2, <2>1, <3>1, StillBypassed
      <3> QED BY <2>1, <3>1, <3>2, <3>3
    <2> QED BY <2>1, <2>2, <2>3
  <1>7. ASSUME NEW r \in Threads("request", "RequestVote"), RequestVote(r) PROVE Goal
    <2>1. /\ r \in VoteThreads /\ r.to \in Server /\ r.from \in Server /\ r.term \in Nat
          /\ r \in VoteRequests /\ r.phase = "request"
          /\ UNCHANGED <<log, elections>> /\ NobodyStands
          /\ \/ v \in voted
             \/ /\ v = Vote(r.to, r.term, r.from) /\ UpToDate(r, log[r.to])
                /\ currentTerm'[r.to] = r.term /\ r.term >= currentTerm[r.to]
      BY <1>1, <1>7, Votes
    <2>2. CASE v \in voted
      <3> HIDE DEF Goal
      <3> QED BY <1>5, <2>1, <2>2
    <2>3. CASE v \notin voted
      <3>1. /\ q = r.to /\ c = r.from /\ v.term = r.term /\ UpToDate(r, log[q]) /\ currentTerm[q] <= r.term
            /\ currentTerm[q] \in Nat
        BY <1>1, <2>1, <2>3, LogTypes DEF Vote
      <3>2. Runs(r.from, r.term)
        BY <2>1, <3>1 DEF NobodyStands, Runs
      <3>3. PICK e \in elections : e.term = t
        BY DEF Acked
      <3>4. CASE Bypassed(j, t, currentTerm[q])
        BY <1>1, <1>2, <2>1, <3>1, <3>4, StillBypassed
      <3>5. CASE Holds(log[q], j, t)
        <4>1. Holds(log[c], j, t) \/ Bypassed(j, t, v.term)
          BY <2>1, <3>1, <3>2, <3>3, <3>5, VoteForHolder
        <4>2. Bypassed(j, t, v.term) => Bypassed(j, t, v.term)'
          BY <1>2 DEF Bypassed
        <4> QED BY <2>1, <4>1, <4>2
      <3> QED BY <3>4, <3>5 DEF Acked
    <2> QED BY <2>2, <2>3
  <1>8. ASSUME NEW r \in Threads("spawned", "RequestVote"), SendRequestVote(r) PROVE Goal
    <2>1. v \in voted /\ NobodyStands
      BY <1>8 DEF SendRequestVote, persistentVars, historyVars, NobodyStands
    <2> HIDE DEF Goal
    <2> QED BY <1>5, <2>1
  <1> HIDE DEF Goal
  <1>9. Goal
    BY <1>1, <1>5, <1>6, <1>7, <1>8, VoteKinds
  <1> QED BY <1>9 DEF Goal

LEMMA AckedElections ==
    ASSUME Scheduled, HistoryInv, HistoryInv', [Next]_vars, NEW q \in Server, NEW j \in Nat, NEW t \in Nat,
           Acked(q, j, t), NEW x \in elections', q \in x.voters, x.term > t
    PROVE  Holds(x.log, j, t) \/ Bypassed(j, t, x.term - 1)'
  <1>1. TypeInv /\ TypeInv' /\ ElectionInv /\ ElectionInv' /\ LogInv /\ ReplicationInv
    BY DEF HistoryInv, ReplicationInv
  <1>2. elections \subseteq elections'
    BY <1>1, Grow
  <1>3. CASE x \in elections
    <2>1. Holds(x.log, j, t) \/ Bypassed(j, t, x.term - 1)
      BY <1>3 DEF Acked
    <2> QED BY <1>2, <2>1 DEF Bypassed
  <1>4. ASSUME NEW s \in Server, Wins(s), x \notin elections
        PROVE  Holds(x.log, j, t) \/ Bypassed(j, t, x.term - 1)'
    <2>1. x = [term |-> currentTerm[s], leader |-> s, log |-> log[s], voters |-> Voters(s, currentTerm[s])]
      BY <1>4 DEF Wins
    <2>2. x.term = currentTerm[s] /\ x.log = log[s] /\ x.voters = Voters(s, currentTerm[s])
          /\ currentTerm[s] \in Nat
      BY <1>1, <2>1, LogTypes
    <2>3. Vote(q, x.term, s) \in voted /\ Runs(s, x.term)
      BY <1>4, <2>2 DEF Voters, Wins, Runs
    <2>4. PICK v \in voted : v.voter = q /\ v.term = x.term /\ v.candidate = s
      BY <2>3 DEF Vote
    <2>5. Holds(log[s], j, t) \/ Bypassed(j, t, x.term)
      BY <2>3, <2>4 DEF Acked
    <2>6. ASSUME Bypassed(j, t, x.term) PROVE Bypassed(j, t, x.term - 1)'
      <3>1. PICK y \in elections : t < y.term /\ y.term <= x.term /\ ~Holds(y.log, j, t)
        BY <2>6 DEF Bypassed
      <3>2. y.term # x.term /\ y.term \in Nat
        BY <1>1, <1>4, <2>2, TermIsNew, LogTypes
      <3>3. y.term <= x.term - 1
        BY <2>2, <3>1, <3>2
      <3> QED BY <1>2, <3>1, <3>3 DEF Bypassed
    <2> QED BY <2>2, <2>5, <2>6
  <1> QED BY <1>1, <1>3, <1>4, StepKinds DEF Steady, Sends, LeaderRound, Overwrites

LEMMA AckStep ==
    ASSUME Scheduled, HistoryInv, HistoryInv', [Next]_vars, NEW q \in Server, NEW j \in Nat, NEW t \in Nat,
           Acked(q, j, t)
    PROVE  Acked(q, j, t)'
  <1>1. TypeInv /\ TypeInv' /\ ReplicationInv
    BY DEF HistoryInv, ReplicationInv
  <1>2. /\ elections \subseteq elections' /\ currentTerm[q] <= currentTerm'[q]
        /\ currentTerm[q] \in Nat /\ currentTerm'[q] \in Nat
    BY <1>1, Grow, LogTypes, NewTypes
  <1>3. PICK e \in elections : e.term = t
    BY DEF Acked
  <1>4. t <= currentTerm'[q]
    BY <1>2 DEF Acked
  <1>5. Holds(log'[q], j, t) \/ Bypassed(j, t, currentTerm[q])'
    <2>1. CASE Bypassed(j, t, currentTerm[q])
      BY <1>1, <1>2, <2>1, StillBypassed
    <2>2. CASE Holds(log[q], j, t) /\ ~Bypassed(j, t, currentTerm[q])'
      <3>1. j <= Len(log'[q]) /\ \A i \in 1..j : log'[q][i] = log[q][i]
        BY <1>3, <2>2, KeepsEntry
      <3>2. j \in 1..j /\ Len(log'[q]) \in Nat /\ j \in 1..Len(log'[q])
        BY <1>1, <2>2, <3>1, NewTypes DEF Holds
      <3> QED BY <2>2, <3>1, <3>2 DEF Holds
    <2> QED BY <2>1, <2>2 DEF Acked
  <1>6. \A v \in voted' : v.voter = q /\ v.term > t /\ Runs(v.candidate, v.term)'
            => Holds(log'[v.candidate], j, t) \/ Bypassed(j, t, v.term)'
    BY AckedVotes
  <1>7. \A x \in elections' : q \in x.voters /\ x.term > t
            => Holds(x.log, j, t) \/ Bypassed(j, t, x.term - 1)'
    BY AckedElections
  <1> QED BY <1>2, <1>3, <1>4, <1>5, <1>6, <1>7 DEF Acked

\* A replica that is in the term of the entry and holds it acknowledges it.
LEMMA FreshAck ==
    ASSUME HistoryInv, NEW q \in Server, NEW e \in elections, NEW j \in Nat,
           Holds(log[q], j, e.term), currentTerm[q] = e.term
    PROVE  Acked(q, j, e.term)
  <1>1. TypeInv /\ VotesAreOfThePast /\ Electors
    BY DEF HistoryInv, ReplicationInv, ElectionInv, VotesInv
  <1>2. /\ e.term \in Nat /\ \A v \in voted : v.term \in Nat
        /\ \A x \in elections : x.term \in Nat
    BY <1>1, LogTypes, VoteTypes
  <1>3. \A v \in voted : v.voter = q => ~(v.term > e.term)
    BY <1>1, <1>2 DEF VotesAreOfThePast
  <1>4. ASSUME NEW x \in elections, q \in x.voters PROVE ~(x.term > e.term)
    <2>1. PICK v \in voted : v.voter = q /\ v.term = x.term
      BY <1>1, <1>4 DEF Electors, Vote
    <2> QED BY <1>3, <2>1
  <1> QED BY <1>2, <1>3, <1>4 DEF Acked

\* The same for all, to be used after a step.
FreshAcks ==
    \A q \in Server, j \in Nat : \A e \in elections :
        Holds(log[q], j, e.term) /\ currentTerm[q] = e.term => Acked(q, j, e.term)
MajoritiesHold ==
    \A j, t \in Nat : \A Q \in SUBSET Server : AckedByMajority(Q, j, t) =>
        /\ \A u : ~Bypassed(j, t, u)
        /\ \A q \in Q : Holds(log[q], j, t)
        /\ \E q \in Server : q \in Q
LogsAgree ==
    \A s, p \in Server, j \in Nat, t \in Nat :
        Holds(log[s], j, t) /\ Holds(log[p], j, t) => \A i \in 1..j : log[s][i] = log[p][i]

LEMMA StateFacts == HistoryInv => FreshAcks /\ MajoritiesHold /\ LogsAgree
  <1> SUFFICES ASSUME HistoryInv PROVE FreshAcks /\ MajoritiesHold /\ LogsAgree
    OBVIOUS
  <1>1. TypeInv /\ Electors /\ LogInv
    BY DEF HistoryInv, ReplicationInv, VotesInv
  <1>2. FreshAcks
    BY FreshAck DEF FreshAcks
  <1>3. MajoritiesHold
    BY <1>1, MajorityHolds DEF MajoritiesHold
  <1>4. LogsAgree
    <2> SUFFICES ASSUME NEW s \in Server, NEW p \in Server, NEW j \in Nat, NEW t \in Nat,
                        Holds(log[s], j, t), Holds(log[p], j, t)
                 PROVE  \A i \in 1..j : log[s][i] = log[p][i]
      BY DEF LogsAgree
    <2>1. /\ log[s] \in Seq(Entry) /\ log[p] \in Seq(Entry)
          /\ j \in 1..Len(log[s]) /\ j \in 1..Len(log[p]) /\ log[s][j].term = log[p][j].term
      BY <1>1, LogTypes DEF Holds
    <2>2. Unique(Links) /\ LogLinks(log[s]) \subseteq Links /\ LogLinks(log[p]) \subseteq Links
      BY <1>1, LinkSources DEF LogInv, LinksUnique
    <2>3. j <= Len(log[p])
      BY <2>1
    <2> QED BY <2>1, <2>2, <2>3, MatchingLogs
  <1> QED BY <1>2, <1>3, <1>4

LEMMA NewStateFacts == HistoryInv' => (FreshAcks /\ MajoritiesHold /\ LogsAgree)'
  BY StateFacts, PTL

\* A majority's acknowledgements stay, and nobody of it loses the entry.
LEMMA ChosenStep ==
    ASSUME Scheduled, HistoryInv, HistoryInv', [Next]_vars, NEW j \in Nat, NEW t \in Nat, Chosen(j, t)
    PROVE  /\ Chosen(j, t)'
           /\ \A s \in Server : Holds(log[s], j, t) =>
                 Holds(log'[s], j, t) /\ \A i \in 1..j : log'[s][i] = log[s][i]
  <1>1. PICK Q \in SUBSET Server : AckedByMajority(Q, j, t)
    BY DEF Chosen
  <1>2. AckedByMajority(Q, j, t)'
    BY <1>1, AckStep DEF AckedByMajority
  <1>3. \A u : ~Bypassed(j, t, u)'
    BY <1>2, NewStateFacts DEF MajoritiesHold
  <1>4. PICK e \in elections : e.term = t
    <2>1. PICK q \in Server : q \in Q
      BY <1>1, StateFacts DEF MajoritiesHold
    <2> QED BY <1>1, <2>1 DEF AckedByMajority, Acked
  <1>5. ASSUME NEW s \in Server, Holds(log[s], j, t)
        PROVE  Holds(log'[s], j, t) /\ \A i \in 1..j : log'[s][i] = log[s][i]
    <2>1. ~Bypassed(j, t, currentTerm[s])'
      BY <1>3 DEF Bypassed
    <2>2. j <= Len(log'[s]) /\ \A i \in 1..j : log'[s][i] = log[s][i]
      BY <1>4, <1>5, <2>1, KeepsEntry
    <2>3. j \in 1..j /\ Len(log'[s]) \in Nat /\ j \in 1..Len(log'[s])
      BY <1>5, <2>2, NewTypes DEF Holds, HistoryInv, ReplicationInv
    <2> QED BY <1>5, <2>2, <2>3 DEF Holds
  <1> QED BY <1>1, <1>2, <1>5 DEF Chosen

-----------------------------------------------------------------------------
\* What a leader is told by a success, and what its MatchIndex says, is an
\* acknowledgement of the entries of its term.
Promised(p, s, m) ==
    \A j \in 1..m : log[s][j].term = currentTerm[s] => Acked(p, j, currentTerm[s])
AcksKept ==
    /\ \A s \in Server : role[s] = "Leader" =>
          \A p \in Peers(s) : Promised(p, s, matchIndex[s][p] + 1)
    /\ \A r \in Replies : Leads(r.from, r.term) /\ Success(r)
          => Promised(r.to, r.from, r.nextIndex + r.count)

LEMMA PromisedStep ==
    ASSUME Scheduled, HistoryInv, HistoryInv', [Next]_vars, NEW s \in Server, NEW p \in Server,
           role[s] = "Leader", role'[s] = "Leader", currentTerm'[s] = currentTerm[s],
           NEW m \in Int, m <= Len(log[s]), Promised(p, s, m)
    PROVE  Promised(p, s, m)'
  <1>1. TypeInv
    BY DEF HistoryInv, ReplicationInv
  <1>2. currentTerm[s] \in Nat /\ log[s] \in Seq(Entry) /\ Len(log[s]) \in Nat
    BY <1>1, LogTypes
  <1>3. Extends(log'[s], log[s])
    BY <1>1, LeaderLogGrows
  <1>4. PICK t \in Nat : t = currentTerm[s]
    BY <1>2
  <1>5. ASSUME NEW j \in 1..m, log'[s][j].term = t PROVE Acked(p, j, t)'
    <2>1. j \in Nat /\ j \in 1..Len(log[s])
      BY <1>2
    <2>2. log'[s][j] = log[s][j]
      <3>1. log'[s] \in Seq(Entry) /\ Len(log[s]) <= Len(log'[s]) /\ SubSeq(log'[s], 1, Len(log[s])) = log[s]
        BY <1>3, NewTypes DEF Extends, HistoryInv, ReplicationInv
      <3>2. Len(log[s]) \in 0..Len(log'[s])
        BY <1>2, <3>1
      <3>3. SubSeq(log'[s], 1, Len(log[s]))[j] = log'[s][j]
        BY <2>1, <3>1, <3>2, PrefixLinks
      <3> QED BY <3>1, <3>3
    <2>3. Acked(p, j, t)
      BY <1>4, <1>5, <2>2 DEF Promised
    <2> QED BY <2>1, <2>3, AckStep
  <1>6. currentTerm'[s] = t
    BY <1>4
  <1> QED BY <1>5, <1>6 DEF Promised

\* The kinds of steps, by what they do to acknowledgements.
Learns(s, p, r) ==
    /\ r.from = s /\ r.to = p /\ Success(r) /\ Leads(s, r.term)
    /\ matchIndex'[s][p] = (r.nextIndex + r.count) - 1
Told ==
    /\ RolesKept
    /\ \A s \in Server : role'[s] = "Leader" =>
          \A p \in Peers(s) : matchIndex'[s][p] = matchIndex[s][p] \/ \E r \in Replies : Learns(s, p, r)
    /\ \A r \in Replies' : Success(r) =>
          r \in Replies \/ \E q \in Requests : Overwrites(q) /\ r = AppendReply(q, q.term, TRUE)

LEMMA AnswerTells ==
    ASSUME TypeInv, ~StaleReplies, NEW r \in Threads("reply", "AppendEntries"), Timely(r),
           AppendEntriesReply(r)
    PROVE  Told
  <1> DEFINE s == r.from
             n == NextAfter(r)
  <1>1. /\ r \in AppendThreads /\ r \in Replies /\ s \in Server /\ r.to \in Peers(s)
    BY LogTypes DEF Threads, AppendThreads, Replies
  <1>2. RolesKept
    BY QuietAppendEntriesReply, QuietKeepsRoles
  <1>3. Replies' \subseteq Replies
    BY DEF AppendEntriesReply, Replies, AppendThreads
  <1>4. CASE matchIndex' = matchIndex
    BY <1>2, <1>3, <1>4 DEF Told
  <1>5. CASE /\ role[s] = "Leader" /\ r.replyTerm = r.term /\ r.success
             /\ matchIndex' = [matchIndex EXCEPT ![s] = [matchIndex[s] EXCEPT ![r.to] = n - 1]]
    <2>1. n = r.nextIndex + r.count
      BY <1>5 DEF NextAfter
    <2>2. Leads(s, r.term) /\ Success(r)
      BY <1>5 DEF Leads, Success, Timely
    <2>3. /\ matchIndex'[s][r.to] = n - 1
          /\ \A p \in Server : \A q \in Peers(p) : ~(p = s /\ q = r.to) => matchIndex'[p][q] = matchIndex[p][q]
      <3>1. DOMAIN matchIndex = Server /\ \A p \in Server : matchIndex[p] \in [Peers(p) -> Index]
        BY LogTypes
      <3> HIDE DEF n
      <3> QED BY <1>1, <1>5, <3>1
    <2> HIDE DEF n
    <2>4. Learns(s, r.to, r)
      BY <2>1, <2>2, <2>3 DEF Learns
    <2> QED BY <1>1, <1>2, <1>3, <2>3, <2>4 DEF Told
  <1> QED BY <1>4, <1>5 DEF AppendEntriesReply, leaderVars

LEMMA AckKinds ==
    ASSUME Scheduled, ReplicationInv, [Next]_vars
    PROVE  Told \/ \E s \in Server : Wins(s)
  <1>1. TypeInv /\ RoundsAreLeaders /\ NextInBounds /\ ~StaleReplies
    BY DEF ReplicationInv, LogInv, Scheduled, Remembered
  <1>2. ASSUME Calm PROVE Told
    BY <1>2 DEF Calm, Told, Replies, PeersKept
  <1>3. ASSUME NEW s \in Server, RunLeaderOneIter(s) \/ CrashInRound(s) PROVE Told
    <2>1. LeaderRound(s)
      BY <1>1, <1>3, RoundExtends
    <2> QED BY <2>1 DEF LeaderRound, PeersKept, Told
  <1>4. ASSUME NEW r \in Threads("spawned", "AppendEntries"), SendAppendEntries(r) PROVE Told
    <2>1. /\ UNCHANGED <<currentTerm, role, voted, matchIndex>>
          /\ Replies' \subseteq Replies /\ \A s \in Server : currentTerm[s] \in Nat
      BY <1>1, <1>4, LogTypes
         DEF SendAppendEntries, AppendRequest, persistentVars, historyVars, leaderVars, Replies, AppendThreads
    <2>2. RolesKept
      BY <2>1 DEF RolesKept
    <2> QED BY <2>1, <2>2 DEF Told
  <1>5. ASSUME NEW r \in Threads("request", "AppendEntries"),
               AppendEntries(r) \/ CrashInAppendEntries(r)
        PROVE  Told
    <2>1. r \in Requests
      BY DEF Threads, Requests, AppendThreads
    <2>2. ASSUME Refuses(r) PROVE Told
      <3>1. ~Success(AppendReply(r, currentTerm'[r.to], FALSE))
        BY DEF AppendReply, Success
      <3>2. \A q \in Replies' : Success(q) => q \in Replies
        BY <2>2, <3>1 DEF Refuses, Replies
      <3> QED BY <2>2, <3>2 DEF Refuses, PeersKept, Told
    <2>3. ASSUME Overwrites(r) PROVE Told
      <3>1. RolesKept /\ PeersKept
        BY <2>3 DEF Overwrites
      <3>2. \A q \in Replies' : q \in Replies \/ q = AppendReply(r, r.term, TRUE)
        BY <2>3 DEF Overwrites, Replies
      <3> QED BY <2>1, <2>3, <3>1, <3>2 DEF PeersKept, Told
    <2> QED BY <1>1, <1>5, <2>2, <2>3, AppendEntriesShape
  <1>6. ASSUME NEW r \in Threads("reply", "AppendEntries"), Timely(r), AppendEntriesReply(r)
        PROVE  Told
    BY <1>1, <1>6, AnswerTells
  <1>7. ASSUME NEW r \in Threads("reply", "RequestVote"), Timely(r), RequestVoteReply(r)
        PROVE  Told \/ \E s \in Server : Wins(s)
    <2>1. r.from \in Server
      BY <1>1, ThreadKinds DEF TypeInv, TypeOK, Threads
    <2>2. CASE \E s \in Server : Wins(s)
      BY <2>2
    <2>3. CASE ~ \E s \in Server : Wins(s)
      BY <1>1, <1>2, <1>7, <2>1, <2>3, CalmRequestVoteReply
    <2> QED BY <2>2, <2>3
  <1>8. ASSUME NEW r \in rpcs, LoseRPC(r) PROVE Told
    <2>1. r.from \in Server
      BY <1>1, ThreadKinds DEF TypeInv, TypeOK
    <2> QED BY <1>1, <1>2, <1>8, <2>1, CalmFailure
  <1>9. ASSUME NEW s \in Server,
               \/ (\E op \in Op : Submit(s, op)) \/ RaftImplLeader(s) \/ RaftImplOther(s)
               \/ Crash(s) \/ CrashInPersist(s)
        PROVE  Told
    BY <1>1, <1>2, <1>9, CalmFailure, CalmInput
  <1>10. CASE \/ \E s \in Server : StartElection(s)
              \/ \E r \in Threads("spawned", "RequestVote") : SendRequestVote(r)
              \/ \E r \in Threads("request", "RequestVote") : RequestVote(r)
    BY <1>1, <1>2, <1>10, CalmElection
  <1>11. CASE UNCHANGED vars
    <2>1. /\ UNCHANGED <<currentTerm, log, role, voted, elections, rpcs, matchIndex>>
          /\ \A s \in Server : currentTerm[s] \in Nat
      BY <1>1, <1>11, LogTypes DEF vars, persistentVars, historyVars, leaderVars
    <2>2. RolesKept /\ Replies' = Replies
      BY <2>1 DEF RolesKept, Replies, AppendThreads
    <2>3. Told
      BY <2>1, <2>2 DEF Told
    <2> QED BY <2>3
  <1> HIDE DEF Told
  <1> QED BY <1>3, <1>4, <1>5, <1>6, <1>7, <1>8, <1>9, <1>10, <1>11 DEF Next, Continue

LEMMA NextAcksKept ==
    ASSUME Scheduled, HistoryInv, HistoryInv', AcksKept, [Next]_vars
    PROVE  AcksKept'
  <1>1. /\ TypeInv /\ TypeInv' /\ LogInv /\ LogInv' /\ ElectionInv /\ ElectionInv' /\ ReplicationInv
    BY DEF HistoryInv, ReplicationInv
  <1>2. ASSUME NEW s \in Server, NEW p \in Peers(s), role[s] = "Leader"
        PROVE  matchIndex[s][p] + 1 \in Int /\ matchIndex[s][p] + 1 <= Len(log[s])
               /\ p \in Server /\ Promised(p, s, matchIndex[s][p] + 1)
    <2>1. matchIndex[s][p] \in Index /\ Len(log[s]) \in Nat
      BY <1>1, LogTypes
    <2>2. matchIndex[s][p] >= 0 => matchIndex[s][p] < Len(log[s])
      BY <1>1, <1>2 DEF LogInv, AcksSound
    <2> QED BY <1>2, <2>1, <2>2 DEF Index, AcksKept, Peers
  <1>3. ASSUME NEW r \in Replies, Leads(r.from, r.term), Success(r)
        PROVE  r.nextIndex + r.count \in Int /\ r.nextIndex + r.count <= Len(log[r.from])
               /\ r.from \in Server /\ r.to \in Server /\ Promised(r.to, r.from, r.nextIndex + r.count)
    <2>1. r \in AppendThreads /\ r \in AppendReplies
      BY <1>1, LogTypes DEF Replies
    <2>2. r.nextIndex \in Nat /\ r.count \in Nat /\ r.from \in Server /\ r.to \in Server
      BY <2>1 DEF AppendReplies
    <2> QED BY <1>1, <1>3, <2>2 DEF LogInv, AppendsOfLeaders, AcksKept
  <1>4. ASSUME NEW s \in Server, Wins(s) PROVE AcksKept'
    <2>1. /\ matchIndex' = [matchIndex EXCEPT ![s] = [p \in Peers(s) |-> -1]]
          /\ role' = [role EXCEPT ![s] = "Leader"] /\ UNCHANGED <<currentTerm, log>>
          /\ Replies' = Replies
      BY <1>4 DEF Wins, BecomeLeader, Replies
    <2>2. \A p \in Peers(s) : matchIndex'[s][p] = -1
      BY <1>1, <2>1, LogTypes
    <2>3. \A p \in Server \ {s} : role'[p] = role[p] /\ matchIndex'[p] = matchIndex[p]
      BY <1>1, <2>1, LogTypes
    <2>4. ASSUME NEW p \in Server, role'[p] = "Leader", NEW q \in Peers(p)
          PROVE  Promised(q, p, matchIndex[p][q] + 1)'
      <3>1. CASE p = s
        BY <2>2, <3>1 DEF Promised
      <3>2. CASE p # s
        BY <1>2, <2>1, <2>3, <2>4, <3>2, PromisedStep
      <3> QED BY <3>1, <3>2
    <2>5. ASSUME NEW r \in Replies', Leads(r.from, r.term)', Success(r)
          PROVE  Promised(r.to, r.from, r.nextIndex + r.count)'
      <3>1. r \in Replies /\ r \in AppendThreads /\ r.from \in Server
        BY <1>1, <2>1, LogTypes DEF Replies
      <3>2. r.term # currentTerm[s]
        BY <1>1, <1>4, <3>1, TermIsNew
      <3>3. r.from # s
        BY <2>1, <2>5, <3>2 DEF Leads
      <3>4. Leads(r.from, r.term) /\ role'[r.from] = "Leader"
        BY <2>1, <2>3, <2>5, <3>1, <3>3 DEF Leads
      <3> QED BY <1>3, <2>1, <2>5, <3>1, <3>4, PromisedStep DEF Leads
    <2> QED BY <2>4, <2>5 DEF AcksKept, Success
  <1>5. ASSUME Told PROVE AcksKept'
    <2>1. ASSUME NEW s \in Server, role'[s] = "Leader"
          PROVE  role[s] = "Leader" /\ currentTerm'[s] = currentTerm[s]
      BY <1>5, <2>1 DEF Told, RolesKept
    <2>2. ASSUME NEW r \in Replies, Leads(r.from, r.term)', Success(r)
          PROVE  Leads(r.from, r.term) /\ Promised(r.to, r.from, r.nextIndex + r.count)'
      <3>1. r.from \in Server
        BY <1>1, LogTypes DEF Replies
      <3>2. Leads(r.from, r.term) /\ role'[r.from] = "Leader"
        BY <2>1, <2>2, <3>1 DEF Leads
      <3> QED BY <1>3, <2>1, <2>2, <3>1, <3>2, PromisedStep DEF Leads
    <2>3. ASSUME NEW s \in Server, role'[s] = "Leader", NEW p \in Peers(s)
          PROVE  Promised(p, s, matchIndex[s][p] + 1)'
      <3>1. role[s] = "Leader" /\ currentTerm'[s] = currentTerm[s]
        BY <2>1, <2>3
      <3>2. CASE matchIndex'[s][p] = matchIndex[s][p]
        <4>1. PICK m \in Int : m = matchIndex[s][p] + 1 /\ m <= Len(log[s]) /\ p \in Server /\ Promised(p, s, m)
          BY <1>2, <3>1
        <4>2. Promised(p, s, m)'
          BY <2>3, <3>1, <4>1, PromisedStep
        <4> QED BY <3>2, <4>1, <4>2
      <3>3. ASSUME NEW r \in Replies, Learns(s, p, r) PROVE Promised(p, s, matchIndex[s][p] + 1)'
        <4>1. /\ r.from = s /\ r.to = p /\ Success(r) /\ Leads(s, r.term)
              /\ matchIndex'[s][p] = (r.nextIndex + r.count) - 1
          BY <3>3 DEF Learns
        <4>2. PICK m \in Int : m = r.nextIndex + r.count
          BY <1>3, <4>1
        <4>3. Promised(p, s, m)'
          BY <2>2, <2>3, <3>1, <4>1, <4>2 DEF Leads
        <4>4. matchIndex'[s][p] + 1 = m
          BY <4>1, <4>2
        <4> QED BY <4>3, <4>4
      <3> QED BY <1>5, <2>3, <3>2, <3>3 DEF Told
    <2>4. ASSUME NEW r \in Replies', Leads(r.from, r.term)', Success(r), NEW q \in Requests, Overwrites(q),
                 r = AppendReply(q, q.term, TRUE)
          PROVE  Promised(r.to, r.from, r.nextIndex + r.count)'
      <3>1. /\ r.to = q.to /\ r.term = q.term /\ currentTerm'[q.to] = q.term
        BY <2>4 DEF AppendReply, Overwrites
      <3>2. HasFirst(r.to, r.from, r.nextIndex + r.count)' /\ \E e \in elections' : ElectedIn(r.from, r.term, e)
        BY <1>1, <2>4 DEF LogInv, AcksSound, AppendsOfLeaders, Success, Replies
      <3>3. PICK e \in elections' : e.term = r.term
        BY <3>2 DEF ElectedIn
      <3>4. r.to \in Server /\ currentTerm'[r.from] = r.term /\ currentTerm'[r.to] = r.term
        BY <1>1, <2>4, <3>1, LogTypes DEF Leads, Requests
      <3>5. PICK m : m = r.nextIndex + r.count
        OBVIOUS
      <3>6. m <= Len(log'[r.to]) /\ \A i \in 1..m : log'[r.to][i] = log'[r.from][i]
        BY <3>2, <3>4, <3>5 DEF HasFirst
      <3>7. ASSUME NEW j \in 1..m, log'[r.from][j].term = r.term PROVE Acked(r.to, j, r.term)'
        <4>1. r \in AppendReplies /\ m \in Nat /\ Len(log'[r.to]) \in Nat
          <5>1. r \in AppendReplies
            BY <1>1, <2>4, ThreadKinds DEF TypeInv, TypeOK, Replies, AppendThreads
          <5> QED BY <1>1, <3>4, <3>5, <5>1, NewTypes DEF AppendReplies
        <4>2. j \in Nat /\ Holds(log'[r.to], j, e.term)
          BY <3>3, <3>6, <3>7, <4>1 DEF Holds
        <4> QED BY <3>3, <3>4, <4>2, NewStateFacts DEF FreshAcks
      <3> QED BY <3>4, <3>5, <3>7 DEF Promised
    <2>5. \A r \in Replies' : Leads(r.from, r.term)' /\ Success(r)
              => Promised(r.to, r.from, r.nextIndex + r.count)'
      BY <1>5, <2>2, <2>4 DEF Told
    <2> QED BY <2>3, <2>5 DEF AcksKept, Success
  <1> QED BY <1>1, <1>4, <1>5, AckKinds

-----------------------------------------------------------------------------
\* Commits.  A leader commits its log up to an entry of its own term that a
\* majority has acknowledged, at j: every log that holds that entry has the
\* committed ones before it.
Fixed(c, j) == \A s \in Server : Holds(log[s], j, c.term) => log[s][c.index + 1] = c.entry
AnchoredAt(c, j) == c.index < j /\ Chosen(j, c.term) /\ Fixed(c, j)
CommittedAnchored == \A c \in committed : \E j \in Nat : AnchoredAt(c, j)

\* A replica that has committed index i holds such an entry, and a request that
\* tells that i is committed ends with it or after it.
Covers(c, j, i, lg) == c.index = i /\ AnchoredAt(c, j) /\ Holds(lg, j, c.term)
CommitHeld ==
    \A s \in Server : \A i \in 0..commitIndex[s] :
        \E c \in committed : \E j \in Nat : Covers(c, j, i, log[s])
EndsAfter(r, j, t) == t < EndTerm(r) \/ (t = EndTerm(r) /\ j <= EndIndex(r))
RequestCommits ==
    \A r \in Requests : \A i \in 0..r.leaderCommit :
        \E c \in committed : \E j \in Nat : c.index = i /\ AnchoredAt(c, j) /\ EndsAfter(r, j, c.term)

\* What has been handed to the executer.
Applied ==
    \A s \in Server :
        /\ lastApplied[s] = commitIndex[s]
        /\ Len(raftOut[s]) = commitIndex[s] + 1
        /\ \A i \in 1..Len(raftOut[s]) : raftOut[s][i] = log[s][i].op

CommitInv == AcksKept /\ CommittedAnchored /\ CommitHeld /\ RequestCommits /\ Applied

LEMMA CommitTypes ==
    ASSUME TypeInv
    PROVE  /\ \A c \in committed : c.index \in Nat /\ c.entry \in Entry /\ c.term \in Nat
           /\ \A s \in Server : /\ commitIndex[s] \in Index /\ lastApplied[s] \in Index
                                /\ raftOut[s] \in Seq(Op) /\ Len(raftOut[s]) \in Nat
           /\ DOMAIN commitIndex = Server /\ DOMAIN lastApplied = Server /\ DOMAIN raftOut = Server
           /\ \A r \in Requests : r.leaderCommit \in Index /\ r.to \in Server
  <1>1. \A r \in Requests : r \in AppendRequests
    BY LogTypes
  <1> QED BY <1>1 DEF TypeInv, TypeOK, Term, AppendRequests

LEMMA InitCommitInv == Init => CommitInv
  <1> SUFFICES ASSUME Init PROVE CommitInv
    OBVIOUS
  <1>1. AcksKept
    BY DEF Init, AcksKept, Replies, AppendThreads
  <1>2. CommittedAnchored /\ RequestCommits
    BY DEF Init, CommittedAnchored, RequestCommits, Requests, AppendThreads
  <1>3. CommitHeld
    BY DEF Init, CommitHeld
  <1>4. Applied
    BY DEF Init, Applied
  <1> QED BY <1>1, <1>2, <1>3, <1>4 DEF CommitInv

\* Whatever a step does, a committed entry stays where it is.
LEMMA AnchorStep ==
    ASSUME Scheduled, HistoryInv, HistoryInv', [Next]_vars, NEW c \in committed, NEW j \in Nat,
           AnchoredAt(c, j)
    PROVE  /\ AnchoredAt(c, j)'
           /\ \A s \in Server : Holds(log[s], j, c.term) =>
                 Holds(log'[s], j, c.term) /\ \A i \in 1..j : log'[s][i] = log[s][i]
  <1>1. c.index \in Nat /\ c.term \in Nat
    BY CommitTypes DEF HistoryInv, ReplicationInv
  <1>2. c.index < j /\ Chosen(j, c.term) /\ Fixed(c, j) /\ c.index + 1 \in 1..j
    BY <1>1 DEF AnchoredAt
  <1>3. PICK t \in Nat : t = c.term
    BY <1>1
  <1>4. /\ Chosen(j, t)'
        /\ \A s \in Server : Holds(log[s], j, t) =>
              Holds(log'[s], j, t) /\ \A i \in 1..j : log'[s][i] = log[s][i]
    BY <1>2, <1>3, ChosenStep
  <1>5. PICK q \in Server : Holds(log[q], j, t)
    <2>1. PICK Q \in SUBSET Server : AckedByMajority(Q, j, t)
      BY <1>2, <1>3 DEF Chosen
    <2> QED BY <2>1, StateFacts DEF MajoritiesHold
  <1>6. ASSUME NEW s \in Server, Holds(log'[s], j, t) PROVE log'[s][c.index + 1] = c.entry
    <2>1. Holds(log'[q], j, t) /\ log'[q][c.index + 1] = log[q][c.index + 1]
      BY <1>2, <1>4, <1>5
    <2>2. log'[s][c.index + 1] = log'[q][c.index + 1]
      BY <1>2, <1>6, <2>1, NewStateFacts DEF LogsAgree
    <2> QED BY <1>2, <1>3, <1>5, <2>1, <2>2 DEF Fixed
  <1>7. Fixed(c, j)'
    BY <1>3, <1>6 DEF Fixed
  <1> QED BY <1>2, <1>3, <1>4, <1>7 DEF AnchoredAt

LEMMA CoversStep ==
    ASSUME Scheduled, HistoryInv, HistoryInv', [Next]_vars, NEW s \in Server, NEW i \in Nat,
           NEW c \in committed, NEW j \in Nat, Covers(c, j, i, log[s])
    PROVE  /\ Covers(c, j, i, log[s])'
           /\ i + 1 <= Len(log[s]) /\ i + 1 <= Len(log'[s])
           /\ \A k \in 1..(i + 1) : log'[s][k] = log[s][k]
  <1>1. c.index = i /\ AnchoredAt(c, j) /\ Holds(log[s], j, c.term) /\ i < j
    BY DEF Covers, AnchoredAt
  <1>2. /\ AnchoredAt(c, j)' /\ Holds(log'[s], j, c.term)
        /\ \A k \in 1..j : log'[s][k] = log[s][k]
    BY <1>1, AnchorStep
  <1>3. Len(log[s]) \in Nat /\ Len(log'[s]) \in Nat
    BY LogTypes, NewTypes DEF HistoryInv, ReplicationInv
  <1>4. i + 1 <= Len(log[s]) /\ i + 1 <= Len(log'[s]) /\ \A k \in 1..(i + 1) : k \in 1..j
    BY <1>1, <1>2, <1>3 DEF Holds
  <1> QED BY <1>1, <1>2, <1>4 DEF Covers

\* The new CommitIndex of a leader, if there is one, has been counted.
LEMMA NewCommitCounted ==
    ASSUME NEW s \in Server, NEW match, commitIndex[s] \in Index, log[s] \in Seq(Entry),
           NewCommitIndex(s, match) # commitIndex[s]
    PROVE  NewCommitIndex(s, match) \in Committable(s, match)
  <1> DEFINE c == commitIndex[s]
             l == LastLogIndex(log[s])
             C == Committable(s, match)
             A == {i \in (c + 1)..l : \E j \in C : i <= j}
             Out == {m \in Nat : c + 1 + m \notin A}
  <1>1. c \in Int /\ l \in Int /\ c >= -1 /\ l >= -1
    BY DEF Index, LastLogIndex
  <1>2. C \subseteq (c + 1)..l
    BY DEF Committable
  <1>3. NewCommitIndex(s, match) = c + Cardinality(A)
    BY DEF NewCommitIndex
  <1> HIDE DEF c, l, C
  <1>4. Out # {}
    <2>1. l + 1 \in Nat /\ c + 1 \in Nat
      BY <1>1
    <2>2. c + 1 + (l + 1) \notin (c + 1)..l
      BY <1>1
    <2> QED BY <2>1, <2>2
  <1>5. PICK m \in Out : \A k \in Out : m <= k
    BY <1>4, Least
  <1>6. m \in Nat /\ c + 1 + m \notin A /\ \A k \in Nat : k < m => c + 1 + k \in A
    BY <1>5
  <1> HIDE DEF Out
  <1>7. A = (c + 1)..(c + m)
    <2>1. ASSUME NEW i \in (c + 1)..(c + m) PROVE i \in A
      <3>1. PICK k \in Nat : k = i - (c + 1)
        BY <1>1, <1>6
      <3>2. k < m /\ c + 1 + k = i
        BY <1>1, <1>6, <3>1
      <3> HIDE DEF A
      <3> QED BY <1>6, <3>2
    <2>2. ASSUME NEW i \in A PROVE i \in (c + 1)..(c + m)
      <3>1. i \in (c + 1)..l /\ \E j \in C : i <= j
        OBVIOUS
      <3>2. ASSUME i > c + m PROVE FALSE
        <4>1. c + 1 + m \in (c + 1)..l /\ c + 1 + m <= i
          BY <1>1, <1>6, <3>1, <3>2
        <4>2. PICK j \in C : i <= j
          BY <3>1
        <4>3. j \in Int /\ i \in Int /\ c + 1 + m <= j
          BY <1>1, <1>2, <1>6, <3>1, <4>1, <4>2
        <4>4. c + 1 + m \in A
          BY <4>1, <4>2, <4>3
        <4> QED BY <1>6, <4>4
      <3> QED BY <1>1, <1>6, <3>1, <3>2
    <2> HIDE DEF A
    <2> QED BY <2>1, <2>2
  <1>8. Cardinality(A) = m
    <2>1. c + 1 \in Int /\ c + m \in Int
      BY <1>1, <1>6
    <2>2. Cardinality((c + 1)..(c + m)) = IF c + 1 > c + m THEN 0 ELSE (c + m) - (c + 1) + 1
      BY <2>1, FS_Interval
    <2>3. m \in Nat /\ c \in Int
      BY <1>1, <1>6
    <2>4. (c + m) - (c + 1) + 1 = m /\ (c + 1 > c + m <=> m = 0)
      BY <2>3
    <2> HIDE DEF A, c
    <2> QED BY <1>7, <2>2, <2>4
  <1>9. m # 0
    BY <1>1, <1>3, <1>8 DEF c
  <1>10. c + m \in A
    <2>1. c + m \in (c + 1)..(c + m)
      BY <1>1, <1>6, <1>9
    <2> QED BY <1>7, <2>1
  <1>11. PICK j \in C : c + m <= j
    BY <1>10
  <1>12. j \in A /\ j \in Int
    BY <1>1, <1>2
  <1>13. j \in (c + 1)..(c + m)
    BY <1>7, <1>12
  <1>14. j = c + m
    BY <1>1, <1>6, <1>11, <1>12, <1>13
  <1> QED BY <1>3, <1>8, <1>14 DEF C

-----------------------------------------------------------------------------
\* The kinds of steps, by what they do to commits: nothing; a restart forgets
\* CommitIndex; a follower takes it over from a request; a leader counts.
CatchesUp(r) ==
    LET new   == Merge(log[r.to], r.prevLogIndex, r.entries)
        least == IF r.leaderCommit < Len(new) THEN r.leaderCommit ELSE LastLogIndex(new)
    IN  /\ Accepted(r) /\ AdvancesCommit(r)
        /\ log' = [log EXCEPT ![r.to] = new]
        /\ Apply(r.to, new, least)
        /\ committed' = committed
Counts(s) ==
    LET commit == NewCommitIndex(s, matchIndex'[s])
    IN  /\ role[s] = "Leader" /\ role'[s] = "Leader" /\ UNCHANGED <<currentTerm, log>>
        /\ commit # commitIndex[s]
        /\ Apply(s, log[s], commit)
        /\ committed' = committed \cup
              {[index |-> i, entry |-> log[s][i + 1], term |-> currentTerm[s]]
                 : i \in (commitIndex[s] + 1)..commit}

LEMMA CommitAnswer ==
    ASSUME TypeInv, NEW r \in Threads("reply", "AppendEntries"), AppendEntriesReply(r)
    PROVE  UNCHANGED <<applyVars, committed>> \/ Counts(r.from)
  <1> DEFINE s      == r.from
             match  == [matchIndex[s] EXCEPT ![r.to] = NextAfter(r) - 1]
             commit == NewCommitIndex(s, match)
             new    == {[index |-> i, entry |-> log[s][i + 1], term |-> currentTerm[s]]
                          : i \in (commitIndex[s] + 1)..commit}
  <1>1. /\ s \in Server /\ DOMAIN matchIndex = Server
    BY LogTypes DEF Threads, AppendThreads
  <1>2. CASE /\ role[s] = "Leader" /\ UNCHANGED <<role, currentTerm, log>>
             /\ matchIndex' = [matchIndex EXCEPT ![s] = match]
             /\ committed' = committed \cup new
             /\ IF commit # commitIndex[s] THEN Apply(s, log[s], commit) ELSE UNCHANGED applyVars
    <2>1. matchIndex'[s] = match
      BY <1>1, <1>2
    <2>2. CASE commit = commitIndex[s]
      <3>1. commitIndex[s] \in Int
        BY <1>1, CommitTypes DEF Index
      <3> HIDE DEF s, commit
      <3>2. (commitIndex[s] + 1)..commit = {}
        BY <2>2, <3>1
      <3>3. new = {}
        BY <3>2
      <3> QED BY <1>2, <2>2, <3>3
    <2>3. CASE commit # commitIndex[s]
      BY <1>2, <2>1, <2>3 DEF Counts
    <2> QED BY <2>2, <2>3
  <1>3. \/ UNCHANGED <<applyVars, committed>>
        \/ /\ role[s] = "Leader" /\ UNCHANGED <<role, currentTerm, log>>
           /\ matchIndex' = [matchIndex EXCEPT ![s] = match]
           /\ committed' = committed \cup new
           /\ IF commit # commitIndex[s] THEN Apply(s, log[s], commit) ELSE UNCHANGED applyVars
    BY DEF AppendEntriesReply
  <1> QED BY <1>2, <1>3

LEMMA CommitKinds ==
    ASSUME Scheduled, TypeInv, [Next]_vars
    PROVE  \/ UNCHANGED <<applyVars, committed>>
           \/ \E s \in Server : Restart(s) \/ Counts(s)
           \/ \E r \in Requests : CatchesUp(r)
  <1>1. ASSUME NEW r \in Threads("request", "AppendEntries"), AppendEntries(r)
        PROVE  UNCHANGED <<applyVars, committed>> \/ CatchesUp(r)
    BY <1>1 DEF AppendEntries, CatchesUp, historyVars
  <1>2. \A r \in Threads("request", "AppendEntries") : r \in Requests /\ r.to \in Server
    BY LogTypes DEF Threads, Requests, AppendThreads
  <1>3. \A r \in Threads("reply", "AppendEntries") : r.from \in Server
    BY LogTypes DEF Threads, AppendThreads
  <1>4. \A r \in Threads("request", "AppendEntries") : CrashInAppendEntries(r) => Restart(r.to)
    BY DEF CrashInAppendEntries
  <1>5. \A s \in Server : Crash(s) \/ CrashInPersist(s) \/ CrashInRound(s) => Restart(s)
    BY DEF Crash, CrashInPersist, CrashInRound
  <1>6. \A s \in Server : RunLeaderOneIter(s) \/ StartElection(s) \/ (\E op \in Op : Submit(s, op))
                          \/ RaftImplLeader(s) \/ RaftImplOther(s)
            => UNCHANGED <<applyVars, committed>>
    BY DEF RunLeaderOneIter, StartElection, Submit, RaftImplLeader, RaftImplOther, historyVars
  <1>7. \A r : SendRequestVote(r) \/ SendAppendEntries(r) \/ RequestVote(r) \/ RequestVoteReply(r)
               \/ LoseRPC(r)
            => UNCHANGED <<applyVars, committed>>
    BY DEF SendRequestVote, SendAppendEntries, RequestVote, RequestVoteReply, LoseRPC, historyVars
  <1>8. UNCHANGED vars => UNCHANGED <<applyVars, committed>>
    BY DEF vars, historyVars
  <1>9. \A r \in Threads("reply", "AppendEntries") :
            AppendEntriesReply(r) => UNCHANGED <<applyVars, committed>> \/ Counts(r.from)
    BY CommitAnswer
  <1>10. Continue => UNCHANGED <<applyVars, committed>> \/ \E s \in Server : Restart(s)
    BY <1>5, <1>6, <1>7 DEF Continue
  <1> QED BY <1>1, <1>2, <1>3, <1>4, <1>5, <1>6, <1>7, <1>8, <1>9, <1>10 DEF Next

\* Everything that is handed to the executer is in the log.
LEMMA ApplyStep ==
    ASSUME TypeInv, NEW s \in Server, NEW lg \in Seq(Entry), NEW n \in Index, n >= commitIndex[s],
           n < Len(lg), Apply(s, lg, n), Applied,
           \A i \in 1..(commitIndex[s] + 1) : lg[i] = log[s][i]
    PROVE  /\ commitIndex'[s] = n /\ lastApplied'[s] = n /\ Len(raftOut'[s]) = n + 1
           /\ \A i \in 1..(n + 1) : raftOut'[s][i] = lg[i].op
           /\ \A p \in Server \ {s} : /\ commitIndex'[p] = commitIndex[p] /\ lastApplied'[p] = lastApplied[p]
                                      /\ raftOut'[p] = raftOut[p]
  <1> DEFINE l    == lastApplied[s]
             b    == [i \in 1..(n - l) |-> lg[l + 1 + i].op]
             a    == raftOut[s]
  <1>1. /\ l \in Index /\ l = commitIndex[s] /\ a \in Seq(Op) /\ Len(a) = l + 1
        /\ \A i \in 1..Len(a) : a[i] = log[s][i].op
        /\ DOMAIN commitIndex = Server /\ DOMAIN lastApplied = Server /\ DOMAIN raftOut = Server
        /\ Len(lg) \in Nat
    BY CommitTypes DEF Applied
  <1>2. /\ commitIndex' = [commitIndex EXCEPT ![s] = n] /\ lastApplied' = [lastApplied EXCEPT ![s] = n]
        /\ raftOut' = [raftOut EXCEPT ![s] = a \o b]
    BY DEF Apply
  <1>3. n - l \in Nat
    BY <1>1 DEF Index
  <1>4. b \in Seq(Op) /\ Len(b) = n - l /\ \A i \in 1..(n - l) : b[i] = lg[l + 1 + i].op
    <2>1. ASSUME NEW i \in 1..(n - l) PROVE lg[l + 1 + i].op \in Op
      <3>1. l + 1 + i \in 1..Len(lg)
        BY <1>1, <1>3 DEF Index
      <3> QED BY <3>1, EntriesOfLog
    <2> HIDE DEF l
    <2> QED BY <1>3, <2>1
  <1> HIDE DEF a, b, l
  <1>5. /\ Len(a \o b) = Len(a) + Len(b)
        /\ \A i \in 1..Len(a) : (a \o b)[i] = a[i]
        /\ \A k \in 1..Len(b) : (a \o b)[Len(a) + k] = b[k]
    <2>1. a \in Seq(Op) /\ b \in Seq(Op)
      BY <1>1, <1>4
    <2> QED BY <2>1, ConcatParts
  <1>6. Len(a \o b) = n + 1
    BY <1>1, <1>4, <1>5 DEF Index
  <1>7. ASSUME NEW i \in 1..(n + 1) PROVE (a \o b)[i] = lg[i].op
    <2>1. CASE i <= l + 1
      <3>1. i \in 1..Len(a) /\ i \in 1..(commitIndex[s] + 1)
        BY <1>1, <2>1 DEF Index
      <3> QED BY <1>1, <1>5, <3>1
    <2>2. CASE i > l + 1
      <3>1. PICK k \in 1..(n - l) : k = i - (l + 1)
        BY <1>1, <1>3, <2>2 DEF Index
      <3>2. k \in 1..Len(b) /\ Len(a) + k = i /\ l + 1 + k = i
        BY <1>1, <1>3, <1>4, <3>1 DEF Index
      <3> QED BY <1>4, <1>5, <3>1, <3>2
    <2>3. i <= l + 1 \/ i > l + 1
      BY <1>1 DEF Index
    <2> QED BY <2>1, <2>2, <2>3
  <1>8. commitIndex'[s] = n /\ lastApplied'[s] = n /\ raftOut'[s] = a \o b
    BY <1>1, <1>2
  <1> QED BY <1>1, <1>2, <1>6, <1>7, <1>8

-----------------------------------------------------------------------------
\* A log that accepted a request has the end of the request.
LEMMA MergedEnd ==
    ASSUME TypeInv, LogInv, NEW r \in Requests, NEW lg, Made(lg), PrevMatches(r, lg), EndTerm(r) # -1
    PROVE  LET m == Merge(lg, r.prevLogIndex, r.entries)
           IN  Made(m) /\ EndIndex(r) \in 1..Len(m) /\ m[EndIndex(r)].term = EndTerm(r)
  <1> DEFINE prev == r.prevLogIndex
             es   == r.entries
             a    == Agreeing(lg, prev, es)
             m    == Merge(lg, prev, es)
  <1>1. /\ r \in AppendRequests /\ lg \in Seq(Entry) /\ Len(lg) \in Nat
        /\ prev \in Index /\ es \in Seq(Entry) /\ Len(es) \in Nat
        /\ (prev = -1 => r.prevLogTerm = -1)
    BY LogTypes DEF Made, AppendRequests, LogInv, AppendsOfLeaders
  <1>2. /\ prev < Len(lg) /\ LogLinks(m) \subseteq LogLinks(lg) \cup RequestLinks(r)
    BY <1>1, MergedLinks
  <1>3. /\ m \in Seq(Entry) /\ a \in 0..Len(es)
        /\ \A k \in 1..a : prev + 1 + k <= Len(lg) /\ lg[prev + 1 + k].term = es[k].term
        /\ \/ a = Len(es) /\ m = lg
           \/ /\ a < Len(es) /\ Len(m) = prev + 1 + Len(es)
              /\ \A k \in (a + 1)..Len(es) : m[prev + 1 + k] = es[k]
    <2>1. a \in 0..Len(es) /\ \A k \in 1..a : prev + 1 + k <= Len(lg) /\ lg[prev + 1 + k].term = es[k].term
      BY <1>1, AgreeingExact
    <2> QED BY <1>1, <1>2, <2>1, MergeShape
  <1>4. Made(m)
    BY <1>2, <1>3, LinkSources DEF Made
  <1> HIDE DEF m, a
  <1>5. EndIndex(r) = prev + 1 + Len(es) /\ prev \in Int
    BY <1>1 DEF EndIndex, Index
  <1>6. CASE Len(es) = 0
    <2>1. EndTerm(r) = r.prevLogTerm /\ prev # -1
      BY <1>1, <1>6 DEF EndTerm
    <2>2. m = lg
      BY <1>1, <1>3, <1>6
    <2>3. prev \in 0..(Len(lg) - 1) /\ r.prevLogTerm = lg[prev + 1].term
      BY <2>1 DEF PrevMatches, LastLogIndex
    <2>4. EndIndex(r) = prev + 1 /\ prev + 1 \in 1..Len(m)
      BY <1>1, <1>5, <1>6, <2>2, <2>3
    <2> QED BY <1>4, <2>1, <2>2, <2>3, <2>4 DEF m
  <1>7. CASE Len(es) # 0
    <2>1. EndTerm(r) = es[Len(es)].term
      BY <1>7 DEF EndTerm
    <2>2. CASE a = Len(es) /\ m = lg
      <3>1. Len(es) \in 1..a
        BY <1>1, <1>7, <2>2
      <3>2. prev + 1 + Len(es) <= Len(lg) /\ lg[prev + 1 + Len(es)].term = es[Len(es)].term
        BY <1>3, <3>1
      <3>3. prev + 1 + Len(es) \in 1..Len(lg)
        BY <1>1, <1>7, <3>2 DEF Index
      <3> QED BY <1>4, <1>5, <2>1, <2>2, <3>2, <3>3 DEF m
    <2>3. CASE /\ a < Len(es) /\ Len(m) = prev + 1 + Len(es)
               /\ \A k \in (a + 1)..Len(es) : m[prev + 1 + k] = es[k]
      <3>1. Len(es) \in (a + 1)..Len(es)
        BY <1>1, <1>3, <2>3
      <3>2. m[prev + 1 + Len(es)] = es[Len(es)]
        BY <2>3, <3>1
      <3>3. prev + 1 + Len(es) \in 1..Len(m)
        BY <1>1, <1>7, <2>3 DEF Index
      <3> QED BY <1>4, <1>5, <2>1, <3>2, <3>3 DEF m
    <2> QED BY <1>3, <2>2, <2>3
  <1> QED BY <1>6, <1>7

\* So it holds the entries that anchor what the request tells to be committed.
LEMMA CaughtUp ==
    ASSUME HistoryInv, NEW r \in Requests, NEW lg, Made(lg), PrevMatches(r, lg),
           NEW j \in Nat, NEW t \in Nat, Chosen(j, t), EndsAfter(r, j, t)
    PROVE  Holds(Merge(lg, r.prevLogIndex, r.entries), j, t)
  <1> DEFINE m == Merge(lg, r.prevLogIndex, r.entries)
  <1>1. TypeInv /\ LogInv /\ Electors
    BY DEF HistoryInv, ReplicationInv, VotesInv
  <1>2. PICK Q \in SUBSET Server : AckedByMajority(Q, j, t)
    BY DEF Chosen
  <1>3. PICK q \in Server : q \in Q /\ Holds(log[q], j, t)
    BY <1>2, StateFacts DEF MajoritiesHold
  <1>4. PICK e \in elections : e.term = t
    BY <1>2, <1>3 DEF AckedByMajority, Acked
  <1>5. Len(e.log) < j
    BY <1>1, <1>3, <1>4, MadeLogs, HeldAfterElection
  <1>6. EndTerm(r) # -1
    <2>1. EndTerm(r) \in Int
      <3>1. r.entries \in Seq(Entry) /\ r.prevLogTerm \in Index
        BY <1>1, LogTypes DEF AppendRequests
      <3>2. \A i \in 1..Len(r.entries) : r.entries[i].term \in Nat
        BY <3>1, EntryTerms
      <3>3. Len(r.entries) # 0 => Len(r.entries) \in 1..Len(r.entries)
        BY <3>1
      <3> QED BY <3>1, <3>2, <3>3 DEF EndTerm, Index
    <2> QED BY <2>1 DEF EndsAfter
  <1>7. Made(m) /\ EndIndex(r) \in 1..Len(m) /\ m[EndIndex(r)].term = EndTerm(r)
    BY <1>1, <1>6, MergedEnd
  <1>8. \A x \in elections : x.term > t => Holds(x.log, j, t)
    BY <1>1, Completeness
  <1> HIDE DEF m
  <1>9. \/ e.term < m[EndIndex(r)].term
        \/ e.term = m[EndIndex(r)].term /\ j <= EndIndex(r)
    BY <1>4, <1>7 DEF EndsAfter
  <1>10. Holds(m, j, e.term)
    BY <1>1, <1>4, <1>5, <1>7, <1>8, <1>9, Below
  <1> QED BY <1>4, <1>10 DEF m

\* What a leader commits is anchored at the entry it counted.
LEMMA CountAnchors ==
    ASSUME HistoryInv, HistoryInv', AcksKept', NEW s \in Server, Counts(s),
           NEW n, n = commitIndex'[s], NEW t, t = currentTerm[s]
    PROVE  /\ n \in (commitIndex[s] + 1)..LastLogIndex(log[s])
           /\ Holds(log'[s], n + 1, t)
           /\ \A c \in committed' : c \in committed \/
                 /\ c.term = t /\ c.index \in (commitIndex[s] + 1)..n
                 /\ AnchoredAt(c, n + 1)'
           /\ \A i \in (commitIndex[s] + 1)..n : \E c \in committed' :
                 c.index = i /\ c.term = t /\ AnchoredAt(c, n + 1)'
  <1> DEFINE match == matchIndex'[s]
             rec(i) == [index |-> i, entry |-> log[s][i + 1], term |-> t]
  <1>1. TypeInv /\ TypeInv' /\ LogInv'
    BY DEF HistoryInv, ReplicationInv
  <1>2. /\ commitIndex[s] \in Index /\ log[s] \in Seq(Entry) /\ Len(log[s]) \in Nat /\ t \in Nat
        /\ DOMAIN commitIndex = Server
    BY <1>1, LogTypes, CommitTypes
  <1>3. /\ role'[s] = "Leader" /\ currentTerm' = currentTerm /\ log' = log
        /\ n # commitIndex[s] /\ n = NewCommitIndex(s, match)
        /\ committed' = committed \cup {rec(i) : i \in (commitIndex[s] + 1)..n}
    BY <1>2 DEF Counts, Apply
  <1>4. n \in Committable(s, match)
    BY <1>2, <1>3, NewCommitCounted
  <1>5. /\ n \in (commitIndex[s] + 1)..LastLogIndex(log[s])
        /\ log[s][n + 1].term = t /\ IsMajority(1 + Cardinality({p \in Peers(s) : match[p] >= n}))
    BY <1>4 DEF Committable, MayCommit
  <1>6. n \in Nat /\ n + 1 \in 1..Len(log[s]) /\ n + 1 \in Nat
    BY <1>2, <1>5 DEF Index, LastLogIndex
  <1>7. Holds(log'[s], n + 1, t)
    BY <1>3, <1>5, <1>6 DEF Holds
  <1>8. PICK e \in elections' : e.term = t
    BY <1>1, <1>3 DEF LogInv, LeaderExtends, ElectedIn
  <1>9. Acked(s, n + 1, t)'
    <2>1. FreshAcks'
      BY NewStateFacts
    <2>2. Holds(log'[s], n + 1, e.term) /\ currentTerm'[s] = e.term /\ n + 1 \in Nat
      BY <1>3, <1>6, <1>7, <1>8
    <2>3. Acked(s, n + 1, e.term)'
      BY <2>1, <2>2 DEF FreshAcks
    <2> QED BY <1>8, <2>3
  <1>10. PICK P : P = {p \in Peers(s) : match[p] >= n}
    OBVIOUS
  <1>11. ASSUME NEW p \in P PROVE p \in Server /\ Acked(p, n + 1, t)'
    <2>1. p \in Peers(s) /\ match[p] >= n /\ match[p] \in Index
      BY <1>1, <1>10 DEF TypeInv, TypeOK
    <2>2. Promised(p, s, matchIndex[s][p] + 1)'
      BY <1>3, <2>1 DEF AcksKept
    <2>3. n + 1 \in 1..(match[p] + 1)
      BY <1>6, <2>1 DEF Index
    <2>4. log'[s][n + 1].term = currentTerm'[s] /\ currentTerm'[s] = t
      BY <1>3, <1>5
    <2>5. Acked(p, n + 1, currentTerm[s])'
      BY <2>2, <2>3, <2>4 DEF Promised
    <2> QED BY <2>1, <2>4, <2>5 DEF Peers
  <1>12. P \in SUBSET Server /\ s \notin P
    BY <1>10 DEF Peers
  <1>13. PICK Q \in SUBSET Server : Q = P \cup {s}
    BY <1>12
  <1>14. IsMajority(Cardinality(Q))
    <2>1. IsFiniteSet(P)
      BY <1>12, ServerAssumption, FS_Subset
    <2>2. Cardinality(Q) = Cardinality(P) + 1 /\ Cardinality(P) \in Nat
      BY <1>12, <1>13, <2>1, FS_AddElement, FS_CardinalityType
    <2>3. Cardinality(P) + 1 = 1 + Cardinality(P)
      BY <2>2
    <2> QED BY <1>5, <1>10, <2>2, <2>3
  <1>15. Chosen(n + 1, t)'
    <2>1. \A q \in Q : Acked(q, n + 1, t)'
      BY <1>9, <1>11, <1>13
    <2>2. AckedByMajority(Q, n + 1, t)'
      BY <1>14, <2>1 DEF AckedByMajority
    <2> QED BY <2>2 DEF Chosen
  <1>16. ASSUME NEW i \in (commitIndex[s] + 1)..n, NEW c, c = rec(i)
         PROVE  c.index = i /\ c.term = t /\ AnchoredAt(c, n + 1)'
    <2>1. c.index = i /\ c.term = t /\ c.entry = log[s][i + 1]
      BY <1>16
    <2>2. i + 1 \in 1..(n + 1) /\ i < n + 1
      BY <1>2, <1>6 DEF Index
    <2>3. ASSUME NEW p \in Server, Holds(log'[p], n + 1, t) PROVE log'[p][i + 1] = c.entry
      <3>1. log'[p][i + 1] = log'[s][i + 1]
        BY <1>2, <1>6, <1>7, <2>2, <2>3, NewStateFacts DEF LogsAgree
      <3> QED BY <1>3, <2>1, <3>1
    <2> QED BY <1>15, <2>1, <2>2, <2>3 DEF AnchoredAt, Fixed
  <1> HIDE DEF rec
  <1>17. \A c \in committed' : c \in committed \/
            /\ c.term = t /\ c.index \in (commitIndex[s] + 1)..n
            /\ AnchoredAt(c, n + 1)'
    BY <1>3, <1>16
  <1>18. ASSUME NEW i \in (commitIndex[s] + 1)..n
         PROVE  \E c \in committed' : c.index = i /\ c.term = t /\ AnchoredAt(c, n + 1)'
    <2>1. PICK c : c = rec(i)
      OBVIOUS
    <2>2. c \in committed'
      BY <1>3, <2>1
    <2> QED BY <1>16, <2>1, <2>2
  <1> QED BY <1>5, <1>7, <1>17, <1>18

-----------------------------------------------------------------------------
\* Every step preserves the invariant.

LEMMA CommittedGrows ==
    ASSUME Scheduled, TypeInv, [Next]_vars
    PROVE  committed \subseteq committed'
  BY CommitKinds DEF Restart, Counts, CatchesUp, historyVars

\* No step takes away a part of a log that its replica has committed.
LEMMA CommitKept ==
    ASSUME Scheduled, HistoryInv, HistoryInv', CommitHeld, [Next]_vars, NEW s \in Server
    PROVE  /\ commitIndex[s] < Len(log[s]) /\ commitIndex[s] < Len(log'[s])
           /\ \A k \in 1..(commitIndex[s] + 1) : log'[s][k] = log[s][k]
  <1>1. commitIndex[s] \in Index /\ Len(log[s]) \in Nat /\ Len(log'[s]) \in Nat
    BY CommitTypes, LogTypes, NewTypes DEF HistoryInv, ReplicationInv
  <1>2. CASE commitIndex[s] = -1
    BY <1>1, <1>2
  <1>3. CASE commitIndex[s] # -1
    <2>1. PICK i \in Nat : i = commitIndex[s]
      BY <1>1, <1>3 DEF Index
    <2>2. i \in 0..commitIndex[s]
      BY <2>1
    <2>3. PICK c \in committed, j \in Nat : Covers(c, j, i, log[s])
      BY <2>2 DEF CommitHeld
    <2>4. /\ i + 1 <= Len(log[s]) /\ i + 1 <= Len(log'[s])
          /\ \A k \in 1..(i + 1) : log'[s][k] = log[s][k]
      BY <2>3, CoversStep
    <2> QED BY <1>1, <2>1, <2>4
  <1> QED BY <1>2, <1>3

\* A follower that catches up: what it takes over it has.
LEMMA CatchUpStep ==
    ASSUME Scheduled, HistoryInv, HistoryInv', CommitHeld, RequestCommits, [Next]_vars,
           NEW r \in Requests, CatchesUp(r)
    PROVE  LET s == r.to
           IN  /\ s \in Server /\ commitIndex'[s] \in Index /\ commitIndex'[s] >= commitIndex[s]
               /\ commitIndex'[s] < Len(log'[s]) /\ Apply(s, log'[s], commitIndex'[s])
               /\ \A p \in Server \ {s} : commitIndex'[p] = commitIndex[p]
               /\ \A i \in 0..commitIndex'[s] : \E c \in committed' : \E j \in Nat : Covers(c, j, i, log[s])'
  <1> DEFINE s     == r.to
             new   == Merge(log[s], r.prevLogIndex, r.entries)
             least == IF r.leaderCommit < Len(new) THEN r.leaderCommit ELSE LastLogIndex(new)
  <1>1. TypeInv /\ TypeInv'
    BY DEF HistoryInv, ReplicationInv
  <1>2. /\ s \in Server /\ r.leaderCommit \in Index /\ commitIndex[s] \in Index
        /\ DOMAIN commitIndex = Server /\ log \in [Server -> Seq(Entry)] /\ Made(log[s])
    BY <1>1, CommitTypes, LogTypes, MadeLogs
  <1>3. /\ PrevMatches(r, log[s]) /\ r.leaderCommit > commitIndex[s]
        /\ log' = [log EXCEPT ![s] = new] /\ Apply(s, new, least) /\ committed' = committed
    BY DEF CatchesUp, Accepted, AdvancesCommit
  <1>4. log'[s] = new
    BY <1>2, <1>3
  <1>5. commitIndex[s] < Len(new) /\ new \in Seq(Entry) /\ Len(new) \in Nat
    BY <1>1, <1>2, <1>4, CommitKept, NewTypes
  <1>6. commitIndex' = [commitIndex EXCEPT ![s] = least]
    BY <1>3 DEF Apply
  <1>7. commitIndex'[s] = least
    BY <1>2, <1>6
  <1>8. ASSUME NEW c \in committed, NEW j \in Nat, AnchoredAt(c, j), EndsAfter(r, j, c.term)
        PROVE  AnchoredAt(c, j)' /\ Holds(log'[s], j, c.term)
    <2>1. Chosen(j, c.term) /\ c.term \in Nat
      BY <1>1, <1>8, CommitTypes DEF AnchoredAt
    <2> QED BY <1>2, <1>3, <1>4, <1>8, <2>1, AnchorStep, CaughtUp
  <1> HIDE DEF new, s
  <1>9. least \in Index /\ least >= commitIndex[s] /\ least < Len(new) /\ least <= r.leaderCommit
    BY <1>2, <1>3, <1>5 DEF LastLogIndex, Index
  <1> HIDE DEF least
  <1>10. ASSUME NEW i \in 0..commitIndex'[s]
         PROVE  \E c \in committed' : \E j \in Nat : Covers(c, j, i, log[s])'
    <2>1. i \in 0..r.leaderCommit
      BY <1>2, <1>7, <1>9 DEF Index
    <2>2. PICK c \in committed, j \in Nat : c.index = i /\ AnchoredAt(c, j) /\ EndsAfter(r, j, c.term)
      BY <2>1 DEF RequestCommits
    <2>3. Covers(c, j, i, log[s])'
      BY <1>8, <2>2 DEF Covers
    <2> QED BY <1>3, <2>2, <2>3
  <1>11. Apply(s, log'[s], commitIndex'[s])
    BY <1>3, <1>4, <1>7
  <1> QED BY <1>2, <1>4, <1>6, <1>7, <1>9, <1>10, <1>11 DEF s

\* A leader that counts.
LEMMA CountStep ==
    ASSUME Scheduled, HistoryInv, HistoryInv', CommitHeld, AcksKept', [Next]_vars, NEW s \in Server, Counts(s)
    PROVE  /\ commitIndex'[s] \in Index /\ commitIndex'[s] >= commitIndex[s]
           /\ commitIndex'[s] < Len(log'[s]) /\ Apply(s, log'[s], commitIndex'[s])
           /\ \A p \in Server \ {s} : commitIndex'[p] = commitIndex[p]
           /\ \A i \in 0..commitIndex'[s] : \E c \in committed' : \E j \in Nat : Covers(c, j, i, log[s])'
  <1> SUFFICES ASSUME NEW n, n = commitIndex'[s], NEW t, t = currentTerm[s]
               PROVE  /\ n \in Index /\ n >= commitIndex[s]
                      /\ n < Len(log'[s]) /\ Apply(s, log'[s], n)
                      /\ \A p \in Server \ {s} : commitIndex'[p] = commitIndex[p]
                      /\ \A i \in 0..n : \E c \in committed' : \E j \in Nat : Covers(c, j, i, log[s])'
    OBVIOUS
  <1>1. TypeInv
    BY DEF HistoryInv, ReplicationInv
  <1>2. /\ commitIndex[s] \in Index /\ DOMAIN commitIndex = Server
        /\ Len(log[s]) \in Nat
    BY <1>1, CommitTypes, LogTypes
  <1>3. /\ n \in (commitIndex[s] + 1)..LastLogIndex(log[s])
        /\ Holds(log'[s], n + 1, t)
        /\ \A i \in (commitIndex[s] + 1)..n : \E c \in committed' :
              c.index = i /\ c.term = t /\ AnchoredAt(c, n + 1)'
    BY CountAnchors
  <1>4. /\ log' = log /\ currentTerm' = currentTerm /\ committed \subseteq committed'
        /\ Apply(s, log[s], NewCommitIndex(s, matchIndex'[s]))
    BY DEF Counts
  <1>5. commitIndex' = [commitIndex EXCEPT ![s] = NewCommitIndex(s, matchIndex'[s])]
    BY <1>4 DEF Apply
  <1>6. n = NewCommitIndex(s, matchIndex'[s]) /\ \A p \in Server \ {s} : commitIndex'[p] = commitIndex[p]
    BY <1>2, <1>5
  <1>7. Apply(s, log'[s], n)
    BY <1>4, <1>6
  <1>8. n \in Nat /\ n \in Index /\ n >= commitIndex[s] /\ n < Len(log[s]) /\ n + 1 \in Nat
    BY <1>2, <1>3 DEF Index, LastLogIndex
  <1>9. ASSUME NEW i \in 0..n PROVE \E c \in committed' : \E j \in Nat : Covers(c, j, i, log[s])'
    <2>1. CASE i <= commitIndex[s]
      <3>1. i \in 0..commitIndex[s] /\ i \in Nat
        BY <1>2, <2>1 DEF Index
      <3>2. PICK c \in committed, j \in Nat : Covers(c, j, i, log[s])
        BY <3>1 DEF CommitHeld
      <3>3. Covers(c, j, i, log[s])'
        BY <3>1, <3>2, CoversStep
      <3> QED BY <1>4, <3>2, <3>3
    <2>2. CASE i > commitIndex[s]
      <3>1. i \in (commitIndex[s] + 1)..n
        BY <1>2, <1>8, <2>2 DEF Index
      <3>2. PICK c \in committed' : c.index = i /\ c.term = t /\ AnchoredAt(c, n + 1)'
        BY <1>3, <3>1
      <3>3. Covers(c, n + 1, i, log[s])'
        BY <1>3, <3>2 DEF Covers
      <3> QED BY <1>8, <3>2, <3>3
    <2> QED BY <1>2, <2>1, <2>2 DEF Index
  <1> QED BY <1>4, <1>6, <1>7, <1>8, <1>9

LEMMA NextCommittedAnchored ==
    ASSUME Scheduled, HistoryInv, HistoryInv', CommittedAnchored, AcksKept', [Next]_vars
    PROVE  CommittedAnchored'
  <1>1. TypeInv
    BY DEF HistoryInv, ReplicationInv
  <1>2. ASSUME NEW c \in committed PROVE \E j \in Nat : AnchoredAt(c, j)'
    <2>1. PICK j \in Nat : AnchoredAt(c, j)
      BY DEF CommittedAnchored
    <2> QED BY <2>1, AnchorStep
  <1>3. ASSUME NEW s \in Server, Counts(s), NEW c \in committed' PROVE \E j \in Nat : AnchoredAt(c, j)'
    <2>1. commitIndex[s] \in Index /\ Len(log[s]) \in Nat
      BY <1>1, CommitTypes, LogTypes
    <2>2. PICK n, t : n = commitIndex'[s] /\ t = currentTerm[s]
      OBVIOUS
    <2>3. n \in (commitIndex[s] + 1)..LastLogIndex(log[s]) /\ (c \in committed \/ AnchoredAt(c, n + 1)')
      BY <1>3, <2>2, CountAnchors
    <2>4. n + 1 \in Nat
      BY <2>1, <2>3 DEF Index, LastLogIndex
    <2> QED BY <1>2, <2>3, <2>4
  <1> QED BY <1>1, <1>2, <1>3, CommitKinds DEF CommittedAnchored, Restart, CatchesUp, historyVars

\* The replicas that neither catch up nor count.
LEMMA StillHeld ==
    ASSUME Scheduled, HistoryInv, HistoryInv', CommitHeld, [Next]_vars, NEW s \in Server,
           NEW i \in 0..commitIndex[s]
    PROVE  \E c \in committed' : \E j \in Nat : Covers(c, j, i, log[s])'
  <1>1. TypeInv
    BY DEF HistoryInv, ReplicationInv
  <1>2. i \in Nat /\ committed \subseteq committed'
    BY <1>1, CommittedGrows
  <1>3. PICK c \in committed, j \in Nat : Covers(c, j, i, log[s])
    BY DEF CommitHeld
  <1> QED BY <1>2, <1>3, CoversStep

LEMMA NextCommitHeld ==
    ASSUME Scheduled, HistoryInv, HistoryInv', CommitHeld, RequestCommits, AcksKept', [Next]_vars
    PROVE  CommitHeld'
  <1>1. TypeInv
    BY DEF HistoryInv, ReplicationInv
  <1> DEFINE Held(s) == \A i \in 0..commitIndex'[s] :
                           \E c \in committed' : \E j \in Nat : Covers(c, j, i, log[s])'
  <1>2. ASSUME NEW s \in Server, commitIndex'[s] = commitIndex[s] PROVE Held(s)
    BY <1>2, StillHeld
  <1>3. ASSUME NEW s \in Server, Restart(s) PROVE \A p \in Server : Held(p)
    <2>1. commitIndex'[s] = -1 /\ \A p \in Server \ {s} : commitIndex'[p] = commitIndex[p]
      BY <1>1, <1>3, CommitTypes DEF Restart
    <2>2. Held(s)
      BY <2>1
    <2> HIDE DEF Held
    <2> QED BY <1>2, <2>1, <2>2
  <1>4. ASSUME NEW s \in Server, Counts(s) PROVE \A p \in Server : Held(p)
    <2>1. Held(s) /\ \A p \in Server \ {s} : commitIndex'[p] = commitIndex[p]
      BY <1>4, CountStep
    <2> HIDE DEF Held
    <2> QED BY <1>2, <2>1
  <1>5. ASSUME NEW r \in Requests, CatchesUp(r) PROVE \A p \in Server : Held(p)
    <2>1. r.to \in Server /\ Held(r.to) /\ \A p \in Server \ {r.to} : commitIndex'[p] = commitIndex[p]
      BY <1>5, CatchUpStep
    <2> HIDE DEF Held
    <2> QED BY <1>2, <2>1
  <1>6. UNCHANGED <<applyVars, committed>> => \A p \in Server : Held(p)
    <2> HIDE DEF Held
    <2> QED BY <1>2 DEF applyVars
  <1> HIDE DEF Held
  <1>7. \A p \in Server : Held(p)
    BY <1>1, <1>3, <1>4, <1>5, <1>6, CommitKinds
  <1> QED BY <1>7 DEF Held, CommitHeld

LEMMA NextRequestCommits ==
    ASSUME Scheduled, HistoryInv, HistoryInv', CommitHeld, RequestCommits, [Next]_vars
    PROVE  RequestCommits'
  <1>1. TypeInv /\ ReplicationInv /\ LogInv /\ TermsBounded
    BY DEF HistoryInv, ReplicationInv
  <1> DEFINE Tells(r) == \A i \in 0..r.leaderCommit : \E c \in committed' : \E j \in Nat :
                            c.index = i /\ AnchoredAt(c, j)' /\ EndsAfter(r, j, c.term)
  <1>2. committed \subseteq committed'
    BY <1>1, CommittedGrows
  <1>3. ASSUME NEW r \in Requests PROVE Tells(r)
    <2> SUFFICES ASSUME NEW i \in 0..r.leaderCommit
                 PROVE  \E c \in committed' : \E j \in Nat :
                           c.index = i /\ AnchoredAt(c, j)' /\ EndsAfter(r, j, c.term)
      OBVIOUS
    <2>1. PICK c \in committed, j \in Nat : c.index = i /\ AnchoredAt(c, j) /\ EndsAfter(r, j, c.term)
      BY DEF RequestCommits
    <2> QED BY <1>2, <2>1, AnchorStep
  <1>4. ASSUME NEW s \in Server, NEW q \in AppendRequests, Sent(s, q) PROVE Tells(q)
    <2>1. /\ q.leaderCommit = commitIndex[s] /\ PieceOf(q, log[s]) /\ EndIndex(q) = Len(log[s])
          /\ (q.prevLogIndex = -1 => q.prevLogTerm = -1)
      BY <1>4 DEF Sent
    <2>2. /\ log[s] \in Seq(Entry) /\ Len(log[s]) \in Nat /\ Made(log[s])
          /\ q.entries \in Seq(Entry) /\ Len(q.entries) \in Nat /\ q.prevLogIndex \in Index
      BY <1>1, LogTypes, MadeLogs DEF AppendRequests
    <2>3. ASSUME Len(log[s]) # 0 PROVE EndTerm(q) = log[s][Len(log[s])].term
      <3>1. CASE Len(q.entries) = 0
        <4>1. q.prevLogIndex + 1 = Len(log[s]) /\ q.prevLogIndex # -1
          BY <2>1, <2>2, <2>3, <3>1 DEF EndIndex, Index
        <4>2. q.prevLogTerm = log[s][q.prevLogIndex + 1].term
          BY <2>1, <4>1 DEF PieceOf, PrevMatches
        <4> QED BY <3>1, <4>1, <4>2 DEF EndTerm
      <3>2. CASE Len(q.entries) # 0
        <4>1. Len(q.entries) \in 1..Len(q.entries)
          BY <2>2, <3>2
        <4>2. q.entries[Len(q.entries)] = log[s][q.prevLogIndex + 1 + Len(q.entries)]
          BY <2>1, <4>1 DEF PieceOf
        <4> QED BY <2>1, <3>2, <4>2 DEF EndTerm, EndIndex
      <3> QED BY <3>1, <3>2
    <2>4. ASSUME NEW i \in 0..commitIndex[s]
          PROVE  \E c \in committed' : \E j \in Nat : c.index = i /\ AnchoredAt(c, j)' /\ EndsAfter(q, j, c.term)
      <3>1. PICK c \in committed, j \in Nat : Covers(c, j, i, log[s])
        BY DEF CommitHeld
      <3>2. c.index = i /\ AnchoredAt(c, j) /\ j \in 1..Len(log[s]) /\ log[s][j].term = c.term
        BY <3>1 DEF Covers, Holds
      <3>3. Len(log[s]) \in j..Len(log[s]) /\ Len(log[s]) # 0 /\ Len(log[s]) \in 1..Len(log[s])
        BY <2>2, <3>2
      <3>4. log[s][j].term <= log[s][Len(log[s])].term
        BY <1>1, <2>2, <3>2, <3>3, SortedLog
      <3>5. log[s][j].term \in Nat /\ log[s][Len(log[s])].term \in Nat
        BY <2>2, <3>2, <3>3, EntryTerms
      <3>6. EndsAfter(q, j, c.term)
        BY <2>1, <2>2, <2>3, <3>2, <3>3, <3>4, <3>5 DEF EndsAfter
      <3> QED BY <1>2, <3>1, <3>2, <3>6, AnchorStep
    <2> QED BY <2>1, <2>4
  <1> HIDE DEF Tells
  <1>5. CASE Requests' \subseteq Requests
    <2>1. \A r \in Requests' : Tells(r)
      BY <1>3, <1>5
    <2> QED BY <2>1 DEF Tells, RequestCommits, EndsAfter, EndIndex, EndTerm
  <1>6. CASE Sends
    <2>1. PICK s \in Server, q \in AppendRequests : Sent(s, q) /\ Requests' \subseteq Requests \cup {q}
      BY <1>6 DEF Sends
    <2>2. \A r \in Requests' : Tells(r)
      BY <1>3, <1>4, <2>1
    <2> QED BY <2>2 DEF Tells, RequestCommits, EndsAfter, EndIndex, EndTerm
  <1>7. \A r \in Requests : Overwrites(r) => Requests' \subseteq Requests
    <2>1. \A r : AppendReply(r, r.term, TRUE).phase # "request"
      BY DEF AppendReply
    <2> QED BY <2>1 DEF Overwrites, Requests
  <1>8. \A s \in Server : Wins(s) \/ LeaderRound(s) => Requests' \subseteq Requests
    BY DEF Wins, LeaderRound, Requests
  <1> QED BY <1>1, <1>5, <1>6, <1>7, <1>8, StepKinds DEF Steady

LEMMA NextApplied ==
    ASSUME Scheduled, HistoryInv, HistoryInv', CommitInv, AcksKept', [Next]_vars
    PROVE  Applied'
  <1> DEFINE Fed(s) == /\ lastApplied'[s] = commitIndex'[s]
                       /\ Len(raftOut'[s]) = commitIndex'[s] + 1
                       /\ \A i \in 1..Len(raftOut'[s]) : raftOut'[s][i] = log'[s][i].op
  <1>1. TypeInv /\ TypeInv' /\ CommitHeld /\ RequestCommits /\ Applied
    BY DEF HistoryInv, ReplicationInv, CommitInv
  <1>2. ASSUME NEW s \in Server, commitIndex'[s] = commitIndex[s], lastApplied'[s] = lastApplied[s],
               raftOut'[s] = raftOut[s]
        PROVE  Fed(s)
    <2>1. \A k \in 1..(commitIndex[s] + 1) : log'[s][k] = log[s][k]
      BY <1>1, CommitKept
    <2> QED BY <1>1, <1>2, <2>1 DEF Applied
  <1>3. ASSUME NEW s \in Server, commitIndex'[s] \in Index, commitIndex'[s] >= commitIndex[s],
               commitIndex'[s] < Len(log'[s]), Apply(s, log'[s], commitIndex'[s])
        PROVE  \A p \in Server : Fed(p)
    <2>1. log'[s] \in Seq(Entry) /\ \A k \in 1..(commitIndex[s] + 1) : log'[s][k] = log[s][k]
      BY <1>1, CommitKept, NewTypes
    <2>2. PICK n \in Index : n = commitIndex'[s]
      BY <1>3
    <2>3. PICK lg \in Seq(Entry) : lg = log'[s]
      BY <2>1
    <2>4. /\ commitIndex'[s] = n /\ lastApplied'[s] = n /\ Len(raftOut'[s]) = n + 1
          /\ \A i \in 1..(n + 1) : raftOut'[s][i] = lg[i].op
          /\ \A p \in Server \ {s} : /\ commitIndex'[p] = commitIndex[p] /\ lastApplied'[p] = lastApplied[p]
                                     /\ raftOut'[p] = raftOut[p]
      BY <1>1, <1>3, <2>1, <2>2, <2>3, ApplyStep
    <2>5. Fed(s)
      BY <2>3, <2>4
    <2> HIDE DEF Fed
    <2> QED BY <1>2, <2>4, <2>5
  <1>4. ASSUME NEW s \in Server, Restart(s) PROVE \A p \in Server : Fed(p)
    <2>1. /\ commitIndex'[s] = -1 /\ lastApplied'[s] = -1 /\ raftOut'[s] = <<>>
          /\ \A p \in Server \ {s} : /\ commitIndex'[p] = commitIndex[p] /\ lastApplied'[p] = lastApplied[p]
                                     /\ raftOut'[p] = raftOut[p]
      BY <1>1, <1>4, CommitTypes DEF Restart
    <2>2. Fed(s)
      BY <2>1
    <2> HIDE DEF Fed
    <2> QED BY <1>2, <2>1, <2>2
  <1>5. ASSUME NEW s \in Server, Counts(s) PROVE \A p \in Server : Fed(p)
    <2> HIDE DEF Fed
    <2> QED BY <1>1, <1>3, <1>5, CountStep
  <1>6. ASSUME NEW r \in Requests, CatchesUp(r) PROVE \A p \in Server : Fed(p)
    <2> HIDE DEF Fed
    <2> QED BY <1>1, <1>3, <1>6, CatchUpStep
  <1>7. UNCHANGED <<applyVars, committed>> => \A p \in Server : Fed(p)
    <2> HIDE DEF Fed
    <2> QED BY <1>2 DEF applyVars
  <1> HIDE DEF Fed
  <1>8. \A p \in Server : Fed(p)
    BY <1>1, <1>4, <1>5, <1>6, <1>7, CommitKinds
  <1> QED BY <1>8 DEF Fed, Applied

LEMMA NextCommitInv ==
    ASSUME Scheduled, HistoryInv, HistoryInv', CommitInv, [Next]_vars
    PROVE  CommitInv'
  <1>1. AcksKept'
    BY NextAcksKept DEF CommitInv
  <1> QED BY <1>1, NextCommittedAnchored, NextCommitHeld, NextRequestCommits, NextApplied DEF CommitInv

\* The inductive invariant of the theorems below.
SafetyInv == HistoryInv /\ CommitInv

LEMMA Safety == ASSUME Scheduled, Recovered PROVE Spec => []SafetyInv
  <1>1. Init => SafetyInv
    BY InitHistoryInv, InitCommitInv DEF SafetyInv
  <1>2. SafetyInv /\ [Next]_vars => SafetyInv'
    BY NextHistoryInv, NextCommitInv DEF SafetyInv
  <1> QED BY <1>1, <1>2, PTL DEF Spec

-----------------------------------------------------------------------------
\* What the invariant says of a committed entry: a majority holds its anchor.
LEMMA Anchor ==
    ASSUME SafetyInv, NEW c \in committed
    PROVE  \E j \in Nat : /\ AnchoredAt(c, j)
                          /\ \E Q \in SUBSET Server :
                                /\ IsMajority(Cardinality(Q))
                                /\ \A q \in Q : /\ Holds(log[q], j, c.term)
                                                /\ c.index + 1 \in 1..Len(log[q])
                                                /\ log[q][c.index + 1] = c.entry
  <1>1. HistoryInv /\ TypeInv
    BY DEF SafetyInv, HistoryInv, ReplicationInv
  <1>2. c.index \in Nat /\ c.term \in Nat
    BY <1>1, CommitTypes
  <1>3. PICK j \in Nat : AnchoredAt(c, j)
    BY DEF SafetyInv, CommitInv, CommittedAnchored
  <1>4. PICK Q \in SUBSET Server : AckedByMajority(Q, j, c.term)
    BY <1>3 DEF AnchoredAt, Chosen
  <1>5. IsMajority(Cardinality(Q)) /\ \A q \in Q : Holds(log[q], j, c.term)
    BY <1>1, <1>2, <1>4, StateFacts DEF MajoritiesHold, AckedByMajority
  <1>6. ASSUME NEW q \in Q PROVE c.index + 1 \in 1..Len(log[q]) /\ log[q][c.index + 1] = c.entry
    <2>1. Len(log[q]) \in Nat /\ j \in 1..Len(log[q]) /\ c.index < j
      BY <1>1, <1>3, <1>5, LogTypes DEF Holds, AnchoredAt
    <2> QED BY <1>2, <1>3, <1>5, <2>1 DEF AnchoredAt, Fixed
  <1> QED BY <1>3, <1>5, <1>6

\* What a replica has committed its log still holds.
LEMMA AppliedFollows == SafetyInv => AppliedIsLogPrefix
  <1> SUFFICES ASSUME SafetyInv, NEW s \in Server
               PROVE  /\ lastApplied[s] = commitIndex[s]
                      /\ Len(raftOut[s]) = lastApplied[s] + 1
                      /\ lastApplied[s] < Len(log[s])
                      /\ \A i \in DOMAIN raftOut[s] : raftOut[s][i] = log[s][i].op
    BY DEF AppliedIsLogPrefix
  <1>1. HistoryInv /\ TypeInv /\ CommitHeld /\ Applied
    BY DEF SafetyInv, HistoryInv, ReplicationInv, CommitInv
  <1>2. /\ commitIndex[s] \in Index /\ raftOut[s] \in Seq(Op) /\ Len(log[s]) \in Nat
        /\ lastApplied[s] = commitIndex[s] /\ Len(raftOut[s]) = commitIndex[s] + 1
        /\ \A i \in 1..Len(raftOut[s]) : raftOut[s][i] = log[s][i].op
    BY <1>1, CommitTypes, LogTypes DEF Applied
  <1>3. commitIndex[s] < Len(log[s])
    <2>1. CASE commitIndex[s] = -1
      BY <1>2, <2>1
    <2>2. CASE commitIndex[s] # -1
      <3>1. commitIndex[s] \in 0..commitIndex[s]
        BY <1>2, <2>2 DEF Index
      <3>2. PICK c \in committed, j \in Nat : Covers(c, j, commitIndex[s], log[s])
        BY <1>1, <3>1 DEF CommitHeld
      <3>3. commitIndex[s] < j /\ j \in 1..Len(log[s])
        BY <3>2 DEF Covers, AnchoredAt, Holds
      <3> QED BY <1>2, <3>3 DEF Index
    <2> QED BY <2>1, <2>2
  <1> QED BY <1>2, <1>3

\* The operations handed to the executer of a replica are, in order, those of its
\* log up to LastApplied: AppendEntries never cuts off an applied entry, and no
\* thread applies one twice or skips one.
THEOREM AppliedIsPrefix == ASSUME Scheduled, Recovered PROVE Spec => []AppliedIsLogPrefix
  BY AppliedFollows, Safety, PTL

\* A committed entry is on the disks of a majority for ever: no later leader's
\* AppendEntries, cut short by a crash or not, takes it away.
THEOREM CommitsAreDurable == ASSUME Scheduled, Recovered PROVE Spec => []DurableCommit
  <1>1. SafetyInv => DurableCommit
    <2> SUFFICES ASSUME SafetyInv, NEW c \in committed
                 PROVE  LET holders == {s \in Server : c.index + 1 \in DOMAIN log[s]
                                                       /\ log[s][c.index + 1] = c.entry}
                        IN  2 * Cardinality(holders) > Cardinality(Server)
      BY DEF DurableCommit
    <2> DEFINE holders == {s \in Server : c.index + 1 \in DOMAIN log[s] /\ log[s][c.index + 1] = c.entry}
    <2>1. PICK Q \in SUBSET Server :
              /\ IsMajority(Cardinality(Q))
              /\ \A q \in Q : c.index + 1 \in 1..Len(log[q]) /\ log[q][c.index + 1] = c.entry
      BY Anchor
    <2>2. Q \subseteq holders /\ holders \subseteq Server
      <3>1. \A q \in Q : log[q] \in Seq(Entry)
        BY LogTypes DEF SafetyInv, HistoryInv, ReplicationInv
      <3> QED BY <2>1, <3>1
    <2> HIDE DEF holders
    <2>3. IsFiniteSet(holders) /\ Cardinality(Q) <= Cardinality(holders)
          /\ Cardinality(Q) \in Nat /\ Cardinality(holders) \in Nat
      <3>1. IsFiniteSet(holders)
        BY <2>2, ServerAssumption, FS_Subset
      <3>2. IsFiniteSet(Q) /\ Cardinality(Q) <= Cardinality(holders)
        BY <2>2, <3>1, FS_Subset
      <3> QED BY <3>1, <3>2, FS_CardinalityType
    <2>4. IsMajority(Cardinality(holders))
      BY <2>1, <2>3, MoreIsMajority
    <2> QED BY <2>4 DEF holders, IsMajority
  <1> QED BY <1>1, Safety, PTL

\* A leader's log holds the anchors of its own term and, as a majority voted for
\* it, those of earlier terms.
LEMMA CompletenessFollows == SafetyInv => LeaderCompleteness
  <1> SUFFICES ASSUME SafetyInv, NEW c \in committed, NEW s \in Server, role[s] = "Leader",
                      currentTerm[s] >= c.term
               PROVE  c.index + 1 \in DOMAIN log[s] /\ log[s][c.index + 1] = c.entry
    BY DEF LeaderCompleteness
  <1>1. HistoryInv /\ TypeInv /\ LogInv /\ Electors
    BY DEF SafetyInv, HistoryInv, ReplicationInv, VotesInv
  <1>2. /\ c.index \in Nat /\ c.term \in Nat /\ currentTerm[s] \in Nat
        /\ log[s] \in Seq(Entry) /\ Len(log[s]) \in Nat
    BY <1>1, CommitTypes, LogTypes
  <1>3. PICK j \in Nat : AnchoredAt(c, j)
    BY DEF SafetyInv, CommitInv, CommittedAnchored
  <1>4. Chosen(j, c.term) /\ c.index < j
    BY <1>3 DEF AnchoredAt
  <1>5. PICK e \in elections : ElectedIn(s, currentTerm[s], e) /\ ExtendedIn(e, log[s])
    BY <1>1 DEF LogInv, LeaderExtends
  <1>6. e.log \in Seq(Entry) /\ Len(e.log) \in Nat
    BY <1>1, LogTypes
  <1>7. Holds(log[s], j, c.term)
    <2>1. CASE currentTerm[s] > c.term
      <3>1. Holds(e.log, j, c.term)
        BY <1>1, <1>2, <1>4, <1>5, <2>1, Completeness DEF ElectedIn
      <3> QED BY <1>2, <1>5, <1>6, <3>1 DEF Holds, ExtendedIn
    <2>2. CASE currentTerm[s] = c.term
      <3>1. PICK Q \in SUBSET Server : AckedByMajority(Q, j, c.term)
        BY <1>4 DEF Chosen
      <3>2. MajoritiesHold
        BY <1>1, StateFacts
      <3>3. c.term \in Nat
        BY <1>2
      <3>4. PICK q \in Server : Holds(log[q], j, c.term)
        BY <3>1, <3>2, <3>3, ZenonT(60) DEF MajoritiesHold
      <3>5. log[q] \in Seq(Entry) /\ j \in 1..Len(log[q]) /\ log[q][j].term = c.term
        BY <1>1, <3>4, LogTypes DEF Holds
      <3>6. PICK x \in LogLinks(log[q]) : x.index = j /\ x.entry = log[q][j]
        BY <3>5, LogLink
      <3>7. x \in LogLinks(log[s])
        BY <1>1, <2>2, <3>5, <3>6, LinkSources DEF LogInv, LeaderOwnsTerm
      <3>8. x.index \in 1..Len(log[s]) /\ x.entry = log[s][x.index]
        BY <1>2, <3>7, LogLinkIndex
      <3> QED BY <3>5, <3>6, <3>8 DEF Holds
    <2> QED BY <1>2, <2>1, <2>2
  <1>8. log[s][c.index + 1] = c.entry
    BY <1>3, <1>7 DEF AnchoredAt, Fixed
  <1>9. c.index + 1 \in 1..Len(log[s])
    BY <1>2, <1>4, <1>7 DEF Holds
  <1> QED BY <1>2, <1>8, <1>9

\* An entry that a leader counted as committed is in the log of every leader of
\* that and of later terms: RequestVote refuses candidates that lack it.
THEOREM LeadersAreComplete == ASSUME Scheduled, Recovered PROVE Spec => []LeaderCompleteness
  BY CompletenessFollows, Safety, PTL

\* Two entries committed at an index are those of a replica that holds both anchors.
LEMMA AgreementFollows == SafetyInv => StateMachineSafety
  <1> SUFFICES ASSUME SafetyInv PROVE StateMachineSafety
    OBVIOUS
  <1>1. HistoryInv /\ TypeInv /\ CommitHeld /\ Applied
    BY DEF SafetyInv, HistoryInv, ReplicationInv, CommitInv
  <1>2. ASSUME NEW c \in committed, NEW d \in committed, c.index = d.index PROVE c.entry = d.entry
    <2>1. PICK Q \in SUBSET Server : IsMajority(Cardinality(Q)) /\ \A q \in Q : log[q][c.index + 1] = c.entry
      BY Anchor
    <2>2. PICK R \in SUBSET Server : IsMajority(Cardinality(R)) /\ \A q \in R : log[q][d.index + 1] = d.entry
      BY Anchor
    <2>3. PICK q : q \in Q /\ q \in R
      BY <2>1, <2>2, MajoritiesMeet
    <2> QED BY <1>2, <2>1, <2>2, <2>3
  <1>3. ASSUME NEW s \in Server, NEW i \in DOMAIN raftOut[s]
        PROVE  \E c \in committed : c.index = i - 1 /\ c.entry.op = raftOut[s][i]
    <2>1. /\ commitIndex[s] \in Index /\ raftOut[s] \in Seq(Op)
          /\ Len(raftOut[s]) = commitIndex[s] + 1
          /\ \A k \in 1..Len(raftOut[s]) : raftOut[s][k] = log[s][k].op
      BY <1>1, CommitTypes DEF Applied
    <2>2. i \in 1..Len(raftOut[s]) /\ i - 1 \in 0..commitIndex[s] /\ (i - 1) + 1 = i
      BY <2>1 DEF Index
    <2>3. PICK c \in committed, j \in Nat : Covers(c, j, i - 1, log[s])
      BY <1>1, <2>2 DEF CommitHeld
    <2>4. c.index = i - 1 /\ log[s][c.index + 1] = c.entry
      BY <2>3 DEF Covers, AnchoredAt, Fixed
    <2> QED BY <2>1, <2>2, <2>4
  <1> QED BY <1>2, <1>3 DEF StateMachineSafety

\* Two leaders never commit different entries at an index, and what replicas
\* hand to their executers are committed operations, index by index.
THEOREM StateMachinesAgree == ASSUME Scheduled, Recovered PROVE Spec => []StateMachineSafety
  BY AgreementFollows, Safety, PTL

\* Only a restart moves CommitIndex back.
LEMMA CommitGrows ==
    ASSUME Scheduled, SafetyInv, SafetyInv', [Next]_vars, NEW s \in Server, crashes' = crashes
    PROVE  commitIndex'[s] >= commitIndex[s]
  <1>1. /\ HistoryInv /\ HistoryInv' /\ TypeInv /\ CommitHeld /\ RequestCommits /\ AcksKept'
    BY DEF SafetyInv, HistoryInv, ReplicationInv, CommitInv
  <1>2. commitIndex[s] \in Index /\ crashes \in Nat
    BY <1>1, CommitTypes DEF TypeInv, TypeOK
  <1>3. commitIndex[s] >= commitIndex[s]
    BY <1>2 DEF Index
  <1>4. ASSUME NEW p \in Server, Restart(p) PROVE FALSE
    BY <1>2, <1>4 DEF Restart
  <1>5. ASSUME NEW p \in Server, Counts(p) PROVE commitIndex'[s] >= commitIndex[s]
    BY <1>1, <1>3, <1>5, CountStep
  <1>6. ASSUME NEW r \in Requests, CatchesUp(r) PROVE commitIndex'[s] >= commitIndex[s]
    BY <1>1, <1>3, <1>6, CatchUpStep
  <1> QED BY <1>1, <1>3, <1>4, <1>5, <1>6, CommitKinds DEF applyVars

\* CommitIndex moves back only when the process is restarted: an accepted
\* AppendEntries never leaves a log shorter than what is committed.
THEOREM CommitsNeverRetreat == ASSUME Scheduled, Recovered PROVE Spec => CommitMonotonic
  <1>1. SafetyInv /\ SafetyInv' /\ [Next]_vars
            => [\A s \in Server : crashes' = crashes => commitIndex'[s] >= commitIndex[s]]_vars
    BY CommitGrows
  <1> QED BY <1>1, Safety, PTL DEF Spec, CommitMonotonic
=============================================================================
