------------------------- MODULE OhMyRaftLogProofs -------------------------
(***************************************************************************)
(* Logs.  If, besides what the election theorems ask for, a thread acts on *)
(* what it read before anything else happens, and the logs that bootstrap  *)
(* finds match, then logs match for ever, leaders read within their logs   *)
(* and MatchIndex is true, for every cluster and whatever is lost,         *)
(* reordered, delayed or cut off in the middle by a crash.                 *)
(***************************************************************************)
EXTENDS OhMyRaftProofs, WellFoundedInduction

-----------------------------------------------------------------------------
\* Natural numbers and sequences.

\* A set of natural numbers has a least element.
LEMMA Least ==
    ASSUME NEW S \in SUBSET Nat, S # {}
    PROVE  \E n \in S : \A m \in S : n <= m
  <1> DEFINE R == OpToRel(<, Nat)
  <1>1. IsWellFoundedOn(R, Nat)
    BY NatLessThanWellFounded
  <1>2. \A m, n \in Nat : m < n => <<m, n>> \in R
    BY DEF OpToRel
  <1> HIDE DEF R
  <1>3. PICK n \in S : \A m \in S : ~(<<m, n>> \in R)
    BY <1>1, WFMin
  <1>4. \A m \in S : m \in Nat /\ n \in Nat /\ ~(m < n)
    BY <1>2, <1>3
  <1>5. \A m \in S : n <= m
    BY <1>4
  <1> QED BY <1>5

\* A set that holds with a number all smaller ones from 1 on is an interval.
LEMMA Initial ==
    ASSUME NEW n \in Nat, NEW S \in SUBSET (1..n), \A j \in S : \A k \in 1..j : k \in S
    PROVE  S = 1..Cardinality(S)
  <1> DEFINE Out == {m \in Nat : m >= 1 /\ m \notin S}
  <1>1. n + 1 \in Out
    OBVIOUS
  <1>2. PICK m \in Out : \A k \in Out : m <= k
    BY <1>1, Least
  <1>3. S = 1..(m - 1)
    <2>1. \A k \in 1..(m - 1) : k \in S
      BY <1>2
    <2>2. \A k \in S : k \in Nat /\ k >= 1 /\ k < m
      BY <1>2
    <2>3. m \in Nat /\ \A k \in S : k \in 1..(m - 1)
      BY <1>2, <2>2
    <2> QED BY <2>1, <2>3
  <1>4. m - 1 \in Nat /\ 1 \in Int /\ m - 1 \in Int
    BY <1>2
  <1>5. Cardinality(1..(m - 1)) = IF 1 > m - 1 THEN 0 ELSE (m - 1) - 1 + 1
    BY <1>4, FS_Interval
  <1>6. Cardinality(S) = m - 1
    BY <1>3, <1>4, <1>5
  <1> QED BY <1>3, <1>6

\* The parts of a concatenation.
LEMMA ConcatParts ==
    ASSUME NEW S, NEW a \in Seq(S), NEW b \in Seq(S)
    PROVE  /\ a \o b \in Seq(S)
           /\ Len(a \o b) = Len(a) + Len(b)
           /\ \A i \in 1..Len(a) : (a \o b)[i] = a[i]
           /\ \A i \in 1..Len(b) : (a \o b)[Len(a) + i] = b[i]
  OBVIOUS

\* Agreeing counts the entries before the first disagreement.
LEMMA AgreeingExact ==
    ASSUME NEW lg \in Seq(Entry), NEW es \in Seq(Entry), NEW prev \in Index
    PROVE  LET n == Agreeing(lg, prev, es)
           IN  /\ n \in 0..Len(es)
               /\ \A k \in 1..n : prev + 1 + k <= Len(lg) /\ lg[prev + 1 + k].term = es[k].term
               /\ n < Len(es) => ~(prev + n + 2 <= Len(lg) /\ lg[prev + n + 2].term = es[n + 1].term)
  <1> DEFINE P(k) == prev + 1 + k <= Len(lg) /\ lg[prev + 1 + k].term = es[k].term
             A == {j \in 1..Len(es) : \A k \in 1..j : P(k)}
             n == Agreeing(lg, prev, es)
  <1>1. n = Cardinality(A)
    BY DEF Agreeing
  <1>2. Len(es) \in Nat /\ A \in SUBSET (1..Len(es)) /\ \A j \in A : \A k \in 1..j : k \in A
    OBVIOUS
  <1>3. n \in Nat /\ n <= Len(es)
    <2> HIDE DEF A
    <2> QED BY <1>1, <1>2, InitialSubset
  <1>4. A = 1..n
    <2> HIDE DEF A
    <2> QED BY <1>1, <1>2, Initial
  <1>5. \A k \in 1..n : P(k)
    <2>1. \A k \in 1..n : k \in A /\ k \in 1..k
      BY <1>3, <1>4
    <2> HIDE DEF P
    <2> QED BY <2>1
  <1>6. n < Len(es) => ~P(n + 1)
    <2> SUFFICES ASSUME n < Len(es), P(n + 1) PROVE FALSE
      OBVIOUS
    <2>1. n + 1 \in 1..Len(es) /\ \A k \in 1..(n + 1) : k \in 1..n \/ k = n + 1
      BY <1>3
    <2>2. n + 1 \notin A
      BY <1>3, <1>4
    <2>3. n + 1 \in A
      <3> HIDE DEF P
      <3> QED BY <1>5, <2>1
    <2> QED BY <2>2, <2>3
  <1>7. prev + 1 + (n + 1) = prev + n + 2
    BY <1>3 DEF Index
  <1> HIDE DEF n
  <1> QED BY <1>3, <1>5, <1>6, <1>7 DEF n

\* What AppendEntries makes of a log: all of it is kept, or it ends with the
\* request and is cut after the entries that agree.
LEMMA MergeShape ==
    ASSUME NEW lg \in Seq(Entry), NEW es \in Seq(Entry), NEW prev \in Index, prev < Len(lg)
    PROVE  LET n == Agreeing(lg, prev, es)
               m == Merge(lg, prev, es)
           IN  /\ m \in Seq(Entry)
               /\ prev + 1 + n <= Len(lg)
               /\ \/ n = Len(es) /\ m = lg
                  \/ /\ n < Len(es) /\ Len(m) = prev + 1 + Len(es)
                     /\ \A i \in 1..(prev + 1 + n) : m[i] = lg[i]
                     /\ \A k \in (n + 1)..Len(es) : m[prev + 1 + k] = es[k]
  <1> DEFINE n == Agreeing(lg, prev, es)
             m == Merge(lg, prev, es)
  <1>1. n \in 0..Len(es) /\ prev + 1 + n <= Len(lg)
    BY AgreeingRange
  <1>2. m \in Seq(Entry)
    BY MergeType
  <1>3. CASE n = Len(es)
    BY <1>1, <1>2, <1>3 DEF Merge
  <1>4. CASE n < Len(es)
    <2> DEFINE a == SubSeq(lg, 1, prev + 1 + n)
               b == SubSeq(es, n + 1, Len(es))
    <2>1. m = a \o b
      <3>1. n # Len(es)
        BY <1>1, <1>4
      <3> QED BY <3>1 DEF Merge
    <2>2. /\ a \in Seq(Entry) /\ Len(a) = prev + 1 + n /\ \A i \in 1..(prev + 1 + n) : a[i] = lg[i]
      BY <1>1 DEF Index
    <2>3. /\ b \in Seq(Entry) /\ Len(b) = Len(es) - n
          /\ \A k \in 1..(Len(es) - n) : b[k] = es[n + k]
      BY <1>1, <1>4
    <2> HIDE DEF a, b, n, m
    <2>4. Len(m) = prev + 1 + Len(es) /\ prev + 1 + n \in Nat
      <3>1. Len(a \o b) = Len(a) + Len(b)
        BY <2>2, <2>3, ConcatParts
      <3>2. Len(es) \in Nat /\ n \in Nat /\ prev + 1 \in Nat
        BY <1>1 DEF Index
      <3> QED BY <2>1, <2>2, <2>3, <3>1, <3>2
    <2>5. \A i \in 1..(prev + 1 + n) : m[i] = lg[i]
      <3>1. \A i \in 1..Len(a) : (a \o b)[i] = a[i]
        BY <2>2, <2>3, ConcatParts
      <3> QED BY <2>1, <2>2, <2>4, <3>1
    <2>6. ASSUME NEW k \in (n + 1)..Len(es) PROVE m[prev + 1 + k] = es[k]
      <3>1. k - n \in 1..Len(b) /\ prev + 1 + k = Len(a) + (k - n) /\ Len(a) + Len(b) = Len(m)
        BY <1>1, <2>2, <2>3, <2>4 DEF Index
      <3>2. (a \o b)[Len(a) + (k - n)] = b[k - n]
        BY <2>2, <2>3, <3>1, ConcatParts
      <3>3. b[k - n] = es[n + (k - n)] /\ n + (k - n) = k
        BY <1>1, <2>3, <3>1, SMTT(30)
      <3> QED BY <2>1, <3>1, <3>2, <3>3
    <2> QED BY <1>1, <1>2, <1>4, <2>4, <2>5, <2>6 DEF n, m
  <1> QED BY <1>1, <1>3, <1>4

-----------------------------------------------------------------------------
\* A link is an entry with its index and the term of the entry before it, which
\* is what AppendEntries compares: the links of a piece of a log, of a log, and
\* of what a request carries.
Before(prev, es, k) == IF k = 1 THEN prev ELSE es[k - 1].term
Link(start, prev, es, k) ==
    [index |-> start + k, entry |-> es[k], prev |-> Before(prev, es, k)]

PieceLinks(start, prev, es) == {Link(start, prev, es, k) : k \in DOMAIN es}
LogLinks(lg)    == PieceLinks(0, -1, lg)
RequestLinks(r) == PieceLinks(r.prevLogIndex + 1, r.prevLogTerm, r.entries)

\* Index and term of an entry determine it and the term before.
Unique(K) == \A x, y \in K : x.index = y.index /\ x.entry.term = y.entry.term => x = y

\* The links of a log, by index.
LEMMA LogLink ==
    ASSUME NEW lg \in Seq(Entry), NEW i \in 1..Len(lg)
    PROVE  /\ Link(0, -1, lg, i) \in LogLinks(lg)
           /\ Link(0, -1, lg, i).index = i
           /\ Link(0, -1, lg, i).entry = lg[i]
           /\ Link(0, -1, lg, i).prev = Before(-1, lg, i)
  <1>1. i \in DOMAIN lg /\ 0 + i = i
    OBVIOUS
  <1> QED BY <1>1 DEF LogLinks, PieceLinks, Link

LEMMA LogLinkIndex ==
    ASSUME NEW lg \in Seq(Entry), NEW x \in LogLinks(lg)
    PROVE  /\ x.index \in 1..Len(lg)
           /\ x = Link(0, -1, lg, x.index)
           /\ x.entry = lg[x.index]
  <1>1. PICK k \in 1..Len(lg) : x = Link(0, -1, lg, k)
    BY DEF LogLinks, PieceLinks
  <1>2. x.index = k /\ x.entry = lg[k]
    BY <1>1 DEF Link
  <1> QED BY <1>1, <1>2

\* Logs whose links are among unique ones are equal up to an index at which
\* they have entries of the same term.
LEMMA MatchingLogs ==
    ASSUME NEW K, Unique(K), NEW f \in Seq(Entry), NEW g \in Seq(Entry),
           LogLinks(f) \subseteq K, LogLinks(g) \subseteq K,
           NEW i \in 1..Len(f), i <= Len(g), f[i].term = g[i].term
    PROVE  \A j \in 1..i : f[j] = g[j]
  <1> DEFINE x(j) == Link(0, -1, f, j)
             y(j) == Link(0, -1, g, j)
  <1>1. \A j \in 1..i : /\ x(j) \in K /\ x(j).index = j /\ x(j).entry = f[j]
                        /\ x(j).prev = Before(-1, f, j)
                        /\ y(j) \in K /\ y(j).index = j /\ y(j).entry = g[j]
                        /\ y(j).prev = Before(-1, g, j)
    BY LogLink, SMTT(30)
  <1> HIDE DEF x, y
  <1>2. \A j \in 1..i : f[j].term = g[j].term => x(j) = y(j)
    BY <1>1 DEF Unique
  <1>3. \A j \in 1..i : f[j].term = g[j].term => f[j] = g[j] /\ Before(-1, f, j) = Before(-1, g, j)
    BY <1>1, <1>2
  <1> DEFINE Bad == {d \in Nat : d < i /\ f[i - d] # g[i - d]}
  <1>4. ASSUME Bad # {} PROVE FALSE
    <2>1. PICK d \in Bad : \A c \in Bad : d <= c
      BY <1>4, Least
    <2>2. d \in Nat /\ d < i /\ i - d \in 1..i /\ f[i - d] # g[i - d]
      BY <2>1
    <2>3. d # 0
      <3>1. f[i] = g[i]
        BY <1>3
      <3> QED BY <2>2, <3>1
    <2>4. d - 1 \in Nat /\ d - 1 < i /\ d - 1 \notin Bad /\ i - (d - 1) = (i - d) + 1
      <3>1. d - 1 \in Nat /\ d - 1 < i /\ i - (d - 1) = (i - d) + 1 /\ ~(d <= d - 1)
        BY <2>2, <2>3
      <3> HIDE DEF Bad
      <3> QED BY <2>1, <3>1
    <2>5. f[(i - d) + 1] = g[(i - d) + 1] /\ (i - d) + 1 \in 1..i
      BY <2>2, <2>4
    <2>6. Before(-1, f, (i - d) + 1) = Before(-1, g, (i - d) + 1)
      BY <1>3, <2>5
    <2>7. f[i - d].term = g[i - d].term
      BY <2>2, <2>6 DEF Before
    <2> QED BY <1>3, <2>2, <2>7
  <1>5. \A j \in 1..i : i - j \in Nat /\ i - j < i /\ i - (i - j) = j
    OBVIOUS
  <1> QED BY <1>4, <1>5

\* The links of the beginning of a log.
LEMMA PrefixLinks ==
    ASSUME NEW lg \in Seq(Entry), NEW n \in 0..Len(lg)
    PROVE  /\ SubSeq(lg, 1, n) \in Seq(Entry) /\ Len(SubSeq(lg, 1, n)) = n
           /\ \A i \in 1..n : SubSeq(lg, 1, n)[i] = lg[i]
           /\ LogLinks(SubSeq(lg, 1, n)) \subseteq LogLinks(lg)
  <1> DEFINE f == SubSeq(lg, 1, n)
  <1>1. f \in Seq(Entry) /\ Len(f) = n /\ \A i \in 1..n : f[i] = lg[i]
    OBVIOUS
  <1> HIDE DEF f
  <1>2. ASSUME NEW x \in LogLinks(f) PROVE x \in LogLinks(lg)
    <2>1. x.index \in 1..n /\ x = Link(0, -1, f, x.index)
      BY <1>1, LogLinkIndex
    <2>2. f[x.index] = lg[x.index] /\ Before(-1, f, x.index) = Before(-1, lg, x.index)
      BY <1>1, <2>1 DEF Before
    <2>3. x = Link(0, -1, lg, x.index)
      BY <2>1, <2>2 DEF Link
    <2> QED BY <2>1, <2>3, LogLink
  <1> QED BY <1>1, <1>2 DEF f

\* The links of a log that is extended.
LEMMA ExtendedLinks ==
    ASSUME NEW lg \in Seq(Entry), NEW es \in Seq(Entry), NEW x \in LogLinks(lg \o es)
    PROVE  \/ x \in LogLinks(lg)
           \/ \E k \in 1..Len(es) :
                 /\ x.index = Len(lg) + k /\ x.entry = es[k]
                 /\ x.prev = IF k = 1 THEN LastLogTerm(lg) ELSE es[k - 1].term
  <1> DEFINE f == lg \o es
             i == x.index
  <1>1. /\ f \in Seq(Entry) /\ Len(f) = Len(lg) + Len(es)
        /\ \A j \in 1..Len(lg) : f[j] = lg[j]
        /\ \A k \in 1..Len(es) : f[Len(lg) + k] = es[k]
    BY ConcatParts
  <1> HIDE DEF f
  <1>2. i \in 1..Len(f) /\ x = Link(0, -1, f, i)
    BY <1>1, LogLinkIndex DEF f
  <1>3. x.entry = f[i] /\ x.prev = Before(-1, f, i)
    BY <1>2 DEF Link
  <1>4. CASE i <= Len(lg)
    <2>1. i \in 1..Len(lg) /\ f[i] = lg[i] /\ Before(-1, f, i) = Before(-1, lg, i)
      BY <1>1, <1>2, <1>4 DEF Before
    <2>2. x = Link(0, -1, lg, i)
      BY <1>2, <2>1 DEF Link
    <2> QED BY <2>1, <2>2, LogLink
  <1>5. CASE i > Len(lg)
    <2> DEFINE k == i - Len(lg)
    <2>1. k \in 1..Len(es) /\ i = Len(lg) + k
      BY <1>1, <1>2, <1>5
    <2>2. x.entry = es[k]
      BY <1>1, <1>3, <2>1
    <2>3. x.prev = IF k = 1 THEN LastLogTerm(lg) ELSE es[k - 1].term
      <3>1. CASE k # 1
        <4>1. k - 1 \in 1..Len(es) /\ i - 1 = Len(lg) + (k - 1) /\ i # 1
          BY <2>1, <3>1
        <4> QED BY <1>1, <1>3, <3>1, <4>1 DEF Before
      <3>2. CASE k = 1 /\ lg = <<>>
        BY <1>3, <2>1, <3>2 DEF Before, LastLogTerm
      <3>3. CASE k = 1 /\ lg # <<>>
        <4>1. Len(lg) \in 1..Len(lg) /\ i - 1 = Len(lg) /\ i # 1
          BY <2>1, <3>3
        <4> QED BY <1>1, <1>3, <3>3, <4>1 DEF Before, LastLogTerm
      <3> QED BY <3>1, <3>2, <3>3
    <2> HIDE DEF k
    <2> QED BY <2>1, <2>2, <2>3
  <1> QED BY <1>2, <1>4, <1>5

\* The links of a piece of a log that is sent.
LEMMA SentLinks ==
    ASSUME NEW lg \in Seq(Entry), NEW next \in 0..Len(lg), NEW prev,
           prev = IF next = 0 THEN -1 ELSE lg[next].term
    PROVE  LET es == SubSeq(lg, next + 1, Len(lg))
           IN  /\ es \in Seq(Entry) /\ Len(es) = Len(lg) - next
               /\ \A k \in 1..Len(es) : es[k] = lg[next + k]
               /\ PieceLinks(next, prev, es) \subseteq LogLinks(lg)
  <1> DEFINE es == SubSeq(lg, next + 1, Len(lg))
  <1>1. es \in Seq(Entry) /\ Len(es) = Len(lg) - next /\ \A k \in 1..Len(es) : es[k] = lg[next + k]
    OBVIOUS
  <1> HIDE DEF es
  <1>2. ASSUME NEW x \in PieceLinks(next, prev, es) PROVE x \in LogLinks(lg)
    <2>1. PICK k \in 1..Len(es) : x = Link(next, prev, es, k)
      BY <1>1 DEF PieceLinks
    <2>2. next + k \in 1..Len(lg) /\ es[k] = lg[next + k]
      BY <1>1
    <2>3. Before(prev, es, k) = Before(-1, lg, next + k)
      <3>1. CASE k = 1
        BY <3>1 DEF Before
      <3>2. CASE k # 1
        <4>1. k - 1 \in 1..Len(es) /\ next + (k - 1) = (next + k) - 1 /\ next + k # 1
          BY <1>1, <3>2
        <4> QED BY <1>1, <3>2, <4>1 DEF Before
      <3> QED BY <3>1, <3>2
    <2>4. x = Link(0, -1, lg, next + k)
      BY <2>1, <2>2, <2>3 DEF Link
    <2> QED BY <2>2, <2>4, LogLink
  <1> QED BY <1>1, <1>2 DEF es

\* The log that AppendEntries leaves has no links but those of the log it found
\* and of the request: where the two are joined, the terms agree.
LEMMA MergedLinks ==
    ASSUME NEW lg \in Seq(Entry), NEW r \in AppendRequests, PrevMatches(r, lg),
           r.prevLogIndex = -1 => r.prevLogTerm = -1
    PROVE  /\ r.prevLogIndex < Len(lg)
           /\ LogLinks(Merge(lg, r.prevLogIndex, r.entries)) \subseteq LogLinks(lg) \cup RequestLinks(r)
  <1> DEFINE prev == r.prevLogIndex
             es   == r.entries
             n    == Agreeing(lg, prev, es)
             m    == Merge(lg, prev, es)
  <1>1. prev \in Index /\ es \in Seq(Entry) /\ r.prevLogTerm \in Index
    BY DEF AppendRequests
  <1>2. prev < Len(lg)
    BY <1>1 DEF PrevMatches, LastLogIndex, Index
  <1>3. /\ n \in 0..Len(es)
        /\ \A k \in 1..n : prev + 1 + k <= Len(lg) /\ lg[prev + 1 + k].term = es[k].term
    BY <1>1, AgreeingExact
  <1>4. /\ m \in Seq(Entry) /\ prev + 1 + n <= Len(lg)
        /\ \/ m = lg
           \/ /\ n < Len(es) /\ Len(m) = prev + 1 + Len(es)
              /\ \A i \in 1..(prev + 1 + n) : m[i] = lg[i]
              /\ \A k \in (n + 1)..Len(es) : m[prev + 1 + k] = es[k]
    BY <1>1, <1>2, MergeShape
  <1>5. prev >= 0 => prev + 1 \in 1..Len(lg) /\ r.prevLogTerm = lg[prev + 1].term
    BY <1>1 DEF PrevMatches, LastLogIndex, Index
  <1>6. prev < 0 => prev = -1 /\ r.prevLogTerm = -1
    BY <1>1 DEF Index
  <1> HIDE DEF n, m
  <1>7. ASSUME NEW x \in LogLinks(m) PROVE x \in LogLinks(lg) \cup RequestLinks(r)
    <2>1. CASE m = lg
      BY <1>7, <2>1
    <2>2. CASE /\ n < Len(es) /\ Len(m) = prev + 1 + Len(es)
               /\ \A i \in 1..(prev + 1 + n) : m[i] = lg[i]
               /\ \A k \in (n + 1)..Len(es) : m[prev + 1 + k] = es[k]
      <3> DEFINE i == x.index
      <3>1. i \in 1..(prev + 1 + Len(es)) /\ x = Link(0, -1, m, i)
        BY <1>4, <1>7, <2>2, LogLinkIndex
      <3>2. prev \in Int /\ prev + 1 \in Nat /\ Len(es) \in Nat /\ n \in Nat /\ Len(lg) \in Nat
        BY <1>1, <1>3 DEF Index
      <3> HIDE DEF i
      <3>3. CASE i <= prev + 1 + n
        <4>1. i \in 1..Len(lg) /\ i \in 1..(prev + 1 + n) /\ i \in Nat
              /\ (i # 1 => i - 1 \in 1..(prev + 1 + n))
          BY <1>4, <3>1, <3>2, <3>3, SMTT(30)
        <4>2. m[i] = lg[i] /\ Before(-1, m, i) = Before(-1, lg, i)
          BY <2>2, <4>1 DEF Before
        <4>3. x = Link(0, -1, lg, i)
          BY <3>1, <4>2 DEF Link
        <4> QED BY <4>1, <4>3, LogLink
      <3>4. CASE i > prev + 1 + n
        <4> DEFINE k == i - (prev + 1)
        <4>1. k \in (n + 1)..Len(es) /\ k \in 1..Len(es) /\ i = prev + 1 + k /\ k \in Nat
          BY <3>1, <3>2, <3>4, SMTT(30)
        <4> HIDE DEF k
        <4>2. m[i] = es[k]
          BY <2>2, <4>1
        <4>3. Before(-1, m, i) = Before(r.prevLogTerm, es, k)
          <5>1. CASE k > n + 1
            <6>1. k - 1 \in (n + 1)..Len(es) /\ i - 1 = prev + 1 + (k - 1) /\ i # 1 /\ k # 1
              BY <3>2, <4>1, <5>1
            <6> QED BY <2>2, <6>1 DEF Before
          <5>2. CASE k = n + 1 /\ n > 0
            <6>1. /\ n \in 1..n /\ k - 1 = n /\ i - 1 = prev + 1 + n /\ i # 1 /\ k # 1
                  /\ prev + 1 + n \in 1..(prev + 1 + n)
              <7> DEFINE w == prev + 1
              <7>1. w \in Nat /\ i = w + k
                BY <3>2, <4>1
              <7> HIDE DEF w
              <7>2. n \in 1..n /\ k - 1 = n /\ i - 1 = w + n /\ i # 1 /\ k # 1 /\ w + n \in 1..(w + n)
                BY <3>2, <5>2, <7>1
              <7> QED BY <7>2 DEF w
            <6>2. m[i - 1] = lg[prev + 1 + n] /\ lg[prev + 1 + n].term = es[k - 1].term
              BY <1>3, <2>2, <6>1
            <6> QED BY <6>1, <6>2 DEF Before
          <5>3. CASE k = 1 /\ n = 0 /\ prev >= 0
            <6>1. i - 1 = prev + 1 /\ i # 1 /\ prev + 1 \in 1..(prev + 1 + n)
              BY <3>2, <4>1, <5>3
            <6> QED BY <1>5, <2>2, <5>3, <6>1 DEF Before
          <5>4. CASE k = 1 /\ n = 0 /\ prev < 0
            <6>1. i = 1
              BY <1>6, <4>1, <5>4
            <6> QED BY <1>6, <5>4, <6>1 DEF Before
          <5> QED BY <3>2, <4>1, <5>1, <5>2, <5>3, <5>4
        <4>4. x = Link(prev + 1, r.prevLogTerm, es, k)
          BY <3>1, <3>2, <4>1, <4>2, <4>3 DEF Link
        <4> QED BY <1>1, <4>1, <4>4 DEF RequestLinks, PieceLinks
      <3> QED BY <3>1, <3>2, <3>3, <3>4
    <2> QED BY <1>4, <2>1, <2>2
  <1> QED BY <1>2, <1>7 DEF m

-----------------------------------------------------------------------------
(***************************************************************************)
(* What the theorems assume: the schedules of the election theorems,       *)
(* without preemption, and bootstrap states in which the logs match and no *)
(* replica that may stand for election is behind the term of an entry.     *)
(***************************************************************************)
Scheduled == Remembered /\ ~Preemption

BootTerm(t) == \A s \in MayStand : t <= InitTerm[s]
BootLinks   == UNION {LogLinks(InitLog[s]) : s \in Server}
Bootstrapped ==
    /\ Unique(BootLinks)
    /\ \A x \in BootLinks : BootTerm(x.entry.term) /\ x.prev <= x.entry.term

AppendThreads == {r \in rpcs : r.kind = "AppendEntries"}
Requests      == {r \in AppendThreads : r.phase = "request"}
Replies       == {r \in AppendThreads : r.phase = "reply"}

\* All links: of the logs, of the logs leaders were elected with, and of what is
\* on its way.
Links ==
    UNION (      {LogLinks(log[s]) : s \in Server}
            \cup {LogLinks(e.log) : e \in elections}
            \cup {RequestLinks(r) : r \in Requests})

\* The inductive invariant.  An election was won with the votes of a majority,
\* by a replica that is no longer a candidate, and a term has at most one.
IsWon(e) ==
    /\ IsMajority(Cardinality(Voters(e.leader, e.term)))
    /\ e.leader \in MayStand /\ e.term > InitTerm[e.leader]
    /\ e.term <= currentTerm[e.leader]
    /\ e.term = currentTerm[e.leader] => role[e.leader] # "Candidate"
ElectionsWon ==
    /\ \A e \in elections : IsWon(e)
    /\ \A e, f \in elections : e.term = f.term => e = f

StandersAboveBoot ==
    \A s \in Server :
        /\ currentTerm[s] >= InitTerm[s]
        /\ role[s] # "Follower" => s \in MayStand /\ currentTerm[s] > InitTerm[s]

\* A leader has extended the log it was elected with by entries of its term.
ExtendedIn(e, lg) ==
    /\ Len(e.log) <= Len(lg)
    /\ \A i \in 1..Len(e.log) : lg[i] = e.log[i]
    /\ \A i \in (Len(e.log) + 1)..Len(lg) : lg[i].term = e.term
ElectedIn(s, term, e) == e.leader = s /\ e.term = term
LeaderExtends ==
    \A s \in Server : role[s] = "Leader" =>
        \E e \in elections : ElectedIn(s, currentTerm[s], e) /\ ExtendedIn(e, log[s])

\* A link beyond those found by bootstrap was made by the leader of its term, and
\* a leader has all links of its term.
MadeIn(x, e) ==
    /\ x.entry.term = e.term
    /\ \/ x.index = Len(e.log) + 1 /\ x.prev = LastLogTerm(e.log)
       \/ x.index > Len(e.log) + 1 /\ x.prev = e.term
LinksMade ==
    \A x \in Links : \/ BootTerm(x.entry.term) /\ x.prev <= x.entry.term
                    \/ \E e \in elections : MadeIn(x, e)
LinksUnique == Unique(Links)
LeaderOwnsTerm ==
    \A s \in Server : role[s] = "Leader" =>
        \A x \in Links : x.entry.term = currentTerm[s] => x \in LogLinks(log[s])

\* Without Preemption, what raftImpl saw still holds in the round and in the
\* threads it spawns.
RoundsAreLeaders ==
    /\ \A s \in Server : inRound[s] => role[s] = "Leader"
    /\ \A r \in AppendThreads : r.phase = "spawned" =>
          role[r.from] = "Leader" /\ r.term = currentTerm[r.from]

\* An AppendEntries belongs to an election, and as long as its sender leads
\* that term, what it carries is a piece of its log.
Leads(s, term) == role[s] = "Leader" /\ currentTerm[s] = term
PieceOf(r, lg) ==
    /\ PrevMatches(r, lg)
    /\ r.prevLogIndex + 1 + Len(r.entries) <= Len(lg)
    /\ \A k \in 1..Len(r.entries) : r.entries[k] = lg[r.prevLogIndex + 1 + k]
AppendsOfLeaders ==
    /\ \A r \in AppendThreads : \E e \in elections : ElectedIn(r.from, r.term, e)
    /\ \A r \in Requests : /\ r.prevLogIndex = -1 => r.prevLogTerm = -1
                           /\ Leads(r.from, r.term) => PieceOf(r, log[r.from])
    /\ \A r \in Replies : Leads(r.from, r.term) => r.nextIndex + r.count <= Len(log[r.from])

NextInBounds ==
    \A s \in Server : role[s] = "Leader" =>
        \A p \in Peers(s) : nextIndex[s][p] <= Len(log[s])

\* The peer p of the leader s has the first m entries of its log, as it told the
\* leader in a reply or as its MatchIndex says, unless it is in a later term.
HasFirst(p, s, m) ==
    /\ currentTerm[p] >= currentTerm[s]
    /\ currentTerm[p] = currentTerm[s] =>
          m <= Len(log[p]) /\ \A i \in 1..m : log[p][i] = log[s][i]
Success(r) == r.replyTerm = r.term /\ r.success
AcksSound ==
    /\ \A s \in Server : role[s] = "Leader" =>
          \A p \in Peers(s) : matchIndex[s][p] >= 0 =>
              matchIndex[s][p] < Len(log[s]) /\ HasFirst(p, s, matchIndex[s][p] + 1)
    /\ \A r \in Replies : Leads(r.from, r.term) /\ Success(r)
              => HasFirst(r.to, r.from, r.nextIndex + r.count)

LogInv ==
    /\ ElectionsWon
    /\ StandersAboveBoot
    /\ LeaderExtends
    /\ LinksMade
    /\ LinksUnique
    /\ LeaderOwnsTerm
    /\ AppendsOfLeaders
    /\ NextInBounds
    /\ AcksSound

-----------------------------------------------------------------------------
\* Types, in the form the following lemmas use.
LEMMA LogTypes ==
    ASSUME TypeInv
    PROVE  /\ currentTerm \in [Server -> Nat] /\ log \in [Server -> Seq(Entry)]
           /\ role \in [Server -> {"Follower", "Candidate", "Leader"}]
           /\ DOMAIN nextIndex = Server /\ DOMAIN matchIndex = Server
           /\ \A s \in Server : /\ log[s] \in Seq(Entry) /\ Len(log[s]) \in Nat
                                /\ currentTerm[s] \in Nat /\ InitTerm[s] \in Nat
                                /\ nextIndex[s] \in [Peers(s) -> Nat]
                                /\ matchIndex[s] \in [Peers(s) -> Index]
           /\ \A e \in elections : /\ e.term \in Nat /\ e.leader \in Server
                                   /\ e.log \in Seq(Entry) /\ Len(e.log) \in Nat
           /\ \A r \in AppendThreads : /\ r.from \in Server /\ r.to \in Peers(r.from)
                                       /\ r.to \in Server /\ r.from # r.to /\ r.term \in Nat
           /\ \A r \in Requests : r \in AppendRequests
           /\ \A r \in Replies : r \in AppendReplies
  <1>1. \A r \in AppendThreads : r \in RPC /\ r.from # r.to
    BY DEF TypeInv, TypeOK, AppendThreads
  <1>2. \A r \in AppendThreads : /\ r.from \in Server /\ r.to \in Peers(r.from)
                                 /\ r.to \in Server /\ r.from # r.to /\ r.term \in Nat
    BY <1>1, ThreadKinds DEF Peers, Term
  <1>3. \A r \in Requests : r \in AppendRequests
    BY <1>1, ThreadKinds DEF Requests, AppendThreads
  <1>4. \A r \in Replies : r \in AppendReplies
    BY <1>1, ThreadKinds DEF Replies, AppendThreads
  <1>5. \A e \in elections : /\ e.term \in Nat /\ e.leader \in Server
                             /\ e.log \in Seq(Entry) /\ Len(e.log) \in Nat
    BY DEF TypeInv, TypeOK, Term
  <1>6. /\ currentTerm \in [Server -> Nat] /\ log \in [Server -> Seq(Entry)]
        /\ role \in [Server -> {"Follower", "Candidate", "Leader"}]
        /\ DOMAIN nextIndex = Server /\ DOMAIN matchIndex = Server
        /\ \A s \in Server : /\ log[s] \in Seq(Entry) /\ Len(log[s]) \in Nat
                             /\ currentTerm[s] \in Nat /\ InitTerm[s] \in Nat
                             /\ nextIndex[s] \in [Peers(s) -> Nat]
                             /\ matchIndex[s] \in [Peers(s) -> Index]
    BY BootstrapAssumption DEF TypeInv, TypeOK, Term
  <1> QED BY <1>2, <1>3, <1>4, <1>5, <1>6

LEMMA NewTypes ==
    ASSUME TypeInv'
    PROVE  \A s \in Server : /\ currentTerm'[s] \in Nat /\ log'[s] \in Seq(Entry)
                             /\ Len(log'[s]) \in Nat
                             /\ role'[s] \in {"Follower", "Candidate", "Leader"}
  BY DEF TypeInv, TypeOK, Term

\* Where links come from.
LEMMA LinkSources ==
    /\ \A s \in Server : LogLinks(log[s]) \subseteq Links
    /\ \A e \in elections : LogLinks(e.log) \subseteq Links
    /\ \A r \in Requests : RequestLinks(r) \subseteq Links
  BY DEF Links

LEMMA LinkSource ==
    ASSUME NEW x \in Links
    PROVE  \/ \E s \in Server : x \in LogLinks(log[s])
           \/ \E e \in elections : x \in LogLinks(e.log)
           \/ \E r \in Requests : x \in RequestLinks(r)
  BY DEF Links

\* Two elections in a term are one.
LEMMA OneElection ==
    ASSUME TypeInv, ElectionInv, ElectionsWon, NEW e \in elections, NEW s \in Server,
           IsMajority(Cardinality(Voters(s, e.term)))
    PROVE  e.leader = s
  <1> DEFINE S == Voters(s, e.term)
             T == Voters(e.leader, e.term)
  <1>1. S \in SUBSET Server /\ T \in SUBSET Server
    BY DEF Voters
  <1>2. IsMajority(Cardinality(S)) /\ IsMajority(Cardinality(T))
    BY DEF ElectionsWon, IsWon
  <1> HIDE DEF S, T
  <1>3. PICK v \in Server : v \in S /\ v \in T
    BY <1>1, <1>2, MajoritiesMeet
  <1> DEFINE x == Vote(v, e.term, s)
             y == Vote(v, e.term, e.leader)
  <1>4. x \in voted /\ y \in voted
    BY <1>3 DEF S, T, Voters
  <1>5. x.voter = y.voter /\ x.term = y.term /\ x.candidate = s /\ y.candidate = e.leader
    BY DEF Vote
  <1>6. x = y
    BY <1>4, <1>5 DEF ElectionInv, OneVotePerTerm
  <1> HIDE DEF x, y
  <1> QED BY <1>5, <1>6

\* A leader sent all AppendEntries of its term.
LEMMA LeaderSentAll ==
    ASSUME TypeInv, ElectionInv, LogInv, NEW s \in Server, role[s] = "Leader",
           NEW r \in AppendThreads, r.term = currentTerm[s]
    PROVE  r.from = s
  <1>1. PICK e \in elections : ElectedIn(r.from, r.term, e)
    BY DEF LogInv, AppendsOfLeaders
  <1>2. IsMajority(Cardinality(Voters(s, e.term)))
    BY <1>1 DEF ElectionInv, LeaderIsElected, ElectedIn
  <1>3. e.leader = s
    BY <1>2, OneElection DEF LogInv
  <1> QED BY <1>1, <1>3 DEF ElectedIn

-----------------------------------------------------------------------------
\* What all steps but the end of an election do to roles: terms grow, leaders
\* are those of before, candidates too or they stand for election now.
RolesKept ==
    /\ voted \subseteq voted'
    /\ \A s \in Server : currentTerm'[s] >= currentTerm[s]
    /\ \A s \in Server : role'[s] = "Leader" => role[s] = "Leader" /\ currentTerm'[s] = currentTerm[s]
    /\ \A s \in Server : role'[s] = "Candidate" =>
          \/ role[s] = "Candidate" /\ currentTerm'[s] = currentTerm[s]
          \/ s \in MayStand /\ currentTerm'[s] > currentTerm[s]

LEMMA QuietKeepsRoles ==
    ASSUME TypeInv, Quiet
    PROVE  RolesKept
  <1>1. currentTerm \in [Server -> Nat]
    BY LogTypes
  <1> QED BY <1>1 DEF Quiet, Keeps, Follows, RolesKept

\* More votes leave an election won.
LEMMA MoreVotes ==
    ASSUME voted \subseteq voted', NEW s, NEW t, IsMajority(Cardinality(Voters(s, t)))
    PROVE  IsMajority(Cardinality(Voters(s, t)'))
  <1>1. Voters(s, t) \in SUBSET Voters(s, t)' /\ Voters(s, t)' \in SUBSET Server
    BY DEF Voters
  <1> QED BY <1>1, SubsetCount, MoreIsMajority

\* Elections won stay won.
LEMMA StillWon ==
    ASSUME TypeInv, TypeInv', ElectionsWon, StandersAboveBoot, RolesKept, elections' = elections
    PROVE  ElectionsWon' /\ StandersAboveBoot'
  <1>1. ASSUME NEW e \in elections PROVE IsWon(e)'
    <2>1. e.leader \in Server /\ e.term \in Nat
      BY LogTypes
    <2>2. IsWon(e) /\ currentTerm[e.leader] \in Nat /\ currentTerm'[e.leader] \in Nat
      BY <2>1, LogTypes DEF ElectionsWon, TypeInv, TypeOK, Term
    <2>3. IsMajority(Cardinality(Voters(e.leader, e.term)'))
      BY <2>2, MoreVotes DEF IsWon, RolesKept
    <2>4. e.term <= currentTerm'[e.leader]
      BY <2>1, <2>2 DEF IsWon, RolesKept
    <2>5. e.term = currentTerm'[e.leader] => role'[e.leader] # "Candidate"
      BY <2>1, <2>2 DEF IsWon, RolesKept
    <2> QED BY <2>2, <2>3, <2>4, <2>5 DEF IsWon
  <1>2. ElectionsWon'
    BY <1>1 DEF ElectionsWon
  <1>3. ASSUME NEW s \in Server
        PROVE  /\ currentTerm'[s] >= InitTerm[s]
               /\ role'[s] # "Follower" => s \in MayStand /\ currentTerm'[s] > InitTerm[s]
    <2>1. currentTerm[s] \in Nat /\ currentTerm'[s] \in Nat /\ InitTerm[s] \in Nat
      BY LogTypes DEF TypeInv, TypeOK, Term
    <2>2. role'[s] \in {"Follower", "Candidate", "Leader"}
      BY DEF TypeInv, TypeOK
    <2> QED BY <2>1, <2>2 DEF StandersAboveBoot, RolesKept
  <1> QED BY <1>2, <1>3 DEF StandersAboveBoot

\* Logs that only grow: of the log lg, nothing is lost in new.
Grows(lg, new) == Len(lg) <= Len(new) /\ \A i \in 1..Len(lg) : new[i] = lg[i]

\* Leaders keep what they know of their peers.
PeersKept ==
    \A s \in Server : role'[s] = "Leader" =>
        nextIndex'[s] = nextIndex[s] /\ matchIndex'[s] = matchIndex[s]

LEMMA StillInBounds ==
    ASSUME TypeInv, TypeInv', NextInBounds, RolesKept, PeersKept,
           \A s \in Server : role'[s] = "Leader" => Grows(log[s], log'[s])
    PROVE  NextInBounds'
  <1> SUFFICES ASSUME NEW s \in Server, role'[s] = "Leader", NEW p \in Peers(s)
               PROVE  nextIndex'[s][p] <= Len(log'[s])
    BY DEF NextInBounds
  <1>1. nextIndex[s][p] \in Nat /\ Len(log[s]) \in Nat /\ Len(log'[s]) \in Nat
    BY LogTypes DEF TypeInv, TypeOK
  <1>2. nextIndex[s][p] <= Len(log[s]) /\ Len(log[s]) <= Len(log'[s])
    BY DEF NextInBounds, RolesKept, Grows
  <1> QED BY <1>1, <1>2 DEF PeersKept

\* What a peer has told a leader stays true while no log loses an entry.
LEMMA StillHasFirst ==
    ASSUME TypeInv, TypeInv', RolesKept, NEW s \in Server, role'[s] = "Leader",
           NEW p \in Server, NEW m \in Nat, m <= Len(log[s]), HasFirst(p, s, m),
           Grows(log[s], log'[s]), Grows(log[p], log'[p])
    PROVE  HasFirst(p, s, m)' /\ m <= Len(log'[s])
  <1>1. /\ currentTerm[p] \in Nat /\ currentTerm'[p] \in Nat
        /\ currentTerm[s] \in Nat /\ currentTerm'[s] = currentTerm[s]
        /\ Len(log[s]) \in Nat /\ Len(log'[s]) \in Nat
        /\ Len(log[p]) \in Nat /\ Len(log'[p]) \in Nat
    BY LogTypes, NewTypes DEF RolesKept
  <1>2. currentTerm'[p] >= currentTerm'[s]
    BY <1>1 DEF RolesKept, HasFirst
  <1>3. ASSUME currentTerm'[p] = currentTerm'[s]
        PROVE  m <= Len(log'[p]) /\ \A i \in 1..m : log'[p][i] = log'[s][i]
    <2>1. currentTerm[p] = currentTerm[s]
      BY <1>1, <1>3 DEF RolesKept, HasFirst
    <2>2. m <= Len(log[p]) /\ \A i \in 1..m : log[p][i] = log[s][i]
      BY <2>1 DEF HasFirst
    <2>3. \A i \in 1..m : i \in 1..Len(log[p]) /\ i \in 1..Len(log[s])
      BY <1>1, <2>2
    <2>4. \A i \in 1..m : log'[p][i] = log[p][i] /\ log'[s][i] = log[s][i]
      BY <2>3 DEF Grows
    <2>5. m <= Len(log'[p])
      BY <1>1, <2>2 DEF Grows
    <2> QED BY <2>2, <2>4, <2>5
  <1>4. m <= Len(log'[s])
    BY <1>1 DEF Grows
  <1> QED BY <1>2, <1>3, <1>4 DEF HasFirst

LEMMA StillAcked ==
    ASSUME TypeInv, TypeInv', AcksSound, AppendsOfLeaders, RolesKept, PeersKept,
           \A r \in Replies' : Success(r) => r \in Replies,
           \A s \in Server : Grows(log[s], log'[s])
    PROVE  AcksSound'
  <1>1. ASSUME NEW s \in Server, role'[s] = "Leader", NEW p \in Peers(s), matchIndex'[s][p] >= 0
        PROVE  matchIndex'[s][p] < Len(log'[s]) /\ HasFirst(p, s, matchIndex[s][p] + 1)'
    <2>1. role[s] = "Leader" /\ matchIndex'[s] = matchIndex[s] /\ p \in Server
      BY <1>1 DEF RolesKept, PeersKept, Peers
    <2>2. matchIndex[s][p] < Len(log[s]) /\ HasFirst(p, s, matchIndex[s][p] + 1)
      BY <1>1, <2>1 DEF AcksSound
    <2>3. matchIndex[s][p] \in Index /\ Len(log[s]) \in Nat /\ Len(log'[s]) \in Nat
      BY LogTypes, NewTypes
    <2>4. PICK m \in Nat : m = matchIndex[s][p] + 1
      BY <1>1, <2>1, <2>3 DEF Index
    <2>5. m <= Len(log[s]) /\ HasFirst(p, s, m)
      BY <2>2, <2>3, <2>4 DEF Index
    <2>6. HasFirst(p, s, m)' /\ m <= Len(log'[s])
      BY <1>1, <2>1, <2>5, StillHasFirst
    <2>7. m = matchIndex'[s][p] + 1
      BY <2>1, <2>4
    <2>8. matchIndex'[s][p] < Len(log'[s])
      BY <2>1, <2>3, <2>6, <2>7 DEF Index
    <2> QED BY <2>6, <2>7, <2>8
  <1>2. ASSUME NEW r \in Replies', Leads(r.from, r.term)', Success(r)
        PROVE  HasFirst(r.to, r.from, r.nextIndex + r.count)'
    <2> DEFINE m == r.nextIndex + r.count
    <2>1. r \in Replies /\ r \in AppendThreads /\ r \in AppendReplies
      BY <1>2, LogTypes DEF Replies
    <2>2. r.from \in Server /\ r.to \in Server /\ m \in Nat
      BY <2>1, LogTypes DEF AppendReplies
    <2>3. Leads(r.from, r.term)
      BY <1>2, <2>2 DEF Leads, RolesKept
    <2>4. HasFirst(r.to, r.from, m) /\ m <= Len(log[r.from])
      BY <1>2, <2>1, <2>3 DEF AcksSound, AppendsOfLeaders
    <2> HIDE DEF m
    <2>5. HasFirst(r.to, r.from, m)'
      BY <1>2, <2>2, <2>4, StillHasFirst DEF Leads
    <2> QED BY <2>5 DEF m
  <1> QED BY <1>1, <1>2 DEF AcksSound, Success

\* A piece of a log is a piece of the log when it has grown.
LEMMA StillPiece ==
    ASSUME NEW r \in AppendRequests, NEW lg \in Seq(Entry), NEW new \in Seq(Entry),
           PieceOf(r, lg), Grows(lg, new)
    PROVE  PieceOf(r, new)
  <1>1. /\ r.prevLogIndex \in Index /\ Len(r.entries) \in Nat /\ Len(lg) \in Nat /\ Len(new) \in Nat
    BY DEF AppendRequests
  <1>2. r.prevLogIndex + 1 \in Nat
    BY <1>1 DEF Index
  <1>3. PrevMatches(r, new)
    <2>1. r.prevLogIndex # -1 => r.prevLogIndex + 1 \in 1..Len(lg) /\ r.prevLogIndex >= 0
      BY <1>1 DEF PieceOf, PrevMatches, LastLogIndex, Index
    <2>2. r.prevLogIndex # -1 => /\ r.prevLogIndex \in 0..(Len(new) - 1)
                                 /\ new[r.prevLogIndex + 1] = lg[r.prevLogIndex + 1]
      BY <1>1, <2>1 DEF Grows, Index
    <2> QED BY <2>2 DEF PieceOf, PrevMatches, LastLogIndex
  <1>4. \A k \in 1..Len(r.entries) : r.prevLogIndex + 1 + k \in 1..Len(lg)
    BY <1>1, <1>2 DEF PieceOf
  <1>5. \A k \in 1..Len(r.entries) : r.entries[k] = new[r.prevLogIndex + 1 + k]
    <2> SUFFICES ASSUME NEW k \in 1..Len(r.entries)
                 PROVE  r.entries[k] = new[r.prevLogIndex + 1 + k]
      OBVIOUS
    <2>1. r.entries[k] = lg[r.prevLogIndex + 1 + k]
      BY DEF PieceOf
    <2>2. new[r.prevLogIndex + 1 + k] = lg[r.prevLogIndex + 1 + k]
      BY <1>4 DEF Grows
    <2> QED BY <2>1, <2>2
  <1>6. r.prevLogIndex + 1 + Len(r.entries) <= Len(lg) /\ Len(lg) <= Len(new)
    BY DEF PieceOf, Grows
  <1>7. r.prevLogIndex + 1 + Len(r.entries) <= Len(new)
    BY <1>1, <1>2, <1>6
  <1> QED BY <1>3, <1>5, <1>7 DEF PieceOf

\* What AppendsOfLeaders says of a thread stays true while no leader's log loses
\* an entry.
LEMMA StillOfLeader ==
    ASSUME TypeInv, TypeInv', AppendsOfLeaders, RolesKept, elections \subseteq elections',
           \A s \in Server : role'[s] = "Leader" => Grows(log[s], log'[s]),
           NEW r \in AppendThreads
    PROVE  /\ \E e \in elections' : ElectedIn(r.from, r.term, e)
           /\ r \in Requests =>
                 /\ r.prevLogIndex = -1 => r.prevLogTerm = -1
                 /\ Leads(r.from, r.term)' => PieceOf(r, log'[r.from])
           /\ r \in Replies /\ Leads(r.from, r.term)' => r.nextIndex + r.count <= Len(log'[r.from])
  <1>1. r.from \in Server
    BY LogTypes
  <1>2. \E e \in elections' : ElectedIn(r.from, r.term, e)
    BY DEF AppendsOfLeaders
  <1>3. Leads(r.from, r.term)' => Leads(r.from, r.term) /\ Grows(log[r.from], log'[r.from])
    BY <1>1 DEF Leads, RolesKept
  <1>4. log[r.from] \in Seq(Entry) /\ log'[r.from] \in Seq(Entry)
    BY <1>1 DEF TypeInv, TypeOK
  <1>5. ASSUME r \in Requests, Leads(r.from, r.term)' PROVE PieceOf(r, log'[r.from])
    BY <1>3, <1>4, <1>5, StillPiece, LogTypes DEF AppendsOfLeaders
  <1>6. ASSUME r \in Replies, Leads(r.from, r.term)'
        PROVE  r.nextIndex + r.count <= Len(log'[r.from])
    <2>1. r \in AppendReplies
      BY <1>6, LogTypes
    <2>2. r.nextIndex + r.count \in Nat /\ Len(log[r.from]) \in Nat /\ Len(log'[r.from]) \in Nat
      BY <1>4, <2>1 DEF AppendReplies
    <2>3. r.nextIndex + r.count <= Len(log[r.from]) /\ Len(log[r.from]) <= Len(log'[r.from])
      BY <1>3, <1>6 DEF AppendsOfLeaders, Grows
    <2> QED BY <2>2, <2>3
  <1> QED BY <1>2, <1>5, <1>6 DEF AppendsOfLeaders

LEMMA OnlyOldAppends ==
    ASSUME TypeInv, TypeInv', AppendsOfLeaders, RolesKept, elections' = elections,
           \A s \in Server : role'[s] = "Leader" => Grows(log[s], log'[s]),
           AppendThreads' \subseteq AppendThreads
    PROVE  AppendsOfLeaders'
  <1>1. \A r \in AppendThreads' : \E e \in elections' : ElectedIn(r.from, r.term, e)
    BY StillOfLeader
  <1>2. ASSUME NEW r \in Requests'
        PROVE  /\ r.prevLogIndex = -1 => r.prevLogTerm = -1
               /\ Leads(r.from, r.term)' => PieceOf(r, log'[r.from])
    <2>1. r \in AppendThreads /\ r \in Requests
      BY DEF Requests
    <2> QED BY <2>1, StillOfLeader
  <1>3. ASSUME NEW r \in Replies', Leads(r.from, r.term)'
        PROVE  r.nextIndex + r.count <= Len(log'[r.from])
    <2>1. r \in AppendThreads /\ r \in Replies
      BY DEF Replies
    <2> QED BY <1>3, <2>1, StillOfLeader
  <1> QED BY <1>1, <1>2, <1>3 DEF AppendsOfLeaders, Leads, PieceOf

\* Steps that make no links.
LEMMA NoNewLinks ==
    ASSUME LinksMade, LinksUnique, LeaderOwnsTerm, RolesKept, elections' = elections,
           Links' \subseteq Links, \A s \in Server : role'[s] = "Leader" => log'[s] = log[s]
    PROVE  LinksMade' /\ LinksUnique' /\ LeaderOwnsTerm'
  <1>1. LinksMade'
    BY DEF LinksMade
  <1>2. LinksUnique'
    BY DEF LinksUnique, Unique
  <1>3. LeaderOwnsTerm'
    BY DEF LeaderOwnsTerm, RolesKept
  <1> QED BY <1>1, <1>2, <1>3

LEMMA StillExtends ==
    ASSUME LeaderExtends, RolesKept, elections' = elections,
           \A s \in Server : role'[s] = "Leader" => log'[s] = log[s]
    PROVE  LeaderExtends'
  BY DEF LeaderExtends, RolesKept

\* Steps that touch no log, start no AppendEntries and elect nobody.
Calm ==
    /\ RolesKept
    /\ PeersKept
    /\ UNCHANGED <<log, elections>>
    /\ AppendThreads' \subseteq AppendThreads

LEMMA CalmStep ==
    ASSUME TypeInv, TypeInv', LogInv, Calm
    PROVE  LogInv'
  <1>1. /\ RolesKept /\ PeersKept /\ log' = log /\ elections' = elections
        /\ AppendThreads' \subseteq AppendThreads
    BY DEF Calm
  <1>2. Requests' \subseteq Requests /\ Replies' \subseteq Replies
    BY <1>1 DEF Requests, Replies
  <1>3. Links' \subseteq Links
    BY <1>1, <1>2 DEF Links
  <1>4. \A s \in Server : Grows(log[s], log'[s])
    BY <1>1 DEF Grows
  <1>5. ElectionsWon' /\ StandersAboveBoot'
    BY <1>1, StillWon DEF LogInv
  <1>6. LeaderExtends'
    BY <1>1, StillExtends DEF LogInv
  <1>7. LinksMade' /\ LinksUnique' /\ LeaderOwnsTerm'
    BY <1>1, <1>3, NoNewLinks DEF LogInv
  <1>8. NextInBounds'
    BY <1>1, <1>4, StillInBounds DEF LogInv
  <1>9. AcksSound'
    BY <1>1, <1>2, <1>4, StillAcked DEF LogInv
  <1>10. AppendsOfLeaders'
    BY <1>1, <1>4, OnlyOldAppends DEF LogInv
  <1> QED BY <1>5, <1>6, <1>7, <1>8, <1>9, <1>10 DEF LogInv

\* Which steps are calm.
LEMMA CalmElection ==
    ASSUME TypeInv,
           \/ \E s \in Server : StartElection(s)
           \/ \E r \in Threads("spawned", "RequestVote") : SendRequestVote(r)
           \/ \E r \in Threads("request", "RequestVote") : RequestVote(r)
    PROVE  Calm
  <1>1. UNCHANGED <<log, elections, nextIndex, matchIndex>> /\ voted \subseteq voted'
    BY DEF StartElection, SendRequestVote, RequestVote, persistentVars, leaderVars, historyVars
  <1>2. /\ currentTerm \in [Server -> Nat] /\ role \in [Server -> {"Follower", "Candidate", "Leader"}]
        /\ \A r \in rpcs : r.from \in Server /\ r.to \in Server /\ r.term \in Nat
    BY LogTypes, ThreadKinds DEF TypeInv, TypeOK, Term
  <1>3. CASE \E s \in Server : StartElection(s)
    <2>1. PICK s \in Server : StartElection(s)
      BY <1>3
    <2>2. /\ s \in MayStand
          /\ currentTerm' = [currentTerm EXCEPT ![s] = currentTerm[s] + 1]
          /\ role' = [role EXCEPT ![s] = "Candidate"]
      BY <2>1 DEF StartElection, MayTimeOut, BecomeCandidate
    <2>3. RolesKept
      BY <1>1, <1>2, <2>2 DEF RolesKept
    <2>4. \A p \in Peers(s) : Spawned("RequestVote", s, p, currentTerm[s] + 1).kind # "AppendEntries"
      BY DEF Spawned
    <2>5. AppendThreads' \subseteq AppendThreads
      BY <2>1, <2>4 DEF StartElection, AppendThreads
    <2> QED BY <1>1, <2>3, <2>5 DEF Calm, PeersKept
  <1>4. CASE \E r \in Threads("spawned", "RequestVote") : SendRequestVote(r)
    <2>1. PICK r \in Threads("spawned", "RequestVote") : SendRequestVote(r)
      BY <1>4
    <2>2. RolesKept
      BY <1>1, <1>2, <2>1 DEF SendRequestVote, RolesKept, persistentVars
    <2>3. AppendThreads' \subseteq AppendThreads
      BY <2>1 DEF SendRequestVote, VoteRequest, AppendThreads
    <2> QED BY <1>1, <2>2, <2>3 DEF Calm, PeersKept
  <1>5. CASE \E r \in Threads("request", "RequestVote") : RequestVote(r)
    <2>1. PICK r \in Threads("request", "RequestVote") : RequestVote(r)
      BY <1>5
    <2>2. r.to \in Server /\ r.term \in Nat
      BY <1>2 DEF Threads
    <2>3. \/ /\ r.term > currentTerm[r.to]
             /\ currentTerm' = [currentTerm EXCEPT ![r.to] = r.term]
             /\ role' = [role EXCEPT ![r.to] = "Follower"]
          \/ /\ currentTerm' = [currentTerm EXCEPT ![r.to] = currentTerm[r.to]]
             /\ role' = role
      BY <2>1 DEF RequestVote, Newer
    <2>4. RolesKept
      BY <1>1, <1>2, <2>2, <2>3 DEF RolesKept
    <2>5. AppendThreads' \subseteq AppendThreads
      BY <2>1 DEF RequestVote, VoteReply, AppendThreads
    <2> QED BY <1>1, <2>4, <2>5 DEF Calm, PeersKept
  <1> QED BY <1>3, <1>4, <1>5

LEMMA CalmInput ==
    ASSUME TypeInv, NEW s \in Server,
           \/ \E op \in Op : Submit(s, op)
           \/ RaftImplLeader(s) \/ RaftImplOther(s)
    PROVE  Calm
  <1>1. UNCHANGED <<log, elections, nextIndex, matchIndex, rpcs>>
    BY DEF Submit, RaftImplLeader, RaftImplOther, persistentVars, leaderVars, historyVars
  <1>2. RolesKept
    BY QuietReplication, QuietKeepsRoles
  <1> QED BY <1>1, <1>2 DEF Calm, PeersKept, AppendThreads

LEMMA CalmFailure ==
    ASSUME TypeInv, NEW s \in Server,
           (\E r \in rpcs : LoseRPC(r)) \/ Crash(s) \/ CrashInPersist(s)
    PROVE  Calm
  <1>1. UNCHANGED <<log, elections>> /\ AppendThreads' \subseteq AppendThreads
    BY DEF LoseRPC, Crash, CrashInPersist, Restart, persistentVars, historyVars, AppendThreads
  <1>2. RolesKept
    BY QuietFailure, QuietKeepsRoles
  <1>3. PeersKept
    <2>1. CASE UNCHANGED <<nextIndex, matchIndex>>
      BY <2>1 DEF PeersKept
    <2>2. CASE Restart(s)
      BY <2>2 DEF Restart, PeersKept, TypeInv, TypeOK
    <2> QED BY <2>1, <2>2 DEF LoseRPC, Crash, CrashInPersist, leaderVars
  <1> QED BY <1>1, <1>2, <1>3 DEF Calm

\* A thread of startElection processes an answer: the election is won, or not.
Wins(s) ==
    /\ role[s] = "Candidate"
    /\ BecomeLeader(s)
    /\ elections' = elections \cup {[term |-> currentTerm[s], leader |-> s, log |-> log[s],
                                     voters |-> Voters(s, currentTerm[s])]}
    /\ UNCHANGED <<currentTerm, log, voted>>
    /\ AppendThreads' = AppendThreads

LEMMA CalmRequestVoteReply ==
    ASSUME TypeInv, ~StaleReplies, NEW r \in Threads("reply", "RequestVote"), Timely(r),
           RequestVoteReply(r)
    PROVE  Calm \/ Wins(r.from)
  <1>1. r \in VoteReplies
    BY ThreadKinds DEF Threads, TypeInv, TypeOK
  <1>2. r.from \in Server /\ r.replyTerm \in Nat /\ r.term = currentTerm[r.from]
    BY <1>1 DEF VoteReplies, Term, Timely
  <1>3. /\ currentTerm \in [Server -> Nat] /\ role \in [Server -> {"Follower", "Candidate", "Leader"}]
    BY LogTypes
  <1>4. /\ log' = log /\ voted' = voted /\ AppendThreads' = AppendThreads
    BY DEF RequestVoteReply, AppendThreads, Threads
  <1>5. CASE UNCHANGED <<currentTerm, role, leaderVars, elections>>
    BY <1>3, <1>4, <1>5 DEF Calm, RolesKept, PeersKept, leaderVars
  <1>6. CASE /\ r.replyTerm > r.term /\ BecomeFollower(r.from, r.replyTerm)
             /\ UNCHANGED <<leaderVars, elections>>
    BY <1>2, <1>3, <1>4, <1>6 DEF Calm, BecomeFollower, RolesKept, PeersKept, leaderVars
  <1> QED BY <1>4, <1>5, <1>6 DEF RequestVoteReply, Wins

\* The end of an election.  No election of the term has been won before, so there
\* is nothing of the term yet: no entry and no AppendEntries.
LEMMA TermIsNew ==
    ASSUME TypeInv, TypeInv', ElectionInv, ElectionInv', LogInv, NEW s \in Server, Wins(s)
    PROVE  /\ IsMajority(Cardinality(Voters(s, currentTerm[s])))
           /\ \A f \in elections : f.term # currentTerm[s]
           /\ \A x \in Links : x.entry.term # currentTerm[s]
           /\ \A r \in AppendThreads : r.term # currentTerm[s]
  <1>1. role'[s] = "Leader" /\ currentTerm' = currentTerm /\ voted' = voted /\ role[s] = "Candidate"
    BY LogTypes DEF Wins, BecomeLeader
  <1>2. IsMajority(Cardinality(Voters(s, currentTerm[s])))
    <2>1. IsMajority(Cardinality(Voters(s, currentTerm[s])'))
      BY <1>1 DEF ElectionInv, LeaderIsElected
    <2>2. Voters(s, currentTerm[s])' = Voters(s, currentTerm[s])
      BY <1>1 DEF Voters
    <2> QED BY <2>1, <2>2
  <1>3. ASSUME NEW f \in elections, f.term = currentTerm[s] PROVE FALSE
    <2>1. f.leader = s
      BY <1>2, <1>3, OneElection DEF LogInv
    <2> QED BY <1>1, <1>3, <2>1 DEF LogInv, ElectionsWon, IsWon
  <1>4. s \in MayStand /\ currentTerm[s] > InitTerm[s] /\ currentTerm[s] \in Nat /\ InitTerm[s] \in Nat
    BY <1>1, LogTypes DEF LogInv, StandersAboveBoot
  <1>5. ~BootTerm(currentTerm[s])
    BY <1>4 DEF BootTerm
  <1>6. ASSUME NEW x \in Links, x.entry.term = currentTerm[s] PROVE FALSE
    BY <1>3, <1>5, <1>6 DEF LogInv, LinksMade, MadeIn
  <1>7. ASSUME NEW r \in AppendThreads, r.term = currentTerm[s] PROVE FALSE
    BY <1>3, <1>7 DEF LogInv, AppendsOfLeaders, ElectedIn
  <1> QED BY <1>2, <1>3, <1>6, <1>7

LEMMA WinsStep ==
    ASSUME TypeInv, TypeInv', ElectionInv, ElectionInv', LogInv, NEW s \in Server, Wins(s)
    PROVE  LogInv'
  <1>0. PICK e : e = [term |-> currentTerm[s], leader |-> s, log |-> log[s],
                    voters |-> Voters(s, currentTerm[s])]
    OBVIOUS
  <1>1. /\ role[s] = "Candidate" /\ role' = [role EXCEPT ![s] = "Leader"]
        /\ UNCHANGED <<currentTerm, log, voted>> /\ AppendThreads' = AppendThreads
        /\ elections' = elections \cup {e}
        /\ nextIndex' = [nextIndex EXCEPT ![s] = [p \in Peers(s) |-> Len(log[s])]]
        /\ matchIndex' = [matchIndex EXCEPT ![s] = [p \in Peers(s) |-> -1]]
    BY <1>0 DEF Wins, BecomeLeader
  <1>2. e.term = currentTerm[s] /\ e.leader = s /\ e.log = log[s]
    BY <1>0
  <1>3. /\ role'[s] = "Leader" /\ \A p \in Server \ {s} : role'[p] = role[p]
        /\ \A p \in Server \ {s} : nextIndex'[p] = nextIndex[p] /\ matchIndex'[p] = matchIndex[p]
        /\ \A p \in Peers(s) : nextIndex'[s][p] = Len(log[s]) /\ matchIndex'[s][p] = -1
    BY <1>1, LogTypes
  <1>4. /\ IsMajority(Cardinality(Voters(s, currentTerm[s])))
        /\ \A f \in elections : f.term # currentTerm[s]
        /\ \A x \in Links : x.entry.term # currentTerm[s]
        /\ \A r \in AppendThreads : r.term # currentTerm[s]
    BY TermIsNew
  <1>5. Requests' = Requests /\ Replies' = Replies
    BY <1>1 DEF Requests, Replies
  <1>6. Links' \subseteq Links
    <2>1. ASSUME NEW x \in Links' PROVE x \in Links
      <3>1. \/ \E p \in Server : x \in LogLinks(log[p])
            \/ \E f \in elections : x \in LogLinks(f.log)
            \/ x \in LogLinks(log[s])
            \/ \E r \in Requests : x \in RequestLinks(r)
        BY <1>1, <1>2, <1>5 DEF Links
      <3> QED BY <3>1, LinkSources
    <2> QED BY <2>1
  <1>7. StandersAboveBoot'
    <2>1. s \in MayStand /\ currentTerm[s] > InitTerm[s]
      BY <1>1 DEF LogInv, StandersAboveBoot
    <2> QED BY <1>1, <1>3, <2>1 DEF LogInv, StandersAboveBoot
  <1>8. ElectionsWon'
    <2>1. IsWon(e)'
      <3>1. s \in MayStand /\ currentTerm[s] > InitTerm[s] /\ currentTerm[s] \in Nat
        BY <1>1, LogTypes DEF LogInv, StandersAboveBoot
      <3>2. \A t : Voters(s, t)' = Voters(s, t)
        BY <1>1 DEF Voters
      <3> QED BY <1>1, <1>2, <1>3, <1>4, <3>1, <3>2 DEF IsWon
    <2>2. ASSUME NEW f \in elections PROVE IsWon(f)'
      <3>1. IsWon(f) /\ f.leader \in Server
        BY LogTypes DEF LogInv, ElectionsWon
      <3>2. Voters(f.leader, f.term)' = Voters(f.leader, f.term)
        BY <1>1 DEF Voters
      <3>3. role'[f.leader] = "Candidate" => role[f.leader] = "Candidate"
        BY <1>3, <3>1
      <3> QED BY <1>1, <3>1, <3>2, <3>3 DEF IsWon
    <2>3. \A f, g \in elections' : f.term = g.term => f = g
      BY <1>1, <1>2, <1>4 DEF LogInv, ElectionsWon
    <2> QED BY <1>1, <2>1, <2>2, <2>3 DEF ElectionsWon
  <1>9. LeaderExtends'
    <2>1. ExtendedIn(e, log[s])
      BY <1>2, LogTypes DEF ExtendedIn
    <2>2. e \in elections' /\ ElectedIn(s, currentTerm[s], e)
      BY <1>1, <1>2 DEF ElectedIn
    <2>3. ASSUME NEW p \in Server, role'[p] = "Leader"
          PROVE  \E f \in elections' : ElectedIn(p, currentTerm[p], f) /\ ExtendedIn(f, log[p])
      <3>1. CASE p = s
        BY <2>1, <2>2, <3>1
      <3>2. CASE p # s
        BY <1>1, <1>3, <2>3, <3>2 DEF LogInv, LeaderExtends
      <3> QED BY <3>1, <3>2
    <2> QED BY <1>1, <2>3 DEF LeaderExtends, ElectedIn
  <1>10. LinksMade'
    BY <1>1, <1>6 DEF LogInv, LinksMade
  <1>11. LinksUnique'
    BY <1>6 DEF LogInv, LinksUnique, Unique
  <1>12. LeaderOwnsTerm'
    BY <1>1, <1>3, <1>4, <1>6 DEF LogInv, LeaderOwnsTerm
  <1>13. \A r \in AppendThreads : Leads(r.from, r.term)' => Leads(r.from, r.term)
    <2>1. \A r \in AppendThreads : r.from \in Server
      BY LogTypes
    <2> QED BY <1>1, <1>3, <1>4, <2>1 DEF Leads
  <1>14. AppendsOfLeaders'
    <2>1. \A r \in AppendThreads : \E f \in elections' : ElectedIn(r.from, r.term, f)
      BY <1>1 DEF LogInv, AppendsOfLeaders
    <2>2. /\ \A r \in Requests : r \in AppendThreads /\ (Leads(r.from, r.term)' => Leads(r.from, r.term))
          /\ \A r \in Replies : r \in AppendThreads /\ (Leads(r.from, r.term)' => Leads(r.from, r.term))
      BY <1>13 DEF Requests, Replies
    <2> QED BY <1>1, <1>5, <2>1, <2>2 DEF LogInv, AppendsOfLeaders
  <1>15. NextInBounds'
    <2>1. Len(log[s]) \in Nat
      BY LogTypes
    <2> QED BY <1>1, <1>3, <2>1 DEF LogInv, NextInBounds
  <1>16. AcksSound'
    <2>1. \A p \in Server : role'[p] = "Leader" =>
            \A q \in Peers(p) : matchIndex'[p][q] >= 0 =>
                matchIndex'[p][q] < Len(log[p]) /\ HasFirst(q, p, matchIndex[p][q] + 1)'
      BY <1>1, <1>3 DEF LogInv, AcksSound, HasFirst
    <2>2. \A r \in Replies : Leads(r.from, r.term)' /\ Success(r)
              => HasFirst(r.to, r.from, r.nextIndex + r.count)'
      BY <1>1, <1>13 DEF LogInv, AcksSound, HasFirst, Replies
    <2> QED BY <1>1, <1>5, <2>1, <2>2 DEF AcksSound, Success
  <1> QED BY <1>7, <1>8, <1>9, <1>10, <1>11, <1>12, <1>14, <1>15, <1>16 DEF LogInv

\* A thread of runLeaderOneIter processes an answer.
LEMMA AnswerStep ==
    ASSUME TypeInv, TypeInv', ~StaleReplies, LogInv,
           NEW r \in Threads("reply", "AppendEntries"), Timely(r), AppendEntriesReply(r)
    PROVE  LogInv'
  <1> DEFINE s == r.from
             n == NextAfter(r)
             updated == /\ UNCHANGED <<currentTerm, role>> /\ role[s] = "Leader"
                        /\ r.replyTerm = r.term
                        /\ nextIndex' = [nextIndex EXCEPT ![s][r.to] = n]
                        /\ \/ /\ r.success
                              /\ matchIndex' = [matchIndex EXCEPT ![s] = [@ EXCEPT ![r.to] = n - 1]]
                           \/ ~r.success /\ UNCHANGED matchIndex
  <1>1. /\ r \in AppendThreads /\ r \in Replies /\ r \in AppendReplies
        /\ s \in Server /\ r.to \in Peers(s) /\ r.to \in Server
    BY LogTypes DEF Threads, AppendThreads, Replies
  <1>2. /\ r.nextIndex \in Nat /\ r.count \in Nat /\ r.replyTerm \in Nat /\ r.term = currentTerm[s]
        /\ r.success \in BOOLEAN
    BY <1>1 DEF AppendReplies, Term, Timely
  <1>3. /\ RolesKept /\ log' = log /\ elections' = elections /\ AppendThreads' \subseteq AppendThreads
    BY QuietAppendEntriesReply, QuietKeepsRoles DEF AppendEntriesReply, AppendThreads
  <1>4. updated \/ PeersKept
    <2>1. CASE UNCHANGED leaderVars
      BY <2>1 DEF PeersKept, leaderVars
    <2>2. CASE ~UNCHANGED leaderVars
      BY <2>2 DEF AppendEntriesReply
    <2> QED BY <2>1, <2>2
  <1>5. CASE PeersKept
    BY <1>3, <1>5, CalmStep DEF Calm
  <1>6. CASE updated
    <2>1. /\ UNCHANGED <<currentTerm, role>> /\ role[s] = "Leader" /\ Leads(s, r.term)
          /\ r.replyTerm = r.term
      BY <1>2, <1>6 DEF Leads
    <2>2. Requests' \subseteq Requests /\ Replies' \subseteq Replies
      BY <1>3 DEF Requests, Replies
    <2>3. Links' \subseteq Links /\ \A p \in Server : Grows(log[p], log'[p])
      BY <1>3, <2>2 DEF Links, Grows
    <2>4. r.nextIndex + r.count <= Len(log[s]) /\ Len(log[s]) \in Nat
      BY <1>1, <2>1, LogTypes DEF LogInv, AppendsOfLeaders
    <2>5. n <= Len(log[s])
      BY <1>2, <2>4 DEF NextAfter
    <2>6. /\ \A p \in Server \ {s} : nextIndex'[p] = nextIndex[p] /\ matchIndex'[p] = matchIndex[p]
          /\ nextIndex'[s][r.to] = n
          /\ \A p \in Peers(s) \ {r.to} : /\ nextIndex'[s][p] = nextIndex[s][p]
                                          /\ matchIndex'[s][p] = matchIndex[s][p]
          /\ r.success => matchIndex'[s][r.to] = n - 1
          /\ ~r.success => matchIndex'[s][r.to] = matchIndex[s][r.to]
      <3>1. /\ DOMAIN nextIndex = Server /\ DOMAIN matchIndex = Server
            /\ DOMAIN nextIndex[s] = Peers(s) /\ DOMAIN matchIndex[s] = Peers(s)
        BY <1>1, LogTypes
      <3> HIDE DEF n
      <3> QED BY <1>1, <1>6, <3>1
    <2>7. NextInBounds'
      BY <1>3, <2>1, <2>5, <2>6 DEF LogInv, NextInBounds
    <2>8. r.success => n = r.nextIndex + r.count /\ (n - 1) + 1 = n /\ n - 1 < Len(log[s])
      BY <1>2, <2>4 DEF NextAfter
    <2>9. r.success => HasFirst(r.to, s, r.nextIndex + r.count)
      BY <1>1, <2>1 DEF LogInv, AcksSound, Success
    <2>10. \A x, y, m : HasFirst(x, y, m) =>
              /\ currentTerm'[x] >= currentTerm'[y]
              /\ currentTerm'[x] = currentTerm'[y] =>
                    m <= Len(log'[x]) /\ \A i \in 1..m : log'[x][i] = log'[y][i]
      BY <1>3, <2>1 DEF HasFirst
    <2>11. ASSUME NEW p \in Server, role[p] = "Leader", NEW q \in Peers(p), matchIndex'[p][q] >= 0
           PROVE  matchIndex'[p][q] < Len(log[p]) /\ HasFirst(q, p, matchIndex'[p][q] + 1)
      <3>1. CASE p = s /\ q = r.to /\ r.success
        <4>1. matchIndex'[p][q] = n - 1
          BY <2>6, <3>1
        <4> HIDE DEF n
        <4> QED BY <2>8, <2>9, <3>1, <4>1
      <3>2. CASE ~(p = s /\ q = r.to /\ r.success)
        <4>1. matchIndex'[p][q] = matchIndex[p][q]
          BY <2>6, <2>11, <3>2
        <4> QED BY <2>11, <4>1 DEF LogInv, AcksSound
      <3> QED BY <3>1, <3>2
    <2>12. AcksSound'
      <3>1. \A p \in Server : role'[p] = "Leader" =>
              \A q \in Peers(p) : matchIndex'[p][q] >= 0 =>
                  matchIndex'[p][q] < Len(log'[p]) /\ HasFirst(q, p, matchIndex[p][q] + 1)'
        BY <1>3, <2>1, <2>10, <2>11 DEF HasFirst
      <3>2. \A q \in Replies' : Leads(q.from, q.term)' /\ Success(q)
                => HasFirst(q.to, q.from, q.nextIndex + q.count)'
        BY <1>3, <2>1, <2>2 DEF LogInv, AcksSound, Leads, HasFirst
      <3> QED BY <3>1, <3>2 DEF AcksSound, Success
    <2>13. ElectionsWon' /\ StandersAboveBoot'
      BY <1>3, StillWon DEF LogInv
    <2>14. LeaderExtends'
      BY <1>3, StillExtends DEF LogInv
    <2>15. LinksMade' /\ LinksUnique' /\ LeaderOwnsTerm'
      BY <1>3, <2>3, NoNewLinks DEF LogInv
    <2>16. AppendsOfLeaders'
      BY <1>3, <2>3, OnlyOldAppends DEF LogInv
    <2> QED BY <2>7, <2>12, <2>13, <2>14, <2>15, <2>16 DEF LogInv
  <1> QED BY <1>4, <1>5, <1>6

\* A thread of runLeaderOneIter reads what it sends: it is spawned by a leader
\* that still leads, so it reads a piece of the leader's log.
LEMMA SentPiece ==
    ASSUME TypeInv, RoundsAreLeaders, NextInBounds,
           NEW r \in Threads("spawned", "AppendEntries"), SendAppendEntries(r)
    PROVE  \E q \in AppendRequests :
              /\ rpcs' = (rpcs \ {r}) \cup {q}
              /\ q.kind = "AppendEntries" /\ q.phase = "request"
              /\ q.from = r.from /\ q.to = r.to /\ q.term = r.term
              /\ q.prevLogIndex = -1 => q.prevLogTerm = -1
              /\ q.leaderCommit = commitIndex[r.from]
              /\ PieceOf(q, log[r.from])
              /\ q.prevLogIndex + 1 + Len(q.entries) = Len(log[r.from])
              /\ RequestLinks(q) \subseteq LogLinks(log[r.from])
  <1> DEFINE s    == r.from
             lg   == log[s]
             next == nextIndex[s][r.to]
             es   == SubSeq(lg, next + 1, Len(lg))
             prev == IF next = 0 THEN -1 ELSE lg[next].term
             q    == AppendRequest(r, next, prev, es, commitIndex[s])
  <1>1. r \in AppendThreads /\ r.phase = "spawned" /\ s \in Server /\ r.to \in Peers(s)
    BY LogTypes DEF Threads, AppendThreads
  <1>2. r \in SpawnedThread /\ commitIndex[s] \in Index
    BY <1>1, ThreadKinds DEF Threads, TypeInv, TypeOK
  <1>3. role[s] = "Leader" /\ lg \in Seq(Entry) /\ Len(lg) \in Nat /\ next \in Nat
    BY <1>1, LogTypes DEF RoundsAreLeaders
  <1>4. next \in 0..Len(lg)
    BY <1>1, <1>3 DEF NextInBounds
  <1>5. PrevLogTerms(lg, next) = {prev}
    BY <1>3, <1>4 DEF PrevLogTerms
  <1>6. rpcs' = (rpcs \ {r}) \cup {q}
    BY <1>5 DEF SendAppendEntries
  <1>7. prev \in Index
    <2>1. next # 0 => lg[next] \in Entry
      BY <1>3, <1>4
    <2> QED BY <2>1 DEF Entry, Index
  <1>8. /\ es \in Seq(Entry) /\ Len(es) = Len(lg) - next /\ \A k \in 1..Len(es) : es[k] = lg[next + k]
        /\ PieceLinks(next, prev, es) \subseteq LogLinks(lg)
    BY <1>3, <1>4, SentLinks
  <1>9. q \in AppendRequests
    BY <1>2, <1>3, <1>7, <1>8, AppendRequestType DEF AppendRequests
  <1>10. /\ q.kind = "AppendEntries" /\ q.phase = "request"
         /\ q.from = s /\ q.to = r.to /\ q.term = r.term
         /\ q.prevLogIndex = next - 1 /\ q.prevLogTerm = prev /\ q.entries = es
         /\ q.leaderCommit = commitIndex[s]
    BY DEF AppendRequest
  <1>11. next - 1 + 1 = next /\ (next = 0 => prev = -1) /\ (next # 0 => prev = lg[next].term)
    BY <1>3
  <1> HIDE DEF next, es, prev, q, lg
  <1>12. q.prevLogIndex = -1 => q.prevLogTerm = -1
    BY <1>3, <1>10, <1>11
  <1>13. PieceOf(q, lg) /\ q.prevLogIndex + 1 + Len(q.entries) = Len(lg)
    <2>1. PrevMatches(q, lg)
      BY <1>3, <1>4, <1>10, <1>11 DEF PrevMatches, LastLogIndex
    <2>2. q.prevLogIndex + 1 = next /\ next + Len(es) = Len(lg)
      BY <1>3, <1>8, <1>10, <1>11
    <2> QED BY <1>3, <1>8, <1>10, <2>1, <2>2 DEF PieceOf
  <1>14. RequestLinks(q) \subseteq LogLinks(lg)
    BY <1>8, <1>10, <1>11 DEF RequestLinks
  <1> QED BY <1>6, <1>9, <1>10, <1>12, <1>13, <1>14 DEF lg

LEMMA SendStep ==
    ASSUME TypeInv, TypeInv', LogInv, RoundsAreLeaders,
           NEW r \in Threads("spawned", "AppendEntries"), SendAppendEntries(r)
    PROVE  LogInv'
  <1>1. /\ r \in AppendThreads /\ r.from \in Server
        /\ UNCHANGED <<currentTerm, log, role, nextIndex, matchIndex, voted, elections>>
    BY LogTypes DEF Threads, AppendThreads, SendAppendEntries, persistentVars, leaderVars, historyVars
  <1>2. PICK q \in AppendRequests :
              /\ rpcs' = (rpcs \ {r}) \cup {q}
              /\ q.kind = "AppendEntries" /\ q.phase = "request"
              /\ q.from = r.from /\ q.to = r.to /\ q.term = r.term
              /\ q.prevLogIndex = -1 => q.prevLogTerm = -1
              /\ PieceOf(q, log[r.from])
              /\ RequestLinks(q) \subseteq LogLinks(log[r.from])
    BY SentPiece DEF LogInv
  <1>3. RolesKept /\ PeersKept /\ \A s \in Server : Grows(log[s], log'[s])
    <2>1. \A s \in Server : currentTerm[s] \in Nat /\ Len(log[s]) \in Nat
      BY LogTypes
    <2> QED BY <1>1, <2>1 DEF RolesKept, PeersKept, Grows
  <1>4. /\ AppendThreads' \subseteq AppendThreads \cup {q} /\ Requests' \subseteq Requests \cup {q}
        /\ Replies' \subseteq Replies
    BY <1>2 DEF AppendThreads, Requests, Replies
  <1>5. Links' \subseteq Links
    <2>1. ASSUME NEW x \in Links' PROVE x \in Links
      <3>1. \/ \E p \in Server : x \in LogLinks(log[p])
            \/ \E f \in elections : x \in LogLinks(f.log)
            \/ x \in LogLinks(log[r.from])
            \/ \E p \in Requests : x \in RequestLinks(p)
        BY <1>1, <1>2, <1>4 DEF Links
      <3> QED BY <1>1, <3>1, LinkSources
    <2> QED BY <2>1
  <1>6. ElectionsWon' /\ StandersAboveBoot'
    BY <1>1, <1>3, StillWon DEF LogInv
  <1>7. LeaderExtends'
    BY <1>1, <1>3, StillExtends DEF LogInv
  <1>8. LinksMade' /\ LinksUnique' /\ LeaderOwnsTerm'
    BY <1>1, <1>3, <1>5, NoNewLinks DEF LogInv
  <1>9. NextInBounds'
    BY <1>3, StillInBounds DEF LogInv
  <1>10. AcksSound'
    BY <1>3, <1>4, StillAcked DEF LogInv
  <1>11. AppendsOfLeaders'
    <2>1. \A p \in AppendThreads' : \E e \in elections' : ElectedIn(p.from, p.term, e)
      BY <1>1, <1>2, <1>4 DEF LogInv, AppendsOfLeaders
    <2>2. \A p \in Requests' : /\ p.prevLogIndex = -1 => p.prevLogTerm = -1
                               /\ Leads(p.from, p.term)' => PieceOf(p, log'[p.from])
      <3>1. \A p \in Requests : /\ p.prevLogIndex = -1 => p.prevLogTerm = -1
                                /\ Leads(p.from, p.term) => PieceOf(p, log[p.from])
        BY DEF LogInv, AppendsOfLeaders
      <3>2. \A p \in Requests : Leads(p.from, p.term)' => PieceOf(p, log'[p.from])
        BY <1>1, <3>1 DEF Leads
      <3>3. PieceOf(q, log'[q.from])
        BY <1>1, <1>2
      <3> QED BY <1>2, <1>4, <3>1, <3>2, <3>3
    <2>3. \A p \in Replies' : Leads(p.from, p.term)' => p.nextIndex + p.count <= Len(log'[p.from])
      BY <1>1, <1>4 DEF LogInv, AppendsOfLeaders, Leads
    <2> QED BY <2>1, <2>2, <2>3 DEF AppendsOfLeaders, PieceOf
  <1> QED BY <1>6, <1>7, <1>8, <1>9, <1>10, <1>11 DEF LogInv

-----------------------------------------------------------------------------
\* A round, or a crash in it, extends the log of a leader by entries of its term.
LeaderRound(s) ==
    /\ role[s] = "Leader"
    /\ RolesKept /\ PeersKept /\ elections' = elections
    /\ Requests' \subseteq Requests /\ Replies' \subseteq Replies
    /\ \A r \in AppendThreads' : r \in AppendThreads \/ (r.from = s /\ r.term = currentTerm[s])
    /\ \E es \in Seq(Entry) : /\ \A k \in 1..Len(es) : es[k].term = currentTerm[s]
                              /\ log' = [log EXCEPT ![s] = @ \o es]

LEMMA RoundExtends ==
    ASSUME TypeInv, RoundsAreLeaders, NEW s \in Server, RunLeaderOneIter(s) \/ CrashInRound(s)
    PROVE  LeaderRound(s)
  <1>1. role[s] = "Leader" /\ elections' = elections
    BY DEF RoundsAreLeaders, RunLeaderOneIter, CrashInRound, Restart, historyVars
  <1>2. RolesKept
    BY QuietReplication, QuietFailure, QuietKeepsRoles
  <1>3. PeersKept
    <2>1. CASE RunLeaderOneIter(s)
      BY <2>1 DEF RunLeaderOneIter, PeersKept, leaderVars
    <2>2. CASE Restart(s)
      BY <2>2 DEF Restart, PeersKept, TypeInv, TypeOK
    <2> QED BY <2>1, <2>2 DEF CrashInRound
  <1>4. /\ Requests' \subseteq Requests /\ Replies' \subseteq Replies
        /\ \A r \in AppendThreads' : r \in AppendThreads \/ (r.from = s /\ r.term = currentTerm[s])
    <2>1. CASE RunLeaderOneIter(s)
      <3>1. \A p \in Peers(s) : LET r == Spawned("AppendEntries", s, p, currentTerm[s])
                                IN  r.phase = "spawned" /\ r.from = s /\ r.term = currentTerm[s]
        BY DEF Spawned
      <3> QED BY <2>1, <3>1 DEF RunLeaderOneIter, AppendThreads, Requests, Replies
    <2>2. CASE CrashInRound(s)
      BY <2>2 DEF CrashInRound, AppendThreads, Requests, Replies
    <2> QED BY <2>1, <2>2
  <1>5. PICK n \in 0..Len(raftIn[s]) : log' = [log EXCEPT ![s] = @ \o Appended(s, n)]
    <2>1. Len(raftIn[s]) \in 0..Len(raftIn[s])
      BY DEF TypeInv, TypeOK
    <2> QED BY <2>1 DEF RunLeaderOneIter, CrashInRound
  <1>6. Appended(s, n) \in Seq(Entry)
    BY AppendedType
  <1>7. \A k \in 1..Len(Appended(s, n)) : Appended(s, n)[k].term = currentTerm[s]
    <2>1. raftIn[s] \in Seq(Op)
      BY DEF TypeInv, TypeOK
    <2>2. n \in Nat
      BY <2>1
    <2>3. Len(Appended(s, n)) = n
      BY <2>2 DEF Appended
    <2> QED BY <2>2, <2>3 DEF Appended
  <1> QED BY <1>1, <1>2, <1>3, <1>4, <1>5, <1>6, <1>7 DEF LeaderRound

\* The links that the round makes.
LEMMA RoundLinks ==
    ASSUME TypeInv, LogInv, NEW s \in Server, role[s] = "Leader", NEW es \in Seq(Entry),
           \A k \in 1..Len(es) : es[k].term = currentTerm[s], NEW x \in LogLinks(log[s] \o es)
    PROVE  \/ x \in LogLinks(log[s])
           \/ /\ x.entry.term = currentTerm[s] /\ x.index > Len(log[s])
              /\ \E e \in elections : MadeIn(x, e)
  <1> DEFINE lg == log[s]
  <1>1. lg \in Seq(Entry) /\ Len(lg) \in Nat
    BY LogTypes
  <1>2. PICK e \in elections : ElectedIn(s, currentTerm[s], e) /\ ExtendedIn(e, lg)
    BY DEF LogInv, LeaderExtends
  <1>3. e.log \in Seq(Entry) /\ Len(e.log) \in Nat /\ e.term = currentTerm[s]
    BY <1>2, LogTypes DEF ElectedIn
  <1>4. /\ Len(e.log) <= Len(lg) /\ \A i \in 1..Len(e.log) : lg[i] = e.log[i]
        /\ \A i \in (Len(e.log) + 1)..Len(lg) : lg[i].term = e.term
    BY <1>2 DEF ExtendedIn
  <1> HIDE DEF lg
  <1>5. CASE x \in LogLinks(lg)
    BY <1>5 DEF lg
  <1>6. CASE \E k \in 1..Len(es) :
                 /\ x.index = Len(lg) + k /\ x.entry = es[k]
                 /\ x.prev = IF k = 1 THEN LastLogTerm(lg) ELSE es[k - 1].term
    <2>1. PICK k \in 1..Len(es) :
                 /\ x.index = Len(lg) + k /\ x.entry = es[k]
                 /\ x.prev = IF k = 1 THEN LastLogTerm(lg) ELSE es[k - 1].term
      BY <1>6
    <2>2. x.entry.term = currentTerm[s] /\ x.index > Len(lg) /\ x.entry.term = e.term
      BY <1>1, <1>3, <2>1
    <2>3. k # 1 => k - 1 \in 1..Len(es)
      OBVIOUS
    <2>4. CASE k # 1
      BY <1>1, <1>2, <1>3, <1>4, <2>1, <2>2, <2>3, <2>4 DEF MadeIn, lg
    <2>5. CASE k = 1 /\ Len(lg) = Len(e.log)
      <3>1. LastLogTerm(lg) = LastLogTerm(e.log)
        <4>1. (lg = <<>>) = (Len(lg) = 0) /\ (e.log = <<>>) = (Len(e.log) = 0)
          BY <1>1, <1>3
        <4>2. Len(lg) # 0 => lg[Len(lg)] = e.log[Len(e.log)]
          BY <1>1, <1>4, <2>5
        <4> QED BY <2>5, <4>1, <4>2 DEF LastLogTerm
      <3>2. x.index = Len(e.log) + 1 /\ x.prev = LastLogTerm(e.log)
        BY <2>1, <2>5, <3>1
      <3> QED BY <1>2, <2>2, <3>2 DEF MadeIn, lg
    <2>6. CASE k = 1 /\ Len(lg) > Len(e.log)
      <3>1. lg # <<>> /\ lg[Len(lg)].term = e.term
        BY <1>1, <1>3, <1>4, <2>6
      <3>2. x.index > Len(e.log) + 1 /\ x.prev = e.term
        BY <1>1, <1>3, <2>1, <2>6, <3>1 DEF LastLogTerm
      <3> QED BY <1>2, <2>2, <3>2 DEF MadeIn, lg
    <2> QED BY <1>1, <1>3, <1>4, <2>4, <2>5, <2>6
  <1> QED BY <1>1, <1>5, <1>6, ExtendedLinks DEF lg

LEMMA RoundStep ==
    ASSUME TypeInv, TypeInv', ElectionInv, LogInv, NEW s \in Server, LeaderRound(s)
    PROVE  LogInv'
  <1>1. /\ role[s] = "Leader" /\ RolesKept /\ PeersKept /\ elections' = elections
        /\ Requests' \subseteq Requests /\ Replies' \subseteq Replies
        /\ \A r \in AppendThreads' : r \in AppendThreads \/ (r.from = s /\ r.term = currentTerm[s])
    BY DEF LeaderRound
  <1>2. PICK es \in Seq(Entry) : /\ \A k \in 1..Len(es) : es[k].term = currentTerm[s]
                                 /\ log' = [log EXCEPT ![s] = @ \o es]
    BY DEF LeaderRound
  <1> DEFINE lg  == log[s]
             new == log[s] \o es
  <1>3. lg \in Seq(Entry) /\ Len(lg) \in Nat
    BY LogTypes
  <1>4. /\ new \in Seq(Entry) /\ Len(new) = Len(lg) + Len(es) /\ Len(es) \in Nat
        /\ \A i \in 1..Len(lg) : new[i] = lg[i]
        /\ \A k \in 1..Len(es) : new[Len(lg) + k] = es[k]
    BY <1>3, ConcatParts
  <1>5. log'[s] = new /\ \A p \in Server \ {s} : log'[p] = log[p]
    BY <1>2, LogTypes
  <1>6. LogLinks(lg) \subseteq LogLinks(new)
    <2>1. Extends(new, lg)
      BY <1>3, ConcatExtends
    <2>2. lg = SubSeq(new, 1, Len(lg)) /\ Len(lg) \in 0..Len(new)
      BY <1>3, <1>4, <2>1 DEF Extends
    <2> QED BY <1>4, <2>2, PrefixLinks
  <1>7. \A x \in LogLinks(new) :
           \/ x \in LogLinks(lg)
           \/ /\ x.entry.term = currentTerm[s] /\ x.index > Len(lg)
              /\ \E e \in elections : MadeIn(x, e)
    BY <1>1, <1>2, RoundLinks
  <1>8. \A x \in LogLinks(lg) : x.index \in 1..Len(lg)
    BY <1>3, LogLinkIndex
  <1>9. \A x, y \in LogLinks(new) : x.index = y.index => x = y
    BY <1>4, LogLinkIndex
  <1> HIDE DEF lg, new
  <1>10. ASSUME NEW x \in Links' PROVE x \in Links \/ x \in LogLinks(new)
    <2>1. \/ \E p \in Server : x \in LogLinks(log'[p])
          \/ \E f \in elections : x \in LogLinks(f.log)
          \/ \E r \in Requests : x \in RequestLinks(r)
      BY <1>1 DEF Links
    <2> QED BY <1>5, <2>1, LinkSources
  <1>11. \A p \in Server : Grows(log[p], log'[p])
    BY <1>3, <1>4, <1>5 DEF Grows, lg
  <1>12. LogLinks(lg) \subseteq Links
    BY LinkSources DEF lg
  <1>13. ElectionsWon' /\ StandersAboveBoot'
    BY <1>1, StillWon DEF LogInv
  <1>14. LinksMade'
    BY <1>1, <1>7, <1>10, <1>12 DEF LogInv, LinksMade
  <1>15. \A x \in Links : x.entry.term = currentTerm[s] => x \in LogLinks(lg)
    BY <1>1 DEF LogInv, LeaderOwnsTerm, lg
  <1>16. LinksUnique'
    <2> SUFFICES ASSUME NEW x \in Links', NEW y \in Links',
                        x.index = y.index, x.entry.term = y.entry.term
                 PROVE  x = y
      BY DEF LinksUnique, Unique
    <2>1. CASE x \in LogLinks(new) /\ y \in LogLinks(new)
      BY <1>9, <2>1
    <2>2. CASE x \in Links /\ y \in Links
      BY <2>2 DEF LogInv, LinksUnique, Unique
    <2>3. \A u \in LogLinks(new), v \in Links :
             u.index = v.index /\ u.entry.term = v.entry.term => u \in Links
      <3> SUFFICES ASSUME NEW u \in LogLinks(new), NEW v \in Links,
                          u.index = v.index, u.entry.term = v.entry.term
                   PROVE  u \in Links
        OBVIOUS
      <3>1. CASE u \in LogLinks(lg)
        BY <1>12, <3>1
      <3>2. CASE u.entry.term = currentTerm[s] /\ u.index > Len(lg)
        <4>1. v \in LogLinks(lg)
          BY <1>15, <3>2
        <4> QED BY <1>3, <1>8, <3>2, <4>1
      <3> QED BY <1>7, <3>1, <3>2
    <2> QED BY <1>10, <2>1, <2>2, <2>3
  <1>17. LeaderOwnsTerm'
    <2> SUFFICES ASSUME NEW p \in Server, role'[p] = "Leader",
                        NEW x \in Links', x.entry.term = currentTerm'[p]
                 PROVE  x \in LogLinks(log'[p])
      BY DEF LeaderOwnsTerm
    <2>1. role[p] = "Leader" /\ currentTerm'[p] = currentTerm[p]
      BY <1>1 DEF RolesKept
    <2>2. CASE x \in Links
      <3>1. x \in LogLinks(log[p])
        BY <2>1, <2>2 DEF LogInv, LeaderOwnsTerm
      <3> QED BY <1>5, <1>6, <3>1 DEF lg
    <2>3. CASE x \notin Links
      <3>1. x \in LogLinks(new) /\ x.entry.term = currentTerm[s]
        BY <1>7, <1>10, <1>12, <2>3
      <3>2. p = s
        BY <1>1, <2>1, <3>1, OneLeader DEF ElectionSafety
      <3> QED BY <1>5, <3>1, <3>2
    <2> QED BY <2>2, <2>3
  <1>18. LeaderExtends'
    <2> SUFFICES ASSUME NEW p \in Server, role'[p] = "Leader"
                 PROVE  \E e \in elections : ElectedIn(p, currentTerm[p], e) /\ ExtendedIn(e, log'[p])
      BY <1>1 DEF LeaderExtends, RolesKept, ElectedIn, ExtendedIn
    <2>1. PICK e \in elections : ElectedIn(p, currentTerm[p], e) /\ ExtendedIn(e, log[p])
      BY <1>1 DEF LogInv, LeaderExtends, RolesKept
    <2>2. CASE p # s
      BY <1>5, <2>1, <2>2
    <2>3. CASE p = s
      <3>1. e.term = currentTerm[s] /\ Len(e.log) \in Nat
        BY <2>1, <2>3, LogTypes DEF ElectedIn
      <3>2. /\ Len(e.log) <= Len(lg) /\ \A i \in 1..Len(e.log) : lg[i] = e.log[i]
            /\ \A i \in (Len(e.log) + 1)..Len(lg) : lg[i].term = e.term
        BY <2>1, <2>3 DEF ExtendedIn, lg
      <3>3. Len(e.log) <= Len(new) /\ \A i \in 1..Len(e.log) : new[i] = e.log[i]
        BY <1>3, <1>4, <3>1, <3>2
      <3>4. ASSUME NEW i \in (Len(e.log) + 1)..Len(new) PROVE new[i].term = e.term
        <4>1. CASE i <= Len(lg)
          BY <1>3, <1>4, <3>1, <3>2, <4>1
        <4>2. CASE i > Len(lg)
          <5>1. i - Len(lg) \in 1..Len(es) /\ i = Len(lg) + (i - Len(lg))
            BY <1>3, <1>4, <3>1, <4>2
          <5> QED BY <1>2, <1>4, <3>1, <5>1
        <4> QED BY <1>3, <3>1, <4>1, <4>2
      <3>5. ExtendedIn(e, new)
        BY <3>3, <3>4 DEF ExtendedIn
      <3> QED BY <1>5, <2>1, <2>3, <3>5
    <2> QED BY <2>2, <2>3
  <1>19. NextInBounds'
    BY <1>1, <1>11, StillInBounds DEF LogInv
  <1>20. AcksSound'
    BY <1>1, <1>11, StillAcked DEF LogInv
  <1>21. AppendsOfLeaders'
    <2>1. \E e \in elections : ElectedIn(s, currentTerm[s], e)
      BY <1>1 DEF LogInv, LeaderExtends
    <2>2. \A r \in AppendThreads' : \E e \in elections' : ElectedIn(r.from, r.term, e)
      BY <1>1, <1>11, <2>1, StillOfLeader DEF LogInv, AppendsOfLeaders
    <2>3. ASSUME NEW r \in Requests'
          PROVE  /\ r.prevLogIndex = -1 => r.prevLogTerm = -1
                 /\ Leads(r.from, r.term)' => PieceOf(r, log'[r.from])
      <3>1. r \in AppendThreads /\ r \in Requests
        BY <1>1 DEF Requests
      <3> QED BY <1>1, <1>11, <3>1, StillOfLeader DEF LogInv
    <2>4. ASSUME NEW r \in Replies', Leads(r.from, r.term)'
          PROVE  r.nextIndex + r.count <= Len(log'[r.from])
      <3>1. r \in AppendThreads /\ r \in Replies
        BY <1>1 DEF Replies
      <3> QED BY <1>1, <1>11, <2>4, <3>1, StillOfLeader DEF LogInv
    <2> QED BY <2>2, <2>3, <2>4 DEF AppendsOfLeaders, Leads, PieceOf
  <1> QED BY <1>13, <1>14, <1>16, <1>17, <1>18, <1>19, <1>20, <1>21 DEF LogInv

-----------------------------------------------------------------------------
\* AppendEntries with a piece of the leader's log f.  Afterwards the log agrees
\* with the leader's up to the end of the piece ...
LEMMA MergeAgrees ==
    ASSUME NEW K, Unique(K), NEW lg \in Seq(Entry), NEW f \in Seq(Entry),
           LogLinks(lg) \subseteq K, LogLinks(f) \subseteq K,
           NEW r \in AppendRequests, PrevMatches(r, lg), PieceOf(r, f)
    PROVE  LET m == Merge(lg, r.prevLogIndex, r.entries)
               a == r.prevLogIndex + 1 + Len(r.entries)
           IN  a \in Nat /\ a <= Len(m) /\ \A i \in 1..a : m[i] = f[i]
  <1> DEFINE prev == r.prevLogIndex
             es   == r.entries
             n    == Agreeing(lg, prev, es)
             m    == Merge(lg, prev, es)
             w    == prev + 1
  <1>1. prev \in Index /\ es \in Seq(Entry) /\ Len(es) \in Nat /\ Len(lg) \in Nat /\ Len(f) \in Nat
    BY DEF AppendRequests
  <1>2. prev < Len(lg) /\ w \in Nat
    BY <1>1 DEF PrevMatches, LastLogIndex, Index
  <1>3. /\ n \in 0..Len(es)
        /\ \A k \in 1..n : prev + 1 + k <= Len(lg) /\ lg[prev + 1 + k].term = es[k].term
    BY <1>1, AgreeingExact
  <1>4. /\ prev + 1 + n <= Len(lg) /\ m \in Seq(Entry)
        /\ \/ n = Len(es) /\ m = lg
           \/ /\ n < Len(es) /\ Len(m) = prev + 1 + Len(es)
              /\ \A i \in 1..(prev + 1 + n) : m[i] = lg[i]
              /\ \A k \in (n + 1)..Len(es) : m[prev + 1 + k] = es[k]
    BY <1>1, <1>2, MergeShape
  <1>5. /\ w + Len(es) <= Len(f) /\ \A k \in 1..Len(es) : es[k] = f[w + k]
        /\ w # 0 => w \in 1..Len(lg) /\ lg[w].term = f[w].term
    <2>1. w + Len(es) <= Len(f) /\ \A k \in 1..Len(es) : es[k] = f[w + k]
      BY DEF PieceOf
    <2>2. w # 0 => prev # -1
      BY <1>1 DEF Index
    <2>3. w # 0 => r.prevLogTerm = lg[w].term /\ r.prevLogTerm = f[w].term
      BY <2>2 DEF PieceOf, PrevMatches
    <2>4. w # 0 => w \in 1..Len(lg)
      <3> HIDE DEF prev
      <3>1. prev \in Int
        BY <1>1 DEF Index
      <3> QED BY <1>1, <1>2, <3>1
    <2> HIDE DEF w
    <2> QED BY <2>1, <2>3, <2>4
  <1> HIDE DEF n, m, w, prev, es
  <1>6. \A i \in 1..(w + n) : lg[i] = f[i]
    <2>1. CASE w + n = 0
      BY <1>2, <1>3, <2>1
    <2>2. CASE w + n # 0
      <3>1. w + n \in 1..Len(lg) /\ w + n <= Len(f)
        BY <1>1, <1>2, <1>3, <1>4, <1>5, <2>2 DEF w
      <3>2. lg[w + n].term = f[w + n].term
        <4>1. CASE n = 0
          BY <1>2, <1>5, <2>2, <4>1
        <4>2. CASE n # 0
          <5>1. n \in 1..n /\ n \in 1..Len(es)
            BY <1>1, <1>3, <4>2
          <5> QED BY <1>3, <1>5, <5>1 DEF w
        <4> QED BY <4>1, <4>2
      <3> QED BY <3>1, <3>2, MatchingLogs
    <2> QED BY <2>1, <2>2
  <1>7. w + Len(es) \in Nat /\ w + Len(es) <= Len(m) /\ \A i \in 1..(w + Len(es)) : m[i] = f[i]
    <2>1. CASE n = Len(es) /\ m = lg
      BY <1>1, <1>2, <1>3, <1>4, <1>6, <2>1 DEF w
    <2>2. CASE /\ n < Len(es) /\ Len(m) = prev + 1 + Len(es)
               /\ \A i \in 1..(prev + 1 + n) : m[i] = lg[i]
               /\ \A k \in (n + 1)..Len(es) : m[prev + 1 + k] = es[k]
      <3>1. ASSUME NEW i \in 1..(w + Len(es)) PROVE m[i] = f[i]
        <4>1. CASE i <= w + n
          BY <1>2, <1>3, <1>6, <2>2, <4>1 DEF w
        <4>2. CASE i > w + n
          <5>1. i - w \in (n + 1)..Len(es) /\ i - w \in 1..Len(es) /\ w + (i - w) = i
            BY <1>1, <1>2, <1>3, <4>2
          <5> QED BY <1>5, <2>2, <5>1 DEF w
        <4> QED BY <1>2, <1>3, <4>1, <4>2
      <3> QED BY <1>1, <1>2, <2>2, <3>1 DEF w
    <2> QED BY <1>4, <2>1, <2>2
  <1> QED BY <1>7 DEF w, prev, es, m

\* ... and what it had in common with the leader's log before is still there,
\* even if a crash cuts the write short.
LEMMA MergeKeeps ==
    ASSUME NEW lg \in Seq(Entry), NEW f \in Seq(Entry), NEW r \in AppendRequests,
           PrevMatches(r, lg), PieceOf(r, f),
           NEW k \in Nat, k <= Len(lg), k <= Len(f), \A i \in 1..k : lg[i] = f[i],
           NEW n \in (r.prevLogIndex + 1 + Agreeing(lg, r.prevLogIndex, r.entries))
                       ..Len(Merge(lg, r.prevLogIndex, r.entries)),
           \/ n = Len(Merge(lg, r.prevLogIndex, r.entries))
           \/ Merge(lg, r.prevLogIndex, r.entries) # lg
    PROVE  k <= n /\ \A i \in 1..k : Merge(lg, r.prevLogIndex, r.entries)[i] = f[i]
  <1> DEFINE prev == r.prevLogIndex
             es   == r.entries
             a    == Agreeing(lg, prev, es)
             m    == Merge(lg, prev, es)
             w    == prev + 1
  <1>1. prev \in Index /\ es \in Seq(Entry) /\ Len(es) \in Nat /\ Len(lg) \in Nat /\ Len(f) \in Nat
    BY DEF AppendRequests
  <1>2. prev < Len(lg) /\ w \in Nat
    BY <1>1 DEF PrevMatches, LastLogIndex, Index
  <1>3. /\ a \in 0..Len(es)
        /\ a < Len(es) => ~(prev + a + 2 <= Len(lg) /\ lg[prev + a + 2].term = es[a + 1].term)
    BY <1>1, AgreeingExact
  <1>4. /\ prev + 1 + a <= Len(lg) /\ m \in Seq(Entry)
        /\ \/ a = Len(es) /\ m = lg
           \/ /\ a < Len(es)
              /\ \A i \in 1..(prev + 1 + a) : m[i] = lg[i]
    BY <1>1, <1>2, MergeShape
  <1>5. n \in (w + a)..Len(m) /\ (n = Len(m) \/ m # lg)
    OBVIOUS
  <1>6. w + Len(es) <= Len(f) /\ \A j \in 1..Len(es) : es[j] = f[w + j]
    BY DEF PieceOf
  <1> HIDE DEF a, m, prev, es
  <1>7. prev + a + 2 = w + (a + 1) /\ prev + 1 + a = w + a /\ w + a \in Nat
    <2>1. prev \in Int /\ a \in Nat
      BY <1>1, <1>3 DEF Index
    <2>2. w + a \in Nat
      BY <1>2, <2>1
    <2> QED BY <2>1, <2>2
  <1> HIDE DEF w
  <1>8. CASE m = lg
    BY <1>1, <1>5, <1>8 DEF m, prev, es
  <1>9. CASE m # lg
    <2>1. a < Len(es) /\ \A i \in 1..(w + a) : m[i] = lg[i]
      BY <1>4, <1>7, <1>9
    <2>2. k <= w + a
      <3> SUFFICES ASSUME k > w + a PROVE FALSE
        BY <1>7
      <3>0. a \in Nat
        BY <1>1, <1>3
      <3>1. w + (a + 1) \in 1..k /\ a + 1 \in 1..Len(es) /\ w + (a + 1) <= Len(lg)
        <4>1. w + (a + 1) = (w + a) + 1
          BY <1>2, <3>0
        <4>2. w + (a + 1) \in 1..k
          BY <1>7, <4>1
        <4>3. a + 1 \in 1..Len(es)
          BY <1>1, <2>1, <3>0
        <4> QED BY <1>1, <4>2, <4>3
      <3>2. lg[w + (a + 1)] = f[w + (a + 1)] /\ es[a + 1] = f[w + (a + 1)]
        BY <1>6, <3>1
      <3> QED BY <1>3, <1>7, <2>1, <3>1, <3>2
    <2>3. \A i \in 1..k : i \in 1..(w + a)
      BY <1>7, <2>2
    <2>4. k <= n
      BY <1>4, <1>5, <1>7, <2>2
    <2>5. \A i \in 1..k : m[i] = f[i]
      BY <2>1, <2>3
    <2> QED BY <2>4, <2>5 DEF m, prev, es
  <1> QED BY <1>8, <1>9

\* The handler of AppendEntries, run to its end or cut short by a crash, and
\* refusing.
Overwrites(r) ==
    LET m    == Merge(log[r.to], r.prevLogIndex, r.entries)
        kept == r.prevLogIndex + 1 + Agreeing(log[r.to], r.prevLogIndex, r.entries)
    IN  /\ Accepted(r)
        /\ RolesKept /\ PeersKept /\ elections' = elections
        /\ role'[r.to] = "Follower" /\ currentTerm'[r.to] = r.term
        /\ \E n \in kept..Len(m) :
              /\ n = Len(m) \/ m # log[r.to]
              /\ log' = [log EXCEPT ![r.to] = SubSeq(m, 1, n)]
              /\ \A q \in AppendThreads' : \/ q \in AppendThreads
                                           \/ q = AppendReply(r, r.term, TRUE) /\ n = Len(m)
Refuses(r) ==
    /\ RolesKept /\ PeersKept /\ elections' = elections /\ log' = log
    /\ \A q \in AppendThreads' : q \in AppendThreads \/ q = AppendReply(r, currentTerm'[r.to], FALSE)

LEMMA AppendEntriesShape ==
    ASSUME TypeInv, NEW r \in Threads("request", "AppendEntries"),
           AppendEntries(r) \/ CrashInAppendEntries(r)
    PROVE  Overwrites(r) \/ Refuses(r)
  <1> DEFINE s    == r.to
             m    == Merge(log[s], r.prevLogIndex, r.entries)
             kept == r.prevLogIndex + 1 + Agreeing(log[s], r.prevLogIndex, r.entries)
  <1>1. r \in AppendRequests /\ s \in Server /\ r.term \in Nat
    <2>1. r \in AppendThreads /\ r \in Requests
      BY DEF Threads, AppendThreads, Requests
    <2> QED BY <2>1, LogTypes
  <1>2. RolesKept
    BY QuietAppendEntries, QuietCrashInAppendEntries, QuietKeepsRoles
  <1>3. elections' = elections
    BY DEF AppendEntries, CrashInAppendEntries, Restart, historyVars
  <1>4. /\ currentTerm \in [Server -> Nat] /\ log \in [Server -> Seq(Entry)]
        /\ role \in [Server -> {"Follower", "Candidate", "Leader"}]
        /\ DOMAIN nextIndex = Server /\ DOMAIN matchIndex = Server
    BY LogTypes
  <1>5. PeersKept
    <2>1. CASE AppendEntries(r)
      BY <2>1 DEF AppendEntries, PeersKept, leaderVars
    <2>2. CASE Restart(s)
      BY <1>1, <1>4, <2>2 DEF Restart, PeersKept
    <2> QED BY <2>1, <2>2 DEF CrashInAppendEntries
  <1>6. ASSUME Accepted(r)
        PROVE  /\ m \in Seq(Entry) /\ Len(m) \in Nat /\ kept \in Nat
               /\ Len(m) \in kept..Len(m) /\ SubSeq(m, 1, Len(m)) = m
               /\ r.term >= currentTerm[s]
    <2>1. /\ log[s] \in Seq(Entry) /\ r.prevLogIndex \in Index /\ r.entries \in Seq(Entry)
          /\ PrevMatches(r, log[s]) /\ r.term >= currentTerm[s]
      BY <1>1, <1>4, <1>6 DEF AppendRequests, Accepted
    <2>2. r.prevLogIndex < Len(log[s])
      BY <2>1 DEF PrevMatches, LastLogIndex, Index
    <2>3. m \in Seq(Entry)
      BY <2>1, <2>2, MergeType
    <2>4. /\ Agreeing(log[s], r.prevLogIndex, r.entries) \in 0..Len(r.entries) /\ kept <= Len(log[s])
      BY <2>1, <2>2, AgreeingRange
    <2>5. \/ m = log[s]
          \/ Len(m) = r.prevLogIndex + 1 + Len(r.entries)
      BY <2>1, <2>2, MergeShape
    <2>6. kept \in Nat /\ kept <= Len(m) /\ Len(m) \in Nat /\ Len(m) \in kept..Len(m)
      <3>1. Len(r.entries) \in Nat /\ Len(log[s]) \in Nat /\ Len(m) \in Nat
        BY <2>1, <2>3
      <3> HIDE DEF m
      <3>2. kept \in Nat
        BY <2>1, <2>4, <3>1 DEF Index
      <3>3. kept <= Len(m)
        BY <2>1, <2>4, <2>5, <3>1 DEF Index
      <3> QED BY <3>1, <3>2, <3>3
    <2> HIDE DEF m, kept
    <2>7. SubSeq(m, 1, Len(m)) = m
      BY <2>3
    <2> QED BY <2>1, <2>3, <2>6, <2>7
  <1> HIDE DEF m, kept
  <1>7. CASE AppendEntries(r) /\ Accepted(r)
    <2>1. currentTerm'[s] = r.term /\ role'[s] = "Follower"
      <3>1. CASE StepsDown(r)
        BY <1>1, <1>4, <1>7, <3>1 DEF AppendEntries, BecomeFollower
      <3>2. CASE ~StepsDown(r)
        BY <1>1, <1>4, <1>6, <1>7, <3>2 DEF AppendEntries, StepsDown, Newer
      <3> QED BY <3>1, <3>2
    <2>2. /\ log' = [log EXCEPT ![s] = m]
          /\ rpcs' = (rpcs \ {r}) \cup {AppendReply(r, currentTerm'[s], Accepted(r))}
      BY <1>7 DEF AppendEntries, m
    <2>3. rpcs' = (rpcs \ {r}) \cup {AppendReply(r, r.term, TRUE)}
      BY <1>7, <2>1, <2>2
    <2>4. /\ log' = [log EXCEPT ![s] = SubSeq(m, 1, Len(m))]
          /\ \A q \in AppendThreads' : q \in AppendThreads \/ q = AppendReply(r, r.term, TRUE)
      BY <1>6, <1>7, <2>2, <2>3 DEF AppendThreads
    <2> QED BY <1>2, <1>3, <1>5, <1>6, <1>7, <2>1, <2>4 DEF Overwrites, m, kept
  <1>8. CASE AppendEntries(r) /\ ~Accepted(r)
    <2>1. log' = log
      BY <1>1, <1>4, <1>8 DEF AppendEntries
    <2>2. rpcs' = (rpcs \ {r}) \cup {AppendReply(r, currentTerm'[s], Accepted(r))}
      BY <1>8 DEF AppendEntries
    <2>3. rpcs' = (rpcs \ {r}) \cup {AppendReply(r, currentTerm'[s], FALSE)}
      <3>1. Accepted(r) = FALSE
        BY <1>8 DEF Accepted
      <3> QED BY <2>2, <3>1
    <2>4. \A q \in AppendThreads' : q \in AppendThreads \/ q = AppendReply(r, currentTerm'[s], FALSE)
      BY <2>3 DEF AppendThreads
    <2> QED BY <1>2, <1>3, <1>5, <2>1, <2>4 DEF Refuses
  <1>9. CASE CrashInAppendEntries(r)
    <2>1. /\ Accepted(r) /\ m # log[s] /\ role'[s] = "Follower" /\ currentTerm'[s] = r.term
          /\ AppendThreads' \subseteq AppendThreads
      BY <1>1, <1>4, <1>9 DEF CrashInAppendEntries, Restart, AppendThreads, m
    <2>2. \/ log' = log
          \/ \E n \in kept..Len(m) : log' = [log EXCEPT ![s] = SubSeq(m, 1, n)]
      BY <1>9 DEF CrashInAppendEntries, m, kept
    <2>3. CASE log' = log
      BY <1>2, <1>3, <1>5, <2>1, <2>3 DEF Refuses
    <2>4. CASE \E n \in kept..Len(m) : log' = [log EXCEPT ![s] = SubSeq(m, 1, n)]
      BY <1>2, <1>3, <1>5, <2>1, <2>4 DEF Overwrites, m, kept
    <2> QED BY <2>2, <2>3, <2>4
  <1> QED BY <1>7, <1>8, <1>9

\* The threads after an AppendEntries: those of before, and the answer.
LEMMA AnsweredAppends ==
    ASSUME TypeInv, TypeInv', AppendsOfLeaders, RolesKept, elections' = elections,
           \A s \in Server : role'[s] = "Leader" => Grows(log[s], log'[s]),
           NEW r \in Requests, NEW t, NEW b,
           \A q \in AppendThreads' : q \in AppendThreads \/ q = AppendReply(r, t, b)
    PROVE  /\ AppendsOfLeaders'
           /\ Requests' \subseteq Requests
           /\ \A q \in Replies' : q \in Replies \/ q = AppendReply(r, t, b)
  <1> DEFINE a == AppendReply(r, t, b)
  <1>1. /\ a.from = r.from /\ a.to = r.to /\ a.term = r.term /\ a.phase = "reply"
        /\ a.nextIndex = r.prevLogIndex + 1 /\ a.count = Len(r.entries)
    BY DEF AppendReply
  <1> HIDE DEF a
  <1>2. \A q \in AppendThreads' : q \in AppendThreads \/ q = a
    BY DEF a
  <1>3. Requests' \subseteq Requests /\ \A q \in Replies' : q \in Replies \/ q = a
    BY <1>1, <1>2 DEF Requests, Replies
  <1>4. r \in AppendThreads /\ r.from \in Server
    BY LogTypes DEF Requests
  <1>5. \A q \in AppendThreads' : \E e \in elections' : ElectedIn(q.from, q.term, e)
    BY <1>1, <1>2, <1>4, StillOfLeader
  <1>6. ASSUME NEW q \in Requests'
        PROVE  /\ q.prevLogIndex = -1 => q.prevLogTerm = -1
               /\ Leads(q.from, q.term)' => PieceOf(q, log'[q.from])
    <2>1. q \in AppendThreads /\ q \in Requests
      BY <1>3 DEF Requests
    <2> QED BY <2>1, StillOfLeader
  <1>7. ASSUME NEW q \in Replies', Leads(q.from, q.term)'
        PROVE  q.nextIndex + q.count <= Len(log'[q.from])
    <2>1. CASE q \in Replies
      <3>1. q \in AppendThreads
        BY <2>1 DEF Replies
      <3> QED BY <1>7, <2>1, <3>1, StillOfLeader
    <2>2. CASE q = a
      <3>1. PieceOf(r, log'[r.from])
        BY <1>1, <1>4, <1>7, <2>2, StillOfLeader
      <3> QED BY <1>1, <2>2, <3>1 DEF PieceOf
    <2> QED BY <1>3, <2>1, <2>2
  <1> QED BY <1>3, <1>5, <1>6, <1>7 DEF AppendsOfLeaders, Leads, PieceOf, a

LEMMA RefuseStep ==
    ASSUME TypeInv, TypeInv', LogInv, NEW r \in Threads("request", "AppendEntries"), Refuses(r)
    PROVE  LogInv'
  <1>1. PICK t : t = currentTerm'[r.to]
    OBVIOUS
  <1>2. /\ RolesKept /\ PeersKept /\ elections' = elections /\ log' = log
        /\ \A q \in AppendThreads' : q \in AppendThreads \/ q = AppendReply(r, t, FALSE)
    BY <1>1 DEF Refuses
  <1>3. r \in Requests
    BY DEF Threads, AppendThreads, Requests
  <1>4. \A s \in Server : Grows(log[s], log'[s])
    BY <1>2, LogTypes DEF Grows
  <1>5. /\ AppendsOfLeaders' /\ Requests' \subseteq Requests
        /\ \A q \in Replies' : q \in Replies \/ q = AppendReply(r, t, FALSE)
    BY <1>2, <1>3, <1>4, AnsweredAppends DEF LogInv
  <1>6. Links' \subseteq Links
    BY <1>2, <1>5 DEF Links
  <1>7. ElectionsWon' /\ StandersAboveBoot'
    BY <1>2, StillWon DEF LogInv
  <1>8. LeaderExtends'
    BY <1>2, StillExtends DEF LogInv
  <1>9. LinksMade' /\ LinksUnique' /\ LeaderOwnsTerm'
    BY <1>2, <1>6, NoNewLinks DEF LogInv
  <1>10. NextInBounds'
    BY <1>2, <1>4, StillInBounds DEF LogInv
  <1>11. AcksSound'
    <2>1. \A q \in Replies' : Success(q) => q \in Replies
      <3>1. ~Success(AppendReply(r, t, FALSE))
        BY DEF Success, AppendReply
      <3> QED BY <1>5, <3>1
    <2> QED BY <1>2, <1>4, <2>1, StillAcked DEF LogInv
  <1> QED BY <1>5, <1>7, <1>8, <1>9, <1>10, <1>11 DEF LogInv

LEMMA OverwriteStep ==
    ASSUME TypeInv, TypeInv', ElectionInv, LogInv,
           NEW r \in Threads("request", "AppendEntries"), Overwrites(r)
    PROVE  LogInv'
  <1> DEFINE s    == r.to
             lg   == log[s]
             m    == Merge(lg, r.prevLogIndex, r.entries)
             kept == r.prevLogIndex + 1 + Agreeing(lg, r.prevLogIndex, r.entries)
             a    == AppendReply(r, r.term, TRUE)
  <1>1. r \in Requests /\ r \in AppendThreads /\ r \in AppendRequests
    BY LogTypes DEF Threads, AppendThreads, Requests
  <1>2. /\ s \in Server /\ r.from \in Server /\ r.from # s /\ r.term \in Nat
        /\ lg \in Seq(Entry) /\ Len(lg) \in Nat
    BY <1>1, LogTypes
  <1>3. /\ r.term >= currentTerm[s] /\ PrevMatches(r, lg)
        /\ RolesKept /\ PeersKept /\ elections' = elections
        /\ role'[s] = "Follower" /\ currentTerm'[s] = r.term
    BY DEF Overwrites, Accepted
  <1>4. PICK n \in kept..Len(m) :
              /\ n = Len(m) \/ m # lg
              /\ log' = [log EXCEPT ![s] = SubSeq(m, 1, n)]
              /\ \A q \in AppendThreads' : q \in AppendThreads \/ (q = a /\ n = Len(m))
    BY DEF Overwrites
  <1>5. /\ r.prevLogIndex < Len(lg)
        /\ LogLinks(m) \subseteq LogLinks(lg) \cup RequestLinks(r)
    BY <1>1, <1>2, <1>3, MergedLinks DEF LogInv, AppendsOfLeaders
  <1>6. m \in Seq(Entry) /\ n \in 0..Len(m) /\ n \in Nat
    <2>1. r.prevLogIndex \in Index /\ r.entries \in Seq(Entry)
      BY <1>1 DEF AppendRequests
    <2>2. m \in Seq(Entry) /\ Agreeing(lg, r.prevLogIndex, r.entries) \in 0..Len(r.entries)
      BY <1>2, <1>5, <2>1, MergeType, AgreeingRange
    <2>3. kept \in Nat
      BY <2>1, <2>2 DEF Index
    <2> HIDE DEF m, kept
    <2> QED BY <2>2, <2>3
  <1>7. /\ \A p \in Server \ {s} : log'[p] = log[p]
        /\ log'[s] = SubSeq(m, 1, n)
    <2> HIDE DEF m
    <2> QED BY <1>2, <1>4, LogTypes
  <1>8. /\ Len(log'[s]) = n /\ \A i \in 1..n : log'[s][i] = m[i]
        /\ LogLinks(log'[s]) \subseteq Links
    <2>1. /\ Len(SubSeq(m, 1, n)) = n /\ \A i \in 1..n : SubSeq(m, 1, n)[i] = m[i]
          /\ LogLinks(SubSeq(m, 1, n)) \subseteq LogLinks(m)
      BY <1>6, PrefixLinks
    <2>2. LogLinks(lg) \cup RequestLinks(r) \subseteq Links
      BY <1>1, <1>2, LinkSources
    <2> HIDE DEF m, lg
    <2> QED BY <1>5, <1>7, <2>1, <2>2
  <1>9. \A p \in Server : role'[p] = "Leader" => p # s /\ log'[p] = log[p] /\ Grows(log[p], log'[p])
    BY <1>3, <1>7, LogTypes DEF Grows
  <1>10. /\ AppendsOfLeaders' /\ Requests' \subseteq Requests
         /\ \A q \in Replies' : q \in Replies \/ q = a
    <2>1. \A q \in AppendThreads' : q \in AppendThreads \/ q = AppendReply(r, r.term, TRUE)
      BY <1>4
    <2>2. \A p \in Server : role'[p] = "Leader" => Grows(log[p], log'[p])
      BY <1>9
    <2>3. AppendsOfLeaders /\ RolesKept /\ elections' = elections
      BY <1>3 DEF LogInv
    <2> QED BY <1>1, <2>1, <2>2, <2>3, AnsweredAppends
  <1>11. Links' \subseteq Links
    <2>1. ASSUME NEW x \in Links' PROVE x \in Links
      <3>1. \/ \E p \in Server : x \in LogLinks(log'[p])
            \/ \E f \in elections : x \in LogLinks(f.log)
            \/ \E q \in Requests : x \in RequestLinks(q)
        BY <1>3, <1>10 DEF Links
      <3>2. \A p \in Server : LogLinks(log'[p]) \subseteq Links
        BY <1>7, <1>8, LinkSources
      <3> QED BY <3>1, <3>2, LinkSources
    <2> QED BY <2>1
  <1>12. ElectionsWon' /\ StandersAboveBoot'
    BY <1>3, StillWon DEF LogInv
  <1>13. LeaderExtends'
    BY <1>3, <1>9, StillExtends DEF LogInv
  <1>14. LinksMade' /\ LinksUnique' /\ LeaderOwnsTerm'
    BY <1>3, <1>9, <1>11, NoNewLinks DEF LogInv
  <1>15. NextInBounds'
    BY <1>3, <1>9, StillInBounds DEF LogInv
  \* What a peer has of the log of a leader: only if the leader sent the request
  \* does it concern the receiver's log.
  <1>16. ASSUME NEW p \in Server, role'[p] = "Leader", r.term = currentTerm[p]
         PROVE  r.from = p /\ PieceOf(r, log[p])
    <2>1. role[p] = "Leader" /\ currentTerm'[p] = currentTerm[p]
      BY <1>3, <1>16 DEF RolesKept
    <2>2. r.from = p
      BY <1>1, <1>16, <2>1, LeaderSentAll
    <2>3. Leads(r.from, r.term)
      BY <1>16, <2>1, <2>2 DEF Leads
    <2> QED BY <1>1, <2>2, <2>3 DEF LogInv, AppendsOfLeaders
  <1>17. ASSUME NEW p \in Server, role'[p] = "Leader", NEW q \in Server,
                NEW k \in Nat, k <= Len(log[p]), HasFirst(q, p, k)
         PROVE  HasFirst(q, p, k)'
    <2>1. /\ role[p] = "Leader" /\ currentTerm'[p] = currentTerm[p] /\ p # s /\ log'[p] = log[p]
      BY <1>3, <1>9, <1>17 DEF RolesKept
    <2>2. CASE q # s
      <3>1. Grows(log[q], log'[q])
        BY <1>7, <2>2, LogTypes DEF Grows
      <3> QED BY <1>3, <1>9, <1>17, <3>1, StillHasFirst
    <2>3. CASE q = s
      <3>1. currentTerm[s] \in Nat /\ currentTerm[p] \in Nat /\ log[p] \in Seq(Entry)
        BY <1>2, LogTypes
      <3>2. currentTerm'[s] >= currentTerm'[p]
        BY <1>2, <1>3, <1>17, <2>1, <2>3, <3>1 DEF HasFirst
      <3>3. ASSUME currentTerm'[s] = currentTerm'[p]
            PROVE  k <= Len(log'[s]) /\ \A i \in 1..k : log'[s][i] = log'[p][i]
        <4>1. r.term = currentTerm[p] /\ currentTerm[s] = currentTerm[p]
          BY <1>2, <1>3, <1>17, <2>1, <2>3, <3>1, <3>3 DEF HasFirst
        <4>2. PieceOf(r, log[p])
          BY <1>16, <1>17, <4>1
        <4>3. k <= Len(lg) /\ \A i \in 1..k : lg[i] = log[p][i]
          BY <1>17, <2>3, <4>1 DEF HasFirst
        <4>4. k <= n /\ \A i \in 1..k : m[i] = log[p][i]
          BY <1>1, <1>2, <1>3, <1>4, <1>17, <3>1, <4>2, <4>3, MergeKeeps
        <4> HIDE DEF m, lg
        <4>5. \A i \in 1..k : i \in 1..n
          BY <1>6, <4>4
        <4> QED BY <1>8, <2>1, <4>4, <4>5
      <3> QED BY <2>3, <3>2, <3>3 DEF HasFirst
    <2> QED BY <2>2, <2>3
  <1>18. ASSUME a \in Replies', Leads(r.from, r.term)'
         PROVE  HasFirst(a.to, a.from, a.nextIndex + a.count)'
    <2> DEFINE p == r.from
               k == r.prevLogIndex + 1 + Len(r.entries)
    <2>1. a.from = p /\ a.to = s /\ a.nextIndex = r.prevLogIndex + 1 /\ a.count = Len(r.entries)
      BY DEF AppendReply
    <2>2. role'[p] = "Leader" /\ currentTerm'[p] = r.term /\ log'[p] = log[p]
          /\ currentTerm[p] = r.term
      BY <1>2, <1>3, <1>9, <1>18 DEF Leads, RolesKept
    <2>3. PieceOf(r, log[p]) /\ log[p] \in Seq(Entry)
      BY <1>2, <1>16, <2>2, LogTypes
    <2>4. LogLinks(lg) \subseteq Links /\ LogLinks(log[p]) \subseteq Links /\ Unique(Links)
      BY <1>2, LinkSources DEF LogInv, LinksUnique
    <2>5. k \in Nat /\ k <= Len(m) /\ \A i \in 1..k : m[i] = log[p][i]
      BY <1>1, <1>2, <1>3, <2>3, <2>4, MergeAgrees
    <2>6. a \notin AppendThreads \/ n = Len(m) \/ HasFirst(s, p, k)
      <3>1. a \in AppendThreads => a \in Replies /\ Leads(a.from, a.term) /\ Success(a)
        <4>1. a.phase = "reply" /\ a.term = r.term /\ a.replyTerm = r.term /\ a.success
          BY DEF AppendReply
        <4>2. Leads(a.from, a.term)
          BY <1>3, <1>18, <2>1, <2>2, <4>1, <1>2 DEF Leads, RolesKept
        <4> HIDE DEF a
        <4> QED BY <4>1, <4>2 DEF Replies, Success
      <3> QED BY <2>1, <3>1 DEF LogInv, AcksSound
    <2>7. CASE n = Len(m)
      <3> HIDE DEF m, k, a, lg
      <3>1. k <= n /\ \A i \in 1..k : i \in 1..n
        BY <1>6, <2>5, <2>7
      <3>2. k <= Len(log'[s]) /\ \A i \in 1..k : log'[s][i] = log'[p][i]
        BY <1>8, <2>2, <2>5, <3>1
      <3>3. currentTerm'[s] >= currentTerm'[p]
        BY <1>2, <1>3, <2>2
      <3>4. HasFirst(s, p, k)'
        BY <3>2, <3>3 DEF HasFirst
      <3> QED BY <2>1, <3>4 DEF k
    <2>8. CASE HasFirst(s, p, k)
      <3>1. k <= Len(log[p]) /\ k \in Nat
        BY <2>3, <2>5 DEF PieceOf
      <3> HIDE DEF k
      <3>2. HasFirst(s, p, k)'
        BY <1>2, <1>17, <2>2, <2>8, <3>1
      <3> QED BY <2>1, <3>2 DEF k
    <2> QED BY <1>4, <1>18, <2>6, <2>7, <2>8 DEF Replies
  <1>19. AcksSound'
    <2>1. ASSUME NEW p \in Server, role'[p] = "Leader", NEW q \in Peers(p), matchIndex'[p][q] >= 0
          PROVE  matchIndex'[p][q] < Len(log'[p]) /\ HasFirst(q, p, matchIndex[p][q] + 1)'
      <3>1. /\ role[p] = "Leader" /\ matchIndex'[p] = matchIndex[p] /\ q \in Server
            /\ log'[p] = log[p]
        BY <1>3, <1>9, <2>1 DEF RolesKept, PeersKept, Peers
      <3>2. matchIndex[p][q] < Len(log[p]) /\ HasFirst(q, p, matchIndex[p][q] + 1)
        BY <2>1, <3>1 DEF LogInv, AcksSound
      <3>3. matchIndex[p][q] \in Index /\ Len(log[p]) \in Nat
        BY LogTypes
      <3>4. PICK k \in Nat : k = matchIndex[p][q] + 1
        BY <2>1, <3>1, <3>3 DEF Index
      <3>5. k <= Len(log[p]) /\ HasFirst(q, p, k)
        BY <3>2, <3>3, <3>4 DEF Index
      <3>6. HasFirst(q, p, k)' /\ k = matchIndex'[p][q] + 1
        BY <1>17, <2>1, <3>1, <3>4, <3>5
      <3> QED BY <3>1, <3>2, <3>6
    <2>2. ASSUME NEW q \in Replies', Leads(q.from, q.term)', Success(q)
          PROVE  HasFirst(q.to, q.from, q.nextIndex + q.count)'
      <3>1. CASE q \in Replies
        <4> DEFINE k == q.nextIndex + q.count
        <4>1. q \in AppendThreads /\ q \in AppendReplies
          BY <3>1, LogTypes DEF Replies
        <4>2. q.from \in Server /\ q.to \in Server /\ k \in Nat
          BY <4>1, LogTypes DEF AppendReplies
        <4>3. role'[q.from] = "Leader" /\ Leads(q.from, q.term)
          BY <1>3, <2>2, <4>2 DEF Leads, RolesKept
        <4>4. HasFirst(q.to, q.from, k) /\ k <= Len(log[q.from])
          BY <2>2, <3>1, <4>3 DEF LogInv, AcksSound, AppendsOfLeaders
        <4> HIDE DEF k
        <4>5. HasFirst(q.to, q.from, k)'
          BY <1>17, <4>2, <4>3, <4>4
        <4> QED BY <4>5 DEF k
      <3>2. CASE q = a
        <4>1. a.from = r.from /\ a.term = r.term
          BY DEF AppendReply
        <4> QED BY <1>18, <2>2, <3>2, <4>1
      <3> QED BY <1>10, <3>1, <3>2
    <2> QED BY <2>1, <2>2 DEF AcksSound, Success
  <1> QED BY <1>10, <1>12, <1>13, <1>14, <1>15, <1>19 DEF LogInv

-----------------------------------------------------------------------------
\* Rounds and the threads they spawn belong to leaders.
LEMMA InitRounds == Init => RoundsAreLeaders
  BY DEF Init, RoundsAreLeaders, AppendThreads

LEMMA NextRounds ==
    ASSUME Scheduled, TypeInv, RoundsAreLeaders, [Next]_vars
    PROVE  RoundsAreLeaders'
  <1> DEFINE NoRound == /\ \A s \in Server : inRound'[s] => role'[s] = "Leader"
                        /\ \A r \in AppendThreads' : r.phase # "spawned"
  <1>1. /\ inRound \in [Server -> BOOLEAN] /\ role \in [Server -> {"Follower", "Candidate", "Leader"}]
        /\ currentTerm \in [Server -> Nat] /\ \A r \in rpcs : r.from \in Server /\ r.to \in Server
    BY LogTypes, ThreadKinds DEF TypeInv, TypeOK
  <1>2. ASSUME NEW s \in Server, RunLeaderOneIter(s) PROVE RoundsAreLeaders'
    <2>1. /\ UNCHANGED <<role, currentTerm>> /\ role[s] = "Leader"
          /\ inRound' = [inRound EXCEPT ![s] = FALSE]
          /\ rpcs' = rpcs \cup {Spawned("AppendEntries", s, p, currentTerm[s]) : p \in Peers(s)}
      BY <1>2 DEF RunLeaderOneIter, RoundsAreLeaders
    <2>2. \A p \in Peers(s) : LET r == Spawned("AppendEntries", s, p, currentTerm[s])
                              IN  r.from = s /\ r.term = currentTerm[s]
      BY DEF Spawned
    <2>3. \A r \in AppendThreads' : r.phase = "spawned" =>
             role[r.from] = "Leader" /\ r.term = currentTerm[r.from]
      BY <2>1, <2>2 DEF RoundsAreLeaders, AppendThreads
    <2> QED BY <1>1, <2>1, <2>3 DEF RoundsAreLeaders
  <1>3. ASSUME NEW s \in Server, CrashInRound(s) PROVE RoundsAreLeaders'
    <2>1. /\ role' = [role EXCEPT ![s] = "Follower"] /\ currentTerm' = currentTerm
          /\ inRound' = [inRound EXCEPT ![s] = FALSE]
          /\ rpcs' = {r \in rpcs : r.from # s}
      BY <1>3 DEF CrashInRound, Restart
    <2> QED BY <1>1, <2>1 DEF RoundsAreLeaders, AppendThreads
  <1>4. ASSUME NEW r \in rpcs, NEW q, q.phase = "request", rpcs' = (rpcs \ {r}) \cup {q},
               UNCHANGED <<role, currentTerm, inRound>>
        PROVE  RoundsAreLeaders'
    BY <1>4 DEF RoundsAreLeaders, AppendThreads
  <1>5. ASSUME NEW r \in Threads("spawned", "RequestVote"), SendRequestVote(r) PROVE RoundsAreLeaders'
    <2>1. VoteRequest(r, log[r.from]).phase = "request"
      BY DEF VoteRequest
    <2>2. PICK q : q = VoteRequest(r, log[r.from])
      OBVIOUS
    <2> QED BY <1>4, <1>5, <2>1, <2>2 DEF SendRequestVote, Threads, persistentVars, inputVars
  <1>6. ASSUME NEW r \in Threads("spawned", "AppendEntries"), SendAppendEntries(r)
        PROVE  RoundsAreLeaders'
    <2>1. PICK next, prevTerm, es, commit :
             rpcs' = (rpcs \ {r}) \cup {AppendRequest(r, next, prevTerm, es, commit)}
      BY <1>6 DEF SendAppendEntries
    <2>2. AppendRequest(r, next, prevTerm, es, commit).phase = "request"
      BY DEF AppendRequest
    <2> QED BY <1>4, <1>6, <2>1, <2>2 DEF SendAppendEntries, Threads, persistentVars, inputVars
  <1>7. CASE UNCHANGED vars
    BY <1>7 DEF vars, persistentVars, inputVars, RoundsAreLeaders, AppendThreads
  <1>8. ASSUME Settled, Next PROVE Continue \/ NoRound
    <2>1. /\ \A s \in Server : ~inRound[s]
          /\ \A r \in AppendThreads : r.phase # "spawned"
      BY <1>8 DEF Settled, Scheduled, AppendThreads
    <2>2. ASSUME inRound' = inRound, AppendThreads' \subseteq AppendThreads PROVE NoRound
      BY <2>1, <2>2
    <2>3. ASSUME NEW s \in Server, RaftImplLeader(s) PROVE NoRound
      <3>1. /\ inRound' = [inRound EXCEPT ![s] = TRUE] /\ role' = role /\ role[s] = "Leader"
            /\ rpcs' = rpcs
        BY <2>3 DEF RaftImplLeader
      <3> QED BY <1>1, <2>1, <3>1 DEF AppendThreads
    <2>4. ASSUME NEW s \in Server, StartElection(s) PROVE NoRound
      <3>1. \A p \in Peers(s) : Spawned("RequestVote", s, p, currentTerm[s] + 1).kind # "AppendEntries"
        BY DEF Spawned
      <3>2. AppendThreads' \subseteq AppendThreads /\ inRound' = inRound
        BY <2>4, <3>1 DEF StartElection, AppendThreads, inputVars
      <3> QED BY <2>2, <3>2
    <2>5. ASSUME NEW s \in Server, (\E op \in Op : Submit(s, op)) \/ RaftImplOther(s) PROVE NoRound
      <3>1. rpcs' = rpcs /\ inRound' = inRound
        BY <2>5 DEF Submit, RaftImplOther
      <3> QED BY <2>2, <3>1 DEF AppendThreads
    <2>6. ASSUME NEW s \in Server, Restart(s), AppendThreads' \subseteq AppendThreads
          PROVE  NoRound
      BY <1>1, <2>1, <2>6 DEF Restart
    <2>7. ASSUME NEW s \in Server, Crash(s) \/ CrashInPersist(s) PROVE NoRound
      <3>1. Restart(s) /\ rpcs' \subseteq rpcs
        BY <2>7 DEF Crash, CrashInPersist
      <3> QED BY <2>6, <3>1 DEF AppendThreads
    <2>8. ASSUME NEW r \in rpcs, RequestVote(r) PROVE NoRound
      <3>1. inRound' = inRound /\ AppendThreads' \subseteq AppendThreads
        BY <2>8 DEF RequestVote, VoteReply, AppendThreads, inputVars
      <3> QED BY <2>2, <3>1
    <2>9. ASSUME NEW r \in rpcs, RequestVoteReply(r) \/ AppendEntriesReply(r) \/ LoseRPC(r)
          PROVE  NoRound
      <3>1. inRound' = inRound /\ AppendThreads' \subseteq AppendThreads
        BY <2>9 DEF RequestVoteReply, AppendEntriesReply, LoseRPC, AppendThreads, inputVars
      <3> QED BY <2>2, <3>1
    <2>10. ASSUME NEW r \in rpcs, AppendEntries(r) PROVE NoRound
      <3>1. inRound' = inRound
        BY <2>10 DEF AppendEntries, inputVars
      <3>2. \A q \in AppendThreads' : q \in AppendThreads \/ q.phase = "reply"
        BY <2>10 DEF AppendEntries, AppendReply, AppendThreads
      <3> QED BY <2>1, <3>1, <3>2
    <2>11. ASSUME NEW r \in rpcs, CrashInAppendEntries(r) PROVE NoRound
      <3>1. Restart(r.to) /\ rpcs' \subseteq rpcs
        BY <2>11 DEF CrashInAppendEntries
      <3> QED BY <1>1, <2>6, <3>1 DEF AppendThreads
    <2> QED BY <1>8, <2>3, <2>4, <2>5, <2>7, <2>8, <2>9, <2>10, <2>11 DEF Next, Threads
  <1>9. NoRound => RoundsAreLeaders'
    BY DEF RoundsAreLeaders
  <1> QED BY <1>2, <1>3, <1>5, <1>6, <1>7, <1>8, <1>9 DEF Next, Continue

-----------------------------------------------------------------------------
LEMMA InitLogInv == ASSUME Bootstrapped PROVE Init => LogInv
  <1> SUFFICES ASSUME Init PROVE LogInv
    OBVIOUS
  <1>1. /\ elections = {} /\ AppendThreads = {} /\ log = InitLog /\ currentTerm = InitTerm
        /\ \A s \in Server : role[s] = "Follower"
    BY DEF Init, AppendThreads
  <1>2. Requests = {} /\ Replies = {}
    BY <1>1 DEF Requests, Replies
  <1>3. Links \subseteq BootLinks
    BY <1>1, <1>2 DEF Links, BootLinks
  <1>4. LinksMade /\ LinksUnique
    BY <1>3 DEF LinksMade, LinksUnique, Bootstrapped, Unique
  <1>5. StandersAboveBoot
    BY <1>1, BootstrapAssumption DEF StandersAboveBoot
  <1>6. ElectionsWon /\ LeaderExtends /\ LeaderOwnsTerm /\ AppendsOfLeaders /\ NextInBounds /\ AcksSound
    BY <1>1, <1>2 DEF ElectionsWon, LeaderExtends, LeaderOwnsTerm, AppendsOfLeaders, NextInBounds,
                      AcksSound
  <1> QED BY <1>4, <1>5, <1>6 DEF LogInv

LEMMA NextLogInv ==
    ASSUME Scheduled, TypeInv, TypeInv', ElectionInv, ElectionInv', RoundsAreLeaders, LogInv,
           [Next]_vars
    PROVE  LogInv'
  <1>1. ~StaleReplies
    BY DEF Scheduled, Remembered
  <1>2. ASSUME NEW s \in Server, RunLeaderOneIter(s) \/ CrashInRound(s) PROVE LogInv'
    BY <1>2, RoundExtends, RoundStep
  <1>3. ASSUME NEW r \in Threads("spawned", "AppendEntries"), SendAppendEntries(r) PROVE LogInv'
    BY <1>3, SendStep
  <1>4. CASE \/ \E s \in Server : StartElection(s)
             \/ \E r \in Threads("spawned", "RequestVote") : SendRequestVote(r)
             \/ \E r \in Threads("request", "RequestVote") : RequestVote(r)
    BY <1>4, CalmElection, CalmStep
  <1>5. ASSUME NEW s \in Server,
               (\E op \in Op : Submit(s, op)) \/ RaftImplLeader(s) \/ RaftImplOther(s)
        PROVE  LogInv'
    BY <1>5, CalmInput, CalmStep
  <1>6. ASSUME NEW s \in Server, (\E r \in rpcs : LoseRPC(r)) \/ Crash(s) \/ CrashInPersist(s)
        PROVE  LogInv'
    BY <1>6, CalmFailure, CalmStep
  <1>7. ASSUME NEW r \in rpcs, LoseRPC(r) PROVE LogInv'
    <2>1. r.from \in Server
      BY ThreadKinds DEF TypeInv, TypeOK
    <2> QED BY <1>6, <1>7, <2>1
  <1>8. ASSUME NEW r \in Threads("reply", "RequestVote"), Timely(r), RequestVoteReply(r) PROVE LogInv'
    <2>1. r.from \in Server
      BY ThreadKinds DEF TypeInv, TypeOK, Threads
    <2>2. Calm \/ Wins(r.from)
      BY <1>1, <1>8, CalmRequestVoteReply
    <2> QED BY <2>1, <2>2, CalmStep, WinsStep
  <1>9. ASSUME NEW r \in Threads("request", "AppendEntries"),
               AppendEntries(r) \/ CrashInAppendEntries(r)
        PROVE  LogInv'
    BY <1>9, AppendEntriesShape, OverwriteStep, RefuseStep
  <1>10. ASSUME NEW r \in Threads("reply", "AppendEntries"), Timely(r), AppendEntriesReply(r)
         PROVE  LogInv'
    BY <1>1, <1>10, AnswerStep
  <1>11. CASE UNCHANGED vars
    <2>1. /\ UNCHANGED <<currentTerm, log, role, nextIndex, matchIndex, voted, elections, rpcs>>
          /\ \A s \in Server : currentTerm[s] \in Nat
      BY <1>11, LogTypes DEF vars, persistentVars, leaderVars, historyVars
    <2>2. Calm
      BY <2>1 DEF Calm, RolesKept, PeersKept, AppendThreads
    <2> QED BY <2>2, CalmStep
  <1> QED BY <1>2, <1>3, <1>4, <1>5, <1>6, <1>7, <1>8, <1>9, <1>10, <1>11 DEF Next, Continue

\* The whole invariant, of every behaviour.
ReplicationInv == TypeInv /\ ElectionInv /\ RoundsAreLeaders /\ LogInv

LEMMA InitReplicationInv == ASSUME Bootstrapped PROVE Init => ReplicationInv
  BY InitTypeInv, InitElectionInv, InitRounds, InitLogInv DEF ReplicationInv

LEMMA NextReplicationInv ==
    ASSUME Scheduled, ReplicationInv, [Next]_vars
    PROVE  ReplicationInv'
  <1>1. TypeInv'
    BY NextTypeInv DEF ReplicationInv
  <1>2. ElectionInv'
    BY <1>1, NextElectionInv DEF ReplicationInv, Scheduled
  <1>3. RoundsAreLeaders'
    BY NextRounds DEF ReplicationInv
  <1>4. LogInv'
    BY <1>1, <1>2, NextLogInv DEF ReplicationInv
  <1> QED BY <1>1, <1>2, <1>3, <1>4 DEF ReplicationInv

\* Equal entries make equal beginnings.
LEMMA SamePrefix ==
    ASSUME NEW f \in Seq(Entry), NEW g \in Seq(Entry), NEW m \in Nat, m <= Len(f), m <= Len(g),
           \A i \in 1..m : f[i] = g[i]
    PROVE  SubSeq(f, 1, m) = SubSeq(g, 1, m)
  <1>1. m \in 0..Len(f) /\ m \in 0..Len(g)
    OBVIOUS
  <1>2. /\ SubSeq(f, 1, m) \in Seq(Entry) /\ Len(SubSeq(f, 1, m)) = m
        /\ SubSeq(g, 1, m) \in Seq(Entry) /\ Len(SubSeq(g, 1, m)) = m
        /\ \A i \in 1..m : SubSeq(f, 1, m)[i] = f[i] /\ SubSeq(g, 1, m)[i] = g[i]
    BY <1>1, PrefixLinks
  <1> QED BY <1>2, SeqEqual

\* LogMatching for every cluster: AppendEntries compares the terms of two
\* entries and may conclude that the logs agree up to them, wherever replicas
\* crash, in the middle of writing a log included.
THEOREM LogsMatch == ASSUME Scheduled, Bootstrapped PROVE Spec => []LogMatching
  <1>1. ReplicationInv => LogMatching
    <2> SUFFICES ASSUME ReplicationInv, NEW s \in Server, NEW p \in Server,
                        NEW i \in DOMAIN log[s] \cap DOMAIN log[p], log[s][i].term = log[p][i].term
                 PROVE  SubSeq(log[s], 1, i) = SubSeq(log[p], 1, i)
      BY DEF LogMatching
    <2>1. log[s] \in Seq(Entry) /\ log[p] \in Seq(Entry)
      BY LogTypes DEF ReplicationInv
    <2>2. i \in 1..Len(log[s]) /\ i \in Nat /\ i <= Len(log[s]) /\ i <= Len(log[p])
      BY <2>1
    <2>3. Unique(Links) /\ LogLinks(log[s]) \subseteq Links /\ LogLinks(log[p]) \subseteq Links
      BY LinkSources DEF ReplicationInv, LogInv, LinksUnique
    <2>4. \A j \in 1..i : log[s][j] = log[p][j]
      BY <2>1, <2>2, <2>3, MatchingLogs
    <2> QED BY <2>1, <2>2, <2>4, SamePrefix
  <1> QED BY <1>1, InitReplicationInv, NextReplicationInv, PTL DEF Spec

\* ReadInBounds for every cluster: NextIndex never passes the end of the log of
\* a leader, so runLeaderOneIter's threads find the entry they read.
THEOREM ReadsInBounds == ASSUME Scheduled, Bootstrapped PROVE Spec => []ReadInBounds
  <1>1. ReplicationInv => ReadInBounds
    <2> SUFFICES ASSUME ReplicationInv, NEW r \in Threads("spawned", "AppendEntries")
                 PROVE  nextIndex[r.from][r.to] <= Len(log[r.from])
      BY DEF ReadInBounds
    <2>1. r \in AppendThreads /\ r.phase = "spawned"
      BY DEF Threads, AppendThreads
    <2>2. r.from \in Server /\ r.to \in Peers(r.from)
      BY <2>1, LogTypes DEF ReplicationInv
    <2> QED BY <2>1, <2>2 DEF ReplicationInv, RoundsAreLeaders, LogInv, NextInBounds
  <1> QED BY <1>1, InitReplicationInv, NextReplicationInv, PTL DEF Spec

\* MatchIndexSound for every cluster: what a leader counts for its commits is on
\* the peer's disk, however answers were delayed and reordered and although the
\* peer may have been restarted since.
THEOREM MatchIndexIsSound == ASSUME Scheduled, Bootstrapped PROVE Spec => []MatchIndexSound
  <1>1. ReplicationInv => MatchIndexSound
    <2> SUFFICES ASSUME ReplicationInv, NEW s \in Server, role[s] = "Leader", NEW p \in Peers(s),
                        currentTerm[p] = currentTerm[s]
                 PROVE  LET m == matchIndex[s][p] + 1
                        IN  /\ m <= Len(log[s])
                            /\ m <= Len(log[p])
                            /\ SubSeq(log[s], 1, m) = SubSeq(log[p], 1, m)
      BY DEF MatchIndexSound
    <2> DEFINE m == matchIndex[s][p] + 1
    <2>1. /\ log[s] \in Seq(Entry) /\ log[p] \in Seq(Entry) /\ p \in Server
          /\ Len(log[s]) \in Nat /\ Len(log[p]) \in Nat /\ matchIndex[s][p] \in Index
      BY LogTypes DEF ReplicationInv, Peers
    <2>2. CASE matchIndex[s][p] >= 0
      <3>1. matchIndex[s][p] < Len(log[s]) /\ HasFirst(p, s, m)
        BY <2>2 DEF ReplicationInv, LogInv, AcksSound
      <3>2. m \in Nat /\ m <= Len(log[s])
        BY <2>1, <2>2, <3>1 DEF Index
      <3>3. m <= Len(log[p]) /\ \A i \in 1..m : log[s][i] = log[p][i]
        BY <3>1 DEF HasFirst
      <3> HIDE DEF m
      <3>4. SubSeq(log[s], 1, m) = SubSeq(log[p], 1, m)
        BY <2>1, <3>2, <3>3, SamePrefix
      <3> QED BY <3>2, <3>3, <3>4 DEF m
    <2>3. CASE matchIndex[s][p] < 0
      <3>1. m = 0
        BY <2>1, <2>3 DEF Index
      <3>2. SubSeq(log[s], 1, 0) = SubSeq(log[p], 1, 0)
        BY <2>1, SamePrefix
      <3> QED BY <2>1, <3>1, <3>2
    <2> QED BY <2>1, <2>2, <2>3 DEF Index
  <1> QED BY <1>1, InitReplicationInv, NextReplicationInv, PTL DEF Spec
=============================================================================
