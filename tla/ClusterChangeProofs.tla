------------------------ MODULE ClusterChangeProofs ------------------------
(***************************************************************************)
(* Theorems about RaftTransport, packing loses nothing, and about          *)
(* ClusterChange: the types, and the configuration follows the log.        *)
(*                                                                         *)
(* Two inductive invariants are built on each other.  TypeInv has what is  *)
(* known of threads, RPCs and loops in a gap.  ConfigInv adds what a       *)
(* replica's ClusterConfig and peers_ have to do with its log, in a gap    *)
(* and outside.                                                            *)
(***************************************************************************)
EXTENDS ClusterChange, FiniteSetTheorems, SequenceTheorems, WellFoundedInduction, TLAPS

-----------------------------------------------------------------------------
\* Entries on their way.

\* What is rebuilt from the struct of one operation is that operation, whatever
\* the uninitialised ServerInfo held.
LEMMA UnpackOpOfPack ==
    ASSUME NEW Key, NEW Val, NEW Id, NEW op \in RaftOps(Key, Val, Id), NEW t,
           t.kind = op.kind, t.arg1 = Arg1(op), t.arg2 = Arg2(op),
           t.serverInfo = InfoOf(op)
    PROVE  UnpackOp(t) = op
<1>1. CASE op \in [kind : {"GET"}, key : Key]
  <2>1. op.kind = "GET" /\ op = [kind |-> "GET", key |-> op.key]
    BY <1>1
  <2>2. t.kind = "GET" /\ t.arg1 = op.key
    BY <2>1 DEF Arg1
  <2> QED
    BY <2>1, <2>2 DEF UnpackOp
<1>2. CASE op \in [kind : {"PUT"}, key : Key, val : Val]
  <2>1. op.kind = "PUT" /\ op = [kind |-> "PUT", key |-> op.key, val |-> op.val]
    BY <1>2
  <2>2. t.kind = "PUT" /\ t.arg1 = op.key /\ t.arg2 = op.val
    BY <2>1 DEF Arg1, Arg2
  <2> QED
    BY <2>1, <2>2 DEF UnpackOp
<1>3. CASE op \in [kind : {"ADD_SERVER"}, info : [id : Id]]
  <2>1. op.kind = "ADD_SERVER" /\ op = [kind |-> "ADD_SERVER", info |-> op.info]
    BY <1>3
  <2>2. t.kind = "ADD_SERVER" /\ t.serverInfo = op.info
    BY <2>1 DEF InfoOf
  <2> QED
    BY <2>1, <2>2 DEF UnpackOp
<1>4. CASE op \in [kind : {"REMOVE_SERVER"}, id : Id]
  <2>1. op.kind = "REMOVE_SERVER" /\ op = [kind |-> "REMOVE_SERVER", id |-> op.id]
    BY <1>4
  <2>2. t.kind = "REMOVE_SERVER" /\ t.arg1 = op.id
    BY <2>1 DEF Arg1
  <2> QED
    BY <2>1, <2>2 DEF UnpackOp
<1> QED
  BY <1>1, <1>2, <1>3, <1>4 DEF RaftOps

\* The entries that RaftService::AppendEntries hands to the handler are those that
\* RaftClient::AppendEntries was given, for any number of entries of any kind.
THEOREM TransportIsFaithful ==
    ASSUME NEW Key, NEW Val, NEW Id,
           NEW es \in Seq([term : Int, index : Int, op : RaftOps(Key, Val, Id)])
    PROVE  Unpack(Pack(es)) = es
<1>1. ASSUME NEW i \in DOMAIN es
      PROVE  UnpackEntry(PackEntry(es[i])) = es[i]
  <2> DEFINE e == es[i]
             t == PackEntry(e)
  <2>1. e \in [term : Int, index : Int, op : RaftOps(Key, Val, Id)]
    <3> DEFINE Entry == [term : Int, index : Int, op : RaftOps(Key, Val, Id)]
    <3>1. es \in Seq(Entry)
      OBVIOUS
    <3> HIDE DEF Entry
    <3>2. es[i] \in Entry
      BY <3>1
    <3> QED
      BY <3>2 DEF Entry
  <2>2. /\ t.kind = e.op.kind /\ t.arg1 = Arg1(e.op) /\ t.arg2 = Arg2(e.op)
        /\ t.serverInfo = InfoOf(e.op) /\ t.term = e.term /\ t.index = e.index
    BY DEF PackEntry
  <2>3. e.op \in RaftOps(Key, Val, Id)
    BY <2>1
  <2>4. UnpackOp(t) = e.op
    <3> HIDE DEF t, e
    <3> QED BY <2>2, <2>3, UnpackOpOfPack
  <2>5. UnpackEntry(t) = [term |-> e.term, index |-> e.index, op |-> e.op]
    BY <2>2, <2>4 DEF UnpackEntry
  <2> QED
    BY <2>1, <2>5
<1>2. DOMAIN Pack(es) = DOMAIN es /\ \A i \in DOMAIN es : Pack(es)[i] = PackEntry(es[i])
  BY DEF Pack
<1>3. Unpack(Pack(es)) = [i \in DOMAIN es |-> es[i]]
  BY <1>1, <1>2 DEF Unpack
<1> QED
  BY <1>3
-----------------------------------------------------------------------------
\* Numbers.

\* A set of numbers that is not empty has a smallest one.
LEMMA Smallest ==
    ASSUME NEW T, T \subseteq Nat, T # {}
    PROVE  \E x \in T : \A y \in T : x <= y
<1>. DEFINE R == OpToRel(<, Nat)
<1>1. IsWellFoundedOn(R, Nat)
  BY NatLessThanWellFounded
<1>2. \A x, y \in Nat : y < x => <<y, x>> \in R
  BY DEF OpToRel
<1>. HIDE DEF R
<1>3. PICK x \in T : \A y \in T : ~(<<y, x>> \in R)
  BY <1>1, WFMin
<1>4. x \in Nat /\ \A y \in T : y \in Nat /\ ~(y < x)
  BY <1>2, <1>3
<1>. QED
  BY <1>4

\* A set of indices below a bound has a largest one: one less than the smallest
\* number above all of them.
LEMMA LargestIndex ==
    ASSUME NEW S, S \subseteq Nat \cup {-1}, S # {}, NEW bound \in Nat, \A i \in S : i < bound
    PROVE  Max(S) \in S /\ \A i \in S : i <= Max(S)
<1>. DEFINE Above == {n \in Nat : \A i \in S : i < n}
<1>1. PICK n \in Above : \A m \in Above : n <= m
  <2>1. Above \subseteq Nat /\ Above # {}
    OBVIOUS
  <2>. HIDE DEF Above
  <2>. QED
    BY <2>1, Smallest
<1>2. n \in Nat /\ \A i \in S : i < n
  BY <1>1
<1>3. n - 1 \in S
  <2>1. CASE n = 0
    <3>1. PICK i \in S : i \in Nat \cup {-1} /\ i < 0
      BY <1>2, <2>1
    <3>. QED
      BY <2>1, <3>1
  <2>2. CASE n > 0
    <3>1. n - 1 \in Nat /\ n - 1 \notin Above
      BY <1>1, <1>2, <2>2
    <3>2. PICK i \in S : ~(i < n - 1)
      BY <3>1
    <3>3. i \in Int /\ i < n
      BY <1>2
    <3>. QED
      BY <1>2, <3>2, <3>3
  <2>. QED
    BY <1>2, <2>1, <2>2
<1>4. \A i \in S : i \in Int /\ n - 1 >= i
  BY <1>2
<1>5. \E x \in S : \A y \in S : x >= y
  BY <1>3, <1>4
<1>6. Max(S) \in S /\ \A y \in S : Max(S) >= y
  BY <1>5 DEF Max
<1>7. \A y \in S : y \in Int
  OBVIOUS
<1>. QED
  BY <1>6, <1>7

\* The smaller of two numbers.
LEMMA MinOfTwo ==
    ASSUME NEW a \in Int, NEW b \in Int
    PROVE  Min({a, b}) \in {a, b} /\ Min({a, b}) <= a /\ Min({a, b}) <= b
<1>1. \E x \in {a, b} : \A y \in {a, b} : x <= y
  OBVIOUS
<1>2. Min({a, b}) \in {a, b} /\ \A y \in {a, b} : Min({a, b}) <= y
  BY <1>1 DEF Min
<1>. QED
  BY <1>2

\* The entries that agree are among those sent and among those the log has.
LEMMA AgreeingRange ==
    ASSUME NEW lg, Len(lg) \in Nat, NEW es, Len(es) \in Nat, NEW prev \in Nat \cup {-1},
           prev < Len(lg)
    PROVE  /\ Agreeing(lg, prev, es) \in 0..Len(es)
           /\ prev + 1 + Agreeing(lg, prev, es) <= Len(lg)
<1>. DEFINE A == {j \in 1..Len(es) : \A k \in 1..j :
                     prev + 1 + k <= Len(lg) /\ lg[prev + 1 + k].term = es[k].term}
            w == Len(es)
            m == Len(lg) - prev - 1
<1>1. w \in Nat /\ m \in Nat /\ prev \in Int
  OBVIOUS
<1>2. A \subseteq 1..w /\ A \subseteq 1..m
  BY <1>1
<1>3. Agreeing(lg, prev, es) = Cardinality(A)
  BY DEF Agreeing
<1>4. \A n \in Nat : A \subseteq 1..n => Cardinality(A) \in Nat /\ Cardinality(A) <= n
  <2>1. SUFFICES ASSUME NEW n \in Nat, A \subseteq 1..n
                 PROVE  Cardinality(A) \in Nat /\ Cardinality(A) <= n
    OBVIOUS
  <2>. HIDE DEF A, w, m
  <2>2. IsFiniteSet(1..n) /\ Cardinality(1..n) = n
    <3>1. 1 \in Int /\ n \in Int
      OBVIOUS
    <3>2. IsFiniteSet(1..n) /\ Cardinality(1..n) = IF 1 > n THEN 0 ELSE n - 1 + 1
      BY <3>1, FS_Interval
    <3>. QED
      BY <3>2
  <2>3. IsFiniteSet(A) /\ Cardinality(A) <= n
    BY <2>1, <2>2, FS_Subset
  <2>. QED
    BY <2>3, FS_CardinalityType
<1>5. Cardinality(A) \in Nat /\ Cardinality(A) <= w /\ Cardinality(A) <= m
  <2>. HIDE DEF A, w, m
  <2>. QED
    BY <1>1, <1>2, <1>4
<1>. QED
  BY <1>1, <1>3, <1>5

-----------------------------------------------------------------------------
\* Changes.

\* A change is about a server, whose id its kind says where to find.
LEMMA ChangesAreOps ==
    ASSUME NEW op \in Op \cup Change
    PROVE  /\ op \in RaftOps(Nat, Nat, Server)
           /\ IsChange(op) <=> op \in Change
           /\ IsChange(op) => /\ ChangedId(op) \in Server
                              /\ op.kind = "ADD_SERVER" \/ op.kind = "REMOVE_SERVER"
                              /\ op.kind = "ADD_SERVER" => ChangedId(op) = op.info.id
                              /\ op.kind = "REMOVE_SERVER" => ChangedId(op) = op.id
<1>1. op \in RaftOps(Nat, Nat, Server) /\ (IsChange(op) <=> op \in Change)
  BY OperationAssumption
<1>2. IsChange(op) => op.kind = "ADD_SERVER" \/ op.kind = "REMOVE_SERVER"
  BY DEF IsChange
<1>3. op.kind = "ADD_SERVER" => ChangedId(op) = op.info.id /\ op.info.id \in Server
  BY <1>1 DEF RaftOps, ChangedId
<1>4. op.kind = "REMOVE_SERVER" => ChangedId(op) = op.id /\ op.id \in Server
  BY <1>1 DEF RaftOps, ChangedId
<1>. QED
  BY <1>1, <1>2, <1>3, <1>4

\* A change adds the id that it is about to a configuration, or takes it out.
LEMMA ChangedIs ==
    ASSUME NEW op \in Op \cup Change, IsChange(op), NEW config
    PROVE  Changed(config, op) = IF op.kind = "ADD_SERVER" THEN config \cup {ChangedId(op)}
                                 ELSE config \ {ChangedId(op)}
BY ChangesAreOps DEF Changed

\* Where the loop that pushes entries stops: at the first change or at the end.
BatchEnd(ops, n) ==
    /\ n \in 0..Len(ops)
    /\ \A i \in 1..(n - 1) : ~IsChange(ops[i])
    /\ n = Len(ops) \/ (n > 0 /\ IsChange(ops[n]))

\* There is such a place.
LEMMA BatchIs ==
    ASSUME NEW ops, Len(ops) \in Nat
    PROVE  BatchEnd(ops, Batch(ops))
<1>. DEFINE S == {i \in 1..Len(ops) : IsChange(ops[i])}
<1>1. \E n \in 0..Len(ops) : BatchEnd(ops, n)
  <2>1. CASE S = {}
    BY <2>1 DEF BatchEnd
  <2>2. CASE S # {}
    <3>1. S \subseteq Nat
      OBVIOUS
    <3>2. PICK n \in S : \A i \in S : n <= i
      <4>. HIDE DEF S
      <4>. QED
        BY <2>2, <3>1, Smallest
    <3>3. n \in 1..Len(ops) /\ IsChange(ops[n])
      BY <3>2
    <3>4. \A i \in 1..(n - 1) : ~IsChange(ops[i])
      BY <3>2, <3>3
    <3>. QED
      BY <3>3, <3>4 DEF BatchEnd
  <2>. QED
    BY <2>1, <2>2
<1>. QED
  BY <1>1 DEF Batch, BatchEnd

\* The batch ends with its only change, or it is everything and has none.
LEMMA BatchHas ==
    ASSUME NEW K, NEW ops \in Seq(K)
    PROVE  /\ Batch(ops) \in 0..Len(ops)
           /\ \A i \in 1..(Batch(ops) - 1) : ~IsChange(ops[i])
           /\ HasChange(ops) => Batch(ops) \in 1..Len(ops) /\ IsChange(ops[Batch(ops)])
           /\ ~HasChange(ops) => Batch(ops) = Len(ops) /\ \A i \in 1..Len(ops) : ~IsChange(ops[i])
<1>1. BatchEnd(ops, Batch(ops)) /\ Len(ops) \in Nat
  BY BatchIs
<1>2. ops # <<>> => Len(ops) > 0
  OBVIOUS
<1>3. CASE ops = <<>>
  <2>1. Len(ops) = 0
    BY <1>3
  <2>. QED
    BY <1>1, <1>3, <2>1 DEF BatchEnd, HasChange
<1>4. CASE ops # <<>>
  <2>1. Batch(ops) \in 1..Len(ops)
    BY <1>1, <1>2, <1>4 DEF BatchEnd
  <2>. QED
    BY <1>1, <1>4, <2>1 DEF BatchEnd, HasChange
<1>. QED
  BY <1>3, <1>4

-----------------------------------------------------------------------------
\* The configuration that a log stands for depends on the changes in it only.

LEMMA SameChanges ==
    ASSUME NEW lg, NEW other, ChangesIn(lg) = ChangesIn(other),
           \A i \in ChangesIn(lg) : lg[i].op = other[i].op
    PROVE  ConfigOf(lg) = ConfigOf(other)
<1>1. ASSUME NEW id \in Server
      PROVE  /\ Latest(lg, id) = Latest(other, id)
             /\ \A i \in Latest(lg, id) : lg[i].op = other[i].op
  BY DEF Latest
<1>. QED
  BY <1>1 DEF ConfigOf

\* The elements of two sequences in a row.
LEMMA InARow ==
    ASSUME NEW E, NEW lg \in Seq(E), NEW es \in Seq(E)
    PROVE  /\ lg \o es \in Seq(E) /\ Len(lg \o es) = Len(lg) + Len(es)
           /\ DOMAIN lg = 1..Len(lg) /\ DOMAIN es = 1..Len(es)
           /\ DOMAIN (lg \o es) = 1..(Len(lg) + Len(es))
           /\ Len(lg) \in Nat /\ Len(es) \in Nat
           /\ \A i \in 1..Len(lg) : (lg \o es)[i] = lg[i]
           /\ \A i \in 1..Len(es) : (lg \o es)[Len(lg) + i] = es[i]
           /\ \A i \in 1..(Len(lg) + Len(es)) : i \notin 1..Len(lg) =>
                 \E k \in 1..Len(es) : i = Len(lg) + k
<1>1. lg \o es \in Seq(E) /\ Len(lg \o es) = Len(lg) + Len(es)
  OBVIOUS
<1>2. \A i \in 1..Len(lg) : (lg \o es)[i] = lg[i]
  OBVIOUS
<1>3. \A i \in 1..Len(es) : (lg \o es)[Len(lg) + i] = es[i]
  OBVIOUS
<1>4. ASSUME NEW i \in 1..(Len(lg) + Len(es)), i \notin 1..Len(lg)
      PROVE  \E k \in 1..Len(es) : i = Len(lg) + k
  <2>1. i - Len(lg) \in 1..Len(es) /\ i = Len(lg) + (i - Len(lg))
    BY <1>4
  <2>. QED
    BY <2>1
<1>5. DOMAIN lg = 1..Len(lg) /\ DOMAIN es = 1..Len(es) /\ DOMAIN (lg \o es) = 1..(Len(lg) + Len(es))
  BY <1>1
<1>. QED
  BY <1>1, <1>2, <1>3, <1>4, <1>5

\* A batch without a change.
LEMMA PushedNoChange ==
    ASSUME NEW E, NEW lg \in Seq(E), NEW es \in Seq(E),
           \A i \in 1..Len(es) : ~IsChange(es[i].op)
    PROVE  ChangesIn(lg \o es) = ChangesIn(lg) /\ ConfigOf(lg \o es) = ConfigOf(lg)
<1>. DEFINE new == lg \o es
<1>1. /\ DOMAIN lg = 1..Len(lg) /\ DOMAIN new = 1..(Len(lg) + Len(es))
      /\ Len(lg) \in Nat /\ Len(es) \in Nat
      /\ \A i \in 1..Len(lg) : new[i] = lg[i]
      /\ \A i \in DOMAIN new : i \notin 1..Len(lg) => \E k \in 1..Len(es) : new[i] = es[k]
  <2>1. /\ DOMAIN lg = 1..Len(lg) /\ DOMAIN new = 1..(Len(lg) + Len(es))
        /\ Len(lg) \in Nat /\ Len(es) \in Nat
        /\ \A i \in 1..Len(lg) : new[i] = lg[i]
    BY InARow
  <2>2. \A i \in 1..Len(es) : new[Len(lg) + i] = es[i]
    BY InARow
  <2>3. \A i \in 1..(Len(lg) + Len(es)) : i \notin 1..Len(lg) => \E k \in 1..Len(es) : i = Len(lg) + k
    BY InARow
  <2>. HIDE DEF new
  <2>4. ASSUME NEW i \in DOMAIN new, i \notin 1..Len(lg)
        PROVE  \E k \in 1..Len(es) : new[i] = es[k]
    <3>1. i \in 1..(Len(lg) + Len(es))
      BY <2>1
    <3>2. PICK k \in 1..Len(es) : i = Len(lg) + k
      BY <2>3, <2>4, <3>1
    <3>. QED
      BY <2>2, <3>2
  <2>. QED
    BY <2>1, <2>4
<1>. HIDE DEF new
<1>2. ChangesIn(new) = ChangesIn(lg) /\ \A i \in ChangesIn(lg) : new[i].op = lg[i].op
  BY <1>1 DEF ChangesIn
<1>. QED
  BY <1>2, SameChanges DEF new

\* A batch that ends with a change.
LEMMA PushedChange ==
    ASSUME NEW E, \A e \in E : e.op \in Op \cup Change,
           NEW lg \in Seq(E), NEW es \in Seq(E), Len(es) > 0,
           IsChange(es[Len(es)].op), \A i \in 1..(Len(es) - 1) : ~IsChange(es[i].op)
    PROVE  /\ ChangesIn(lg \o es) = ChangesIn(lg) \cup {Len(lg) + Len(es)}
           /\ ConfigOf(lg \o es) = Changed(ConfigOf(lg), es[Len(es)].op)
<1>. DEFINE new == lg \o es
            op == es[Len(es)].op
            top == Len(lg) + Len(es)
<1>1. /\ DOMAIN lg = 1..Len(lg) /\ DOMAIN new = 1..top
      /\ Len(lg) \in Nat /\ Len(es) \in Nat /\ top \in Nat /\ top > Len(lg)
      /\ \A i \in 1..Len(lg) : new[i] = lg[i]
      /\ new[top] = es[Len(es)]
      /\ \A i \in 1..top : (i \notin 1..Len(lg) /\ i # top) => \E k \in 1..(Len(es) - 1) : new[i] = es[k]
  <2>1. /\ DOMAIN lg = 1..Len(lg) /\ DOMAIN new = 1..top
        /\ Len(lg) \in Nat /\ Len(es) \in Nat
        /\ \A i \in 1..Len(lg) : new[i] = lg[i]
    BY InARow
  <2>2. \A i \in 1..Len(es) : new[Len(lg) + i] = es[i]
    BY InARow
  <2>3. \A i \in 1..top : i \notin 1..Len(lg) => \E k \in 1..Len(es) : i = Len(lg) + k
    BY InARow
  <2>4. top \in Nat /\ top > Len(lg) /\ new[top] = es[Len(es)]
    BY <2>1, <2>2
  <2>5. ASSUME NEW i \in 1..top, i \notin 1..Len(lg), i # top
        PROVE  \E k \in 1..(Len(es) - 1) : new[i] = es[k]
    <3>1. PICK k \in 1..Len(es) : i = Len(lg) + k
      BY <2>3, <2>5
    <3>2. k # Len(es)
      BY <2>1, <2>5, <3>1
    <3>3. k \in 1..(Len(es) - 1) /\ new[i] = es[k]
      <4>. HIDE DEF new, top
      <4>. QED
        BY <2>1, <2>2, <3>1, <3>2
    <3>. QED
      BY <3>3
  <2>. QED
    BY <2>1, <2>4, <2>5
<1>2. op \in Op \cup Change /\ IsChange(op)
  OBVIOUS
<1>. HIDE DEF new, top, op
<1>3. ChangesIn(new) = ChangesIn(lg) \cup {top}
  BY <1>1, <1>2 DEF ChangesIn, op
<1>4. \A i \in ChangesIn(lg) : i \in 1..Len(lg) /\ new[i] = lg[i] /\ i <= top /\ i # top
  BY <1>1 DEF ChangesIn
<1>5. new[top].op = op
  BY <1>1 DEF op
<1>6. Latest(new, ChangedId(op)) = {top}
  BY <1>1, <1>3, <1>4, <1>5 DEF Latest
<1>7. ASSUME NEW id \in Server, id # ChangedId(op)
      PROVE  Latest(new, id) = Latest(lg, id) /\ \A i \in Latest(lg, id) : new[i].op = lg[i].op
  <2>1. \A i \in ChangesIn(new) : ChangedId(new[i].op) = id <=> i \in ChangesIn(lg) /\ ChangedId(lg[i].op) = id
    BY <1>3, <1>4, <1>5, <1>7
  <2>2. \A i \in ChangesIn(lg) : i \in ChangesIn(new)
    BY <1>3
  <2>3. Latest(new, id) = Latest(lg, id)
    BY <2>1, <2>2 DEF Latest
  <2>. QED
    BY <2>3, <1>4 DEF Latest
<1>8. ChangedId(op) \in Server
  BY <1>2, ChangesAreOps
<1>9. ASSUME NEW id \in Server
      PROVE  id \in ConfigOf(new) <=> IF id = ChangedId(op) THEN op.kind = "ADD_SERVER" ELSE id \in ConfigOf(lg)
  <2>1. CASE id = ChangedId(op)
    BY <1>5, <1>6, <2>1 DEF ConfigOf
  <2>2. CASE id # ChangedId(op)
    BY <1>7, <2>2 DEF ConfigOf
  <2>. QED
    BY <2>1, <2>2
<1>10. ConfigOf(new) \subseteq Server /\ ConfigOf(lg) \subseteq Server
  BY DEF ConfigOf
<1>11. Changed(ConfigOf(lg), op) = IF op.kind = "ADD_SERVER" THEN ConfigOf(lg) \cup {ChangedId(op)}
                                   ELSE ConfigOf(lg) \ {ChangedId(op)}
  BY <1>2, ChangedIs
<1>12. ConfigOf(new) = Changed(ConfigOf(lg), op)
  BY <1>8, <1>9, <1>10, <1>11
<1>. QED
  BY <1>3, <1>12 DEF new, top, op

\* A prefix of a log.
LEMMA PrefixIs ==
    ASSUME NEW E, NEW lg \in Seq(E), NEW n \in 0..Len(lg)
    PROVE  /\ SubSeq(lg, 1, n) \in Seq(E) /\ Len(SubSeq(lg, 1, n)) = n
           /\ DOMAIN SubSeq(lg, 1, n) = 1..n
           /\ \A i \in 1..n : SubSeq(lg, 1, n)[i] = lg[i]
           /\ DOMAIN lg = 1..Len(lg) /\ Len(lg) \in Nat
<1>1. SubSeq(lg, 1, n) \in Seq(E) /\ Len(SubSeq(lg, 1, n)) = n
  OBVIOUS
<1>2. \A i \in 1..n : SubSeq(lg, 1, n)[i] = lg[i]
  OBVIOUS
<1>. QED
  BY <1>1, <1>2

\* Cutting a log off takes changes away only if it cuts changes off.
LEMMA PrefixChanges ==
    ASSUME NEW E, NEW lg \in Seq(E), NEW n \in 0..Len(lg)
    PROVE  /\ ChangesIn(SubSeq(lg, 1, n)) \subseteq ChangesIn(lg)
           /\ (\A i \in (n + 1)..Len(lg) : ~IsChange(lg[i].op)) =>
                 /\ ChangesIn(SubSeq(lg, 1, n)) = ChangesIn(lg)
                 /\ ConfigOf(SubSeq(lg, 1, n)) = ConfigOf(lg)
<1>. DEFINE cut == SubSeq(lg, 1, n)
<1>1. /\ DOMAIN cut = 1..n /\ DOMAIN lg = 1..Len(lg) /\ Len(lg) \in Nat /\ n \in Nat
      /\ \A i \in 1..n : cut[i] = lg[i]
  BY PrefixIs
<1>. HIDE DEF cut
<1>2. ChangesIn(cut) \subseteq ChangesIn(lg) /\ \A i \in ChangesIn(cut) : cut[i].op = lg[i].op
  BY <1>1 DEF ChangesIn
<1>3. ASSUME \A i \in (n + 1)..Len(lg) : ~IsChange(lg[i].op)
      PROVE  ChangesIn(cut) = ChangesIn(lg)
  <2>1. \A i \in DOMAIN lg : i \in 1..n \/ i \in (n + 1)..Len(lg)
    BY <1>1
  <2>. QED
    BY <1>1, <1>3, <2>1 DEF ChangesIn
<1>. QED
  BY <1>2, <1>3, SameChanges DEF cut

-----------------------------------------------------------------------------
(***************************************************************************)
(* Types.  Everything a replica knows of is of KnownOp and Awake: no change *)
(* is asked for that is about a server that is still starting, so such a   *)
(* server is nobody's peer and gets no request.  A term of a leader, a     *)
(* candidate or a round is not -1, which a leader that resigns takes.      *)
(***************************************************************************)
Index == Nat \cup {-1}

KnownOp == {op \in Op \cup Change : (Prompt /\ IsChange(op)) => ChangedId(op) \notin booting}
Entry   == [term : Nat, op : KnownOp]
Sent    == [term : Nat, index : Nat, op : KnownOp]
Awake   == {s \in Server : Prompt => s \notin booting}

TermTypes ==
    /\ currentTerm \in [Server -> Index]
    /\ votedFor \in [Server -> Server \cup {Nil}]
    /\ role \in [Server -> {"Follower", "Candidate", "Leader"}]
    /\ votesReceived \in [Server -> Nat]
    /\ \A s \in Server : role[s] # "Follower" => currentTerm[s] \in Nat /\ s \notin booting

LogTypes ==
    /\ log \in [Server -> Seq(Entry)]
    /\ commitIndex \in [Server -> Index]
    /\ clusterConfig \in [Server -> SUBSET Server]
    /\ lastConfigChangeIndex \in [Server -> Index]
    /\ detached \subseteq Server

PeerTypes ==
    /\ nextIndex \in [Server -> [Server -> Nat]]
    /\ matchIndex \in [Server -> [Server -> Index]]
    /\ peers \in [Server -> SUBSET Server]
    /\ \A s \in Server : peers[s] \subseteq Awake \ {s}
    /\ lastKnownLeaderId \in [Server -> Server]

Call == [at : Server, change : Change, phase : {"waitPrev", "submit", "waitCommit"}, prev : Index]

InputTypes ==
    /\ dispatchOut \in [Server -> Seq(KnownOp)]
    /\ calls \subseteq Call
    /\ \A c \in calls : c.change \in KnownOp
    /\ booting \subseteq Server \ Members
    /\ unsubmitted \subseteq Op
    /\ callsLeft \in 0..MaxCalls

\* The four kinds of records in rpcs.  Nobody refuses a request that starts at
\* the beginning of the log in the term of the leader that sent it.
ThreadType(r)  == r.from \in Server /\ r.to \in Awake \ {r.from} /\ r.term \in Nat
RequestType(r) ==
    /\ ThreadType(r)
    /\ r.phase = "request" /\ r.kind = "AppendEntries"
    /\ r.prevLogIndex \in Index /\ r.leaderCommit \in Index
    /\ Unpack(r.entries) \in Seq(Sent) /\ Len(r.entries) \in Nat
ReplyType(r) ==
    /\ ThreadType(r)
    /\ r.phase = "reply" /\ r.kind = "AppendEntries"
    /\ r.nextIndex \in Nat /\ r.count \in Nat
    /\ r.replyTerm \in Index /\ r.success \in BOOLEAN
    /\ ~r.success /\ r.replyTerm = r.term => r.nextIndex >= 1
VoteRequestType(r) == ThreadType(r) /\ r.phase = "request" /\ r.kind = "RequestVote"
VoteReplyType(r) ==
    ThreadType(r) /\ r.phase = "reply" /\ r.kind = "RequestVote" /\ r.replyTerm \in Index
RpcType(r) == RequestType(r) \/ ReplyType(r) \/ VoteRequestType(r) \/ VoteReplyType(r)

RpcTypes == \A r \in rpcs : RpcType(r)

\* A loop in a gap: a round runs on a leader, AppendEntries on a follower.  When
\* nothing else runs in a gap, one loop at most is in one.
GapType(u) ==
    /\ u.at \in Awake /\ u.change \in Change /\ u.change \in KnownOp
    /\ \/ /\ u.thread = "round" /\ role[u.at] = "Leader"
          /\ u.rest \in Seq(KnownOp) /\ u.term \in Nat
       \/ /\ u.thread = "AppendEntries" /\ role[u.at] = "Follower"
          /\ u.rest \in Seq(Sent) /\ u.index \in Nat
          /\ RequestType(u.request) /\ u.request.to = u.at

GapTypes ==
    /\ \A u \in unlocked : GapType(u)
    /\ \A u, v \in unlocked : u = v

TypeInv == TermTypes /\ LogTypes /\ PeerTypes /\ InputTypes /\ RpcTypes /\ GapTypes

\* What KnownOp is made of.
LEMMA KnownOps ==
    ASSUME NEW op \in KnownOp
    PROVE  /\ op \in Op \cup Change /\ op \in RaftOps(Nat, Nat, Server)
           /\ IsChange(op) => op \in Change /\ ChangedId(op) \in Awake
BY ChangesAreOps DEF KnownOp, Awake

\* The types depend on booting only, and grow as processes finish their start.
LEMMA SameTypes ==
    ASSUME booting' = booting
    PROVE  /\ KnownOp' = KnownOp /\ Entry' = Entry /\ Sent' = Sent /\ Awake' = Awake
           /\ \A r : ThreadType(r)' <=> ThreadType(r)
           /\ \A r : RequestType(r)' <=> RequestType(r)
           /\ \A r : RpcType(r)' <=> RpcType(r)
<1>1. KnownOp' = KnownOp /\ Awake' = Awake
  BY DEF KnownOp, Awake
<1>2. Entry' = Entry /\ Sent' = Sent
  BY <1>1 DEF Entry, Sent
<1>3. \A r : ThreadType(r)' <=> ThreadType(r)
  BY <1>1 DEF ThreadType
<1>4. \A r : RequestType(r)' <=> RequestType(r)
  BY <1>2, <1>3 DEF RequestType
<1>5. \A r : RpcType(r)' <=> RpcType(r)
  BY <1>3, <1>4 DEF RpcType, ReplyType, VoteRequestType, VoteReplyType
<1>. QED
  BY <1>1, <1>2, <1>3, <1>4, <1>5

\* Variables that do not change keep their types.
LEMMA KeepTerms ==
    ASSUME TermTypes, UNCHANGED <<currentTerm, votedFor, role, votesReceived, booting>>
    PROVE  TermTypes'
BY DEF TermTypes

LEMMA KeepLogs ==
    ASSUME LogTypes, UNCHANGED <<log, commitIndex, clusterConfig, lastConfigChangeIndex, detached, booting>>
    PROVE  LogTypes'
BY SameTypes DEF LogTypes

LEMMA KeepPeers ==
    ASSUME PeerTypes, UNCHANGED <<nextIndex, matchIndex, peers, lastKnownLeaderId, booting>>
    PROVE  PeerTypes'
BY SameTypes DEF PeerTypes

LEMMA KeepInput ==
    ASSUME InputTypes, UNCHANGED <<dispatchOut, calls, callsLeft, unsubmitted, booting>>
    PROVE  InputTypes'
BY SameTypes DEF InputTypes

LEMMA KeepRpcs ==
    ASSUME RpcTypes, booting' = booting, \A r \in rpcs' : r \in rpcs \/ RpcType(r)
    PROVE  RpcTypes'
BY SameTypes DEF RpcTypes

LEMMA NoGaps == unlocked' = {} => GapTypes'
BY DEF GapTypes

\* The initial states.
LEMMA InitTypes == Init => TypeInv
<1>. SUFFICES ASSUME Init PROVE TypeInv
  OBVIOUS
<1>1. 0 \in Server /\ Members \subseteq Server /\ First \in Members
  BY ClusterAssumption
<1>2. TermTypes
  <2>1. Cardinality(Members) \in Nat
    BY ClusterAssumption, FS_Subset, FS_CardinalityType
  <2>. QED
    BY <1>1, <2>1 DEF Init, TermTypes, Index
<1>3. LogTypes
  BY <1>1 DEF Init, LogTypes, Index
<1>4. PeerTypes
  <2>1. \A s \in Server : peers[s] \subseteq Awake \ {s}
    BY <1>1 DEF Init, Awake
  <2>2. nextIndex \in [Server -> [Server -> Nat]] /\ matchIndex \in [Server -> [Server -> Index]]
    BY DEF Init, Index
  <2>3. peers \in [Server -> SUBSET Server] /\ lastKnownLeaderId \in [Server -> Server]
    BY <1>1 DEF Init
  <2>. QED
    BY <2>1, <2>2, <2>3 DEF PeerTypes
<1>5. InputTypes
  BY ClusterScheduleAssumption DEF Init, InputTypes
<1>6. RpcTypes /\ GapTypes
  BY DEF Init, RpcTypes, GapTypes
<1>. QED
  BY <1>2, <1>3, <1>4, <1>5, <1>6 DEF TypeInv

-----------------------------------------------------------------------------
\* What the threads put into rpcs.

LEMMA VoteRequestIs ==
    ASSUME NEW s \in Server, NEW p \in Awake \ {s}, NEW term \in Nat, NEW lg
    PROVE  RpcType(VoteRequest(Spawned("RequestVote", s, p, term), lg))
BY DEF RpcType, VoteRequestType, ThreadType, VoteRequest, Spawned

LEMMA VoteReplyIs ==
    ASSUME NEW r, ThreadType(r), NEW term \in Index, NEW granted
    PROVE  RpcType(VoteReply(r, term, granted))
BY DEF RpcType, VoteReplyType, ThreadType, VoteReply

LEMMA AppendReplyIs ==
    ASSUME NEW r, RequestType(r), NEW term \in Index, NEW success \in BOOLEAN,
           success \/ term # r.term \/ r.prevLogIndex # -1
    PROVE  RpcType(AppendReply(r, term, success))
<1>. DEFINE a == AppendReply(r, term, success)
<1>1. /\ r.from \in Server /\ r.to \in Awake \ {r.from} /\ r.term \in Nat
      /\ r.prevLogIndex \in Nat \cup {-1} /\ Len(r.entries) \in Nat
  BY DEF RequestType, ThreadType, Index
<1>2. /\ a.from = r.from /\ a.to = r.to /\ a.term = r.term /\ a.phase = "reply"
      /\ a.kind = "AppendEntries" /\ a.nextIndex = r.prevLogIndex + 1
      /\ a.count = Len(r.entries) /\ a.replyTerm = term /\ a.success = success
  BY DEF AppendReply
<1>3. r.prevLogIndex + 1 \in Nat /\ (r.prevLogIndex # -1 => r.prevLogIndex + 1 >= 1)
  BY <1>1
<1>. HIDE DEF a
<1>4. ReplyType(a)
  BY <1>1, <1>2, <1>3 DEF ReplyType, ThreadType
<1>. QED
  BY <1>4 DEF RpcType, a

LEMMA ShippedIs ==
    ASSUME NEW lg \in Seq(Entry), NEW next \in Nat
    PROVE  Unpack(Shipped(lg, next)) \in Seq(Sent) /\ Len(Shipped(lg, next)) \in Nat
<1>. DEFINE m == IF next <= Len(lg) THEN Len(lg) - next ELSE 0
            es == [i \in 1..(Len(lg) - next) |->
                     [term |-> lg[next + i].term, index |-> next + i - 1, op |-> lg[next + i].op]]
            All == [term : Int, index : Int, op : RaftOps(Nat, Nat, Server)]
<1>1. m \in Nat /\ 1..(Len(lg) - next) = 1..m /\ \A i \in 1..m : next + i \in 1..Len(lg)
  OBVIOUS
<1>2. ASSUME NEW i \in 1..m PROVE es[i] \in Sent
  <2>1. next + i \in 1..Len(lg) /\ next + i - 1 \in Nat
    BY <1>1
  <2>2. lg[next + i] \in Entry
    BY <2>1
  <2>3. es[i] = [term |-> lg[next + i].term, index |-> next + i - 1, op |-> lg[next + i].op]
    BY <1>1
  <2>. HIDE DEF es, m
  <2>. QED
    BY <2>1, <2>2, <2>3 DEF Entry, Sent
<1>3. DOMAIN es = 1..m
  BY <1>1
<1>4. es \in [1..m -> Sent]
  <2>1. es = [i \in 1..m |-> es[i]]
    BY <1>1
  <2>. HIDE DEF es, m
  <2>. QED
    BY <1>2, <2>1
<1>5. es \in Seq(Sent)
  <2>. HIDE DEF es, m
  <2>. QED
    BY <1>1, <1>4
<1>6. Sent \subseteq All
  BY KnownOps DEF Sent
<1>7. es \in Seq(All)
  <2>. HIDE DEF es, m, All
  <2>. QED
    BY <1>5, <1>6
<1>8. Unpack(Pack(es)) = es
  <2>. HIDE DEF es
  <2>. QED
    BY <1>7, TransportIsFaithful
<1>9. Pack(es) \in Seq({PackEntry(e) : e \in Sent})
  <2>1. Pack(es) = [i \in 1..m |-> PackEntry(es[i])]
    BY <1>3 DEF Pack
  <2>. HIDE DEF es, m
  <2>. QED
    BY <1>1, <1>2, <2>1
<1>10. Shipped(lg, next) = Pack(es)
  BY DEF Shipped
<1>11. Len(Pack(es)) \in Nat
  <2>. HIDE DEF es
  <2>. QED
    BY <1>9
<1>. HIDE DEF es
<1>. QED
  BY <1>5, <1>8, <1>10, <1>11

LEMMA ShipIs ==
    ASSUME NEW s \in Server, NEW p \in Awake \ {s}, NEW term \in Nat, NEW lg \in Seq(Entry),
           NEW next \in Nat, commitIndex[s] \in Index
    PROVE  RpcType(Ship(s, p, term, lg, next))
<1>. DEFINE r == Ship(s, p, term, lg, next)
<1>1. /\ r.from = s /\ r.to = p /\ r.term = term /\ r.phase = "request"
      /\ r.kind = "AppendEntries" /\ r.prevLogIndex = next - 1
      /\ r.entries = Shipped(lg, next) /\ r.leaderCommit = commitIndex[s]
  BY DEF Ship, AppendRequest, Spawned
<1>2. next - 1 \in Index
  BY DEF Index
<1>. HIDE DEF r
<1>3. RequestType(r)
  BY <1>1, <1>2, ShippedIs DEF RequestType, ThreadType
<1>. QED
  BY <1>3 DEF RpcType, r

-----------------------------------------------------------------------------
\* What the loops that push entries do.

\* The first batch of entries, and what is left of them.
LEMMA BatchOf ==
    ASSUME NEW E, NEW es \in Seq(E)
    PROVE  LET n == Batch(OpsOf(es))
           IN  /\ n \in 0..Len(es) /\ Len(es) \in Nat
               /\ SubSeq(es, 1, n) \in Seq(E) /\ Len(SubSeq(es, 1, n)) = n
               /\ \A i \in 1..n : SubSeq(es, 1, n)[i] = es[i]
               /\ SubSeq(es, n + 1, Len(es)) \in Seq(E)
               /\ \A i \in 1..(n - 1) : ~IsChange(es[i].op)
               /\ HasChange(OpsOf(es)) => n \in 1..Len(es) /\ es[n] \in E /\ IsChange(es[n].op)
               /\ ~HasChange(OpsOf(es)) => n = Len(es) /\ \A i \in 1..Len(es) : ~IsChange(es[i].op)
<1>. DEFINE ops == OpsOf(es)
            n == Batch(ops)
<1>1. ops \in Seq({e.op : e \in E}) /\ Len(ops) = Len(es) /\ Len(es) \in Nat
      /\ \A i \in 1..Len(es) : ops[i] = es[i].op
  BY DEF OpsOf
<1>2. /\ n \in 0..Len(ops)
      /\ \A i \in 1..(n - 1) : ~IsChange(ops[i])
      /\ HasChange(ops) => n \in 1..Len(ops) /\ IsChange(ops[n])
      /\ ~HasChange(ops) => n = Len(ops) /\ \A i \in 1..Len(ops) : ~IsChange(ops[i])
  <2>. HIDE DEF ops
  <2>. QED
    BY <1>1, BatchHas
<1>. HIDE DEF ops, n
<1>3. n \in 0..Len(es)
  BY <1>1, <1>2
<1>4. SubSeq(es, 1, n) \in Seq(E) /\ Len(SubSeq(es, 1, n)) = n
      /\ \A i \in 1..n : SubSeq(es, 1, n)[i] = es[i]
  BY <1>3, PrefixIs
<1>5. SubSeq(es, n + 1, Len(es)) \in Seq(E)
  BY <1>3
<1>6. \A i \in 1..(n - 1) : ~IsChange(es[i].op)
  BY <1>1, <1>2, <1>3
<1>7. HasChange(ops) => n \in 1..Len(es) /\ es[n] \in E /\ IsChange(es[n].op)
  BY <1>1, <1>2
<1>8. ~HasChange(ops) => n = Len(es) /\ \A i \in 1..Len(es) : ~IsChange(es[i].op)
  BY <1>1, <1>2
<1>. QED
  BY <1>1, <1>3, <1>4, <1>5, <1>6, <1>7, <1>8 DEF ops, n

\* The log after a push, and what it says of ClusterConfig.
Pushes(s, lg, es) ==
    LET n == Batch(OpsOf(es)) IN
    /\ log' = [log EXCEPT ![s] = lg \o SubSeq(es, 1, n)]
    /\ HasChange(OpsOf(es)) =>
          /\ clusterConfig' = [clusterConfig EXCEPT ![s] = Changed(clusterConfig[s], es[n].op)]
          /\ lastConfigChangeIndex' = [lastConfigChangeIndex EXCEPT ![s] = Len(lg) + n - 1]
    /\ ~HasChange(OpsOf(es)) => UNCHANGED <<clusterConfig, lastConfigChangeIndex>>

LEMMA PushIs == ASSUME NEW s, NEW lg, NEW es, Push(s, lg, es) PROVE Pushes(s, lg, es)
BY DEF Push, Pushes

LEMMA PushTypes ==
    ASSUME LogTypes, NEW s \in Server, NEW lg \in Seq(Entry), NEW es \in Seq(Entry),
           Push(s, lg, es)
    PROVE  /\ log' \in [Server -> Seq(Entry)]
           /\ clusterConfig' \in [Server -> SUBSET Server]
           /\ lastConfigChangeIndex' \in [Server -> Index]
<1>. DEFINE n == Batch(OpsOf(es))
<1>1. Pushes(s, lg, es)
  BY PushIs
<1>2. /\ n \in 0..Len(es) /\ SubSeq(es, 1, n) \in Seq(Entry)
      /\ HasChange(OpsOf(es)) => n \in 1..Len(es) /\ es[n] \in Entry /\ IsChange(es[n].op)
  BY BatchOf
<1>. HIDE DEF n
<1>3. log' = [log EXCEPT ![s] = lg \o SubSeq(es, 1, n)]
  BY <1>1 DEF Pushes, n
<1>4. log' \in [Server -> Seq(Entry)]
  BY <1>2, <1>3 DEF LogTypes
<1>5. clusterConfig' \in [Server -> SUBSET Server] /\ lastConfigChangeIndex' \in [Server -> Index]
  <2>1. CASE HasChange(OpsOf(es))
    <3>1. n \in 1..Len(es) /\ es[n].op \in KnownOp /\ IsChange(es[n].op)
      BY <1>2, <2>1 DEF Entry
    <3>2. Len(lg) + n - 1 \in Index
      BY <3>1 DEF Index
    <3>3. Changed(clusterConfig[s], es[n].op) \subseteq Server
      <4>. DEFINE op == es[n].op
      <4>1. op \in Op \cup Change /\ IsChange(op) /\ ChangedId(op) \in Server
        BY <3>1, KnownOps DEF Awake
      <4>2. clusterConfig[s] \subseteq Server
        BY DEF LogTypes
      <4>. HIDE DEF op
      <4>3. Changed(clusterConfig[s], op) = IF op.kind = "ADD_SERVER"
                                            THEN clusterConfig[s] \cup {ChangedId(op)}
                                            ELSE clusterConfig[s] \ {ChangedId(op)}
        BY <4>1, ChangedIs
      <4>4. Changed(clusterConfig[s], op) \subseteq Server
        BY <4>1, <4>2, <4>3
      <4>. QED
        BY <4>4 DEF op
    <3>4. /\ clusterConfig' = [clusterConfig EXCEPT ![s] = Changed(clusterConfig[s], es[n].op)]
          /\ lastConfigChangeIndex' = [lastConfigChangeIndex EXCEPT ![s] = Len(lg) + n - 1]
      BY <1>1, <2>1 DEF Pushes, n
    <3>. QED
      BY <3>2, <3>3, <3>4 DEF LogTypes
  <2>2. CASE ~HasChange(OpsOf(es))
    BY <1>1, <2>2 DEF Pushes, LogTypes
  <2>. QED
    BY <2>1, <2>2
<1>. QED
  BY <1>4, <1>5

\* The entries that a round makes of operations.
LEMMA RoundEntries ==
    ASSUME NEW ops \in Seq(KnownOp), NEW term \in Nat
    PROVE  LET es == [i \in DOMAIN ops |-> [term |-> term, op |-> ops[i]]]
           IN  es \in Seq(Entry) /\ OpsOf(es) = ops /\ Len(es) = Len(ops) /\ \A i \in 1..Len(ops) : es[i].op = ops[i]
<1>. DEFINE es == [i \in DOMAIN ops |-> [term |-> term, op |-> ops[i]]]
<1>1. DOMAIN ops = 1..Len(ops) /\ Len(ops) \in Nat /\ \A i \in 1..Len(ops) : ops[i] \in KnownOp
  OBVIOUS
<1>2. es \in Seq(Entry) /\ Len(es) = Len(ops)
  BY <1>1 DEF Entry
<1>3. OpsOf(es) = [i \in 1..Len(ops) |-> ops[i]]
  BY <1>1 DEF OpsOf
<1>. QED
  BY <1>1, <1>2, <1>3

\* A round, from the beginning or after a gap.
LEMMA RoundTypes ==
    ASSUME TypeInv, NEW s \in Awake, NEW ops \in Seq(KnownOp), NEW term \in Nat,
           role[s] = "Leader", Round(s, ops, term, {}), PeerTypes',
           UNCHANGED <<termVars, votesReceived, commitIndex, detached, booting>>
    PROVE  TermTypes' /\ LogTypes' /\ RpcTypes' /\ GapTypes'
<1>. DEFINE es == [i \in DOMAIN ops |-> [term |-> currentTerm[s], op |-> ops[i]]]
            n == Batch(ops)
<1>1. s \in Server /\ currentTerm[s] \in Nat /\ commitIndex \in [Server -> Index] /\ log \in [Server -> Seq(Entry)]
  BY DEF TypeInv, TermTypes, LogTypes, Awake
<1>2. es \in Seq(Entry) /\ OpsOf(es) = ops /\ Len(es) = Len(ops) /\ \A i \in 1..Len(ops) : es[i].op = ops[i]
  BY <1>1, RoundEntries
<1>3. Push(s, log[s], es)
  BY DEF Round
<1>. HIDE DEF es
<1>4. LogTypes'
  <2>1. /\ log' \in [Server -> Seq(Entry)]
        /\ clusterConfig' \in [Server -> SUBSET Server]
        /\ lastConfigChangeIndex' \in [Server -> Index]
    BY <1>1, <1>2, <1>3, PushTypes DEF TypeInv
  <2>. QED
    BY <2>1, SameTypes DEF TypeInv, LogTypes
<1>5. TermTypes'
  BY KeepTerms DEF TypeInv, termVars
<1>6. /\ HasChange(ops) => n \in 1..Len(ops) /\ es[n].op = ops[n] /\ IsChange(ops[n])
                           /\ ops[n] \in KnownOp
      /\ n \in 0..Len(ops)
  BY <1>2, BatchOf
<1>7. CASE HasChange(ops)
  <2>. DEFINE u == [thread |-> "round", at |-> s, change |-> ops[n],
                    rest |-> SubSeq(ops, n + 1, Len(ops)), term |-> term]
  <2>1. unlocked' = {u} /\ rpcs' = rpcs
    BY <1>7 DEF Round
  <2>2. SubSeq(ops, n + 1, Len(ops)) \in Seq(KnownOp) /\ ops[n] \in Change /\ ops[n] \in KnownOp
    BY <1>6, <1>7, KnownOps
  <2>3. /\ u.at = s /\ u.change = ops[n] /\ u.thread = "round" /\ u.term = term
        /\ u.rest = SubSeq(ops, n + 1, Len(ops))
    OBVIOUS
  <2>. HIDE DEF u, n
  <2>4. GapType(u)'
    BY <2>2, <2>3, SameTypes DEF GapType, termVars
  <2>5. GapTypes'
    BY <2>1, <2>4 DEF GapTypes
  <2>. QED
    BY <1>4, <1>5, <2>1, <2>5, KeepRpcs DEF TypeInv
<1>8. CASE ~HasChange(ops)
  <2>1. unlocked' = {} /\ rpcs' = rpcs \cup {Ship(s, p, term, log'[s], nextIndex'[s][p]) : p \in peers'[s]}
    BY <1>8 DEF Round
  <2>2. log'[s] \in Seq(Entry)
    BY <1>1, <1>4, SameTypes DEF LogTypes
  <2>3. \A p \in peers'[s] : p \in Awake \ {s} /\ nextIndex'[s][p] \in Nat
    BY <1>1, SameTypes DEF PeerTypes, Awake
  <2>4. \A p \in peers'[s] : RpcType(Ship(s, p, term, log'[s], nextIndex'[s][p]))
    BY <1>1, <2>2, <2>3, ShipIs
  <2>5. RpcTypes'
    BY <2>1, <2>4, KeepRpcs DEF TypeInv
  <2>. QED
    BY <1>4, <1>5, <2>1, <2>5, NoGaps
<1>. QED
  BY <1>7, <1>8

LEMMA NewPeers ==
    ASSUME PeerTypes, NEW s \in Server, NEW ids, ids \subseteq Awake \ {s},
           AddPeers(s, ids), UNCHANGED <<lastKnownLeaderId, booting>>
    PROVE  PeerTypes'
<1>1. nextIndex' \in [Server -> [Server -> Nat]]
  BY DEF PeerTypes, AddPeers
<1>2. matchIndex' \in [Server -> [Server -> Index]]
  BY DEF PeerTypes, AddPeers, Index
<1>3. peers' \in [Server -> SUBSET Server] /\ \A p \in Server : peers'[p] \subseteq Awake \ {p}
  BY DEF PeerTypes, AddPeers, Awake
<1>. QED
  BY <1>1, <1>2, <1>3, SameTypes DEF PeerTypes

LEMMA ApplyTypes ==
    ASSUME PeerTypes, NEW s \in Server, NEW op \in KnownOp, IsChange(op),
           ApplyToPeers(s, op), UNCHANGED <<lastKnownLeaderId, booting>>
    PROVE  PeerTypes'
<1>1. ChangedId(op) \in Awake
  BY KnownOps
<1>2. CASE ChangedId(op) = s /\ UNCHANGED <<peers, leaderVars>>
  BY <1>2, KeepPeers DEF leaderVars
<1>3. CASE ChangedId(op) # s /\ AddPeers(s, {ChangedId(op)})
  BY <1>1, <1>3, NewPeers
<1>4. CASE ChangedId(op) # s /\ RemovePeer(s, ChangedId(op))
  <2>1. nextIndex' \in [Server -> [Server -> Nat]]
    BY <1>4 DEF PeerTypes, RemovePeer
  <2>2. matchIndex' \in [Server -> [Server -> Index]]
    BY <1>4 DEF PeerTypes, RemovePeer, Index
  <2>3. peers' \in [Server -> SUBSET Server] /\ \A p \in Server : peers'[p] \subseteq Awake \ {p}
    BY <1>4 DEF PeerTypes, RemovePeer
  <2>. QED
    BY <2>1, <2>2, <2>3, SameTypes DEF PeerTypes
<1>. QED
  BY <1>2, <1>3, <1>4 DEF ApplyToPeers

LEMMA TypeRunLeaderOneIter ==
    ASSUME TypeInv, unlocked = {}, NEW s \in Server, RunLeaderOneIter(s)
    PROVE  TypeInv'
<1>1. /\ role[s] = "Leader" /\ Round(s, dispatchOut[s], currentTerm[s], {})
      /\ UNCHANGED <<termVars, votesReceived, commitIndex, detached, booting>>
      /\ UNCHANGED <<peers, leaderVars, lastKnownLeaderId, adminVars, unsubmitted>>
      /\ dispatchOut' = [dispatchOut EXCEPT ![s] = <<>>]
  BY DEF RunLeaderOneIter
<1>2. s \in Awake /\ currentTerm[s] \in Nat /\ dispatchOut[s] \in Seq(KnownOp)
  BY <1>1 DEF TypeInv, TermTypes, InputTypes, Awake
<1>3. PeerTypes'
  BY <1>1, KeepPeers DEF TypeInv, leaderVars
<1>4. TermTypes' /\ LogTypes' /\ RpcTypes' /\ GapTypes'
  BY <1>1, <1>2, <1>3, RoundTypes
<1>5. InputTypes'
  BY <1>1, SameTypes DEF TypeInv, InputTypes, adminVars
<1>. QED
  BY <1>3, <1>4, <1>5 DEF TypeInv

LEMMA TypeResumeRound ==
    ASSUME TypeInv, NEW u \in unlocked, ResumeRound(u)
    PROVE  TypeInv'
<1>1. /\ u.thread = "round" /\ ApplyToPeers(u.at, u.change)
      /\ Round(u.at, u.rest, u.term, unlocked \ {u})
      /\ UNCHANGED <<termVars, votesReceived, commitIndex, detached, booting>>
      /\ UNCHANGED <<lastKnownLeaderId, dispatchOut, adminVars, unsubmitted>>
  BY DEF ResumeRound
<1>2. /\ u.at \in Awake /\ u.change \in KnownOp /\ IsChange(u.change) /\ role[u.at] = "Leader"
      /\ u.rest \in Seq(KnownOp) /\ u.term \in Nat /\ unlocked \ {u} = {}
  BY <1>1, OperationAssumption DEF TypeInv, GapTypes, GapType
<1>3. PeerTypes'
  BY <1>1, <1>2, ApplyTypes DEF TypeInv, Awake
<1>4. TermTypes' /\ LogTypes' /\ RpcTypes' /\ GapTypes'
  BY <1>1, <1>2, <1>3, RoundTypes
<1>5. InputTypes'
  BY <1>1, KeepInput DEF TypeInv, adminVars
<1>. QED
  BY <1>3, <1>4, <1>5 DEF TypeInv

-----------------------------------------------------------------------------
\* AppendEntries.

LEMMA FollowerCommitIs ==
    ASSUME NEW r, r.leaderCommit \in Index, NEW old \in Index, NEW lg, Len(lg) \in Nat
    PROVE  FollowerCommit(r, old, lg) \in Index
<1>. DEFINE m == Min({r.leaderCommit, LastLogIndex(lg)})
<1>1. LastLogIndex(lg) \in Index
  BY DEF LastLogIndex, Index
<1>2. m \in {r.leaderCommit, LastLogIndex(lg)}
  <2>1. r.leaderCommit \in Int /\ LastLogIndex(lg) \in Int
    BY <1>1 DEF Index
  <2>. QED
    BY <2>1, MinOfTwo
<1>. QED
  BY <1>1, <1>2 DEF FollowerCommit

\* The entries of a request, without their index.
LEMMA SentEntries ==
    ASSUME NEW es \in Seq(Sent)
    PROVE  LET en == [i \in DOMAIN es |-> [term |-> es[i].term, op |-> es[i].op]]
           IN  en \in Seq(Entry) /\ OpsOf(en) = OpsOf(es) /\ Len(en) = Len(es)
               /\ \A i \in 1..Len(es) : en[i].op = es[i].op
<1>. DEFINE en == [i \in DOMAIN es |-> [term |-> es[i].term, op |-> es[i].op]]
<1>1. DOMAIN es = 1..Len(es) /\ Len(es) \in Nat /\ \A i \in 1..Len(es) : es[i] \in Sent
  OBVIOUS
<1>2. \A i \in 1..Len(es) : en[i] \in Entry /\ en[i].op = es[i].op
  BY <1>1 DEF Entry, Sent
<1>3. en \in Seq(Entry) /\ Len(en) = Len(es) /\ DOMAIN en = DOMAIN es
  BY <1>1, <1>2
<1>4. OpsOf(en) = OpsOf(es)
  BY <1>1, <1>2, <1>3 DEF OpsOf
<1>. QED
  BY <1>2, <1>3, <1>4

\* The handler of AppendEntries, from the point where it pushes or after a gap.
LEMMA ExtendTypes ==
    ASSUME TypeInv, NEW s \in Server, NEW lg \in Seq(Entry), NEW es \in Seq(Sent),
           NEW index \in Nat, NEW r, RequestType(r), r.to = s, Extend(s, lg, es, index, r, {}),
           role'[s] = "Follower", currentTerm'[s] \in Index, booting' = booting,
           detached' \subseteq Server
    PROVE  LogTypes' /\ RpcTypes' /\ GapTypes'
<1>. DEFINE en == [i \in DOMAIN es |-> [term |-> es[i].term, op |-> es[i].op]]
            n == Batch(OpsOf(es))
<1>1. /\ en \in Seq(Entry) /\ OpsOf(en) = OpsOf(es) /\ Push(s, lg, en)
  BY SentEntries DEF Extend
<1>2. /\ n \in 0..Len(es) /\ SubSeq(es, n + 1, Len(es)) \in Seq(Sent)
      /\ HasChange(OpsOf(es)) => es[n] \in Sent /\ IsChange(es[n].op)
  BY BatchOf
<1>3. /\ commitIndex \in [Server -> Index] /\ log \in [Server -> Seq(Entry)]
      /\ s \in Awake /\ r.leaderCommit \in Index
  BY DEF TypeInv, LogTypes, RequestType, ThreadType
<1>4. /\ log' \in [Server -> Seq(Entry)] /\ Len(log'[s]) \in Nat
      /\ clusterConfig' \in [Server -> SUBSET Server]
      /\ lastConfigChangeIndex' \in [Server -> Index]
  <2>. HIDE DEF en
  <2>1. /\ log' \in [Server -> Seq(Entry)]
        /\ clusterConfig' \in [Server -> SUBSET Server]
        /\ lastConfigChangeIndex' \in [Server -> Index]
    BY <1>1, PushTypes DEF TypeInv
  <2>2. log'[s] \in Seq(Entry)
    BY <2>1
  <2>. QED
    BY <2>1, <2>2
<1>5. commitIndex' \in [Server -> Index]
  <2>1. commitIndex' = commitIndex
        \/ commitIndex' = [commitIndex EXCEPT ![s] = FollowerCommit(r, commitIndex[s], log'[s])]
    BY DEF Extend
  <2>2. commitIndex[s] \in Index
    BY <1>3
  <2>3. FollowerCommit(r, commitIndex[s], log'[s]) \in Index
    BY <1>3, <1>4, <2>2, FollowerCommitIs
  <2>. QED
    BY <1>3, <2>1, <2>3
<1>6. LogTypes'
  BY <1>4, <1>5, SameTypes DEF LogTypes
<1>. HIDE DEF en
<1>7. CASE HasChange(OpsOf(es))
  <2>. DEFINE u == [thread |-> "AppendEntries", at |-> s, change |-> es[n].op, request |-> r,
                    rest |-> SubSeq(es, n + 1, Len(es)), index |-> index + n]
  <2>1. unlocked' = {u} /\ rpcs' = rpcs \ {r}
    BY <1>7 DEF Extend
  <2>2. es[n].op \in Change /\ es[n].op \in KnownOp /\ index + n \in Nat
    BY <1>2, <1>7, KnownOps DEF Sent
  <2>3. /\ u.at = s /\ u.change = es[n].op /\ u.thread = "AppendEntries" /\ u.index = index + n
        /\ u.rest = SubSeq(es, n + 1, Len(es)) /\ u.request = r
    OBVIOUS
  <2>. HIDE DEF u, n
  <2>4. GapType(u)'
    BY <1>2, <1>3, <2>2, <2>3, SameTypes DEF GapType
  <2>5. GapTypes'
    BY <2>1, <2>4 DEF GapTypes
  <2>6. RpcTypes'
    BY <2>1, KeepRpcs DEF TypeInv
  <2>. QED
    BY <1>6, <2>5, <2>6
<1>8. CASE ~HasChange(OpsOf(es))
  <2>1. unlocked' = {} /\ rpcs' = (rpcs \ {r}) \cup {AppendReply(r, currentTerm'[s], TRUE)}
    BY <1>8 DEF Extend
  <2>2. RpcType(AppendReply(r, currentTerm'[s], TRUE))
    BY AppendReplyIs
  <2>3. RpcTypes'
    BY <2>1, <2>2, KeepRpcs DEF TypeInv
  <2>. QED
    BY <1>6, <2>1, <2>3, NoGaps
<1>. QED
  BY <1>7, <1>8

\* A replica that takes entries follows, and its log is cut within its length.
Kept(r) ==
    LET es == Unpack(r.entries)
        n  == Agreeing(log[r.to], r.prevLogIndex, es)
    IN  IF n = Len(es) THEN Len(log[r.to]) ELSE r.prevLogIndex + 1 + n

LEMMA KeptIs ==
    ASSUME TypeInv, NEW r, RequestType(r), Accepted(r)
    PROVE  LET lg == log[r.to]
               es == Unpack(r.entries)
               n  == Agreeing(lg, r.prevLogIndex, es)
               kept == IF n = Len(es) THEN lg ELSE SubSeq(lg, 1, r.prevLogIndex + 1 + n)
           IN  /\ lg \in Seq(Entry) /\ es \in Seq(Sent) /\ n \in 0..Len(es)
               /\ Kept(r) \in 0..Len(lg) /\ kept = SubSeq(lg, 1, Kept(r))
               /\ SubSeq(es, n + 1, Len(es)) \in Seq(Sent)
               /\ r.prevLogIndex + 1 + n \in Nat
<1>. DEFINE lg == log[r.to]
            es == Unpack(r.entries)
            n  == Agreeing(lg, r.prevLogIndex, es)
<1>1. r.to \in Server /\ lg \in Seq(Entry) /\ es \in Seq(Sent) /\ r.prevLogIndex \in Nat \cup {-1}
  BY DEF RequestType, ThreadType, Awake, TypeInv, LogTypes, Index
<1>2. r.prevLogIndex < Len(lg)
  BY <1>1 DEF Accepted, PrevMatches, LastLogIndex
<1>3. n \in 0..Len(es) /\ r.prevLogIndex + 1 + n <= Len(lg)
  <2>1. Len(lg) \in Nat /\ Len(es) \in Nat
    BY <1>1
  <2>. HIDE DEF lg, es
  <2>. QED
    BY <1>1, <1>2, <2>1, AgreeingRange
<1>4. r.prevLogIndex + 1 + n \in 0..Len(lg) /\ r.prevLogIndex + 1 + n \in Nat
  BY <1>1, <1>3
<1>5. Kept(r) = IF n = Len(es) THEN Len(lg) ELSE r.prevLogIndex + 1 + n
  BY DEF Kept
<1>6. lg = SubSeq(lg, 1, Len(lg)) /\ Len(lg) \in Nat
  BY <1>1
<1>. HIDE DEF lg, es, n
<1>7. SubSeq(es, n + 1, Len(es)) \in Seq(Sent)
  BY <1>1, <1>3
<1>8. Kept(r) \in 0..Len(lg)
  BY <1>4, <1>5, <1>6
<1>9. (IF n = Len(es) THEN lg ELSE SubSeq(lg, 1, r.prevLogIndex + 1 + n)) = SubSeq(lg, 1, Kept(r))
  BY <1>5, <1>6
<1>. QED
  BY <1>1, <1>3, <1>4, <1>7, <1>8, <1>9 DEF lg, es, n

LEMMA FollowerTypes ==
    ASSUME TermTypes, NEW s \in Server, NEW term \in Index, BecomeFollower(s, term),
           UNCHANGED <<votesReceived, booting>>
    PROVE  TermTypes' /\ role'[s] = "Follower" /\ currentTerm'[s] = term
BY DEF TermTypes, BecomeFollower

\* What AppendEntries does to the term, and to the rest.
LEMMA TypeAppendEntries ==
    ASSUME TypeInv, unlocked = {}, NEW r \in rpcs, RequestType(r), AppendEntries(r)
    PROVE  TypeInv' /\ (Accepted(r) => role'[r.to] = "Follower")
<1>. DEFINE s == r.to
            es == Unpack(r.entries)
            n == Agreeing(log[s], r.prevLogIndex, es)
            kept == IF n = Len(es) THEN log[s] ELSE SubSeq(log[s], 1, r.prevLogIndex + 1 + n)
<1>1. /\ IF StepsDown(r) THEN BecomeFollower(s, r.term) ELSE UNCHANGED termVars
      /\ lastKnownLeaderId' = [lastKnownLeaderId EXCEPT ![s] = r.from]
      /\ \/ /\ Accepted(r)
            /\ Extend(s, kept, SubSeq(es, n + 1, Len(es)), r.prevLogIndex + 1 + n, r, {})
            /\ detached' = IF \E i \in (Len(kept) + 1)..Len(log[s]) : IsChange(log[s][i].op)
                           THEN detached \cup {s} ELSE detached
         \/ /\ ~Accepted(r)
            /\ rpcs' = (rpcs \ {r}) \cup {AppendReply(r, currentTerm'[s], FALSE)}
            /\ UNCHANGED <<log, commitIndex, configVars, unlocked>>
      /\ UNCHANGED <<votesReceived, leaderVars, peers, dispatchOut, adminVars, booting, unsubmitted>>
  BY DEF AppendEntries
<1>2. /\ s \in Server /\ s \in Awake /\ r.from \in Server /\ r.term \in Nat /\ r.term \in Index
      /\ r.prevLogIndex \in Index
      /\ TermTypes /\ currentTerm[s] \in Nat \cup {-1}
  BY DEF RequestType, ThreadType, Awake, TypeInv, Index, TermTypes
<1>3. /\ TermTypes' /\ currentTerm'[s] \in Index
      /\ StepsDown(r) => role'[s] = "Follower" /\ currentTerm'[s] = r.term
      /\ ~StepsDown(r) => role' = role /\ currentTerm' = currentTerm
  <2>1. CASE StepsDown(r)
    BY <1>1, <1>2, <2>1, FollowerTypes
  <2>2. CASE ~StepsDown(r)
    <3>1. UNCHANGED <<currentTerm, votedFor, role, votesReceived, booting>>
      BY <1>1, <2>2 DEF termVars
    <3>. QED
      BY <1>2, <2>2, <3>1, KeepTerms DEF Index
  <2>. QED
    BY <2>1, <2>2
<1>4. PeerTypes'
  <2>1. lastKnownLeaderId' \in [Server -> Server]
    BY <1>1, <1>2 DEF TypeInv, PeerTypes
  <2>. QED
    BY <1>1, <2>1, SameTypes DEF TypeInv, PeerTypes, leaderVars
<1>5. InputTypes'
  BY <1>1, KeepInput DEF TypeInv, adminVars
<1>6. CASE Accepted(r)
  <2>1. /\ log[s] \in Seq(Entry) /\ Kept(r) \in 0..Len(log[s]) /\ kept = SubSeq(log[s], 1, Kept(r))
        /\ SubSeq(es, n + 1, Len(es)) \in Seq(Sent)
        /\ r.prevLogIndex + 1 + n \in Nat
    BY <1>6, KeptIs
  <2>2. role'[s] = "Follower"
    BY <1>2, <1>3, <1>6 DEF Accepted, StepsDown, Newer
  <2>3. kept \in Seq(Entry)
    BY <2>1, PrefixIs
  <2>4. detached' \subseteq Server
    BY <1>1, <1>2 DEF TypeInv, LogTypes, configVars
  <2>5. Extend(s, kept, SubSeq(es, n + 1, Len(es)), r.prevLogIndex + 1 + n, r, {}) /\ booting' = booting
    BY <1>1, <1>6
  <2>. HIDE DEF kept, es, n
  <2>6. LogTypes' /\ RpcTypes' /\ GapTypes'
    BY <1>2, <1>3, <2>1, <2>2, <2>3, <2>4, <2>5, ExtendTypes
  <2>. QED
    BY <1>3, <1>4, <1>5, <2>2, <2>6 DEF TypeInv
<1>7. CASE ~Accepted(r)
  <2>1. r.prevLogIndex # -1 \/ currentTerm'[s] # r.term
    <3>1. CASE r.term >= currentTerm[s]
      BY <1>7, <3>1 DEF Accepted, PrevMatches
    <3>2. CASE ~(r.term >= currentTerm[s])
      BY <1>2, <1>3, <3>2 DEF StepsDown, Newer
    <3>. QED
      BY <3>1, <3>2
  <2>2. RpcType(AppendReply(r, currentTerm'[s], FALSE))
    BY <1>3, <2>1, AppendReplyIs
  <2>3. RpcTypes'
    BY <1>1, <1>7, <2>2, KeepRpcs DEF TypeInv
  <2>4. LogTypes' /\ GapTypes'
    BY <1>1, <1>7, KeepLogs, NoGaps DEF TypeInv, configVars
  <2>. QED
    BY <1>3, <1>4, <1>5, <1>7, <2>3, <2>4 DEF TypeInv
<1>. QED
  BY <1>6, <1>7

LEMMA TypeResumeAppendEntries ==
    ASSUME TypeInv, NEW u \in unlocked, ResumeAppendEntries(u)
    PROVE  TypeInv'
<1>1. /\ u.thread = "AppendEntries" /\ ApplyToPeers(u.at, u.change)
      /\ UNCHANGED <<termVars, lastKnownLeaderId>>
      /\ Extend(u.at, log[u.at], u.rest, u.index, u.request, unlocked \ {u})
      /\ UNCHANGED <<votesReceived, detached, dispatchOut, adminVars, booting, unsubmitted>>
  BY DEF ResumeAppendEntries
<1>2. /\ u.at \in Awake /\ u.at \in Server /\ u.change \in KnownOp /\ IsChange(u.change)
      /\ role[u.at] = "Follower" /\ u.rest \in Seq(Sent) /\ u.index \in Nat
      /\ RequestType(u.request) /\ u.request.to = u.at /\ unlocked \ {u} = {}
  BY <1>1, OperationAssumption DEF TypeInv, GapTypes, GapType, Awake
<1>3. PeerTypes'
  BY <1>1, <1>2, ApplyTypes DEF TypeInv
<1>4. TermTypes' /\ currentTerm'[u.at] \in Index /\ role'[u.at] = "Follower" /\ detached' \subseteq Server
  BY <1>1, <1>2, KeepTerms DEF TypeInv, termVars, TermTypes, LogTypes
<1>5. log[u.at] \in Seq(Entry)
  BY <1>2 DEF TypeInv, LogTypes
<1>6. LogTypes' /\ RpcTypes' /\ GapTypes'
  BY <1>1, <1>2, <1>4, <1>5, ExtendTypes
<1>7. InputTypes'
  BY <1>1, KeepInput DEF TypeInv, adminVars
<1>. QED
  BY <1>3, <1>4, <1>6, <1>7 DEF TypeInv

-----------------------------------------------------------------------------
\* The other actions.

LEMMA MoreSequences == ASSUME NEW S, NEW T, S \subseteq T PROVE Seq(S) \subseteq Seq(T)
OBVIOUS

LEMMA LargerTypes ==
    ASSUME booting' \subseteq booting
    PROVE  /\ KnownOp \subseteq KnownOp' /\ Awake \subseteq Awake'
           /\ Seq(KnownOp) \subseteq Seq(KnownOp')
           /\ Seq(Entry) \subseteq Seq(Entry') /\ Seq(Sent) \subseteq Seq(Sent')
           /\ \A r : RequestType(r) => RequestType(r)'
           /\ \A r : RpcType(r) => RpcType(r)'
<1>1. KnownOp \subseteq KnownOp' /\ Awake \subseteq Awake'
  BY DEF KnownOp, Awake
<1>2. Entry \subseteq Entry' /\ Sent \subseteq Sent'
  BY <1>1 DEF Entry, Sent
<1>3. /\ Seq(KnownOp) \subseteq Seq(KnownOp')
      /\ Seq(Entry) \subseteq Seq(Entry') /\ Seq(Sent) \subseteq Seq(Sent')
  BY <1>1, <1>2, MoreSequences
<1>4. \A r : ThreadType(r) => ThreadType(r)'
  BY <1>1 DEF ThreadType
<1>5. \A r : RequestType(r) => RequestType(r)'
  BY <1>3, <1>4 DEF RequestType
<1>6. \A r : RpcType(r) => RpcType(r)'
  BY <1>4, <1>5 DEF RpcType, ReplyType, VoteRequestType, VoteReplyType
<1>. QED
  BY <1>1, <1>3, <1>5, <1>6

LEMMA TypeFinishBoot ==
    ASSUME TypeInv, unlocked = {}, NEW s \in Server, FinishBoot(s)
    PROVE  TypeInv'
<1>1. /\ booting' = booting \ {s} /\ AddPeers(s, Members \ {s})
      /\ UNCHANGED <<termVars, votesReceived, log, commitIndex, configVars, lastKnownLeaderId,
                     dispatchOut, rpcs, unlocked, adminVars, unsubmitted>>
  BY DEF FinishBoot
<1>2. booting' \subseteq booting
  BY <1>1
<1>3. TermTypes'
  BY <1>1 DEF TypeInv, TermTypes, termVars
<1>4. LogTypes'
  BY <1>1, <1>2, LargerTypes DEF TypeInv, LogTypes, configVars
<1>5. PeerTypes'
  <2>1. nextIndex' \in [Server -> [Server -> Nat]]
    BY <1>1 DEF TypeInv, PeerTypes, AddPeers
  <2>2. matchIndex' \in [Server -> [Server -> Index]]
    BY <1>1 DEF TypeInv, PeerTypes, AddPeers, Index
  <2>3. Members \subseteq Awake'
    BY <1>1, ClusterAssumption DEF TypeInv, InputTypes, Awake
  <2>4. peers' \in [Server -> SUBSET Server] /\ \A p \in Server : peers'[p] \subseteq Awake' \ {p}
    BY <1>1, <1>2, <2>3, LargerTypes DEF TypeInv, PeerTypes, AddPeers, Awake
  <2>. QED
    BY <1>1, <2>1, <2>2, <2>4 DEF TypeInv, PeerTypes
<1>6. InputTypes'
  BY <1>1, <1>2, LargerTypes DEF TypeInv, InputTypes, adminVars
<1>7. RpcTypes'
  BY <1>1, <1>2, LargerTypes DEF TypeInv, RpcTypes
<1>. QED
  BY <1>1, <1>3, <1>4, <1>5, <1>6, <1>7, NoGaps DEF TypeInv

LEMMA TypeStartElection ==
    ASSUME TypeInv, unlocked = {}, NEW s \in Server, StartElection(s)
    PROVE  TypeInv'
<1>1. /\ s \notin booting /\ BecomeCandidate(s, currentTerm[s] + 1)
      /\ votesReceived' = [votesReceived EXCEPT ![s] = 1]
      /\ rpcs' = rpcs \cup
           {VoteRequest(Spawned("RequestVote", s, p, currentTerm[s] + 1), log[s]) : p \in peers[s]}
      /\ UNCHANGED <<log, commitIndex, leaderVars, configVars, peers, lastKnownLeaderId,
                     dispatchOut, unlocked, adminVars, booting, unsubmitted>>
  BY DEF StartElection
<1>2. currentTerm[s] + 1 \in Nat /\ peers[s] \subseteq Awake \ {s}
  BY DEF TypeInv, TermTypes, PeerTypes, Index
<1>3. TermTypes'
  BY <1>1, <1>2 DEF TypeInv, TermTypes, BecomeCandidate, Index
<1>4. RpcTypes'
  <2>1. \A p \in peers[s] : RpcType(VoteRequest(Spawned("RequestVote", s, p, currentTerm[s] + 1), log[s]))
    BY <1>2, VoteRequestIs
  <2>. QED
    BY <1>1, <2>1, KeepRpcs DEF TypeInv
<1>5. LogTypes' /\ PeerTypes' /\ InputTypes' /\ GapTypes'
  BY <1>1, KeepLogs, KeepPeers, KeepInput, NoGaps DEF TypeInv, leaderVars, configVars, adminVars
<1>. QED
  BY <1>3, <1>4, <1>5 DEF TypeInv

LEMMA TypeRefuseStranger ==
    ASSUME TypeInv, unlocked = {}, NEW r \in rpcs, VoteRequestType(r), RefuseStranger(r)
    PROVE  TypeInv'
<1>1. /\ rpcs' = (rpcs \ {r}) \cup {VoteReply(r, currentTerm[r.to], FALSE)}
      /\ UNCHANGED <<termVars, votesReceived, log, commitIndex, leaderVars, configVars, peers,
                     lastKnownLeaderId, dispatchOut, unlocked, adminVars, booting, unsubmitted>>
  BY DEF RefuseStranger
<1>2. ThreadType(r) /\ currentTerm[r.to] \in Index
  BY DEF VoteRequestType, ThreadType, TypeInv, TermTypes, Awake
<1>3. RpcTypes'
  BY <1>1, <1>2, VoteReplyIs, KeepRpcs DEF TypeInv
<1>. QED
  BY <1>1, <1>3, KeepTerms, KeepLogs, KeepPeers, KeepInput, NoGaps
     DEF TypeInv, termVars, leaderVars, configVars, adminVars

LEMMA TypeRequestVote ==
    ASSUME TypeInv, unlocked = {}, NEW r \in rpcs, VoteRequestType(r), RequestVote(r)
    PROVE  TypeInv'
<1>. DEFINE s       == r.to
            term    == IF Newer(r) THEN r.term ELSE currentTerm[s]
            vote    == IF Newer(r) THEN Nil ELSE votedFor[s]
            granted == r.term = term /\ vote \in {Nil, r.from} /\ UpToDate(r, log[s])
<1>1. /\ currentTerm' = [currentTerm EXCEPT ![s] = term]
      /\ role' = [role EXCEPT ![s] = IF Newer(r) THEN "Follower" ELSE role[s]]
      /\ votedFor' = [votedFor EXCEPT ![s] = IF granted THEN r.from ELSE vote]
      /\ rpcs' = (rpcs \ {r}) \cup {VoteReply(r, term, granted)}
      /\ UNCHANGED <<votesReceived, log, commitIndex, leaderVars, configVars, peers,
                     lastKnownLeaderId, dispatchOut, unlocked, adminVars, booting, unsubmitted>>
  BY DEF RequestVote
<1>2. ThreadType(r) /\ s \in Server /\ r.from \in Server /\ r.term \in Nat
  BY DEF VoteRequestType, ThreadType, Awake
<1>3. /\ term \in Index /\ vote \in Server \cup {Nil}
      /\ ~Newer(r) => term = currentTerm[s]
  BY <1>2 DEF TypeInv, TermTypes, Index
<1>. HIDE DEF term, vote, granted
<1>4. TermTypes'
  <2>1. currentTerm' \in [Server -> Index] /\ votedFor' \in [Server -> Server \cup {Nil}]
    BY <1>1, <1>2, <1>3 DEF TypeInv, TermTypes
  <2>2. role' \in [Server -> {"Follower", "Candidate", "Leader"}]
    BY <1>1, <1>2 DEF TypeInv, TermTypes
  <2>3. ASSUME NEW p \in Server, role'[p] # "Follower"
        PROVE  currentTerm'[p] \in Nat /\ p \notin booting'
    BY <1>1, <1>2, <1>3, <2>3 DEF TypeInv, TermTypes
  <2>. QED
    BY <1>1, <2>1, <2>2, <2>3 DEF TypeInv, TermTypes
<1>5. RpcTypes'
  BY <1>1, <1>2, <1>3, VoteReplyIs, KeepRpcs DEF TypeInv
<1>. QED
  BY <1>1, <1>4, <1>5, KeepLogs, KeepPeers, KeepInput, NoGaps
     DEF TypeInv, leaderVars, configVars, adminVars

LEMMA TypeRequestVoteReply ==
    ASSUME TypeInv, unlocked = {}, NEW r \in rpcs, VoteReplyType(r), RequestVoteReply(r)
    PROVE  TypeInv'
<1>. DEFINE s     == r.from
            votes == votesReceived[s] + 1
<1>1. /\ rpcs' = rpcs \ {r}
      /\ UNCHANGED <<log, commitIndex, configVars, peers, dispatchOut, unlocked,
                     adminVars, booting, unsubmitted>>
  BY DEF RequestVoteReply
<1>2. s \in Server /\ r.replyTerm \in Index /\ votes \in Nat
  BY DEF VoteReplyType, ThreadType, TypeInv, TermTypes
<1>3. RpcTypes' /\ LogTypes' /\ InputTypes' /\ GapTypes'
  BY <1>1, KeepRpcs, KeepLogs, KeepInput, NoGaps DEF TypeInv, configVars, adminVars
<1>4. CASE /\ BecomeFollower(s, r.replyTerm)
           /\ UNCHANGED <<votesReceived, leaderVars, lastKnownLeaderId>>
  BY <1>1, <1>2, <1>3, <1>4, FollowerTypes, KeepPeers DEF TypeInv, leaderVars
<1>5. CASE /\ role[s] = "Candidate" /\ BecomeLeader(s)
           /\ votesReceived' = [votesReceived EXCEPT ![s] = votes]
           /\ UNCHANGED currentTerm
  <2>1. TermTypes'
    BY <1>1, <1>2, <1>5 DEF TypeInv, TermTypes, BecomeLeader
  <2>2. Len(log[s]) \in Nat
    BY <1>2 DEF TypeInv, LogTypes
  <2>3. PeerTypes'
    <3>1. nextIndex' \in [Server -> [Server -> Nat]]
      BY <1>2, <1>5, <2>2 DEF TypeInv, PeerTypes, BecomeLeader
    <3>2. matchIndex' \in [Server -> [Server -> Index]]
      BY <1>2, <1>5 DEF TypeInv, PeerTypes, BecomeLeader, Index
    <3>3. lastKnownLeaderId' \in [Server -> Server]
      BY <1>2, <1>5 DEF TypeInv, PeerTypes, BecomeLeader
    <3>. QED
      BY <1>1, <3>1, <3>2, <3>3, SameTypes DEF TypeInv, PeerTypes
  <2>. QED
    BY <1>3, <2>1, <2>3 DEF TypeInv
<1>6. CASE /\ votesReceived' = [votesReceived EXCEPT ![s] = votes]
           /\ UNCHANGED <<role, votedFor, lastKnownLeaderId, leaderVars, currentTerm>>
  <2>1. TermTypes'
    BY <1>1, <1>2, <1>6 DEF TypeInv, TermTypes
  <2>. QED
    BY <1>1, <1>3, <1>6, <2>1, KeepPeers DEF TypeInv, leaderVars
<1>7. CASE UNCHANGED <<termVars, votesReceived, leaderVars, lastKnownLeaderId>>
  BY <1>1, <1>3, <1>7, KeepTerms, KeepPeers DEF TypeInv, termVars, leaderVars
<1>. QED
  BY <1>4, <1>5, <1>6, <1>7 DEF RequestVoteReply

LEMMA TypeInput ==
    ASSUME TypeInv, unlocked = {}, NEW s \in Server,
           \/ RaftImplOther(s)
           \/ \E op \in Op : Submit(s, op)
    PROVE  TypeInv'
<1>1. /\ UNCHANGED <<termVars, votesReceived, log, commitIndex, leaderVars, configVars, peers,
                     lastKnownLeaderId, rpcs, unlocked, adminVars, booting>>
      /\ \/ dispatchOut' = [dispatchOut EXCEPT ![s] = <<>>]
         \/ \E op \in Op : dispatchOut' = [dispatchOut EXCEPT ![s] = Append(dispatchOut[s], op)]
      /\ unsubmitted' \subseteq Op
  BY DEF RaftImplOther, Submit, TypeInv, InputTypes
<1>2. \A op \in Op : op \in KnownOp
  BY OperationAssumption DEF KnownOp
<1>3. dispatchOut' \in [Server -> Seq(KnownOp)]
  <2>1. dispatchOut \in [Server -> Seq(KnownOp)] /\ dispatchOut[s] \in Seq(KnownOp)
    BY DEF TypeInv, InputTypes
  <2>2. \A op \in Op : Append(dispatchOut[s], op) \in Seq(KnownOp)
    BY <1>2, <2>1
  <2>3. <<>> \in Seq(KnownOp)
    OBVIOUS
  <2>4. CASE dispatchOut' = [dispatchOut EXCEPT ![s] = <<>>]
    BY <2>1, <2>3, <2>4
  <2>5. ASSUME NEW op \in Op, dispatchOut' = [dispatchOut EXCEPT ![s] = Append(dispatchOut[s], op)]
        PROVE  dispatchOut' \in [Server -> Seq(KnownOp)]
    BY <2>1, <2>2, <2>5
  <2>. QED
    BY <1>1, <2>4, <2>5
<1>4. InputTypes'
  BY <1>1, <1>3, SameTypes DEF TypeInv, InputTypes, adminVars
<1>. QED
  BY <1>1, <1>4, KeepTerms, KeepLogs, KeepPeers, KeepRpcs, NoGaps
     DEF TypeInv, termVars, leaderVars, configVars

LEMMA NewCommitIs ==
    ASSUME NEW s \in Server, NEW match, commitIndex[s] \in Index, log[s] \in Seq(Entry)
    PROVE  NewCommitIndex(s, match) \in Index /\ NewCommitIndex(s, match) >= commitIndex[s]
<1>. DEFINE S == Committable(s, match) \cup {commitIndex[s]}
            bound == Len(log[s]) + commitIndex[s] + 2
<1>1. commitIndex[s] \in Nat \cup {-1} /\ Len(log[s]) \in Nat
  BY DEF Index
<1>2. Committable(s, match) \subseteq (commitIndex[s] + 1)..(Len(log[s]) - 1)
  BY DEF Committable, LastLogIndex
<1>3. S \subseteq Nat \cup {-1} /\ S # {} /\ bound \in Nat /\ \A i \in S : i < bound
  BY <1>1, <1>2
<1>4. commitIndex[s] \in S
  OBVIOUS
<1>5. NewCommitIndex(s, match) = Max(S)
  BY DEF NewCommitIndex
<1>. HIDE DEF S, bound
<1>6. Max(S) \in S /\ \A i \in S : i <= Max(S)
  BY <1>3, LargestIndex
<1>. QED
  BY <1>3, <1>4, <1>5, <1>6 DEF Index

LEMMA TypeAppendEntriesReply ==
    ASSUME TypeInv, unlocked = {}, NEW r \in rpcs, ReplyType(r), AppendEntriesReply(r)
    PROVE  TypeInv' /\ \A s \in Server : commitIndex'[s] >= commitIndex[s]
<1>. DEFINE s     == r.from
            match == [matchIndex[s] EXCEPT ![r.to] = r.nextIndex + r.count - 1]
<1>1. /\ rpcs' = rpcs \ {r}
      /\ UNCHANGED <<votesReceived, log, configVars, peers, lastKnownLeaderId, dispatchOut,
                     unlocked, adminVars, booting, unsubmitted>>
  BY DEF AppendEntriesReply
<1>2. /\ s \in Server /\ r.to \in Server /\ r.replyTerm \in Index
      /\ r.nextIndex \in Nat /\ r.count \in Nat
      /\ r.nextIndex + r.count \in Nat /\ r.nextIndex + r.count - 1 \in Index
      /\ commitIndex[s] \in Index /\ log[s] \in Seq(Entry)
      /\ matchIndex[s] \in [Server -> Index] /\ nextIndex[s] \in [Server -> Nat]
      /\ \A p \in Server : commitIndex[p] \in Int
  <2>1. s \in Server /\ r.to \in Server /\ r.replyTerm \in Index /\ r.nextIndex \in Nat /\ r.count \in Nat
    BY DEF ReplyType, ThreadType, Awake
  <2>2. r.nextIndex + r.count \in Nat /\ r.nextIndex + r.count - 1 \in Nat \cup {-1}
    BY <2>1
  <2>3. commitIndex \in [Server -> Index] /\ log[s] \in Seq(Entry)
    BY <2>1 DEF TypeInv, LogTypes
  <2>4. matchIndex[s] \in [Server -> Index] /\ nextIndex[s] \in [Server -> Nat]
    BY <2>1 DEF TypeInv, PeerTypes
  <2>5. commitIndex[s] \in Index /\ \A p \in Server : commitIndex[p] \in Int
    BY <2>1, <2>3 DEF Index
  <2>6. r.nextIndex + r.count - 1 \in Index
    BY <2>2 DEF Index
  <2>. QED
    BY <2>1, <2>2, <2>3, <2>4, <2>5, <2>6
<1>3. RpcTypes' /\ InputTypes' /\ GapTypes'
  BY <1>1, KeepRpcs, KeepInput, NoGaps DEF TypeInv, adminVars
<1>4. CASE /\ BecomeFollower(s, r.replyTerm)
           /\ UNCHANGED <<leaderVars, commitIndex>>
  BY <1>1, <1>2, <1>3, <1>4, FollowerTypes, KeepPeers, KeepLogs DEF TypeInv, leaderVars, configVars
<1>5. CASE /\ nextIndex' = [nextIndex EXCEPT ![s][r.to] = r.nextIndex + r.count]
           /\ matchIndex' = [matchIndex EXCEPT ![s] = match]
           /\ commitIndex' = [commitIndex EXCEPT ![s] = NewCommitIndex(s, match)]
           /\ UNCHANGED termVars
  <2>1. match \in [Server -> Index]
    BY <1>2
  <2>. HIDE DEF match
  <2>2. NewCommitIndex(s, match) \in Index /\ NewCommitIndex(s, match) >= commitIndex[s]
    BY <1>2, NewCommitIs
  <2>3. nextIndex' \in [Server -> [Server -> Nat]] /\ matchIndex' \in [Server -> [Server -> Index]]
    BY <1>2, <1>5, <2>1 DEF TypeInv, PeerTypes
  <2>4. PeerTypes'
    BY <1>1, <2>3, SameTypes DEF TypeInv, PeerTypes
  <2>5. /\ commitIndex' \in [Server -> Index]
        /\ \A p \in Server : commitIndex'[p] >= commitIndex[p]
    BY <1>2, <1>5, <2>2 DEF TypeInv, LogTypes
  <2>6. LogTypes'
    BY <1>1, <2>5, SameTypes DEF TypeInv, LogTypes, configVars
  <2>. QED
    BY <1>1, <1>3, <1>5, <2>4, <2>5, <2>6, KeepTerms DEF TypeInv, termVars
<1>6. CASE /\ ~r.success /\ r.replyTerm = r.term
           /\ nextIndex' = [nextIndex EXCEPT ![s][r.to] = r.nextIndex - 1]
           /\ UNCHANGED <<termVars, matchIndex, commitIndex>>
  <2>1. r.nextIndex - 1 \in Nat
    BY <1>2, <1>6 DEF ReplyType
  <2>2. nextIndex' \in [Server -> [Server -> Nat]]
    BY <1>2, <1>6, <2>1 DEF TypeInv, PeerTypes
  <2>3. PeerTypes'
    BY <1>1, <1>6, <2>2, SameTypes DEF TypeInv, PeerTypes
  <2>. QED
    BY <1>1, <1>2, <1>3, <1>6, <2>3, KeepTerms, KeepLogs DEF TypeInv, termVars, configVars
<1>7. CASE UNCHANGED <<termVars, leaderVars, commitIndex>>
  BY <1>1, <1>2, <1>3, <1>7, KeepTerms, KeepPeers, KeepLogs DEF TypeInv, termVars, leaderVars, configVars
<1>. QED
  BY <1>4, <1>5, <1>6, <1>7 DEF AppendEntriesReply

LEMMA TypeLoseRPC ==
    ASSUME TypeInv, unlocked = {}, NEW r \in rpcs, LoseRPC(r)
    PROVE  TypeInv'
<1>1. /\ rpcs' = rpcs \ {r}
      /\ UNCHANGED <<termVars, votesReceived, log, commitIndex, leaderVars, configVars, peers,
                     lastKnownLeaderId, dispatchOut, unlocked, adminVars, booting, unsubmitted>>
  BY DEF LoseRPC
<1>. QED
  BY <1>1, KeepTerms, KeepLogs, KeepPeers, KeepInput, KeepRpcs, NoGaps
     DEF TypeInv, termVars, leaderVars, configVars, adminVars

LEMMA TypeAnswerError ==
    ASSUME TypeInv, NEW s \in Server, AnswerError(s), UNCHANGED <<log, commitIndex, booting>>
    PROVE  LogTypes'
BY SameTypes DEF TypeInv, LogTypes, PeerTypes, AnswerError, Insert

LEMMA TypeCallStarts ==
    ASSUME TypeInv, unlocked = {}, NEW s \in Server, NEW op \in Change,
           RefuseCall(s, op) \/ BeginCall(s, op)
    PROVE  TypeInv'
<1>1. CASE RefuseCall(s, op)
  <2>1. /\ AnswerError(s)
        /\ UNCHANGED <<termVars, votesReceived, log, commitIndex, leaderVars, peers, lastKnownLeaderId,
                       dispatchOut, rpcs, unlocked, adminVars, booting, unsubmitted>>
    BY <1>1 DEF RefuseCall
  <2>. QED
    BY <2>1, TypeAnswerError, KeepTerms, KeepPeers, KeepInput, KeepRpcs, NoGaps
       DEF TypeInv, termVars, leaderVars, adminVars
<1>2. CASE BeginCall(s, op)
  <2>. DEFINE c == [at |-> s, change |-> op, phase |-> "waitPrev", prev |-> -1]
  <2>1. /\ MayCall(op) /\ callsLeft > 0 /\ calls' = calls \cup {c} /\ callsLeft' = callsLeft - 1
        /\ UNCHANGED <<termVars, votesReceived, log, commitIndex, leaderVars, configVars, peers,
                       lastKnownLeaderId, dispatchOut, rpcs, unlocked, booting, unsubmitted>>
    BY <1>2 DEF BeginCall
  <2>2. c \in Call /\ op \in KnownOp /\ c.change = op
    BY <2>1 DEF MayCall, Call, KnownOp, Index
  <2>3. callsLeft' \in 0..MaxCalls
    <3>1. callsLeft \in 0..MaxCalls /\ MaxCalls \in Nat
      BY ClusterScheduleAssumption DEF TypeInv, InputTypes
    <3>. QED
      BY <2>1, <3>1
  <2>. HIDE DEF c
  <2>4. InputTypes'
    BY <2>1, <2>2, <2>3, SameTypes DEF TypeInv, InputTypes
  <2>. QED
    BY <2>1, <2>4, KeepTerms, KeepLogs, KeepPeers, KeepRpcs, NoGaps
       DEF TypeInv, termVars, leaderVars, configVars
<1>. QED
  BY <1>1, <1>2

LEMMA TypeCall ==
    ASSUME TypeInv, unlocked = {}, NEW c \in calls,
           PassPrev(c) \/ SubmitChange(c) \/ AnswerOk(c) \/ GiveUp(c)
    PROVE  TypeInv'
<1>1. /\ c \in Call /\ c.at \in Server /\ c.change \in KnownOp
      /\ lastConfigChangeIndex[c.at] \in Index
  BY DEF TypeInv, InputTypes, LogTypes, Call
<1>2. CASE PassPrev(c)
  <2>. DEFINE d == [c EXCEPT !.phase = "submit", !.prev = lastConfigChangeIndex[c.at]]
  <2>1. /\ calls' = (calls \ {c}) \cup {d}
        /\ UNCHANGED <<termVars, votesReceived, log, commitIndex, leaderVars, configVars, peers,
                       lastKnownLeaderId, dispatchOut, rpcs, unlocked, callsLeft, booting, unsubmitted>>
    BY <1>2 DEF PassPrev
  <2>2. d \in Call /\ d.change = c.change
    BY <1>1 DEF Call
  <2>. HIDE DEF d
  <2>3. InputTypes'
    BY <1>1, <2>1, <2>2, SameTypes DEF TypeInv, InputTypes
  <2>. QED
    BY <2>1, <2>3, KeepTerms, KeepLogs, KeepPeers, KeepRpcs, NoGaps
       DEF TypeInv, termVars, leaderVars, configVars
<1>3. CASE SubmitChange(c)
  <2>. DEFINE d == [c EXCEPT !.phase = "waitCommit"]
  <2>1. /\ calls' = (calls \ {c}) \cup {d}
        /\ dispatchOut' = [dispatchOut EXCEPT ![c.at] = Append(dispatchOut[c.at], c.change)]
        /\ UNCHANGED <<termVars, votesReceived, log, commitIndex, leaderVars, configVars, peers,
                       lastKnownLeaderId, rpcs, unlocked, callsLeft, booting, unsubmitted>>
    BY <1>3 DEF SubmitChange
  <2>2. d \in Call /\ d.change = c.change
    BY <1>1 DEF Call
  <2>3. dispatchOut' \in [Server -> Seq(KnownOp)]
    BY <1>1, <2>1 DEF TypeInv, InputTypes
  <2>. HIDE DEF d
  <2>4. InputTypes'
    BY <1>1, <2>1, <2>2, <2>3, SameTypes DEF TypeInv, InputTypes
  <2>. QED
    BY <2>1, <2>4, KeepTerms, KeepLogs, KeepPeers, KeepRpcs, NoGaps
       DEF TypeInv, termVars, leaderVars, configVars
<1>4. ASSUME calls' = calls \ {c}, UNCHANGED <<dispatchOut, callsLeft, booting, unsubmitted>>
      PROVE  InputTypes'
  BY <1>4, SameTypes DEF TypeInv, InputTypes
<1>5. CASE AnswerOk(c)
  <2>1. /\ calls' = calls \ {c}
        /\ BecomeFollower(c.at, -1) \/ UNCHANGED termVars
        /\ UNCHANGED <<votesReceived, log, commitIndex, leaderVars, configVars, peers, lastKnownLeaderId,
                       dispatchOut, rpcs, unlocked, callsLeft, booting, unsubmitted>>
    BY <1>5 DEF AnswerOk
  <2>2. TermTypes'
    BY <1>1, <2>1, FollowerTypes, KeepTerms DEF TypeInv, termVars, Index
  <2>. QED
    BY <1>4, <2>1, <2>2, KeepLogs, KeepPeers, KeepRpcs, NoGaps
       DEF TypeInv, leaderVars, configVars
<1>6. CASE GiveUp(c)
  <2>1. /\ calls' = calls \ {c} /\ AnswerError(c.at)
        /\ UNCHANGED <<termVars, votesReceived, log, commitIndex, leaderVars, peers, lastKnownLeaderId,
                       dispatchOut, rpcs, unlocked, callsLeft, booting, unsubmitted>>
    BY <1>6 DEF GiveUp
  <2>. QED
    BY <1>1, <1>4, <2>1, TypeAnswerError, KeepTerms, KeepPeers, KeepRpcs, NoGaps
       DEF TypeInv, termVars, leaderVars
<1>. QED
  BY <1>2, <1>3, <1>5, <1>6

-----------------------------------------------------------------------------
\* What may run at all, when nothing runs in a gap.

\* The phase and the kind of an RPC tell which type it has.
LEMMA ThreadKinds ==
    ASSUME RpcTypes
    PROVE  /\ \A r \in Threads("request", "RequestVote")   : r \in rpcs /\ VoteRequestType(r)
           /\ \A r \in Threads("reply", "RequestVote")     : r \in rpcs /\ VoteReplyType(r)
           /\ \A r \in Threads("request", "AppendEntries") : r \in rpcs /\ RequestType(r)
           /\ \A r \in Threads("reply", "AppendEntries")   : r \in rpcs /\ ReplyType(r)
<1>1. \A phase, kind : \A r \in Threads(phase, kind) :
         r \in rpcs /\ r.phase = phase /\ r.kind = kind /\ RpcType(r)
  BY DEF Threads, RpcTypes
<1>2. \A r : RequestType(r) => r.phase = "request" /\ r.kind = "AppendEntries"
  BY DEF RequestType
<1>3. \A r : ReplyType(r) => r.phase = "reply" /\ r.kind = "AppendEntries"
  BY DEF ReplyType
<1>4. \A r : VoteRequestType(r) => r.phase = "request" /\ r.kind = "RequestVote"
  BY DEF VoteRequestType
<1>5. \A r : VoteReplyType(r) => r.phase = "reply" /\ r.kind = "RequestVote"
  BY DEF VoteReplyType
<1>. QED
  BY <1>1, <1>2, <1>3, <1>4, <1>5 DEF RpcType

\* TypeInv is inductive.
LEMMA NextTypes == ASSUME ~Overlap, TypeInv, [Next]_vars PROVE TypeInv'
<1>1. CASE UNCHANGED vars
  <2>1. GapTypes'
    BY <1>1, SameTypes DEF vars, termVars, TypeInv, GapTypes, GapType
  <2>. QED
    BY <1>1, <2>1, KeepTerms, KeepLogs, KeepPeers, KeepInput, KeepRpcs
       DEF vars, termVars, leaderVars, configVars, adminVars, TypeInv
<1>2. ASSUME NEW u \in unlocked, ResumeRound(u) \/ ResumeAppendEntries(u)
      PROVE  TypeInv'
  BY <1>2, TypeResumeRound, TypeResumeAppendEntries
<1>3. ASSUME Settled PROVE unlocked = {}
  BY <1>3 DEF Settled
<1>4. ASSUME Settled, NEW s \in Server,
             \/ FinishBoot(s) \/ StartElection(s) \/ RunLeaderOneIter(s) \/ RaftImplOther(s)
             \/ \E op \in Op : Submit(s, op)
             \/ \E op \in Change : RefuseCall(s, op) \/ BeginCall(s, op)
      PROVE  TypeInv'
  BY <1>3, <1>4, TypeFinishBoot, TypeStartElection, TypeRunLeaderOneIter, TypeInput, TypeCallStarts
<1>5. ASSUME Settled,
             \/ \E r \in Threads("request", "RequestVote") : RefuseStranger(r) \/ RequestVote(r)
             \/ \E r \in Threads("reply", "RequestVote") : RequestVoteReply(r)
             \/ \E r \in Threads("request", "AppendEntries") : AppendEntries(r)
             \/ \E r \in Threads("reply", "AppendEntries") : AppendEntriesReply(r)
             \/ \E r \in rpcs : LoseRPC(r)
      PROVE  TypeInv'
  <2>1. RpcTypes
    BY DEF TypeInv
  <2>. QED
    BY <1>3, <1>5, <2>1, ThreadKinds, TypeRefuseStranger, TypeRequestVote, TypeRequestVoteReply,
       TypeAppendEntries, TypeAppendEntriesReply, TypeLoseRPC
<1>6. ASSUME Settled, NEW c \in calls, PassPrev(c) \/ SubmitChange(c) \/ AnswerOk(c) \/ GiveUp(c)
      PROVE  TypeInv'
  BY <1>3, <1>6, TypeCall
<1>. QED
  BY <1>1, <1>2, <1>4, <1>5, <1>6 DEF Next

\* TypeInv has the types that the runs check.
LEMMA TypesImply == TypeInv => TypeOK
<1>. SUFFICES ASSUME TypeInv PROVE TypeOK
  OBVIOUS
<1>1. \A s \in Server : \A i \in DOMAIN log[s] : log[s][i].term \in Nat /\ log[s][i].op \in Op \cup Change
  <2>1. \A s \in Server : log[s] \in Seq(Entry)
    BY DEF TypeInv, LogTypes
  <2>2. \A s \in Server : \A i \in DOMAIN log[s] : log[s][i] \in Entry
    BY <2>1
  <2>. QED
    BY <2>2 DEF Entry, KnownOp
<1>2. \A s \in Server : \A i \in DOMAIN dispatchOut[s] : dispatchOut[s][i] \in Op \cup Change
  <2>1. \A s \in Server : dispatchOut[s] \in Seq(KnownOp)
    BY DEF TypeInv, InputTypes
  <2>2. \A s \in Server : \A i \in DOMAIN dispatchOut[s] : dispatchOut[s][i] \in KnownOp
    BY <2>1
  <2>. QED
    BY <2>2 DEF KnownOp
<1>3. \A r \in rpcs : r.from \in Server /\ r.to \in Server \ {r.from} /\ r.term \in Nat
  <2>1. \A r \in rpcs : ThreadType(r)
    BY DEF TypeInv, RpcTypes, RpcType, RequestType, ReplyType, VoteRequestType, VoteReplyType
  <2>. QED
    BY <2>1 DEF ThreadType, Awake
<1>4. \A u \in unlocked : u.at \in Server /\ u.change \in Change
  BY DEF TypeInv, GapTypes, GapType, Awake
<1>5. /\ currentTerm \in [Server -> Nat \cup {-1}]
      /\ votedFor \in [Server -> Server \cup {Nil}]
      /\ role \in [Server -> {"Follower", "Candidate", "Leader"}]
      /\ votesReceived \in [Server -> Nat]
  BY DEF TypeInv, TermTypes, Index
<1>6. /\ commitIndex \in [Server -> Nat \cup {-1}]
      /\ clusterConfig \in [Server -> SUBSET Server]
      /\ lastConfigChangeIndex \in [Server -> Nat \cup {-1}]
      /\ detached \subseteq Server
  BY DEF TypeInv, LogTypes, Index
<1>7. /\ nextIndex \in [Server -> [Server -> Nat]]
      /\ matchIndex \in [Server -> [Server -> Nat \cup {-1}]]
      /\ peers \in [Server -> SUBSET Server]
      /\ lastKnownLeaderId \in [Server -> Server]
  BY DEF TypeInv, PeerTypes, Index
<1>8. /\ calls \subseteq [at : Server, change : Change, phase : {"waitPrev", "submit", "waitCommit"},
                          prev : Nat \cup {-1}]
      /\ booting \subseteq Server \ Members
      /\ unsubmitted \subseteq Op
      /\ callsLeft \in 0..MaxCalls
  BY DEF TypeInv, InputTypes, Call, Index
<1>. QED
  BY <1>1, <1>2, <1>3, <1>4, <1>5, <1>6, <1>7, <1>8 DEF TypeOK

LEMMA TypesHold == ASSUME ~Overlap PROVE Spec => []TypeInv
<1>1. TypeInv /\ [Next]_vars => TypeInv'
  BY NextTypes
<1>. QED
  BY <1>1, InitTypes, PTL DEF Spec

\* The variables have their types: a term of a leader or a candidate is never
\* the -1 that a leader takes when it resigns, and so no entry is pushed under
\* it; no index of a request or of a peer falls below its range.
THEOREM ClusterTypes == ASSUME ~Overlap PROVE Spec => []TypeOK
BY TypesHold, TypesImply, PTL

-----------------------------------------------------------------------------
\* The configuration of a replica that is not detached, and its peers, or what
\* they are going to be, follow its log.  A process that is starting has neither
\* a log nor peers.  LastConfigChangeIndex bounds the changes of every log.

LastChange == \A s \in Server : \A i \in ChangesIn(log[s]) : i <= lastConfigChangeIndex[s] + 1

Follows(s) ==
    /\ clusterConfig[s] = ConfigOf(log[s])
    /\ lastConfigChangeIndex[s] + 1 \in ChangesIn(log[s]) \cup {0}
    /\ s \notin booting =>
         /\ (\A u \in unlocked : u.at # s) => peers[s] = ConfigOf(log[s]) \ {s}
         /\ \A u \in unlocked : u.at = s => Changed(peers[s], u.change) \ {s} = ConfigOf(log[s]) \ {s}

NotBorn(s) == log[s] = <<>> /\ peers[s] = {}

ConfigInv ==
    /\ LastChange
    /\ \A s \in Server \ detached : Follows(s)
    /\ \A s \in booting : NotBorn(s)

\* What becomes of unlocked after a push.
Stops(s, es) ==
    LET n == Batch(OpsOf(es)) IN
    /\ ~HasChange(OpsOf(es)) => unlocked' = {}
    /\ HasChange(OpsOf(es)) => \E u : unlocked' = {u} /\ u.at = s /\ u.change = es[n].op

\* A push, and the configuration of the log that it makes.
LEMMA PushFollows ==
    ASSUME LogTypes, NEW s \in Server, NEW lg \in Seq(Entry), NEW es \in Seq(Entry),
           Pushes(s, lg, es), \A i \in ChangesIn(lg) : i <= lastConfigChangeIndex[s] + 1
    PROVE  LET n == Batch(OpsOf(es)) IN
           /\ \A i \in ChangesIn(log'[s]) : i <= lastConfigChangeIndex'[s] + 1
           /\ ~HasChange(OpsOf(es)) => /\ ConfigOf(log'[s]) = ConfigOf(lg)
                                       /\ ChangesIn(log'[s]) = ChangesIn(lg)
                                       /\ UNCHANGED <<clusterConfig, lastConfigChangeIndex>>
           /\ HasChange(OpsOf(es)) =>
                 /\ ConfigOf(log'[s]) = Changed(ConfigOf(lg), es[n].op)
                 /\ clusterConfig'[s] = Changed(clusterConfig[s], es[n].op)
                 /\ es[n].op \in Op \cup Change /\ IsChange(es[n].op)
                 /\ ChangesIn(log'[s]) = ChangesIn(lg) \cup {lastConfigChangeIndex'[s] + 1}
           /\ \A p \in Server \ {s} : /\ log'[p] = log[p] /\ clusterConfig'[p] = clusterConfig[p]
                                      /\ lastConfigChangeIndex'[p] = lastConfigChangeIndex[p]
<1>. DEFINE ops == OpsOf(es)
            n == Batch(ops)
            batch == SubSeq(es, 1, n)
            new == lg \o batch
<1>1. /\ n \in 0..Len(es) /\ Len(es) \in Nat /\ batch \in Seq(Entry) /\ Len(batch) = n
      /\ \A i \in 1..n : batch[i] = es[i]
      /\ \A i \in 1..(n - 1) : ~IsChange(es[i].op)
      /\ HasChange(ops) => n \in 1..Len(es) /\ es[n] \in Entry /\ IsChange(es[n].op)
      /\ ~HasChange(ops) => n = Len(es) /\ \A i \in 1..Len(es) : ~IsChange(es[i].op)
  BY BatchOf
<1>2. /\ log' = [log EXCEPT ![s] = new]
      /\ HasChange(ops) =>
            /\ clusterConfig' = [clusterConfig EXCEPT ![s] = Changed(clusterConfig[s], es[n].op)]
            /\ lastConfigChangeIndex' = [lastConfigChangeIndex EXCEPT ![s] = Len(lg) + n - 1]
      /\ ~HasChange(ops) => UNCHANGED <<clusterConfig, lastConfigChangeIndex>>
  BY DEF Pushes
<1>3. /\ log \in [Server -> Seq(Entry)] /\ clusterConfig \in [Server -> SUBSET Server]
      /\ lastConfigChangeIndex \in [Server -> Index]
  BY DEF LogTypes
<1>4. \A e \in Entry : e.op \in Op \cup Change
  BY DEF Entry, KnownOp
<1>5. Len(lg) \in Nat /\ \A i \in ChangesIn(lg) : i \in 1..Len(lg)
  BY DEF ChangesIn
<1>. HIDE DEF ops, n, batch, new
<1>6. log'[s] = new /\ \A p \in Server \ {s} : log'[p] = log[p]
  BY <1>2, <1>3
<1>7. CASE ~HasChange(ops)
  <2>1. \A i \in 1..Len(batch) : ~IsChange(batch[i].op)
    BY <1>1, <1>7
  <2>2. ChangesIn(new) = ChangesIn(lg) /\ ConfigOf(new) = ConfigOf(lg)
    BY <1>1, <2>1, PushedNoChange DEF new
  <2>. QED
    BY <1>2, <1>6, <1>7, <2>2 DEF ops, n
<1>8. CASE HasChange(ops)
  <2>1. /\ Len(batch) > 0 /\ batch[Len(batch)] = es[n]
        /\ IsChange(batch[Len(batch)].op)
        /\ \A i \in 1..(Len(batch) - 1) : ~IsChange(batch[i].op)
    BY <1>1, <1>8
  <2>2. /\ ChangesIn(new) = ChangesIn(lg) \cup {Len(lg) + n}
        /\ ConfigOf(new) = Changed(ConfigOf(lg), es[n].op)
    <3>1. batch \in Seq(Entry) /\ Len(batch) = n
      BY <1>1
    <3>2. /\ ChangesIn(lg \o batch) = ChangesIn(lg) \cup {Len(lg) + Len(batch)}
          /\ ConfigOf(lg \o batch) = Changed(ConfigOf(lg), batch[Len(batch)].op)
      BY <1>4, <2>1, <3>1, PushedChange
    <3>. QED
      BY <2>1, <3>1, <3>2 DEF new
  <2>3. /\ lastConfigChangeIndex'[s] + 1 = Len(lg) + n
        /\ clusterConfig'[s] = Changed(clusterConfig[s], es[n].op)
        /\ \A p \in Server \ {s} : /\ clusterConfig'[p] = clusterConfig[p]
                                   /\ lastConfigChangeIndex'[p] = lastConfigChangeIndex[p]
    <3>1. lastConfigChangeIndex'[s] = Len(lg) + n - 1 /\ n \in Nat
      BY <1>1, <1>2, <1>3, <1>8
    <3>. QED
      BY <1>2, <1>3, <1>5, <1>8, <3>1
  <2>4. \A i \in ChangesIn(new) : i <= Len(lg) + n
    BY <1>1, <1>5, <2>2
  <2>5. es[n].op \in Op \cup Change /\ IsChange(es[n].op)
    BY <1>1, <1>4, <1>8
  <2>. QED
    BY <1>6, <1>8, <2>2, <2>3, <2>4, <2>5 DEF ops, n
<1>. QED
  BY <1>7, <1>8 DEF ops

\* A change applied to the peers.  The replica itself is none of them.
LEMMA ApplyIs ==
    ASSUME PeerTypes, NEW s \in Server, NEW op \in KnownOp, IsChange(op), ApplyToPeers(s, op)
    PROVE  /\ peers'[s] = Changed(peers[s], op) \ {s}
           /\ \A p \in Server \ {s} : peers'[p] = peers[p]
<1>1. peers \in [Server -> SUBSET Server] /\ s \notin peers[s]
  BY DEF PeerTypes
<1>2. op \in Op \cup Change /\ Changed(peers[s], op) =
         IF op.kind = "ADD_SERVER" THEN peers[s] \cup {ChangedId(op)} ELSE peers[s] \ {ChangedId(op)}
  BY ChangedIs DEF KnownOp
<1>3. op.kind = "ADD_SERVER" \/ op.kind = "REMOVE_SERVER"
  BY <1>2, ChangesAreOps
<1>4. CASE ChangedId(op) = s /\ UNCHANGED <<peers, leaderVars>>
  BY <1>1, <1>2, <1>4
<1>5. CASE ChangedId(op) # s /\ op.kind = "ADD_SERVER" /\ AddPeers(s, {ChangedId(op)})
  <2>1. peers' = [peers EXCEPT ![s] = peers[s] \cup {ChangedId(op)}]
    BY <1>5 DEF AddPeers
  <2>. QED
    BY <1>1, <1>2, <1>5, <2>1
<1>6. CASE ChangedId(op) # s /\ op.kind = "REMOVE_SERVER" /\ RemovePeer(s, ChangedId(op))
  <2>1. peers' = [peers EXCEPT ![s] = peers[s] \ {ChangedId(op)}]
    BY <1>6 DEF RemovePeer
  <2>. QED
    BY <1>1, <1>2, <1>6, <2>1
<1>. QED
  BY <1>4, <1>5, <1>6 DEF ApplyToPeers

\* A loop pushes on the log lg, which the configuration follows.
LEMMA PushConfig ==
    ASSUME TypeInv, ConfigInv, Prompt, NEW s \in Awake,
           NEW lg \in Seq(Entry), NEW es \in Seq(Entry),
           Pushes(s, lg, es), Stops(s, es), booting' = booting, detached \subseteq detached',
           \A i \in ChangesIn(lg) : i <= lastConfigChangeIndex[s] + 1,
           s \in detached' \/ /\ clusterConfig[s] = ConfigOf(lg)
                              /\ lastConfigChangeIndex[s] + 1 \in ChangesIn(lg) \cup {0}
                              /\ peers'[s] = ConfigOf(lg) \ {s},
           \A p \in Server \ {s} : peers'[p] = peers[p],
           \A u \in unlocked : u.at = s
    PROVE  ConfigInv'
<1>. DEFINE n == Batch(OpsOf(es))
            has == HasChange(OpsOf(es))
<1>1. s \in Server /\ s \notin booting
  BY DEF Awake
<1>2. /\ \A i \in ChangesIn(log'[s]) : i <= lastConfigChangeIndex'[s] + 1
      /\ ~has => /\ ConfigOf(log'[s]) = ConfigOf(lg) /\ ChangesIn(log'[s]) = ChangesIn(lg)
                 /\ UNCHANGED <<clusterConfig, lastConfigChangeIndex>>
      /\ has => /\ ConfigOf(log'[s]) = Changed(ConfigOf(lg), es[n].op)
                /\ clusterConfig'[s] = Changed(clusterConfig[s], es[n].op)
                /\ es[n].op \in Op \cup Change /\ IsChange(es[n].op)
                /\ ChangesIn(log'[s]) = ChangesIn(lg) \cup {lastConfigChangeIndex'[s] + 1}
      /\ \A p \in Server \ {s} : /\ log'[p] = log[p] /\ clusterConfig'[p] = clusterConfig[p]
                                 /\ lastConfigChangeIndex'[p] = lastConfigChangeIndex[p]
  BY <1>1, PushFollows DEF TypeInv
<1>3. /\ ~has => unlocked' = {}
      /\ has => \E u : unlocked' = {u} /\ u.at = s /\ u.change = es[n].op
  BY DEF Stops
<1>. HIDE DEF n, has
<1>4. LastChange'
  BY <1>2 DEF ConfigInv, LastChange
<1>5. ASSUME s \notin detached' PROVE Follows(s)'
  <2>1. /\ clusterConfig[s] = ConfigOf(lg) /\ lastConfigChangeIndex[s] + 1 \in ChangesIn(lg) \cup {0}
        /\ peers'[s] = ConfigOf(lg) \ {s}
    BY <1>5
  <2>2. CASE ~has
    BY <1>2, <1>3, <2>1, <2>2 DEF Follows
  <2>3. CASE has
    <3>1. PICK u : unlocked' = {u} /\ u.at = s /\ u.change = es[n].op
      BY <1>3, <2>3
    <3>2. Changed(peers'[s], u.change) \ {s} = ConfigOf(log'[s]) \ {s}
      <4>1. es[n].op \in Op \cup Change /\ IsChange(es[n].op) /\ peers'[s] \ {s} = ConfigOf(lg) \ {s}
        BY <1>2, <2>1, <2>3
      <4>2. Changed(peers'[s], es[n].op) \ {s} = Changed(ConfigOf(lg), es[n].op) \ {s}
        <5>. DEFINE op == es[n].op
                    config == peers'[s]
                    ids == ConfigOf(lg)
        <5>1. op \in Op \cup Change /\ IsChange(op) /\ config \ {s} = ids \ {s}
          BY <4>1
        <5>. HIDE DEF op, config, ids
        <5>2. Changed(config, op) \ {s} = Changed(ids, op) \ {s}
          <6>1. /\ Changed(config, op) = IF op.kind = "ADD_SERVER" THEN config \cup {ChangedId(op)}
                                         ELSE config \ {ChangedId(op)}
                /\ Changed(ids, op) = IF op.kind = "ADD_SERVER" THEN ids \cup {ChangedId(op)}
                                      ELSE ids \ {ChangedId(op)}
            BY <5>1, ChangedIs
          <6>. QED
            BY <5>1, <6>1
        <5>. QED
          BY <5>2 DEF op, config, ids
      <4>. QED
        BY <1>2, <2>3, <3>1, <4>2
    <3>3. clusterConfig'[s] = ConfigOf(log'[s])
      BY <1>2, <2>1, <2>3
    <3>4. lastConfigChangeIndex'[s] + 1 \in ChangesIn(log'[s]) \cup {0}
      BY <1>2, <2>3
    <3>. QED
      BY <3>1, <3>2, <3>3, <3>4 DEF Follows
  <2>. QED
    BY <2>2, <2>3
<1>6. ASSUME NEW p \in Server \ detached', p # s PROVE Follows(p)'
  <2>1. Follows(p)
    BY <1>6 DEF ConfigInv
  <2>2. (\A u \in unlocked : u.at # p) /\ (\A u \in unlocked' : u.at # p)
    BY <1>3, <1>6
  <2>. QED
    BY <1>2, <1>6, <2>1, <2>2 DEF Follows
<1>7. \A p \in booting : p \in Server \ {s}
  BY <1>1 DEF TypeInv, InputTypes
<1>8. \A p \in booting' : NotBorn(p)'
  BY <1>2, <1>7 DEF ConfigInv, NotBorn
<1>. QED
  BY <1>4, <1>5, <1>6, <1>8 DEF ConfigInv

\* Without changes the configuration is the one of the file.
LEMMA ConfigOfEmpty == ConfigOf(<<>>) = Members /\ ChangesIn(<<>>) = {}
<1>1. ChangesIn(<<>>) = {}
  BY DEF ChangesIn
<1>2. \A id \in Server : Latest(<<>>, id) = {}
  BY <1>1 DEF Latest
<1>. QED
  BY <1>1, <1>2, ClusterAssumption DEF ConfigOf

LEMMA InitConfig == Init => ConfigInv
<1>. SUFFICES ASSUME Init PROVE ConfigInv
  OBVIOUS
<1>1. \A s \in Server : /\ log[s] = <<>> /\ clusterConfig[s] = Members
                        /\ lastConfigChangeIndex[s] = -1
                        /\ peers[s] = IF s \in Members THEN Members \ {s} ELSE {}
  BY DEF Init
<1>2. unlocked = {} /\ booting = Server \ Members
  BY DEF Init
<1>3. LastChange
  BY <1>1, ConfigOfEmpty DEF LastChange
<1>4. \A s \in Server : Follows(s)
  <2>1. ASSUME NEW s \in Server, s \notin booting PROVE peers[s] = Members \ {s}
    BY <1>1, <1>2, <2>1
  <2>2. ASSUME NEW s \in Server PROVE lastConfigChangeIndex[s] + 1 = 0
    <3>1. lastConfigChangeIndex[s] = -1
      BY <1>1
    <3>. QED
      BY <3>1
  <2>. QED
    BY <1>1, <1>2, <2>1, <2>2, ConfigOfEmpty DEF Follows
<1>5. \A s \in booting : NotBorn(s)
  BY <1>1, <1>2 DEF NotBorn
<1>. QED
  BY <1>3, <1>4, <1>5 DEF ConfigInv

\* Steps that touch neither logs nor configurations.
LEMMA KeepConfig ==
    ASSUME ConfigInv, UNCHANGED <<log, clusterConfig, lastConfigChangeIndex, peers, detached, booting, unlocked>>
    PROVE  ConfigInv'
<1>1. LastChange'
  BY DEF ConfigInv, LastChange
<1>2. \A s \in Server \ detached' : Follows(s)'
  BY DEF ConfigInv, Follows
<1>3. \A s \in booting' : NotBorn(s)'
  BY DEF ConfigInv, NotBorn
<1>. QED
  BY <1>1, <1>2, <1>3 DEF ConfigInv

\* An answer with an address detaches the replica if it inserts a key.
LEMMA ConfigAnswerError ==
    ASSUME TypeInv, ConfigInv, NEW s \in Server, AnswerError(s),
           UNCHANGED <<log, peers, booting, unlocked>>
    PROVE  ConfigInv'
<1>1. \A p \in Server : p # s => clusterConfig'[p] = clusterConfig[p]
  BY DEF AnswerError, Insert, TypeInv, LogTypes
<1>2. CASE Insert(s) = clusterConfig
  BY <1>2, KeepConfig DEF AnswerError
<1>3. CASE Insert(s) # clusterConfig
  <2>1. detached' = detached \cup {s} /\ lastConfigChangeIndex' = lastConfigChangeIndex
    BY <1>3 DEF AnswerError
  <2>2. LastChange'
    BY <2>1 DEF ConfigInv, LastChange
  <2>3. \A p \in Server \ detached' : Follows(p)'
    BY <1>1, <2>1 DEF ConfigInv, Follows
  <2>4. \A p \in booting' : NotBorn(p)'
    BY DEF ConfigInv, NotBorn
  <2>. QED
    BY <2>2, <2>3, <2>4 DEF ConfigInv
<1>. QED
  BY <1>2, <1>3

\* A process that has started has the peers of the file and an empty log.
LEMMA ConfigFinishBoot ==
    ASSUME TypeInv, ConfigInv, unlocked = {}, NEW s \in Server, FinishBoot(s)
    PROVE  ConfigInv'
<1>1. /\ s \in booting /\ booting' = booting \ {s} /\ AddPeers(s, Members \ {s})
      /\ UNCHANGED <<log, clusterConfig, lastConfigChangeIndex, detached, unlocked>>
  BY DEF FinishBoot, configVars
<1>2. /\ peers' = [peers EXCEPT ![s] = peers[s] \cup (Members \ {s})]
      /\ peers \in [Server -> SUBSET Server]
  BY <1>1 DEF AddPeers, TypeInv, PeerTypes
<1>3. peers'[s] = Members \ {s} /\ log[s] = <<>> /\ \A p \in Server : p # s => peers'[p] = peers[p]
  BY <1>1, <1>2 DEF ConfigInv, NotBorn
<1>4. LastChange'
  BY <1>1 DEF ConfigInv, LastChange
<1>5. ASSUME NEW p \in Server \ detached' PROVE Follows(p)'
  <2>1. Follows(p)
    BY <1>1 DEF ConfigInv
  <2>2. CASE p = s
    BY <1>1, <1>3, <2>1, <2>2, ConfigOfEmpty DEF Follows
  <2>3. CASE p # s
    BY <1>1, <1>3, <2>1, <2>3 DEF Follows
  <2>. QED
    BY <2>2, <2>3
<1>6. \A p \in booting' : NotBorn(p)'
  BY <1>1, <1>3 DEF ConfigInv, NotBorn, TypeInv, InputTypes
<1>. QED
  BY <1>4, <1>5, <1>6 DEF ConfigInv

\* What a round and the handler of AppendEntries push.
LEMMA RoundPushes ==
    ASSUME TypeInv, NEW s \in Server, role[s] = "Leader", NEW ops \in Seq(KnownOp), NEW term,
           Round(s, ops, term, {})
    PROVE  \E es \in Seq(Entry) :
              /\ Pushes(s, log[s], es) /\ Stops(s, es) /\ OpsOf(es) = ops
              /\ HasChange(ops) => \A u \in unlocked' :
                    u.thread = "round" /\ u.rest = SubSeq(ops, Batch(ops) + 1, Len(ops))
<1>. DEFINE es == [i \in DOMAIN ops |-> [term |-> currentTerm[s], op |-> ops[i]]]
            n == Batch(ops)
            u == [thread |-> "round", at |-> s, change |-> ops[n],
                  rest |-> SubSeq(ops, n + 1, Len(ops)), term |-> term]
<1>1. currentTerm[s] \in Nat
  BY DEF TypeInv, TermTypes
<1>2. es \in Seq(Entry) /\ OpsOf(es) = ops /\ \A i \in 1..Len(ops) : es[i].op = ops[i]
  BY <1>1, RoundEntries
<1>3. /\ Push(s, log[s], es)
      /\ HasChange(ops) => unlocked' = {u}
      /\ ~HasChange(ops) => unlocked' = {}
  BY DEF Round
<1>4. u.thread = "round" /\ u.at = s /\ u.change = ops[n] /\ u.rest = SubSeq(ops, n + 1, Len(ops))
  OBVIOUS
<1>5. HasChange(ops) => n \in 1..Len(ops)
  BY BatchHas
<1>. HIDE DEF es, u
<1>6. Pushes(s, log[s], es)
  BY <1>3, PushIs
<1>7. Stops(s, es)
  BY <1>2, <1>3, <1>4, <1>5 DEF Stops
<1>. QED
  BY <1>2, <1>3, <1>4, <1>6, <1>7

LEMMA ExtendPushes ==
    ASSUME NEW s, NEW lg, NEW es \in Seq(Sent), NEW index, NEW r, Extend(s, lg, es, index, r, {})
    PROVE  /\ \E en \in Seq(Entry) : Pushes(s, lg, en) /\ Stops(s, en)
           /\ \A u \in unlocked' : u.thread = "AppendEntries"
<1>. DEFINE en == [i \in DOMAIN es |-> [term |-> es[i].term, op |-> es[i].op]]
            n == Batch(OpsOf(es))
            u == [thread |-> "AppendEntries", at |-> s, change |-> es[n].op, request |-> r,
                  rest |-> SubSeq(es, n + 1, Len(es)), index |-> index + n]
<1>1. en \in Seq(Entry) /\ OpsOf(en) = OpsOf(es) /\ \A i \in 1..Len(es) : en[i].op = es[i].op
  BY SentEntries
<1>2. /\ Push(s, lg, en)
      /\ HasChange(OpsOf(es)) => unlocked' = {u}
      /\ ~HasChange(OpsOf(es)) => unlocked' = {}
  BY DEF Extend
<1>3. u.thread = "AppendEntries" /\ u.at = s /\ u.change = es[n].op
  OBVIOUS
<1>4. HasChange(OpsOf(es)) => n \in 1..Len(es)
  BY BatchOf
<1>. HIDE DEF en, u
<1>5. Pushes(s, lg, en)
  BY <1>2, PushIs
<1>6. Stops(s, en)
  BY <1>1, <1>2, <1>3, <1>4 DEF Stops
<1>. QED
  BY <1>1, <1>2, <1>3, <1>5, <1>6

\* What ConfigInv says of a replica outside a gap, and in one.
LEMMA FollowsNow ==
    ASSUME ConfigInv, NEW s \in Server \ detached, s \notin booting
    PROVE  /\ clusterConfig[s] = ConfigOf(log[s])
           /\ lastConfigChangeIndex[s] + 1 \in ChangesIn(log[s]) \cup {0}
           /\ (\A u \in unlocked : u.at # s) => peers[s] = ConfigOf(log[s]) \ {s}
           /\ \A u \in unlocked : u.at = s => Changed(peers[s], u.change) \ {s} = ConfigOf(log[s]) \ {s}
BY DEF ConfigInv, Follows

LEMMA ConfigRunLeaderOneIter ==
    ASSUME TypeInv, ConfigInv, Prompt, unlocked = {}, NEW s \in Server, RunLeaderOneIter(s)
    PROVE  ConfigInv'
<1>1. /\ role[s] = "Leader" /\ Round(s, dispatchOut[s], currentTerm[s], {})
      /\ UNCHANGED <<peers, detached, booting>>
  BY DEF RunLeaderOneIter
<1>2. s \in Awake /\ dispatchOut[s] \in Seq(KnownOp) /\ s \notin booting /\ log[s] \in Seq(Entry)
  BY <1>1 DEF TypeInv, TermTypes, InputTypes, LogTypes, Awake
<1>3. PICK es \in Seq(Entry) : Pushes(s, log[s], es) /\ Stops(s, es)
  BY <1>1, <1>2, RoundPushes
<1>4. \A i \in ChangesIn(log[s]) : i <= lastConfigChangeIndex[s] + 1
  BY DEF ConfigInv, LastChange
<1>5. s \in detached' \/ /\ clusterConfig[s] = ConfigOf(log[s])
                         /\ lastConfigChangeIndex[s] + 1 \in ChangesIn(log[s]) \cup {0}
                         /\ peers'[s] = ConfigOf(log[s]) \ {s}
  BY <1>1, <1>2, FollowsNow
<1>6. /\ \A p \in Server \ {s} : peers'[p] = peers[p]
      /\ \A u \in unlocked : u.at = s
      /\ booting' = booting /\ detached \subseteq detached'
  BY <1>1
<1>. QED
  BY <1>2, <1>3, <1>4, <1>5, <1>6, PushConfig

\* A loop goes on after a gap.
LEMMA ConfigResume ==
    ASSUME TypeInv, ConfigInv, Prompt, NEW u \in unlocked, ApplyToPeers(u.at, u.change),
           NEW es \in Seq(Entry), Pushes(u.at, log[u.at], es), Stops(u.at, es),
           UNCHANGED <<detached, booting>>
    PROVE  ConfigInv'
<1>. DEFINE s == u.at
<1>1. /\ s \in Awake /\ s \in Server /\ s \notin booting /\ log[s] \in Seq(Entry)
      /\ u.change \in KnownOp /\ IsChange(u.change) /\ \A v \in unlocked : v.at = s
  BY OperationAssumption DEF TypeInv, GapTypes, GapType, Awake, LogTypes
<1>2. peers'[s] = Changed(peers[s], u.change) \ {s} /\ \A p \in Server \ {s} : peers'[p] = peers[p]
  BY <1>1, ApplyIs DEF TypeInv
<1>3. \A i \in ChangesIn(log[s]) : i <= lastConfigChangeIndex[s] + 1
  BY <1>1 DEF ConfigInv, LastChange
<1>4. s \in detached' \/ /\ clusterConfig[s] = ConfigOf(log[s])
                         /\ lastConfigChangeIndex[s] + 1 \in ChangesIn(log[s]) \cup {0}
                         /\ peers'[s] = ConfigOf(log[s]) \ {s}
  BY <1>1, <1>2, FollowsNow
<1>. HIDE DEF s
<1>5. Pushes(s, log[s], es) /\ Stops(s, es)
  BY DEF s
<1>6. booting' = booting /\ detached \subseteq detached'
  OBVIOUS
<1>. QED
  BY <1>1, <1>2, <1>3, <1>4, <1>5, <1>6, PushConfig

LEMMA ConfigResumeRound ==
    ASSUME TypeInv, ConfigInv, Prompt, NEW u \in unlocked, ResumeRound(u)
    PROVE  ConfigInv'
<1>1. /\ u.thread = "round" /\ ApplyToPeers(u.at, u.change)
      /\ Round(u.at, u.rest, u.term, unlocked \ {u}) /\ UNCHANGED <<detached, booting>>
  BY DEF ResumeRound
<1>2. /\ u.at \in Server /\ role[u.at] = "Leader" /\ u.rest \in Seq(KnownOp) /\ unlocked \ {u} = {}
  BY <1>1 DEF TypeInv, GapTypes, GapType, Awake
<1>3. PICK es \in Seq(Entry) : Pushes(u.at, log[u.at], es) /\ Stops(u.at, es)
  <2>1. Round(u.at, u.rest, u.term, {})
    BY <1>1, <1>2
  <2>. QED
    BY <1>2, <2>1, RoundPushes
<1>. QED
  BY <1>1, <1>3, ConfigResume

LEMMA ConfigResumeAppendEntries ==
    ASSUME TypeInv, ConfigInv, Prompt, NEW u \in unlocked, ResumeAppendEntries(u)
    PROVE  ConfigInv'
<1>1. /\ u.thread = "AppendEntries" /\ ApplyToPeers(u.at, u.change)
      /\ Extend(u.at, log[u.at], u.rest, u.index, u.request, unlocked \ {u})
      /\ UNCHANGED <<detached, booting>>
  BY DEF ResumeAppendEntries
<1>2. u.rest \in Seq(Sent) /\ unlocked \ {u} = {}
  BY <1>1 DEF TypeInv, GapTypes, GapType
<1>3. PICK es \in Seq(Entry) : Pushes(u.at, log[u.at], es) /\ Stops(u.at, es)
  BY <1>1, <1>2, ExtendPushes
<1>. QED
  BY <1>1, <1>3, ConfigResume

\* AppendEntries pushes on the part of the log that it keeps.
LEMMA AppendEntriesPushes ==
    ASSUME TypeInv, unlocked = {}, NEW r \in rpcs, RequestType(r), AppendEntries(r), Accepted(r)
    PROVE  LET s == r.to
               kept == SubSeq(log[s], 1, Kept(r))
           IN  /\ \E en \in Seq(Entry) : Pushes(s, kept, en) /\ Stops(s, en)
               /\ \A u \in unlocked' : u.thread = "AppendEntries"
               /\ Kept(r) \in 0..Len(log[s])
               /\ detached' = IF \E i \in (Kept(r) + 1)..Len(log[s]) : IsChange(log[s][i].op)
                              THEN detached \cup {s} ELSE detached
<1>. DEFINE s == r.to
            es == Unpack(r.entries)
            n == Agreeing(log[s], r.prevLogIndex, es)
            kept == IF n = Len(es) THEN log[s] ELSE SubSeq(log[s], 1, r.prevLogIndex + 1 + n)
<1>1. /\ Extend(s, kept, SubSeq(es, n + 1, Len(es)), r.prevLogIndex + 1 + n, r, {})
      /\ detached' = IF \E i \in (Len(kept) + 1)..Len(log[s]) : IsChange(log[s][i].op)
                     THEN detached \cup {s} ELSE detached
  BY DEF AppendEntries
<1>2. /\ log[s] \in Seq(Entry) /\ Kept(r) \in 0..Len(log[s]) /\ kept = SubSeq(log[s], 1, Kept(r))
      /\ SubSeq(es, n + 1, Len(es)) \in Seq(Sent)
  BY KeptIs
<1>. HIDE DEF es, n, kept
<1>3. Len(kept) = Kept(r)
  BY <1>2, PrefixIs
<1>4. /\ \E en \in Seq(Entry) : Pushes(s, kept, en) /\ Stops(s, en)
      /\ \A u \in unlocked' : u.thread = "AppendEntries"
  BY <1>1, <1>2, ExtendPushes
<1>. QED
  BY <1>1, <1>2, <1>3, <1>4

\* The handler of AppendEntries detaches a replica if it cuts a change off.
LEMMA ConfigAppendEntries ==
    ASSUME TypeInv, ConfigInv, Prompt, unlocked = {}, NEW r \in rpcs, RequestType(r), AppendEntries(r)
    PROVE  ConfigInv'
<1>. DEFINE s == r.to
            lg == SubSeq(log[s], 1, Kept(r))
<1>1. UNCHANGED <<peers, booting>>
  BY DEF AppendEntries
<1>2. s \in Awake /\ s \in Server /\ s \notin booting /\ log[s] \in Seq(Entry)
  BY DEF RequestType, ThreadType, Awake, TypeInv, LogTypes
<1>3. CASE Accepted(r)
  <2>1. /\ \E en \in Seq(Entry) : Pushes(s, lg, en) /\ Stops(s, en)
        /\ Kept(r) \in 0..Len(log[s])
        /\ detached' = IF \E i \in (Kept(r) + 1)..Len(log[s]) : IsChange(log[s][i].op)
                       THEN detached \cup {s} ELSE detached
    BY <1>3, AppendEntriesPushes
  <2>2. PICK en \in Seq(Entry) : Pushes(s, lg, en) /\ Stops(s, en)
    BY <2>1
  <2>3. /\ lg \in Seq(Entry) /\ ChangesIn(lg) \subseteq ChangesIn(log[s])
        /\ (\A i \in (Kept(r) + 1)..Len(log[s]) : ~IsChange(log[s][i].op)) =>
              ChangesIn(lg) = ChangesIn(log[s]) /\ ConfigOf(lg) = ConfigOf(log[s])
    BY <1>2, <2>1, PrefixIs, PrefixChanges
  <2>. HIDE DEF lg
  <2>4. \A i \in ChangesIn(lg) : i <= lastConfigChangeIndex[s] + 1
    BY <1>2, <2>3 DEF ConfigInv, LastChange
  <2>5. s \in detached' \/ /\ clusterConfig[s] = ConfigOf(lg)
                           /\ lastConfigChangeIndex[s] + 1 \in ChangesIn(lg) \cup {0}
                           /\ peers'[s] = ConfigOf(lg) \ {s}
    BY <1>1, <1>2, <2>1, <2>3, FollowsNow
  <2>6. /\ \A p \in Server \ {s} : peers'[p] = peers[p]
        /\ \A u \in unlocked : u.at = s
        /\ booting' = booting /\ detached \subseteq detached'
    BY <1>1, <2>1
  <2>. HIDE DEF s
  <2>. QED
    BY <1>2, <2>2, <2>3, <2>4, <2>5, <2>6, PushConfig
<1>4. CASE ~Accepted(r)
  BY <1>1, <1>4, KeepConfig DEF AppendEntries, configVars
<1>. QED
  BY <1>3, <1>4

\* ConfigInv is inductive.
LEMMA NextConfig == ASSUME ~Overlap, Prompt, TypeInv, ConfigInv, [Next]_vars PROVE ConfigInv'
<1>1. CASE UNCHANGED vars
  BY <1>1, KeepConfig DEF vars, configVars
<1>2. ASSUME NEW u \in unlocked, ResumeRound(u) \/ ResumeAppendEntries(u)
      PROVE  ConfigInv'
  BY <1>2, ConfigResumeRound, ConfigResumeAppendEntries
<1>3. ASSUME Settled PROVE unlocked = {}
  BY <1>3 DEF Settled
<1>4. ASSUME Settled, NEW s \in Server,
             \/ FinishBoot(s) \/ StartElection(s) \/ RunLeaderOneIter(s) \/ RaftImplOther(s)
             \/ \E op \in Op : Submit(s, op)
             \/ \E op \in Change : RefuseCall(s, op) \/ BeginCall(s, op)
      PROVE  ConfigInv'
  <2>1. CASE FinishBoot(s)
    BY <1>3, <1>4, <2>1, ConfigFinishBoot
  <2>2. CASE StartElection(s) \/ RaftImplOther(s) \/ \E op \in Op : Submit(s, op)
    BY <2>2, KeepConfig DEF StartElection, RaftImplOther, Submit, configVars
  <2>3. CASE RunLeaderOneIter(s)
    BY <1>3, <1>4, <2>3, ConfigRunLeaderOneIter
  <2>4. CASE \E op \in Change : RefuseCall(s, op)
    BY <2>4, ConfigAnswerError DEF RefuseCall
  <2>5. CASE \E op \in Change : BeginCall(s, op)
    BY <2>5, KeepConfig DEF BeginCall, configVars
  <2>. QED
    BY <1>4, <2>1, <2>2, <2>3, <2>4, <2>5
<1>5. ASSUME Settled, NEW r \in Threads("request", "AppendEntries"), AppendEntries(r)
      PROVE  ConfigInv'
  <2>1. r \in rpcs /\ RequestType(r)
    BY ThreadKinds DEF TypeInv
  <2>. QED
    BY <1>3, <1>5, <2>1, ConfigAppendEntries
<1>6. ASSUME \/ \E r \in rpcs : RefuseStranger(r) \/ RequestVote(r) \/ RequestVoteReply(r)
             \/ \E r \in rpcs : AppendEntriesReply(r) \/ LoseRPC(r)
      PROVE  ConfigInv'
  BY <1>6, KeepConfig
     DEF RefuseStranger, RequestVote, RequestVoteReply, AppendEntriesReply, LoseRPC, configVars
<1>7. ASSUME NEW c \in calls, PassPrev(c) \/ SubmitChange(c) \/ AnswerOk(c)
      PROVE  ConfigInv'
  BY <1>7, KeepConfig DEF PassPrev, SubmitChange, AnswerOk, configVars
<1>8. ASSUME NEW c \in calls, GiveUp(c)
      PROVE  ConfigInv'
  <2>1. c.at \in Server
    BY DEF TypeInv, InputTypes, Call
  <2>. QED
    BY <1>8, <2>1, ConfigAnswerError DEF GiveUp
<1>. QED
  BY <1>1, <1>2, <1>4, <1>5, <1>6, <1>7, <1>8 DEF Next, Threads

LEMMA ConfigHolds == ASSUME ~Overlap, Prompt PROVE Spec => [](TypeInv /\ ConfigInv)
<1>1. TypeInv /\ ConfigInv /\ [Next]_vars => TypeInv' /\ ConfigInv'
  BY NextTypes, NextConfig
<1>2. Init => TypeInv /\ ConfigInv
  BY InitTypes, InitConfig
<1>. QED
  BY <1>1, <1>2, PTL DEF Spec

\* ClusterConfig, peers_ and LastConfigChangeIndex of a replica follow its log,
\* unless an AppendEntries cut a change off or a lookup inserted a key.
THEOREM ConfigIsOfTheLog == ASSUME ~Overlap, Prompt PROVE Spec => []ConfigFollowsLog
<1>1. ConfigInv => ConfigFollowsLog
  BY DEF ConfigInv, LastChange, Follows, ConfigFollowsLog
<1>. QED
  BY <1>1, ConfigHolds, PTL
=============================================================================
