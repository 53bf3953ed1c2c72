-------------------------- MODULE RaftStorageProofs --------------------------
(***************************************************************************)
(* Proofs about the files of a replica: the log file holds the items that  *)
(* persistedItems counts, and the files implement DurableState up to and   *)
(* including the first crash that tears a record.                          *)
(*                                                                         *)
(* The file is looked at unit by unit (HoldsItems): item i takes the units *)
(* from (i - 1) * Width + 1 to i * Width, and less than a record is left   *)
(* at the end.  Then Records cuts the file into exactly those items.       *)
(***************************************************************************)
EXTENDS RaftStorage, Integers, TLAPS

-----------------------------------------------------------------------------
\* Products with the width of a record, and quotients by it.

LEMMA TimesWidth ==
    /\ Width \in Nat /\ Width >= 1
    /\ \A n \in Nat : n * Width \in Nat /\ (n + 1) * Width = n * Width + Width
BY StorageAssumption

LEMMA TimesMonotonic == ASSUME NEW m \in Nat, NEW n \in Nat, m <= n PROVE m * Width <= n * Width
BY StorageAssumption

LEMMA Quotient ==
    ASSUME NEW m \in Nat
    PROVE  /\ m \div Width \in Nat
           /\ (m \div Width) * Width <= m
           /\ m < (m \div Width + 1) * Width
BY StorageAssumption

LEMMA QuotientOf ==
    ASSUME NEW n \in Nat, NEW k \in 0..(Width - 1)
    PROVE  (n * Width + k) \div Width = n
<1>1. n * Width + k \in Nat /\ n * Width \in Nat /\ Width \in Nat /\ k < Width
  BY TimesWidth
<1>. DEFINE q == (n * Width + k) \div Width
<1>2. q \in Nat /\ q * Width <= n * Width + k /\ n * Width + k < (q + 1) * Width
  BY <1>1, Quotient
<1>. HIDE DEF q
<1>3. ASSUME q + 1 <= n PROVE FALSE
  <2>1. (q + 1) * Width <= n * Width
    BY <1>2, <1>3, TimesMonotonic
  <2>. QED
    BY <1>1, <1>2, <2>1, TimesWidth
<1>4. ASSUME n + 1 <= q PROVE FALSE
  <2>1. (n + 1) * Width <= q * Width
    BY <1>2, <1>4, TimesMonotonic
  <2>. QED
    BY <1>1, <1>2, <2>1, TimesWidth
<1>. QED
  BY <1>2, <1>3, <1>4 DEF q

-----------------------------------------------------------------------------
\* Records and units.

\* A piece of a sequence, and two sequences in a row.
LEMMA Piece ==
    ASSUME NEW S, NEW s \in Seq(S), NEW a \in Nat, NEW b \in Nat, a + b <= Len(s)
    PROVE  SubSeq(s, a + 1, a + b) = [k \in 1..b |-> s[a + k]]
<1>. DEFINE piece == SubSeq(s, a + 1, a + b)
<1>1. piece \in Seq(S) /\ Len(piece) = b /\ \A k \in 1..b : piece[k] = s[a + k]
  OBVIOUS
<1>. HIDE DEF piece
<1>2. piece = [k \in 1..b |-> piece[k]]
  BY <1>1
<1>. QED
  BY <1>1, <1>2 DEF piece

LEMMA InARow ==
    ASSUME NEW S, NEW s \in Seq(S), NEW t \in Seq(S)
    PROVE  /\ s \o t \in Seq(S)
           /\ Len(s \o t) = Len(s) + Len(t)
           /\ \A k \in 1..Len(s) : (s \o t)[k] = s[k]
           /\ \A k \in 1..Len(t) : (s \o t)[Len(s) + k] = t[k]
OBVIOUS

Unit == (Item \cup {Garbled}) \X (1..Width)

LEMMA UnitsType ==
    ASSUME NEW item \in Item \cup {Garbled}
    PROVE  /\ Units(item) \in Seq(Unit) /\ Len(Units(item)) = Width
           /\ \A k \in 1..Width : Units(item)[k] = <<item, k>>
BY TimesWidth DEF Units, Unit

LEMMA RecordType == \A units : Record(units) \in Item \cup {Garbled}
BY DEF Record

\* The units of a record are not those of another.
LEMMA RecordOfUnits == ASSUME NEW item \in Item PROVE Record(Units(item)) = item
<1>1. ASSUME NEW other \in Item, Units(item) = Units(other) PROVE item = other
  <2>1. Units(item)[1] = <<item, 1>> /\ Units(other)[1] = <<other, 1>>
    BY TimesWidth, UnitsType
  <2>. QED
    BY <1>1, <2>1
<1>2. \E other \in Item : Units(item) = Units(other)
  OBVIOUS
<1>. QED
  BY <1>1, <1>2 DEF Record

\* The file holds the first n items and rest units more.
HoldsItems(units, items, n, rest) ==
    /\ Len(units) = n * Width + rest
    /\ \A i \in 1..n : \A k \in 1..Width : units[(i - 1) * Width + k] = <<items[i], k>>

\* The place of an item is within the file.
LEMMA Place ==
    ASSUME NEW n \in Nat, NEW i \in 1..n, NEW k \in 1..Width
    PROVE  /\ (i - 1) * Width + k \in 1..(n * Width)
           /\ (i - 1) * Width \in Nat /\ i * Width = (i - 1) * Width + Width
<1>1. i - 1 \in Nat /\ i \in Nat /\ (i - 1) + 1 = i
  OBVIOUS
<1>2. (i - 1) * Width \in Nat /\ i * Width = (i - 1) * Width + Width
  BY <1>1, TimesWidth
<1>3. i * Width <= n * Width /\ n * Width \in Nat /\ Width \in Nat
  BY <1>1, TimesMonotonic, TimesWidth
<1>. QED
  BY <1>2, <1>3

\* A file of n items, with less than a record at the end, is read as these items.
LEMMA RecordsOf ==
    ASSUME NEW units \in Seq(Unit), NEW items \in Seq(Item), NEW n \in 0..Len(items),
           NEW rest \in 0..(Width - 1), HoldsItems(units, items, n, rest)
    PROVE  Records(units) = SubSeq(items, 1, n) /\ Len(Records(units)) = n
<1>. DEFINE all == n * Width
<1>1. n \in Nat /\ all \in Nat /\ Width \in Nat /\ Len(units) \in Nat
  BY TimesWidth
<1>2. Len(units) = all + rest
  BY DEF HoldsItems
<1>3. Len(units) \div Width = n
  BY <1>1, <1>2, QuotientOf
<1>4. ASSUME NEW i \in 1..n
      PROVE  Record(SubSeq(units, (i - 1) * Width + 1, i * Width)) = items[i]
  <2>. DEFINE a == (i - 1) * Width
              s == SubSeq(units, a + 1, a + Width)
  <2>1. a \in Nat /\ i * Width = a + Width /\ a + Width \in 1..all
    <3>1. Width \in 1..Width
      BY TimesWidth
    <3>. QED
      BY <1>1, <3>1, Place
  <2>2. \A k \in 1..Width : units[a + k] = <<items[i], k>>
    BY DEF HoldsItems
  <2>3. items[i] \in Item
    OBVIOUS
  <2>. HIDE DEF a, all
  <2>4. a + Width <= Len(units)
    BY <1>1, <1>2, <2>1
  <2>5. s = [k \in 1..Width |-> units[a + k]]
    BY <1>1, <2>1, <2>4, Piece
  <2>6. s = Units(items[i])
    BY <2>2, <2>5 DEF Units
  <2>. QED
    BY <2>1, <2>3, <2>6, RecordOfUnits DEF a
<1>5. Records(units) = [i \in 1..n |-> items[i]]
  BY <1>3, <1>4 DEF Records
<1>6. SubSeq(items, 1, n) = [i \in 1..n |-> items[i]]
  OBVIOUS
<1>. QED
  BY <1>1, <1>5, <1>6

\* What is read from any file has the type of the vector, and fits in the file.
LEMMA RecordsType ==
    ASSUME NEW units \in Seq(Unit)
    PROVE  /\ Records(units) \in Seq(Item \cup {Garbled})
           /\ Len(Records(units)) \in Nat
           /\ Len(Records(units)) * Width <= Len(units)
<1>. DEFINE n == Len(units) \div Width
<1>1. n \in Nat /\ n * Width <= Len(units)
  BY Quotient
<1>. HIDE DEF n
<1>2. Records(units) = [i \in 1..n |-> Record(SubSeq(units, (i - 1) * Width + 1, i * Width))]
  BY DEF Records, n
<1>3. Len(Records(units)) = n
  BY <1>1, <1>2
<1>. QED
  BY <1>1, <1>2, <1>3, RecordType

\* The first m units of one more item are written.
LEMMA HoldsMore ==
    ASSUME NEW units \in Seq(Unit), NEW items \in Seq(Item), NEW n \in Nat, n < Len(items),
           HoldsItems(units, items, n, 0),
           NEW m \in 0..Width, NEW more \in Seq(Unit), Len(more) = m,
           \A k \in 1..m : more[k] = <<items[n + 1], k>>
    PROVE  /\ units \o more \in Seq(Unit)
           /\ HoldsItems(units \o more, items, n, m)
           /\ m = Width => HoldsItems(units \o more, items, n + 1, 0)
<1>. DEFINE all == units \o more
            old == n * Width
<1>1. old \in Nat /\ (n + 1) * Width = old + Width /\ Width \in Nat /\ m \in Nat
  BY TimesWidth
<1>2. Len(units) = old
  BY <1>1 DEF HoldsItems
<1>3. /\ all \in Seq(Unit) /\ Len(all) = Len(units) + m
      /\ \A k \in 1..Len(units) : all[k] = units[k]
      /\ \A k \in 1..m : all[Len(units) + k] = more[k]
  <2>. HIDE DEF old
  <2>1. all \in Seq(Unit) /\ Len(all) = Len(units) + Len(more)
    BY InARow
  <2>2. \A k \in 1..Len(units) : all[k] = units[k]
    BY InARow
  <2>3. \A k \in 1..Len(more) : all[Len(units) + k] = more[k]
    BY InARow
  <2>. HIDE DEF all
  <2>. QED
    BY <2>1, <2>2, <2>3
<1>. HIDE DEF all
<1>4. ASSUME NEW i \in 1..n, NEW k \in 1..Width
      PROVE  all[(i - 1) * Width + k] = <<items[i], k>>
  <2>1. (i - 1) * Width + k \in 1..Len(units)
    BY <1>2, Place
  <2>2. units[(i - 1) * Width + k] = <<items[i], k>>
    BY DEF HoldsItems
  <2>. QED
    BY <1>3, <2>1, <2>2
<1>5. HoldsItems(all, items, n, m)
  BY <1>2, <1>3, <1>4 DEF HoldsItems
<1>6. ASSUME m = Width PROVE HoldsItems(all, items, n + 1, 0)
  <2>1. ASSUME NEW i \in 1..(n + 1), NEW k \in 1..Width
        PROVE  all[(i - 1) * Width + k] = <<items[i], k>>
    <3>1. CASE i \in 1..n
      BY <1>4, <3>1
    <3>2. CASE i = n + 1
      <4>1. (i - 1) * Width = Len(units) /\ k \in 1..m
        BY <1>2, <1>6, <3>2
      <4>. QED
        BY <1>3, <3>2, <4>1
    <3>. QED
      BY <3>1, <3>2
  <2>2. Len(all) = (n + 1) * Width + 0
    <3>. HIDE DEF old
    <3>. QED
      BY <1>1, <1>2, <1>3, <1>6
  <2>. QED
    BY <2>1, <2>2 DEF HoldsItems
<1>. QED
  BY <1>3, <1>5, <1>6 DEF all

\* Items that are cut off, in the file too: the units of the first m are left.
LEMMA HoldsFewer ==
    ASSUME NEW units \in Seq(Unit), NEW items \in Seq(Item), NEW n \in 0..Len(items),
           NEW rest \in Nat, HoldsItems(units, items, n, rest), NEW m \in 0..n
    PROVE  /\ SubSeq(units, 1, m * Width) \in Seq(Unit)
           /\ HoldsItems(SubSeq(units, 1, m * Width), SubSeq(items, 1, m), m, 0)
<1>. DEFINE cut == SubSeq(units, 1, m * Width)
            w == m * Width
<1>1. /\ m \in Nat /\ w \in Nat /\ n * Width \in Nat /\ w <= n * Width
      /\ n \in Nat /\ Len(units) \in Nat
  BY TimesWidth, TimesMonotonic
<1>2. w <= Len(units)
  <2>1. Len(units) = n * Width + rest
    BY DEF HoldsItems
  <2>. QED
    BY <1>1, <2>1
<1>3. cut \in Seq(Unit) /\ Len(cut) = w /\ \A k \in 1..w : cut[k] = units[k]
  <2>. HIDE DEF w
  <2>. QED
    BY <1>1, <1>2 DEF w
<1>. HIDE DEF cut
<1>4. ASSUME NEW i \in 1..m, NEW k \in 1..Width
      PROVE  cut[(i - 1) * Width + k] = <<SubSeq(items, 1, m)[i], k>>
  <2>1. (i - 1) * Width + k \in 1..w
    BY <1>1, Place
  <2>2. units[(i - 1) * Width + k] = <<items[i], k>>
    <3>1. i \in 1..n
      BY <1>1
    <3>. QED
      BY <3>1 DEF HoldsItems
  <2>3. SubSeq(items, 1, m)[i] = items[i]
    OBVIOUS
  <2>. QED
    BY <1>3, <2>1, <2>2, <2>3
<1>5. Len(cut) = m * Width + 0
  BY <1>1, <1>3
<1>. QED
  BY <1>3, <1>4, <1>5 DEF HoldsItems, cut

\* What the file holds does not depend on the items behind.
LEMMA HoldsSame ==
    ASSUME NEW units, NEW items, NEW others, NEW n \in Nat, NEW rest,
           HoldsItems(units, items, n, rest), \A i \in 1..n : items[i] = others[i]
    PROVE  HoldsItems(units, others, n, rest)
BY DEF HoldsItems

-----------------------------------------------------------------------------
(***************************************************************************)
(* The invariant.  The file holds the items up to OnDisk: while persist()  *)
(* writes, these are more than persistedItems says.                        *)
(***************************************************************************)
OnDisk == IF op = "write" THEN written ELSE persistedItems

\* The file is never too short for what is counted, torn or not.
InFile == OnDisk <= Len(vec) /\ OnDisk * Width <= Len(logFile)

Aligned == ~torn => vec \in Seq(Item) /\ HoldsItems(logFile, vec, OnDisk, 0)

\* VotedFor is stored before CurrentTerm.
Stored ==
    /\ file["VotedFor"] \in {<<>>} \cup {<<v>> : v \in Vote}
    /\ file["CurrentTerm"] \in {<<>>} \cup {<<t>> : t \in 0..MaxTerm}
    /\ currentTerm \in 0..MaxTerm
    /\ op = "rename" => tmpFile[key] = <<Value(key)>>
    /\ op \in {"store", "rename"} /\ key = "CurrentTerm" => LoadVotedFor = votedFor

IInv == TypeOK /\ InFile /\ Aligned /\ Stored

\* What bootstrap would read.
DiskIs == ~torn => /\ Records(logFile) = SubSeq(vec, 1, OnDisk)
                   /\ Len(Records(logFile)) = OnDisk

LEMMA Counts ==
    ASSUME IInv
    PROVE  /\ OnDisk \in Nat /\ OnDisk * Width \in Nat
           /\ Len(vec) \in Nat /\ Len(logFile) \in Nat /\ logFile \in Seq(Unit)
           /\ vec \in Seq(Item \cup {Garbled})
BY TimesWidth DEF IInv, TypeOK, OnDisk, Unit

LEMMA DiskFollows == IInv => DiskIs
<1>. SUFFICES ASSUME IInv, ~torn PROVE Records(logFile) = SubSeq(vec, 1, OnDisk) /\ Len(Records(logFile)) = OnDisk
  BY DEF DiskIs
<1>1. OnDisk \in 0..Len(vec) /\ logFile \in Seq(Unit) /\ 0 \in 0..(Width - 1)
  BY Counts, TimesWidth DEF IInv, InFile
<1>2. vec \in Seq(Item) /\ HoldsItems(logFile, vec, OnDisk, 0)
  BY DEF IInv, Aligned
<1>. HIDE DEF OnDisk
<1>. QED
  BY <1>1, <1>2, RecordsOf

LEMMA LoadTypes == IInv => LoadVotedFor \in Vote /\ LoadCurrentTerm \in 0..MaxTerm
BY StorageAssumption DEF IInv, Stored, LoadVotedFor, LoadCurrentTerm

LEMMA InitIInv == Init => IInv
<1>. SUFFICES ASSUME Init PROVE IInv
  OBVIOUS
<1>1. TypeOK
  <2>1. DOMAIN file = Key /\ DOMAIN tmpFile = Key
    BY DEF Init, Key
  <2>2. /\ vec \in Seq(Item \cup {Garbled})
        /\ logFile \in Seq((Item \cup {Garbled}) \X (1..Width))
    BY DEF Init
  <2>3. votedFor \in Vote /\ currentTerm \in Nat /\ key \in Key
    BY StorageAssumption DEF Init, Key
  <2>. QED
    BY <2>1, <2>2, <2>3 DEF Init, TypeOK
<1>2. OnDisk = 0 /\ Len(vec) = 0 /\ Len(logFile) = 0 /\ 0 * Width = 0
  BY TimesWidth DEF Init, OnDisk
<1>3. InFile /\ Aligned
  BY <1>2 DEF Init, InFile, Aligned, HoldsItems
<1>4. Stored
  BY StorageAssumption DEF Init, Stored, LoadVotedFor, Key
<1>. QED
  BY <1>1, <1>3, <1>4 DEF IInv

\* Steps that leave the two values and their files alone.
LEMMA SameStore ==
    ASSUME IInv, UNCHANGED <<storeVars, key>>, op' \in {"idle", "write"}
    PROVE  Stored'
BY DEF IInv, Stored, LoadVotedFor, storeVars

\* Steps that leave the vector and its file alone.
LEMMA SameLog ==
    ASSUME IInv, UNCHANGED <<vec, logFile, torn>>, OnDisk' = OnDisk
    PROVE  InFile' /\ Aligned'
BY DEF IInv, InFile, Aligned

LEMMA PushBackStep == ASSUME IInv, NEW item \in Item, PushBack(item) PROVE IInv'
<1>1. TypeOK' /\ Stored' /\ OnDisk' = OnDisk
  BY SameStore DEF PushBack, IInv, TypeOK, storeVars, opVars, OnDisk
<1>2. /\ vec' = Append(vec, item) /\ Len(vec') = Len(vec) + 1 /\ logFile' = logFile /\ torn' = torn
      /\ \A i \in 1..Len(vec) : vec[i] = vec'[i]
  BY Counts DEF PushBack
<1>3. InFile'
  BY <1>1, <1>2, Counts DEF IInv, InFile
<1>4. Aligned'
  <2>. SUFFICES ASSUME ~torn PROVE vec' \in Seq(Item) /\ HoldsItems(logFile, vec', OnDisk, 0)
    BY <1>1, <1>2 DEF Aligned
  <2>1. vec' \in Seq(Item)
    BY <1>2 DEF IInv, Aligned
  <2>2. OnDisk \in Nat /\ \A i \in 1..OnDisk : vec[i] = vec'[i]
    BY <1>2, Counts DEF IInv, InFile
  <2>. QED
    BY <2>1, <2>2, HoldsSame DEF IInv, Aligned
<1>. QED
  BY <1>1, <1>3, <1>4 DEF IInv

LEMMA ResizeStep == ASSUME IInv, NEW n \in 0..MaxLen, Resize(n) PROVE IInv'
<1>1. /\ n \in 0..Len(vec) /\ n \in Nat /\ vec' = SubSeq(vec, 1, n) /\ Len(vec') = n
      /\ \A i \in 1..n : vec'[i] = vec[i]
      /\ vec' \in Seq(Item \cup {Garbled})
      /\ vec \in Seq(Item) => vec' \in Seq(Item)
      /\ torn' = torn /\ OnDisk = persistedItems /\ OnDisk' = persistedItems'
  BY Counts DEF Resize, opVars, OnDisk
<1>2. Stored'
  BY SameStore DEF Resize, opVars
<1>3. CASE n <= persistedItems
  <2>1. logFile' = SubSeq(logFile, 1, n * Width) /\ persistedItems' = n
    BY <1>3 DEF Resize
  <2>2. n * Width \in Nat /\ n * Width <= Len(logFile)
    <3>1. n * Width <= OnDisk * Width /\ n * Width \in Nat
      BY <1>1, <1>3, Counts, TimesMonotonic, TimesWidth
    <3>. HIDE DEF OnDisk
    <3>. QED
      BY <3>1, Counts DEF IInv, InFile
  <2>3. logFile' \in Seq(Unit) /\ Len(logFile') = n * Width
    <3>. DEFINE w == n * Width
    <3>1. w \in Nat /\ w <= Len(logFile) /\ logFile \in Seq(Unit)
      BY <2>2, Counts
    <3>. HIDE DEF w
    <3>2. SubSeq(logFile, 1, w) \in Seq(Unit) /\ Len(SubSeq(logFile, 1, w)) = w
      BY <3>1
    <3>. QED
      BY <2>1, <3>2 DEF w
  <2>4. TypeOK'
    BY <1>1, <2>1, <2>3 DEF Resize, IInv, TypeOK, storeVars, opVars, Unit
  <2>5. InFile'
    BY <1>1, <2>1, <2>2, <2>3 DEF InFile
  <2>6. Aligned'
    <3>. SUFFICES ASSUME ~torn PROVE vec' \in Seq(Item) /\ HoldsItems(logFile', vec', n, 0)
      BY <1>1, <2>1 DEF Aligned
    <3>1. vec \in Seq(Item) /\ HoldsItems(logFile, vec, OnDisk, 0) /\ OnDisk \in 0..Len(vec) /\ n \in 0..OnDisk
      BY <1>1, <1>3, Counts DEF IInv, Aligned, InFile
    <3>2. logFile \in Seq(Unit) /\ 0 \in Nat
      BY Counts
    <3>. QED
      BY <1>1, <2>1, <3>1, <3>2, HoldsFewer
  <2>. QED
    BY <1>2, <2>4, <2>5, <2>6 DEF IInv
<1>4. CASE ~(n <= persistedItems)
  <2>1. persistedItems' = persistedItems /\ logFile' = logFile /\ persistedItems < n
    BY <1>1, <1>4 DEF Resize, IInv, TypeOK
  <2>2. TypeOK'
    BY <1>1, <2>1 DEF Resize, IInv, TypeOK, storeVars, opVars
  <2>3. InFile'
    BY <1>1, <2>1, Counts DEF IInv, InFile
  <2>4. Aligned'
    <3>. SUFFICES ASSUME ~torn PROVE vec' \in Seq(Item) /\ HoldsItems(logFile, vec', OnDisk, 0)
      BY <1>1, <2>1 DEF Aligned
    <3>1. vec' \in Seq(Item) /\ OnDisk \in Nat /\ \A i \in 1..OnDisk : vec[i] = vec'[i]
      BY <1>1, <2>1, Counts DEF IInv, Aligned
    <3>. QED
      BY <3>1, HoldsSame DEF IInv, Aligned
  <2>. QED
    BY <1>2, <2>2, <2>3, <2>4 DEF IInv
<1>. QED
  BY <1>3, <1>4

LEMMA PersistStep == ASSUME IInv, Persist \/ Persisted PROVE IInv'
<1>1. TypeOK' /\ Stored' /\ OnDisk' = OnDisk /\ UNCHANGED <<vec, logFile, torn>>
  BY SameStore, Counts DEF Persist, Persisted, IInv, TypeOK, logVars, storeVars, OnDisk
<1>. QED
  BY <1>1, SameLog DEF IInv

LEMMA WriteItemStep == ASSUME IInv, WriteItem PROVE IInv'
<1>. DEFINE item == vec[written + 1]
            n == written
<1>1. /\ n \in Nat /\ n < Len(vec) /\ OnDisk = n /\ OnDisk' = n + 1
      /\ logFile' = logFile \o Units(item) /\ UNCHANGED <<vec, torn>>
  BY DEF WriteItem, IInv, TypeOK, OnDisk
<1>2. item \in Item \cup {Garbled} /\ logFile \in Seq(Unit) /\ Len(vec) \in Nat
  BY <1>1, Counts
<1>. HIDE DEF item
<1>3. /\ Units(item) \in Seq(Unit) /\ Len(Units(item)) = Width
      /\ \A k \in 1..Width : Units(item)[k] = <<item, k>>
  BY <1>2, UnitsType
<1>4. logFile' \in Seq(Unit) /\ Len(logFile') = Len(logFile) + Width
  BY <1>1, <1>2, <1>3, InARow
<1>5. TypeOK' /\ Stored'
  BY <1>1, <1>4, SameStore DEF WriteItem, IInv, TypeOK, storeVars, Unit
<1>6. InFile'
  <2>1. n * Width \in Nat /\ n * Width <= Len(logFile) /\ (n + 1) * Width = n * Width + Width
    BY <1>1, TimesWidth DEF IInv, InFile
  <2>. QED
    BY <1>1, <1>2, <1>4, <2>1, TimesWidth DEF InFile
<1>7. Aligned'
  <2>. SUFFICES ASSUME ~torn PROVE vec \in Seq(Item) /\ HoldsItems(logFile', vec, n + 1, 0)
    BY <1>1 DEF Aligned
  <2>1. vec \in Seq(Item) /\ HoldsItems(logFile, vec, n, 0)
    BY <1>1 DEF IInv, Aligned
  <2>2. Width \in 0..Width /\ \A k \in 1..Width : Units(item)[k] = <<vec[n + 1], k>>
    BY <1>3, TimesWidth DEF item
  <2>. QED
    BY <1>1, <1>2, <1>3, <2>1, <2>2, HoldsMore
<1>. QED
  BY <1>5, <1>6, <1>7 DEF IInv

LEMMA BecomeStep ==
    ASSUME IInv, NEW vote \in Vote, NEW term \in {currentTerm, currentTerm + 1}, term <= MaxTerm,
           Become(vote, term)
    PROVE  IInv'
<1>1. TypeOK' /\ OnDisk' = OnDisk /\ UNCHANGED <<vec, logFile, torn>>
  BY DEF Become, IInv, TypeOK, logVars, OnDisk, Key
<1>2. Stored'
  BY DEF Become, IInv, TypeOK, Stored
<1>. QED
  BY <1>1, <1>2, SameLog DEF IInv

LEMMA StoreStep == ASSUME IInv, WriteTmp \/ Rename PROVE IInv'
<1>1. TypeOK' /\ OnDisk' = OnDisk /\ UNCHANGED <<vec, logFile, torn>>
  BY DEF WriteTmp, Rename, IInv, TypeOK, logVars, OnDisk, Key
<1>2. CASE WriteTmp
  <2>1. tmpFile'[key] = <<Value(key)>>
    BY <1>2 DEF WriteTmp, IInv, TypeOK
  <2>. QED
    BY <1>1, <1>2, <2>1, SameLog DEF WriteTmp, IInv, Stored, Value, LoadVotedFor
<1>3. CASE Rename
  <2>1. /\ file'[key] = <<Value(key)>>
        /\ \A k \in Key \ {key} : file'[k] = file[k]
        /\ UNCHANGED <<votedFor, currentTerm>>
    BY <1>3 DEF Rename, IInv, TypeOK, Stored
  <2>2. votedFor \in Vote /\ currentTerm \in 0..MaxTerm
    BY DEF IInv, TypeOK, Stored
  <2>3. CASE key = "VotedFor"
    <3>1. file'["VotedFor"] = <<votedFor>> /\ file'["CurrentTerm"] = file["CurrentTerm"] /\ op' = "store"
      BY <1>3, <2>1, <2>3 DEF Rename, Key, Value
    <3>2. LoadVotedFor' = votedFor
      BY <3>1 DEF LoadVotedFor
    <3>. QED
      BY <1>1, <2>1, <2>2, <3>1, <3>2, SameLog DEF IInv, Stored
  <2>4. CASE key = "CurrentTerm"
    <3>1. file'["CurrentTerm"] = <<currentTerm>> /\ file'["VotedFor"] = file["VotedFor"] /\ op' = "idle"
      BY <1>3, <2>1, <2>4 DEF Rename, Key, Value
    <3>. QED
      BY <1>1, <2>1, <2>2, <3>1, SameLog DEF IInv, Stored
  <2>. QED
    BY <2>3, <2>4 DEF IInv, TypeOK, Key
<1>. QED
  BY <1>2, <1>3

\* Whatever the file holds, the process starts with the records that fit in.
LEMMA BootstrapStep ==
    ASSUME IInv, NEW units \in Seq(Unit), Bootstrap(units), torn' \in BOOLEAN
    PROVE  TypeOK' /\ InFile' /\ Stored' /\ OnDisk' = Len(vec') /\ vec' = Records(units)
<1>1. /\ vec' \in Seq(Item \cup {Garbled}) /\ Len(vec') \in Nat /\ vec' = Records(units)
      /\ Len(vec') * Width <= Len(units) /\ logFile' = units /\ OnDisk' = Len(vec')
  BY RecordsType DEF Bootstrap, OnDisk
<1>2. InFile'
  BY <1>1 DEF InFile
<1>3. TypeOK'
  BY <1>1, LoadTypes DEF Bootstrap, IInv, TypeOK, Unit
<1>4. Stored'
  BY LoadTypes DEF Bootstrap, IInv, Stored
<1>. QED
  BY <1>1, <1>2, <1>3, <1>4

LEMMA CrashStep == ASSUME IInv, Crash PROVE IInv' /\ (~torn => vec' = Records(logFile))
<1>1. Bootstrap(logFile) /\ torn' = torn /\ logFile \in Seq(Unit) /\ torn' \in BOOLEAN /\ logFile' = logFile
  BY Counts DEF Crash, Bootstrap, IInv, TypeOK
<1>2. TypeOK' /\ InFile' /\ Stored' /\ OnDisk' = Len(vec') /\ vec' = Records(logFile)
  BY <1>1, BootstrapStep
<1>3. Aligned'
  <2>. SUFFICES ASSUME ~torn PROVE vec' \in Seq(Item) /\ HoldsItems(logFile, vec', Len(vec'), 0)
    BY <1>1, <1>2 DEF Aligned
  <2>1. vec' = SubSeq(vec, 1, OnDisk) /\ Len(vec') = OnDisk /\ vec \in Seq(Item) /\ OnDisk \in 0..Len(vec)
    BY <1>2, DiskFollows, Counts DEF DiskIs, IInv, Aligned, InFile
  <2>. HIDE DEF OnDisk
  <2>2. vec' \in Seq(Item) /\ OnDisk \in Nat /\ \A i \in 1..OnDisk : vec[i] = vec'[i]
    BY <2>1
  <2>3. HoldsItems(logFile, vec, OnDisk, 0)
    BY DEF IInv, Aligned
  <2>4. HoldsItems(logFile, vec', OnDisk, 0)
    BY <2>2, <2>3, HoldsSame
  <2>. QED
    BY <2>1, <2>2, <2>4
<1>. QED
  BY <1>2, <1>3 DEF IInv

\* A part of a record at the end is not read.
LEMMA CrashInWriteStep ==
    ASSUME IInv, CrashInWrite
    PROVE  /\ IInv'
           /\ ~torn => vec' = Records(logFile) /\ Records(logFile') = Records(logFile)
<1>. DEFINE item == vec[written + 1]
            n == written
<1>1. PICK k \in 1..(Width - 1) : Bootstrap(logFile \o SubSeq(Units(item), 1, k))
  BY DEF CrashInWrite
<1>. DEFINE part == SubSeq(Units(item), 1, k)
<1>2. /\ n \in Nat /\ n < Len(vec) /\ OnDisk = n /\ item \in Item \cup {Garbled} /\ logFile \in Seq(Unit)
      /\ k \in Nat /\ k < Width /\ Width \in Nat /\ torn'
  BY <1>1, Counts, TimesWidth DEF CrashInWrite, OnDisk
<1>. HIDE DEF item
<1>3. part \in Seq(Unit) /\ Len(part) = k /\ \A j \in 1..k : part[j] = <<item, j>>
  <2>1. /\ Units(item) \in Seq(Unit) /\ Len(Units(item)) = Width
        /\ \A j \in 1..Width : Units(item)[j] = <<item, j>>
    BY <1>2, UnitsType
  <2>. QED
    BY <1>2, <2>1
<1>. HIDE DEF part
<1>4. logFile \o part \in Seq(Unit) /\ Bootstrap(logFile \o part)
  BY <1>1, <1>2, <1>3, InARow DEF part
<1>5. TypeOK' /\ InFile' /\ Stored' /\ vec' = Records(logFile \o part) /\ logFile' = logFile \o part
  BY <1>2, <1>4, BootstrapStep DEF Bootstrap
<1>6. ASSUME ~torn PROVE Records(logFile \o part) = Records(logFile)
  <2>1. vec \in Seq(Item) /\ HoldsItems(logFile, vec, n, 0) /\ n \in 0..Len(vec)
    BY <1>2, <1>6 DEF IInv, Aligned
  <2>2. k \in 0..Width /\ k \in 0..(Width - 1) /\ \A j \in 1..k : part[j] = <<vec[n + 1], j>>
    BY <1>2, <1>3 DEF item
  <2>3. HoldsItems(logFile \o part, vec, n, k)
    BY <1>2, <1>3, <2>1, <2>2, HoldsMore
  <2>4. Records(logFile \o part) = SubSeq(vec, 1, n)
    BY <1>4, <2>1, <2>2, <2>3, RecordsOf
  <2>. QED
    BY <1>2, <1>6, <2>4, DiskFollows DEF DiskIs
<1>. QED
  BY <1>2, <1>5, <1>6 DEF IInv, Aligned

LEMMA NextIInv == IInv /\ [Next]_vars => IInv'
<1>. SUFFICES ASSUME IInv, [Next]_vars PROVE IInv'
  OBVIOUS
<1>1. CASE UNCHANGED vars
  <2>1. TypeOK' /\ OnDisk' = OnDisk /\ Stored' /\ UNCHANGED <<vec, logFile, torn>>
    BY <1>1 DEF IInv, TypeOK, OnDisk, Stored, Value, LoadVotedFor, vars, logVars, storeVars, opVars
  <2>. QED
    BY <2>1, SameLog DEF IInv
<1>. QED
  BY <1>1, PushBackStep, ResizeStep, PersistStep, WriteItemStep, BecomeStep, StoreStep,
     CrashStep, CrashInWriteStep DEF Next

\* The invariant holds in every state.
THEOREM StorageInvariant == Spec => []IInv
BY InitIInv, NextIInv, PTL DEF Spec

\* The files and what is in memory keep their types, also after records were torn.
THEOREM StorageTypes == Spec => []TypeOK
BY StorageInvariant, PTL DEF IInv

\* Between two operations the log file holds exactly the items that persistedItems
\* counts, for any width of a record and any number of crashes that tear none.
THEOREM PersistedItemsAreOnDisk == Spec => []PersistedIsOnDisk
<1>1. IInv => PersistedIsOnDisk
  <2>. SUFFICES ASSUME IInv, op = "idle", ~torn
                PROVE  /\ persistedItems <= Len(vec)
                       /\ Len(logFile) = persistedItems * Width
                       /\ Records(logFile) = SubSeq(vec, 1, persistedItems)
    BY DEF PersistedIsOnDisk
  <2>1. OnDisk = persistedItems
    BY DEF OnDisk
  <2>2. Len(logFile) = OnDisk * Width + 0 /\ OnDisk * Width \in Nat /\ OnDisk <= Len(vec)
    BY Counts DEF IInv, Aligned, HoldsItems, InFile
  <2>3. Records(logFile) = SubSeq(vec, 1, OnDisk)
    BY DiskFollows DEF DiskIs
  <2>. QED
    BY <2>1, <2>2, <2>3
<1>. QED
  BY <1>1, StorageInvariant, PTL

-----------------------------------------------------------------------------
(***************************************************************************)
(* The refinement.  What bootstrap would read is the log on disk, what     *)
(* load returns are the values on disk, and a system call is a step of     *)
(* DurableState or nothing that bootstrap would notice.                    *)
(***************************************************************************)
Same == UNCHANGED <<vec, votedFor, currentTerm, Records(logFile), LoadVotedFor, LoadCurrentTerm>>

LEMMA RefineInit == Init => Abstract!Init
<1>. SUFFICES ASSUME Init PROVE Abstract!Init
  OBVIOUS
<1>1. Records(logFile) = <<>> /\ ~torn
  <2>1. IInv /\ OnDisk = 0 /\ vec = <<>> /\ ~torn
    BY InitIInv DEF Init, OnDisk
  <2>2. Records(logFile) = SubSeq(vec, 1, 0)
    BY <2>1, DiskFollows DEF DiskIs
  <2>. QED
    BY <2>1, <2>2
<1>2. LoadVotedFor = NoVote /\ LoadCurrentTerm = 0
  BY DEF Init, LoadVotedFor, LoadCurrentTerm, Key
<1>. QED
  BY <1>1, <1>2, StorageAssumption DEF Init, Abstract!Init

LEMMA LoadsFromFile ==
    /\ UNCHANGED file => UNCHANGED <<LoadVotedFor, LoadCurrentTerm>>
    /\ UNCHANGED file["VotedFor"] => UNCHANGED LoadVotedFor
    /\ UNCHANGED file["CurrentTerm"] => UNCHANGED LoadCurrentTerm
BY DEF LoadVotedFor, LoadCurrentTerm

LEMMA RefineStep ==
    ASSUME IInv, IInv', ~torn, [Next]_vars
    PROVE  Abstract!Next \/ Same
<1>1. /\ Records(logFile) = SubSeq(vec, 1, OnDisk) /\ Len(Records(logFile)) = OnDisk
      /\ vec \in Seq(Item) /\ OnDisk \in 0..Len(vec) /\ OnDisk \in Nat /\ Len(vec) \in Nat
  BY DiskFollows, Counts DEF DiskIs, IInv, Aligned, InFile
<1>2. ~torn' => Records(logFile') = SubSeq(vec', 1, OnDisk') /\ Len(Records(logFile')) = OnDisk'
  <2>1. DiskIs'
    BY DiskFollows, PTL
  <2>. QED
    BY <2>1 DEF DiskIs
<1>3. UNCHANGED logFile => UNCHANGED Records(logFile)
  OBVIOUS
<1>4. CASE UNCHANGED vars \/ Persist \/ Persisted \/ WriteTmp
  BY <1>3, <1>4, LoadsFromFile DEF vars, logVars, storeVars, Persist, Persisted, WriteTmp, Same
<1>5. ASSUME NEW item \in Item, PushBack(item) PROVE Abstract!Push
  BY <1>3, <1>5, LoadsFromFile DEF PushBack, storeVars, Abstract!Push, Abstract!disk
<1>6. ASSUME NEW n \in 0..MaxLen, Resize(n) PROVE Abstract!Cut
  <2>1. /\ n \in 0..Len(vec) /\ vec' = SubSeq(vec, 1, n) /\ torn' = torn
        /\ OnDisk = persistedItems /\ OnDisk' = persistedItems'
        /\ UNCHANGED <<votedFor, currentTerm, LoadVotedFor, LoadCurrentTerm>>
    BY <1>6, LoadsFromFile DEF Resize, storeVars, opVars, OnDisk
  <2>2. Records(logFile)' = IF n < Len(Records(logFile)) THEN SubSeq(Records(logFile), 1, n)
                            ELSE Records(logFile)
    <3>1. CASE n <= persistedItems
      <4>1. OnDisk' = n /\ Records(logFile') = SubSeq(SubSeq(vec, 1, n), 1, n)
        BY <1>2, <1>6, <2>1, <3>1 DEF Resize
      <4>2. /\ SubSeq(SubSeq(vec, 1, n), 1, n) = SubSeq(vec, 1, n)
            /\ n <= OnDisk => SubSeq(SubSeq(vec, 1, OnDisk), 1, n) = SubSeq(vec, 1, n)
        <5>. HIDE DEF OnDisk
        <5>. QED
          BY <1>1, <2>1
      <4>. QED
        BY <1>1, <2>1, <3>1, <4>1, <4>2
    <3>2. CASE ~(n <= persistedItems)
      BY <1>1, <1>3, <1>6, <2>1, <3>2 DEF Resize
    <3>. QED
      BY <3>1, <3>2
  <2>. QED
    BY <2>1, <2>2 DEF Abstract!Cut
<1>7. CASE WriteItem
  <2>1. /\ written \in Nat /\ written < Len(vec) /\ OnDisk = written /\ OnDisk' = written + 1
        /\ UNCHANGED <<vec, votedFor, currentTerm, LoadVotedFor, LoadCurrentTerm>> /\ torn' = torn
    BY <1>7, LoadsFromFile DEF WriteItem, storeVars, OnDisk, IInv, TypeOK
  <2>2. Records(logFile)' = SubSeq(vec, 1, written + 1)
    BY <1>2, <2>1
  <2>3. SubSeq(vec, 1, written + 1) = Append(SubSeq(vec, 1, written), vec[written + 1])
    BY <1>1, <2>1
  <2>4. Abstract!Write
    BY <1>1, <2>1, <2>2, <2>3 DEF Abstract!Write, Abstract!memory
  <2>. QED
    BY <2>4 DEF Abstract!Next
<1>8. ASSUME NEW vote \in Vote, NEW term \in {currentTerm, currentTerm + 1}, term <= MaxTerm, Become(vote, term)
      PROVE  Abstract!Vouch
  <2>1. term \in 0..MaxTerm
    BY <1>8, StorageAssumption DEF IInv, Stored
  <2>. QED
    BY <1>3, <1>8, <2>1, LoadsFromFile DEF Become, logVars, Abstract!Vouch, Abstract!disk
<1>9. CASE Rename
  <2>1. /\ file'[key] = <<Value(key)>>
        /\ \A k \in Key \ {key} : file'[k] = file[k]
        /\ UNCHANGED <<vec, votedFor, currentTerm, Records(logFile)>>
    BY <1>3, <1>9 DEF Rename, IInv, TypeOK, Stored, logVars
  <2>2. CASE key = "VotedFor"
    <3>1. file'["VotedFor"] = <<votedFor>> /\ file'["CurrentTerm"] = file["CurrentTerm"]
      BY <2>1, <2>2 DEF Key, Value
    <3>2. LoadVotedFor' = votedFor /\ UNCHANGED LoadCurrentTerm
      BY <3>1 DEF LoadVotedFor, LoadCurrentTerm
    <3>3. Abstract!SaveVotedFor
      BY <2>1, <3>2 DEF Abstract!SaveVotedFor, Abstract!memory
    <3>. QED
      BY <3>3 DEF Abstract!Next
  <2>3. CASE key = "CurrentTerm"
    <3>1. file'["CurrentTerm"] = <<currentTerm>> /\ file'["VotedFor"] = file["VotedFor"]
      BY <2>1, <2>3 DEF Key, Value
    <3>2. LoadCurrentTerm' = currentTerm /\ UNCHANGED LoadVotedFor /\ LoadVotedFor = votedFor
      BY <1>9, <2>3, <3>1 DEF LoadVotedFor, LoadCurrentTerm, IInv, Stored, Rename
    <3>3. Abstract!SaveCurrentTerm
      BY <2>1, <3>2 DEF Abstract!SaveCurrentTerm, Abstract!memory
    <3>. QED
      BY <3>3 DEF Abstract!Next
  <2>. QED
    BY <2>2, <2>3 DEF IInv, TypeOK, Key
<1>10. CASE Crash \/ CrashInWrite
  <2>1. vec' = Records(logFile) /\ Records(logFile') = Records(logFile)
    BY <1>3, <1>10, CrashStep, CrashInWriteStep DEF Crash, Bootstrap
  <2>2. /\ votedFor' = LoadVotedFor /\ currentTerm' = LoadCurrentTerm
        /\ UNCHANGED <<LoadVotedFor, LoadCurrentTerm>>
    BY <1>10, LoadsFromFile DEF Crash, CrashInWrite, Bootstrap
  <2>3. Abstract!Crash
    BY <2>1, <2>2 DEF Abstract!Crash, Abstract!disk
  <2>. QED
    BY <2>3 DEF Abstract!Next
<1>. QED
  BY <1>4, <1>5, <1>6, <1>7, <1>8, <1>9, <1>10 DEF Next, Abstract!Next

\* The files are what OhMyRaft takes them for: whatever system calls a crash falls
\* between, and up to and including the first one that tears a record, the process
\* goes on with what was on disk, of which a vote is saved before its term.
THEOREM FilesAreDurable == Spec => ImplementsDurableState
<1>1. IInv /\ IInv' /\ [Next]_vars => [torn \/ Abstract!Next]_<<Abstract!memory, Abstract!disk>>
  BY RefineStep DEF Same, Abstract!memory, Abstract!disk
<1>. QED
  BY <1>1, RefineInit, StorageInvariant, PTL DEF Spec, ImplementsDurableState
=============================================================================
