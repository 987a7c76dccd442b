--------------------------- MODULE AuditLogProofs ---------------------------
(***************************************************************************)
(* Theorems about AuditLog, for every set of events, every batch size, any *)
(* service and any number of failed flushes, crashes and restarts.  No     *)
(* event vanishes, what is stored is what was submitted, judged, rows are  *)
(* only ever added, subscribers follow the table, and the hash chain       *)
(* verifies for as long as the table is Intact.                            *)
(*                                                                         *)
(* Three invariants are proved one after the other: PipeInv is about where *)
(* the events are, ChainInv about the hashes and ToldInv about the order   *)
(* in which rows are stored and sent out.                                  *)
(***************************************************************************)
EXTENDS AuditLog, SequenceTheorems, WellFoundedInduction, TLAPS

\* What is chained and not yet stored.  After the commit the batch is only
\* being sent to the subscribers.
Pending == IF pc = "notify" THEN <<>> ELSE batch

Chain == rows \o Pending

\* The first n events of a chain: what the n-th hash commits to.
Entries(c, n) == [k \in 1..n |-> c[k].e]

Linked(c) ==
  \A i \in 1..Len(c) : c[i].prev = Entries(c, i - 1) /\ c[i].hash = Entries(c, i)

\* No two rows of a table have the same id.
Single(c) == \A i, j \in 1..Len(c) : c[i].e.id = c[j].e.id => i = j

\* Table d is table c with rows added at the end.
Extends(c, d) == Len(c) <= Len(d) /\ \A i \in 1..Len(c) : d[i] = c[i]

-----------------------------------------------------------------------------
(***************************************************************************)
(* Tables and queues                                                       *)
(***************************************************************************)

\* Appending to a concatenation appends to its second part.
LEMMA AppendConcat ==
  ASSUME NEW a \in Seq(Row), NEW b \in Seq(Row), NEW x \in Row
  PROVE  Append(a \o b, x) = a \o Append(b, x)
<1>1. <<x>> \in Seq(Row) /\ a \o b \in Seq(Row)
  BY ConcatProperties
<1>2. Append(a \o b, x) = (a \o b) \o <<x>> /\ Append(b, x) = b \o <<x>>
  BY <1>1, AppendIsConcat
<1> QED
  BY <1>1, <1>2, ConcatAssociative

\* InsertEvents adds the rows of a batch one by one.
LEMMA InsertNext ==
  ASSUME NEW a \in Seq(Row), NEW b \in Seq(Row), NEW n \in 1..Len(b)
  PROVE  Append(a \o SubSeq(b, 1, n - 1), b[n]) = a \o SubSeq(b, 1, n)
<1> DEFINE part == SubSeq(b, 1, n - 1)
<1>1. Len(b) \in Nat /\ n \in Nat /\ n - 1 \in Nat /\ n <= Len(b) /\ b[n] \in Row
      /\ \A i \in 1..Len(b) : b[i] \in Row
  BY LenProperties, ElementOfSeq
<1>2. /\ part \in Seq(Row) /\ Len(part) = n - 1 /\ \A k \in 1..(n - 1) : part[k] = b[k]
  <2>1. \A i \in 1..(n - 1) : i \in 1..Len(b)
    BY <1>1
  <2>2. \A i \in 1..(n - 1) : b[i] \in Row
    BY <1>1, <2>1
  <2>3. /\ part \in Seq(Row)
        /\ Len(part) = IF 1 <= n - 1 THEN (n - 1) - 1 + 1 ELSE 0
        /\ \A i \in 1..((n - 1) - 1 + 1) : part[i] = b[1 + i - 1]
    BY <1>1, <2>2, SubSeqProperties
  <2>4. Len(part) = n - 1
    BY <1>1, <2>3
  <2>5. ASSUME NEW k \in 1..(n - 1) PROVE part[k] = b[k]
    <3>1. k \in 1..((n - 1) - 1 + 1) /\ 1 + k - 1 = k
      BY <1>1, <2>5
    <3> HIDE DEF part
    <3> QED
      BY <2>3, <3>1
  <2> QED
    BY <2>3, <2>4, <2>5
<1> HIDE DEF part
<1>3. Append(part, b[n]) = SubSeq(b, 1, n)
  <2>1. SubSeq(b, 1, n) \in Seq(Row) /\ Len(SubSeq(b, 1, n)) = n
        /\ \A k \in 1..n : SubSeq(b, 1, n)[k] = b[k]
    BY <1>1, SubSeqProperties
  <2>2. Append(part, b[n]) \in Seq(Row) /\ Len(Append(part, b[n])) = n
        /\ \A k \in 1..n : Append(part, b[n])[k] = b[k]
    BY <1>1, <1>2, AppendProperties
  <2> QED
    BY <2>1, <2>2, SeqEqual
<1>4. Append(a \o part, b[n]) = a \o Append(part, b[n])
  BY <1>1, <1>2, AppendConcat
<1> QED
  BY <1>3, <1>4 DEF part

\* What an append adds to a table and to a queue.
LEMMA AppendRow ==
  ASSUME NEW c \in Seq(Row), NEW x \in Row
  PROVE  /\ Append(c, x) \in Seq(Row) /\ Elems(Append(c, x)) = Elems(c) \cup {x}
         /\ StoredIds(Append(c, x)) = StoredIds(c) \cup {x.e.id}
         /\ Extends(c, Append(c, x))
         /\ Len(c) \in Nat /\ Len(Append(c, x)) = Len(c) + 1 /\ Append(c, x)[Len(c) + 1] = x
         /\ Single(c) /\ x.e.id \notin StoredIds(c) => Single(Append(c, x))
<1> DEFINE d == Append(c, x)
<1>1. /\ Len(c) \in Nat /\ d \in Seq(Row) /\ Len(d) = Len(c) + 1
      /\ (\A i \in 1..Len(c) : d[i] = c[i]) /\ d[Len(c) + 1] = x
  BY AppendProperties, LenProperties
<1>2. \A i \in 1..(Len(c) + 1) : i \in 1..Len(c) \/ i = Len(c) + 1
  BY <1>1
<1>3. (\A i \in 1..Len(c) : i \in 1..Len(d)) /\ Len(c) + 1 \in 1..Len(d)
  BY <1>1
<1> HIDE DEF d
<1>4. Elems(d) = Elems(c) \cup {x}
  BY <1>1, <1>2, <1>3 DEF Elems
<1>5. StoredIds(d) = StoredIds(c) \cup {x.e.id}
  BY <1>1, <1>2, <1>3 DEF StoredIds
<1>6. Extends(c, d)
  BY <1>1 DEF Extends
<1>7. ASSUME Single(c), x.e.id \notin StoredIds(c) PROVE Single(d)
  <2>1. \A i \in 1..Len(c) : c[i].e.id # x.e.id
    BY <1>7 DEF StoredIds
  <2> SUFFICES ASSUME NEW i \in 1..Len(d), NEW j \in 1..Len(d), d[i].e.id = d[j].e.id
               PROVE  i = j
    BY DEF Single
  <2> QED
    BY <1>1, <1>2, <1>7, <2>1 DEF Single
<1> QED
  BY <1>1, <1>4, <1>5, <1>6, <1>7 DEF d

LEMMA AppendEvent ==
  ASSUME NEW q \in Seq(EventType), NEW e \in EventType
  PROVE  /\ Append(q, e) \in Seq(EventType) /\ Elems(Append(q, e)) = Elems(q) \cup {e}
         /\ IdsOf(Append(q, e)) = IdsOf(q) \cup {e.id}
<1> DEFINE d == Append(q, e)
<1>1. /\ Len(q) \in Nat /\ d \in Seq(EventType) /\ Len(d) = Len(q) + 1
      /\ (\A i \in 1..Len(q) : d[i] = q[i]) /\ d[Len(q) + 1] = e
  BY AppendProperties, LenProperties
<1>2. \A i \in 1..(Len(q) + 1) : i \in 1..Len(q) \/ i = Len(q) + 1
  BY <1>1
<1>3. (\A i \in 1..Len(q) : i \in 1..Len(d)) /\ Len(q) + 1 \in 1..Len(d)
  BY <1>1
<1> HIDE DEF d
<1>4. Elems(d) = Elems(q) \cup {e}
  BY <1>1, <1>2, <1>3 DEF Elems
<1>5. IdsOf(d) = IdsOf(q) \cup {e.id}
  BY <1>1, <1>2, <1>3 DEF IdsOf
<1> QED
  BY <1>1, <1>4, <1>5 DEF d

\* What a receive takes from a queue.
LEMMA TakeHead ==
  ASSUME NEW q \in Seq(EventType), q # <<>>
  PROVE  /\ Head(q) \in EventType /\ Tail(q) \in Seq(EventType)
         /\ Head(q) = q[1] /\ Len(Tail(q)) = Len(q) - 1
         /\ \A i \in 1..(Len(q) - 1) : Tail(q)[i] = q[i + 1]
         /\ Elems(q) = {Head(q)} \cup Elems(Tail(q))
         /\ IdsOf(q) = {Head(q).id} \cup IdsOf(Tail(q))
<1> DEFINE r == Tail(q)
<1>1. /\ Len(q) \in Nat /\ Len(q) # 0 /\ Head(q) \in EventType /\ Head(q) = q[1]
      /\ r \in Seq(EventType) /\ Len(r) = Len(q) - 1
      /\ \A i \in 1..(Len(q) - 1) : r[i] = q[i + 1]
  BY HeadTailProperties, EmptySeq, LenProperties
<1>2. /\ \A i \in 1..(Len(q) - 1) : i + 1 \in 1..Len(q)
      /\ \A i \in 1..Len(q) : i = 1 \/ (i - 1 \in 1..(Len(q) - 1) /\ (i - 1) + 1 = i)
      /\ 1 \in 1..Len(q)
  BY <1>1
<1> HIDE DEF r
<1>3. \A i \in 1..Len(q) : q[i] = q[1] \/ \E k \in 1..Len(r) : q[i] = r[k]
  <2> SUFFICES ASSUME NEW i \in 1..Len(q), i # 1
               PROVE  \E k \in 1..Len(r) : q[i] = r[k]
    OBVIOUS
  <2>1. i - 1 \in 1..(Len(q) - 1) /\ (i - 1) + 1 = i
    BY <1>2
  <2> QED
    BY <1>1, <2>1
<1>4. \A k \in 1..Len(r) : \E i \in 1..Len(q) : q[i] = r[k]
  BY <1>1, <1>2
<1>5. Elems(q) = {q[1]} \cup Elems(r)
  <2>1. ASSUME NEW y \in Elems(q) PROVE y \in {q[1]} \cup Elems(r)
    BY <1>3, <2>1 DEF Elems
  <2>2. ASSUME NEW y \in {q[1]} \cup Elems(r) PROVE y \in Elems(q)
    BY <1>2, <1>4, <2>2 DEF Elems
  <2> QED
    BY <2>1, <2>2
<1>6. IdsOf(q) = {q[1].id} \cup IdsOf(r)
  <2>1. ASSUME NEW y \in IdsOf(q) PROVE y \in {q[1].id} \cup IdsOf(r)
    BY <1>3, <2>1 DEF IdsOf
  <2>2. ASSUME NEW y \in {q[1].id} \cup IdsOf(r) PROVE y \in IdsOf(q)
    BY <1>2, <1>4, <2>2 DEF IdsOf
  <2> QED
    BY <2>1, <2>2
<1> QED
  BY <1>1, <1>5, <1>6 DEF r

\* What a hash commits to is a sequence of events, at first an empty one.
LEMMA EntriesType ==
  ASSUME NEW c \in Seq(Row), NEW n \in 0..Len(c)
  PROVE  /\ Entries(c, n) \in Seq(EventType) /\ Len(Entries(c, n)) = n
         /\ \A k \in 1..n : Entries(c, n)[k] = c[k].e
         /\ Entries(c, 0) = <<>>
<1>1. Len(c) \in Nat /\ n \in Nat /\ \A k \in 1..n : c[k] \in Row
  BY LenProperties, ElementOfSeq
<1>2. \A k \in 1..n : c[k].e \in EventType
  BY <1>1 DEF Row
<1>3. Entries(c, n) \in [1..n -> EventType]
  BY <1>2 DEF Entries
<1>4. Entries(c, n) \in Seq(EventType)
  BY <1>1, <1>3, SeqDef
<1>5. Len(Entries(c, n)) = n
  BY <1>1, <1>3, <1>4, LenProperties
<1>6. Entries(c, 0) = <<>>
  BY DEF Entries
<1> QED
  BY <1>4, <1>5, <1>6 DEF Entries

\* A chain that is extended by a row made from its last hash (processEvent).
LEMMA ChainAppend ==
  ASSUME NEW c \in Seq(Row), NEW x \in Row, Linked(c),
         x.prev = Entries(c, Len(c)), x.hash = ComputeHash(x.e, x.prev)
  PROVE  /\ Linked(Append(c, x))
         /\ x.hash = Entries(Append(c, x), Len(Append(c, x)))
<1> DEFINE d == Append(c, x)
<1>1. Len(c) \in Nat /\ d \in Seq(Row) /\ Len(d) = Len(c) + 1
      /\ (\A i \in 1..Len(c) : d[i] = c[i]) /\ d[Len(c) + 1] = x
  BY AppendProperties, LenProperties
<1> HIDE DEF d
<1>2. \A n \in 0..Len(c) : Entries(d, n) = Entries(c, n)
  BY <1>1 DEF Entries
<1>3. x.hash = Entries(d, Len(d))
  <2>1. Entries(c, Len(c)) \in Seq(EventType) /\ Len(Entries(c, Len(c))) = Len(c)
    BY <1>1, EntriesType
  <2>2. x.e \in EventType
    BY DEF Row
  <2>3. x.hash = Append(Entries(c, Len(c)), x.e)
    BY DEF ComputeHash
  <2>4. x.hash \in Seq(EventType) /\ Len(x.hash) = Len(c) + 1
    BY <1>1, <2>1, <2>2, <2>3, AppendProperties
  <2>5. x.hash = [k \in 1..(Len(c) + 1) |-> x.hash[k]]
    BY <2>4, LenProperties
  <2>6. \A k \in 1..(Len(c) + 1) : x.hash[k] = d[k].e
    <3>1. \A k \in 1..Len(c) : x.hash[k] = Entries(c, Len(c))[k]
      BY <2>1, <2>2, <2>3, AppendProperties
    <3>2. x.hash[Len(c) + 1] = x.e
      BY <2>1, <2>2, <2>3, AppendProperties
    <3> QED
      BY <1>1, <3>1, <3>2 DEF Entries
  <2> QED
    BY <1>1, <2>5, <2>6 DEF Entries
<1>4. Linked(d)
  <2> SUFFICES ASSUME NEW i \in 1..(Len(c) + 1)
               PROVE  d[i].prev = Entries(d, i - 1) /\ d[i].hash = Entries(d, i)
    BY <1>1 DEF Linked
  <2>1. CASE i = Len(c) + 1
    BY <1>1, <1>2, <1>3, <2>1
  <2>2. CASE i \in 1..Len(c)
    BY <1>1, <1>2, <2>2 DEF Linked
  <2> QED
    BY <1>1, <2>1, <2>2
<1> QED
  BY <1>3, <1>4 DEF d

\* The first part of a chain is a chain, and of an ordered table is ordered.
LEMMA ChainPrefix ==
  ASSUME NEW a \in Seq(Row), NEW b \in Seq(Row), Linked(a \o b)
  PROVE  Linked(a)
<1>1. Len(a) \in Nat /\ Len(a) <= Len(a \o b) /\ \A i \in 1..Len(a) : (a \o b)[i] = a[i]
  BY ConcatProperties, LenProperties
<1>2. \A n \in 0..Len(a) : Entries(a \o b, n) = Entries(a, n)
  BY <1>1 DEF Entries
<1> QED
  BY <1>1, <1>2, LenProperties, ConcatProperties DEF Linked

LEMMA OrderPrefix ==
  ASSUME NEW c \in Seq(Row), NEW d \in Seq(Row), Extends(c, d), InTextOrder(d)
  PROVE  InTextOrder(c)
<1>1. \A i \in 1..Len(c) : i \in 1..Len(d) /\ d[i] = c[i]
  BY LenProperties DEF Extends
<1> QED
  BY <1>1 DEF InTextOrder

\* ORDER BY timestamp, rowid is the order of the rows when it is that of the texts.
LEMMA RowOrder ==
  ASSUME NEW c \in Seq(Row), InTextOrder(c)
  PROVE  \A i, j \in 1..Len(c) : RowBefore(c, i, j) <=> i < j
<1> SUFFICES ASSUME NEW i \in 1..Len(c), NEW j \in 1..Len(c)
             PROVE  RowBefore(c, i, j) <=> i < j
  OBVIOUS
<1>1. i < j => ~TextBefore(c[j].e.ts, c[i].e.ts)
  BY DEF InTextOrder
<1>2. j < i => ~TextBefore(c[i].e.ts, c[j].e.ts)
  BY DEF InTextOrder
<1>3. i < j \/ j < i \/ i = j
  BY LenProperties
<1>4. ~(i < i)
  BY LenProperties
<1> QED
  BY <1>1, <1>2, <1>3, <1>4 DEF RowBefore

\* GetLastEventHash finds the hash that commits to the whole table.
LEMMA LastHash ==
  ASSUME NEW c \in Seq(Row), Linked(c), InTextOrder(c)
  PROVE  GetLastEventHash(c) = Entries(c, Len(c))
<1>1. Len(c) \in Nat
  BY LenProperties
<1>2. CASE c = <<>>
  BY <1>2 DEF GetLastEventHash, Genesis, Entries
<1>3. CASE c # <<>>
  <2>1. Len(c) \in 1..Len(c)
    BY <1>1, <1>3, EmptySeq
  <2>2. \A i \in 1..Len(c) :
          (\A j \in 1..Len(c) : i = j \/ RowBefore(c, j, i)) <=> i = Len(c)
    BY <1>1, <2>1, RowOrder
  <2>3. LatestRow(c, 1..Len(c)) = Len(c)
    BY <2>1, <2>2 DEF LatestRow
  <2> QED
    BY <1>3, <2>1, <2>3 DEF GetLastEventHash, Linked
<1> QED
  BY <1>2, <1>3

\* A linked and ordered table passes the integrity check.
LEMMA ChainIntact ==
  ASSUME NEW c \in Seq(Row), Linked(c), InTextOrder(c)
  PROVE  VerifyIntegrity(c)
<1> SUFFICES ASSUME NEW i \in 1..Len(c) PROVE LinkIntact(c, i)
  BY DEF VerifyIntegrity
<1>1. Len(c) \in Nat
  BY LenProperties
<1> DEFINE earlier == {j \in 1..Len(c) : RowBefore(c, j, i)}
<1>2. earlier = 1..(i - 1)
  BY <1>1, RowOrder
<1>3. CASE i = 1
  <2>1. earlier = {}
    BY <1>2, <1>3
  <2>2. c[i].prev = Genesis
    <3>1. c[1].prev = Entries(c, 1 - 1)
      BY <1>3 DEF Linked
    <3> QED
      BY <1>1, <1>3, <3>1, EntriesType DEF Genesis
  <2> QED
    BY <2>1, <2>2 DEF LinkIntact
<1>4. CASE i # 1
  <2>1. i - 1 \in earlier /\ earlier # {} /\ i - 1 \in 1..Len(c)
    BY <1>1, <1>2, <1>4
  <2>2. \A k \in earlier : (\A j \in earlier : k = j \/ RowBefore(c, j, k)) <=> k = i - 1
    BY <1>1, <1>2, <2>1, RowOrder
  <2> HIDE DEF earlier
  <2>3. LatestRow(c, earlier) = i - 1
    BY <2>1, <2>2 DEF LatestRow
  <2>4. c[i].prev = c[i - 1].hash
    BY <2>1 DEF Linked
  <2> QED
    BY <2>1, <2>3, <2>4 DEF LinkIntact, earlier
<1> QED
  BY <1>3, <1>4

-----------------------------------------------------------------------------
(***************************************************************************)
(* The order of the rows: ORDER BY timestamp, rowid has a last row in any  *)
(* table, whatever the timestamps are                                      *)
(***************************************************************************)

Less == {ss \in Nat \X Nat : ss[1] < ss[2]}

\* A set of numbers has a least one: the induction the lemmas below need.
LEMMA Least ==
  ASSUME NEW T \in SUBSET Nat, T # {}
  PROVE  \E m \in T : \A n \in T : m <= n
<1>1. IsWellFoundedOn(Less, Nat)
  <2>1. OpToRel(<, Nat) = Less
    BY DEF OpToRel, Less
  <2> QED
    BY <2>1, NatLessThanWellFounded
<1>2. PICK m \in T : \A n \in T : ~(<<n, m>> \in Less)
  BY <1>1, WFMin
<1>3. \A x, y \in Nat : <<x, y>> \in Less <=> x < y
  BY DEF Less
<1>4. ASSUME NEW n \in T PROVE m <= n
  <2>1. ~(n < m) /\ m \in Nat /\ n \in Nat
    BY <1>2, <1>3
  <2> QED
    BY <2>1
<1> QED
  BY <1>4

\* Two texts are equal or one sorts before the other: look at the first place
\* where they differ.
LEMMA TextTotal ==
  ASSUME NEW a \in Seq(Nat), NEW b \in Seq(Nat), ~TextBefore(a, b), ~TextBefore(b, a)
  PROVE  a = b
<1> DEFINE Differ == {k \in Nat : k # 0 /\ (k > Len(a) \/ k > Len(b) \/ a[k] # b[k])}
<1>1. /\ Len(a) \in Nat /\ Len(b) \in Nat
      /\ (\A i \in 1..Len(a) : a[i] \in Nat) /\ (\A i \in 1..Len(b) : b[i] \in Nat)
  BY LenProperties, ElementOfSeq
<1>2. Len(a) + 1 \in Differ /\ Differ \in SUBSET Nat
  BY <1>1
<1>3. PICK k \in Differ : \A n \in Differ : k <= n
  <2> HIDE DEF Differ
  <2> QED
    BY <1>2, Least
<1>4. k \in Nat /\ k # 0 /\ (k > Len(a) \/ k > Len(b) \/ a[k] # b[k])
  BY <1>3
<1>5. \A i \in 1..(k - 1) : i <= Len(a) /\ i <= Len(b) /\ a[i] = b[i]
  <2> SUFFICES ASSUME NEW i \in 1..(k - 1)
               PROVE  i <= Len(a) /\ i <= Len(b) /\ a[i] = b[i]
    OBVIOUS
  <2>1. i \in Nat /\ i # 0 /\ ~(k <= i)
    BY <1>4
  <2>2. i \notin Differ
    BY <1>3, <2>1
  <2> QED
    BY <1>1, <2>1, <2>2
<1> HIDE DEF Differ
<1>6. SameUpTo(a, b, k - 1) /\ SameUpTo(b, a, k - 1)
  <2>1. CASE k = 1
    BY <1>1, <2>1 DEF SameUpTo
  <2>2. CASE k # 1
    <3>1. k - 1 \in 1..(k - 1)
      BY <1>4, <2>2
    <3> QED
      BY <1>5, <3>1 DEF SameUpTo
  <2> QED
    BY <2>1, <2>2
<1>7. ~(k <= Len(a) /\ k <= Len(b))
  <2> SUFFICES ASSUME k <= Len(a), k <= Len(b) PROVE FALSE
    OBVIOUS
  <2>1. k \in 1..Len(a) /\ k \in 1..Len(b) /\ a[k] # b[k] /\ a[k] \in Nat /\ b[k] \in Nat
    BY <1>1, <1>4
  <2>2. a[k] < b[k] \/ b[k] < a[k]
    BY <2>1
  <2> QED
    BY <1>6, <2>1, <2>2 DEF TextBefore
<1>8. ~(k <= Len(a) /\ k > Len(b)) /\ ~(k > Len(a) /\ k <= Len(b))
  <2>1. ASSUME k <= Len(a), k > Len(b) PROVE FALSE
    <3>1. k \in 1..Len(a) /\ Len(b) = k - 1
      BY <1>1, <1>4, <1>6, <2>1 DEF SameUpTo
    <3> QED
      BY <1>6, <3>1 DEF TextBefore
  <2>2. ASSUME k > Len(a), k <= Len(b) PROVE FALSE
    <3>1. k \in 1..Len(b) /\ Len(a) = k - 1
      BY <1>1, <1>4, <1>6, <2>2 DEF SameUpTo
    <3> QED
      BY <1>6, <3>1 DEF TextBefore
  <2> QED
    BY <2>1, <2>2
<1>9. Len(a) = k - 1 /\ Len(b) = k - 1
  BY <1>1, <1>4, <1>6, <1>7, <1>8 DEF SameUpTo
<1> QED
  BY <1>5, <1>9, SeqEqual

\* No text sorts before another one and after it.
LEMMA TextAsymmetric ==
  ASSUME NEW a \in Seq(Nat), NEW b \in Seq(Nat), TextBefore(a, b)
  PROVE  ~TextBefore(b, a)
<1> SUFFICES ASSUME TextBefore(b, a) PROVE FALSE
  OBVIOUS
<1>1. /\ Len(a) \in Nat /\ Len(b) \in Nat
      /\ (\A i \in 1..Len(a) : a[i] \in Nat) /\ (\A i \in 1..Len(b) : b[i] \in Nat)
  BY LenProperties, ElementOfSeq
<1>2. PICK k \in 1..Len(a) : /\ SameUpTo(a, b, k - 1)
                             /\ Len(b) = k - 1 \/ (k <= Len(b) /\ a[k] < b[k])
  BY DEF TextBefore
<1>3. PICK l \in 1..Len(b) : /\ SameUpTo(b, a, l - 1)
                             /\ Len(a) = l - 1 \/ (l <= Len(a) /\ b[l] < a[l])
  BY DEF TextBefore
<1>4. k < l \/ l < k \/ k = l
  BY <1>1
<1>5. ASSUME k < l PROVE FALSE
  <2>1. k \in 1..(l - 1) /\ k \in 1..Len(a)
    BY <1>1, <1>5
  <2>2. k <= Len(b) /\ a[k] = b[k] /\ a[k] \in Nat
    BY <1>1, <1>3, <2>1 DEF SameUpTo
  <2> QED
    BY <1>1, <1>2, <2>2
<1>6. ASSUME l < k PROVE FALSE
  <2>1. l \in 1..(k - 1) /\ l \in 1..Len(b)
    BY <1>1, <1>6
  <2>2. l <= Len(a) /\ a[l] = b[l] /\ b[l] \in Nat
    BY <1>1, <1>2, <2>1 DEF SameUpTo
  <2> QED
    BY <1>1, <1>3, <2>2
<1>7. ASSUME k = l PROVE FALSE
  <2>1. k \in 1..Len(a) /\ k \in 1..Len(b) /\ a[k] \in Nat /\ b[k] \in Nat
    BY <1>1, <1>7
  <2>2. a[k] < b[k] /\ b[k] < a[k]
    BY <1>1, <1>2, <1>3, <1>7, <2>1
  <2> QED
    BY <2>1, <2>2
<1> QED
  BY <1>4, <1>5, <1>6, <1>7

\* Agreement of texts up to a place.
LEMMA SameChained ==
  ASSUME NEW a \in Seq(Nat), NEW b \in Seq(Nat), NEW c \in Seq(Nat),
         NEW k \in Nat, NEW l \in Nat, NEW n \in Nat, n <= k, n <= l,
         SameUpTo(a, b, k), SameUpTo(b, c, l)
  PROVE  SameUpTo(a, c, n)
<1>1. Len(a) \in Nat /\ Len(b) \in Nat /\ Len(c) \in Nat
  BY LenProperties
<1>2. \A i \in 1..n : i \in 1..k /\ i \in 1..l
  OBVIOUS
<1>3. k <= Len(a) /\ l <= Len(c) /\ (\A i \in 1..k : a[i] = b[i]) /\ (\A i \in 1..l : b[i] = c[i])
  BY DEF SameUpTo
<1>4. \A i \in 1..n : a[i] = c[i]
  BY <1>2, <1>3
<1>5. n <= Len(a) /\ n <= Len(c)
  BY <1>1, <1>3
<1> QED
  BY <1>4, <1>5 DEF SameUpTo

\* The order of the texts is transitive.
LEMMA TextTransitive ==
  ASSUME NEW a \in Seq(Nat), NEW b \in Seq(Nat), NEW c \in Seq(Nat),
         TextBefore(a, b), TextBefore(b, c)
  PROVE  TextBefore(a, c)
<1>1. /\ Len(a) \in Nat /\ Len(b) \in Nat /\ Len(c) \in Nat
      /\ (\A i \in 1..Len(a) : a[i] \in Nat) /\ (\A i \in 1..Len(b) : b[i] \in Nat)
      /\ (\A i \in 1..Len(c) : c[i] \in Nat)
  BY LenProperties, ElementOfSeq
<1>2. PICK k \in 1..Len(a) : /\ SameUpTo(a, b, k - 1)
                             /\ Len(b) = k - 1 \/ (k <= Len(b) /\ a[k] < b[k])
  BY DEF TextBefore
<1>3. PICK l \in 1..Len(b) : /\ SameUpTo(b, c, l - 1)
                             /\ Len(c) = l - 1 \/ (l <= Len(c) /\ b[l] < c[l])
  BY DEF TextBefore
<1>n. k - 1 \in Nat /\ l - 1 \in Nat /\ (k < l => k - 1 <= l - 1) /\ (l < k => l - 1 <= k - 1)
      /\ k - 1 <= k - 1 /\ l - 1 <= l - 1
  BY <1>1
<1>l. Len(a) \in Nat /\ Len(b) \in Nat /\ Len(c) \in Nat /\ k \in Nat /\ l \in Nat
  BY <1>1
<1>4. k < l \/ l < k \/ k = l
  BY <1>1
<1>5. CASE k < l
  <2>1. k \in 1..(l - 1) /\ k \in 1..Len(a) /\ k - 1 <= l - 1 /\ k <= Len(b)
    BY <1>1, <1>3, <1>5
  <2>a. l - 1 <= Len(b) /\ l - 1 <= Len(c) /\ b[k] = c[k]
    BY <1>3, <2>1 DEF SameUpTo
  <2>b. Len(b) # k - 1 /\ k <= Len(c)
    <3>1. k <= l - 1 /\ l - 1 <= Len(b) /\ l - 1 <= Len(c)
      BY <1>l, <2>1, <2>a
    <3> QED
      BY <1>l, <3>1
  <2>c. a[k] < b[k]
    BY <1>2, <2>b
  <2>2. k <= Len(c) /\ b[k] = c[k] /\ a[k] < b[k]
    BY <2>a, <2>b, <2>c
  <2>3. SameUpTo(a, c, k - 1)
    BY <1>2, <1>3, <1>5, <1>n, SameChained
  <2> QED
    BY <2>1, <2>2, <2>3 DEF TextBefore
<1>6. CASE l < k
  <2>1. l \in 1..(k - 1) /\ l \in 1..Len(a) /\ l \in 1..Len(b)
    BY <1>1, <1>6
  <2>2. a[l] = b[l]
    BY <1>2, <2>1 DEF SameUpTo
  <2>3. SameUpTo(a, c, l - 1)
    BY <1>2, <1>3, <1>6, <1>n, SameChained
  <2> QED
    BY <1>3, <2>1, <2>2, <2>3 DEF TextBefore
<1>7. CASE k = l
  <2>1. k \in 1..Len(a) /\ k \in 1..Len(b) /\ a[k] \in Nat /\ b[k] \in Nat /\ a[k] < b[k]
    BY <1>1, <1>2, <1>7
  <2>2. SameUpTo(a, c, k - 1)
    BY <1>2, <1>3, <1>7, <1>n, SameChained
  <2>3. Len(c) = k - 1 \/ (k <= Len(c) /\ a[k] < c[k])
    <3>1. CASE Len(c) = k - 1
      BY <3>1
    <3>2. CASE k <= Len(c) /\ b[l] < c[l]
      <4>0. k \in 1..Len(c)
        BY <1>l, <2>1, <3>2
      <4>1. c[k] \in Nat
        BY <1>1, <4>0
      <4>2. a[k] < c[k]
        BY <1>7, <2>1, <3>2, <4>1
      <4> QED
        BY <3>2, <4>2
    <3> QED
      BY <1>3, <1>7, <3>1, <3>2
  <2> QED
    BY <2>1, <2>2, <2>3 DEF TextBefore
<1> QED
  BY <1>4, <1>5, <1>6, <1>7

\* Row m comes last among the first n.
LastOf(c, n, m) == m \in 1..n /\ \A j \in 1..n : m = j \/ RowBefore(c, j, m)

\* A row more: it is the last, or the last one stays it.
LEMMA LastOfMore ==
  ASSUME NEW c \in Seq(Row), NEW n \in Nat, n + 1 <= Len(c), NEW m, LastOf(c, n, m)
  PROVE  \E l : LastOf(c, n + 1, l)
<1> DEFINE ts(i) == c[i].e.ts
<1>1. /\ Len(c) \in Nat /\ n + 1 \in 1..(n + 1) /\ m \in 1..n /\ m \in 1..(n + 1)
      /\ (\A i \in 1..(n + 1) : i \in 1..Len(c))
      /\ \A i \in 1..(n + 1) : i \in 1..n \/ i = n + 1
  BY LenProperties DEF LastOf
<1>2. \A i \in 1..(n + 1) : ts(i) \in Seq(Nat)
  <2> SUFFICES ASSUME NEW i \in 1..(n + 1) PROVE ts(i) \in Seq(Nat)
    OBVIOUS
  <2>1. c[i] \in Row
    BY <1>1, ElementOfSeq
  <2> QED
    BY <2>1 DEF Row, EventType
<1>3. \A j \in 1..n : m = j \/ (~TextBefore(ts(m), ts(j)) /\ (TextBefore(ts(j), ts(m)) \/ j < m))
  BY DEF LastOf, RowBefore
<1>4. ~TextBefore(ts(m), ts(m))
  BY <1>1, <1>2, TextAsymmetric
<1> HIDE DEF ts
<1>5. CASE TextBefore(ts(n + 1), ts(m))
  <2>1. ~TextBefore(ts(m), ts(n + 1))
    BY <1>1, <1>2, <1>5, TextAsymmetric
  <2>2. RowBefore(c, n + 1, m)
    BY <1>5, <2>1 DEF RowBefore, ts
  <2> QED
    BY <1>1, <2>2 DEF LastOf
<1>6. CASE ~TextBefore(ts(n + 1), ts(m))
  <2>1. ASSUME NEW j \in 1..n PROVE RowBefore(c, j, n + 1)
    <3>1. ~TextBefore(ts(m), ts(j)) /\ j \in 1..(n + 1) /\ j < n + 1
      BY <1>1, <1>3, <1>4
    <3>2. ~TextBefore(ts(n + 1), ts(j))
      <4> SUFFICES ASSUME TextBefore(ts(n + 1), ts(j)) PROVE FALSE
        OBVIOUS
      <4>1. CASE TextBefore(ts(j), ts(m))
        BY <1>1, <1>2, <1>6, <3>1, <4>1, TextTransitive
      <4>2. CASE ~TextBefore(ts(j), ts(m))
        <5>1. ts(j) = ts(m)
          BY <1>1, <1>2, <3>1, <4>2, TextTotal
        <5> QED
          BY <1>6, <5>1
      <4> QED
        BY <4>1, <4>2
    <3> QED
      BY <3>1, <3>2 DEF RowBefore, ts
  <2> QED
    BY <1>1, <2>1 DEF LastOf
<1> QED
  BY <1>5, <1>6

\* A table that is not empty has a last row, and GetLastEventHash returns the
\* hash of a row.
LEMMA LatestExists ==
  ASSUME NEW c \in Seq(Row), c # <<>>
  PROVE  \E i \in 1..Len(c) : GetLastEventHash(c) = c[i].hash
<1>1. Len(c) \in Nat /\ Len(c) # 0
  BY LenProperties, EmptySeq
<1> DEFINE Bad == {n \in Nat : n # 0 /\ n <= Len(c) /\ ~\E m : LastOf(c, n, m)}
<1>2. Bad = {}
  <2> SUFFICES ASSUME Bad # {} PROVE FALSE
    OBVIOUS
  <2>1. PICK n \in Bad : \A l \in Bad : n <= l
    <3>1. Bad \in SUBSET Nat
      OBVIOUS
    <3> HIDE DEF Bad
    <3> QED
      BY <3>1, Least
  <2>2. n \in Nat /\ n # 0 /\ n <= Len(c) /\ ~\E m : LastOf(c, n, m)
    BY <2>1
  <2>3. CASE n = 1
    <3>1. LastOf(c, 1, 1)
      BY DEF LastOf
    <3> QED
      BY <2>2, <2>3, <3>1
  <2>4. CASE n # 1
    <3>1. n - 1 \in Nat /\ n - 1 # 0 /\ n - 1 <= Len(c) /\ ~(n <= n - 1) /\ (n - 1) + 1 = n
      BY <1>1, <2>2, <2>4
    <3>2. n - 1 \notin Bad
      BY <2>1, <3>1
    <3>3. PICK m : LastOf(c, n - 1, m)
      BY <3>1, <3>2
    <3>4. (n - 1) + 1 <= Len(c)
      BY <2>2, <3>1
    <3>5. \E l : LastOf(c, (n - 1) + 1, l)
      BY <3>1, <3>3, <3>4, LastOfMore
    <3> QED
      BY <2>2, <3>1, <3>5
  <2> QED
    BY <2>3, <2>4
<1>3. \E m : LastOf(c, Len(c), m)
  BY <1>1, <1>2
<1>4. LatestRow(c, 1..Len(c)) \in 1..Len(c)
  BY <1>3 DEF LatestRow, LastOf
<1> QED
  BY <1>4 DEF GetLastEventHash

-----------------------------------------------------------------------------
(***************************************************************************)
(* Judging                                                                 *)
(***************************************************************************)

\* The outcome is raised to that of a triggered rule, and never lowered.
LEMMA RaisedHighest ==
  ASSUME NEW o \in Outcomes, NEW a, NEW t \in SUBSET Enforcements
  PROVE  LET r == RaisedOutcome(o, a, t)
         IN  /\ r \in {o} \cup {OutcomeForEnforcement(u, a) : u \in t}
             /\ r \in Outcomes /\ OutcomeRank(o) <= OutcomeRank(r)
<1> DEFINE C == {o} \cup {OutcomeForEnforcement(u, a) : u \in t}
<1>1. C \subseteq Outcomes /\ o \in C
  BY DEF OutcomeForEnforcement, Enforcements, Outcomes
<1>2. \E p \in C : \A q \in C : OutcomeRank(q) <= OutcomeRank(p)
  <2> HIDE DEF C
  <2> USE <1>1 DEF OutcomeRank, Outcomes
  <2>1. CASE "blocked" \in C
    BY <2>1
  <2>2. CASE "blocked" \notin C /\ "failure" \in C
    BY <2>2
  <2>3. CASE "blocked" \notin C /\ "failure" \notin C /\ "warned" \in C
    BY <2>3
  <2>4. CASE "blocked" \notin C /\ "failure" \notin C /\ "warned" \notin C
    BY <2>4
  <2> QED
    BY <2>1, <2>2, <2>3, <2>4
<1>3. RaisedOutcome(o, a, t) = CHOOSE p \in C : \A q \in C : OutcomeRank(q) <= OutcomeRank(p)
  BY DEF RaisedOutcome
<1> HIDE DEF C
<1>4. RaisedOutcome(o, a, t) \in C /\ OutcomeRank(o) <= OutcomeRank(RaisedOutcome(o, a, t))
  BY <1>1, <1>2, <1>3
<1> QED
  BY <1>1, <1>4 DEF C

\* Redaction takes matches away: all of those that are always looked for, if they
\* are not too many, and if a rule triggered the others as well (Redact).
LEMMA RedactCleans ==
  ASSUME NEW args \in Arguments, NEW t
  PROVE  LET r == Redact(args, t)
         IN  /\ r \in Arguments
             /\ args.secrets <= MaxRedactions => r.secrets = 0
             /\ t # {} /\ args.secrets + args.assigns <= MaxRedactions => r.assigns = 0
<1> DEFINE s == args.secrets
           a == args.assigns
           always == Fewer(s, MaxRedactions)
           more == IF t # {} THEN Fewer(a, MaxRedactions - always) ELSE 0
<1>1. s \in Nat /\ a \in Nat /\ MaxRedactions \in Nat
  BY LogAssumption DEF Arguments
<1>2. Redact(args, t) = [secrets |-> s - always, assigns |-> a - more]
  BY DEF Redact
<1> HIDE DEF s, a
<1>3. /\ always \in Nat /\ always <= s /\ always <= MaxRedactions
      /\ s <= MaxRedactions => always = s
  BY <1>1 DEF Fewer
<1> HIDE DEF always
<1>4. /\ more \in Nat /\ more <= a
      /\ t # {} /\ a <= MaxRedactions - always => more = a
  BY <1>1, <1>3 DEF Fewer
<1> HIDE DEF more
<1>5. s - always \in Nat /\ a - more \in Nat
  BY <1>1, <1>3, <1>4
<1>6. s <= MaxRedactions => s - always = 0
  BY <1>1, <1>3
<1>7. t # {} /\ s + a <= MaxRedactions => a - more = 0
  <2> SUFFICES ASSUME t # {}, s + a <= MaxRedactions PROVE a - more = 0
    OBVIOUS
  <2>1. s <= MaxRedactions /\ always = s /\ a <= MaxRedactions - always
    BY <1>1, <1>3
  <2> QED
    BY <1>1, <1>4, <2>1
<1> QED
  BY <1>2, <1>5, <1>6, <1>7 DEF Arguments, s, a

\* Judging changes neither the id nor the timestamp (processEvent).
LEMMA JudgeType ==
  ASSUME NEW e \in EventType, NEW t \in SUBSET Enforcements
  PROVE  /\ Judge(e, t) \in EventType
         /\ Judge(e, t).id = e.id /\ Judge(e, t).exempt = e.exempt
<1>1. RaisedOutcome(e.outcome, e.adapter, t) \in Outcomes
  BY RaisedHighest DEF EventType
<1>2. Redact(e.args, t) \in Arguments /\ e.args \in Arguments
  BY RedactCleans DEF EventType
<1> QED
  BY <1>1, <1>2 DEF Judge, EventType

\* Row r is made from the submitted event s.
JudgedFrom(r, s) ==
  /\ r.e.id = s.id
  /\ OutcomeRank(s.outcome) <= OutcomeRank(r.e.outcome)
  /\ s.adapter = "log_watcher" /\ s.outcome # "blocked" => r.e.outcome # "blocked"
  /\ s.exempt => r.e = s
  /\ r.by.redactor = "rules" /\ ~r.e.exempt =>
       /\ s.args.secrets <= MaxRedactions => r.e.args.secrets = 0
       /\ r.by.triggered /\ s.args.secrets + s.args.assigns <= MaxRedactions
            => r.e.args.assigns = 0

\* The row of a judged event is made from it.
LEMMA JudgeFaithful ==
  ASSUME NEW e \in EventType, NEW t \in SUBSET Enforcements, NEW r,
         r.e = Judge(e, t), r.by.redactor = redactor, r.by.triggered = (t # {})
  PROVE  JudgedFrom(r, e)
<1> DEFINE o == RaisedOutcome(e.outcome, e.adapter, t)
<1>1. e.outcome \in Outcomes /\ e.args \in Arguments
  BY DEF EventType
<1>2. /\ o \in {e.outcome} \cup {OutcomeForEnforcement(u, e.adapter) : u \in t}
      /\ o \in Outcomes /\ OutcomeRank(e.outcome) <= OutcomeRank(o)
  BY <1>1, RaisedHighest
<1>3. e.adapter = "log_watcher" /\ e.outcome # "blocked" => o # "blocked"
  <2>1. \A u \in t : e.adapter = "log_watcher" => OutcomeForEnforcement(u, e.adapter) # "blocked"
    BY DEF OutcomeForEnforcement, Enforcements
  <2> HIDE DEF o
  <2> QED
    BY <1>2, <2>1
<1>4. OutcomeRank(e.outcome) <= OutcomeRank(e.outcome)
  BY <1>1 DEF Outcomes, OutcomeRank
<1> HIDE DEF o
<1>5. CASE e.exempt
  BY <1>4, <1>5 DEF Judge, JudgedFrom
<1>6. CASE ~e.exempt
  <2> DEFINE x == [e EXCEPT !.outcome = o, !.args = IF redactor = "rules" THEN Redact(e.args, t)
                                                    ELSE e.args]
  <2>1. r.e = x
    BY <1>6 DEF Judge, o
  <2>2. /\ x.id = e.id /\ x.outcome = o
        /\ redactor = "rules" => x.args = Redact(e.args, t)
    BY DEF EventType
  <2> HIDE DEF x
  <2>3. redactor = "rules" =>
          /\ e.args.secrets <= MaxRedactions => x.args.secrets = 0
          /\ t # {} /\ e.args.secrets + e.args.assigns <= MaxRedactions => x.args.assigns = 0
    BY <1>1, <2>2, RedactCleans
  <2> QED
    BY <1>2, <1>3, <1>6, <2>1, <2>2, <2>3 DEF JudgedFrom
<1> QED
  BY <1>5, <1>6

-----------------------------------------------------------------------------
(***************************************************************************)
(* Where the events are: no event vanishes, what is stored is what was     *)
(* submitted, judged, and rows are only ever added                         *)
(***************************************************************************)

Held == Elems(rows) \cup Elems(batch)

LogShape ==
  /\ rows \in Seq(Row) /\ batch \in Seq(Row) /\ prevHash \in Seq(EventType)
  /\ inq \in Seq(EventType) /\ ctl \in Seq(EventType) /\ submitted \in Seq(EventType)
  /\ accepted \in 0..Len(submitted) /\ redactor \in Services
  /\ pc \in Points /\ cont \in {"drain", "shutdown", "final", "stopped"}
  /\ Single(rows)

\* The open transaction holds the table and the first rows of the batch, but for
\* those ignored; while the subscribers are told, the batch is stored.
OpenTx ==
  /\ pc = "insert" =>
       /\ tx.next \in 1..(Len(batch) + 1)
       /\ tx.rows \in Seq(Row) /\ Extends(rows, tx.rows) /\ Single(tx.rows)
       /\ Elems(tx.rows) \subseteq Held
       /\ StoredIds(tx.rows) = StoredIds(rows) \cup {batch[i].e.id : i \in 1..(tx.next - 1)}
       /\ \A i \in 1..(tx.next - 1) : batch[i] \in Elems(tx.rows) \cup tx.ignored
       /\ tx.ignored = {} => tx.rows = rows \o SubSeq(batch, 1, tx.next - 1)
  /\ pc = "notify" => /\ Elems(batch) \subseteq Elems(rows) \cup ignored
                      /\ StoredIds(batch) \subseteq StoredIds(rows)

\* The serializer is at one of these points, or will return to one from a flush.
At(points) == pc \in points \/ (pc \in {"flush", "insert", "notify"} /\ cont \in points)

\* The shutdown branch is only entered when ctx is cancelled, and when it has
\* found both channels empty nothing accepted before is left in them.
DrainInv ==
  /\ At({"shutdown", "final", "stopped"}) => done
  /\ At({"final", "stopped"}) =>
       \A i \in 1..accepted : submitted[i].id \in StoredIds(batch) \cup StoredIds(rows) \cup lost

Faithful(r) ==
  /\ \E s \in Elems(submitted) : JudgedFrom(r, s)
  /\ r.hash = ComputeHash(r.e, r.prev)

FaithInv ==
  /\ \A r \in Held : Faithful(r)
  /\ Elems(inq) \cup Elems(ctl) \subseteq Elems(submitted)

PipeInv == LogShape /\ OpenTx /\ Accounted /\ DrainInv /\ FaithInv

\* Steps that leave the table, the batch, the queue and the histories alone.
LEMMA SamePipe ==
  ASSUME PipeInv, UNCHANGED <<rows, batch, inq, ctl, submitted, lost>>,
         LogShape', OpenTx', DrainInv'
  PROVE  PipeInv'
<1>1. Accounted'
  BY DEF PipeInv, Accounted, Volatile
<1>2. FaithInv'
  BY DEF PipeInv, FaithInv, Held, Faithful
<1> QED
  BY <1>1, <1>2 DEF PipeInv

\* A move of the serializer to a point where it may also be by now.
LEMMA MovePipe ==
  ASSUME PipeInv,
         UNCHANGED <<rows, batch, prevHash, inq, ctl, submitted, lost, accepted, redactor>>,
         done' = done, pc' \in Points \ {"insert", "notify"},
         cont' \in {"drain", "shutdown", "final", "stopped"},
         At({"shutdown", "final", "stopped"})' => At({"shutdown", "final", "stopped"}),
         At({"final", "stopped"})' => At({"final", "stopped"})
  PROVE  PipeInv'
<1>1. LogShape' /\ OpenTx'
  BY DEF PipeInv, LogShape, OpenTx
<1>2. DrainInv'
  BY DEF PipeInv, DrainInv
<1> QED
  BY <1>1, <1>2, SamePipe

\* processEvent has made row of event e, and goes on at then.
Taken(e, t, row, then) ==
  /\ row = [e |-> Judge(e, t), prev |-> prevHash, hash |-> ComputeHash(Judge(e, t), prevHash),
            by |-> [redactor |-> redactor, triggered |-> t # {}]]
  /\ prevHash' = row.hash /\ Anchor(row) /\ batch' = Append(batch, row)
  /\ \/ pc' = "flush" /\ cont' = then
     \/ pc' = then /\ cont' = cont
  /\ UNCHANGED <<rows, subs, done, service, submitted, accepted, lost, discarded, ignored>>

\* A receive from either channel makes a row of its oldest event.
LEMMA TakeRow ==
  ASSUME LogShape, NEW then, TakeMain(then) \/ TakeControl(then)
  PROVE  \E e \in EventType, t \in SUBSET Enforcements, row \in Row :
           /\ Taken(e, t, row, then) /\ row.e = Judge(e, t) /\ row.e.id = e.id
           /\ row.prev = prevHash /\ row.hash = ComputeHash(row.e, row.prev)
           /\ row.by.redactor = redactor /\ row.by.triggered = (t # {})
           /\ \/ inq # <<>> /\ e = Head(inq) /\ inq' = Tail(inq) /\ ctl' = ctl
              \/ ctl # <<>> /\ e = Head(ctl) /\ ctl' = Tail(ctl) /\ inq' = inq
<1>1. PICK e : /\ ProcessEvent(e, then)
               /\ \/ inq # <<>> /\ e = Head(inq) /\ inq' = Tail(inq) /\ ctl' = ctl
                  \/ ctl # <<>> /\ e = Head(ctl) /\ ctl' = Tail(ctl) /\ inq' = inq
  BY DEF TakeMain, TakeControl
<1>2. e \in EventType
  BY <1>1, TakeHead DEF LogShape
<1>3. PICK t \in IF evaluator = "rules" THEN Triggers ELSE {{}} :
        LET x   == Judge(e, t)
            row == [e |-> x, prev |-> prevHash, hash |-> ComputeHash(x, prevHash),
                    by |-> [redactor |-> redactor, triggered |-> t # {}]]
        IN  /\ prevHash' = row.hash
            /\ Anchor(row)
            /\ batch' = Append(batch, row)
            /\ IF Len(batch) + 1 >= BatchSize
               THEN pc' = "flush" /\ cont' = then
               ELSE pc' = then /\ UNCHANGED cont
            /\ UNCHANGED <<rows, subs, done, service, submitted, accepted, lost, discarded,
                           ignored>>
  BY <1>1 DEF ProcessEvent, ghosts
<1>4. t \in SUBSET Enforcements
  BY LogAssumption
<1> DEFINE x == Judge(e, t)
           row == [e |-> x, prev |-> prevHash, hash |-> ComputeHash(x, prevHash),
                   by |-> [redactor |-> redactor, triggered |-> t # {}]]
<1>5. Taken(e, t, row, then)
  BY <1>3 DEF Taken
<1>6. x \in EventType /\ x.id = e.id
  BY <1>2, <1>4, JudgeType
<1>7. /\ row.e = x /\ row.prev = prevHash /\ row.hash = ComputeHash(x, prevHash)
      /\ row.by.redactor = redactor /\ row.by.triggered = (t # {})
  OBVIOUS
<1>8. row \in Row
  <2> HIDE DEF x
  <2>1. ComputeHash(x, prevHash) \in Seq(EventType)
    BY <1>6, AppendProperties DEF ComputeHash, LogShape
  <2> QED
    BY <1>6, <2>1 DEF Row, Hashes, LogShape
<1> HIDE DEF row
<1> QED
  BY <1>1, <1>2, <1>4, <1>5, <1>6, <1>7, <1>8

\* What a receive takes out of the queue.
LEMMA TakeQueue ==
  ASSUME LogShape, NEW e \in EventType,
         \/ inq # <<>> /\ e = Head(inq) /\ inq' = Tail(inq) /\ ctl' = ctl
         \/ ctl # <<>> /\ e = Head(ctl) /\ ctl' = Tail(ctl) /\ inq' = inq
  PROVE  /\ inq' \in Seq(EventType) /\ ctl' \in Seq(EventType)
         /\ Elems(inq) \cup Elems(ctl) = {e} \cup Elems(inq') \cup Elems(ctl')
         /\ IdsOf(inq) \cup IdsOf(ctl) = {e.id} \cup IdsOf(inq') \cup IdsOf(ctl')
<1>1. inq \in Seq(EventType) /\ ctl \in Seq(EventType)
  BY DEF LogShape
<1>2. CASE inq # <<>> /\ e = Head(inq) /\ inq' = Tail(inq) /\ ctl' = ctl
  <2>1. /\ inq' \in Seq(EventType) /\ Elems(inq) = {e} \cup Elems(inq')
        /\ IdsOf(inq) = {e.id} \cup IdsOf(inq')
    BY <1>1, <1>2, TakeHead
  <2> QED
    BY <1>1, <1>2, <2>1
<1>3. CASE ctl # <<>> /\ e = Head(ctl) /\ ctl' = Tail(ctl) /\ inq' = inq
  <2>1. /\ ctl' \in Seq(EventType) /\ Elems(ctl) = {e} \cup Elems(ctl')
        /\ IdsOf(ctl) = {e.id} \cup IdsOf(ctl')
    BY <1>1, <1>3, TakeHead
  <2> QED
    BY <1>1, <1>3, <2>1
<1> QED
  BY <1>2, <1>3

\* processEvent: the event taken from a channel becomes the last row of the
\* batch.
LEMMA TakePipe ==
  ASSUME PipeInv, NEW then \in {"drain", "shutdown", "final"},
         pc \in {"drain", "select"} => then = "drain",
         pc \in {"shutdown", "final"} => then = pc,
         pc \in {"drain", "select", "shutdown", "final"},
         TakeMain(then) \/ TakeControl(then)
  PROVE  PipeInv'
<1>1. LogShape /\ OpenTx /\ Accounted /\ DrainInv /\ FaithInv
  BY DEF PipeInv
<1>2. PICK e \in EventType, t \in SUBSET Enforcements, row \in Row :
        /\ Taken(e, t, row, then) /\ row.e = Judge(e, t) /\ row.e.id = e.id
        /\ row.hash = ComputeHash(row.e, row.prev)
        /\ row.by.redactor = redactor /\ row.by.triggered = (t # {})
        /\ \/ inq # <<>> /\ e = Head(inq) /\ inq' = Tail(inq) /\ ctl' = ctl
           \/ ctl # <<>> /\ e = Head(ctl) /\ ctl' = Tail(ctl) /\ inq' = inq
  BY <1>1, TakeRow
<1>3. /\ inq' \in Seq(EventType) /\ ctl' \in Seq(EventType)
      /\ Elems(inq) \cup Elems(ctl) = {e} \cup Elems(inq') \cup Elems(ctl')
      /\ IdsOf(inq) \cup IdsOf(ctl) = {e.id} \cup IdsOf(inq') \cup IdsOf(ctl')
  BY <1>1, <1>2, TakeQueue
<1>4. prevHash' = row.hash /\ batch' = Append(batch, row)
      /\ UNCHANGED <<rows, done, redactor, submitted, accepted, lost>>
      /\ ((pc' = "flush" /\ cont' = then) \/ (pc' = then /\ cont' = cont))
  BY <1>2 DEF Taken, service
<1>5. /\ batch' \in Seq(Row) /\ Elems(batch)' = Elems(batch) \cup {row}
      /\ StoredIds(batch)' = StoredIds(batch) \cup {e.id}
  BY <1>1, <1>2, <1>4, AppendRow DEF LogShape
<1>6. LogShape'
  <2>1. row.hash \in Seq(EventType)
    BY DEF Row, Hashes
  <2>2. Single(rows)'
    BY <1>1, <1>4 DEF LogShape, Single
  <2> QED
    BY <1>1, <1>3, <1>4, <1>5, <2>1, <2>2 DEF LogShape, Points
<1>7. OpenTx'
  BY <1>4 DEF OpenTx
<1>8. Accounted'
  <2>1. IdsOf(inq)' = IdsOf(inq') /\ IdsOf(ctl)' = IdsOf(ctl') /\ IdsOf(submitted)' = IdsOf(submitted)
        /\ StoredIds(rows)' = StoredIds(rows)
    BY <1>4 DEF IdsOf
  <2> QED
    BY <1>1, <1>3, <1>4, <1>5, <2>1 DEF Accounted, Volatile
<1>9. DrainInv'
  <2>1. /\ At({"shutdown", "final", "stopped"})' => At({"shutdown", "final", "stopped"})
        /\ At({"final", "stopped"})' => At({"final", "stopped"})
    BY <1>4 DEF At
  <2>2. StoredIds(batch) \subseteq StoredIds(batch)' /\ StoredIds(rows)' = StoredIds(rows)
    BY <1>4, <1>5
  <2> QED
    BY <1>1, <1>4, <2>1, <2>2 DEF DrainInv
<1>10. FaithInv'
  <2>1. Faithful(row)
    <3>1. e \in Elems(submitted)
      BY <1>1, <1>3 DEF FaithInv
    <3>2. JudgedFrom(row, e)
      BY <1>2, JudgeFaithful
    <3> QED
      BY <1>2, <3>1, <3>2 DEF Faithful
  <2>2. Held' = Held \cup {row}
    BY <1>4, <1>5 DEF Held
  <2>3. \A r \in Held' : Faithful(r)
    BY <1>1, <2>1, <2>2 DEF FaithInv
  <2>4. Elems(submitted)' = Elems(submitted)
    BY <1>4
  <2>5. \A r \in Held' : Faithful(r)'
    BY <2>3, <2>4 DEF Faithful
  <2>6. (Elems(inq) \cup Elems(ctl))' \subseteq Elems(submitted)'
    BY <1>1, <1>3, <1>4 DEF FaithInv, Elems
  <2> QED
    BY <2>5, <2>6 DEF FaithInv
<1> QED
  BY <1>6, <1>7, <1>8, <1>9, <1>10 DEF PipeInv

\* A row of the batch is added to the open transaction, or ignored.
LEMMA InsertPipe == ASSUME PipeInv, InsertOne PROVE PipeInv'
<1> USE DEF db, queue, locals, ghosts, service
<1> DEFINE n == tx.next
           row == batch[n]
<1>1. LogShape /\ OpenTx /\ Accounted /\ DrainInv /\ FaithInv
  BY DEF PipeInv
<1>2. /\ rows \in Seq(Row) /\ batch \in Seq(Row) /\ Len(batch) \in Nat
  BY <1>1, LenProperties DEF LogShape
<1>3. /\ pc = "insert" /\ n \in 1..Len(batch) /\ tx.rows \in Seq(Row)
      /\ Extends(rows, tx.rows) /\ Single(tx.rows) /\ Elems(tx.rows) \subseteq Held
      /\ StoredIds(tx.rows) = StoredIds(rows) \cup {batch[i].e.id : i \in 1..(n - 1)}
      /\ \A i \in 1..(n - 1) : batch[i] \in Elems(tx.rows) \cup tx.ignored
      /\ tx.ignored = {} => tx.rows = rows \o SubSeq(batch, 1, n - 1)
      /\ tx'.rows = InsertRow(tx.rows, row) /\ tx'.next = n + 1
      /\ tx'.ignored = IF row.e.id \in StoredIds(tx.rows) THEN tx.ignored \cup {row}
                       ELSE tx.ignored
  <2>1. /\ pc = "insert" /\ n <= Len(batch)
        /\ tx' = [rows |-> InsertRow(tx.rows, row), next |-> n + 1,
                  ignored |-> IF row.e.id \in StoredIds(tx.rows) THEN tx.ignored \cup {row}
                              ELSE tx.ignored]
    BY DEF InsertOne
  <2>2. n \in 1..(Len(batch) + 1)
    BY <1>1, <2>1 DEF OpenTx
  <2>3. n \in 1..Len(batch)
    <3> HIDE DEF n
    <3> QED
      BY <1>2, <2>1, <2>2
  <2> QED
    BY <1>1, <2>1, <2>3 DEF OpenTx
<1>4. UNCHANGED <<rows, batch, prevHash, inq, ctl, submitted, lost, accepted, pc, cont, done,
                  redactor>>
  BY DEF InsertOne
<1> HIDE DEF n
<1>5. row \in Row /\ row \in Held
  <2>1. batch[n] \in Row /\ batch[n] \in Elems(batch)
    BY <1>2, <1>3, ElementOfSeq DEF Elems
  <2> QED
    BY <2>1 DEF Held
<1>6. tx.ignored = {} => Append(tx.rows, row) = rows \o SubSeq(batch, 1, n)
  <2>1. Append(rows \o SubSeq(batch, 1, n - 1), batch[n]) = rows \o SubSeq(batch, 1, n)
    BY <1>2, <1>3, InsertNext
  <2> QED
    BY <1>3, <2>1
<1> HIDE DEF row
<1>7. /\ tx'.rows \in Seq(Row) /\ Extends(rows, tx'.rows) /\ Single(tx'.rows)
      /\ Elems(tx'.rows) \subseteq Held
      /\ StoredIds(tx'.rows) = StoredIds(tx.rows) \cup {row.e.id}
      /\ Elems(tx.rows) \subseteq Elems(tx'.rows) /\ tx.ignored \subseteq tx'.ignored
      /\ row \in Elems(tx'.rows) \cup tx'.ignored
      /\ tx'.ignored = {} => tx'.rows = rows \o SubSeq(batch, 1, n)
  <2>1. CASE row.e.id \in StoredIds(tx.rows)
    <3>1. tx'.rows = tx.rows /\ row \in tx'.ignored /\ tx.ignored \subseteq tx'.ignored
      BY <1>3, <2>1 DEF InsertRow
    <3> QED
      BY <1>3, <2>1, <3>1
  <2>2. CASE row.e.id \notin StoredIds(tx.rows)
    <3>1. tx'.rows = Append(tx.rows, row) /\ tx'.ignored = tx.ignored
      BY <1>3, <2>2 DEF InsertRow
    <3>2. /\ tx'.rows \in Seq(Row) /\ Single(tx'.rows) /\ Extends(tx.rows, tx'.rows)
          /\ Elems(tx'.rows) = Elems(tx.rows) \cup {row}
          /\ StoredIds(tx'.rows) = StoredIds(tx.rows) \cup {row.e.id}
      BY <1>3, <1>5, <2>2, <3>1, AppendRow
    <3>3. Extends(rows, tx'.rows)
      <4>1. Len(rows) \in Nat /\ Len(tx.rows) \in Nat /\ Len(tx'.rows) \in Nat
        BY <1>2, <1>3, <3>2, LenProperties
      <4> QED
        BY <1>3, <3>2, <4>1 DEF Extends
    <3> QED
      BY <1>3, <1>5, <1>6, <3>1, <3>2, <3>3
  <2> QED
    BY <2>1, <2>2
<1>8. /\ \A i : i \in 1..((n + 1) - 1) <=> i \in 1..(n - 1) \/ i = n
      /\ n + 1 \in 1..(Len(batch) + 1) /\ (n + 1) - 1 = n
  BY <1>2, <1>3
<1>9. {batch[i].e.id : i \in 1..((n + 1) - 1)} = {batch[i].e.id : i \in 1..(n - 1)} \cup {row.e.id}
  BY <1>8 DEF row
<1>10. \A i \in 1..((n + 1) - 1) : batch[i] \in Elems(tx'.rows) \cup tx'.ignored
  BY <1>3, <1>7, <1>8 DEF row
<1>11. OpenTx'
  <2>1. StoredIds(tx'.rows) = StoredIds(rows) \cup {batch[i].e.id : i \in 1..((n + 1) - 1)}
    BY <1>3, <1>7, <1>9
  <2>2. Held' = Held /\ StoredIds(rows)' = StoredIds(rows) /\ pc' = "insert"
    BY <1>3, <1>4 DEF Held
  <2>3. tx'.ignored = {} => tx'.rows = rows \o SubSeq(batch, 1, (n + 1) - 1)
    BY <1>7, <1>8
  <2>4. Single(tx.rows)' /\ Extends(rows, tx.rows)' /\ Elems(tx.rows)' = Elems(tx'.rows)
        /\ StoredIds(tx.rows)' = StoredIds(tx'.rows)
    BY <1>4, <1>7 DEF Single, Extends
  <2> QED
    BY <1>3, <1>4, <1>7, <1>8, <1>10, <2>1, <2>2, <2>3, <2>4 DEF OpenTx
<1>12. LogShape' /\ DrainInv'
  BY <1>1, <1>4 DEF LogShape, DrainInv, At, Single
<1> QED
  BY <1>4, <1>11, <1>12, SamePipe

\* The rows that are held stay faithful when fewer are.
LEMMA StillFaithful ==
  ASSUME FaithInv, Held' \subseteq Held, UNCHANGED <<inq, ctl, submitted>>
  PROVE  FaithInv'
<1>1. \A r : Faithful(r) => Faithful(r)'
  BY DEF Faithful
<1> QED
  BY <1>1 DEF FaithInv

\* The transaction: BeginFlush, Commit, FlushError, Notify.
LEMMA FlushPipe ==
  ASSUME PipeInv, BeginFlush \/ Commit \/ FlushError \/ Notify
  PROVE  PipeInv'
<1> USE DEF db, queue, locals, ghosts, service
<1>1. LogShape /\ OpenTx /\ Accounted /\ DrainInv /\ FaithInv
  BY DEF PipeInv
<1>2. /\ rows \in Seq(Row) /\ batch \in Seq(Row) /\ Len(batch) \in Nat /\ Len(rows) \in Nat
      /\ cont \in {"drain", "shutdown", "final", "stopped"} /\ Single(rows)
  BY <1>1, LenProperties DEF LogShape
<1>3. CASE BeginFlush
  <2>1. CASE batch = <<>>
    <3>1. pc = "flush" /\ pc' = cont /\ cont' = cont
      BY <1>3, <2>1 DEF BeginFlush
    <3>2. \A S \in SUBSET {"shutdown", "final", "stopped"} : At(S)' => At(S)
      BY <1>2, <3>1 DEF At
    <3> QED
      BY <1>2, <1>3, <3>1, <3>2, MovePipe DEF BeginFlush, Points
  <2>2. CASE batch # <<>>
    <3>1. /\ pc = "flush" /\ pc' = "insert" /\ cont' = cont /\ done' = done
          /\ tx'.rows = rows /\ tx'.next = 1 /\ tx'.ignored = {}
          /\ UNCHANGED <<rows, batch, prevHash, inq, ctl, submitted, lost, accepted, redactor>>
      BY <1>3, <2>2 DEF BeginFlush
    <3>2. LogShape' /\ DrainInv'
      BY <1>1, <3>1 DEF LogShape, DrainInv, At, Points, Single
    <3>3. {batch[i].e.id : i \in 1..(tx'.next - 1)} = {} /\ 1 - 1 = 0 /\ 1..0 = {}
      BY <3>1
    <3>4. SubSeq(batch, 1, 0) = <<>> /\ rows \o <<>> = rows
      BY <1>2, SubSeqEmpty, ConcatEmptySeq
    <3>5. Extends(rows, rows) /\ Elems(rows) \subseteq Held
      BY <1>2 DEF Extends, Held
    <3>6. OpenTx'
      BY <1>2, <3>1, <3>3, <3>4, <3>5 DEF OpenTx, Held, Single, Extends
    <3> QED
      BY <3>1, <3>2, <3>6, SamePipe
  <2> QED
    BY <2>1, <2>2
<1>5. CASE Commit
  <2>1. /\ pc = "insert" /\ tx.next - 1 = Len(batch) /\ rows' = tx.rows /\ pc' = "notify"
        /\ ignored' = ignored \cup tx.ignored
        /\ UNCHANGED <<batch, prevHash, inq, ctl, submitted, lost, accepted, cont, done, redactor>>
    BY <1>1, <1>2, <1>5 DEF Commit, OpenTx
  <2>2. StoredIds(rows') = StoredIds(rows) \cup StoredIds(batch)
    BY <1>1, <2>1 DEF OpenTx, StoredIds
  <2>3. /\ rows' \in Seq(Row) /\ Elems(rows') \subseteq Held /\ Single(rows')
        /\ Elems(batch) \subseteq Elems(rows') \cup ignored'
    BY <1>1, <2>1 DEF OpenTx, Elems
  <2>4. LogShape'
    BY <1>1, <2>1, <2>3 DEF LogShape, Points, Single
  <2>5. OpenTx'
    BY <2>1, <2>2, <2>3 DEF OpenTx
  <2>6. Accounted'
    BY <1>1, <2>1, <2>2 DEF Accounted, Volatile
  <2>7. DrainInv'
    <3>1. /\ At({"shutdown", "final", "stopped"})' => At({"shutdown", "final", "stopped"})
          /\ At({"final", "stopped"})' => At({"final", "stopped"})
      BY <2>1 DEF At
    <3> QED
      BY <1>1, <2>1, <2>2, <3>1 DEF DrainInv
  <2>8. FaithInv'
    BY <1>1, <2>1, <2>3, StillFaithful DEF Held
  <2> QED
    BY <2>4, <2>5, <2>6, <2>7, <2>8 DEF PipeInv
<1>6. CASE FlushError
  <2>1. /\ pc = "insert" /\ pc' = cont /\ cont' = cont /\ done' = done
        /\ UNCHANGED <<rows, batch, prevHash, inq, ctl, submitted, lost, accepted, redactor>>
    BY <1>6 DEF FlushError
  <2>2. \A S \in SUBSET {"shutdown", "final", "stopped"} : At(S)' => At(S)
    BY <1>2, <2>1 DEF At
  <2> QED
    BY <1>2, <2>1, <2>2, MovePipe DEF Points
<1>7. CASE Notify
  <2>1. /\ pc = "notify" /\ cont' = cont /\ done' = done
        /\ UNCHANGED <<rows, prevHash, inq, ctl, submitted, lost, accepted, redactor, ignored>>
        /\ \/ pc' = pc /\ batch' = batch
           \/ pc' = cont /\ batch' = <<>>
    BY <1>7 DEF Notify
  <2>2. CASE pc' = pc /\ batch' = batch
    BY <1>1, <2>1, <2>2, SamePipe DEF LogShape, OpenTx, DrainInv, At, Single
  <2>3. CASE pc' = cont /\ batch' = <<>>
    <3>a. StoredIds(batch') = {} /\ Elems(batch') = {}
      BY <2>3 DEF StoredIds, Elems
    <3>1. StoredIds(batch') = {} /\ Elems(batch') = {} /\ StoredIds(batch) \subseteq StoredIds(rows)
      BY <1>1, <2>1, <3>a DEF OpenTx
    <3>2. LogShape'
      BY <1>1, <2>1, <2>3, EmptySeq DEF LogShape, Points, Single
    <3>3. OpenTx'
      BY <1>2, <2>3 DEF OpenTx
    <3>4. Accounted'
      BY <1>1, <2>1, <3>1 DEF Accounted, Volatile
    <3>5. DrainInv'
      <4>1. /\ At({"shutdown", "final", "stopped"})' => At({"shutdown", "final", "stopped"})
            /\ At({"final", "stopped"})' => At({"final", "stopped"})
        BY <1>2, <2>1, <2>3 DEF At
      <4> QED
        BY <1>1, <2>1, <3>1, <4>1 DEF DrainInv
    <3>6. FaithInv'
      BY <1>1, <2>1, <3>1, StillFaithful DEF Held
    <3> QED
      BY <3>2, <3>3, <3>4, <3>5, <3>6 DEF PipeInv
  <2> QED
    BY <2>1, <2>2, <2>3
<1> QED
  BY <1>3, <1>5, <1>6, <1>7

\* Submit and Overflow: an event reaches one of the channels.
LEMMA ArrivePipe ==
  ASSUME PipeInv, NEW e \in EventType,
         submitted' = Append(submitted, e),
         \/ inq' = Append(inq, e) /\ ctl' = ctl
         \/ ctl' = Append(ctl, e) /\ inq' = inq,
         UNCHANGED <<rows, batch, prevHash, tx, pc, cont, done, lost, accepted, redactor,
                     ignored>>
  PROVE  PipeInv'
<1>1. LogShape /\ OpenTx /\ Accounted /\ DrainInv /\ FaithInv
  BY DEF PipeInv
<1>2. /\ submitted \in Seq(EventType) /\ inq \in Seq(EventType) /\ ctl \in Seq(EventType)
      /\ accepted \in 0..Len(submitted) /\ Len(submitted) \in Nat
  BY <1>1, LenProperties DEF LogShape
<1>3. /\ submitted' \in Seq(EventType) /\ Elems(submitted') = Elems(submitted) \cup {e}
      /\ IdsOf(submitted') = IdsOf(submitted) \cup {e.id}
      /\ Len(submitted') = Len(submitted) + 1
      /\ \A i \in 1..Len(submitted) : submitted'[i] = submitted[i]
  BY <1>2, AppendEvent, AppendProperties
<1>4. /\ inq' \in Seq(EventType) /\ ctl' \in Seq(EventType)
      /\ Elems(inq') \cup Elems(ctl') = Elems(inq) \cup Elems(ctl) \cup {e}
      /\ IdsOf(inq') \cup IdsOf(ctl') = IdsOf(inq) \cup IdsOf(ctl) \cup {e.id}
  <2>1. CASE inq' = Append(inq, e) /\ ctl' = ctl
    BY <1>2, <2>1, AppendEvent
  <2>2. CASE ctl' = Append(ctl, e) /\ inq' = inq
    BY <1>2, <2>2, AppendEvent
  <2> QED
    BY <2>1, <2>2
<1>5. LogShape'
  BY <1>1, <1>2, <1>3, <1>4 DEF LogShape, Single
<1>6. OpenTx'
  BY <1>1 DEF OpenTx, Held, Extends, Single
<1>7. Accounted'
  BY <1>1, <1>3, <1>4 DEF Accounted, Volatile
<1>8. DrainInv'
  <2>1. \A i \in 1..accepted : submitted'[i] = submitted[i]
    BY <1>2, <1>3
  <2>2. /\ At({"shutdown", "final", "stopped"})' => At({"shutdown", "final", "stopped"})
        /\ At({"final", "stopped"})' => At({"final", "stopped"})
    BY DEF At
  <2> QED
    BY <1>1, <2>1, <2>2 DEF DrainInv
<1>9. FaithInv'
  <2>1. Held' = Held
    BY DEF Held
  <2>2. \A r : Faithful(r) => Faithful(r)'
    BY <1>3 DEF Faithful
  <2> QED
    BY <1>1, <1>3, <1>4, <2>1, <2>2 DEF FaithInv
<1> QED
  BY <1>5, <1>6, <1>7, <1>8, <1>9 DEF PipeInv

\* Crash and Restart: what was in memory is accounted for as lost, and the hash
\* the next logger starts from is that of a stored row.
LEMMA ForgetPipe ==
  ASSUME PipeInv, Forget, rows' = rows, submitted' = submitted, redactor' \in Services,
         \/ /\ pc' = "down" /\ cont' = cont
            /\ UNCHANGED <<prevHash, done, accepted>>
         \/ /\ pc' = "drain" /\ cont' = "drain" /\ accepted' = 0
            /\ prevHash' = GetLastEventHash(rows)
  PROVE  PipeInv'
<1>1. LogShape /\ OpenTx /\ Accounted /\ DrainInv /\ FaithInv
  BY DEF PipeInv
<1>2. /\ rows \in Seq(Row) /\ submitted \in Seq(EventType) /\ Len(submitted) \in Nat
      /\ prevHash \in Seq(EventType)
  BY <1>1, LenProperties DEF LogShape
<1>3. /\ inq' = <<>> /\ ctl' = <<>> /\ batch' = <<>>
      /\ lost' = lost \cup (Volatile \ StoredIds(rows))
  BY DEF Forget
<1>4. prevHash' \in Seq(EventType)
  <2>1. CASE prevHash' = GetLastEventHash(rows) /\ rows = <<>>
    BY <2>1, EmptySeq DEF GetLastEventHash, Genesis
  <2>2. CASE prevHash' = GetLastEventHash(rows) /\ rows # <<>>
    <3>1. PICK i \in 1..Len(rows) : GetLastEventHash(rows) = rows[i].hash
      BY <1>2, <2>2, LatestExists
    <3>2. rows[i] \in Row
      BY <1>2, ElementOfSeq
    <3> QED
      BY <2>2, <3>1, <3>2 DEF Row, Hashes
  <2> QED
    BY <1>2, <2>1, <2>2
<1>5. /\ IdsOf(inq') = {} /\ IdsOf(ctl') = {} /\ StoredIds(batch') = {} /\ Elems(batch') = {}
      /\ Elems(inq') = {} /\ Elems(ctl') = {}
  BY <1>3 DEF IdsOf, StoredIds, Elems
<1>6. LogShape'
  <2>1. accepted' \in 0..Len(submitted)
    BY <1>1, <1>2 DEF LogShape
  <2> QED
    BY <1>1, <1>2, <1>3, <1>4, <2>1, EmptySeq DEF LogShape, Points, Single
<1>7. OpenTx' /\ DrainInv'
  BY DEF OpenTx, DrainInv, At
<1>8. Accounted'
  BY <1>1, <1>3, <1>5 DEF Accounted, Volatile
<1>9. FaithInv'
  <2>1. Held' \subseteq Held
    BY <1>5 DEF Held
  <2>2. \A r : Faithful(r)' = Faithful(r)
    BY DEF Faithful, Elems
  <2> QED
    BY <1>1, <1>5, <2>1, <2>2 DEF FaithInv
<1> QED
  BY <1>6, <1>7, <1>8, <1>9 DEF PipeInv

\* A fresh database and a fresh logger.
LEMMA InitPipe == Init => PipeInv
<1> SUFFICES ASSUME Init PROVE PipeInv
  OBVIOUS
<1>1. LogShape
  BY EmptySeq, LogAssumption DEF Init, LogShape, Points, Genesis, Single
<1>2. OpenTx /\ DrainInv
  BY DEF Init, OpenTx, DrainInv, At
<1>3. Accounted
  BY DEF Init, Accounted, Volatile, IdsOf, StoredIds
<1>4. FaithInv
  BY DEF Init, FaithInv, Held, Elems
<1> QED
  BY <1>1, <1>2, <1>3, <1>4 DEF PipeInv

\* Every step keeps the invariant.
LEMMA NextPipe == ASSUME PipeInv, [Next]_vars PROVE PipeInv'
<1> USE DEF db, queue, locals, ghosts, bounds, service
<1>1. LogShape /\ OpenTx /\ DrainInv /\ Accounted
  BY DEF PipeInv
<1>2. cont \in {"drain", "shutdown", "final", "stopped"} /\ inq \in Seq(EventType)
      /\ ctl \in Seq(EventType) /\ redactor \in Services
  BY <1>1 DEF LogShape
<1>3. CASE DrainControl
  <2>1. CASE TakeControl("drain")
    BY <1>3, <2>1, TakePipe DEF DrainControl
  <2>2. CASE Goto("select")
    BY <1>2, <1>3, <2>2, MovePipe DEF DrainControl, Goto, At, Points
  <2> QED
    BY <1>3, <2>1, <2>2 DEF DrainControl
<1>4. CASE SelectReceive \/ SelectControl
  BY <1>4, TakePipe DEF SelectReceive, SelectControl
<1>5. CASE SelectTick
  BY <1>2, <1>5, MovePipe DEF SelectTick, CallFlush, At, Points
<1>6. CASE SelectDone
  <2>1. /\ pc = "select" /\ done /\ pc' = "shutdown" /\ cont' = cont
        /\ UNCHANGED <<rows, batch, prevHash, inq, ctl, submitted, lost, accepted, done, redactor>>
    BY <1>6 DEF SelectDone, Goto
  <2>2. LogShape' /\ OpenTx'
    BY <1>1, <2>1 DEF LogShape, OpenTx, Points, Single
  <2>3. DrainInv'
    BY <2>1 DEF DrainInv, At
  <2> QED
    BY <2>1, <2>2, <2>3, SamePipe
<1>7. CASE Shutdown
  <2>1. CASE TakeMain("shutdown") \/ TakeControl("shutdown")
    BY <1>7, <2>1, TakePipe DEF Shutdown
  <2>2. CASE inq = <<>> /\ ctl = <<>> /\ Goto("final")
    <3>1. /\ pc = "shutdown" /\ pc' = "final" /\ cont' = cont
          /\ UNCHANGED <<rows, batch, prevHash, inq, ctl, submitted, lost, accepted, done,
                         redactor>>
      BY <1>7, <2>2 DEF Shutdown, Goto
    <3>2. LogShape' /\ OpenTx'
      BY <1>1, <3>1 DEF LogShape, OpenTx, Points, Single
    <3>3. IdsOf(inq) = {} /\ IdsOf(ctl) = {}
      BY <2>2 DEF IdsOf
    <3>4. IdsOf(submitted) = StoredIds(batch) \cup StoredIds(rows) \cup lost
      BY <1>1, <3>3 DEF Accounted, Volatile
    <3>5. \A i \in 1..accepted : submitted[i].id \in IdsOf(submitted)
      <4>1. \A i \in 1..accepted : i \in 1..Len(submitted)
        BY <1>1, LenProperties DEF LogShape
      <4> QED
        BY <4>1 DEF IdsOf
    <3>6. done
      BY <1>1, <3>1 DEF DrainInv, At
    <3>7. DrainInv'
      BY <3>1, <3>4, <3>5, <3>6 DEF DrainInv
    <3> QED
      BY <3>1, <3>2, <3>7, SamePipe
  <2> QED
    BY <1>7, <2>1, <2>2 DEF Shutdown
<1>8. CASE ShutdownFlush
  <2>1. CASE TakeControl("final")
    BY <1>8, <2>1, TakePipe DEF ShutdownFlush
  <2>2. CASE CallFlush("stopped")
    BY <1>8, <2>2, MovePipe DEF ShutdownFlush, CallFlush, At, Points
  <2> QED
    BY <1>8, <2>1, <2>2 DEF ShutdownFlush
<1>9. CASE BeginFlush \/ InsertOne \/ Commit \/ FlushError \/ Notify
  BY <1>9, FlushPipe, InsertPipe
<1>10. CASE \E e \in MainEvents : Submit(e)
  <2>1. PICK e \in MainEvents : Submit(e)
    BY <1>10
  <2>2. e \in EventType
    BY LogAssumption
  <2> QED
    BY <2>1, <2>2, ArrivePipe DEF Submit
<1>11. CASE \E e \in OverflowEvents : Overflow(e)
  <2>1. PICK e \in OverflowEvents : Overflow(e)
    BY <1>11
  <2>2. e \in EventType
    BY LogAssumption
  <2> QED
    BY <2>1, <2>2, ArrivePipe DEF Overflow
<1>12. CASE /\ redactor' \in Services
            /\ UNCHANGED <<rows, batch, prevHash, inq, ctl, submitted, lost, accepted, pc, cont,
                           done, tx, ignored>>
  BY <1>1, <1>12, SamePipe DEF LogShape, OpenTx, DrainInv, At, Held, Single
<1>13. CASE \E s \in Subs : Subscribe(s) \/ Unsubscribe(s) \/ Consume(s)
  BY <1>2, <1>12, <1>13 DEF Subscribe, Unsubscribe, Consume
<1>14. CASE Stop
  <2>1. /\ ~done /\ accepted' = Len(submitted)
        /\ UNCHANGED <<rows, batch, prevHash, inq, ctl, submitted, lost, pc, cont, tx, redactor,
                       ignored>>
    BY <1>14 DEF Stop
  <2>2. LogShape'
    BY <1>1, <2>1, LenProperties DEF LogShape, Single
  <2>4. OpenTx'
    BY <1>1, <2>1 DEF OpenTx, Held, Single, Extends
  <2>3. DrainInv'
    BY <1>1, <2>1 DEF DrainInv, At
  <2> QED
    BY <2>1, <2>2, <2>3, <2>4, SamePipe
<1>15. CASE Crash
  BY <1>2, <1>15, ForgetPipe DEF Crash
<1>16. CASE Restart
  <2>1. redactor' \in Services
    BY <1>16, LogAssumption DEF Restart
  <2> QED
    BY <1>16, <2>1, ForgetPipe DEF Restart
<1>17. CASE Ended \/ UNCHANGED vars
  BY <1>2, <1>12, <1>17 DEF Ended, vars
<1>18. CASE SetEvaluator \/ SetRedactor
  BY <1>2, <1>12, <1>18 DEF SetEvaluator, SetRedactor, Services
<1> QED
  BY <1>3, <1>4, <1>5, <1>6, <1>7, <1>8, <1>9, <1>10, <1>11, <1>13, <1>14, <1>15, <1>16, <1>17,
     <1>18
  DEF Next, Serializer

\* Only a commit changes the table, and it adds rows at the end.
LEMMA RowsGrow ==
  ASSUME PipeInv, [Next]_vars
  PROVE  /\ (rows' = rows /\ ignored' = ignored) \/ Commit
         /\ Extends(rows, rows') /\ ignored \subseteq ignored'
<1> USE DEF db, queue, locals, ghosts, bounds, service
<1>1. (rows' = rows /\ ignored' = ignored) \/ Commit
  <2>1. ASSUME NEW then, TakeMain(then) \/ TakeControl(then)
        PROVE  rows' = rows /\ ignored' = ignored
    BY <2>1, TakeRow DEF PipeInv, Taken
  <2>2. CASE DrainControl \/ SelectReceive \/ SelectControl \/ SelectTick \/ SelectDone
    BY <2>1, <2>2 DEF DrainControl, SelectReceive, SelectControl, SelectTick, SelectDone, Goto,
                      CallFlush
  <2>3. CASE Shutdown \/ ShutdownFlush
    BY <2>1, <2>3 DEF Shutdown, ShutdownFlush, Goto, CallFlush
  <2>4. CASE BeginFlush \/ InsertOne \/ FlushError \/ Notify
    BY <2>4 DEF BeginFlush, InsertOne, FlushError, Notify
  <2>5. CASE (\E e \in MainEvents : Submit(e)) \/ (\E e \in OverflowEvents : Overflow(e))
    BY <2>5 DEF Submit, Overflow
  <2>6. CASE \E s \in Subs : Subscribe(s) \/ Unsubscribe(s) \/ Consume(s)
    BY <2>6 DEF Subscribe, Unsubscribe, Consume
  <2>7. CASE SetEvaluator \/ SetRedactor \/ Stop \/ Crash \/ Restart \/ Ended \/ UNCHANGED vars
    BY <2>7 DEF SetEvaluator, SetRedactor, Stop, Crash, Restart, Ended, vars
  <2> QED
    BY <2>2, <2>3, <2>4, <2>5, <2>6, <2>7 DEF Next, Serializer
<1>2. CASE rows' = rows /\ ignored' = ignored
  BY <1>2, LenProperties DEF PipeInv, LogShape, Extends
<1>3. CASE Commit
  <2>1. pc = "insert" /\ rows' = tx.rows /\ ignored' = ignored \cup tx.ignored
    BY <1>3 DEF Commit
  <2>2. Extends(rows, tx.rows)
    BY <2>1 DEF PipeInv, OpenTx
  <2>3. Extends(rows, rows')
    BY <2>1, <2>2, Zenon
  <2> QED
    BY <1>3, <2>1, <2>3
<1> QED
  BY <1>1, <1>2, <1>3

-----------------------------------------------------------------------------
(***************************************************************************)
(* The chain: while the table is intact, so is the chain                   *)
(***************************************************************************)

\* The table and the batch are one chain, and the logger's last hash is its end.
Whole == Linked(Chain) /\ (pc # "down" => prevHash = Entries(Chain, Len(Chain)))

ChainInv ==
  /\ pc = "down" => batch = <<>>
  /\ Intact => Whole

\* The chain is a sequence of rows, the stored ones first.
LEMMA ChainType ==
  ASSUME LogShape
  PROVE  /\ Pending \in Seq(Row) /\ Chain \in Seq(Row) /\ Chain = rows \o Pending
         /\ Len(Chain) \in Nat
BY ConcatProperties, EmptySeq, LenProperties DEF LogShape, Pending, Chain

\* A table that is intact after a step was so before.
LEMMA IntactBefore == ASSUME PipeInv, PipeInv', [Next]_vars, Intact' PROVE Intact
<1>1. Extends(rows, rows') /\ ignored \subseteq ignored'
  BY RowsGrow
<1>2. rows \in Seq(Row) /\ rows' \in Seq(Row) /\ ignored' = {} /\ InTextOrder(rows')
  BY DEF PipeInv, LogShape, Intact, InTextOrder
<1> QED
  BY <1>1, <1>2, OrderPrefix DEF Intact

\* A step that leaves the chain and the last hash alone.
LEMMA SameChain ==
  ASSUME PipeInv, PipeInv', [Next]_vars, ChainInv, Chain' = Chain, prevHash' = prevHash,
         pc # "down", pc' # "down"
  PROVE  ChainInv'
<1>1. ASSUME Intact' PROVE Whole'
  <2>1. Whole
    BY <1>1, IntactBefore DEF ChainInv
  <2> QED
    BY <2>1 DEF Whole, Linked, Entries
<1> QED
  BY <1>1 DEF ChainInv

\* processEvent extends the chain by a row made from the last hash.
LEMMA TakeChain ==
  ASSUME PipeInv, PipeInv', [Next]_vars, ChainInv, NEW then \in {"drain", "shutdown", "final"},
         pc \in {"drain", "select", "shutdown", "final"}, TakeMain(then) \/ TakeControl(then)
  PROVE  ChainInv'
<1>1. PICK row \in Row :
        /\ prevHash' = row.hash /\ batch' = Append(batch, row) /\ rows' = rows
        /\ row.prev = prevHash /\ row.hash = ComputeHash(row.e, row.prev)
        /\ pc' \in {"flush", "drain", "shutdown", "final"}
  BY TakeRow DEF PipeInv, Taken
<1>2. /\ rows \in Seq(Row) /\ batch \in Seq(Row) /\ Chain \in Seq(Row) /\ Chain = rows \o batch
  BY ChainType DEF PipeInv, LogShape, Pending
<1>3. Chain' = Append(Chain, row)
  <2>1. Chain' = rows \o Append(batch, row)
    BY <1>1 DEF Chain, Pending
  <2> QED
    BY <1>2, <2>1, AppendConcat
<1>4. ASSUME Intact' PROVE Whole'
  <2>1. Whole
    BY <1>4, IntactBefore DEF ChainInv
  <2>2. Linked(Chain) /\ row.prev = Entries(Chain, Len(Chain))
    BY <1>1, <2>1 DEF Whole
  <2>3. Linked(Append(Chain, row)) /\ row.hash = Entries(Append(Chain, row), Len(Append(Chain, row)))
    BY <1>1, <1>2, <2>2, ChainAppend
  <2> QED
    BY <1>1, <1>3, <2>3 DEF Whole, Linked, Entries
<1> QED
  BY <1>1, <1>4 DEF ChainInv

\* Crash and Restart: the chain is cut back to the table, and goes on from it.
LEMMA ForgetChain ==
  ASSUME PipeInv, PipeInv', [Next]_vars, ChainInv, Forget, rows' = rows,
         \/ pc' = "down"
         \/ pc' = "drain" /\ prevHash' = GetLastEventHash(rows)
  PROVE  ChainInv'
<1>1. batch' = <<>> /\ rows \in Seq(Row)
  BY DEF Forget, PipeInv, LogShape
<1>2. Chain' = rows
  BY <1>1, ConcatEmptySeq DEF Chain, Pending
<1>3. ASSUME Intact' PROVE Whole'
  <2>1. Intact /\ Linked(Chain) /\ InTextOrder(rows)
    BY <1>3, IntactBefore DEF ChainInv, Whole, Intact
  <2>2. Linked(rows)
    BY <1>1, <2>1, ChainType, ChainPrefix DEF PipeInv
  <2>3. GetLastEventHash(rows) = Entries(rows, Len(rows))
    BY <1>1, <2>1, <2>2, LastHash
  <2>4. Linked(Chain)'
    BY <1>2, <2>2 DEF Linked, Entries
  <2>5. Entries(Chain, Len(Chain))' = Entries(rows, Len(rows))
    BY <1>2 DEF Entries
  <2> QED
    BY <2>3, <2>4, <2>5 DEF Whole
<1> QED
  BY <1>1, <1>3 DEF ChainInv

\* A commit that ignored no row moves the whole batch from memory to the table.
LEMMA CommitWhole ==
  ASSUME PipeInv, Commit, tx.ignored = {}
  PROVE  rows' = rows \o batch /\ Chain' = Chain
<1> USE DEF locals
<1>1. /\ pc = "insert" /\ tx.next > Len(batch) /\ rows' = tx.rows /\ batch' = batch
      /\ pc' = "notify"
  BY DEF Commit
<1>2. /\ rows \in Seq(Row) /\ batch \in Seq(Row) /\ Len(batch) \in Nat
      /\ tx.next \in 1..(Len(batch) + 1) /\ tx.rows = rows \o SubSeq(batch, 1, tx.next - 1)
  BY <1>1, LenProperties DEF PipeInv, LogShape, OpenTx
<1>3. tx.next - 1 = Len(batch)
  BY <1>1, <1>2
<1>4. SubSeq(batch, 1, Len(batch)) = batch
  BY <1>2, SubSeqFull
<1>5. rows' = rows \o batch /\ rows' \in Seq(Row)
  BY <1>1, <1>2, <1>3, <1>4, ConcatProperties
<1> QED
  BY <1>1, <1>5, ConcatEmptySeq DEF Chain, Pending

\* Every step keeps the chain.
LEMMA NextChain == ASSUME PipeInv, PipeInv', ChainInv, [Next]_vars PROVE ChainInv'
<1> USE DEF db, queue, locals, ghosts, bounds, service
<1>1. /\ cont \in {"drain", "shutdown", "final", "stopped"} /\ rows \in Seq(Row)
      /\ batch \in Seq(Row) /\ Len(batch) \in Nat
  BY LenProperties DEF PipeInv, LogShape
<1>2. CASE /\ UNCHANGED <<rows, batch, prevHash>>
           /\ pc \notin {"notify", "down"} /\ pc' \notin {"notify", "down"}
  <2>1. Chain' = Chain
    BY <1>2 DEF Chain, Pending
  <2> QED
    BY <1>2, <2>1, SameChain
<1>3. CASE UNCHANGED <<rows, batch, prevHash, pc>>
  <2>1. Chain' = Chain
    BY <1>3 DEF Chain, Pending
  <2>2. CASE pc # "down"
    BY <1>3, <2>1, <2>2, SameChain
  <2>3. CASE pc = "down"
    <3>1. Intact' => Whole
      BY IntactBefore DEF ChainInv
    <3> QED
      BY <1>3, <2>1, <2>3, <3>1 DEF ChainInv, Whole, Linked
  <2> QED
    BY <2>2, <2>3
<1>4. CASE DrainControl \/ SelectReceive \/ SelectControl \/ SelectTick \/ SelectDone
  BY <1>2, <1>4, TakeChain DEF DrainControl, SelectReceive, SelectControl, SelectTick,
                               SelectDone, Goto, CallFlush
<1>5. CASE Shutdown \/ ShutdownFlush
  BY <1>2, <1>5, TakeChain DEF Shutdown, ShutdownFlush, Goto, CallFlush
<1>6. CASE BeginFlush \/ InsertOne \/ FlushError
  BY <1>1, <1>2, <1>6 DEF BeginFlush, InsertOne, FlushError
<1>7. CASE Commit
  <2>1. pc = "insert" /\ pc' = "notify" /\ prevHash' = prevHash /\ ignored' = ignored \cup tx.ignored
    BY <1>7 DEF Commit
  <2>2. CASE tx.ignored = {}
    BY <1>7, <2>1, <2>2, CommitWhole, SameChain
  <2>3. CASE tx.ignored # {}
    BY <2>1, <2>3 DEF ChainInv, Intact
  <2> QED
    BY <2>2, <2>3
<1>8. CASE Notify
  <2>1. /\ pc = "notify" /\ rows' = rows /\ prevHash' = prevHash
        /\ pc' = pc \/ (batch' = <<>> /\ pc' = cont)
    BY <1>8 DEF Notify
  <2>2. Chain' = Chain /\ pc' # "down"
    BY <1>1, <2>1 DEF Chain, Pending
  <2> QED
    BY <2>1, <2>2, SameChain
<1>9. CASE (\E e \in MainEvents : Submit(e)) \/ (\E e \in OverflowEvents : Overflow(e))
  BY <1>3, <1>9 DEF Submit, Overflow
<1>10. CASE \E s \in Subs : Subscribe(s) \/ Unsubscribe(s) \/ Consume(s)
  BY <1>3, <1>10 DEF Subscribe, Unsubscribe, Consume
<1>11. CASE SetEvaluator \/ SetRedactor \/ Stop \/ Ended \/ UNCHANGED vars
  BY <1>3, <1>11 DEF SetEvaluator, SetRedactor, Stop, Ended, vars
<1>12. CASE Crash \/ Restart
  BY <1>12, ForgetChain DEF Crash, Restart
<1> QED
  BY <1>4, <1>5, <1>6, <1>7, <1>8, <1>9, <1>10, <1>11, <1>12 DEF Next, Serializer

\* A fresh database and a fresh logger.
LEMMA InitChain == Init => ChainInv
<1> SUFFICES ASSUME Init PROVE ChainInv
  OBVIOUS
<1>1. Chain = <<>> /\ prevHash = <<>> /\ pc = "drain"
  BY DEF Init, Pending, Chain, Genesis
<1>2. Entries(Chain, Len(Chain)) = <<>> /\ Linked(Chain)
  BY <1>1 DEF Entries, Linked
<1> QED
  BY <1>1, <1>2 DEF ChainInv, Whole

-----------------------------------------------------------------------------
(***************************************************************************)
(* What the subscribers are told, and what the anchors point at            *)
(***************************************************************************)

\* The ids that were submitted more than once so far.
Twice == {id \in Ids : CameTwice(id)}

\* No id outside T is twice in a queue, or in a table.
QueueApart(q, T) == \A i, j \in 1..Len(q) : q[i].id = q[j].id => i = j \/ q[i].id \in T

TableApart(c, T) == \A i, j \in 1..Len(c) : c[i].e.id = c[j].e.id => i = j \/ c[i].e.id \in T

\* An event that came once is in one place.
IdInv ==
  /\ QueueApart(inq, Twice) /\ QueueApart(ctl, Twice) /\ TableApart(batch, Twice)
  /\ IdsOf(inq) \cap IdsOf(ctl) \subseteq Twice
  /\ (StoredIds(rows) \cup StoredIds(batch)) \cap (IdsOf(inq) \cup IdsOf(ctl)) \subseteq Twice
  /\ pc # "notify" => StoredIds(rows) \cap StoredIds(batch) \subseteq Twice

\* Table c has x, and y after it.
Earlier(c, x, y) == \E k \in 1..Len(c) : c[k] = y /\ \E m \in 1..(k - 1) : c[m] = x

\* The first n rows of q are in table c, in this order, but for those in T.
Follows(q, n, c, T) ==
  \A i \in 1..n : q[i].e.id \notin T =>
    /\ q[i] \in Elems(c)
    /\ \A j \in 1..(i - 1) : q[j].e.id \notin T => Earlier(c, q[j], q[i])

\* A transaction adds the batch in its order, after what is stored.
TxOrder ==
  pc = "insert" =>
    /\ Follows(batch, tx.next - 1, tx.rows, Twice)
    /\ \A i \in 1..(tx.next - 1) : batch[i].e.id \notin Twice =>
         \A x \in Elems(rows) : Earlier(tx.rows, x, batch[i])

\* What is still to be sent out comes after what the subscribers have seen.
NotifyOrder ==
  pc = "notify" =>
    /\ notified \in 0..Len(batch)
    /\ Follows(batch, Len(batch), rows, Twice)
    /\ \A s \in Subs : \A i \in (notified + 1)..Len(batch) : \A x \in Elems(subs[s].seen) :
         x.e.id \notin Twice /\ batch[i].e.id \notin Twice => Earlier(rows, x, batch[i])

SubsInv ==
  /\ subs = [s \in Subs |-> subs[s]]
  /\ \A s \in Subs :
       /\ subs[s] = [on |-> subs[s].on, pending |-> subs[s].pending, seen |-> subs[s].seen]
       /\ subs[s].seen \in Seq(Row)
       /\ Follows(subs[s].seen, Len(subs[s].seen), rows, Twice)

ToldInv == IdInv /\ TxOrder /\ NotifyOrder /\ AnchorsBacked /\ SubsInv

\* An event that is submitted again came twice.
LEMMA TwiceGrows ==
  ASSUME submitted \in Seq(EventType), NEW e \in EventType, submitted' = Append(submitted, e)
  PROVE  /\ Twice \subseteq Twice'
         /\ e.id \in IdsOf(submitted) => e.id \in Twice'
<1>1. /\ Len(submitted) \in Nat /\ Len(submitted') = Len(submitted) + 1
      /\ submitted'[Len(submitted) + 1] = e
      /\ \A i \in 1..Len(submitted) : i \in 1..Len(submitted') /\ submitted'[i] = submitted[i]
  BY AppendProperties, LenProperties
<1>2. Twice \subseteq Twice'
  BY <1>1 DEF Twice, CameTwice
<1>3. ASSUME e.id \in IdsOf(submitted) PROVE CameTwice(e.id)'
  <2>1. PICK i \in 1..Len(submitted) : submitted[i].id = e.id
    BY <1>3 DEF IdsOf
  <2>2. i # Len(submitted) + 1 /\ Len(submitted) + 1 \in 1..Len(submitted')
    BY <1>1
  <2> QED
    BY <1>1, <2>1, <2>2 DEF CameTwice
<1>4. e.id \in Ids
  BY DEF EventType
<1> QED
  BY <1>2, <1>3, <1>4 DEF Twice

\* A queue, one event longer or shorter.
LEMMA QueueGrows ==
  ASSUME NEW q \in Seq(EventType), NEW e \in EventType, NEW T, NEW U, T \subseteq U,
         QueueApart(q, T), e.id \in IdsOf(q) => e.id \in U
  PROVE  QueueApart(Append(q, e), U)
<1> DEFINE d == Append(q, e)
<1>1. /\ Len(q) \in Nat /\ Len(d) = Len(q) + 1
      /\ (\A i \in 1..Len(q) : d[i] = q[i]) /\ d[Len(q) + 1] = e
  BY AppendProperties, LenProperties
<1>2. \A i \in 1..(Len(q) + 1) : i \in 1..Len(q) \/ i = Len(q) + 1
  BY <1>1
<1> HIDE DEF d
<1>3. \A i \in 1..Len(q) : q[i].id = e.id => e.id \in U
  BY DEF IdsOf
<1> SUFFICES ASSUME NEW i \in 1..Len(d), NEW j \in 1..Len(d), d[i].id = d[j].id
             PROVE  i = j \/ d[i].id \in U
  BY DEF QueueApart, d
<1> QED
  BY <1>1, <1>2, <1>3 DEF QueueApart

LEMMA QueueShrinks ==
  ASSUME NEW q \in Seq(EventType), q # <<>>, NEW T, QueueApart(q, T)
  PROVE  QueueApart(Tail(q), T) /\ (Head(q).id \in IdsOf(Tail(q)) => Head(q).id \in T)
<1> DEFINE r == Tail(q)
<1>1. /\ Len(q) \in Nat /\ Len(q) # 0 /\ Head(q) = q[1] /\ Len(r) = Len(q) - 1
      /\ \A i \in 1..(Len(q) - 1) : r[i] = q[i + 1]
  BY TakeHead, LenProperties, EmptySeq
<1>2. 1 \in 1..Len(q) /\ \A i \in 1..(Len(q) - 1) : i + 1 \in 1..Len(q) /\ i + 1 # 1
  BY <1>1
<1> HIDE DEF r
<1>3. ASSUME NEW i \in 1..Len(r), NEW j \in 1..Len(r), r[i].id = r[j].id
      PROVE  i = j \/ r[i].id \in T
  <2>1. i + 1 \in 1..Len(q) /\ j + 1 \in 1..Len(q) /\ q[i + 1].id = q[j + 1].id
        /\ r[i] = q[i + 1]
    BY <1>1, <1>2, <1>3
  <2>2. i + 1 = j + 1 \/ q[i + 1].id \in T
    BY <2>1 DEF QueueApart
  <2> QED
    BY <1>1, <2>1, <2>2
<1>4. ASSUME NEW i \in 1..Len(r), r[i].id = q[1].id PROVE q[1].id \in T
  <2>1. i + 1 \in 1..Len(q) /\ i + 1 # 1 /\ q[i + 1].id = q[1].id
    BY <1>1, <1>2, <1>4
  <2> QED
    BY <1>2, <2>1 DEF QueueApart
<1> QED
  BY <1>1, <1>3, <1>4 DEF QueueApart, IdsOf, r

LEMMA TableGrows ==
  ASSUME NEW c \in Seq(Row), NEW x \in Row, NEW T, TableApart(c, T),
         x.e.id \in StoredIds(c) => x.e.id \in T
  PROVE  TableApart(Append(c, x), T)
<1> DEFINE d == Append(c, x)
<1>1. /\ Len(c) \in Nat /\ Len(d) = Len(c) + 1
      /\ (\A i \in 1..Len(c) : d[i] = c[i]) /\ d[Len(c) + 1] = x
  BY AppendProperties, LenProperties
<1>2. \A i \in 1..(Len(c) + 1) : i \in 1..Len(c) \/ i = Len(c) + 1
  BY <1>1
<1> HIDE DEF d
<1>3. \A i \in 1..Len(c) : c[i].e.id = x.e.id => x.e.id \in T
  BY DEF StoredIds
<1> SUFFICES ASSUME NEW i \in 1..Len(d), NEW j \in 1..Len(d), d[i].e.id = d[j].e.id
             PROVE  i = j \/ d[i].e.id \in T
  BY DEF TableApart, d
<1> QED
  BY <1>1, <1>2, <1>3 DEF TableApart

\* A table that grows keeps its order.
LEMMA EarlierKept ==
  ASSUME NEW c \in Seq(Row), NEW d \in Seq(Row), Extends(c, d), NEW x, NEW y, Earlier(c, x, y)
  PROVE  Earlier(d, x, y)
<1>1. PICK k \in 1..Len(c) : c[k] = y /\ \E m \in 1..(k - 1) : c[m] = x
  BY DEF Earlier
<1>2. PICK m \in 1..(k - 1) : c[m] = x
  BY <1>1
<1>3. Len(c) \in Nat /\ Len(d) \in Nat
  BY LenProperties
<1>4. k \in 1..Len(d) /\ m \in 1..Len(c)
  BY <1>3 DEF Extends
<1>5. d[k] = y /\ d[m] = x
  BY <1>1, <1>2, <1>4 DEF Extends
<1> QED
  BY <1>4, <1>5 DEF Earlier

LEMMA ElemsKept ==
  ASSUME NEW c \in Seq(Row), NEW d \in Seq(Row), Extends(c, d)
  PROVE  Elems(c) \subseteq Elems(d)
<1>1. Len(c) \in Nat /\ Len(d) \in Nat
  BY LenProperties
<1>2. \A i \in 1..Len(c) : i \in 1..Len(d) /\ d[i] = c[i]
  BY <1>1 DEF Extends
<1> QED
  BY <1>2 DEF Elems

LEMMA FollowsKept ==
  ASSUME NEW c \in Seq(Row), NEW d \in Seq(Row), Extends(c, d), NEW q, NEW n,
         NEW T, NEW U, T \subseteq U, Follows(q, n, c, T)
  PROVE  Follows(q, n, d, U)
<1>1. Elems(c) \subseteq Elems(d)
  BY ElemsKept
<1> SUFFICES ASSUME NEW i \in 1..n, q[i].e.id \notin U
             PROVE  /\ q[i] \in Elems(d)
                    /\ \A j \in 1..(i - 1) : q[j].e.id \notin U => Earlier(d, q[j], q[i])
  BY DEF Follows
<1>2. /\ q[i] \in Elems(c)
      /\ \A j \in 1..(i - 1) : q[j].e.id \notin U => Earlier(c, q[j], q[i])
  BY DEF Follows
<1> QED
  BY <1>1, <1>2, EarlierKept

\* What is added to a table comes after what it has.
LEMMA EarlierNew ==
  ASSUME NEW c \in Seq(Row), NEW y \in Row, NEW x \in Elems(c)
  PROVE  Earlier(Append(c, y), x, y)
<1>1. PICK m \in 1..Len(c) : c[m] = x
  BY DEF Elems
<1>2. /\ Len(c) \in Nat /\ Len(Append(c, y)) = Len(c) + 1 /\ Append(c, y)[Len(c) + 1] = y
      /\ Append(c, y)[m] = c[m]
  BY AppendProperties, LenProperties
<1>3. m \in 1..((Len(c) + 1) - 1) /\ Len(c) + 1 \in 1..Len(Append(c, y))
  BY <1>2
<1> QED
  BY <1>1, <1>2, <1>3 DEF Earlier

\* A subscriber is told of the next row.
LEMMA FollowsMore ==
  ASSUME NEW q \in Seq(Row), NEW y \in Row, NEW c, NEW T, Follows(q, Len(q), c, T),
         y.e.id \notin T => /\ y \in Elems(c)
                            /\ \A x \in Elems(q) : x.e.id \notin T => Earlier(c, x, y)
  PROVE  Follows(Append(q, y), Len(Append(q, y)), c, T)
<1> DEFINE d == Append(q, y)
<1>1. /\ Len(q) \in Nat /\ Len(d) = Len(q) + 1
      /\ (\A i \in 1..Len(q) : d[i] = q[i]) /\ d[Len(q) + 1] = y
  BY AppendProperties, LenProperties
<1> HIDE DEF d
<1> SUFFICES ASSUME NEW i \in 1..Len(d), d[i].e.id \notin T
             PROVE  /\ d[i] \in Elems(c)
                    /\ \A j \in 1..(i - 1) : d[j].e.id \notin T => Earlier(c, d[j], d[i])
  BY DEF Follows, d
<1>2. \A j \in 1..(i - 1) : j \in 1..Len(q) /\ d[j] = q[j] /\ q[j] \in Elems(q)
  <2>1. \A j \in 1..(i - 1) : j \in 1..Len(q)
    BY <1>1
  <2> QED
    BY <1>1, <2>1 DEF Elems
<1>3. CASE i \in 1..Len(q)
  BY <1>1, <1>2, <1>3 DEF Follows
<1>4. CASE i = Len(q) + 1
  BY <1>1, <1>2, <1>4
<1> QED
  BY <1>1, <1>3, <1>4

\* A step between program points, and one that touches neither the queue nor
\* the subscribers.
LEMMA SameTold ==
  ASSUME ToldInv,
         UNCHANGED <<rows, batch, inq, ctl, anchors, subs, submitted, discarded, ignored>>,
         \/ pc # "notify" /\ pc' \notin {"insert", "notify"}
         \/ UNCHANGED <<pc, tx, notified>>
  PROVE  ToldInv'
<1>1. Twice' = Twice
  BY DEF Twice, CameTwice
<1>2. IdInv'
  BY <1>1 DEF ToldInv, IdInv
<1>3. TxOrder' /\ NotifyOrder'
  BY <1>1 DEF ToldInv, TxOrder, NotifyOrder
<1>4. AnchorsBacked' /\ SubsInv'
  BY <1>1 DEF ToldInv, AnchorsBacked, SubsInv, Elems
<1> QED
  BY <1>2, <1>3, <1>4 DEF ToldInv

\* processEvent: the event leaves its queue, and its anchor, if it writes one, is
\* backed by the row in the batch.
LEMMA TakeTold ==
  ASSUME PipeInv, ToldInv, pc \in {"drain", "select", "shutdown", "final"},
         NEW then \in {"drain", "shutdown", "final"},
         TakeMain(then) \/ TakeControl(then)
  PROVE  ToldInv'
<1>1. LogShape /\ IdInv /\ AnchorsBacked /\ SubsInv
  BY DEF PipeInv, ToldInv
<1>2. PICK e \in EventType, t \in SUBSET Enforcements, row \in Row :
        /\ Taken(e, t, row, then) /\ row.e.id = e.id
        /\ \/ inq # <<>> /\ e = Head(inq) /\ inq' = Tail(inq) /\ ctl' = ctl
           \/ ctl # <<>> /\ e = Head(ctl) /\ ctl' = Tail(ctl) /\ inq' = inq
  BY <1>1, TakeRow
<1>3. /\ Anchor(row) /\ batch' = Append(batch, row)
      /\ UNCHANGED <<rows, subs, submitted, discarded, ignored>>
      /\ pc' \notin {"insert", "notify"}
  BY <1>2 DEF Taken
<1>4. Twice' = Twice
  BY <1>3 DEF Twice, CameTwice
<1>5. /\ batch \in Seq(Row) /\ Elems(batch') = Elems(batch) \cup {row}
      /\ StoredIds(batch') = StoredIds(batch) \cup {e.id}
  BY <1>1, <1>2, <1>3, AppendRow DEF LogShape
<1>6. /\ QueueApart(inq', Twice) /\ QueueApart(ctl', Twice)
      /\ IdsOf(inq') \subseteq IdsOf(inq) /\ IdsOf(ctl') \subseteq IdsOf(ctl)
      /\ e.id \in IdsOf(inq) \cup IdsOf(ctl)
      /\ e.id \in IdsOf(inq') \cup IdsOf(ctl') => e.id \in Twice
  <2>1. inq \in Seq(EventType) /\ ctl \in Seq(EventType)
    BY <1>1 DEF LogShape
  <2>2. CASE inq # <<>> /\ e = Head(inq) /\ inq' = Tail(inq) /\ ctl' = ctl
    <3>1. IdsOf(inq) = {e.id} \cup IdsOf(inq')
      BY <2>1, <2>2, TakeHead
    <3>2. QueueApart(inq', Twice) /\ (e.id \in IdsOf(inq') => e.id \in Twice)
      BY <1>1, <2>1, <2>2, QueueShrinks DEF IdInv
    <3>3. QueueApart(ctl', Twice) /\ IdsOf(ctl') = IdsOf(ctl)
          /\ (e.id \in IdsOf(ctl) => e.id \in Twice)
      BY <1>1, <2>2, <3>1 DEF IdInv
    <3> QED
      BY <3>1, <3>2, <3>3
  <2>3. CASE ctl # <<>> /\ e = Head(ctl) /\ ctl' = Tail(ctl) /\ inq' = inq
    <3>1. IdsOf(ctl) = {e.id} \cup IdsOf(ctl')
      BY <2>1, <2>3, TakeHead
    <3>2. QueueApart(ctl', Twice) /\ (e.id \in IdsOf(ctl') => e.id \in Twice)
      BY <1>1, <2>1, <2>3, QueueShrinks DEF IdInv
    <3>3. QueueApart(inq', Twice) /\ IdsOf(inq') = IdsOf(inq)
          /\ (e.id \in IdsOf(inq) => e.id \in Twice)
      BY <1>1, <2>3, <3>1 DEF IdInv
    <3> QED
      BY <3>1, <3>2, <3>3
  <2> QED
    BY <1>2, <2>2, <2>3
<1>7. IdInv'
  <2>1. e.id \in StoredIds(rows) \cup StoredIds(batch) => e.id \in Twice
    BY <1>1, <1>6 DEF IdInv
  <2>2. TableApart(batch', Twice)
    BY <1>1, <1>2, <1>3, <1>5, <2>1, TableGrows DEF IdInv
  <2>3. IdsOf(inq') \cap IdsOf(ctl') \subseteq Twice
    BY <1>1, <1>6 DEF IdInv
  <2>4. (StoredIds(rows) \cup StoredIds(batch')) \cap (IdsOf(inq') \cup IdsOf(ctl')) \subseteq Twice
    BY <1>1, <1>5, <1>6 DEF IdInv
  <2>5. StoredIds(rows) \cap StoredIds(batch') \subseteq Twice
    BY <1>1, <1>5, <2>1 DEF IdInv
  <2>6. /\ IdsOf(inq)' = IdsOf(inq') /\ IdsOf(ctl)' = IdsOf(ctl')
        /\ StoredIds(batch)' = StoredIds(batch') /\ StoredIds(rows)' = StoredIds(rows)
        /\ QueueApart(inq, Twice)' = QueueApart(inq', Twice)
        /\ QueueApart(ctl, Twice)' = QueueApart(ctl', Twice)
        /\ TableApart(batch, Twice)' = TableApart(batch', Twice)
    BY <1>3, <1>4 DEF QueueApart, TableApart, IdsOf
  <2> QED
    BY <1>4, <1>6, <2>2, <2>3, <2>4, <2>5, <2>6 DEF IdInv
<1>8. TxOrder' /\ NotifyOrder'
  BY <1>3 DEF TxOrder, NotifyOrder
<1>9. AnchorsBacked'
  <2>1. anchors' \subseteq anchors \cup {[epoch |-> EpochOf(row.e.ts), id |-> row.e.id, hash |-> row.hash]}
    BY <1>3 DEF Anchor, InsertChainAnchor
  <2>2. Elems(batch)' = Elems(batch) \cup {row} /\ Elems(rows)' = Elems(rows)
    BY <1>3, <1>5 DEF Elems
  <2> QED
    BY <1>1, <1>3, <2>1, <2>2 DEF AnchorsBacked
<1>10. SubsInv'
  BY <1>1, <1>3, <1>4 DEF SubsInv
<1> QED
  BY <1>7, <1>8, <1>9, <1>10 DEF ToldInv

\* Submit and Overflow: an id that was used before came twice from now on.
LEMMA ArriveTold ==
  ASSUME PipeInv, ToldInv, NEW e \in EventType, submitted' = Append(submitted, e),
         \/ inq' = Append(inq, e) /\ ctl' = ctl
         \/ ctl' = Append(ctl, e) /\ inq' = inq,
         UNCHANGED <<rows, batch, anchors, subs, tx, pc, notified, discarded, ignored>>
  PROVE  ToldInv'
<1>1. LogShape /\ Accounted /\ IdInv /\ TxOrder /\ NotifyOrder /\ AnchorsBacked /\ SubsInv
  BY DEF PipeInv, ToldInv
<1>2. inq \in Seq(EventType) /\ ctl \in Seq(EventType) /\ rows \in Seq(Row)
  BY <1>1 DEF LogShape
<1>3. Twice \subseteq Twice' /\ (e.id \in IdsOf(submitted) => e.id \in Twice')
  BY <1>1, TwiceGrows DEF LogShape
<1>4. e.id \in IdsOf(inq) \cup IdsOf(ctl) \cup StoredIds(rows) \cup StoredIds(batch)
        => e.id \in Twice'
  BY <1>1, <1>3 DEF Accounted, Volatile
<1>5. /\ QueueApart(inq', Twice') /\ QueueApart(ctl', Twice')
      /\ IdsOf(inq') \subseteq IdsOf(inq) \cup {e.id} /\ IdsOf(ctl') \subseteq IdsOf(ctl) \cup {e.id}
      /\ IdsOf(inq') = IdsOf(inq) \/ IdsOf(ctl') = IdsOf(ctl)
  <2>1. QueueApart(inq, Twice') /\ QueueApart(ctl, Twice')
    BY <1>1, <1>3 DEF IdInv, QueueApart
  <2>2. CASE inq' = Append(inq, e) /\ ctl' = ctl
    BY <1>2, <1>4, <2>1, <2>2, QueueGrows, AppendEvent
  <2>3. CASE ctl' = Append(ctl, e) /\ inq' = inq
    BY <1>2, <1>4, <2>1, <2>3, QueueGrows, AppendEvent
  <2> QED
    BY <2>2, <2>3
<1>6. IdInv'
  <2>1. TableApart(batch, Twice')
    BY <1>1, <1>3 DEF IdInv, TableApart
  <2>2. IdsOf(inq') \cap IdsOf(ctl') \subseteq Twice'
    BY <1>1, <1>3, <1>4, <1>5 DEF IdInv
  <2>3. (StoredIds(rows) \cup StoredIds(batch)) \cap (IdsOf(inq') \cup IdsOf(ctl')) \subseteq Twice'
    BY <1>1, <1>3, <1>4, <1>5 DEF IdInv
  <2>4. pc # "notify" => StoredIds(rows) \cap StoredIds(batch) \subseteq Twice'
    BY <1>1, <1>3 DEF IdInv
  <2>5. /\ IdsOf(inq)' = IdsOf(inq') /\ IdsOf(ctl)' = IdsOf(ctl')
        /\ StoredIds(batch)' = StoredIds(batch) /\ StoredIds(rows)' = StoredIds(rows)
        /\ QueueApart(inq, Twice)' = QueueApart(inq', Twice')
        /\ QueueApart(ctl, Twice)' = QueueApart(ctl', Twice')
        /\ TableApart(batch, Twice)' = TableApart(batch, Twice')
    BY DEF QueueApart, TableApart, IdsOf
  <2> QED
    BY <1>5, <2>1, <2>2, <2>3, <2>4, <2>5 DEF IdInv
<1>7. Extends(rows, rows)
  BY <1>2, LenProperties DEF Extends
<1>8. TxOrder'
  <2>1. CASE pc = "insert"
    <3>1. tx.rows \in Seq(Row) /\ Extends(tx.rows, tx.rows)
      BY <2>1, LenProperties DEF PipeInv, OpenTx, Extends
    <3>2. Follows(batch, tx.next - 1, tx.rows, Twice')
      BY <1>1, <1>3, <2>1, <3>1, FollowsKept DEF TxOrder
    <3>3. Follows(batch, tx.next - 1, tx.rows, Twice)' = Follows(batch, tx.next - 1, tx.rows, Twice')
      BY DEF Follows
    <3>4. \A i \in 1..(tx.next - 1) : batch[i].e.id \notin Twice' =>
            \A x \in Elems(rows) : Earlier(tx.rows, x, batch[i])
      BY <1>1, <1>3, <2>1 DEF TxOrder
    <3> QED
      BY <3>2, <3>3, <3>4 DEF TxOrder
  <2> QED
    BY <2>1 DEF TxOrder
<1>9. NotifyOrder'
  <2>1. CASE pc = "notify"
    <3>1. Follows(batch, Len(batch), rows, Twice')
      BY <1>1, <1>2, <1>3, <1>7, <2>1, FollowsKept DEF NotifyOrder
    <3>2. Follows(batch, Len(batch), rows, Twice)' = Follows(batch, Len(batch), rows, Twice')
      BY DEF Follows
    <3>3. \A s \in Subs : \A i \in (notified + 1)..Len(batch) : \A x \in Elems(subs[s].seen) :
            x.e.id \notin Twice' /\ batch[i].e.id \notin Twice' => Earlier(rows, x, batch[i])
      BY <1>1, <1>3, <2>1 DEF NotifyOrder
    <3> QED
      BY <1>1, <2>1, <3>1, <3>2, <3>3 DEF NotifyOrder
  <2> QED
    BY <2>1 DEF NotifyOrder
<1>10. AnchorsBacked'
  BY <1>1 DEF AnchorsBacked
<1>11. SubsInv'
  <2>1. ASSUME NEW s \in Subs PROVE Follows(subs[s].seen, Len(subs[s].seen), rows, Twice')
    BY <1>1, <1>2, <1>3, <1>7, FollowsKept DEF SubsInv
  <2> QED
    BY <1>1, <2>1 DEF SubsInv
<1> QED
  BY <1>6, <1>8, <1>9, <1>10, <1>11 DEF ToldInv

\* Subscribe, Unsubscribe, Consume: what was seen is kept or forgotten.
LEMMA SubscribeTold ==
  ASSUME ToldInv, NEW s \in Subs, Subscribe(s) \/ Unsubscribe(s) \/ Consume(s)
  PROVE  ToldInv'
<1> USE DEF db, queue, locals, ghosts
<1>1. UNCHANGED <<rows, batch, inq, ctl, anchors, submitted, pc, notified, tx, discarded, ignored>>
  BY DEF Subscribe, Unsubscribe, Consume
<1>2. IdInv /\ TxOrder /\ NotifyOrder /\ AnchorsBacked /\ SubsInv
  BY DEF ToldInv
<1>3. Twice' = Twice
  BY <1>1 DEF Twice, CameTwice
<1>4. /\ subs' = [u \in Subs |-> subs'[u]]
      /\ \A u \in Subs :
           /\ subs'[u] = [on |-> subs'[u].on, pending |-> subs'[u].pending, seen |-> subs'[u].seen]
           /\ subs'[u].seen = subs[u].seen \/ subs'[u].seen = <<>>
  <2>1. /\ subs = [u \in Subs |-> subs[u]]
        /\ \A u \in Subs :
             subs[u] = [on |-> subs[u].on, pending |-> subs[u].pending, seen |-> subs[u].seen]
    BY <1>2 DEF SubsInv
  <2>2. CASE Subscribe(s)
    <3>1. subs' = [subs EXCEPT ![s] = [on |-> TRUE, pending |-> 0, seen |-> <<>>]]
      BY <2>2 DEF Subscribe
    <3> QED
      BY <2>1, <3>1
  <2>3. CASE Unsubscribe(s)
    <3>1. subs' = [subs EXCEPT ![s].on = FALSE]
      BY <2>3 DEF Unsubscribe
    <3>2. subs' = [u \in Subs |-> subs'[u]] /\ \A u \in Subs : u # s => subs'[u] = subs[u]
      BY <2>1, <3>1
    <3>3. subs'[s] = [subs[s] EXCEPT !.on = FALSE]
      BY <2>1, <3>1
    <3>4. subs[s] = [on |-> subs[s].on, pending |-> subs[s].pending, seen |-> subs[s].seen]
      BY <2>1
    <3>5. subs'[s] = [on |-> FALSE, pending |-> subs[s].pending, seen |-> subs[s].seen]
      BY <3>3, <3>4
    <3>6. /\ subs'[s] = [on |-> subs'[s].on, pending |-> subs'[s].pending, seen |-> subs'[s].seen]
          /\ subs'[s].seen = subs[s].seen
      BY <3>5
    <3> QED
      BY <2>1, <3>2, <3>6
  <2>4. CASE Consume(s)
    <3>1. subs' = [subs EXCEPT ![s].pending = @ - 1]
      BY <2>4 DEF Consume
    <3> QED
      BY <2>1, <3>1
  <2> QED
    BY <2>2, <2>3, <2>4
<1>5. \A u \in Subs : subs'[u].seen = <<>> => Len(subs'[u].seen) = 0 /\ subs'[u].seen \in Seq(Row)
  BY EmptySeq
<1>6. SubsInv'
  <2>1. ASSUME NEW u \in Subs
        PROVE  subs'[u].seen \in Seq(Row) /\ Follows(subs'[u].seen, Len(subs'[u].seen), rows, Twice)
    <3>1. CASE subs'[u].seen = subs[u].seen
      BY <1>2, <3>1 DEF SubsInv
    <3>2. CASE subs'[u].seen = <<>>
      BY <1>5, <3>2 DEF Follows
    <3> QED
      BY <1>4, <3>1, <3>2
  <2> QED
    BY <1>1, <1>3, <1>4, <2>1 DEF SubsInv
<1>7. NotifyOrder'
  <2>1. ASSUME NEW u \in Subs PROVE Elems(subs'[u].seen) \subseteq Elems(subs[u].seen)
    BY <1>4, <1>5 DEF Elems
  <2> QED
    BY <1>1, <1>2, <1>3, <2>1 DEF NotifyOrder
<1>8. IdInv' /\ TxOrder' /\ AnchorsBacked'
  BY <1>1, <1>2, <1>3 DEF IdInv, TxOrder, AnchorsBacked, Elems
<1> QED
  BY <1>6, <1>7, <1>8 DEF ToldInv

\* A row of the batch is added to the open transaction: if it came once, its id is
\* neither stored nor that of a row before it.
LEMMA InsertTold == ASSUME PipeInv, PipeInv', ToldInv, InsertOne PROVE ToldInv'
<1> USE DEF db, queue, locals, ghosts
<1> DEFINE n == tx.next
           row == batch[n]
<1>1. LogShape /\ IdInv /\ TxOrder /\ AnchorsBacked /\ SubsInv
  BY DEF PipeInv, ToldInv
<1>2. /\ pc = "insert" /\ pc' = "insert" /\ n <= Len(batch)
      /\ tx'.rows = InsertRow(tx.rows, row) /\ tx'.next = n + 1
      /\ UNCHANGED <<rows, batch, inq, ctl, anchors, subs, submitted, discarded, ignored>>
  BY DEF InsertOne
<1>3. /\ n \in 1..(Len(batch) + 1) /\ tx.rows \in Seq(Row) /\ Extends(rows, tx.rows)
      /\ StoredIds(tx.rows) = StoredIds(rows) \cup {batch[i].e.id : i \in 1..(n - 1)}
      /\ rows \in Seq(Row) /\ batch \in Seq(Row) /\ Len(batch) \in Nat
  BY <1>1, <1>2, LenProperties DEF PipeInv, OpenTx, LogShape
<1> HIDE DEF n
<1>4. /\ n \in 1..Len(batch) /\ (n + 1) - 1 = n
      /\ \A i : i \in 1..n <=> i \in 1..(n - 1) \/ i = n
  BY <1>2, <1>3
<1>5. row \in Row
  BY <1>3, <1>4, ElementOfSeq
<1>6. Twice' = Twice
  BY <1>2 DEF Twice, CameTwice
<1>7. row.e.id \notin Twice => row.e.id \notin StoredIds(tx.rows)
  <2> SUFFICES ASSUME row.e.id \notin Twice, row.e.id \in StoredIds(tx.rows) PROVE FALSE
    OBVIOUS
  <2>1. row.e.id \in StoredIds(batch)
    BY <1>4 DEF StoredIds
  <2>2. CASE row.e.id \in StoredIds(rows)
    BY <1>1, <1>2, <2>1, <2>2 DEF IdInv
  <2>3. CASE row.e.id \in {batch[i].e.id : i \in 1..(n - 1)}
    <3>1. PICK i \in 1..(n - 1) : batch[i].e.id = row.e.id
      BY <2>3
    <3>2. i \in 1..Len(batch) /\ i # n
      BY <1>3, <1>4
    <3> QED
      BY <1>1, <1>4, <3>1, <3>2 DEF IdInv, TableApart
  <2> QED
    BY <1>3, <2>2, <2>3
<1> HIDE DEF row
<1>8. /\ tx'.rows \in Seq(Row) /\ Extends(tx.rows, tx'.rows)
      /\ row.e.id \notin Twice => /\ tx'.rows = Append(tx.rows, row) /\ row \in Elems(tx'.rows)
  <2>1. CASE row.e.id \in StoredIds(tx.rows)
    BY <1>2, <1>3, <1>7, <2>1, LenProperties DEF InsertRow, Extends
  <2>2. CASE row.e.id \notin StoredIds(tx.rows)
    BY <1>2, <1>3, <1>5, <2>2, AppendRow DEF InsertRow
  <2> QED
    BY <2>1, <2>2
<1>9. /\ Follows(batch, n - 1, tx'.rows, Twice)
      /\ \A i \in 1..(n - 1) : batch[i].e.id \notin Twice =>
           \A x \in Elems(rows) : Earlier(tx'.rows, x, batch[i])
  <2>1. Follows(batch, n - 1, tx.rows, Twice)
    BY <1>1, <1>2 DEF TxOrder, n
  <2>2. \A i \in 1..(n - 1) : batch[i].e.id \notin Twice =>
          \A x \in Elems(rows) : Earlier(tx.rows, x, batch[i])
    BY <1>1, <1>2 DEF TxOrder, n
  <2> QED
    BY <1>3, <1>8, <2>1, <2>2, FollowsKept, EarlierKept
<1>10. row.e.id \notin Twice => \A x \in Elems(tx.rows) : Earlier(tx'.rows, x, row)
  BY <1>3, <1>5, <1>8, EarlierNew
<1>11. Follows(batch, n, tx'.rows, Twice)
  <2> SUFFICES ASSUME NEW i \in 1..n, batch[i].e.id \notin Twice
               PROVE  /\ batch[i] \in Elems(tx'.rows)
                      /\ \A j \in 1..(i - 1) : batch[j].e.id \notin Twice =>
                           Earlier(tx'.rows, batch[j], batch[i])
    BY DEF Follows
  <2>1. CASE i \in 1..(n - 1)
    BY <1>9, <2>1 DEF Follows
  <2>2. CASE i = n
    <3>1. \A j \in 1..(n - 1) : batch[j].e.id \notin Twice => batch[j] \in Elems(tx.rows)
      BY <1>1, <1>2 DEF TxOrder, Follows, n
    <3> QED
      BY <1>8, <1>10, <2>2, <3>1 DEF row
  <2> QED
    BY <1>4, <2>1, <2>2
<1>12. \A i \in 1..n : batch[i].e.id \notin Twice =>
         \A x \in Elems(rows) : Earlier(tx'.rows, x, batch[i])
  <2>1. Elems(rows) \subseteq Elems(tx.rows)
    BY <1>3, ElemsKept
  <2> QED
    BY <1>4, <1>9, <1>10, <2>1 DEF row
<1>13. TxOrder'
  <2>1. Follows(batch, tx.next - 1, tx.rows, Twice)' = Follows(batch, n, tx'.rows, Twice)
    BY <1>2, <1>4, <1>6 DEF Follows
  <2>2. tx'.next - 1 = n /\ Elems(rows)' = Elems(rows)
    BY <1>2, <1>4
  <2> QED
    BY <1>2, <1>6, <1>11, <1>12, <2>1, <2>2 DEF TxOrder
<1>14. IdInv' /\ NotifyOrder' /\ AnchorsBacked' /\ SubsInv'
  BY <1>1, <1>2, <1>6 DEF IdInv, NotifyOrder, AnchorsBacked, SubsInv, Elems
<1> QED
  BY <1>13, <1>14 DEF ToldInv

\* The commit: what the subscribers have seen was stored before.
LEMMA CommitTold == ASSUME PipeInv, PipeInv', ToldInv, Commit PROVE ToldInv'
<1> USE DEF db, queue, locals, ghosts
<1>1. LogShape /\ IdInv /\ TxOrder /\ AnchorsBacked /\ SubsInv
  BY DEF PipeInv, ToldInv
<1>2. /\ pc = "insert" /\ pc' = "notify" /\ rows' = tx.rows /\ notified' = 0
      /\ ignored' = ignored \cup tx.ignored
      /\ UNCHANGED <<batch, inq, ctl, anchors, subs, submitted, discarded>>
  BY DEF Commit
<1>3. /\ tx.next - 1 = Len(batch) /\ tx.rows \in Seq(Row) /\ Extends(rows, tx.rows)
      /\ StoredIds(tx.rows) = StoredIds(rows) \cup {batch[i].e.id : i \in 1..(tx.next - 1)}
      /\ rows \in Seq(Row) /\ batch \in Seq(Row) /\ Len(batch) \in Nat
  BY <1>1, <1>2, LenProperties DEF PipeInv, OpenTx, LogShape, Commit
<1>4. Twice' = Twice /\ StoredIds(rows') = StoredIds(rows) \cup StoredIds(batch)
  BY <1>2, <1>3 DEF Twice, CameTwice, StoredIds
<1>5. Elems(rows) \subseteq Elems(rows')
  BY <1>2, <1>3, ElemsKept
<1>6. IdInv'
  BY <1>1, <1>2, <1>4 DEF IdInv
<1>7. SubsInv'
  <2>1. ASSUME NEW s \in Subs PROVE Follows(subs[s].seen, Len(subs[s].seen), rows', Twice)
    BY <1>1, <1>2, <1>3, FollowsKept DEF SubsInv
  <2>2. \A s \in Subs : Follows(subs[s].seen, Len(subs[s].seen), rows, Twice)'
                         = Follows(subs[s].seen, Len(subs[s].seen), rows', Twice)
    BY <1>2, <1>4 DEF Follows
  <2> QED
    BY <1>1, <1>2, <2>1, <2>2 DEF SubsInv
<1>8. NotifyOrder'
  <2>1. Follows(batch, Len(batch), rows', Twice)
    BY <1>1, <1>2, <1>3 DEF TxOrder
  <2>2. ASSUME NEW s \in Subs, NEW i \in 1..Len(batch), NEW x \in Elems(subs[s].seen),
               x.e.id \notin Twice, batch[i].e.id \notin Twice
        PROVE  Earlier(rows', x, batch[i])
    <3>1. PICK j \in 1..Len(subs[s].seen) : subs[s].seen[j] = x
      BY DEF Elems
    <3>2. x \in Elems(rows)
      BY <1>1, <2>2, <3>1 DEF SubsInv, Follows
    <3> QED
      BY <1>1, <1>2, <1>3, <2>2, <3>2 DEF TxOrder
  <2>3. /\ 0 \in 0..Len(batch) /\ 0 + 1 = 1
        /\ Follows(batch, Len(batch), rows, Twice)' = Follows(batch, Len(batch), rows', Twice)
    BY <1>2, <1>3, <1>4 DEF Follows
  <2> QED
    BY <1>2, <1>4, <2>1, <2>2, <2>3 DEF NotifyOrder
<1>9. TxOrder' /\ AnchorsBacked'
  BY <1>1, <1>2, <1>5 DEF TxOrder, AnchorsBacked, Elems
<1> QED
  BY <1>6, <1>7, <1>8, <1>9 DEF ToldInv

\* The subscribers are told of the next row of the batch, or all rows were sent.
LEMMA NotifyTold == ASSUME PipeInv, ToldInv, Notify PROVE ToldInv'
<1> USE DEF db, queue, locals, ghosts
<1>1. LogShape /\ IdInv /\ NotifyOrder /\ AnchorsBacked /\ SubsInv
  BY DEF PipeInv, ToldInv
<1>2. /\ pc = "notify" /\ UNCHANGED <<rows, inq, ctl, anchors, submitted, tx, discarded, ignored>>
      /\ batch \in Seq(Row) /\ Len(batch) \in Nat /\ cont \notin {"insert", "notify"}
      /\ StoredIds(batch) \subseteq StoredIds(rows)
      /\ Elems(batch) \subseteq Elems(rows) \cup ignored
  BY <1>1, LenProperties DEF Notify, LogShape, PipeInv, OpenTx
<1>3. Twice' = Twice
  BY <1>2 DEF Twice, CameTwice
<1>4. CASE notified < Len(batch)
  <2> DEFINE n == notified + 1
             row == batch[n]
  <2>1. /\ pc' = "notify" /\ batch' = batch /\ notified' = n
        /\ subs' = [s \in Subs |-> Deliver(subs[s], row)]
    BY <1>2, <1>4 DEF Notify
  <2>2. n \in 1..Len(batch) /\ n \in 0..Len(batch) /\ notified \in Nat /\ n \in (notified + 1)..Len(batch)
        /\ \A i \in (n + 1)..Len(batch) : i \in (notified + 1)..Len(batch) /\ i \in 1..Len(batch)
                                          /\ n \in 1..(i - 1)
    BY <1>1, <1>2, <1>4 DEF NotifyOrder
  <2> HIDE DEF n
  <2>3. row \in Row
    BY <1>2, <2>2, ElementOfSeq
  <2>4. IdInv' /\ TxOrder' /\ AnchorsBacked'
    BY <1>1, <1>2, <1>3, <2>1 DEF IdInv, TxOrder, AnchorsBacked, Elems
  <2>5. row.e.id \notin Twice =>
          /\ row \in Elems(rows)
          /\ \A i \in (n + 1)..Len(batch) :
               batch[i].e.id \notin Twice => Earlier(rows, row, batch[i])
    BY <1>1, <1>2, <2>2 DEF NotifyOrder, Follows
  <2>6. ASSUME NEW s \in Subs, NEW x \in Elems(subs[s].seen), row.e.id \notin Twice,
               x.e.id \notin Twice
        PROVE  Earlier(rows, x, row)
    BY <1>1, <1>2, <2>2, <2>6 DEF NotifyOrder
  <2> HIDE DEF row
  <2>7. ASSUME NEW s \in Subs
        PROVE  /\ subs'[s] = [on |-> subs'[s].on, pending |-> subs'[s].pending,
                              seen |-> subs'[s].seen]
               /\ subs'[s].seen \in Seq(Row)
               /\ Follows(subs'[s].seen, Len(subs'[s].seen), rows, Twice)
               /\ Elems(subs'[s].seen) \subseteq Elems(subs[s].seen) \cup {row}
    <3>1. /\ subs[s] = [on |-> subs[s].on, pending |-> subs[s].pending, seen |-> subs[s].seen]
          /\ subs[s].seen \in Seq(Row) /\ Follows(subs[s].seen, Len(subs[s].seen), rows, Twice)
      BY <1>1 DEF SubsInv
    <3>2. subs'[s] = Deliver(subs[s], row)
      BY <2>1
    <3>3. CASE subs[s].on /\ subs[s].pending < SubCapacity
      <4>1. subs'[s] = [subs[s] EXCEPT !.pending = @ + 1, !.seen = Append(@, row)]
        BY <3>2, <3>3 DEF Deliver
      <4>2. subs'[s] = [on |-> subs[s].on, pending |-> subs[s].pending + 1,
                        seen |-> Append(subs[s].seen, row)]
        BY <3>1, <4>1
      <4>3. subs'[s].seen = Append(subs[s].seen, row)
        BY <4>2
      <4>4. subs'[s] = [on |-> subs'[s].on, pending |-> subs'[s].pending, seen |-> subs'[s].seen]
        BY <4>2
      <4>5. /\ Append(subs[s].seen, row) \in Seq(Row)
            /\ Elems(Append(subs[s].seen, row)) = Elems(subs[s].seen) \cup {row}
        BY <2>3, <3>1, AppendRow
      <4>6. Follows(Append(subs[s].seen, row), Len(Append(subs[s].seen, row)), rows, Twice)
        BY <2>3, <2>5, <2>6, <3>1, FollowsMore
      <4> QED
        BY <4>3, <4>4, <4>5, <4>6
    <3>4. CASE ~(subs[s].on /\ subs[s].pending < SubCapacity)
      BY <3>1, <3>2, <3>4 DEF Deliver
    <3> QED
      BY <3>3, <3>4
  <2>8. SubsInv'
    <3>1. subs' = [s \in Subs |-> subs'[s]]
      BY <2>1
    <3> QED
      BY <1>2, <1>3, <2>7, <3>1 DEF SubsInv
  <2>9. NotifyOrder'
    <3>1. ASSUME NEW s \in Subs, NEW i \in (n + 1)..Len(batch), NEW x \in Elems(subs'[s].seen),
                 x.e.id \notin Twice, batch[i].e.id \notin Twice
          PROVE  Earlier(rows, x, batch[i])
      <4>1. CASE x \in Elems(subs[s].seen)
        BY <1>1, <1>2, <2>2, <3>1, <4>1 DEF NotifyOrder
      <4>2. CASE x = row
        BY <2>5, <3>1, <4>2
      <4> QED
        BY <2>7, <3>1, <4>1, <4>2
    <3>2. Follows(batch, Len(batch), rows, Twice)
      BY <1>1, <1>2 DEF NotifyOrder
    <3>3. Follows(batch, Len(batch), rows, Twice)' = Follows(batch, Len(batch), rows, Twice)
      BY <1>2, <1>3, <2>1 DEF Follows
    <3> QED
      BY <1>2, <1>3, <2>1, <2>2, <3>1, <3>2, <3>3 DEF NotifyOrder
  <2> QED
    BY <2>4, <2>8, <2>9 DEF ToldInv
<1>5. CASE notified = Len(batch)
  <2>1. pc' = cont /\ batch' = <<>> /\ subs' = subs
    BY <1>2, <1>5 DEF Notify
  <2>2. Elems(batch') = {} /\ StoredIds(batch') = {} /\ TableApart(batch', Twice)
    BY <2>1 DEF Elems, StoredIds, TableApart
  <2>3. IdInv'
    BY <1>1, <1>2, <1>3, <2>2 DEF IdInv
  <2>4. AnchorsBacked'
    BY <1>1, <1>2, <2>2 DEF AnchorsBacked, Elems
  <2>5. TxOrder' /\ NotifyOrder' /\ SubsInv'
    BY <1>1, <1>2, <1>3, <2>1 DEF TxOrder, NotifyOrder, SubsInv
  <2> QED
    BY <2>3, <2>4, <2>5 DEF ToldInv
<1> QED
  BY <1>4, <1>5 DEF Notify

\* Crash and Restart: what an anchor was backed by is stored or discarded.
LEMMA ForgetTold ==
  ASSUME ToldInv, Forget, UNCHANGED <<rows, anchors, submitted, ignored>>,
         pc' \in {"down", "drain"}
  PROVE  ToldInv'
<1>1. IdInv /\ AnchorsBacked
  BY DEF ToldInv
<1>2. /\ inq' = <<>> /\ ctl' = <<>> /\ batch' = <<>>
      /\ subs' = [s \in Subs |-> [on |-> FALSE, pending |-> 0, seen |-> <<>>]]
      /\ discarded' = discarded \cup (Elems(batch) \ Elems(rows))
  BY DEF Forget
<1>3. IdInv'
  BY <1>2 DEF IdInv, QueueApart, TableApart, IdsOf, StoredIds
<1>4. AnchorsBacked'
  BY <1>1, <1>2 DEF AnchorsBacked, Elems
<1>5. SubsInv'
  <2>1. \A s \in Subs : subs'[s] = [on |-> FALSE, pending |-> 0, seen |-> <<>>]
    BY <1>2
  <2>2. subs' = [s \in Subs |-> subs'[s]]
    BY <1>2
  <2>3. \A s \in Subs : subs'[s].seen = <<>>
    BY <2>1
  <2>4. \A s \in Subs :
          subs'[s] = [on |-> subs'[s].on, pending |-> subs'[s].pending, seen |-> subs'[s].seen]
    BY <2>1
  <2>5. Follows(<<>>, Len(<<>>), rows', Twice') /\ <<>> \in Seq(Row)
    BY EmptySeq DEF Follows
  <2>6. \A s \in Subs : Follows(subs[s].seen, Len(subs[s].seen), rows, Twice)'
    BY <2>3, <2>5
  <2> QED
    BY <2>2, <2>3, <2>4, <2>5, <2>6 DEF SubsInv
<1>6. TxOrder' /\ NotifyOrder'
  BY DEF TxOrder, NotifyOrder
<1> QED
  BY <1>3, <1>4, <1>5, <1>6 DEF ToldInv

\* A fresh database and a fresh logger.
LEMMA InitTold == Init => ToldInv
<1> SUFFICES ASSUME Init PROVE ToldInv
  OBVIOUS
<1>1. /\ rows = <<>> /\ inq = <<>> /\ ctl = <<>> /\ anchors = {} /\ pc = "drain"
      /\ batch = <<>> /\ subs = [s \in Subs |-> [on |-> FALSE, pending |-> 0, seen |-> <<>>]]
  BY DEF Init
<1>2. IdInv
  BY <1>1 DEF IdInv, QueueApart, TableApart, IdsOf, StoredIds
<1>3. TxOrder /\ NotifyOrder /\ AnchorsBacked
  BY <1>1 DEF TxOrder, NotifyOrder, AnchorsBacked
<1>4. SubsInv
  <2>1. \A s \in Subs : subs[s] = [on |-> FALSE, pending |-> 0, seen |-> <<>>]
    BY <1>1
  <2>2. subs = [s \in Subs |-> subs[s]]
    BY <1>1
  <2>3. \A s \in Subs : subs[s].seen = <<>>
    BY <2>1
  <2>4. \A s \in Subs :
          subs[s] = [on |-> subs[s].on, pending |-> subs[s].pending, seen |-> subs[s].seen]
    BY <2>1
  <2>5. Follows(<<>>, Len(<<>>), rows, Twice) /\ <<>> \in Seq(Row)
    BY EmptySeq DEF Follows
  <2> QED
    BY <2>2, <2>3, <2>4, <2>5 DEF SubsInv
<1> QED
  BY <1>2, <1>3, <1>4 DEF ToldInv

\* Every step keeps the invariant.
LEMMA NextTold == ASSUME PipeInv, PipeInv', ToldInv, [Next]_vars PROVE ToldInv'
<1> USE DEF db, queue, locals, ghosts, bounds, service
<1>1. cont \in {"drain", "shutdown", "final", "stopped"}
  BY DEF PipeInv, LogShape
<1>2. CASE DrainControl
  <2>1. CASE TakeControl("drain")
    BY <1>2, <2>1, TakeTold DEF DrainControl
  <2>2. CASE Goto("select")
    BY <1>2, <2>2, SameTold DEF DrainControl, Goto
  <2> QED
    BY <1>2, <2>1, <2>2 DEF DrainControl
<1>3. CASE SelectReceive \/ SelectControl
  BY <1>3, TakeTold DEF SelectReceive, SelectControl
<1>4. CASE SelectTick \/ SelectDone
  BY <1>4, SameTold DEF SelectTick, SelectDone, CallFlush, Goto
<1>5. CASE Shutdown
  <2>1. CASE TakeMain("shutdown") \/ TakeControl("shutdown")
    BY <1>5, <2>1, TakeTold DEF Shutdown
  <2>2. CASE Goto("final")
    BY <1>5, <2>2, SameTold DEF Shutdown, Goto
  <2> QED
    BY <1>5, <2>1, <2>2 DEF Shutdown
<1>6. CASE ShutdownFlush
  <2>1. CASE TakeControl("final")
    BY <1>6, <2>1, TakeTold DEF ShutdownFlush
  <2>2. CASE CallFlush("stopped")
    BY <1>6, <2>2, SameTold DEF ShutdownFlush, CallFlush
  <2> QED
    BY <1>6, <2>1, <2>2 DEF ShutdownFlush
<1>7. CASE BeginFlush
  <2>1. CASE pc' = "insert"
    <3>1. /\ tx'.next = 1 /\ tx'.rows = rows /\ pc = "flush"
          /\ UNCHANGED <<rows, batch, inq, ctl, anchors, subs, submitted, discarded, ignored>>
      BY <1>1, <1>7, <2>1 DEF BeginFlush
    <3>2. Twice' = Twice
      BY <3>1 DEF Twice, CameTwice
    <3>3. TxOrder'
      BY <3>1 DEF TxOrder, Follows
    <3>4. IdInv' /\ NotifyOrder' /\ AnchorsBacked' /\ SubsInv'
      BY <2>1, <3>1, <3>2 DEF ToldInv, IdInv, NotifyOrder, AnchorsBacked, SubsInv, Elems
    <3> QED
      BY <3>3, <3>4 DEF ToldInv
  <2>2. CASE pc' # "insert"
    BY <1>1, <1>7, <2>2, SameTold DEF BeginFlush
  <2> QED
    BY <2>1, <2>2
<1>8. CASE InsertOne \/ Commit \/ Notify
  BY <1>8, InsertTold, CommitTold, NotifyTold
<1>9. CASE FlushError
  BY <1>1, <1>9, SameTold DEF FlushError
<1>10. CASE \E e \in MainEvents : Submit(e)
  <2>1. PICK e \in MainEvents : Submit(e)
    BY <1>10
  <2>2. e \in EventType
    BY LogAssumption
  <2> QED
    BY <2>1, <2>2, ArriveTold DEF Submit
<1>11. CASE \E e \in OverflowEvents : Overflow(e)
  <2>1. PICK e \in OverflowEvents : Overflow(e)
    BY <1>11
  <2>2. e \in EventType
    BY LogAssumption
  <2> QED
    BY <2>1, <2>2, ArriveTold DEF Overflow
<1>12. CASE \E s \in Subs : Subscribe(s) \/ Unsubscribe(s) \/ Consume(s)
  BY <1>12, SubscribeTold
<1>13. CASE SetEvaluator \/ SetRedactor \/ Stop \/ Ended \/ UNCHANGED vars
  BY <1>13, SameTold DEF SetEvaluator, SetRedactor, Stop, Ended, vars
<1>14. CASE Crash \/ Restart
  BY <1>14, ForgetTold DEF Crash, Restart
<1> QED
  BY <1>2, <1>3, <1>4, <1>5, <1>6, <1>7, <1>8, <1>9, <1>10, <1>11, <1>12, <1>13, <1>14
  DEF Next, Serializer

-----------------------------------------------------------------------------
(***************************************************************************)
(* Theorems                                                                *)
(***************************************************************************)

\* The three invariants hold.
LEMMA Invariants == Spec => [](PipeInv /\ ChainInv /\ ToldInv)
<1>1. Init => PipeInv /\ ChainInv /\ ToldInv
  BY InitPipe, InitChain, InitTold
<1>2. PipeInv /\ ChainInv /\ ToldInv /\ [Next]_vars => PipeInv' /\ ChainInv' /\ ToldInv'
  BY NextPipe, NextChain, NextTold
<1> QED
  BY <1>1, <1>2, PTL DEF Spec

\* Of an intact table and batch the stored part is a chain.
LEMMA StoredChain ==
  ASSUME LogShape, ChainInv, Intact
  PROVE  rows \in Seq(Row) /\ Linked(rows) /\ InTextOrder(rows)
<1>1. rows \in Seq(Row) /\ Pending \in Seq(Row) /\ Chain = rows \o Pending
  BY ChainType DEF LogShape
<1> QED
  BY <1>1, ChainPrefix DEF ChainInv, Whole, Intact

\* The integrity check finds an intact table's chain unbroken, after any number of
\* failed flushes, crashes and restarts, whatever is submitted (VerifyIntegrity).
THEOREM ChainAlwaysVerifies == Spec => []ChainVerifies
<1>1. PipeInv /\ ChainInv => ChainVerifies
  BY StoredChain, ChainIntact DEF ChainVerifies, PipeInv
<1> QED
  BY <1>1, Invariants, PTL

\* What a running logger has chained in memory continues the chain of an intact
\* table, whatever it is (processEvent, flush, NewLogger).
THEOREM ChainAlwaysContinues == Spec => []ChainContinues
<1>1. PipeInv /\ ChainInv => ChainContinues
  <2> SUFFICES ASSUME PipeInv, ChainInv, Intact, Up, pc # "notify",
                      NEW i \in 1..Len(rows \o batch)
               PROVE  (rows \o batch)[i].prev =
                        IF i = 1 THEN Genesis ELSE (rows \o batch)[i - 1].hash
    BY DEF ChainContinues
  <2>1. Chain = rows \o batch /\ Linked(Chain) /\ Chain \in Seq(Row)
    BY ChainType DEF Chain, Pending, ChainInv, Whole, PipeInv
  <2>2. Len(Chain) \in Nat
    BY <2>1, LenProperties
  <2>3. Chain[i].prev = Entries(Chain, i - 1)
    BY <2>1 DEF Linked
  <2>4. CASE i = 1
    <3>1. 0 \in 0..Len(Chain) /\ i - 1 = 0
      BY <2>2, <2>4
    <3>2. Entries(Chain, 0) = <<>>
      BY <2>1, <3>1, EntriesType
    <3> QED
      BY <2>1, <2>3, <2>4, <3>1, <3>2 DEF Genesis
  <2>5. CASE i # 1
    <3>1. i - 1 \in 1..Len(Chain)
      BY <2>1, <2>2, <2>5
    <3> QED
      BY <2>1, <2>3, <2>5, <3>1 DEF Linked
  <2> QED
    BY <2>4, <2>5
<1> QED
  BY <1>1, Invariants, PTL

\* Rows are only ever added, at the end of the table, whatever is submitted
\* (InsertEvents).
THEOREM TableOnlyGrows == Spec => AppendOnly
<1>1. PipeInv /\ PipeInv' /\ [Next]_vars =>
        [Len(rows) <= Len(rows') /\ SubSeq(rows', 1, Len(rows)) = rows]_rows
  <2> SUFFICES ASSUME PipeInv, PipeInv', [Next]_vars
               PROVE  Len(rows) <= Len(rows') /\ SubSeq(rows', 1, Len(rows)) = rows
    OBVIOUS
  <2>1. Extends(rows, rows')
    BY RowsGrow
  <2>2. rows \in Seq(Row) /\ rows' \in Seq(Row) /\ Len(rows) \in Nat /\ Len(rows') \in Nat
    BY LenProperties DEF PipeInv, LogShape
  <2>3. \A i \in 1..Len(rows) : rows'[i] \in Row
    BY <2>1, <2>2 DEF Extends
  <2>4. /\ SubSeq(rows', 1, Len(rows)) \in Seq(Row)
        /\ Len(SubSeq(rows', 1, Len(rows))) = Len(rows)
        /\ \A i \in 1..Len(rows) : SubSeq(rows', 1, Len(rows))[i] = rows[i]
    BY <2>1, <2>2, <2>3, SubSeqProperties DEF Extends
  <2>5. SubSeq(rows', 1, Len(rows)) = rows
    BY <2>2, <2>4, SeqEqual
  <2> QED
    BY <2>1, <2>5 DEF Extends
<1> QED
  BY <1>1, Invariants, PTL DEF Spec, AppendOnly

\* A table that grows adds entries at its end.
LEMMA EntriesExtend ==
  ASSUME NEW c \in Seq(Row), NEW d \in Seq(Row), Extends(c, d)
  PROVE  LET a   == Entries(c, Len(c))
             b   == Entries(d, Len(d))
             new == SubSeq(b, Len(a) + 1, Len(b))
         IN  /\ b = a \o new
             /\ d # c => new # <<>>
             /\ Single(d) => \A i, j \in 1..Len(b) : i # j => b[i].id # b[j].id
<1> DEFINE a   == Entries(c, Len(c))
           b   == Entries(d, Len(d))
           new == SubSeq(b, Len(a) + 1, Len(b))
<1>1. Len(c) \in Nat /\ Len(d) \in Nat /\ Len(c) <= Len(d)
      /\ (\A k \in 1..Len(c) : k \in 1..Len(d) /\ d[k] = c[k])
      /\ Len(c) \in 0..Len(c) /\ Len(d) \in 0..Len(d)
  BY LenProperties DEF Extends
<1>2. a \in Seq(EventType) /\ Len(a) = Len(c) /\ \A k \in 1..Len(c) : a[k] = c[k].e
  BY <1>1, EntriesType
<1>3. b \in Seq(EventType) /\ Len(b) = Len(d) /\ \A k \in 1..Len(d) : b[k] = d[k].e
  BY <1>1, EntriesType
<1> HIDE DEF a, b
<1>4. /\ new \in Seq(EventType) /\ Len(new) = Len(d) - Len(c)
      /\ \A k \in 1..Len(new) : new[k] = b[Len(c) + k]
  <2>1. \A i \in (Len(c) + 1)..Len(d) : b[i] \in EventType
    BY <1>1, <1>3, ElementOfSeq
  <2>2. /\ new \in Seq(EventType)
        /\ Len(new) = IF Len(c) + 1 <= Len(d) THEN Len(d) - (Len(c) + 1) + 1 ELSE 0
        /\ \A k \in 1..(Len(d) - (Len(c) + 1) + 1) : new[k] = b[(Len(c) + 1) + k - 1]
    BY <1>1, <1>2, <1>3, <2>1, SubSeqProperties
  <2> HIDE DEF new
  <2>3. Len(new) = Len(d) - Len(c)
    BY <1>1, <2>2
  <2>4. ASSUME NEW k \in 1..Len(new) PROVE new[k] = b[Len(c) + k]
    <3>1. k \in 1..(Len(d) - (Len(c) + 1) + 1) /\ (Len(c) + 1) + k - 1 = Len(c) + k
      BY <1>1, <2>3
    <3> QED
      BY <2>2, <3>1
  <2> QED
    BY <2>2, <2>3, <2>4
<1> HIDE DEF new
<1>5. b = a \o new
  <2>1. a \o new \in Seq(EventType) /\ Len(a \o new) = Len(b)
    <3>1. a \o new \in Seq(EventType) /\ Len(a \o new) = Len(a) + Len(new)
      BY <1>2, <1>4, ConcatProperties
    <3> QED
      BY <1>1, <1>2, <1>3, <1>4, <3>1
  <2>2. ASSUME NEW k \in 1..Len(b) PROVE b[k] = (a \o new)[k]
    <3>0. k \in Nat /\ k <= Len(d) /\ k \in 1..Len(d) /\ 1 <= k
      BY <1>1, <1>3
    <3>1. CASE k <= Len(c)
      <4>1. k \in 1..Len(a) /\ k \in 1..Len(c)
        BY <1>1, <1>2, <3>0, <3>1
      <4>2. (a \o new)[k] = a[k]
        BY <1>2, <1>4, <4>1, ConcatProperties
      <4>3. a[k] = b[k]
        BY <1>1, <1>2, <1>3, <4>1
      <4> QED
        BY <4>2, <4>3
    <3>2. CASE k > Len(c)
      <4>1. k - Len(c) \in 1..Len(new) /\ Len(c) + (k - Len(c)) = k
        BY <1>1, <1>4, <3>0, <3>2
      <4>2. (a \o new)[k] = new[k - Len(c)]
        BY <1>1, <1>2, <1>4, <3>0, <3>2, <4>1, ConcatProperties
      <4> QED
        BY <1>4, <4>1, <4>2
    <3>3. k <= Len(c) \/ k > Len(c)
      BY <1>1, <3>0
    <3> QED
      BY <3>1, <3>2, <3>3
  <2> QED
    BY <1>3, <2>1, <2>2, SeqEqual
<1>6. ASSUME new = <<>> PROVE d = c
  <2>1. Len(new) = 0
    BY <1>6, EmptySeq
  <2>2. Len(d) = Len(c)
    BY <1>1, <1>4, <2>1
  <2> QED
    BY <1>1, <2>2, SeqEqual
<1>7. ASSUME Single(d), NEW i \in 1..Len(b), NEW j \in 1..Len(b), i # j
      PROVE  b[i].id # b[j].id
  <2>1. i \in 1..Len(d) /\ j \in 1..Len(d) /\ b[i] = d[i].e /\ b[j] = d[j].e
    BY <1>3
  <2> QED
    BY <1>7, <2>1 DEF Single
<1> QED
  BY <1>5, <1>6, <1>7 DEF a, b, new

\* Every step is a step of the ledger, or changes nothing it sees: a commit that
\* leaves the table intact extends the head, any other one damages it.
LEMMA LedgerStep ==
  ASSUME PipeInv, PipeInv', ChainInv, ChainInv', [Next]_vars
  PROVE  [Ledger!Next]_(Ledger!ledger)
<1> DEFINE a == Entries(rows, Len(rows))
           b == Entries(rows', Len(rows'))
           new == SubSeq(b, Len(a) + 1, Len(b))
           ents == [i \in 1..Len(rows) |-> rows[i].e]
<1>1. /\ rows \in Seq(Row) /\ rows' \in Seq(Row) /\ Extends(rows, rows') /\ Single(rows')
      /\ LogShape /\ LogShape'
  BY RowsGrow DEF PipeInv, LogShape, Single
<1>2. /\ b = a \o new
      /\ rows' # rows => new # <<>>
      /\ \A i, j \in 1..Len(b) : i # j => b[i].id # b[j].id
  BY <1>1, EntriesExtend
<1>3. ents = a /\ ents' = b
  BY DEF Entries
<1> HIDE DEF a, b, new, ents
<1>4. /\ SubSeq(ents', Len(ents) + 1, Len(ents')) = new /\ ents' = ents \o new
      /\ \A i, j \in 1..Len(ents') : i # j => ents'[i].id # ents'[j].id
  BY <1>2, <1>3 DEF new
<1>5. Ledger!Extend(new)
  BY <1>4 DEF ents, Ledger!Extend
<1>6. CASE ~Intact'
  <2>1. Ledger!Damage(new)
    BY <1>5, <1>6 DEF Ledger!Damage
  <2> QED
    BY <1>4, <2>1, Zenon DEF ents, Ledger!Next, Ledger!Damage, Ledger!Extend
<1>7. CASE Intact'
  <2>1. Intact
    BY <1>7, IntactBefore
  <2>2. GetLastEventHash(rows) = a
    BY <1>1, <2>1, StoredChain, LastHash DEF a
  <2>3. GetLastEventHash(rows') = b
    <3>1. Chain' = rows' \o Pending' /\ Pending' \in Seq(Row) /\ Linked(Chain')
      <4>1. Pending' = IF pc' = "notify" THEN <<>> ELSE batch'
        BY DEF Pending
      <4>2. Chain' = rows' \o Pending'
        BY DEF Chain
      <4>3. Whole'
        BY <1>7 DEF ChainInv
      <4>4. Linked(Chain)' = Linked(Chain')
        BY DEF Linked, Entries
      <4> QED
        BY <1>1, <4>1, <4>2, <4>3, <4>4, EmptySeq DEF Whole, LogShape
    <3>2. Linked(rows')
      BY <1>1, <3>1, ChainPrefix
    <3>3. InTextOrder(rows')
      BY <1>7 DEF Intact, InTextOrder
    <3> QED
      BY <1>1, <3>2, <3>3, LastHash DEF b
  <2>4. CASE rows' = rows
    <3>1. ents' = ents /\ GetLastEventHash(rows)' = GetLastEventHash(rows) /\ Intact' = Intact
      BY <1>7, <2>1, <2>4 DEF ents, GetLastEventHash, LatestRow, RowBefore
    <3> QED
      BY <3>1 DEF ents, Ledger!ledger
  <2>5. CASE rows' # rows
    <3>1. GetLastEventHash(rows)' = GetLastEventHash(rows')
      BY DEF GetLastEventHash, LatestRow, RowBefore
    <3>2. GetLastEventHash(rows)' = GetLastEventHash(rows) \o new /\ new # <<>>
      BY <1>2, <2>2, <2>3, <2>5, <3>1
    <3>3. Ledger!Commit(new)
      BY <1>5, <1>7, <2>1, <3>2 DEF Ledger!Commit
    <3> QED
      BY <1>4, <3>3, Zenon DEF ents, Ledger!Next, Ledger!Commit, Ledger!Extend
  <2> QED
    BY <2>4, <2>5
<1> QED
  BY <1>6, <1>7

\* The database implements the ledger, whatever is submitted: it only grows, no id
\* is in it twice, and while it is intact the hash the next event is chained to
\* commits to exactly the stored events (InsertEvents, GetLastEventHash).
THEOREM LogImplementsLedger == Spec => LedgerSpec
<1>1. Init => Ledger!Init
  BY DEF Init, Ledger!Init, GetLastEventHash, Genesis, Intact, InTextOrder
<1>2. (PipeInv /\ ChainInv) /\ (PipeInv /\ ChainInv)' /\ [Next]_vars
        => [Ledger!Next]_(Ledger!ledger)
  BY LedgerStep
<1> QED
  BY <1>1, <1>2, Invariants, PTL DEF Spec, LedgerSpec, Ledger!Spec

\* Whatever is submitted, whatever fails and whenever the process ends: every
\* event is queued, in the batch, stored or was in memory when it ended, and a
\* graceful stop has stored all it had accepted (flush, serializerLoop).
THEOREM AlwaysAccounted == Spec => [](Accounted /\ StopDrains)
<1>1. PipeInv => Accounted /\ StopDrains
  <2>1. ASSUME PipeInv, pc = "stopped", batch = <<>>, NEW i \in 1..accepted
        PROVE  submitted[i].id \in StoredIds(rows) \cup lost
    <3>1. StoredIds(batch) = {}
      BY <2>1 DEF StoredIds
    <3> QED
      BY <2>1, <3>1 DEF PipeInv, DrainInv, At
  <2> QED
    BY <2>1 DEF PipeInv, StopDrains
<1> QED
  BY <1>1, InitPipe, NextPipe, PTL DEF Spec

\* What is stored is what was submitted, judged; and redacted, as far as
\* MaxRedactionsPerField goes, if the redactor was that of the rules (processEvent,
\* Redact, noopCommandmentsService).
THEOREM StoredAlwaysFaithful == Spec => []StoredFaithfully
<1>1. PipeInv => StoredFaithfully
  <2> SUFFICES ASSUME PipeInv PROVE StoredFaithfully
    OBVIOUS
  <2>1. \A r \in Held : Faithful(r)
    BY DEF PipeInv, FaithInv
  <2>2. OutcomesFaithful
    <3> SUFFICES ASSUME NEW i \in 1..Len(rows)
                 PROVE  \E k \in 1..Len(submitted) : JudgedFrom(rows[i], submitted[k])
      BY DEF OutcomesFaithful, JudgedFrom
    <3>1. rows[i] \in Held
      BY DEF Held, Elems
    <3> QED
      BY <2>1, <3>1 DEF Faithful, Elems
  <2>3. SecretsRedacted
    <3> SUFFICES ASSUME NEW r \in Held
                 PROVE  /\ r.hash = ComputeHash(r.e, r.prev)
                        /\ \E k \in 1..Len(submitted) : JudgedFrom(r, submitted[k])
      BY DEF SecretsRedacted, JudgedFrom, Held
    <3> QED
      BY <2>1 DEF Faithful, Elems
  <2> QED
    BY <2>2, <2>3 DEF StoredFaithfully
<1> QED
  BY <1>1, InitPipe, NextPipe, PTL DEF Spec

\* No event is silently lost, and every anchor points at a row that is stored or
\* in the batch, was discarded by a crash or ignored as a duplicate, whatever is
\* submitted (flush, processEvent, InsertChainAnchor).
THEOREM NothingEverVanishes == Spec => []NothingVanishes
<1>1. ToldInv => AnchorsBacked
  BY DEF ToldInv
<1> QED
  BY <1>1, Invariants, AlwaysAccounted, PTL DEF NothingVanishes

\* Subscribers are told only of events that are committed, once each and in the
\* order of the table, but for those that were submitted twice (flush,
\* notifySubscribers).
THEOREM SubscribersAlwaysFollow == Spec => []SubscribersFollow
<1>1. PipeInv /\ ToldInv => SubscribersFollow
  <2> SUFFICES ASSUME PipeInv, ToldInv, NEW s \in Subs,
                      NEW i \in 1..Len(subs[s].seen), ~CameTwice(subs[s].seen[i].e.id)
               PROVE  \E k \in 1..Len(rows) :
                        /\ rows[k] = subs[s].seen[i]
                        /\ \A j \in 1..(i - 1) : ~CameTwice(subs[s].seen[j].e.id) =>
                             \E m \in 1..(k - 1) : rows[m] = subs[s].seen[j]
    BY DEF SubscribersFollow
  <2> DEFINE seen == subs[s].seen
  <2>1. Follows(seen, Len(seen), rows, Twice) /\ Single(rows)
    BY DEF ToldInv, SubsInv, PipeInv, LogShape
  <2> HIDE DEF seen
  <2>2. \A id : ~CameTwice(id) => id \notin Twice
    BY DEF Twice
  <2>3. /\ seen[i] \in Elems(rows)
        /\ \A j \in 1..(i - 1) : ~CameTwice(seen[j].e.id) => Earlier(rows, seen[j], seen[i])
    BY <2>1, <2>2 DEF Follows, seen
  <2>4. PICK k \in 1..Len(rows) : rows[k] = seen[i]
    BY <2>3 DEF Elems
  <2>5. ASSUME NEW j \in 1..(i - 1), ~CameTwice(seen[j].e.id)
        PROVE  \E m \in 1..(k - 1) : rows[m] = seen[j]
    <3>1. PICK n \in 1..Len(rows) : rows[n] = seen[i] /\ \E m \in 1..(n - 1) : rows[m] = seen[j]
      BY <2>3, <2>5 DEF Earlier
    <3>2. n = k
      BY <2>1, <2>4, <3>1 DEF Single
    <3> QED
      BY <3>1, <3>2
  <2> QED
    BY <2>4, <2>5 DEF seen
<1> QED
  BY <1>1, Invariants, PTL
=============================================================================
