---------------------------- MODULE LogTailProofs ---------------------------
(***************************************************************************)
(* Theorems about LogTail: wherever a half-written line, a truncation, an  *)
(* overlong line, a full channel or a crash leaves the watcher, the offset *)
(* in the id of a stored event is where its text was; an agent that        *)
(* appends whole lines is never taken to have truncated its file; and the  *)
(* committed offset never moves past an event that is neither stored nor   *)
(* dropped, if a line holds one event at most.  All of it for every agent, *)
(* any capacities and any number of crashes.  And theorems about           *)
(* LogParsers: the events of a line have ids of their own, its usage is    *)
(* counted once, its model is the one last announced to its session.       *)
(***************************************************************************)
EXTENDS LogTail, LogParsers, SequenceTheorems, FiniteSetTheorems, WellFoundedInduction, TLAPS

Byte == Nat \X Nat
TailEvent == [id : Nat \X Nat \X Seq(Byte), file : {F}, off : Nat]

TailTypes ==
  /\ world \in Worlds /\ line \in Nat \ {0} /\ truncations \in Nat
  /\ file \in Seq(Byte) /\ rest \in Seq(Byte) /\ newOffset \in Nat
  /\ offsets \in [{F} -> Nat]
  /\ parsed \in Seq(TailEvent) /\ chan \in Seq(TailEvent) /\ batch \in Seq(TailEvent)
  /\ held \in Seq(TailEvent) /\ Len(held) <= 1

IdsIn(q) == {q[i].id : i \in 1..Len(q)}
IdsTo(q, n) == {q[i].id : i \in 1..n}
OffsIn(q) == {q[i].off : i \in 1..Len(q)}

\* The ids of the events stored or on their way, and the offsets on their way.
IdsKnown == stored \cup IdsIn(batch) \cup IdsIn(chan) \cup IdsIn(held) \cup IdsIn(parsed)
OffsOnWay == OffsIn(batch) \cup OffsIn(chan) \cup OffsIn(held) \cup OffsIn(parsed)

\* By what was written, the text t was in the file from the offset at on.
Located(t, at, bytes) == \A i \in 1..Len(t) : <<at + i, t[i]>> \in bytes

\* File, unread text and every id say where something was written.
PlaceInv ==
  /\ Located(file, 0, written) /\ Located(rest, newOffset, written)
  /\ \A id \in IdsKnown : Located(id[3], id[1], written)

\* The file f is the lines 1 to n.
WholeLines(f, n) ==
  /\ Len(f) = 3 * n
  /\ \A m \in 1..n : f[3 * m - 2] = <<m, 1>> /\ f[3 * m - 1] = <<m, 2>> /\ f[3 * m] = Newline

\* The offset o is the end of one of n lines.
LineEnd(o, n) == \E m \in 0..n : o = 3 * m

\* What a regular agent wrote is whole lines, every offset is the end of one, and
\* what is left to scan is the end of what was in the file.
WholeInv ==
  /\ line <= MaxLines + 1 /\ WholeLines(file, line - 1)
  /\ LineEnd(offsets[F], line - 1)
  /\ LineEnd(newOffset, line - 1) /\ LineEnd(newOffset + Len(rest), line - 1)
  /\ \A i \in 1..Len(rest) : rest[i] = file[newOffset + i]
  /\ \A o \in OffsOnWay : LineEnd(o, line - 1)

\* The ids of the events of line n, and: those of all lines that end at o or
\* before are in S.
EventsOf(count, n) == {EventId(3 * (n - 1), k, Body(n)) : k \in 1..count[n]}
Covers(count, o, S) == \A n \in 1..Len(count) : 3 * n <= o => EventsOf(count, n) \subseteq S

\* The offset of each event in a queue covers S and the events up to it.
CoversAlong(count, q, S) ==
  \A i \in 1..Len(q) : Covers(count, q[i].off, S \cup IdsTo(q, i))

Settled == stored \cup dropped
Queued == Settled \cup IdsIn(batch) \cup IdsIn(chan)

\* At most one event in a line: an offset on its way covers only events that are
\* settled or ahead of it.
CoverInv ==
  /\ Covers(EventCount, offsets[F], Settled)
  /\ CoversAlong(EventCount, batch, Settled)
  /\ CoversAlong(EventCount, chan, Settled \cup IdsIn(batch))
  /\ held # <<>> => Covers(EventCount, held[1].off, Queued \cup IdsIn(held))
  /\ Len(parsed) <= 1 /\ (parsed # <<>> => parsed[1].off = newOffset)
  /\ pc = "scan" =>
       /\ Covers(EventCount, newOffset, Queued \cup IdsIn(held) \cup IdsIn(parsed))
       /\ held = <<>> => Covers(EventCount, newOffset, Settled \cup IdsIn(parsed))

TailInv ==
  /\ TailTypes /\ PlaceInv /\ ResetMeansTruncated
  /\ Regular => WholeInv
  /\ Regular /\ SingleEvents => CoverInv

-----------------------------------------------------------------------------
(***************************************************************************)
(* Numbers and queues                                                      *)
(***************************************************************************)

Less == {ss \in Nat \X Nat : ss[1] < ss[2]}

\* A set of numbers has a least one.
LEMMA Least ==
  ASSUME NEW T \in SUBSET Nat, T # {}
  PROVE  \E m \in T : \A n \in T : m <= n
<1>1. IsWellFoundedOn(Less, Nat)
  <2>1. OpToRel(<, Nat) = Less
    BY DEF OpToRel, Less
  <2> QED
    BY <2>1, NatLessThanWellFounded
<1>2. PICK m \in T : \A n \in T : ~(<<n, m>> \in Less)
  BY <1>1, WFMin
<1>3. \A x, y \in Nat : <<x, y>> \in Less <=> x < y
  BY DEF Less
<1>4. ASSUME NEW n \in T PROVE m <= n
  <2>1. ~(n < m) /\ m \in Nat /\ n \in Nat
    BY <1>2, <1>3
  <2> QED
    BY <2>1
<1> QED
  BY <1>4

\* Finitely many numbers have an upper bound: the first n for which the first n
\* had none would be the successor of one for which they have.
LEMMA Bounded ==
  ASSUME NEW n \in Nat, NEW f, \A i \in 1..n : f[i] \in Nat
  PROVE  \E b \in Nat : \A i \in 1..n : f[i] <= b
<1> DEFINE Bad == {k \in Nat : k <= n /\ ~\E b \in Nat : \A i \in 1..k : f[i] <= b}
<1>1. CASE Bad = {}
  <2>1. n \notin Bad
    BY <1>1
  <2> QED
    BY <2>1
<1>2. CASE Bad # {}
  <2>1. PICK k \in Bad : \A l \in Bad : k <= l
    <3>1. Bad \in SUBSET Nat
      OBVIOUS
    <3> HIDE DEF Bad
    <3> QED
      BY <1>2, <3>1, Least
  <2>2. k \in Nat /\ k <= n /\ ~\E b \in Nat : \A i \in 1..k : f[i] <= b
    BY <2>1
  <2>3. k # 0
    <3>1. ASSUME k = 0 PROVE \A i \in 1..k : f[i] <= 0
      BY <3>1
    <3> QED
      BY <2>2, <3>1
  <2>4. k - 1 \in Nat /\ k - 1 <= n /\ ~(k <= k - 1) /\ k \in 1..n
    BY <2>2, <2>3
  <2>5. k - 1 \notin Bad
    BY <2>1, <2>4
  <2>6. PICK b \in Nat : \A i \in 1..(k - 1) : f[i] <= b
    BY <2>4, <2>5
  <2>7. f[k] \in Nat
    BY <2>4
  <2>8. \A i \in 1..k : f[i] <= b + f[k]
    <3> SUFFICES ASSUME NEW i \in 1..k PROVE f[i] <= b + f[k]
      OBVIOUS
    <3>1. CASE i = k
      BY <2>7, <3>1
    <3>2. CASE i # k
      <4>1. i \in 1..(k - 1) /\ i \in 1..n
        BY <2>2, <2>4, <3>2
      <4>2. f[i] <= b /\ f[i] \in Nat
        BY <2>6, <4>1
      <4> QED
        BY <2>7, <4>2
    <3> QED
      BY <3>1, <3>2
  <2>9. b + f[k] \in Nat
    BY <2>7
  <2> QED
    BY <2>2, <2>8, <2>9
<1> QED
  BY <1>1, <1>2

\* A set of numbers with an upper bound has a greatest one.
LEMMA Greatest ==
  ASSUME NEW S \in SUBSET Nat, S # {}, NEW b \in Nat, \A s \in S : s <= b
  PROVE  \E m \in S : \A s \in S : s <= m
<1> DEFINE Up == {k \in Nat : \A s \in S : s <= k}
<1>1. Up \in SUBSET Nat /\ b \in Up
  OBVIOUS
<1>2. PICK m \in Up : \A k \in Up : m <= k
  <2> HIDE DEF Up
  <2> QED
    BY <1>1, Least
<1>3. m \in Nat /\ \A s \in S : s <= m
  BY <1>2
<1>4. m \in S
  <2> SUFFICES ASSUME m \notin S PROVE FALSE
    OBVIOUS
  <2>1. \A s \in S : s \in Nat /\ s <= m /\ s # m
    BY <1>3
  <2>2. m # 0
    <3>1. PICK s \in S : TRUE
      OBVIOUS
    <3>2. s \in Nat /\ s <= m /\ s # m
      BY <2>1, <3>1
    <3> HIDE DEF Up
    <3> QED
      BY <1>3, <3>2
  <2>3. m - 1 \in Nat /\ ~(m <= m - 1) /\ \A s \in S : s <= m - 1
    BY <1>3, <2>1, <2>2
  <2> QED
    BY <1>2, <2>3
<1> QED
  BY <1>3, <1>4

\* The database takes the highest offset of the events it commits, or keeps what
\* it has (InsertEvents).
LEMMA CommitMax ==
  ASSUME NEW q \in Seq(TailEvent), NEW n \in 1..Len(q), NEW offs \in [{F} -> Nat],
         NEW new, new = CommitOffsets(offs, [i \in 1..n |-> [e |-> q[i]]])
  PROVE  /\ new \in [{F} -> Nat]
         /\ new[F] = offs[F] \/ \E i \in 1..n : new[F] = q[i].off
<1> DEFINE taken == [i \in 1..n |-> [e |-> q[i]]]
           set == BatchOffsets(taken, F) \ {0}
<1>1. Len(q) \in Nat /\ n \in Nat /\ \A i \in 1..n : q[i] \in TailEvent
  BY LenProperties, ElementOfSeq
<1>2. \A i \in 1..n : q[i].file = F /\ q[i].off \in Nat
  BY <1>1 DEF TailEvent
<1>3. Len(taken) = n
  <2>1. taken \in Seq({[e |-> x] : x \in TailEvent})
    <3>1. taken \in [1..n -> {[e |-> x] : x \in TailEvent}]
      BY <1>1
    <3> HIDE DEF taken
    <3> QED
      BY <1>1, <3>1, SeqDef
  <2>2. DOMAIN taken = 1..n
    OBVIOUS
  <2> HIDE DEF taken
  <2> QED
    BY <1>1, <2>1, <2>2, LenProperties
<1>4. \A i \in 1..n : taken[i].e = q[i]
  OBVIOUS
<1> HIDE DEF taken
<1>5. \A o \in set : o \in Nat /\ \E i \in 1..n : o = q[i].off
  BY <1>2, <1>3, <1>4 DEF BatchOffsets
<1>6. \E b \in Nat : \A o \in set : o <= b
  <2> DEFINE f == [i \in 1..n |-> q[i].off]
  <2>1. \A i \in 1..n : f[i] \in Nat /\ f[i] = q[i].off
    BY <1>2
  <2> HIDE DEF f
  <2>2. PICK b \in Nat : \A i \in 1..n : f[i] <= b
    BY <1>1, <2>1, Bounded
  <2> HIDE DEF set
  <2> QED
    BY <1>5, <2>1, <2>2
<1>7. new = [f \in {F} |-> LET os == BatchOffsets(taken, f) \ {0}
                           IN  IF os = {} THEN offs[f] ELSE CHOOSE o \in os : \A p \in os : p <= o]
  BY DEF CommitOffsets, taken
<1>8. new[F] = IF set = {} THEN offs[F] ELSE CHOOSE o \in set : \A p \in set : p <= o
  BY <1>7
<1>9. new = [f \in {F} |-> new[f]]
  BY <1>7
<1> HIDE DEF set
<1>10. CASE set = {}
  <2>1. new[F] = offs[F] /\ new[F] \in Nat
    BY <1>8, <1>10
  <2> QED
    BY <1>9, <2>1
<1>11. CASE set # {}
  <2>1. new[F] \in set
    <3>1. \E o \in set : \A p \in set : p <= o
      BY <1>5, <1>6, <1>11, Greatest
    <3> QED
      BY <1>8, <1>11, <3>1
  <2>2. new[F] \in Nat /\ \E i \in 1..n : new[F] = q[i].off
    BY <1>5, <2>1
  <2> QED
    BY <1>9, <2>2
<1> QED
  BY <1>10, <1>11

\* What is left of a sequence after its first n elements.
LEMMA SuffixIs ==
  ASSUME NEW S, NEW q \in Seq(S), NEW n \in 0..Len(q)
  PROVE  LET r == SubSeq(q, n + 1, Len(q))
         IN  /\ r \in Seq(S) /\ Len(r) = Len(q) - n
             /\ \A i \in 1..Len(r) : r[i] = q[n + i] /\ n + i \in 1..Len(q)
<1> DEFINE r == SubSeq(q, n + 1, Len(q))
<1>1. Len(q) \in Nat /\ n \in Nat /\ n <= Len(q) /\ n + 1 \in Int
  BY LenProperties
<1>2. \A i \in (n + 1)..Len(q) : q[i] \in S
  BY <1>1, ElementOfSeq
<1>3. r \in Seq(S) /\ Len(r) = Len(q) - n
  <2>1. /\ r \in Seq(S)
        /\ Len(r) = IF n + 1 <= Len(q) THEN Len(q) - (n + 1) + 1 ELSE 0
    BY <1>1, <1>2, SubSeqProperties
  <2> HIDE DEF r
  <2> QED
    BY <1>1, <2>1
<1>4. \A i \in 1..Len(r) : r[i] = q[n + i] /\ n + i \in 1..Len(q)
  <2> SUFFICES ASSUME NEW i \in 1..Len(r) PROVE r[i] = q[n + i] /\ n + i \in 1..Len(q)
    OBVIOUS
  <2>1. i \in 1..(Len(q) - (n + 1) + 1) /\ (n + 1) + i - 1 = n + i /\ n + i \in 1..Len(q)
    BY <1>1, <1>3
  <2>2. r[i] = q[(n + 1) + i - 1]
    BY <1>1, <1>2, <2>1, SubSeqProperties
  <2> HIDE DEF r
  <2> QED
    BY <2>1, <2>2
<1> HIDE DEF r
<1> QED
  BY <1>3, <1>4 DEF r

\* The first n elements of a sequence.
LEMMA PrefixIs ==
  ASSUME NEW S, NEW q \in Seq(S), NEW n \in 0..Len(q)
  PROVE  LET r == SubSeq(q, 1, n)
         IN  r \in Seq(S) /\ Len(r) = n /\ \A i \in 1..n : r[i] = q[i] /\ i \in 1..Len(q)
<1> DEFINE r == SubSeq(q, 1, n)
<1>1. Len(q) \in Nat /\ n \in Nat /\ n <= Len(q)
  BY LenProperties
<1>2. \A i \in 1..n : q[i] \in S
  BY <1>1, ElementOfSeq
<1>3. r \in Seq(S) /\ Len(r) = n
  <2>1. r \in Seq(S) /\ Len(r) = IF 1 <= n THEN n - 1 + 1 ELSE 0
    BY <1>1, <1>2, SubSeqProperties
  <2> HIDE DEF r
  <2> QED
    BY <1>1, <2>1
<1>4. \A i \in 1..n : r[i] = q[i] /\ i \in 1..Len(q)
  <2> SUFFICES ASSUME NEW i \in 1..n PROVE r[i] = q[i] /\ i \in 1..Len(q)
    OBVIOUS
  <2>1. i \in 1..(n - 1 + 1) /\ 1 + i - 1 = i /\ i \in 1..Len(q)
    BY <1>1
  <2>2. r[i] = q[1 + i - 1]
    BY <1>1, <1>2, <2>1, SubSeqProperties
  <2> HIDE DEF r
  <2> QED
    BY <2>1, <2>2
<1> HIDE DEF r
<1> QED
  BY <1>3, <1>4 DEF r

\* What an append adds to a queue, and what taking the head removes.
LEMMA QueueAppend ==
  ASSUME NEW q \in Seq(TailEvent), NEW e \in TailEvent
  PROVE  /\ Append(q, e) \in Seq(TailEvent) /\ Len(Append(q, e)) = Len(q) + 1
         /\ \A i \in 1..Len(q) : Append(q, e)[i] = q[i]
         /\ Append(q, e)[Len(q) + 1] = e
         /\ IdsIn(Append(q, e)) = IdsIn(q) \cup {e.id}
         /\ OffsIn(Append(q, e)) = OffsIn(q) \cup {e.off}
<1> DEFINE d == Append(q, e)
<1>1. /\ Len(q) \in Nat /\ d \in Seq(TailEvent) /\ Len(d) = Len(q) + 1
      /\ (\A i \in 1..Len(q) : d[i] = q[i]) /\ d[Len(q) + 1] = e
  BY AppendProperties, LenProperties
<1>2. /\ \A i \in 1..(Len(q) + 1) : i \in 1..Len(q) \/ i = Len(q) + 1
      /\ (\A i \in 1..Len(q) : i \in 1..Len(d)) /\ Len(q) + 1 \in 1..Len(d)
  BY <1>1
<1> HIDE DEF d
<1>3. IdsIn(d) = IdsIn(q) \cup {e.id}
  BY <1>1, <1>2 DEF IdsIn
<1>4. OffsIn(d) = OffsIn(q) \cup {e.off}
  BY <1>1, <1>2 DEF OffsIn
<1> QED
  BY <1>1, <1>3, <1>4 DEF d

\* What is left of a queue, and the ids and offsets in it.
LEMMA QueueRest ==
  ASSUME NEW q \in Seq(TailEvent), NEW n \in 0..Len(q)
  PROVE  LET r == SubSeq(q, n + 1, Len(q))
         IN  /\ r \in Seq(TailEvent) /\ Len(r) = Len(q) - n
             /\ \A i \in 1..Len(r) : r[i] = q[n + i] /\ n + i \in 1..Len(q)
             /\ IdsIn(q) = IdsTo(q, n) \cup IdsIn(r)
             /\ OffsIn(r) \subseteq OffsIn(q)
<1> DEFINE r == SubSeq(q, n + 1, Len(q))
<1>1. Len(q) \in Nat /\ n \in Nat /\ n <= Len(q) /\ n + 1 \in Int
  BY LenProperties
<1>2. r \in Seq(TailEvent) /\ Len(r) = Len(q) - n
  BY SuffixIs
<1>3. \A i \in 1..Len(r) : r[i] = q[n + i] /\ n + i \in 1..Len(q)
  BY SuffixIs
<1> HIDE DEF r
<1>4. IdsIn(q) = IdsTo(q, n) \cup IdsIn(r)
  <2>1. ASSUME NEW y \in IdsIn(q) PROVE y \in IdsTo(q, n) \cup IdsIn(r)
    <3>1. PICK i \in 1..Len(q) : y = q[i].id
      BY <2>1 DEF IdsIn
    <3>2. CASE i <= n
      BY <1>1, <3>1, <3>2 DEF IdsTo
    <3>3. CASE i > n
      <4>1. i - n \in 1..Len(r) /\ n + (i - n) = i
        BY <1>1, <1>2, <3>3
      <4>2. r[i - n] = q[i]
        BY <1>3, <4>1
      <4> QED
        BY <3>1, <4>1, <4>2 DEF IdsIn
    <3> QED
      BY <1>1, <3>2, <3>3
  <2>2. IdsTo(q, n) \subseteq IdsIn(q)
    BY <1>1 DEF IdsTo, IdsIn
  <2>3. IdsIn(r) \subseteq IdsIn(q)
    BY <1>3 DEF IdsIn
  <2> QED
    BY <2>1, <2>2, <2>3
<1>5. OffsIn(r) \subseteq OffsIn(q)
  BY <1>3 DEF OffsIn
<1> QED
  BY <1>2, <1>3, <1>4, <1>5 DEF r

\* The head of a queue and the rest.
LEMMA QueueHead ==
  ASSUME NEW q \in Seq(TailEvent), q # <<>>
  PROVE  /\ Head(q) \in TailEvent /\ Head(q) = q[1] /\ Tail(q) \in Seq(TailEvent)
         /\ Len(q) \in Nat /\ Len(q) # 0 /\ Len(Tail(q)) = Len(q) - 1
         /\ \A i \in 1..Len(Tail(q)) : Tail(q)[i] = q[i + 1] /\ i + 1 \in 1..Len(q)
         /\ IdsIn(q) = {Head(q).id} \cup IdsIn(Tail(q))
         /\ Head(q).off \in OffsIn(q) /\ OffsIn(Tail(q)) \subseteq OffsIn(q)
<1> DEFINE r == Tail(q)
<1>1. /\ Len(q) \in Nat /\ Len(q) # 0 /\ Head(q) \in TailEvent /\ Head(q) = q[1]
      /\ r \in Seq(TailEvent) /\ Len(r) = Len(q) - 1
      /\ \A i \in 1..(Len(q) - 1) : r[i] = q[i + 1]
  BY HeadTailProperties, EmptySeq, LenProperties
<1>2. /\ \A i \in 1..(Len(q) - 1) : i + 1 \in 1..Len(q)
      /\ \A i \in 1..Len(q) : i = 1 \/ (i - 1 \in 1..(Len(q) - 1) /\ (i - 1) + 1 = i)
      /\ 1 \in 1..Len(q)
  BY <1>1
<1> HIDE DEF r
<1>3. \A i \in 1..Len(q) : i = 1 \/ \E k \in 1..Len(r) : q[i] = r[k]
  <2> SUFFICES ASSUME NEW i \in 1..Len(q), i # 1
               PROVE  \E k \in 1..Len(r) : q[i] = r[k]
    OBVIOUS
  <2>1. i - 1 \in 1..(Len(q) - 1) /\ (i - 1) + 1 = i
    BY <1>2
  <2> QED
    BY <1>1, <2>1
<1>4. \A k \in 1..Len(r) : r[k] = q[k + 1] /\ k + 1 \in 1..Len(q)
  BY <1>1, <1>2
<1>5. IdsIn(q) = {q[1].id} \cup IdsIn(r)
  <2>1. ASSUME NEW y \in IdsIn(q) PROVE y \in {q[1].id} \cup IdsIn(r)
    BY <1>3, <2>1 DEF IdsIn
  <2>2. ASSUME NEW y \in {q[1].id} \cup IdsIn(r) PROVE y \in IdsIn(q)
    BY <1>2, <1>4, <2>2 DEF IdsIn
  <2> QED
    BY <2>1, <2>2
<1>6. q[1].off \in OffsIn(q) /\ OffsIn(r) \subseteq OffsIn(q)
  BY <1>2, <1>4 DEF OffsIn
<1> QED
  BY <1>1, <1>4, <1>5, <1>6 DEF r

\* An empty queue and one with a single event.
LEMMA QueueSmall ==
  /\ <<>> \in Seq(TailEvent) /\ IdsIn(<<>>) = {} /\ OffsIn(<<>>) = {} /\ Len(<<>>) = 0
  /\ \A e \in TailEvent : /\ <<e>> \in Seq(TailEvent) /\ Len(<<e>>) = 1 /\ <<e>>[1] = e
                          /\ IdsIn(<<e>>) = {e.id} /\ OffsIn(<<e>>) = {e.off} /\ <<e>> # <<>>
  /\ \A q \in Seq(TailEvent) : Len(q) <= 1 /\ q # <<>> => q[1] \in TailEvent /\ q = <<q[1]>>
<1>1. <<>> \in Seq(TailEvent) /\ IdsIn(<<>>) = {} /\ OffsIn(<<>>) = {} /\ Len(<<>>) = 0
  BY EmptySeq DEF IdsIn, OffsIn
<1>2. ASSUME NEW e \in TailEvent
      PROVE  /\ <<e>> \in Seq(TailEvent) /\ Len(<<e>>) = 1 /\ <<e>>[1] = e
             /\ IdsIn(<<e>>) = {e.id} /\ OffsIn(<<e>>) = {e.off} /\ <<e>> # <<>>
  BY EmptySeq DEF IdsIn, OffsIn
<1>3. ASSUME NEW q \in Seq(TailEvent), Len(q) <= 1, q # <<>>
      PROVE  q[1] \in TailEvent /\ q = <<q[1]>>
  <2>1. Len(q) \in Nat /\ Len(q) # 0
    BY <1>3, EmptySeq, LenProperties
  <2>2. Len(q) = 1
    BY <1>3, <2>1
  <2>3. q[1] \in TailEvent
    BY <2>2, ElementOfSeq
  <2> QED
    BY <1>2, <2>2, <2>3, SeqEqual
<1> QED
  BY <1>1, <1>2, <1>3
-----------------------------------------------------------------------------
(***************************************************************************)
(* Lines                                                                   *)
(***************************************************************************)

\* scanner.Scan returns the unread text up to its first newline, or all of it.
LEMMA NextLineIs ==
  ASSUME rest \in Seq(Byte)
  PROVE  /\ NextLine \in Seq(Byte) /\ Len(NextLine) \in 0..Len(rest)
         /\ \A i \in 1..Len(NextLine) : NextLine[i] = rest[i] /\ rest[i] # Newline
         /\ \/ Len(NextLine) = Len(rest)
            \/ Len(NextLine) + 1 \in 1..Len(rest) /\ rest[Len(NextLine) + 1] = Newline
<1> DEFINE nl == {i \in 1..Len(rest) : rest[i] = Newline}
<1>0. Len(rest) \in Nat
  BY LenProperties
<1>1. NextLine = IF nl = {} THEN rest ELSE SubSeq(rest, 1, Min(nl) - 1)
  BY DEF NextLine
<1>2. CASE nl = {}
  <2>1. NextLine = rest
    BY <1>1, <1>2
  <2>2. \A i \in 1..Len(rest) : rest[i] # Newline
    BY <1>2
  <2> HIDE DEF nl
  <2> QED
    BY <1>0, <2>1, <2>2
<1>3. CASE nl # {}
  <2>1. \E m \in nl : \A i \in nl : m <= i
    <3>1. nl \in SUBSET Nat
      BY <1>0
    <3> HIDE DEF nl
    <3> QED
      BY <1>3, <3>1, Least
  <2>2. Min(nl) \in nl /\ \A i \in nl : Min(nl) <= i
    <3> HIDE DEF nl
    <3> QED
      BY <2>1 DEF Min
  <2> DEFINE m == Min(nl)
  <2>3. m \in 1..Len(rest) /\ rest[m] = Newline
    BY <2>2
  <2>4. \A i \in 1..Len(rest) : rest[i] = Newline => m <= i
    BY <2>2
  <2>5. NextLine = SubSeq(rest, 1, m - 1)
    BY <1>1, <1>3
  <2> HIDE DEF nl, m
  <2>6. m - 1 \in 0..Len(rest) /\ (m - 1) + 1 = m /\ \A i \in 1..(m - 1) : ~(m <= i)
    BY <1>0, <2>3
  <2>7. /\ NextLine \in Seq(Byte) /\ Len(NextLine) = m - 1
        /\ \A i \in 1..(m - 1) : NextLine[i] = rest[i] /\ i \in 1..Len(rest)
    BY <2>5, <2>6, PrefixIs
  <2>8. \A i \in 1..(m - 1) : rest[i] # Newline
    BY <2>4, <2>6, <2>7
  <2> QED
    BY <2>3, <2>6, <2>7, <2>8
<1> QED
  BY <1>2, <1>3

\* What ParseLineForSource makes of a text: its events have the text at the
\* offset it began in their ids, and the offset after it.
LEMMA ParseLineIs ==
  ASSUME world \in Worlds, NEW text \in Seq(Byte), NEW at \in Nat, NEW after \in Nat
  PROVE  /\ ParseLine(text, at, after) \in Seq(TailEvent)
         /\ \A id \in IdsIn(ParseLine(text, at, after)) : id[1] = at /\ id[3] = text
         /\ \A o \in OffsIn(ParseLine(text, at, after)) : o = after
<1> DEFINE whole == {n \in 1..MaxLines : text = Body(n)}
           count == IF text = <<>> THEN 0
                    ELSE IF whole = {} THEN 1
                    ELSE EventCount[CHOOSE n \in whole : TRUE]
           q == [k \in 1..count |-> [id |-> EventId(at, k, text), file |-> F, off |-> after]]
<1>1. ParseLine(text, at, after) = q
  BY DEF ParseLine
<1>2. world.count \in Seq(Nat)
  BY TailAssumption
<1>3. count \in Nat
  <2>1. ASSUME whole # {} PROVE EventCount[CHOOSE n \in whole : TRUE] \in Nat
    <3>1. (CHOOSE n \in whole : TRUE) \in 1..Len(world.count)
      BY <2>1 DEF MaxLines
    <3> HIDE DEF whole
    <3> QED
      BY <1>2, <3>1, ElementOfSeq DEF EventCount
  <2> HIDE DEF whole
  <2> QED
    BY <2>1
<1> HIDE DEF count
<1>4. \A k \in 1..count : q[k] = [id |-> <<at, k, text>>, file |-> F, off |-> after]
  BY DEF EventId
<1>5. \A k \in 1..count : q[k] \in TailEvent
  <2> SUFFICES ASSUME NEW k \in 1..count PROVE q[k] \in TailEvent
    OBVIOUS
  <2>1. k \in Nat
    BY <1>3
  <2>2. <<at, k, text>> \in Nat \X Nat \X Seq(Byte)
    BY <2>1
  <2> QED
    BY <1>4, <2>2 DEF TailEvent
<1>6. q \in Seq(TailEvent)
  <2>1. q \in [1..count -> TailEvent]
    BY <1>5
  <2> HIDE DEF q
  <2> QED
    BY <1>3, <2>1, SeqDef
<1>7. Len(q) = count
  <2>1. DOMAIN q = 1..count
    OBVIOUS
  <2> HIDE DEF q
  <2> QED
    BY <1>3, <1>6, <2>1, LenProperties
<1> HIDE DEF q
<1>8. \A id \in IdsIn(q) : id[1] = at /\ id[3] = text
  BY <1>4, <1>7 DEF IdsIn
<1>9. \A o \in OffsIn(q) : o = after
  BY <1>4, <1>7 DEF OffsIn
<1> QED
  BY <1>1, <1>6, <1>8, <1>9

\* A non-blocking send of at most one event: nothing, queued or dropped.
LEMMA SendIs ==
  ASSUME chan \in Seq(TailEvent), NEW q \in Seq(TailEvent), Len(q) <= 1, SendEvents(q)
  PROVE  \/ q = <<>> /\ chan' = chan /\ dropped' = dropped
         \/ q # <<>> /\ chan' = Append(chan, q[1]) /\ dropped' = dropped
         \/ q # <<>> /\ chan' = chan /\ dropped' = dropped \cup {q[1].id}
<1>1. CASE q = <<>>
  BY <1>1 DEF SendEvents
<1>2. CASE q # <<>>
  <2>1. q[1] \in TailEvent /\ q = <<q[1]>>
    BY <1>2, QueueSmall
  <2>2. chan \o <<q[1]>> = Append(chan, q[1])
    BY <2>1, AppendIsConcat
  <2> QED
    BY <1>2, <2>1, <2>2 DEF SendEvents
<1> QED
  BY <1>1, <1>2

\* The body of a line, and the text an agent appends for it.
LEMMA LineText ==
  ASSUME NEW n \in Nat \ {0}
  PROVE  /\ Body(n) \in Seq(Byte) /\ Len(Body(n)) = 2
         /\ Body(n)[1] = <<n, 1>> /\ Body(n)[2] = <<n, 2>>
         /\ Append(Body(n), Newline) \in Seq(Byte) /\ Len(Append(Body(n), Newline)) = 3
         /\ Append(Body(n), Newline)[1] = <<n, 1>>
         /\ Append(Body(n), Newline)[2] = <<n, 2>>
         /\ Append(Body(n), Newline)[3] = Newline
         /\ <<n, 1>> # Newline /\ <<n, 2>> # Newline
<1>1. <<n, 1>> \in Byte /\ <<n, 2>> \in Byte /\ Newline \in Byte
  BY DEF Byte, Newline
<1>2. Body(n) = <<<<n, 1>>, <<n, 2>>>>
  BY DEF Body
<1>3. Body(n) \in Seq(Byte) /\ Len(Body(n)) = 2 /\ Body(n)[1] = <<n, 1>> /\ Body(n)[2] = <<n, 2>>
  BY <1>1, <1>2
<1>4. <<n, 1>> # Newline /\ <<n, 2>> # Newline
  BY DEF Newline
<1> HIDE DEF Byte
<1>5. ASSUME NEW b \in Seq(Byte), Len(b) = 2
      PROVE  /\ Append(b, Newline) \in Seq(Byte) /\ Len(Append(b, Newline)) = 3
             /\ Append(b, Newline)[1] = b[1] /\ Append(b, Newline)[2] = b[2]
             /\ Append(b, Newline)[3] = Newline
  <2>1. /\ Append(b, Newline) \in Seq(Byte) /\ Len(Append(b, Newline)) = Len(b) + 1
        /\ \A i \in 1..Len(b) : Append(b, Newline)[i] = b[i]
        /\ Append(b, Newline)[Len(b) + 1] = Newline
    BY <1>1, AppendProperties
  <2>2. 1 \in 1..Len(b) /\ 2 \in 1..Len(b)
    BY <1>5
  <2> QED
    BY <1>5, <2>1, <2>2
<1> QED
  BY <1>3, <1>4, <1>5

\* A write appends what is missing of the line, or the beginning of that; after
\* whole lines nothing of the line is there, and a whole line is appended.
LEMMA WriteIs ==
  ASSUME TailTypes, Write
  PROVE  \E more \in Seq(Byte) :
           /\ file' = file \o more /\ file' \in Seq(Byte) /\ line' \in {line, line + 1}
           /\ Located(more, Len(file), written') /\ written \subseteq written'
           /\ world.whole /\ WholeLines(file, line - 1) =>
                more = Append(Body(line), Newline) /\ line' = line + 1 /\ line <= MaxLines
<1> DEFINE text == Append(Body(line), Newline)
           left == SubSeq(text, Partial(line) + 1, Len(text))
<1>1. line \in Nat \ {0} /\ file \in Seq(Byte) /\ Len(file) \in Nat
  BY LenProperties DEF TailTypes
<1>2. text \in Seq(Byte) /\ Len(text) = 3
  BY <1>1, LineText
<1>3. Partial(line) \in 0..Len(text)
  BY <1>2 DEF Partial
<1>4. left \in Seq(Byte) /\ Len(left) = 3 - Partial(line)
  <2> HIDE DEF text
  <2> QED
    BY <1>2, <1>3, SuffixIs
<1>5. PICK k \in 1..Len(left) :
        /\ world.whole => k = Len(left)
        /\ file' = file \o SubSeq(left, 1, k)
        /\ line' = IF k = Len(left) THEN line + 1 ELSE line
        /\ written' = written \cup {<<Len(file) + i, left[i]>> : i \in 1..k}
  <2>1. left = SubSeq(text, Partial(line) + 1, 3)
    BY <1>2
  <2>2. \E k \in 1..Len(SubSeq(text, Partial(line) + 1, 3)) :
          /\ world.whole => k = Len(SubSeq(text, Partial(line) + 1, 3))
          /\ file' = file \o SubSeq(SubSeq(text, Partial(line) + 1, 3), 1, k)
          /\ line' = IF k = Len(SubSeq(text, Partial(line) + 1, 3)) THEN line + 1 ELSE line
          /\ written' = written \cup
               {<<Len(file) + i, SubSeq(text, Partial(line) + 1, 3)[i]>> : i \in 1..k}
    BY DEF Write
  <2> HIDE DEF left
  <2> QED
    BY <2>1, <2>2
<1>6. line <= MaxLines
  BY DEF Write
<1> DEFINE more == SubSeq(left, 1, k)
<1>7. k \in 0..Len(left) /\ k \in Nat
  BY <1>2, <1>3, <1>4
<1>8. more \in Seq(Byte) /\ Len(more) = k /\ \A i \in 1..k : more[i] = left[i]
  <2> HIDE DEF left
  <2> QED
    BY <1>4, <1>7, PrefixIs
<1>9. file' = file \o more /\ file' \in Seq(Byte) /\ line' \in {line, line + 1}
  <2> HIDE DEF left
  <2>1. file' = file \o more
    BY <1>5
  <2> HIDE DEF more
  <2>2. file \o more \in Seq(Byte)
    BY <1>1, <1>8, ConcatProperties
  <2> QED
    BY <1>5, <2>1, <2>2
<1>10. Located(more, Len(file), written') /\ written \subseteq written'
  <2> HIDE DEF left, more
  <2>1. \A i \in 1..Len(more) : <<Len(file) + i, more[i]>> \in written'
    BY <1>5, <1>8
  <2> QED
    BY <1>5, <2>1 DEF Located
<1>11. ASSUME world.whole, WholeLines(file, line - 1)
       PROVE  more = text /\ line' = line + 1
  <2>1. Partial(line) = 0
    <3>1. ASSUME file # <<>> PROVE Last(file) = Newline
      <4>1. Len(file) # 0 /\ Last(file) = file[Len(file)]
        BY <1>1, <3>1, EmptySeq DEF Last
      <4>2. line - 1 \in 1..(line - 1) /\ Len(file) = 3 * (line - 1)
        BY <1>1, <1>11, <4>1 DEF WholeLines
      <4> QED
        BY <1>11, <4>1, <4>2 DEF WholeLines
    <3>2. <<line, 1>> # Newline /\ <<line, 2>> # Newline
      BY <1>1, LineText
    <3> QED
      BY <3>1, <3>2 DEF Partial
  <2>2. k = 3 /\ Len(left) = 3
    BY <1>4, <1>5, <1>11, <2>1
  <2>3. \A i \in 1..3 : left[i] = text[i]
    <3> HIDE DEF text
    <3>1. \A i \in 1..Len(left) : left[i] = text[0 + i]
      BY <1>2, <1>3, <2>1, SuffixIs
    <3> HIDE DEF left
    <3> QED
      BY <2>2, <3>1
  <2> HIDE DEF text, left, more
  <2>4. \A i \in 1..Len(more) : more[i] = text[i]
    BY <1>8, <2>2, <2>3
  <2> QED
    BY <1>2, <1>5, <1>8, <2>2, <2>4, SeqEqual
<1> HIDE DEF left, more, text
<1> QED
  BY <1>6, <1>8, <1>9, <1>10, <1>11 DEF text

-----------------------------------------------------------------------------
(***************************************************************************)
(* Types, and what is on its way                                           *)
(***************************************************************************)

\* No new id and, but for the running offset, no new offset.
NothingNew ==
  IdsKnown' \subseteq IdsKnown /\ OffsOnWay' \subseteq OffsOnWay \cup {newOffset}

\* What each action does to the types and to what is on its way: the agent ...
LEMMA AgentTypes ==
  ASSUME TailTypes, Write \/ Truncate
  PROVE  TailTypes' /\ NothingNew
<1>1. /\ world' = world /\ rest' = rest /\ newOffset' = newOffset /\ offsets' = offsets
      /\ stored' = stored /\ parsed' = parsed /\ held' = held /\ chan' = chan /\ batch' = batch
  BY DEF Write, Truncate, disk, locals
<1>2. file' \in Seq(Byte) /\ line' \in Nat \ {0}
  <2>1. CASE Write
    BY <2>1, WriteIs DEF TailTypes
  <2>2. CASE Truncate
    BY <2>2, EmptySeq DEF TailTypes, Truncate
  <2> QED
    BY <2>1, <2>2
<1>3. truncations' \in Nat
  BY DEF TailTypes, Write, Truncate
<1>4. TailTypes'
  BY <1>1, <1>2, <1>3 DEF TailTypes
<1>5. NothingNew
  BY <1>1 DEF NothingNew, IdsKnown, OffsOnWay
<1> QED
  BY <1>4, <1>5

\* ... the beginning of a scan, which reads the file from the stored offset ...
LEMMA OpenTypes ==
  ASSUME TailTypes, OpenFile
  PROVE  /\ TailTypes' /\ NothingNew
         /\ newOffset' \in 0..Len(file) /\ Len(rest') = Len(file) - newOffset'
         /\ \A i \in 1..Len(rest') : rest'[i] = file[newOffset' + i]
         /\ newOffset' = IF offsets[F] > Len(file) THEN 0 ELSE offsets[F]
<1>1. file \in Seq(Byte) /\ Len(file) \in Nat /\ offsets[F] \in Nat
  BY LenProperties DEF TailTypes
<1>2. /\ newOffset' = (IF offsets[F] > Len(file) THEN 0 ELSE offsets[F])
      /\ rest' = SubSeq(file, newOffset' + 1, Len(file))
  BY DEF OpenFile
<1>3. newOffset' \in 0..Len(file)
  BY <1>1, <1>2
<1>4. /\ rest' \in Seq(Byte) /\ Len(rest') = Len(file) - newOffset'
      /\ \A i \in 1..Len(rest') : rest'[i] = file[newOffset' + i]
  BY <1>1, <1>2, <1>3, SuffixIs
<1>5. /\ world' = world /\ file' = file /\ line' = line /\ offsets' = offsets
      /\ stored' = stored /\ truncations' = truncations
      /\ parsed' = <<>> /\ held' = <<>> /\ chan' = chan /\ batch' = batch
  BY DEF OpenFile, disk
<1>6. TailTypes'
  BY <1>1, <1>3, <1>4, <1>5, QueueSmall DEF TailTypes
<1>7. NothingNew
  BY <1>5, QueueSmall DEF NothingNew, IdsKnown, OffsOnWay
<1> QED
  BY <1>2, <1>3, <1>4, <1>6, <1>7

\* ... an event held back in place of the one sent ...
LEMMA EmitTypes ==
  ASSUME TailTypes, EmitHeld
  PROVE  TailTypes' /\ NothingNew
<1>1. /\ parsed \in Seq(TailEvent) /\ parsed # <<>> /\ held \in Seq(TailEvent) /\ Len(held) <= 1
      /\ chan \in Seq(TailEvent)
  BY DEF TailTypes, EmitHeld
<1>2. /\ world' = world /\ file' = file /\ line' = line /\ offsets' = offsets
      /\ stored' = stored /\ truncations' = truncations
      /\ rest' = rest /\ newOffset' = newOffset /\ batch' = batch
      /\ held' = <<Head(parsed)>> /\ parsed' = Tail(parsed) /\ SendEvents(held)
  BY DEF EmitHeld, disk
<1>3. /\ Head(parsed) \in TailEvent /\ Tail(parsed) \in Seq(TailEvent)
      /\ IdsIn(parsed) = {Head(parsed).id} \cup IdsIn(Tail(parsed))
      /\ Head(parsed).off \in OffsIn(parsed) /\ OffsIn(Tail(parsed)) \subseteq OffsIn(parsed)
  BY <1>1, QueueHead
<1>4. /\ held' \in Seq(TailEvent) /\ Len(held') = 1
      /\ IdsIn(held') = {Head(parsed).id} /\ OffsIn(held') = {Head(parsed).off}
  BY <1>2, <1>3, QueueSmall
<1>5. /\ chan' \in Seq(TailEvent) /\ IdsIn(chan') \subseteq IdsIn(chan) \cup IdsIn(held)
      /\ OffsIn(chan') \subseteq OffsIn(chan) \cup OffsIn(held)
  <2>1. chan' = chan \/ (held # <<>> /\ chan' = Append(chan, held[1]))
    BY <1>1, <1>2, SendIs
  <2>2. CASE chan' = chan
    BY <1>1, <2>2
  <2>3. CASE held # <<>> /\ chan' = Append(chan, held[1])
    <3>1. /\ held[1] \in TailEvent /\ IdsIn(held) = {held[1].id} /\ OffsIn(held) = {held[1].off}
      BY <1>1, <2>3, QueueSmall
    <3> QED
      BY <1>1, <2>3, <3>1, QueueAppend
  <2> QED
    BY <2>1, <2>2, <2>3
<1>6. TailTypes'
  BY <1>2, <1>3, <1>4, <1>5 DEF TailTypes
<1>7. IdsKnown' \subseteq IdsKnown
  BY <1>2, <1>3, <1>4, <1>5 DEF IdsKnown
<1>8. OffsOnWay' \subseteq OffsOnWay
  BY <1>2, <1>3, <1>4, <1>5 DEF OffsOnWay
<1> QED
  BY <1>6, <1>7, <1>8 DEF NothingNew

\* ScanLine takes a line and its newline off the unread text and parses it.
LEMMA ScanIs ==
  ASSUME TailTypes, ScanLine
  PROVE  /\ newOffset' = newOffset + Len(NextLine) + 1 /\ newOffset' \in Nat
         /\ parsed' = ParseLine(NextLine, newOffset, newOffset')
         /\ rest' \in Seq(Byte)
         /\ \/ rest' = <<>> /\ Len(NextLine) = Len(rest)
            \/ /\ Len(NextLine) + 1 \in 1..Len(rest) /\ rest[Len(NextLine) + 1] = Newline
               /\ Len(rest') = Len(rest) - (Len(NextLine) + 1)
         /\ \A i \in 1..Len(rest') :
              rest'[i] = rest[Len(NextLine) + 1 + i] /\ Len(NextLine) + 1 + i \in 1..Len(rest)
<1> DEFINE n == Len(NextLine)
<1>1. /\ rest \in Seq(Byte) /\ Len(rest) \in Nat /\ newOffset \in Nat
      /\ n \in 0..Len(rest) /\ n \in Nat
      /\ \/ n = Len(rest)
         \/ n + 1 \in 1..Len(rest) /\ rest[n + 1] = Newline
  BY NextLineIs, LenProperties DEF TailTypes
<1>2. /\ newOffset' = newOffset + n + 1 /\ rest' = SubSeq(rest, n + 2, Len(rest))
      /\ parsed' = ParseLine(NextLine, newOffset, newOffset + n + 1)
  BY DEF ScanLine
<1> HIDE DEF n
<1>3. newOffset' \in Nat /\ n + 2 = (n + 1) + 1
  BY <1>1, <1>2
<1>4. CASE n = Len(rest)
  <2>1. /\ rest' \in Seq(Byte)
        /\ Len(rest') = IF n + 2 <= Len(rest) THEN Len(rest) - (n + 2) + 1 ELSE 0
    <3>1. n + 2 \in Int /\ \A i \in (n + 2)..Len(rest) : rest[i] \in Byte
      BY <1>1, <1>4
    <3> QED
      BY <1>1, <1>2, <3>1, SubSeqProperties
  <2>2. rest' = <<>>
    BY <1>1, <1>4, <2>1, EmptySeq
  <2> QED
    BY <1>2, <1>3, <1>4, <2>1, <2>2 DEF n
<1>5. CASE n + 1 \in 1..Len(rest) /\ rest[n + 1] = Newline
  <2>1. n + 1 \in 0..Len(rest)
    BY <1>1, <1>5
  <2>2. rest' = SubSeq(rest, (n + 1) + 1, Len(rest))
    BY <1>2, <1>3
  <2>3. /\ rest' \in Seq(Byte) /\ Len(rest') = Len(rest) - (n + 1)
        /\ \A i \in 1..Len(rest') : rest'[i] = rest[(n + 1) + i] /\ (n + 1) + i \in 1..Len(rest)
    BY <1>1, <2>1, <2>2, SuffixIs
  <2> QED
    BY <1>2, <1>3, <1>5, <2>3 DEF n
<1> QED
  BY <1>1, <1>4, <1>5

\* A line scanned brings new ids, at the running offset, and the offset after it.
LEMMA ScanTypes ==
  ASSUME TailTypes, ScanLine
  PROVE  /\ TailTypes'
         /\ IdsKnown' \subseteq IdsKnown \cup IdsIn(parsed')
         /\ \A id \in IdsIn(parsed') : id[1] = newOffset /\ id[3] = NextLine
         /\ OffsOnWay' \subseteq OffsOnWay \cup {newOffset'}
<1>1. /\ world' = world /\ file' = file /\ line' = line /\ truncations' = truncations
      /\ offsets' = offsets /\ stored' = stored
      /\ held' = held /\ chan' = chan /\ batch' = batch
  BY DEF ScanLine, disk
<1>2. /\ parsed' = ParseLine(NextLine, newOffset, newOffset')
      /\ newOffset' \in Nat /\ rest' \in Seq(Byte)
  BY ScanIs
<1>3. /\ NextLine \in Seq(Byte) /\ newOffset \in Nat /\ world \in Worlds
  BY NextLineIs DEF TailTypes
<1>4. /\ parsed' \in Seq(TailEvent)
      /\ \A id \in IdsIn(parsed') : id[1] = newOffset /\ id[3] = NextLine
      /\ \A o \in OffsIn(parsed') : o = newOffset'
  BY <1>2, <1>3, ParseLineIs
<1>5. TailTypes'
  BY <1>1, <1>2, <1>4 DEF TailTypes
<1>6. IdsKnown' \subseteq IdsKnown \cup IdsIn(parsed')
  BY <1>1 DEF IdsKnown
<1>7. OffsOnWay' \subseteq OffsOnWay \cup {newOffset'}
  BY <1>1, <1>4 DEF OffsOnWay
<1> QED
  BY <1>4, <1>5, <1>6, <1>7

\* The end of a scan sends the event held back with the offset after all lines,
\* or stores that offset itself.
LEMMA FinishIs ==
  ASSUME TailTypes, FinishScan
  PROVE  /\ world' = world /\ file' = file /\ line' = line /\ truncations' = truncations
         /\ stored' = stored
         /\ newOffset' = newOffset /\ batch' = batch /\ parsed' = parsed
         /\ held' = <<>> /\ rest' = <<>> /\ parsed = <<>> /\ pc = "scan" /\ pc' = "idle"
         /\ \/ /\ held = <<>> /\ chan' = chan /\ dropped' = dropped
               /\ offsets' = offsets \/ offsets' = [offsets EXCEPT ![F] = newOffset]
            \/ /\ held # <<>> /\ offsets' = offsets
               /\ \E e \in TailEvent :
                    /\ e.id = held[1].id /\ e.off = newOffset
                    /\ \/ chan' = Append(chan, e) /\ dropped' = dropped
                       \/ chan' = chan /\ dropped' = dropped \cup {e.id}
<1>1. /\ world' = world /\ file' = file /\ line' = line /\ truncations' = truncations
      /\ stored' = stored
      /\ newOffset' = newOffset /\ batch' = batch /\ parsed' = parsed
      /\ held' = <<>> /\ rest' = <<>> /\ parsed = <<>> /\ pc = "scan" /\ pc' = "idle"
  BY DEF FinishScan, disk
<1>2. CASE held = <<>>
  BY <1>1, <1>2 DEF FinishScan
<1>3. CASE held # <<>>
  <2> DEFINE e == [held[1] EXCEPT !.off = newOffset]
  <2>1. offsets' = offsets /\ SendEvents(<<e>>)
    BY <1>3 DEF FinishScan
  <2>2. held[1] \in TailEvent /\ newOffset \in Nat
    BY <1>3, QueueSmall DEF TailTypes
  <2>3. e \in TailEvent /\ e.id = held[1].id /\ e.off = newOffset
    BY <2>2 DEF TailEvent
  <2> HIDE DEF e
  <2>4. <<e>> \in Seq(TailEvent) /\ Len(<<e>>) = 1 /\ <<e>>[1] = e /\ <<e>> # <<>>
    BY <2>3, QueueSmall
  <2>5. \/ chan' = Append(chan, <<e>>[1]) /\ dropped' = dropped
        \/ chan' = chan /\ dropped' = dropped \cup {<<e>>[1].id}
    <3>1. chan \in Seq(TailEvent) /\ Len(<<e>>) <= 1
      BY <2>4 DEF TailTypes
    <3> QED
      BY <2>1, <2>4, <3>1, SendIs
  <2> QED
    BY <1>1, <1>3, <2>1, <2>3, <2>4, <2>5
<1> QED
  BY <1>2, <1>3

\* The end of the scan.
LEMMA FinishTypes ==
  ASSUME TailTypes, FinishScan
  PROVE  TailTypes' /\ NothingNew
<1>1. /\ world' = world /\ file' = file /\ line' = line /\ truncations' = truncations
      /\ stored' = stored
      /\ newOffset' = newOffset /\ batch' = batch /\ parsed' = parsed
      /\ held' = <<>> /\ rest' = <<>>
  BY FinishIs
<1>2. /\ chan' \in Seq(TailEvent) /\ offsets' \in [{F} -> Nat]
      /\ IdsIn(chan') \subseteq IdsIn(chan) \cup IdsIn(held)
      /\ OffsIn(chan') \subseteq OffsIn(chan) \cup {newOffset}
  <2>0. /\ chan \in Seq(TailEvent) /\ offsets \in [{F} -> Nat] /\ newOffset \in Nat
        /\ held \in Seq(TailEvent) /\ Len(held) <= 1
    BY DEF TailTypes
  <2>1. CASE held = <<>>
    <3>1. chan' = chan
      BY <2>1, FinishIs
    <3>2. offsets' \in [{F} -> Nat]
      BY <2>0, <2>1, FinishIs
    <3> QED
      BY <2>0, <3>1, <3>2
  <2>2. CASE held # <<>>
    <3>1. PICK e \in TailEvent : /\ e.id = held[1].id /\ e.off = newOffset
                                 /\ chan' = Append(chan, e) \/ chan' = chan
      BY <2>2, FinishIs
    <3>2. offsets' = offsets
      BY <2>2, FinishIs
    <3>3. IdsIn(held) = {held[1].id}
      BY <2>0, <2>2, QueueSmall
    <3>4. CASE chan' = chan
      BY <2>0, <3>2, <3>4
    <3>5. CASE chan' = Append(chan, e)
      BY <2>0, <3>1, <3>2, <3>3, <3>5, QueueAppend
    <3> QED
      BY <3>1, <3>4, <3>5
  <2> QED
    BY <2>1, <2>2
<1>3. TailTypes'
  BY <1>1, <1>2, QueueSmall DEF TailTypes
<1>4. NothingNew
  <2>1. IdsKnown' \subseteq IdsKnown
    BY <1>1, <1>2, QueueSmall DEF IdsKnown
  <2>2. OffsOnWay' \subseteq OffsOnWay \cup {newOffset}
    BY <1>1, <1>2, QueueSmall DEF OffsOnWay
  <2> QED
    BY <2>1, <2>2 DEF NothingNew
<1> QED
  BY <1>3, <1>4

\* From the channel to the queue, or dropped.
LEMMA ForwardTypes ==
  ASSUME TailTypes, Forward \/ ForwardDrop
  PROVE  TailTypes' /\ NothingNew
<1>1. /\ world' = world /\ file' = file /\ line' = line /\ truncations' = truncations
      /\ offsets' = offsets /\ stored' = stored
      /\ rest' = rest /\ newOffset' = newOffset /\ parsed' = parsed /\ held' = held
      /\ chan # <<>> /\ chan' = Tail(chan)
      /\ batch' = Append(batch, Head(chan)) \/ batch' = batch
  BY DEF Forward, ForwardDrop, disk, locals
<1>2. chan \in Seq(TailEvent) /\ batch \in Seq(TailEvent)
  BY DEF TailTypes
<1>3. /\ Head(chan) \in TailEvent /\ chan' \in Seq(TailEvent)
      /\ IdsIn(chan) = {Head(chan).id} \cup IdsIn(chan')
      /\ Head(chan).off \in OffsIn(chan) /\ OffsIn(chan') \subseteq OffsIn(chan)
  BY <1>1, <1>2, QueueHead
<1>4. /\ batch' \in Seq(TailEvent) /\ IdsIn(batch') \subseteq IdsIn(batch) \cup IdsIn(chan)
      /\ OffsIn(batch') \subseteq OffsIn(batch) \cup OffsIn(chan)
  <2>1. CASE batch' = batch
    BY <1>2, <2>1
  <2>2. CASE batch' = Append(batch, Head(chan))
    BY <1>2, <1>3, <2>2, QueueAppend
  <2> QED
    BY <1>1, <2>1, <2>2
<1>5. TailTypes'
  BY <1>1, <1>3, <1>4 DEF TailTypes
<1>6. IdsKnown' \subseteq IdsKnown
  BY <1>1, <1>3, <1>4 DEF IdsKnown
<1>7. OffsOnWay' \subseteq OffsOnWay
  BY <1>1, <1>3, <1>4 DEF OffsOnWay
<1> QED
  BY <1>5, <1>6, <1>7 DEF NothingNew

\* A flush stores the first n events and takes the offset of one of them.
LEMMA FlushIs ==
  ASSUME TailTypes, Flush
  PROVE  \E n \in 1..Len(batch) :
           /\ stored' = stored \cup IdsTo(batch, n)
           /\ offsets' \in [{F} -> Nat]
           /\ offsets'[F] = offsets[F] \/ \E i \in 1..n : offsets'[F] = batch[i].off
           /\ batch' = SubSeq(batch, n + 1, Len(batch)) /\ batch' \in Seq(TailEvent)
           /\ Len(batch') = Len(batch) - n
           /\ \A i \in 1..Len(batch') : batch'[i] = batch[n + i] /\ n + i \in 1..Len(batch)
           /\ IdsIn(batch) = IdsTo(batch, n) \cup IdsIn(batch')
           /\ OffsIn(batch') \subseteq OffsIn(batch)
<1>1. PICK n \in 1..Len(batch) :
        /\ stored' = stored \cup {batch[i].id : i \in 1..n}
        /\ offsets' = CommitOffsets(offsets, [i \in 1..n |-> [e |-> batch[i]]])
        /\ batch' = SubSeq(batch, n + 1, Len(batch))
  BY DEF Flush
<1>2. batch \in Seq(TailEvent) /\ offsets \in [{F} -> Nat] /\ Len(batch) \in Nat
  BY LenProperties DEF TailTypes
<1>3. n \in 0..Len(batch)
  BY <1>2
<1>4. /\ offsets' \in [{F} -> Nat]
      /\ offsets'[F] = offsets[F] \/ \E i \in 1..n : offsets'[F] = batch[i].off
  <2> DEFINE new == CommitOffsets(offsets, [i \in 1..n |-> [e |-> batch[i]]])
  <2>1. new \in [{F} -> Nat] /\ (new[F] = offsets[F] \/ \E i \in 1..n : new[F] = batch[i].off)
    BY <1>2, CommitMax
  <2>2. offsets' = new
    BY <1>1
  <2> HIDE DEF new
  <2> QED
    BY <2>1, <2>2
<1>5. /\ batch' \in Seq(TailEvent) /\ Len(batch') = Len(batch) - n
      /\ \A i \in 1..Len(batch') : batch'[i] = batch[n + i] /\ n + i \in 1..Len(batch)
      /\ IdsIn(batch) = IdsTo(batch, n) \cup IdsIn(batch')
      /\ OffsIn(batch') \subseteq OffsIn(batch)
  BY <1>1, <1>2, <1>3, QueueRest
<1>6. stored' = stored \cup IdsTo(batch, n)
  BY <1>1 DEF IdsTo
<1> QED
  BY <1>1, <1>4, <1>5, <1>6

\* The commit of a batch.
LEMMA FlushTypes ==
  ASSUME TailTypes, Flush
  PROVE  TailTypes' /\ NothingNew
<1>1. /\ world' = world /\ file' = file /\ line' = line /\ truncations' = truncations
      /\ chan' = chan
      /\ rest' = rest /\ newOffset' = newOffset /\ parsed' = parsed /\ held' = held
  BY DEF Flush, disk, locals
<1>2. PICK n \in 1..Len(batch) :
           /\ stored' = stored \cup IdsTo(batch, n)
           /\ offsets' \in [{F} -> Nat] /\ batch' \in Seq(TailEvent)
           /\ IdsIn(batch) = IdsTo(batch, n) \cup IdsIn(batch')
           /\ OffsIn(batch') \subseteq OffsIn(batch)
  BY FlushIs
<1>3. TailTypes'
  BY <1>1, <1>2 DEF TailTypes
<1>4. IdsKnown' \subseteq IdsKnown
  BY <1>1, <1>2 DEF IdsKnown
<1>5. OffsOnWay' \subseteq OffsOnWay
  BY <1>1, <1>2 DEF OffsOnWay
<1> QED
  BY <1>3, <1>4, <1>5 DEF NothingNew

\* A crash loses all that was on its way; a restart starts with nothing.
LEMMA CrashTypes ==
  ASSUME TailTypes, Crash \/ Restart
  PROVE  TailTypes' /\ NothingNew
<1>1. /\ world' = world /\ file' = file /\ line' = line /\ truncations' = truncations
      /\ offsets' = offsets /\ stored' = stored
      /\ newOffset' = newOffset
  BY DEF Crash, Restart, disk, locals
<1>2. CASE Restart
  <2>1. rest' = rest /\ parsed' = parsed /\ held' = held /\ chan' = chan /\ batch' = batch
    BY <1>2 DEF Restart, locals
  <2>2. TailTypes'
    BY <1>1, <2>1 DEF TailTypes
  <2>3. NothingNew
    BY <1>1, <2>1 DEF NothingNew, IdsKnown, OffsOnWay
  <2> QED
    BY <2>2, <2>3
<1>3. CASE Crash
  <2>1. rest' = <<>> /\ parsed' = <<>> /\ held' = <<>> /\ chan' = <<>> /\ batch' = <<>>
    BY <1>3 DEF Crash
  <2>2. TailTypes'
    BY <1>1, <2>1, QueueSmall, EmptySeq DEF TailTypes
  <2>3. NothingNew
    BY <1>1, <2>1, QueueSmall DEF NothingNew, IdsKnown, OffsOnWay
  <2> QED
    BY <2>2, <2>3
<1> QED
  BY <1>2, <1>3

\* Types hold, whatever happens.
LEMMA InitTypes == Init => TailTypes
  BY QueueSmall, EmptySeq DEF Init, TailTypes

LEMMA NextTypes ==
  ASSUME TailTypes, [Next]_vars
  PROVE  TailTypes'
<1>1. CASE UNCHANGED vars
  BY <1>1 DEF vars, disk, locals, TailTypes
<1>2. CASE Next /\ ~UNCHANGED vars
  <2>1. CASE Tailer
    BY <2>1, OpenTypes, ScanTypes, EmitTypes, FinishTypes DEF Tailer
  <2>2. ASSUME ~Tailer PROVE TailTypes'
    BY <1>2, <2>2, AgentTypes, ForwardTypes, FlushTypes, CrashTypes DEF Next, Quiet
  <2> QED
    BY <2>1, <2>2
<1> QED
  BY <1>1, <1>2

-----------------------------------------------------------------------------
(***************************************************************************)
(* Everything is where it says                                             *)
(***************************************************************************)

\* What was written stays written.
LEMMA LocatedMore ==
  ASSUME NEW t, NEW at, NEW W, NEW X, Located(t, at, W), W \subseteq X
  PROVE  Located(t, at, X)
BY DEF Located

\* Arithmetic: an index after the first o elements is an index of the whole.
LEMMA Shift ==
  ASSUME NEW len \in Nat, NEW o \in 0..len, NEW r, r = len - o, NEW i \in 1..r
  PROVE  o + i \in 1..len /\ 0 + (o + i) = o + i
OBVIOUS

LEMMA WrittenGrows ==
  ASSUME TailTypes, Next
  PROVE  written \subseteq written'
<1>1. CASE Write
  BY <1>1, WriteIs
<1>2. CASE ~Write
  BY <1>2 DEF Next, Tailer, Truncate, OpenFile, ScanLine, EmitHeld, FinishScan, Forward,
               ForwardDrop, Flush, Crash, Restart, Quiet, vars
<1> QED
  BY <1>1, <1>2

\* The file is what was written at its place; so is what is left to scan.
LEMMA TextKept ==
  ASSUME TailTypes, PlaceInv, Next
  PROVE  Located(file', 0, written') /\ Located(rest', newOffset', written')
<1>0. Located(file, 0, written') /\ Located(rest, newOffset, written')
  BY WrittenGrows, LocatedMore DEF PlaceInv
<1>1. Located(<<>>, 0, written') /\ Located(<<>>, newOffset', written')
  BY QueueSmall DEF Located
<1>2. CASE Write
  <2>1. PICK more \in Seq(Byte) : file' = file \o more /\ Located(more, Len(file), written')
    BY <1>2, WriteIs
  <2>2. file \in Seq(Byte) /\ Len(file) \in Nat /\ Len(more) \in Nat
    BY LenProperties DEF TailTypes
  <2>3. ASSUME NEW i \in 1..Len(file') PROVE <<0 + i, file'[i]>> \in written'
    <3>1. Len(file') = Len(file) + Len(more)
      BY <2>1, <2>2, ConcatProperties
    <3>2. CASE i <= Len(file)
      <4>1. i \in 1..Len(file) /\ file'[i] = file[i]
        BY <2>1, <2>2, <2>3, <3>1, <3>2, ConcatProperties
      <4> QED
        BY <1>0, <4>1 DEF Located
    <3>3. CASE i > Len(file)
      <4>1. i - Len(file) \in 1..Len(more) /\ Len(file) + (i - Len(file)) = 0 + i
        BY <2>2, <2>3, <3>1, <3>3
      <4>2. file'[i] = more[i - Len(file)]
        BY <2>1, <2>2, <2>3, <3>1, <3>3, ConcatProperties
      <4> QED
        BY <2>1, <4>1, <4>2 DEF Located
    <3> QED
      BY <2>2, <3>2, <3>3
  <2>4. rest' = rest /\ newOffset' = newOffset
    BY <1>2 DEF Write, locals
  <2>5. Located(file', 0, written')
    BY <2>3 DEF Located
  <2> QED
    BY <1>0, <2>4, <2>5
<1>3. CASE OpenFile
  <2>1. file' = file
    BY <1>3 DEF OpenFile, disk
  <2>2. /\ newOffset' \in 0..Len(file) /\ Len(rest') = Len(file) - newOffset'
        /\ \A i \in 1..Len(rest') : rest'[i] = file[newOffset' + i]
    BY <1>3, OpenTypes
  <2>3. Len(file) \in Nat
    BY LenProperties DEF TailTypes
  <2>4. ASSUME NEW i \in 1..Len(rest') PROVE <<newOffset' + i, rest'[i]>> \in written'
    <3>0. newOffset' \in 0..Len(file) /\ Len(rest') = Len(file) - newOffset'
      BY <2>2
    <3>1. newOffset' + i \in 1..Len(file) /\ 0 + (newOffset' + i) = newOffset' + i
      BY <2>3, <3>0, Shift
    <3>2. <<0 + (newOffset' + i), file[newOffset' + i]>> \in written'
      BY <1>0, <3>1 DEF Located
    <3>3. rest'[i] = file[newOffset' + i]
      BY <2>2
    <3> QED
      BY <3>1, <3>2, <3>3
  <2>5. Located(rest', newOffset', written')
    BY <2>4 DEF Located
  <2> QED
    BY <1>0, <2>1, <2>5
<1>4. CASE ScanLine
  <2>1. file' = file
    BY <1>4 DEF ScanLine, disk
  <2>2. /\ newOffset' = newOffset + Len(NextLine) + 1
        /\ \A i \in 1..Len(rest') :
             rest'[i] = rest[Len(NextLine) + 1 + i] /\ Len(NextLine) + 1 + i \in 1..Len(rest)
        /\ rest' \in Seq(Byte)
    BY <1>4, ScanIs
  <2>3. newOffset \in Nat /\ Len(NextLine) \in Nat /\ Len(rest') \in Nat
    BY <2>2, NextLineIs, LenProperties DEF TailTypes
  <2>4. ASSUME NEW i \in 1..Len(rest') PROVE <<newOffset' + i, rest'[i]>> \in written'
    <3>1. newOffset + (Len(NextLine) + 1 + i) = newOffset' + i
      BY <2>2, <2>3, <2>4
    <3> QED
      BY <1>0, <2>2, <3>1 DEF Located
  <2>5. Located(rest', newOffset', written')
    BY <2>4 DEF Located
  <2> QED
    BY <1>0, <2>1, <2>5
<1>5. CASE EmitHeld \/ Forward \/ ForwardDrop \/ Flush \/ Restart \/ Quiet
  <2>1. file' = file /\ rest' = rest /\ newOffset' = newOffset
    BY <1>5 DEF EmitHeld, Forward, ForwardDrop, Flush, Restart, Quiet, vars, disk, locals
  <2> QED
    BY <1>0, <2>1
<1>6. CASE FinishScan \/ Crash
  <2>1. file' = file /\ rest' = <<>>
    BY <1>6 DEF FinishScan, Crash, disk
  <2> QED
    BY <1>0, <1>1, <2>1
<1>7. CASE Truncate
  <2>1. file' = <<>> /\ rest' = rest /\ newOffset' = newOffset
    BY <1>7 DEF Truncate, locals
  <2> QED
    BY <1>0, <1>1, <2>1
<1> QED
  BY <1>2, <1>3, <1>4, <1>5, <1>6, <1>7 DEF Next, Tailer

\* No action, a crash or a truncation included, disturbs where things are.
LEMMA PlaceKept ==
  ASSUME TailTypes, PlaceInv, [Next]_vars
  PROVE  PlaceInv'
<1>1. CASE UNCHANGED vars
  BY <1>1 DEF vars, disk, locals, PlaceInv, IdsKnown
<1>2. CASE Next
  <2>1. \A id \in IdsKnown : Located(id[3], id[1], written')
    BY <1>2, WrittenGrows, LocatedMore DEF PlaceInv
  <2>2. CASE ScanLine
    <3>1. /\ IdsKnown' \subseteq IdsKnown \cup IdsIn(parsed')
          /\ \A id \in IdsIn(parsed') : id[1] = newOffset /\ id[3] = NextLine
      BY <2>2, ScanTypes
    <3>2. Located(NextLine, newOffset, written')
      <4>1. /\ Len(rest) \in Nat /\ Len(NextLine) \in 0..Len(rest)
            /\ \A i \in 1..Len(NextLine) : NextLine[i] = rest[i]
        BY NextLineIs, LenProperties DEF TailTypes
      <4>2. \A i \in 1..Len(NextLine) : i \in 1..Len(rest)
        BY <4>1
      <4>3. Located(rest, newOffset, written)
        BY DEF PlaceInv
      <4>4. Located(rest, newOffset, written')
        BY <1>2, <4>3, WrittenGrows, LocatedMore
      <4> QED
        BY <4>1, <4>2, <4>4 DEF Located
    <3>3. \A id \in IdsKnown' : Located(id[3], id[1], written')
      BY <2>1, <3>1, <3>2
    <3> QED
      BY <1>2, <3>3, TextKept DEF PlaceInv
  <2>3. ASSUME ~ScanLine PROVE PlaceInv'
    <3>1. IdsKnown' \subseteq IdsKnown
      <4>1. CASE Quiet
        BY <4>1 DEF Quiet, vars, disk, locals, IdsKnown
      <4>2. ASSUME ~Quiet PROVE NothingNew
        BY <1>2, <2>3, <4>2, AgentTypes, OpenTypes, EmitTypes, FinishTypes, ForwardTypes,
           FlushTypes, CrashTypes DEF Next, Tailer
      <4> QED
        BY <4>1, <4>2 DEF NothingNew
    <3>2. \A id \in IdsKnown' : Located(id[3], id[1], written')
      BY <2>1, <3>1
    <3> QED
      BY <1>2, <3>2, TextKept DEF PlaceInv
  <2> QED
    BY <2>2, <2>3
<1> QED
  BY <1>1, <1>2

-----------------------------------------------------------------------------
(***************************************************************************)
(* Whole lines                                                             *)
(***************************************************************************)

\* Ends of lines: the beginning, the end of the file, and of a longer one.
LEMMA LineEnds ==
  ASSUME NEW n \in Nat
  PROVE  /\ LineEnd(0, n) /\ LineEnd(3 * n, n)
         /\ \A o : LineEnd(o, n) => o \in Nat /\ o <= 3 * n /\ LineEnd(o, n + 1)
<1>1. 0 \in 0..n /\ n \in 0..n /\ 0 = 3 * 0
  OBVIOUS
<1>2. LineEnd(0, n) /\ LineEnd(3 * n, n)
  BY <1>1 DEF LineEnd
<1>3. ASSUME NEW o, LineEnd(o, n)
      PROVE  o \in Nat /\ o <= 3 * n /\ LineEnd(o, n + 1)
  <2>1. PICK m \in 0..n : o = 3 * m
    BY <1>3 DEF LineEnd
  <2>2. m \in 0..(n + 1)
    OBVIOUS
  <2>3. LineEnd(o, n + 1)
    BY <2>1, <2>2 DEF LineEnd
  <2> QED
    BY <2>1, <2>3
<1> QED
  BY <1>2, <1>3

\* A line after whole lines.
LEMMA LineAdded ==
  ASSUME NEW n \in Nat, NEW f \in Seq(Byte), WholeLines(f, n)
  PROVE  /\ WholeLines(f \o Append(Body(n + 1), Newline), n + 1)
         /\ \A i \in 1..Len(f) : (f \o Append(Body(n + 1), Newline))[i] = f[i]
<1> DEFINE t == Append(Body(n + 1), Newline)
           g == f \o t
<1>1. /\ t \in Seq(Byte) /\ Len(t) = 3
      /\ t[1] = <<n + 1, 1>> /\ t[2] = <<n + 1, 2>> /\ t[3] = Newline
  <2>1. n + 1 \in Nat \ {0}
    OBVIOUS
  <2> QED
    BY <2>1, LineText
<1> HIDE DEF t
<1>2. Len(f) \in Nat /\ Len(f) = 3 * n
  BY LenProperties DEF WholeLines
<1>3. /\ Len(g) = Len(f) + Len(t)
      /\ \A i \in 1..Len(f) + Len(t) : g[i] = IF i <= Len(f) THEN f[i] ELSE t[i - Len(f)]
  BY <1>1, ConcatProperties
<1> HIDE DEF g
<1>4. \A i \in 1..Len(f) : g[i] = f[i]
  <2>1. \A i \in 1..Len(f) : i \in 1..Len(f) + Len(t) /\ i <= Len(f)
    BY <1>1, <1>2
  <2> QED
    BY <1>3, <2>1
<1>5. Len(g) = 3 * (n + 1)
  BY <1>1, <1>2, <1>3
<1>6. ASSUME NEW m \in 1..(n + 1)
      PROVE  g[3 * m - 2] = <<m, 1>> /\ g[3 * m - 1] = <<m, 2>> /\ g[3 * m] = Newline
  <2>1. CASE m <= n
    <3>1. /\ m \in 1..n
          /\ 3 * m - 2 \in 1..Len(f) /\ 3 * m - 1 \in 1..Len(f) /\ 3 * m \in 1..Len(f)
      BY <1>2, <2>1
    <3> QED
      BY <1>4, <3>1 DEF WholeLines
  <2>2. CASE m = n + 1
    <3>1. /\ 3 * m - 2 \in 1..Len(f) + Len(t) /\ ~(3 * m - 2 <= Len(f)) /\ (3 * m - 2) - Len(f) = 1
          /\ 3 * m - 1 \in 1..Len(f) + Len(t) /\ ~(3 * m - 1 <= Len(f)) /\ (3 * m - 1) - Len(f) = 2
          /\ 3 * m \in 1..Len(f) + Len(t) /\ ~(3 * m <= Len(f)) /\ 3 * m - Len(f) = 3
      BY <1>1, <1>2, <2>2
    <3>2. g[3 * m - 2] = t[1] /\ g[3 * m - 1] = t[2] /\ g[3 * m] = t[3]
      BY <1>3, <3>1
    <3> QED
      BY <1>1, <2>2, <3>2
  <2> QED
    BY <2>1, <2>2
<1> QED
  BY <1>4, <1>5, <1>6 DEF WholeLines, g, t

\* What the scanner reads of a regular agent is the next line, whole.
LEMMA NextLineWhole ==
  ASSUME TailTypes, WholeInv, rest # <<>>
  PROVE  \E m \in 1..(line - 1) :
           /\ newOffset = 3 * (m - 1) /\ NextLine = Body(m) /\ Len(NextLine) = 2
           /\ Len(rest) \in Nat /\ 3 <= Len(rest) /\ m <= MaxLines
<1>1. /\ rest \in Seq(Byte) /\ Len(rest) \in Nat /\ Len(rest) # 0
      /\ line \in Nat \ {0} /\ newOffset \in Nat
  BY EmptySeq, LenProperties DEF TailTypes
<1>2. PICK m \in 0..(line - 1) : newOffset = 3 * m
  BY DEF WholeInv, LineEnd
<1>3. PICK j \in 0..(line - 1) : newOffset + Len(rest) = 3 * j
  BY DEF WholeInv, LineEnd
<1>4. /\ m + 1 \in 1..(line - 1) /\ 3 <= Len(rest) /\ newOffset = 3 * ((m + 1) - 1)
      /\ newOffset + 1 = 3 * (m + 1) - 2 /\ newOffset + 2 = 3 * (m + 1) - 1
      /\ newOffset + 3 = 3 * (m + 1)
      /\ 1 \in 1..Len(rest) /\ 2 \in 1..Len(rest) /\ 3 \in 1..Len(rest)
  BY <1>1, <1>2, <1>3
<1>5. m + 1 <= MaxLines
  <2>1. line <= MaxLines + 1 /\ MaxLines \in Nat
    <3>1. world.count \in Seq(Nat)
      BY TailAssumption DEF TailTypes
    <3> QED
      BY <3>1, LenProperties DEF WholeInv, MaxLines
  <2> QED
    BY <1>1, <1>4, <2>1
<1>6. rest[1] = <<m + 1, 1>> /\ rest[2] = <<m + 1, 2>> /\ rest[3] = Newline
  <2>1. \A i \in 1..Len(rest) : rest[i] = file[newOffset + i]
    BY DEF WholeInv
  <2>2. /\ file[newOffset + 1] = <<m + 1, 1>> /\ file[newOffset + 2] = <<m + 1, 2>>
        /\ file[newOffset + 3] = Newline
    BY <1>4 DEF WholeInv, WholeLines
  <2> QED
    BY <1>4, <2>1, <2>2
<1>7. /\ Body(m + 1) \in Seq(Byte) /\ Len(Body(m + 1)) = 2
      /\ Body(m + 1)[1] = <<m + 1, 1>> /\ Body(m + 1)[2] = <<m + 1, 2>>
      /\ <<m + 1, 1>> # Newline /\ <<m + 1, 2>> # Newline
  <2>1. m + 1 \in Nat \ {0}
    BY <1>1
  <2> QED
    BY <2>1, LineText
<1> DEFINE n == Len(NextLine)
<1>8. /\ NextLine \in Seq(Byte) /\ n \in 0..Len(rest)
      /\ \A i \in 1..n : NextLine[i] = rest[i] /\ rest[i] # Newline
      /\ n = Len(rest) \/ (n + 1 \in 1..Len(rest) /\ rest[n + 1] = Newline)
  BY <1>1, NextLineIs
<1> HIDE DEF n
<1>9. n = 2
  <2>1. n \in Nat /\ n <= Len(rest)
    BY <1>1, <1>8
  <2>2. ~(3 <= n)
    <3>1. 3 <= n => 3 \in 1..n
      BY <2>1
    <3> QED
      BY <1>6, <1>8, <3>1
  <2>3. n # 0
    <3> SUFFICES ASSUME n = 0 PROVE FALSE
      OBVIOUS
    <3>1. n # Len(rest) /\ n + 1 = 1
      BY <1>1
    <3> QED
      BY <1>6, <1>7, <1>8, <3>1
  <2>4. n # 1
    <3> SUFFICES ASSUME n = 1 PROVE FALSE
      OBVIOUS
    <3>1. 3 <= Len(rest)
      BY <1>4
    <3>2. n # Len(rest)
      <4>1. \A k \in Nat : 3 <= k => 1 # k
        OBVIOUS
      <4> QED
        BY <1>1, <3>1, <4>1
    <3>3. n + 1 = 2
      OBVIOUS
    <3> QED
      BY <1>6, <1>7, <1>8, <3>2, <3>3
  <2> QED
    BY <2>1, <2>2, <2>3, <2>4
<1>10. NextLine = Body(m + 1)
  <2>1. 1 \in 1..n /\ 2 \in 1..n /\ \A i \in 1..n : i = 1 \/ i = 2
    BY <1>9
  <2>2. \A i \in 1..n : NextLine[i] = Body(m + 1)[i]
    BY <1>6, <1>7, <1>8, <2>1
  <2> QED
    BY <1>7, <1>8, <1>9, <2>2, SeqEqual DEF n
<1> QED
  BY <1>1, <1>4, <1>5, <1>9, <1>10 DEF n

\* An agent that is regular after a step was so before.
LEMMA RegularBefore ==
  ASSUME TailTypes, [Next]_vars, Regular'
  PROVE  Regular /\ world' = world /\ ~Truncate
<1>1. world' = world
  BY DEF Next, Tailer, Write, Truncate, OpenFile, ScanLine, EmitHeld, FinishScan, Forward,
         ForwardDrop, Flush, Crash, Restart, Quiet, vars, disk
<1>2. Truncate => truncations' # 0
  BY DEF TailTypes, Truncate
<1>3. ~Truncate => truncations' = truncations
  BY DEF Next, Tailer, Write, OpenFile, ScanLine, EmitHeld, FinishScan, Forward,
         ForwardDrop, Flush, Crash, Restart, Quiet, vars
<1> QED
  BY <1>1, <1>2, <1>3 DEF Regular

\* The file does not change, and no new offset is on its way but the running one.
LEMMA WholeSame ==
  ASSUME TailTypes, WholeInv, NothingNew,
         world' = world, line' = line, file' = file,
         offsets'[F] \in {offsets[F], newOffset} \cup OffsOnWay,
         \/ newOffset' = newOffset /\ (rest' = rest \/ rest' = <<>>)
         \/ /\ newOffset' \in 0..Len(file) /\ LineEnd(newOffset', line - 1)
            /\ Len(rest') = Len(file) - newOffset'
            /\ \A i \in 1..Len(rest') : rest'[i] = file[newOffset' + i]
  PROVE  WholeInv'
<1>1. /\ line - 1 \in Nat /\ Len(file) \in Nat /\ newOffset \in Nat
      /\ Len(file) = 3 * (line - 1)
  BY LenProperties DEF TailTypes, WholeInv, WholeLines
<1>2. \A o \in OffsOnWay' : LineEnd(o, line - 1)
  BY DEF NothingNew, WholeInv
<1>3. LineEnd(offsets'[F], line - 1)
  BY DEF WholeInv
<1>4. /\ LineEnd(newOffset', line - 1) /\ LineEnd(newOffset' + Len(rest'), line - 1)
      /\ \A i \in 1..Len(rest') : rest'[i] = file[newOffset' + i]
  <2>1. CASE newOffset' = newOffset /\ rest' = rest
    BY <2>1 DEF WholeInv
  <2>2. CASE newOffset' = newOffset /\ rest' = <<>>
    <3>1. newOffset' + Len(rest') = newOffset /\ 1..Len(rest') = {}
      BY <1>1, <2>2
    <3> QED
      BY <2>2, <3>1 DEF WholeInv
  <2>3. CASE /\ newOffset' \in 0..Len(file) /\ LineEnd(newOffset', line - 1)
             /\ Len(rest') = Len(file) - newOffset'
             /\ \A i \in 1..Len(rest') : rest'[i] = file[newOffset' + i]
    <3>1. newOffset' + Len(rest') = 3 * (line - 1)
      <4>1. newOffset' \in 0..Len(file) /\ Len(rest') = Len(file) - newOffset'
        BY <2>3
      <4> QED
        BY <1>1, <4>1
    <3>2. LineEnd(newOffset' + Len(rest'), line - 1)
      BY <1>1, <3>1, LineEnds
    <3> QED
      BY <2>3, <3>2
  <2> QED
    BY <2>1, <2>2, <2>3
<1>5. line <= MaxLines + 1 /\ WholeLines(file, line - 1)
  BY DEF WholeInv
<1> QED
  BY <1>2, <1>3, <1>4, <1>5 DEF WholeInv, MaxLines

\* A whole line more.
LEMMA WholeWrite ==
  ASSUME TailTypes, WholeInv, Write, world.whole
  PROVE  WholeInv'
<1> DEFINE n == line - 1
<1>1. /\ n \in Nat /\ n + 1 = line /\ file \in Seq(Byte) /\ Len(file) \in Nat /\ Len(file) = 3 * n
      /\ newOffset \in Nat /\ Len(rest) \in Nat /\ WholeLines(file, n)
  <2>1. /\ line \in Nat \ {0} /\ file \in Seq(Byte) /\ newOffset \in Nat /\ rest \in Seq(Byte)
    BY DEF TailTypes
  <2>2. WholeLines(file, n)
    BY DEF WholeInv
  <2>3. Len(file) = 3 * n
    BY <2>2 DEF WholeLines
  <2>4. Len(file) \in Nat /\ Len(rest) \in Nat
    BY <2>1, LenProperties
  <2>5. n \in Nat /\ n + 1 = line
    BY <2>1
  <2> QED
    BY <2>1, <2>2, <2>3, <2>4, <2>5
<1>2. /\ file' = file \o Append(Body(n + 1), Newline) /\ line' = n + 2 /\ n + 1 <= MaxLines
  <2>1. PICK more \in Seq(Byte) :
          /\ file' = file \o more
          /\ more = Append(Body(line), Newline) /\ line' = line + 1 /\ line <= MaxLines
    BY <1>1, WriteIs
  <2>2. n + 2 = line + 1
    BY <1>1
  <2> QED
    BY <1>1, <2>1, <2>2
<1>3. /\ world' = world /\ rest' = rest /\ newOffset' = newOffset /\ offsets' = offsets
      /\ parsed' = parsed /\ held' = held /\ chan' = chan /\ batch' = batch
  BY DEF Write, locals
<1>4. /\ LineEnd(offsets[F], n) /\ LineEnd(newOffset, n) /\ LineEnd(newOffset + Len(rest), n)
      /\ \A o \in OffsOnWay : LineEnd(o, n)
  BY DEF WholeInv
<1>5. line' - 1 = n + 1
  BY <1>1, <1>2
<1> HIDE DEF n
<1>6. /\ LineEnd(offsets'[F], n + 1) /\ LineEnd(newOffset', n + 1)
      /\ LineEnd(newOffset' + Len(rest'), n + 1)
  BY <1>1, <1>3, <1>4, LineEnds
<1>7. OffsOnWay' = OffsOnWay
  BY <1>3 DEF OffsOnWay
<1>8. \A o \in OffsOnWay' : LineEnd(o, n + 1)
  BY <1>1, <1>4, <1>7, LineEnds
<1>9. WholeLines(file', n + 1) /\ \A i \in 1..Len(file) : file'[i] = file[i]
  BY <1>1, <1>2, LineAdded
<1>10. ASSUME NEW i \in 1..Len(rest') PROVE rest'[i] = file'[newOffset' + i]
  <2>1. i \in 1..Len(rest)
    BY <1>3
  <2>2. newOffset + Len(rest) <= Len(file)
    BY <1>1, <1>4, LineEnds
  <2>3. newOffset + i \in 1..Len(file)
    BY <1>1, <2>1, <2>2
  <2>4. rest[i] = file[newOffset + i]
    BY <2>1 DEF WholeInv
  <2> QED
    BY <1>3, <1>9, <2>3, <2>4
<1>11. line' <= MaxLines' + 1
  <2>1. MaxLines' = MaxLines /\ MaxLines \in Nat
    <3>1. world.count \in Seq(Nat)
      BY TailAssumption DEF TailTypes
    <3> QED
      BY <1>3, <3>1, LenProperties DEF MaxLines
  <2> QED
    BY <1>1, <1>2, <2>1
<1> QED
  BY <1>5, <1>6, <1>8, <1>9, <1>10, <1>11 DEF WholeInv

\* The scanner goes from the end of a line to the end of the next.
LEMMA WholeScan ==
  ASSUME TailTypes, WholeInv, ScanLine
  PROVE  WholeInv'
<1>1. /\ world' = world /\ line' = line /\ file' = file /\ offsets' = offsets /\ rest # <<>>
  BY DEF ScanLine, disk
<1>2. PICK m \in 1..(line - 1) :
        /\ newOffset = 3 * (m - 1) /\ Len(NextLine) = 2
        /\ Len(rest) \in Nat /\ 3 <= Len(rest)
  BY <1>1, NextLineWhole
<1>3. line - 1 \in Nat /\ m \in Nat /\ m \in 0..(line - 1) /\ newOffset \in Nat
  BY <1>2 DEF TailTypes
<1>4. newOffset' = 3 * m /\ newOffset' = newOffset + 3
  <2>1. newOffset' = newOffset + Len(NextLine) + 1
    BY ScanIs
  <2> QED
    BY <1>2, <1>3, <2>1
<1>5. LineEnd(newOffset', line - 1)
  BY <1>3, <1>4 DEF LineEnd
<1>6. Len(rest') = Len(rest) - 3
  <2>1. \/ Len(NextLine) = Len(rest)
        \/ Len(rest') = Len(rest) - (Len(NextLine) + 1)
    BY ScanIs
  <2>2. \A k \in Nat : 3 <= k => 2 # k
    OBVIOUS
  <2>3. Len(NextLine) # Len(rest)
    BY <1>2, <2>2
  <2>4. Len(NextLine) + 1 = 3
    BY <1>2
  <2> QED
    BY <2>1, <2>3, <2>4
<1>7. newOffset' + Len(rest') = newOffset + Len(rest)
  BY <1>2, <1>3, <1>4, <1>6
<1>8. ASSUME NEW i \in 1..Len(rest') PROVE rest'[i] = file[newOffset' + i]
  <2>1. rest'[i] = rest[Len(NextLine) + 1 + i] /\ Len(NextLine) + 1 + i \in 1..Len(rest)
    BY ScanIs
  <2>2. i \in Nat
    BY <1>2, <1>6
  <2>3. Len(NextLine) + 1 + i = 3 + i /\ newOffset + (3 + i) = newOffset' + i
    BY <1>2, <1>3, <1>4, <2>2
  <2>4. rest[3 + i] = file[newOffset + (3 + i)]
    BY <2>1, <2>3 DEF WholeInv
  <2> QED
    BY <2>1, <2>3, <2>4
<1>9. \A o \in OffsOnWay' : LineEnd(o, line - 1)
  <2>1. OffsOnWay' \subseteq OffsOnWay \cup {newOffset'}
    BY ScanTypes
  <2> QED
    BY <1>5, <2>1 DEF WholeInv
<1>10. /\ line <= MaxLines + 1 /\ WholeLines(file, line - 1) /\ LineEnd(offsets[F], line - 1)
       /\ LineEnd(newOffset' + Len(rest'), line - 1)
  BY <1>7 DEF WholeInv
<1> QED
  BY <1>1, <1>5, <1>8, <1>9, <1>10 DEF WholeInv, MaxLines

\* A regular agent's file stays whole lines, and every offset the end of one.
LEMMA WholeKept ==
  ASSUME TailTypes, Regular => WholeInv, [Next]_vars, Regular'
  PROVE  WholeInv'
<1>1. Regular /\ WholeInv /\ world' = world /\ ~Truncate /\ world.whole
  BY RegularBefore DEF Regular
<1>2. CASE UNCHANGED vars
  BY <1>1, <1>2 DEF vars, disk, locals, WholeInv, OffsOnWay, MaxLines
<1>3. CASE Write
  BY <1>1, <1>3, WholeWrite
<1>4. CASE OpenFile
  <2>1. line' = line /\ file' = file /\ offsets' = offsets
    BY <1>4 DEF OpenFile, disk
  <2>2. /\ NothingNew /\ newOffset' \in 0..Len(file) /\ Len(rest') = Len(file) - newOffset'
        /\ \A i \in 1..Len(rest') : rest'[i] = file[newOffset' + i]
        /\ newOffset' = IF offsets[F] > Len(file) THEN 0 ELSE offsets[F]
    BY <1>4, OpenTypes
  <2>3. LineEnd(newOffset', line - 1)
    <3>1. line - 1 \in Nat
      BY DEF TailTypes
    <3> QED
      BY <1>1, <2>2, <3>1, LineEnds DEF WholeInv
  <2> QED
    BY <1>1, <2>1, <2>2, <2>3, WholeSame
<1>5. CASE ScanLine
  BY <1>1, <1>5, WholeScan
<1>6. CASE EmitHeld
  <2>1. /\ line' = line /\ file' = file /\ offsets' = offsets /\ newOffset' = newOffset
        /\ rest' = rest
    BY <1>6 DEF EmitHeld, disk
  <2> QED
    BY <1>1, <1>6, <2>1, EmitTypes, WholeSame
<1>7. CASE FinishScan
  <2>1. line' = line /\ file' = file /\ newOffset' = newOffset /\ rest' = <<>>
    BY <1>7, FinishIs
  <2>2. offsets'[F] \in {offsets[F], newOffset}
    <3>1. offsets' = offsets \/ offsets' = [offsets EXCEPT ![F] = newOffset]
      BY <1>7, FinishIs
    <3>2. offsets \in [{F} -> Nat]
      BY DEF TailTypes
    <3> QED
      BY <3>1, <3>2
  <2> QED
    BY <1>1, <1>7, <2>1, <2>2, FinishTypes, WholeSame
<1>8. CASE Forward \/ ForwardDrop
  <2>1. /\ line' = line /\ file' = file /\ offsets' = offsets /\ newOffset' = newOffset
        /\ rest' = rest
    BY <1>8 DEF Forward, ForwardDrop, disk, locals
  <2> QED
    BY <1>1, <1>8, <2>1, ForwardTypes, WholeSame
<1>9. CASE Flush
  <2>1. line' = line /\ file' = file /\ newOffset' = newOffset /\ rest' = rest
    BY <1>9 DEF Flush, disk, locals
  <2>2. offsets'[F] \in {offsets[F]} \cup OffsOnWay
    <3>1. PICK n \in 1..Len(batch) :
            offsets'[F] = offsets[F] \/ \E i \in 1..n : offsets'[F] = batch[i].off
      BY <1>9, FlushIs
    <3>2. \A i \in 1..n : i \in 1..Len(batch)
      BY LenProperties DEF TailTypes
    <3>3. offsets'[F] = offsets[F] \/ offsets'[F] \in OffsIn(batch)
      BY <3>1, <3>2 DEF OffsIn
    <3> QED
      BY <3>3 DEF OffsOnWay
  <2> QED
    BY <1>1, <1>9, <2>1, <2>2, FlushTypes, WholeSame
<1>10. CASE Crash \/ Restart
  <2>1. /\ line' = line /\ file' = file /\ offsets' = offsets /\ newOffset' = newOffset
        /\ rest' = rest \/ rest' = <<>>
    BY <1>10 DEF Crash, Restart, disk, locals
  <2> QED
    BY <1>1, <1>10, <2>1, CrashTypes, WholeSame
<1> QED
  BY <1>1, <1>2, <1>3, <1>4, <1>5, <1>6, <1>7, <1>8, <1>9, <1>10 DEF Next, Tailer, Quiet

\* With whole lines in the file the stored offset is in it, so that a file that
\* was not truncated is never read again from its beginning.
LEMMA NoReset ==
  ASSUME TailTypes, Regular => WholeInv, ResetMeansTruncated, [Next]_vars
  PROVE  ResetMeansTruncated'
<1>1. world' = world
  BY DEF Next, Tailer, Write, Truncate, OpenFile, ScanLine, EmitHeld, FinishScan, Forward,
         ForwardDrop, Flush, Crash, Restart, Quiet, vars, disk
<1>2. CASE OpenFile
  <2>1. ASSUME world.whole, truncations = 0 PROVE ~(offsets[F] > Len(file))
    <3>1. WholeInv
      BY <2>1 DEF Regular
    <3>2. line - 1 \in Nat /\ Len(file) = 3 * (line - 1) /\ LineEnd(offsets[F], line - 1)
      BY <3>1 DEF TailTypes, WholeInv, WholeLines
    <3>3. offsets[F] \in Nat /\ offsets[F] <= Len(file)
      BY <3>2, LineEnds
    <3> QED
      BY <3>2, <3>3
  <2>2. wrongReset' = (wrongReset \/ (offsets[F] > Len(file) /\ truncations = 0))
    BY <1>2 DEF OpenFile
  <2> QED
    BY <1>1, <2>1, <2>2 DEF ResetMeansTruncated
<1>3. ASSUME ~OpenFile PROVE wrongReset' = wrongReset
  BY <1>3 DEF Next, Tailer, Write, Truncate, ScanLine, EmitHeld, FinishScan, Forward,
              ForwardDrop, Flush, Crash, Restart, Quiet, vars
<1> QED
  BY <1>1, <1>2, <1>3 DEF ResetMeansTruncated

-----------------------------------------------------------------------------
(***************************************************************************)
(* What the offsets cover                                                  *)
(***************************************************************************)

\* What covers no more than S covers no more than a larger set.
LEMMA CoversMore ==
  ASSUME NEW c, NEW o, NEW S, NEW T, Covers(c, o, S), S \subseteq T
  PROVE  Covers(c, o, T)
BY DEF Covers

\* The same along a queue.
LEMMA AlongMore ==
  ASSUME NEW c, NEW q, NEW S, NEW T, CoversAlong(c, q, S), S \subseteq T
  PROVE  CoversAlong(c, q, T)
<1>1. ASSUME NEW i \in 1..Len(q) PROVE Covers(c, q[i].off, T \cup IdsTo(q, i))
  <2>1. Covers(c, q[i].off, S \cup IdsTo(q, i))
    BY DEF CoversAlong
  <2>2. S \cup IdsTo(q, i) \subseteq T \cup IdsTo(q, i)
    OBVIOUS
  <2> QED
    BY <2>1, <2>2, CoversMore
<1> QED
  BY <1>1 DEF CoversAlong

\* An event may join a queue if its offset covers no more than what is before it.
LEMMA AlongAppend ==
  ASSUME NEW c, NEW q \in Seq(TailEvent), NEW e \in TailEvent, NEW S, CoversAlong(c, q, S),
         Covers(c, e.off, S \cup IdsIn(q) \cup {e.id})
  PROVE  CoversAlong(c, Append(q, e), S)
<1> DEFINE d == Append(q, e)
<1>1. /\ Len(q) \in Nat /\ Len(d) = Len(q) + 1
      /\ \A i \in 1..Len(q) : d[i] = q[i]
      /\ d[Len(q) + 1] = e /\ IdsIn(d) = IdsIn(q) \cup {e.id}
  BY QueueAppend, LenProperties
<1> HIDE DEF d
<1>2. ASSUME NEW i \in 1..Len(d) PROVE Covers(c, d[i].off, S \cup IdsTo(d, i))
  <2>1. CASE i = Len(q) + 1
    <3>1. d[i] = e /\ i = Len(d)
      BY <1>1, <2>1
    <3>2. IdsTo(d, i) = IdsIn(q) \cup {e.id}
      <4>1. IdsTo(d, Len(d)) = IdsIn(d)
        BY DEF IdsTo, IdsIn
      <4> QED
        BY <1>1, <3>1, <4>1
    <3>3. S \cup IdsTo(d, i) = S \cup IdsIn(q) \cup {e.id}
      BY <3>2
    <3> QED
      BY <3>1, <3>3
  <2>2. CASE i # Len(q) + 1
    <3>1. i \in 1..Len(q) /\ \A j \in 1..i : j \in 1..Len(q)
      BY <1>1, <2>2
    <3>2. IdsTo(d, i) = IdsTo(q, i)
      <4>1. \A j \in 1..i : d[j] = q[j]
        BY <1>1, <3>1
      <4> QED
        BY <4>1 DEF IdsTo
    <3>3. d[i] = q[i]
      BY <1>1, <3>1
    <3> QED
      BY <3>1, <3>2, <3>3 DEF CoversAlong
  <2> QED
    BY <2>1, <2>2
<1> QED
  BY <1>2 DEF CoversAlong, d

\* A queue r that is q without its first n events.
LEMMA AlongRest ==
  ASSUME NEW c, NEW q \in Seq(TailEvent), NEW n \in 1..Len(q), NEW r \in Seq(TailEvent), NEW S,
         CoversAlong(c, q, S),
         \A i \in 1..Len(r) : r[i] = q[n + i] /\ n + i \in 1..Len(q)
  PROVE  CoversAlong(c, r, S \cup IdsTo(q, n))
<1>1. n \in Nat /\ Len(r) \in Nat /\ Len(q) \in Nat
  BY LenProperties
<1>2. ASSUME NEW i \in 1..Len(r)
      PROVE  Covers(c, r[i].off, (S \cup IdsTo(q, n)) \cup IdsTo(r, i))
  <2>1. r[i] = q[n + i] /\ n + i \in 1..Len(q)
    OBVIOUS
  <2>2. Covers(c, q[n + i].off, S \cup IdsTo(q, n + i))
    BY <2>1 DEF CoversAlong
  <2>3. ASSUME NEW y \in IdsTo(q, n + i) PROVE y \in IdsTo(q, n) \cup IdsTo(r, i)
    <3>1. PICK j \in 1..(n + i) : y = q[j].id
      BY <2>3 DEF IdsTo
    <3>2. CASE j <= n
      <4>1. j \in 1..n
        BY <1>1, <3>2
      <4> QED
        BY <3>1, <4>1 DEF IdsTo
    <3>3. CASE ~(j <= n)
      <4>1. j - n \in 1..i /\ j - n \in 1..Len(r) /\ n + (j - n) = j
        BY <1>1, <3>3
      <4>2. r[j - n] = q[j]
        BY <4>1
      <4> QED
        BY <3>1, <4>1, <4>2 DEF IdsTo
    <3> QED
      BY <3>2, <3>3
  <2>4. S \cup IdsTo(q, n + i) \subseteq (S \cup IdsTo(q, n)) \cup IdsTo(r, i)
    BY <2>3
  <2> QED
    BY <2>1, <2>2, <2>4, CoversMore
<1> QED
  BY <1>2 DEF CoversAlong

\* Taking the head of a queue: its id moves to what is before the queue.
LEMMA AlongTail ==
  ASSUME NEW c, NEW q \in Seq(TailEvent), q # <<>>, NEW S, CoversAlong(c, q, S)
  PROVE  /\ Covers(c, Head(q).off, S \cup {Head(q).id})
         /\ CoversAlong(c, Tail(q), S \cup {Head(q).id})
<1>1. /\ Head(q) = q[1] /\ Tail(q) \in Seq(TailEvent) /\ Len(q) \in Nat /\ Len(q) # 0
      /\ \A i \in 1..Len(Tail(q)) : Tail(q)[i] = q[i + 1] /\ i + 1 \in 1..Len(q)
  BY QueueHead
<1>2. 1 \in 1..Len(q)
  BY <1>1
<1>3. IdsTo(q, 1) = {Head(q).id}
  <2>1. \A i \in 1..1 : i = 1
    OBVIOUS
  <2>2. 1 \in 1..1
    OBVIOUS
  <2> QED
    BY <1>1, <2>1, <2>2 DEF IdsTo
<1>4. Covers(c, Head(q).off, S \cup {Head(q).id})
  BY <1>1, <1>2, <1>3 DEF CoversAlong
<1>5. \A i \in 1..Len(Tail(q)) : Tail(q)[i] = q[1 + i] /\ 1 + i \in 1..Len(q)
  <2> SUFFICES ASSUME NEW i \in 1..Len(Tail(q))
               PROVE  Tail(q)[i] = q[1 + i] /\ 1 + i \in 1..Len(q)
    OBVIOUS
  <2>1. i \in Int /\ 1 + i = i + 1
    OBVIOUS
  <2> QED
    BY <1>1, <2>1
<1>6. CoversAlong(c, Tail(q), S \cup IdsTo(q, 1))
  BY <1>1, <1>2, <1>5, AlongRest
<1> QED
  BY <1>3, <1>4, <1>6

\* No offset covers anything that would have to be in an empty queue.
LEMMA AlongNone == \A c, S : CoversAlong(c, <<>>, S)
BY QueueSmall DEF CoversAlong

\* A scan starts where the database says, so at an offset that is covered.
LEMMA CoverOpen ==
  ASSUME TailTypes, WholeInv, CoverInv, OpenFile
  PROVE  CoverInv'
<1>1. /\ world' = world /\ offsets' = offsets /\ stored' = stored /\ dropped' = dropped
      /\ batch' = batch /\ chan' = chan /\ held' = <<>> /\ parsed' = <<>>
  BY DEF OpenFile, disk
<1>2. EventCount' = EventCount /\ Settled' = Settled /\ Queued' = Queued
  BY <1>1 DEF EventCount, Settled, Queued
<1>3. newOffset' = offsets[F]
  <2>1. line - 1 \in Nat /\ Len(file) = 3 * (line - 1) /\ LineEnd(offsets[F], line - 1)
    BY DEF TailTypes, WholeInv, WholeLines
  <2>2. offsets[F] \in Nat /\ offsets[F] <= Len(file)
    BY <2>1, LineEnds
  <2>3. newOffset' = IF offsets[F] > Len(file) THEN 0 ELSE offsets[F]
    BY OpenTypes
  <2>4. ~(offsets[F] > Len(file))
    BY <2>1, <2>2
  <2> QED
    BY <2>3, <2>4
<1>4. /\ Covers(EventCount, newOffset', Queued \cup IdsIn(held') \cup IdsIn(parsed'))
      /\ Covers(EventCount, newOffset', Settled \cup IdsIn(parsed'))
  <2>1. Covers(EventCount, newOffset', Settled)
    BY <1>3 DEF CoverInv
  <2>2. /\ Settled \subseteq Queued \cup IdsIn(held') \cup IdsIn(parsed')
        /\ Settled \subseteq Settled \cup IdsIn(parsed')
    BY DEF Queued
  <2> QED
    BY <2>1, <2>2, CoversMore
<1>5. Len(parsed') <= 1
  BY <1>1, QueueSmall
<1>6. /\ Covers(EventCount, offsets[F], Settled) /\ CoversAlong(EventCount, batch, Settled)
      /\ CoversAlong(EventCount, chan, Settled \cup IdsIn(batch))
  BY DEF CoverInv
<1> QED
  BY <1>1, <1>2, <1>4, <1>5, <1>6 DEF CoverInv

\* A line of one event at most: its events are the ones parsed.
LEMMA ParsedAll ==
  ASSUME TailTypes, SingleEvents, NEW m \in 1..MaxLines, NEW at, at = 3 * (m - 1), NEW after
  PROVE  /\ Len(ParseLine(Body(m), at, after)) <= 1
         /\ ParseLine(Body(m), at, after) # <<>> =>
              ParseLine(Body(m), at, after)[1].off = after
         /\ EventsOf(EventCount, m) \subseteq IdsIn(ParseLine(Body(m), at, after))
<1>1. world.count \in Seq(Nat) /\ m \in Nat \ {0} /\ EventCount[m] \in 0..1
  <2>1. world.count \in Seq(Nat)
    BY TailAssumption DEF TailTypes
  <2>2. m \in 1..Len(world.count)
    BY DEF MaxLines
  <2>3. EventCount[m] \in Nat
    BY <2>1, <2>2, ElementOfSeq DEF EventCount
  <2>4. EventCount[m] <= 1
    BY DEF SingleEvents
  <2> QED
    BY <2>1, <2>2, <2>3, <2>4
<1> DEFINE whole == {n \in 1..MaxLines : Body(m) = Body(n)}
<1>2. \A n \in 1..MaxLines : Body(m) = Body(n) => n = m
  BY DEF Body
<1>3. whole = {m}
  BY <1>2
<1>4. (CHOOSE n \in whole : TRUE) = m
  BY <1>3
<1>5. Body(m) # <<>>
  BY DEF Body
<1> DEFINE q == [k \in 1..EventCount[m] |->
                   [id |-> EventId(at, k, Body(m)), file |-> F, off |-> after]]
<1>6. ParseLine(Body(m), at, after) = q
  <2>1. ParseLine(Body(m), at, after) =
          [k \in 1..(IF Body(m) = <<>> THEN 0
                     ELSE IF whole = {} THEN 1
                     ELSE EventCount[CHOOSE n \in whole : TRUE]) |->
             [id |-> EventId(at, k, Body(m)), file |-> F, off |-> after]]
    BY DEF ParseLine
  <2>2. whole # {}
    BY <1>3
  <2> HIDE DEF whole
  <2> QED
    BY <1>4, <1>5, <2>1, <2>2
<1>7. Len(q) = EventCount[m]
  <2>1. DOMAIN q = 1..EventCount[m] /\ q \in [1..EventCount[m] -> {q[k] : k \in 1..EventCount[m]}]
    OBVIOUS
  <2> HIDE DEF q
  <2>2. q \in Seq({q[k] : k \in 1..EventCount[m]})
    BY <1>1, <2>1, SeqDef
  <2> QED
    BY <1>1, <2>1, <2>2, LenProperties
<1>8. q # <<>> => q[1].off = after
  <2> SUFFICES ASSUME EventCount[m] = 1 PROVE q[1].off = after
    <3> HIDE DEF q
    <3>1. q # <<>> => EventCount[m] # 0
      <4>1. DOMAIN q = 1..EventCount[m]
        BY DEF q
      <4>2. EventCount[m] = 0 => DOMAIN q = {}
        BY <4>1
      <4>3. DOMAIN q = {} => q = <<>>
        <5>1. q = [k \in DOMAIN q |-> q[k]]
          BY DEF q
        <5> QED
          BY <5>1
      <4> QED
        BY <4>2, <4>3
    <3> QED
      BY <1>1, <3>1
  <2> QED
    OBVIOUS
<1>9. EventsOf(EventCount, m) \subseteq IdsIn(q)
  <2>1. \A k \in 1..EventCount[m] : q[k].id = EventId(3 * (m - 1), k, Body(m))
    OBVIOUS
  <2> HIDE DEF q
  <2> QED
    BY <1>7, <2>1 DEF EventsOf, IdsIn
<1> HIDE DEF q
<1> QED
  BY <1>1, <1>6, <1>7, <1>8, <1>9

\* The offset after a line covers that line, whose event is the one parsed.
LEMMA CoverScan ==
  ASSUME TailTypes, WholeInv, CoverInv, SingleEvents, ScanLine
  PROVE  CoverInv'
<1>1. /\ world' = world /\ offsets' = offsets /\ stored' = stored /\ dropped' = dropped
      /\ batch' = batch /\ chan' = chan /\ held' = held /\ pc = "scan"
      /\ parsed = <<>> /\ rest # <<>>
  BY DEF ScanLine, disk
<1>2. EventCount' = EventCount /\ Settled' = Settled /\ Queued' = Queued
  BY <1>1 DEF EventCount, Settled, Queued
<1>3. PICK m \in 1..(line - 1) :
        /\ newOffset = 3 * (m - 1) /\ NextLine = Body(m) /\ Len(NextLine) = 2 /\ m <= MaxLines
  BY <1>1, NextLineWhole
<1>4. m \in 1..MaxLines /\ m \in Nat
  <2>1. world.count \in Seq(Nat)
    BY TailAssumption DEF TailTypes
  <2>2. MaxLines \in Nat /\ line - 1 \in Nat
    BY <2>1, LenProperties DEF TailTypes, MaxLines
  <2> QED
    BY <1>3, <2>2
<1>5. newOffset' = 3 * m /\ parsed' = ParseLine(Body(m), newOffset, newOffset')
  <2>1. /\ newOffset' = newOffset + Len(NextLine) + 1
        /\ parsed' = ParseLine(NextLine, newOffset, newOffset')
    BY ScanIs
  <2> QED
    BY <1>3, <1>4, <2>1
<1>6. /\ Len(parsed') <= 1 /\ (parsed' # <<>> => parsed'[1].off = newOffset')
      /\ EventsOf(EventCount, m) \subseteq IdsIn(parsed')
  BY <1>3, <1>4, <1>5, ParsedAll
<1>7. ASSUME NEW S, Covers(EventCount, newOffset, S)
      PROVE  Covers(EventCount, newOffset', S \cup IdsIn(parsed'))
  <2>1. ASSUME NEW n \in 1..Len(EventCount), 3 * n <= newOffset'
        PROVE  EventsOf(EventCount, n) \subseteq S \cup IdsIn(parsed')
    <3>1. CASE n = m
      BY <1>6, <3>1
    <3>2. CASE n # m
      <4>1. n \in Nat
        BY <2>1
      <4>2. 3 * n <= newOffset
        <5>1. 3 * n <= 3 * m
          BY <1>5, <2>1
        <5>2. n <= m - 1
          BY <1>4, <3>2, <4>1, <5>1
        <5> QED
          BY <1>3, <1>4, <4>1, <5>2
      <4> QED
        BY <1>7, <2>1, <4>2 DEF Covers
    <3> QED
      BY <3>1, <3>2
  <2> QED
    BY <2>1 DEF Covers
<1>8. IdsIn(parsed) = {}
  BY <1>1, QueueSmall
<1>9. Covers(EventCount, newOffset', Queued \cup IdsIn(held) \cup IdsIn(parsed'))
  <2>1. Covers(EventCount, newOffset, Queued \cup IdsIn(held))
    BY <1>1, <1>8 DEF CoverInv
  <2> QED
    BY <1>7, <2>1
<1>10. held = <<>> => Covers(EventCount, newOffset', Settled \cup IdsIn(parsed'))
  <2>1. held = <<>> => Covers(EventCount, newOffset, Settled)
    BY <1>1, <1>8 DEF CoverInv
  <2> QED
    BY <1>7, <2>1
<1>11. /\ Covers(EventCount, offsets[F], Settled) /\ CoversAlong(EventCount, batch, Settled)
       /\ CoversAlong(EventCount, chan, Settled \cup IdsIn(batch))
       /\ held # <<>> => Covers(EventCount, held[1].off, Queued \cup IdsIn(held))
  BY DEF CoverInv
<1> QED
  BY <1>1, <1>2, <1>6, <1>9, <1>10, <1>11 DEF CoverInv

\* The event held back goes to the channel behind all that its offset covers.
LEMMA CoverEmit ==
  ASSUME TailTypes, CoverInv, EmitHeld
  PROVE  CoverInv'
<1>1. /\ world' = world /\ offsets' = offsets /\ stored' = stored /\ batch' = batch
      /\ newOffset' = newOffset /\ pc = "scan" /\ parsed # <<>>
      /\ held' = <<Head(parsed)>> /\ parsed' = Tail(parsed) /\ SendEvents(held)
  BY DEF EmitHeld, disk
<1>2. /\ chan \in Seq(TailEvent) /\ held \in Seq(TailEvent) /\ Len(held) <= 1
      /\ parsed \in Seq(TailEvent) /\ Len(parsed) <= 1
  BY DEF TailTypes, CoverInv
<1>3. /\ Head(parsed) \in TailEvent /\ Head(parsed).off = newOffset
      /\ IdsIn(parsed) = {Head(parsed).id} /\ parsed' = <<>>
  <2>1. /\ Head(parsed) \in TailEvent /\ Head(parsed) = parsed[1] /\ Tail(parsed) \in Seq(TailEvent)
        /\ Len(parsed) \in Nat /\ Len(parsed) # 0 /\ Len(Tail(parsed)) = Len(parsed) - 1
        /\ IdsIn(parsed) = {Head(parsed).id} \cup IdsIn(Tail(parsed))
    BY <1>1, <1>2, QueueHead
  <2>2. Len(Tail(parsed)) = 0
    BY <1>2, <2>1
  <2>3. Tail(parsed) = <<>> /\ IdsIn(Tail(parsed)) = {}
    BY <2>1, <2>2, EmptySeq, QueueSmall
  <2>4. parsed[1].off = newOffset
    BY <1>1 DEF CoverInv
  <2> QED
    BY <1>1, <2>1, <2>3, <2>4
<1>4. /\ held' # <<>> /\ held'[1].off = newOffset /\ IdsIn(held') = {Head(parsed).id}
      /\ parsed' = <<>> /\ IdsIn(parsed') = {} /\ Len(parsed') <= 1
  <2>1. held' # <<>> /\ held'[1] = Head(parsed) /\ IdsIn(held') = {Head(parsed).id}
    BY <1>1, <1>3, QueueSmall
  <2>2. IdsIn(parsed') = {} /\ Len(parsed') <= 1
    BY <1>3, QueueSmall
  <2> QED
    BY <1>3, <2>1, <2>2
<1>5. EventCount' = EventCount
  BY <1>1 DEF EventCount
<1>6. /\ Settled \subseteq Settled' /\ Queued \cup IdsIn(held) \subseteq Queued'
      /\ CoversAlong(EventCount, chan', Settled \cup IdsIn(batch))
  <2>0. CoversAlong(EventCount, chan, Settled \cup IdsIn(batch))
    BY DEF CoverInv
  <2>1. CASE held = <<>> /\ chan' = chan /\ dropped' = dropped
    <3>1. IdsIn(held) = {}
      BY <2>1, QueueSmall
    <3> QED
      BY <1>1, <2>0, <2>1, <3>1 DEF Settled, Queued
  <2>2. ASSUME held # <<>> PROVE held[1] \in TailEvent /\ IdsIn(held) = {held[1].id}
    BY <1>2, <2>2, QueueSmall
  <2>3. CASE held # <<>> /\ chan' = Append(chan, held[1]) /\ dropped' = dropped
    <3>1. IdsIn(chan') = IdsIn(chan) \cup {held[1].id}
      BY <1>2, <2>2, <2>3, QueueAppend
    <3>2. Settled \cup IdsIn(batch) \cup IdsIn(chan) \cup {held[1].id} = Queued \cup IdsIn(held)
      BY <2>2, <2>3 DEF Queued
    <3>3. Covers(EventCount, held[1].off,
                 (Settled \cup IdsIn(batch)) \cup IdsIn(chan) \cup {held[1].id})
      BY <2>3, <3>2 DEF CoverInv
    <3>4. CoversAlong(EventCount, chan', Settled \cup IdsIn(batch))
      BY <1>2, <2>0, <2>2, <2>3, <3>3, AlongAppend
    <3> QED
      BY <1>1, <2>2, <2>3, <3>1, <3>4 DEF Settled, Queued
  <2>4. CASE held # <<>> /\ chan' = chan /\ dropped' = dropped \cup {held[1].id}
    BY <1>1, <2>0, <2>2, <2>4 DEF Settled, Queued
  <2> QED
    BY <1>1, <1>2, <2>1, <2>3, <2>4, SendIs
<1>7. /\ Covers(EventCount, offsets'[F], Settled')
      /\ CoversAlong(EventCount, batch', Settled')
      /\ CoversAlong(EventCount, chan', Settled' \cup IdsIn(batch'))
  <2>1. Covers(EventCount, offsets[F], Settled) /\ CoversAlong(EventCount, batch, Settled)
    BY DEF CoverInv
  <2>2. Settled \cup IdsIn(batch) \subseteq Settled' \cup IdsIn(batch')
    BY <1>1, <1>6
  <2>3. Covers(EventCount, offsets'[F], Settled')
    BY <1>1, <1>6, <2>1, CoversMore
  <2>4. CoversAlong(EventCount, batch', Settled')
    BY <1>1, <1>6, <2>1, AlongMore
  <2>5. CoversAlong(EventCount, chan', Settled' \cup IdsIn(batch'))
    BY <1>6, <2>2, AlongMore
  <2> QED
    BY <2>3, <2>4, <2>5
<1>8. Covers(EventCount, newOffset, Queued' \cup IdsIn(held'))
  <2>1. Covers(EventCount, newOffset, Queued \cup IdsIn(held) \cup IdsIn(parsed))
    BY <1>1 DEF CoverInv
  <2>2. Queued \cup IdsIn(held) \cup IdsIn(parsed) \subseteq Queued' \cup IdsIn(held')
    BY <1>3, <1>4, <1>6
  <2> QED
    BY <2>1, <2>2, CoversMore
<1>9. Queued' \cup IdsIn(held') \cup IdsIn(parsed') = Queued' \cup IdsIn(held')
  BY <1>4
<1> QED
  BY <1>1, <1>4, <1>5, <1>7, <1>8, <1>9 DEF CoverInv

\* The last event takes the running offset; without one all before it is settled.
LEMMA CoverFinish ==
  ASSUME TailTypes, CoverInv, FinishScan
  PROVE  CoverInv'
<1>1. /\ world' = world /\ stored' = stored /\ batch' = batch /\ held' = <<>>
      /\ parsed' = <<>> /\ parsed = <<>> /\ pc = "scan" /\ pc' = "idle"
  BY FinishIs
<1>2. EventCount' = EventCount /\ Len(parsed') <= 1 /\ IdsIn(parsed) = {}
  BY <1>1, QueueSmall DEF EventCount
<1>3. /\ offsets \in [{F} -> Nat] /\ chan \in Seq(TailEvent)
      /\ held \in Seq(TailEvent) /\ Len(held) <= 1
  BY DEF TailTypes
<1>4. /\ Covers(EventCount, offsets[F], Settled) /\ CoversAlong(EventCount, batch, Settled)
      /\ CoversAlong(EventCount, chan, Settled \cup IdsIn(batch))
      /\ Covers(EventCount, newOffset, Queued \cup IdsIn(held))
      /\ held = <<>> => Covers(EventCount, newOffset, Settled)
  BY <1>1, <1>2 DEF CoverInv
<1>5. /\ Settled \subseteq Settled' /\ Covers(EventCount, offsets'[F], Settled)
      /\ CoversAlong(EventCount, chan', Settled \cup IdsIn(batch))
  <2>1. CASE held = <<>>
    <3>1. /\ chan' = chan /\ dropped' = dropped
          /\ offsets' = offsets \/ offsets' = [offsets EXCEPT ![F] = newOffset]
      BY <2>1, FinishIs
    <3>2. offsets'[F] = offsets[F] \/ offsets'[F] = newOffset
      BY <1>3, <3>1
    <3>3. Covers(EventCount, offsets'[F], Settled)
      BY <1>4, <2>1, <3>2
    <3> QED
      BY <1>1, <1>4, <3>1, <3>3 DEF Settled
  <2>2. CASE held # <<>>
    <3>1. offsets' = offsets
      BY <2>2, FinishIs
    <3>2. PICK e \in TailEvent :
            /\ e.id = held[1].id /\ e.off = newOffset
            /\ \/ chan' = Append(chan, e) /\ dropped' = dropped
               \/ chan' = chan /\ dropped' = dropped \cup {e.id}
      BY <2>2, FinishIs
    <3>3. IdsIn(held) = {e.id}
      BY <1>3, <2>2, <3>2, QueueSmall
    <3>4. Settled \subseteq Settled'
      BY <1>1, <3>2 DEF Settled
    <3>5. CoversAlong(EventCount, Append(chan, e), Settled \cup IdsIn(batch))
      <4>1. (Settled \cup IdsIn(batch)) \cup IdsIn(chan) \cup {e.id} = Queued \cup IdsIn(held)
        BY <3>3 DEF Queued
      <4>2. Covers(EventCount, e.off, (Settled \cup IdsIn(batch)) \cup IdsIn(chan) \cup {e.id})
        BY <1>4, <3>2, <4>1
      <4> QED
        BY <1>3, <1>4, <4>2, AlongAppend
    <3> QED
      BY <1>4, <3>1, <3>2, <3>4, <3>5
  <2> QED
    BY <2>1, <2>2
<1>6. /\ Covers(EventCount, offsets'[F], Settled')
      /\ CoversAlong(EventCount, batch', Settled')
      /\ CoversAlong(EventCount, chan', Settled' \cup IdsIn(batch'))
  <2>1. Settled \cup IdsIn(batch) \subseteq Settled' \cup IdsIn(batch')
    BY <1>1, <1>5
  <2>2. Covers(EventCount, offsets'[F], Settled')
    BY <1>5, CoversMore
  <2>3. CoversAlong(EventCount, batch', Settled')
    BY <1>1, <1>4, <1>5, AlongMore
  <2>4. CoversAlong(EventCount, chan', Settled' \cup IdsIn(batch'))
    BY <1>5, <2>1, AlongMore
  <2> QED
    BY <2>2, <2>3, <2>4
<1> QED
  BY <1>1, <1>2, <1>6 DEF CoverInv

\* What the tailer holds is covered by more, when nothing is lost.
LEMMA CoverHeld ==
  ASSUME CoverInv, EventCount' = EventCount, pc' = pc, held' = held, parsed' = parsed,
         newOffset' = newOffset,
         offsets'[F] = offsets[F] \/ Covers(EventCount, offsets'[F], Settled'),
         Settled \subseteq Settled', Queued \subseteq Queued',
         CoversAlong(EventCount, batch', Settled'),
         CoversAlong(EventCount, chan', Settled' \cup IdsIn(batch'))
  PROVE  CoverInv'
<1>1. Covers(EventCount, offsets'[F], Settled')
  <2>1. Covers(EventCount, offsets[F], Settled')
    BY CoversMore DEF CoverInv
  <2> QED
    BY <2>1
<1>2. held # <<>> => Covers(EventCount, held[1].off, Queued' \cup IdsIn(held))
  <2>1. Queued \cup IdsIn(held) \subseteq Queued' \cup IdsIn(held)
    OBVIOUS
  <2> QED
    BY <2>1, CoversMore DEF CoverInv
<1>3. pc = "scan" => Covers(EventCount, newOffset, Queued' \cup IdsIn(held) \cup IdsIn(parsed))
  <2>1. Queued \cup IdsIn(held) \cup IdsIn(parsed)
          \subseteq Queued' \cup IdsIn(held) \cup IdsIn(parsed)
    OBVIOUS
  <2> QED
    BY <2>1, CoversMore DEF CoverInv
<1>4. pc = "scan" /\ held = <<>> => Covers(EventCount, newOffset, Settled' \cup IdsIn(parsed))
  <2>1. Settled \cup IdsIn(parsed) \subseteq Settled' \cup IdsIn(parsed)
    OBVIOUS
  <2> QED
    BY <2>1, CoversMore DEF CoverInv
<1>5. Len(parsed) <= 1 /\ (parsed # <<>> => parsed[1].off = newOffset)
  BY DEF CoverInv
<1> QED
  BY <1>1, <1>2, <1>3, <1>4, <1>5 DEF CoverInv

\* The queue takes the head of the channel, or it is dropped and so settled.
LEMMA CoverForward ==
  ASSUME TailTypes, CoverInv, Forward \/ ForwardDrop
  PROVE  CoverInv'
<1>1. /\ world' = world /\ offsets' = offsets /\ stored' = stored /\ pc' = pc
      /\ newOffset' = newOffset /\ parsed' = parsed /\ held' = held
      /\ chan # <<>> /\ chan' = Tail(chan)
      /\ \/ batch' = Append(batch, Head(chan)) /\ dropped' = dropped
         \/ batch' = batch /\ dropped' = dropped \cup {Head(chan).id}
  BY DEF Forward, ForwardDrop, disk, locals
<1>2. chan \in Seq(TailEvent) /\ batch \in Seq(TailEvent) /\ EventCount' = EventCount
  BY <1>1 DEF TailTypes, EventCount
<1>3. Head(chan) \in TailEvent /\ IdsIn(chan) = {Head(chan).id} \cup IdsIn(chan')
  BY <1>1, <1>2, QueueHead
<1>4. /\ Covers(EventCount, Head(chan).off, (Settled \cup IdsIn(batch)) \cup {Head(chan).id})
      /\ CoversAlong(EventCount, chan', (Settled \cup IdsIn(batch)) \cup {Head(chan).id})
  <2>1. CoversAlong(EventCount, chan, Settled \cup IdsIn(batch))
    BY DEF CoverInv
  <2> QED
    BY <1>1, <1>2, <2>1, AlongTail
<1>5. CoversAlong(EventCount, batch, Settled)
  BY DEF CoverInv
<1>6. /\ Settled \subseteq Settled' /\ CoversAlong(EventCount, batch', Settled')
      /\ Settled' \cup IdsIn(batch') = (Settled \cup IdsIn(batch)) \cup {Head(chan).id}
  <2>1. CASE batch' = Append(batch, Head(chan)) /\ dropped' = dropped
    <3>1. IdsIn(batch') = IdsIn(batch) \cup {Head(chan).id} /\ Settled' = Settled
      BY <1>1, <1>2, <1>3, <2>1, QueueAppend DEF Settled
    <3>2. CoversAlong(EventCount, batch', Settled)
      BY <1>2, <1>3, <1>4, <1>5, <2>1, AlongAppend
    <3>3. Settled' \cup IdsIn(batch') = (Settled \cup IdsIn(batch)) \cup {Head(chan).id}
      BY <3>1
    <3> QED
      BY <3>1, <3>2, <3>3
  <2>2. CASE batch' = batch /\ dropped' = dropped \cup {Head(chan).id}
    <3>1. Settled' = Settled \cup {Head(chan).id}
      BY <1>1, <2>2 DEF Settled
    <3>2. CoversAlong(EventCount, batch', Settled')
      BY <1>5, <2>2, <3>1, AlongMore
    <3>3. Settled' \cup IdsIn(batch') = (Settled \cup IdsIn(batch)) \cup {Head(chan).id}
      BY <2>2, <3>1
    <3> QED
      BY <3>1, <3>2, <3>3
  <2> QED
    BY <1>1, <2>1, <2>2
<1>7. CoversAlong(EventCount, chan', Settled' \cup IdsIn(batch'))
  BY <1>4, <1>6
<1>8. Queued \subseteq Queued'
  BY <1>3, <1>6 DEF Queued
<1> QED
  BY <1>1, <1>2, <1>6, <1>7, <1>8, CoverHeld

\* A transaction stores the events up to n, and an offset that covers no more.
LEMMA CoverFlush ==
  ASSUME TailTypes, CoverInv, Flush
  PROVE  CoverInv'
<1>1. /\ world' = world /\ pc' = pc /\ chan' = chan /\ dropped' = dropped
      /\ newOffset' = newOffset /\ parsed' = parsed /\ held' = held
  BY DEF Flush, disk, locals
<1>2. batch \in Seq(TailEvent) /\ Len(batch) \in Nat /\ EventCount' = EventCount
  BY <1>1, LenProperties DEF TailTypes, EventCount
<1>3. PICK n \in 1..Len(batch) :
           /\ stored' = stored \cup IdsTo(batch, n)
           /\ offsets'[F] = offsets[F] \/ \E i \in 1..n : offsets'[F] = batch[i].off
           /\ batch' \in Seq(TailEvent)
           /\ \A i \in 1..Len(batch') : batch'[i] = batch[n + i] /\ n + i \in 1..Len(batch)
           /\ IdsIn(batch) = IdsTo(batch, n) \cup IdsIn(batch')
  BY FlushIs
<1>4. Settled' = Settled \cup IdsTo(batch, n)
  BY <1>1, <1>3 DEF Settled
<1>5. CoversAlong(EventCount, batch, Settled)
  BY DEF CoverInv
<1>6. CoversAlong(EventCount, batch', Settled')
  <2>1. CoversAlong(EventCount, batch', Settled \cup IdsTo(batch, n))
    BY <1>2, <1>3, <1>5, AlongRest
  <2> QED
    BY <1>4, <2>1
<1>7. offsets'[F] = offsets[F] \/ Covers(EventCount, offsets'[F], Settled')
  <2>1. ASSUME NEW i \in 1..n, offsets'[F] = batch[i].off
        PROVE  Covers(EventCount, offsets'[F], Settled')
    <3>1. i \in 1..Len(batch) /\ \A j \in 1..i : j \in 1..n
      BY <1>2
    <3>2. Covers(EventCount, batch[i].off, Settled \cup IdsTo(batch, i))
      BY <1>5, <3>1 DEF CoversAlong
    <3>3. IdsTo(batch, i) \subseteq IdsTo(batch, n)
      BY <3>1 DEF IdsTo
    <3>4. Settled \cup IdsTo(batch, i) \subseteq Settled'
      BY <1>4, <3>3
    <3> QED
      BY <2>1, <3>2, <3>4, CoversMore
  <2> QED
    BY <1>3, <2>1
<1>8. CoversAlong(EventCount, chan', Settled' \cup IdsIn(batch'))
  <2>1. CoversAlong(EventCount, chan, Settled \cup IdsIn(batch))
    BY DEF CoverInv
  <2>2. Settled \cup IdsIn(batch) \subseteq Settled' \cup IdsIn(batch')
    BY <1>3, <1>4
  <2> QED
    BY <1>1, <2>1, <2>2, AlongMore
<1>9. Settled \subseteq Settled' /\ Queued \subseteq Queued'
  BY <1>1, <1>3, <1>4 DEF Queued
<1> QED
  BY <1>1, <1>2, <1>6, <1>7, <1>8, <1>9, CoverHeld

\* The offsets of a regular agent with an event a line at most cover nothing
\* that is not settled or ahead.
LEMMA CoverKept ==
  ASSUME TailTypes, Regular => WholeInv, Regular /\ SingleEvents => CoverInv, [Next]_vars,
         Regular', SingleEvents'
  PROVE  CoverInv'
<1>1. Regular /\ world' = world /\ ~Truncate
  BY RegularBefore
<1>2. SingleEvents /\ EventCount' = EventCount
  BY <1>1 DEF SingleEvents, EventCount, MaxLines
<1>3. WholeInv /\ CoverInv
  BY <1>1, <1>2
<1>4. CASE UNCHANGED vars \/ Write \/ Restart
  <2>1. /\ offsets' = offsets /\ stored' = stored /\ dropped' = dropped
        /\ newOffset' = newOffset /\ parsed' = parsed /\ held' = held
        /\ chan' = chan /\ batch' = batch /\ (pc' = pc \/ pc' = "idle")
    BY <1>4 DEF vars, disk, locals, Write, Restart
  <2>2. Settled' = Settled /\ Queued' = Queued
    BY <2>1 DEF Settled, Queued
  <2> QED
    BY <1>2, <1>3, <2>1, <2>2 DEF CoverInv
<1>5. CASE OpenFile
  BY <1>3, <1>5, CoverOpen
<1>6. CASE ScanLine
  BY <1>2, <1>3, <1>6, CoverScan
<1>7. CASE EmitHeld
  BY <1>3, <1>7, CoverEmit
<1>8. CASE FinishScan
  BY <1>3, <1>8, CoverFinish
<1>9. CASE Forward \/ ForwardDrop
  BY <1>3, <1>9, CoverForward
<1>10. CASE Flush
  BY <1>3, <1>10, CoverFlush
<1>11. CASE Crash
  <2>1. /\ offsets' = offsets /\ stored' = stored /\ dropped' = dropped /\ pc' = "down"
        /\ parsed' = <<>> /\ held' = <<>> /\ chan' = <<>> /\ batch' = <<>>
    BY <1>11 DEF Crash
  <2>2. Settled' = Settled
    BY <2>1 DEF Settled
  <2>3. Len(parsed') <= 1
    BY <2>1, QueueSmall
  <2>4. /\ CoversAlong(EventCount, batch', Settled)
        /\ CoversAlong(EventCount, chan', Settled \cup IdsIn(batch'))
    BY <2>1, AlongNone
  <2>5. Covers(EventCount, offsets[F], Settled)
    BY <1>3 DEF CoverInv
  <2> QED
    BY <1>2, <2>1, <2>2, <2>3, <2>4, <2>5 DEF CoverInv
<1> QED
  BY <1>1, <1>4, <1>5, <1>6, <1>7, <1>8, <1>9, <1>10, <1>11 DEF Next, Tailer, Quiet

-----------------------------------------------------------------------------
(***************************************************************************)
(* The theorems                                                            *)
(***************************************************************************)

\* The invariant holds initially and is kept by every step.
LEMMA TailInit == Init => TailInv
<1> SUFFICES ASSUME Init PROVE TailInv
  OBVIOUS
<1>1. /\ file = <<>> /\ line = 1 /\ stored = {} /\ offsets = [f \in {F} |-> 0] /\ pc = "idle"
      /\ rest = <<>> /\ newOffset = 0 /\ parsed = <<>> /\ held = <<>> /\ chan = <<>>
      /\ batch = <<>> /\ wrongReset = FALSE
  BY DEF Init
<1>2. TailTypes
  BY InitTypes
<1>3. IdsKnown = {} /\ OffsOnWay = {} /\ Len(<<>>) = 0 /\ offsets[F] = 0 /\ 1..0 = {}
  BY <1>1, QueueSmall DEF IdsKnown, OffsOnWay
<1>4. PlaceInv
  BY <1>1, <1>3 DEF PlaceInv, Located
<1>5. ResetMeansTruncated
  BY <1>1 DEF ResetMeansTruncated
<1>6. WholeInv
  <2>1. line - 1 = 0 /\ newOffset + Len(rest) = 0 /\ 3 * 0 = 0
    BY <1>1, <1>3
  <2>2. LineEnd(0, 0) /\ WholeLines(file, 0)
    BY <1>1, <1>3, LineEnds DEF WholeLines
  <2>3. line <= MaxLines + 1
    <3>1. world.count \in Seq(Nat)
      BY <1>2, TailAssumption DEF TailTypes
    <3>2. MaxLines \in Nat
      BY <3>1, LenProperties DEF MaxLines
    <3> QED
      BY <1>1, <3>2
  <2> QED
    BY <1>1, <1>3, <2>1, <2>2, <2>3 DEF WholeInv
<1>7. CoverInv
  <2>1. \A n \in 1..Len(EventCount) : ~(3 * n <= 0)
    OBVIOUS
  <2>2. Covers(EventCount, offsets[F], Settled)
    BY <1>3, <2>1 DEF Covers
  <2> QED
    BY <1>1, <1>3, <2>2, AlongNone DEF CoverInv
<1> QED
  BY <1>2, <1>4, <1>5, <1>6, <1>7 DEF TailInv

LEMMA TailStep == TailInv /\ [Next]_vars => TailInv'
<1> SUFFICES ASSUME TailInv, [Next]_vars PROVE TailInv'
  OBVIOUS
<1>1. /\ TailTypes /\ PlaceInv /\ ResetMeansTruncated /\ (Regular => WholeInv)
      /\ (Regular /\ SingleEvents => CoverInv)
  BY DEF TailInv
<1>2. TailTypes' /\ PlaceInv' /\ ResetMeansTruncated'
  BY <1>1, NextTypes, PlaceKept, NoReset
<1>3. ASSUME Regular' PROVE WholeInv'
  BY <1>1, <1>3, WholeKept
<1>4. ASSUME Regular', SingleEvents' PROVE CoverInv'
  BY <1>1, <1>4, CoverKept
<1> QED
  BY <1>2, <1>3, <1>4 DEF TailInv

\* The invariant of the watcher holds in every state it reaches.
THEOREM TailAlwaysInv == Spec => []TailInv
BY TailInit, TailStep, PTL DEF Spec

\* Every number is a multiple of three, or one or two after it.
LEMMA Thirds ==
  ASSUME NEW i \in Nat
  PROVE  \E m \in Nat : i = 3 * m \/ i = 3 * m + 1 \/ i = 3 * m + 2
<1> DEFINE Above == {k \in Nat : i < 3 * k}
<1>1. i + 1 \in Above /\ Above \in SUBSET Nat
  OBVIOUS
<1>2. PICK k \in Above : \A l \in Above : k <= l
  <2> HIDE DEF Above
  <2> QED
    BY <1>1, Least
<1>3. k \in Nat /\ i < 3 * k /\ k # 0
  BY <1>2
<1>4. k - 1 \in Nat /\ ~(k <= k - 1)
  BY <1>3
<1>5. ~(i < 3 * (k - 1))
  BY <1>2, <1>4
<1>6. i = 3 * (k - 1) \/ i = 3 * (k - 1) + 1 \/ i = 3 * (k - 1) + 2
  BY <1>3, <1>4, <1>5
<1> QED
  BY <1>4, <1>6

\* Among whole lines, line n is found at one place only.
LEMMA LineFound ==
  ASSUME TailTypes, WholeInv, NEW n \in Nat \ {0}, NEW at \in LineStarts(n)
  PROVE  at = 3 * (n - 1)
<1> DEFINE s == SubSeq(file, at + 1, at + 3)
<1>1. /\ file \in Seq(Byte) /\ Len(file) \in Nat /\ Len(file) = 3 * (line - 1)
      /\ line - 1 \in Nat /\ WholeLines(file, line - 1)
  <2>1. file \in Seq(Byte) /\ line - 1 \in Nat
    BY DEF TailTypes
  <2>2. WholeLines(file, line - 1)
    BY DEF WholeInv
  <2> QED
    BY <2>1, <2>2, LenProperties DEF WholeLines
<1>2. at \in 0..(Len(file) - 3) /\ s = Append(Body(n), Newline)
  BY DEF LineStarts
<1>3. at \in Nat /\ at + 3 <= Len(file) /\ at + 1 \in 1..Len(file)
  BY <1>1, <1>2
<1>4. file[at + 1] = <<n, 1>>
  <2>1. s[1] = <<n, 1>>
    BY <1>2, LineText
  <2>2. \A i \in (at + 1)..(at + 3) : file[i] \in Byte
    <3>1. \A i \in (at + 1)..(at + 3) : i \in 1..Len(file)
      BY <1>1, <1>3
    <3> QED
      BY <1>1, <3>1, ElementOfSeq
  <2>3. s[1] = file[(at + 1) + 1 - 1]
    <3>1. at + 1 \in Int /\ at + 3 \in Int /\ 1 \in 1..((at + 3) - (at + 1) + 1)
      BY <1>3
    <3> QED
      BY <1>1, <2>2, <3>1, SubSeqProperties
  <2>4. (at + 1) + 1 - 1 = at + 1
    BY <1>3
  <2> QED
    BY <2>1, <2>3, <2>4
<1>5. PICK m \in Nat : at = 3 * m \/ at = 3 * m + 1 \/ at = 3 * m + 2
  BY <1>3, Thirds
<1>6. m + 1 \in 1..(line - 1)
  BY <1>1, <1>3, <1>5
<1>7. /\ file[3 * (m + 1) - 2] = <<m + 1, 1>> /\ file[3 * (m + 1) - 1] = <<m + 1, 2>>
      /\ file[3 * (m + 1)] = Newline
  BY <1>1, <1>6 DEF WholeLines
<1>8. /\ at = 3 * m => at + 1 = 3 * (m + 1) - 2
      /\ at = 3 * m + 1 => at + 1 = 3 * (m + 1) - 1
      /\ at = 3 * m + 2 => at + 1 = 3 * (m + 1)
  BY <1>5
<1>9. \A k \in Nat : <<n, 1>> # <<k, 2>> /\ <<n, 1>> # Newline /\ (<<n, 1>> = <<k, 1>> => n = k)
  BY DEF Newline
<1>10. at = 3 * m /\ n = m + 1
  <2>1. m + 1 \in Nat
    BY <1>5
  <2> QED
    BY <1>4, <1>5, <1>7, <1>8, <1>9, <2>1
<1> QED
  BY <1>10

\* With an agent that appends whole lines of at most one event and does not
\* truncate its file, the offset in the database covers only lines whose events
\* are in the database, or were dropped on a full channel or queue: a crash at
\* any point loses nothing else (tailFile, InsertEvents).
THEOREM OffsetAlwaysCovers == Spec => []OffsetCoversStored
<1>1. TailInv => OffsetCoversStored
  <2> SUFFICES ASSUME TailInv, Regular, SingleEvents,
                      NEW n \in 1..MaxLines, NEW at \in LineStarts(n), at + 3 <= offsets[F]
               PROVE  LineEvents(n, at) \subseteq stored \cup dropped
    BY DEF OffsetCoversStored
  <2>1. TailTypes /\ WholeInv /\ CoverInv
    BY DEF TailInv
  <2>2. n \in Nat \ {0} /\ n \in 1..Len(EventCount)
    BY DEF MaxLines, EventCount
  <2>3. at = 3 * (n - 1)
    BY <2>1, <2>2, LineFound
  <2>4. 3 * n <= offsets[F]
    BY <2>2, <2>3
  <2>5. EventsOf(EventCount, n) \subseteq Settled
    BY <2>1, <2>2, <2>4 DEF CoverInv, Covers
  <2>6. LineEvents(n, at) = EventsOf(EventCount, n)
    BY <2>3 DEF LineEvents, EventsOf
  <2> QED
    BY <2>5, <2>6 DEF Settled
<1> QED
  BY <1>1, TailAlwaysInv, PTL

\* The offset in the id of a stored event is where its text was in the file
\* (deterministicID), whatever was half written, truncated, refused by the scanner
\* or lost in a crash before; and the watcher takes a file for truncated only if
\* the agent writes lines in pieces or did truncate it (tailFile).
THEOREM PositionsAlwaysTrue == Spec => []PositionsTrue
<1>1. TailInv => PositionsTrue
  <2> SUFFICES ASSUME TailInv PROVE IdsLocate /\ ResetMeansTruncated
    BY DEF PositionsTrue
  <2>1. \A id \in stored : Located(id[3], id[1], written)
    BY DEF TailInv, PlaceInv, IdsKnown
  <2> QED
    BY <2>1 DEF TailInv, IdsLocate, Located
<1> QED
  BY <1>1, TailAlwaysInv, PTL

(***************************************************************************)
(* The parsers whose lines the watcher scans, LogParsers.                  *)
(***************************************************************************)
LogLines == MetaLines \cup MessageLines \cup ItemLines
            \cup OtherLines \cup ClaudeLines

Counted(E) == {i \in DOMAIN E : E[i].tokens > 0}
Understood(E) == {i \in DOMAIN E : E[i].action # "unknown"}

\* The events E of a line have different ids and carry its usage once.
SoundEvents(E, ln) ==
  /\ \A i, j \in DOMAIN E : E[i].suffix = E[j].suffix => i = j
  /\ Cardinality(Counted(E)) =
       IF HasUsage(ln) /\ Understood(E) # {} THEN 1 ELSE 0

\* They are all understood, numbered from 0, of one model and without usage.
Numbered(E, m) ==
  E \in Seq([action : {"tool", "chat"}, suffix : Nat, model : {m}, tokens : {0}])
    /\ \A i \in DOMAIN E : E[i].suffix = i - 1

OfModel(E, m) == \A i \in DOMAIN E : E[i].action # "unknown" => E[i].model = m

LEMMA NoEvents ==
  ASSUME NEW ln, NEW m
  PROVE  SoundEvents(<<>>, ln) /\ OfModel(<<>>, m)
BY FS_EmptySet DEF SoundEvents, OfModel, Counted, Understood

LEMMA UnknownEvent ==
  ASSUME NEW ln, NEW m
  PROVE  SoundEvents(Unknown, ln) /\ OfModel(Unknown, m)
<1> DEFINE E == Unknown
<1>1. DOMAIN E = {1} /\ E[1].action = "unknown" /\ E[1].tokens = 0
  BY DEF Unknown, Event
<1> HIDE DEF E
<1>2. Counted(E) = {} /\ Understood(E) = {}
  BY <1>1 DEF Counted, Understood
<1>3. SoundEvents(E, ln) /\ OfModel(E, m)
  BY <1>1, <1>2, FS_EmptySet DEF SoundEvents, OfModel
<1> QED BY <1>3 DEF E

LEMMA OneEvent ==
  ASSUME NEW ln, NEW action, action # "unknown", NEW m, NEW t \in {0, 1},
         t = 1 <=> HasUsage(ln)
  PROVE  /\ SoundEvents(<<Event(action, 0, m, t)>>, ln)
         /\ OfModel(<<Event(action, 0, m, t)>>, m)
<1> DEFINE E == <<Event(action, 0, m, t)>>
<1>1. DOMAIN E = {1} /\ E[1].action = action /\ E[1].tokens = t /\ E[1].model = m
  BY DEF Event
<1> HIDE DEF E
<1>2. /\ Counted(E) = IF HasUsage(ln) THEN {1} ELSE {}
      /\ Understood(E) = {1}
  BY <1>1 DEF Counted, Understood
<1>3. Cardinality({1}) = 1 /\ Cardinality({}) = 0
  BY FS_EmptySet, FS_Singleton
<1>4. SoundEvents(E, ln) /\ OfModel(E, m)
  BY <1>1, <1>2, <1>3 DEF SoundEvents, OfModel
<1> QED BY <1>4 DEF E

\* Numbered events stay sound when the usage of the line is put on the first.
LEMMA UsageOnFirst ==
  ASSUME NEW ln, NEW m, NEW E, Numbered(E, m),
         ln.usage <=> HasUsage(ln)
  PROVE  /\ SoundEvents(WithUsage(E, ln), ln)
         /\ OfModel(WithUsage(E, ln), m)
<1> DEFINE U == WithUsage(E, ln)
<1>1. /\ DOMAIN U = 1..Len(E) /\ Len(E) \in Nat
      /\ \A i \in 1..Len(E) : /\ U[i].suffix = i - 1 /\ U[i].model = m
                              /\ U[i].action \in {"tool", "chat"}
                              /\ U[i].tokens = IF i = 1 /\ ln.usage THEN 1 ELSE 0
  <2>1. /\ DOMAIN E = 1..Len(E) /\ Len(E) \in Nat
        /\ \A i \in 1..Len(E) : /\ E[i].suffix = i - 1 /\ E[i].model = m
                                /\ E[i].action \in {"tool", "chat"} /\ E[i].tokens = 0
                                /\ E[i] \in [action : {"tool", "chat"}, suffix : Nat,
                                             model : {m}, tokens : {0}]
    <3> DEFINE R == [action : {"tool", "chat"}, suffix : Nat, model : {m}, tokens : {0}]
    <3>1. E \in Seq(R) /\ \A i \in DOMAIN E : E[i].suffix = i - 1
      BY DEF Numbered
    <3>2. \A r \in R : r.model = m /\ r.action \in {"tool", "chat"} /\ r.tokens = 0
      OBVIOUS
    <3> HIDE DEF R
    <3>3. DOMAIN E = 1..Len(E) /\ Len(E) \in Nat /\ \A i \in 1..Len(E) : E[i] \in R
      BY <3>1
    <3>4. \A i \in 1..Len(E) : /\ E[i].suffix = i - 1 /\ E[i].model = m
                               /\ E[i].action \in {"tool", "chat"} /\ E[i].tokens = 0
      BY <3>1, <3>2, <3>3
    <3> QED BY <3>3, <3>4 DEF R
  <2>2. CASE ln.usage /\ E # <<>>
    <3>1. U = [E EXCEPT ![1] = [E[1] EXCEPT !.tokens = 1]]
      BY <2>2 DEF WithUsage
    <3>2. 1 \in 1..Len(E)
      BY <2>1, <2>2 DEF Numbered
    <3> DEFINE e == [E[1] EXCEPT !.tokens = 1]
    <3>3. e.suffix = E[1].suffix /\ e.model = E[1].model /\ e.action = E[1].action /\ e.tokens = 1
      BY <2>1, <3>2
    <3> HIDE DEF U, e
    <3>4. DOMAIN U = 1..Len(E) /\ \A i \in 1..Len(E) : U[i] = IF i = 1 THEN e ELSE E[i]
      BY <2>1, <3>1 DEF e
    <3> QED BY <2>1, <2>2, <3>3, <3>4
  <2>3. CASE ~(ln.usage /\ E # <<>>)
    <3>1. U = E
      BY <2>3 DEF WithUsage
    <3>2. ln.usage => Len(E) = 0
      BY <2>3
    <3> HIDE DEF U
    <3> QED BY <2>1, <3>1, <3>2
  <2> QED BY <2>2, <2>3
<1> HIDE DEF U
<1>2. \A i, j \in DOMAIN U : U[i].suffix = U[j].suffix => i = j
  BY <1>1
<1>3. Understood(U) = 1..Len(E)
  BY <1>1 DEF Understood
<1>4. Cardinality({1}) = 1 /\ Cardinality({}) = 0
  BY FS_EmptySet, FS_Singleton
<1>5. CASE ln.usage /\ Len(E) > 0
  <2>1. Counted(U) = {1}
    BY <1>1, <1>5 DEF Counted
  <2>2. 1..Len(E) # {}
    BY <1>1, <1>5
  <2>3. SoundEvents(U, ln) /\ OfModel(U, m)
    BY <1>1, <1>2, <1>3, <1>4, <1>5, <2>1, <2>2 DEF SoundEvents, OfModel
  <2> QED BY <2>3 DEF U
<1>6. CASE ~(ln.usage /\ Len(E) > 0)
  <2>1. Counted(U) = {}
    BY <1>1, <1>6 DEF Counted
  <2>2. ln.usage => 1..Len(E) = {}
    BY <1>1, <1>6
  <2>3. SoundEvents(U, ln) /\ OfModel(U, m)
    BY <1>1, <1>2, <1>3, <1>4, <1>6, <2>1, <2>2 DEF SoundEvents, OfModel
  <2> QED BY <2>3 DEF U
<1> QED BY <1>5, <1>6

\* One event for each tool block, numbered in order.
LEMMA ToolsNumbered ==
  ASSUME NEW n \in Nat, NEW m
  PROVE  /\ Numbered([i \in 1..n |-> Event("tool", i - 1, m, 0)], m)
         /\ Len([i \in 1..n |-> Event("tool", i - 1, m, 0)]) = n
BY DEF Numbered, Event

\* The prompt of a user comes after them.
LEMMA OneMore ==
  ASSUME NEW m, NEW E, Numbered(E, m)
  PROVE  /\ Numbered(E \o <<>>, m) /\ E \o <<>> = E
         /\ Numbered(E \o <<Event("chat", Len(E), m, 0)>>, m)
BY DEF Numbered, Event

\* A message: tools, then the prompt of a user, or the text of an assistant who
\* calls none.
LEMMA MessageItem ==
  ASSUME NEW ln \in MessageLines, NEW m
  PROVE  /\ SoundEvents(parseCodexMessageItem(ln, m), ln)
         /\ OfModel(parseCodexMessageItem(ln, m), m)
<1> DEFINE n == Cardinality(ToolBlocks(ln))
           T == messageTools(ln, m)
           prompt == IF ln.role = "user" /\ hasPrompt(ln)
                     THEN <<Event("chat", Len(T), m, 0)>> ELSE <<>>
           reply == IF ln.role = "assistant" /\ T = <<>>
                    THEN <<Event("chat", 0, m, 0)>> ELSE <<>>
<1>1. n \in Nat
  <2>1. ln.blocks \in BlockSeqs(MessageBlocks)
    BY DEF MessageLines
  <2>2. PICK k \in 0..MaxBlocks : ln.blocks \in [1..k -> MessageBlocks]
    BY <2>1 DEF BlockSeqs
  <2>3. IsFiniteSet(1..k) /\ ToolBlocks(ln) \subseteq 1..k
    BY <2>2, FS_Interval DEF ToolBlocks
  <2> QED BY <2>3, FS_Subset, FS_CardinalityType
<1>2. ln.usage <=> HasUsage(ln)
  <2>1. "usage" \in DOMAIN ln /\ ln.usage \in BOOLEAN
    BY DEF MessageLines
  <2> QED BY <2>1 DEF HasUsage
<1>3. Numbered(T, m) /\ Len(T) = n
  BY <1>1, ToolsNumbered DEF messageTools
<1>4. parseCodexMessageItem(ln, m) =
        IF ln.role = "developer" THEN <<>>
        ELSE WithUsage(T \o prompt \o reply, ln)
  BY DEF parseCodexMessageItem
<1> HIDE DEF T
<1>5. T = <<>> <=> Len(T) = 0
  BY <1>3 DEF Numbered
<1>6. Numbered(T \o prompt \o reply, m)
  <2>1. CASE reply = <<>>
    <3>1. Numbered(T \o prompt, m)
      BY <1>3, OneMore
    <3>2. T \o prompt \o reply = T \o prompt
      BY <2>1, <3>1, OneMore
    <3> QED BY <3>1, <3>2
  <2>2. CASE reply # <<>>
    <3>1. /\ prompt = <<>> /\ Len(T) = 0
          /\ reply = <<Event("chat", Len(T), m, 0)>>
      BY <1>5, <2>2
    <3>2. T \o prompt = T
      BY <1>3, <3>1, OneMore
    <3>3. T \o prompt \o reply = T \o <<Event("chat", Len(T), m, 0)>>
      BY <3>1, <3>2
    <3> QED BY <1>3, <3>3, OneMore
  <2> QED BY <2>1, <2>2
<1> HIDE DEF prompt, reply
<1>7. CASE ln.role = "developer"
  BY <1>4, <1>7, NoEvents
<1>8. CASE ln.role # "developer"
  BY <1>2, <1>4, <1>6, <1>8, UsageOnFirst
<1> QED BY <1>7, <1>8

\* A message of Claude Code: its tools, or its usage if it has none.
LEMMA AssistantLine ==
  ASSUME NEW ln \in ClaudeLines, ln.type = "assistant"
  PROVE  SoundEvents(parseAssistant(ln), ln)
<1> DEFINE n == Cardinality({b \in DOMAIN ln.blocks : ln.blocks[b] = "tool_use"})
           T == [i \in 1..n |-> Event("tool", i - 1, ln.model, 0)]
           m == ln.model
           chat == IF ln.usage /\ T = <<>> THEN <<Event("chat", 0, m, 1)>> ELSE <<>>
<1>1. /\ ln.blocks \in BlockSeqs({"text", "tool_use"})
      /\ "usage" \in DOMAIN ln /\ ln.usage \in BOOLEAN
  BY DEF ClaudeLines
<1>2. n \in Nat
  <2>1. PICK k \in 0..MaxBlocks : ln.blocks \in [1..k -> {"text", "tool_use"}]
    BY <1>1 DEF BlockSeqs
  <2>2. IsFiniteSet(1..k)
    BY FS_Interval
  <2>3. {b \in DOMAIN ln.blocks : ln.blocks[b] = "tool_use"} \subseteq 1..k
    BY <2>1
  <2> QED BY <2>2, <2>3, FS_Subset, FS_CardinalityType
<1>3. ln.usage <=> HasUsage(ln)
  BY <1>1 DEF HasUsage
<1>4. Numbered(T, m)
  BY <1>2, ToolsNumbered
<1>5. parseAssistant(ln) = WithUsage(T \o chat, ln)
  BY DEF parseAssistant
<1> HIDE DEF T, m, n
<1>6. CASE chat = <<>>
  <2>1. T \o chat = T
    BY <1>4, <1>6, OneMore
  <2> QED BY <1>3, <1>4, <1>5, <2>1, UsageOnFirst
<1>7. CASE chat # <<>>
  <2> DEFINE E == <<Event("chat", 0, m, 1)>>
  <2>1. ln.usage /\ T = <<>> /\ chat = E
    BY <1>7
  <2>2. T \o chat = E
    BY <2>1
  <2>3. WithUsage(E, ln) = E
    BY <2>1 DEF WithUsage, Event
  <2>4. SoundEvents(E, ln)
    BY <1>3, <2>1, OneEvent
  <2> HIDE DEF E, chat
  <2> QED BY <1>5, <2>2, <2>3, <2>4
<1> QED BY <1>6, <1>7

\* Any other response item is one event, or none.
LEMMA ResponseItem ==
  ASSUME NEW f, NEW ln \in LogLines, ln.type = "response_item"
  PROVE  /\ SoundEvents(parseCodexResponseItem(f, ln), ln)
         /\ OfModel(parseCodexResponseItem(f, ln), modelOf(f, ln))
<1> DEFINE E == parseCodexResponseItem(f, ln)
           m == modelOf(f, ln)
<1>1. ln \in MessageLines \/ ln \in ItemLines
  BY DEF LogLines, MetaLines, OtherLines, ClaudeLines
<1>2. CASE ln \in MessageLines
  <2>1. ln.item = "message"
    BY <1>2 DEF MessageLines
  <2>2. E = parseCodexMessageItem(ln, m)
    BY <2>1 DEF parseCodexResponseItem, isTool
  <2> HIDE DEF E, m
  <2>3. SoundEvents(E, ln) /\ OfModel(E, m)
    BY <1>2, <2>2, MessageItem
  <2> QED BY <2>3 DEF E, m
<1>3. CASE ln \in ItemLines
  <2>1. /\ ln.item \in {"tool", "ignored", "denied", "dynamic", "other"}
        /\ ln.usage \in BOOLEAN /\ "usage" \in DOMAIN ln
    BY <1>3 DEF ItemLines
  <2>2. /\ Tokens(ln) \in {0, 1}
        /\ Tokens(ln) = 1 <=> HasUsage(ln)
    BY <2>1 DEF Tokens, HasUsage
  <2>3. \/ E = <<>>
        \/ E = <<Event("tool", 0, m, Tokens(ln))>>
        \/ E = Unknown
    BY <2>1 DEF parseCodexResponseItem
  <2> HIDE DEF E, m
  <2>4. SoundEvents(E, ln) /\ OfModel(E, m)
    BY <2>2, <2>3, NoEvents, OneEvent, UnknownEvent
  <2> QED BY <2>4 DEF E, m
<1> QED BY <1>1, <1>2, <1>3

\* Every line of a Codex log; the records that may name no model get modelOf.
LEMMA CodexLine ==
  ASSUME NEW f, NEW ln \in LogLines
  PROVE  /\ SoundEvents(parseCodexLine(f, ln), ln)
         /\ ln.type \in {"response_item", "token_count"} =>
              OfModel(parseCodexLine(f, ln), modelOf(f, ln))
<1> DEFINE E == parseCodexLine(f, ln)
           m == modelOf(f, ln)
<1>1. CASE ln.type \in {"session_meta", "turn_context", "event_msg"}
  <2>1. ~HasUsage(ln)
    <3>1. \/ ln \in [type : {"session_meta"}, id : SessionIds \cup {"none"},
                       model : Models \cup {NoModel}]
          \/ ln \in [type : {"turn_context"}, model : Models \cup {NoModel}]
          \/ ln \in [type : {"event_msg"}, aborted : BOOLEAN]
      BY <1>1 DEF LogLines, MetaLines, MessageLines, ItemLines,
                  OtherLines, ClaudeLines
    <3>2. \/ DOMAIN ln = {"type", "id", "model"}
          \/ DOMAIN ln = {"type", "model"}
          \/ DOMAIN ln = {"type", "aborted"}
      BY <3>1
    <3>3. "usage" \notin DOMAIN ln
      BY <3>2
    <3> QED BY <3>3 DEF HasUsage
  <2>2. \/ E = <<>>
        \/ E = <<Event("session_meta", 0, ln.model, 0)>>
        \/ E = <<Event("turn_context", 0, ln.model, 0)>>
        \/ E = <<Event("turn_aborted", 0, NoModel, 0)>>
    BY <1>1 DEF parseCodexLine
  <2> HIDE DEF E, m
  <2>3. /\ SoundEvents(<<Event("session_meta", 0, ln.model, 0)>>, ln)
        /\ SoundEvents(<<Event("turn_context", 0, ln.model, 0)>>, ln)
        /\ SoundEvents(<<Event("turn_aborted", 0, NoModel, 0)>>, ln)
    <3>1. /\ "session_meta" # "unknown" /\ "turn_context" # "unknown"
          /\ "turn_aborted" # "unknown" /\ 0 \in {0, 1} /\ 0 # 1
      OBVIOUS
    <3> QED BY <2>1, <3>1, OneEvent
  <2>4. SoundEvents(E, ln)
    BY <2>2, <2>3, NoEvents
  <2> QED BY <1>1, <2>4 DEF E
<1>2. CASE ln.type = "response_item"
  <2>1. E = parseCodexResponseItem(f, ln)
    BY <1>2 DEF parseCodexLine
  <2> HIDE DEF E, m
  <2>2. SoundEvents(E, ln) /\ OfModel(E, modelOf(f, ln))
    BY <1>2, <2>1, ResponseItem
  <2> QED BY <2>2 DEF E
<1>3. CASE ln.type = "token_count"
  <2>1. ln.usage = TRUE /\ "usage" \in DOMAIN ln
    BY <1>3 DEF LogLines, MetaLines, MessageLines, ItemLines,
                OtherLines, ClaudeLines
  <2>2. HasUsage(ln) /\ Tokens(ln) = 1
    BY <2>1 DEF HasUsage, Tokens
  <2>3. E = <<Event("token_count", 0, m, Tokens(ln))>>
    BY <1>3 DEF parseCodexLine
  <2> HIDE DEF E, m
  <2>4. SoundEvents(E, ln) /\ OfModel(E, m)
    BY <2>2, <2>3, OneEvent
  <2> QED BY <2>4 DEF E, m
<1>4. CASE ln.type \notin {"session_meta", "turn_context", "event_msg",
                             "response_item", "token_count"}
  <2>1. E = Unknown
    BY <1>4 DEF parseCodexLine
  <2> HIDE DEF E, m
  <2>2. SoundEvents(E, ln)
    BY <2>1, UnknownEvent
  <2> QED BY <1>4, <2>2 DEF E
<1> QED BY <1>1, <1>2, <1>3, <1>4

\* Every line, whichever parser it goes to.
LEMMA AnyLine ==
  ASSUME NEW f, NEW ln \in LogLines
  PROVE  /\ SoundEvents(ParseLineForSource(f, ln), ln)
         /\ ln.type \in {"response_item", "token_count"} =>
              OfModel(ParseLineForSource(f, ln), modelOf(f, ln))
<1>1. CASE isCodex(f, ln)
  BY <1>1, CodexLine DEF ParseLineForSource
<1>2. CASE ~isCodex(f, ln)
  <2> DEFINE E == ParseClaudeLine(ln)
  <2>1. ParseLineForSource(f, ln) = E
    BY <1>2 DEF ParseLineForSource
  <2>2. ln.type \notin {"session_meta", "response_item", "event_msg", "turn_context",
                          "token_count", "bad_payload"}
    BY <1>2 DEF isCodex, CodexRecordTypes
  <2>3. SoundEvents(E, ln)
    <3>1. CASE ln.type = "assistant"
      <4>1. ln \in ClaudeLines
        BY <3>1 DEF LogLines, MetaLines, MessageLines, ItemLines,
                    OtherLines
      <4>2. E = parseAssistant(ln)
        BY <3>1 DEF ParseClaudeLine
      <4> HIDE DEF E
      <4> QED BY <3>1, <4>1, <4>2, AssistantLine
    <3>2. CASE ln.type = "system"
      <4>1. ~HasUsage(ln)
        <5>1. ln \in [type : {"user", "system", "progress", "unknown"}]
          BY <3>2 DEF LogLines, MetaLines, MessageLines, ItemLines,
                      OtherLines, ClaudeLines
        <5>2. DOMAIN ln = {"type"}
          BY <5>1
        <5> QED BY <5>2 DEF HasUsage
      <4>2. E = <<Event("system", 0, NoModel, 0)>>
        BY <3>2 DEF ParseClaudeLine
      <4> HIDE DEF E
      <4>3. SoundEvents(<<Event("system", 0, NoModel, 0)>>, ln)
        <5>1. "system" # "unknown" /\ 0 \in {0, 1} /\ 0 # 1
          OBVIOUS
        <5> QED BY <4>1, <5>1, OneEvent
      <4> QED BY <4>2, <4>3
    <3>3. CASE ln.type \notin {"assistant", "system"}
      <4>1. E = <<>> \/ E = Unknown
        BY <3>3 DEF ParseClaudeLine
      <4> HIDE DEF E
      <4> QED BY <4>1, NoEvents, UnknownEvent
    <3> QED BY <3>1, <3>2, <3>3
  <2> HIDE DEF E
  <2> QED BY <2>1, <2>2, <2>3
<1> QED BY <1>1, <1>2

\* The table has, under the session of every file, what was said to it last.
Learned ==
  /\ announced \in [Files -> Models \cup {NoModel}]
  /\ lent \in [Files -> Models \cup {NoModel}]
  /\ \A f \in Files : getCodexSessionModel(f) = SessionModel(f)

ParserInv ==
  Learned /\ EventIdsDistinct /\ TokensOnce /\ ModelCurrent

LEMMA LineLearned ==
  ASSUME Learned, NEW f \in Files, NEW ln \in LogLines, ReadLine(f, ln)
  PROVE  Learned'
<1> USE DEF Learned
<1>1. CASE ln.type \in {"session_meta", "turn_context"}
  <2> DEFINE key == sessionKey(f, ln)
             told == {g \in Files : SessionOf[g] = key}
  <2>1. ln.model \in Models \cup {NoModel}
    BY <1>1 DEF LogLines, MetaLines, MessageLines, ItemLines,
                OtherLines, ClaudeLines
  <2>2. sessionModels' = setCodexSessionModel(key, ln.model)
    BY <1>1 DEF ReadLine, learnModel, isCodex, CodexRecordTypes
  <2>3. CASE ln.model = NoModel
    <3>1. UNCHANGED <<sessionModels, announced, lent>>
      BY <2>2, <2>3 DEF ReadLine, setCodexSessionModel, Announces
    <3> QED BY <3>1 DEF getCodexSessionModel, SessionModel
  <2>4. CASE ln.model # NoModel
    <3>1. sessionModels' = [k \in DOMAIN sessionModels \cup {key} |->
                              IF k = key THEN ln.model ELSE sessionModels[k]]
      BY <2>2, <2>4 DEF setCodexSessionModel
    <3>2. /\ announced' = [g \in Files |-> IF g = f /\ f \in told THEN ln.model ELSE announced[g]]
          /\ lent' = [g \in Files |-> IF g \notin told THEN lent[g]
                                      ELSE IF g = f THEN NoModel ELSE ln.model]
      BY <1>1, <2>4 DEF ReadLine, Announces, Announce
    <3>3. /\ announced' \in [Files -> Models \cup {NoModel}]
          /\ lent' \in [Files -> Models \cup {NoModel}]
      BY <2>1, <3>2
    <3> HIDE DEF key
    <3>4. ASSUME NEW g \in Files
          PROVE  getCodexSessionModel(g)' = SessionModel(g)'
      <4>1. CASE SessionOf[g] = key
        <5>1. SessionModel(g)' = ln.model
          BY <2>4, <3>2, <4>1 DEF SessionModel
        <5> QED BY <3>1, <4>1, <5>1 DEF getCodexSessionModel, extractCodexSessionID
      <4>2. CASE SessionOf[g] # key
        <5>1. getCodexSessionModel(g)' = getCodexSessionModel(g)
          BY <3>1, <4>2 DEF getCodexSessionModel, extractCodexSessionID
        <5>2. SessionModel(g)' = SessionModel(g)
          BY <3>2, <4>2 DEF SessionModel
        <5> QED BY <5>1, <5>2
      <4> QED BY <4>1, <4>2
    <3> QED BY <3>3, <3>4
  <2> QED BY <2>3, <2>4
<1>2. CASE ln.type \notin {"session_meta", "turn_context"}
  <2>1. UNCHANGED <<sessionModels, announced, lent>>
    BY <1>2 DEF ReadLine, learnModel, Announces
  <2> QED BY <2>1 DEF getCodexSessionModel, SessionModel
<1> QED BY <1>1, <1>2

LEMMA LineSound ==
  ASSUME Learned, NEW f \in Files, NEW ln \in LogLines, ReadLine(f, ln)
  PROVE  ParserInv'
<1> DEFINE E == ParseLineForSource(f, ln)
<1>1. Learned'
  BY LineLearned
<1>2. parsedLine'.file = f /\ parsedLine'.line = ln /\ parsedLine'.events = E
  BY DEF ReadLine
<1>3. SoundEvents(E, ln)
  BY AnyLine
<1>4. ln.type \in {"response_item", "token_count"} => OfModel(E, modelOf(f, ln))
  BY AnyLine
<1> HIDE DEF E
<1>5. EventIdsDistinct'
  BY <1>2, <1>3 DEF SoundEvents, EventIdsDistinct
<1>6. TokensOnce'
  <2>1. Cardinality(Counted(E)) = IF HasUsage(ln) /\ Understood(E) # {} THEN 1 ELSE 0
    BY <1>3 DEF SoundEvents
  <2> QED BY <1>2, <2>1 DEF Counted, Understood, TokensOnce
<1>7. ModelCurrent'
  <2>1. SUFFICES ASSUME ln.type \in {"response_item", "token_count"}, ln.model = NoModel
                 PROVE  \A i \in DOMAIN E : E[i].action # "unknown" => E[i].model = SessionModel(f)'
    BY <1>2 DEF ModelCurrent, SessionModel
  <2>2. modelOf(f, ln) = SessionModel(f)
    BY <2>1 DEF modelOf, Learned
  <2>3. SessionModel(f)' = SessionModel(f)
    BY <2>1 DEF ReadLine, Announces, SessionModel
  <2> QED BY <1>4, <2>1, <2>2, <2>3 DEF OfModel
<1> QED BY <1>1, <1>5, <1>6, <1>7 DEF ParserInv

\* The invariant holds of every parser that runs on these lines.
THEOREM ParsersAlwaysInv == ParserSpec => []ParserInv
<1> USE DEF EventIdsDistinct, TokensOnce, ModelCurrent, SessionModel
<1>1. ParserInit => ParserInv
  BY DEF ParserInit, ParserInv, Learned, getCodexSessionModel
<1>2. ParserInv /\ [ParserNext]_parserVars => ParserInv'
  <2>1. SUFFICES ASSUME ParserInv, [ParserNext]_parserVars PROVE ParserInv'
    OBVIOUS
  <2>2. ASSUME NEW f \in Files, ReadMeta(f) \/ ReadMessage(f) \/ ReadOther(f)
        PROVE  ParserInv'
    <3>1. PICK ln \in LogLines : ReadLine(f, ln)
      BY <2>2 DEF ReadMeta, ReadMessage, ReadOther, LogLines
    <3> QED BY <2>1, <3>1, LineSound DEF ParserInv
  <2>3. CASE PassEvents
    BY <2>1, <2>3 DEF PassEvents, ParserInv, Learned, getCodexSessionModel
  <2>4. CASE ForgetModels
    BY <2>1, <2>4 DEF ForgetModels, ParserInv, Learned, getCodexSessionModel
  <2>5. CASE UNCHANGED parserVars
    BY <2>1, <2>5 DEF parserVars, ParserInv, Learned, getCodexSessionModel
  <2> QED BY <2>1, <2>2, <2>3, <2>4, <2>5 DEF ParserNext
<1> QED BY <1>1, <1>2, PTL DEF ParserSpec

\* The events of one line have different ids, whatever blocks it has
\* (deterministicID, parseCodexMessageItem, parseAssistant).
THEOREM IdsAlwaysDistinct == ParserSpec => []EventIdsDistinct
<1>1. ParserInv => EventIdsDistinct
  BY DEF ParserInv
<1> QED BY <1>1, ParsersAlwaysInv, PTL

\* The usage of a line is counted once, if one of its events was understood.
THEOREM TokensAlwaysOnce == ParserSpec => []TokensOnce
<1>1. ParserInv => TokensOnce
  BY DEF ParserInv
<1> QED BY <1>1, ParsersAlwaysInv, PTL

\* A Codex record without a model gets the one announced last to the session of
\* its file since the start, by the file itself unless another spoke for that
\* session since; for any number of files, whichever of them share a session, and
\* whichever sessions their session_meta name (codexSessionModels).
THEOREM ModelAlwaysCurrent == ParserSpec => []ModelCurrent
<1>1. ParserInv => ModelCurrent
  BY DEF ParserInv
<1> QED BY <1>1, ParsersAlwaysInv, PTL
=============================================================================
