------------------------- MODULE StreamBufferProofs -------------------------
(***************************************************************************)
(* Only whole streams are delivered, and the blocks made of the fragments  *)
(* are the calls an agent puts together, for streams, channels and limits  *)
(* of any size.                                                            *)
(***************************************************************************)
EXTENDS StreamBuffer, FiniteSetTheorems, WellFoundedInduction, TLAPS

Messages == Lines \cup {NoLine, ReadFailure}

TypeInv ==
  /\ sent \in Seq(Messages) /\ wire \in Seq(Messages) /\ body \in Seq(Messages)
  /\ chan \in Seq(Messages) /\ held \in Messages
  /\ reader \in {"read", "put", "fail", "ended"}

\* The line the reader holds, if any.
InHand == IF reader = "put" THEN <<held>> ELSE <<>>

Failed == \E i \in 1..Len(chan) : chan[i].kind = "error"

\* Nothing that was sent is missing: it is in the body, in the channel, in the
\* reader's hand or on the wire, in this order; and a reader that has ended has
\* seen the end of the stream.
Whole ==
  /\ body \o (chan \o (InHand \o wire)) = sent
  /\ reader = "ended" => conn = "eof" /\ wire = <<>>

\* While the handler reads, the stream is whole, or an error is on its way
\* through the channel, which the handler meets before the end.
WholeInv ==
  outcome = "reading" =>
    /\ ~bodyClosed
    /\ \A i \in 1..Len(body) : body[i].kind # "bad"
    /\ Failed \/ Whole

(***************************************************************************)
(* Sequences                                                               *)
(***************************************************************************)
LEMMA AppendRight ==
  ASSUME NEW S, NEW s \in Seq(S), NEW t \in Seq(S), NEW x \in S
  PROVE  s \o Append(t, x) = Append(s \o t, x)
  OBVIOUS

LEMMA AppendMoves ==
  ASSUME NEW S, NEW s \in Seq(S), NEW t \in Seq(S), NEW x \in S
  PROVE  Append(s, x) \o t = s \o (<<x>> \o t)
  OBVIOUS

LEMMA SplitHead ==
  ASSUME NEW S, NEW t \in Seq(S), t # <<>>
  PROVE  <<Head(t)>> \o Tail(t) = t
  OBVIOUS

LEMMA HandOver ==
  ASSUME NEW S, NEW b \in Seq(S), NEW x \in S, NEW t \in Seq(S), NEW r \in Seq(S)
  PROVE  Append(b, x) \o (t \o r) = b \o ((<<x>> \o t) \o r)
  BY SMTT(60)

LEMMA EmptyLeft ==
  ASSUME NEW S, NEW s \in Seq(S)
  PROVE  <<>> \o s = s
  OBVIOUS

(***************************************************************************)
(* The steps                                                               *)
(***************************************************************************)
LEMMA TypeStep ==
  ASSUME TypeInv, [Next]_vars
  PROVE  TypeInv'
<1> USE DEF TypeInv
<1>0. Lines \subseteq Messages /\ NoLine \in Messages /\ ReadFailure \in Messages
  BY DEF Messages
<1>1. CASE \E l \in Lines : Send(l)
  BY <1>0, <1>1 DEF Send, result
<1>2. CASE EndStream
  BY <1>2 DEF EndStream, result
<1>3. CASE ReadLine
  BY <1>3 DEF ReadLine, provider, result
<1>4. CASE ReadEOF \/ ReadError
  BY <1>4 DEF ReadEOF, ReadError, provider, result
<1>5. CASE PutLine
  BY <1>0, <1>5 DEF PutLine, provider, result
<1>6. CASE PutError
  BY <1>0, <1>6 DEF PutError, provider, result
<1>7. CASE Receive
  <2>1. chan' = Tail(chan) /\ chan # <<>> /\ UNCHANGED <<sent, wire, held, reader>>
    BY <1>7 DEF Receive, provider
  <2>2. body' = body \/ body' = Append(body, Head(chan))
    BY <1>7 DEF Receive
  <2>3. Head(chan) \in Messages /\ Tail(chan) \in Seq(Messages)
    BY <2>1
  <2>4. body \in Seq(Messages)
    OBVIOUS
  <2>5. Append(body, Head(chan)) \in Seq(Messages)
    BY <2>3, <2>4
  <2>6. body' \in Seq(Messages)
    BY <2>2, <2>4, <2>5
  <2> QED BY <2>1, <2>3, <2>6
<1>8. CASE Finish \/ IdleTimeout
  BY <1>8 DEF Finish, IdleTimeout, provider
<1>9. CASE CloseBody
  BY <1>9 DEF CloseBody, provider, result
<1>10. CASE UNCHANGED vars
  BY <1>10 DEF vars, provider, result
<1> QED
  BY <1>1, <1>2, <1>3, <1>4, <1>5, <1>6, <1>7, <1>8, <1>9, <1>10 DEF Next, Reader, Handler

\* What the provider sends stays whole, with one line more.
LEMMA SendWhole ==
  ASSUME TypeInv, WholeInv, NEW l \in Lines, Send(l)
  PROVE  WholeInv'
<1>1. l \in Messages
  BY DEF Messages
<1>2. /\ sent' = Append(sent, l) /\ wire' = Append(wire, l)
      /\ UNCHANGED <<conn, bodyClosed, reader, held, chan, body, outcome>>
      /\ conn = "open"
  BY DEF Send, result
<1>3. InHand' = InHand /\ InHand \in Seq(Messages)
  BY <1>2 DEF InHand, TypeInv
<1>4. ASSUME Whole  PROVE Whole'
  <2>1. InHand \o Append(wire, l) = Append(InHand \o wire, l) /\ InHand \o wire \in Seq(Messages)
    BY <1>1, <1>3, AppendRight DEF TypeInv
  <2>2. /\ chan \o Append(InHand \o wire, l) = Append(chan \o (InHand \o wire), l)
        /\ chan \o (InHand \o wire) \in Seq(Messages)
    BY <2>1, <1>1, AppendRight, SMTT(60) DEF TypeInv
  <2>3. body \o Append(chan \o (InHand \o wire), l) = Append(body \o (chan \o (InHand \o wire)), l)
    BY <2>2, <1>1, AppendRight, SMTT(60) DEF TypeInv
  <2>4. reader # "ended"
    BY <1>2, <1>4 DEF Whole
  <2> QED BY <2>1, <2>2, <2>3, <2>4, <1>2, <1>3, <1>4 DEF Whole
<1>5. ASSUME Failed  PROVE Failed'
  BY <1>2, <1>5 DEF Failed
<1> QED BY <1>2, <1>4, <1>5 DEF WholeInv

\* A line that is read moves from the wire to the reader's hand.
LEMMA ReadWhole ==
  ASSUME TypeInv, WholeInv, ReadLine
  PROVE  WholeInv'
<1>1. /\ reader = "read" /\ wire # <<>> /\ held' = Head(wire) /\ wire' = Tail(wire)
      /\ reader' = "put"
      /\ UNCHANGED <<sent, conn, bodyClosed, chan, body, outcome>>
  BY DEF ReadLine, provider, result
<1>2. InHand = <<>> /\ InHand' = <<Head(wire)>>
  BY <1>1 DEF InHand
<1>3. ASSUME Whole  PROVE Whole'
  <2>1. InHand \o wire = wire
    BY <1>2, EmptyLeft DEF TypeInv
  <2>2. <<Head(wire)>> \o Tail(wire) = wire
    BY <1>1, SplitHead DEF TypeInv
  <2> QED BY <2>1, <2>2, <1>1, <1>2, <1>3 DEF Whole
<1>4. ASSUME Failed  PROVE Failed'
  BY <1>1, <1>4 DEF Failed
<1> QED BY <1>1, <1>3, <1>4 DEF WholeInv

\* The line in hand moves to the end of the channel.
LEMMA PutWhole ==
  ASSUME TypeInv, WholeInv, PutLine
  PROVE  WholeInv'
<1>1. /\ reader = "put" /\ chan' = Append(chan, held) /\ reader' = "read"
      /\ UNCHANGED <<sent, conn, bodyClosed, wire, body, outcome>>
  BY DEF PutLine, provider, result
<1>2. InHand = <<held>> /\ InHand' = <<>>
  BY <1>1 DEF InHand
<1>3. ASSUME Whole  PROVE Whole'
  <2>1. Append(chan, held) \o wire = chan \o (<<held>> \o wire)
    BY AppendMoves DEF TypeInv
  <2>2. <<>> \o wire = wire
    BY EmptyLeft DEF TypeInv
  <2> QED BY <2>1, <2>2, <1>1, <1>2, <1>3 DEF Whole
<1>4. ASSUME Failed  PROVE Failed'
  <2>1. PICK i \in 1..Len(chan) : chan[i].kind = "error"
    BY <1>4 DEF Failed
  <2>2. i \in 1..Len(chan') /\ chan'[i] = chan[i]
    BY <1>1 DEF TypeInv
  <2> QED BY <2>1, <2>2 DEF Failed
<1> QED BY <1>1, <1>3, <1>4 DEF WholeInv

\* A reader that stops at an error says so in the channel.
LEMMA FailWhole ==
  ASSUME TypeInv, WholeInv, ReadEOF \/ ReadError \/ PutError
  PROVE  WholeInv'
<1>1. UNCHANGED <<sent, conn, bodyClosed, wire, held, body, outcome>>
  BY DEF ReadEOF, ReadError, PutError, provider, result
<1>2. CASE ReadEOF \/ ReadError
  <2>1. chan' = chan /\ reader = "read" /\ reader' \in {"fail", "ended"}
    BY <1>2 DEF ReadEOF, ReadError
  <2>2. reader' = "ended" => wire = <<>> /\ conn = "eof"
    BY <1>2 DEF ReadEOF, ReadError
  <2>3. InHand' = InHand
    BY <2>1 DEF InHand
  <2> QED BY <1>1, <2>1, <2>2, <2>3 DEF WholeInv, Whole, Failed
<1>3. CASE PutError
  <2>1. chan' = Append(chan, ReadFailure)
    BY <1>3 DEF PutError
  <2>2. ReadFailure.kind = "error"
    BY DEF ReadFailure, NoLine
  <2>3. Len(chan) + 1 \in 1..Len(chan') /\ chan'[Len(chan) + 1] = ReadFailure
    BY <2>1 DEF TypeInv
  <2>4. Failed'
    BY <2>2, <2>3 DEF Failed
  <2> QED BY <1>1, <2>4 DEF WholeInv
<1> QED BY <1>2, <1>3

\* The handler takes the head of the channel, and goes on only if it is neither
\* an error nor a line it does not understand.
LEMMA ReceiveWhole ==
  ASSUME TypeInv, WholeInv, Receive
  PROVE  WholeInv'
<1>1. /\ outcome = "reading" /\ chan # <<>> /\ chan' = Tail(chan)
      /\ UNCHANGED <<sent, conn, bodyClosed, wire, reader, held>>
  BY DEF Receive, provider
<1>2. SUFFICES ASSUME outcome' = "reading"  PROVE WholeInv'
  BY DEF WholeInv
<1>3. /\ Head(chan).kind # "error" /\ Head(chan).kind # "bad"
      /\ body' = Append(body, Head(chan))
  BY <1>1, <1>2 DEF Receive, Return, HasPayload
<1>4. Head(chan) \in Messages /\ Tail(chan) \in Seq(Messages)
  BY <1>1 DEF TypeInv
<1>5. InHand' = InHand /\ InHand \in Seq(Messages) /\ InHand \o wire \in Seq(Messages)
  BY <1>1 DEF InHand, TypeInv
<1>6. ASSUME Whole  PROVE Whole'
  <2>1. body \in Seq(Messages) /\ chan \in Seq(Messages)
    BY DEF TypeInv
  <2>2. PICK x \in Messages, t \in Seq(Messages), r \in Seq(Messages) :
          x = Head(chan) /\ t = Tail(chan) /\ r = InHand \o wire
    BY <1>4, <1>5
  <2>3. chan = <<x>> \o t
    BY <2>1, <2>2, <1>1, SplitHead
  <2>4. Append(body, x) \o (t \o r) = body \o ((<<x>> \o t) \o r)
    BY <2>1, HandOver, SMTT(60)
  <2> QED BY <2>2, <2>3, <2>4, <1>1, <1>3, <1>5, <1>6 DEF Whole
<1>7. ASSUME Failed  PROVE Failed'
  <2>1. PICK i \in 1..Len(chan) : chan[i].kind = "error"
    BY <1>7 DEF Failed
  <2>2. i # 1
    BY <1>1, <1>3, <2>1 DEF TypeInv
  <2>3. i - 1 \in 1..Len(Tail(chan)) /\ Tail(chan)[i - 1] = chan[i]
    BY <1>1, <2>2 DEF TypeInv
  <2> QED BY <1>1, <2>1, <2>3 DEF Failed
<1>8. \A i \in 1..Len(body') : body'[i].kind # "bad"
  BY <1>1, <1>3, <1>4 DEF WholeInv, TypeInv
<1> QED BY <1>1, <1>6, <1>7, <1>8 DEF WholeInv

LEMMA WholeStep ==
  ASSUME TypeInv, WholeInv, [Next]_vars
  PROVE  WholeInv'
<1>1. CASE EndStream
  <2>1. /\ UNCHANGED <<sent, bodyClosed, wire, reader, held, chan, body, outcome>>
        /\ conn = "open"
    BY <1>1 DEF EndStream, result
  <2> QED BY <2>1 DEF WholeInv, Whole, Failed, InHand
<1>2. CASE Finish \/ IdleTimeout
  BY <1>2 DEF Finish, IdleTimeout, Return, WholeInv
<1>3. CASE CloseBody
  BY <1>3 DEF CloseBody, result, WholeInv
<1>4. CASE UNCHANGED vars
  BY <1>4 DEF vars, provider, result, WholeInv, Whole, Failed, InHand
<1> QED
  BY <1>1, <1>2, <1>3, <1>4, SendWhole, ReadWhole, PutWhole, FailWhole, ReceiveWhole
     DEF Next, Reader, Handler

\* A stream that is declared whole was whole, and ended by the provider.
LEMMA DeliverStep ==
  ASSUME TypeInv, WholeInv, OnlyWholeStreams, [Next]_vars
  PROVE  OnlyWholeStreams'
<1>1. CASE Finish
  <2>1. /\ outcome = "reading" /\ chan = <<>> /\ reader = "ended"
        /\ UNCHANGED <<sent, conn, body>>
    BY <1>1 DEF Finish, provider
  <2>2. ~Failed
    BY <2>1 DEF Failed
  <2>3. Whole /\ \A i \in 1..Len(body) : body[i].kind # "bad"
    BY <2>1, <2>2 DEF WholeInv
  <2>4. conn = "eof" /\ wire = <<>> /\ InHand = <<>>
    BY <2>1, <2>3 DEF Whole, InHand
  <2>5. body \o (<<>> \o (<<>> \o <<>>)) = body
    BY DEF TypeInv
  <2>6. body = sent
    BY <2>1, <2>3, <2>4, <2>5 DEF Whole
  <2> QED BY <2>1, <2>3, <2>4, <2>6 DEF OnlyWholeStreams
<1>2. CASE \E l \in Lines : Send(l)
  BY <1>2 DEF Send, result, OnlyWholeStreams
<1>3. CASE EndStream
  BY <1>3 DEF EndStream, result, OnlyWholeStreams
<1>4. CASE Reader
  BY <1>4 DEF Reader, ReadLine, ReadEOF, ReadError, PutLine, PutError, provider, result,
              OnlyWholeStreams
<1>5. CASE Receive
  <2>1. outcome' # "ok"
    BY <1>5 DEF Receive, Return, HasPayload
  <2> QED BY <2>1 DEF OnlyWholeStreams
<1>6. CASE IdleTimeout
  BY <1>6 DEF IdleTimeout, Return, OnlyWholeStreams
<1>7. CASE CloseBody
  BY <1>7 DEF CloseBody, provider, result, OnlyWholeStreams
<1>8. CASE UNCHANGED vars
  BY <1>8 DEF vars, provider, result, OnlyWholeStreams
<1> QED
  BY <1>1, <1>2, <1>3, <1>4, <1>5, <1>6, <1>7, <1>8 DEF Next, Handler

\* bufferSSEStream returns without an error only if the provider ended the
\* stream itself and every line of it is in the buffer, in order and
\* understood: whatever the channel's capacity, the limits and the timing.
THEOREM OnlyWholeStreamsDelivered == Spec => []OnlyWholeStreams
<1>1. Init => TypeInv /\ WholeInv /\ OnlyWholeStreams
  <2> SUFFICES ASSUME Init  PROVE TypeInv /\ WholeInv /\ OnlyWholeStreams
    OBVIOUS
  <2>1. TypeInv
    BY DEF Init, TypeInv, Messages
  <2>2. WholeInv
    BY DEF Init, WholeInv, Whole, Failed, InHand
  <2>3. OnlyWholeStreams
    BY DEF Init, OnlyWholeStreams
  <2> QED BY <2>1, <2>2, <2>3
<1>2. TypeInv /\ WholeInv /\ OnlyWholeStreams /\ [Next]_vars
        => (TypeInv /\ WholeInv /\ OnlyWholeStreams)'
  BY TypeStep, WholeStep, DeliverStep
<1> QED BY <1>1, <1>2, PTL DEF Spec

(***************************************************************************)
(* Induction over numbers, in the form of sets                             *)
(***************************************************************************)
Less == {ss \in Nat \X Nat : ss[1] < ss[2]}

\* A nonempty set of numbers has a least one.
LEMMA Least ==
  ASSUME NEW S \in SUBSET Nat, S # {}
  PROVE  \E m \in S : \A n \in S : m <= n
<1>1. IsWellFoundedOn(Less, Nat)
  <2>1. OpToRel(<, Nat) = Less
    BY DEF OpToRel, Less
  <2> QED BY <2>1, NatLessThanWellFounded
<1>2. PICK m \in S : \A n \in S : ~(<<n, m>> \in Less)
  BY <1>1, WFMin
<1>3. \A n \in S : ~(n < m)
  BY <1>2 DEF Less
<1> QED BY <1>3

\* Induction: a set of numbers with 0 and every successor holds every number.
LEMMA Induct ==
  ASSUME NEW T \in SUBSET Nat, 0 \in T, \A n \in T : n + 1 \in T
  PROVE  T = Nat
<1> DEFINE S == Nat \ T
<1>1. SUFFICES ASSUME S # {}  PROVE FALSE
  OBVIOUS
<1>2. PICK m \in S : \A n \in S : m <= n
  <2> HIDE DEF S
  <2> QED
    <3>1. S \in SUBSET Nat
      BY DEF S
    <3> QED BY <1>1, <3>1, Least
<1>3. m # 0 /\ m \in Nat /\ m \notin T
  BY <1>2
<1>4. m - 1 \in Nat /\ ~(m <= m - 1) /\ (m - 1) + 1 = m
  BY <1>3
<1>5. m - 1 \in T
  BY <1>2, <1>4
<1> QED BY <1>3, <1>4, <1>5

\* The values of a loop: h[i] is the value after i steps.
Iterates(h, V, v0, len, step) ==
  /\ h \in [0..len -> V] /\ h[0] = v0
  /\ \A i \in 1..len : h[i] = step[<<h[i - 1], i>>]

\* A recursive function whose step keeps a set has a value.
LEMMA Iteration ==
  ASSUME NEW V, NEW v0 \in V, NEW len \in Nat, NEW step \in [V \X (1..len) -> V]
  PROVE  \E h : Iterates(h, V, v0, len, step)
<1> DEFINE Up(n, h) == h[0] = v0 /\ \A i \in 1..n : h[i] = step[<<h[i - 1], i>>]
           T == {n \in Nat : n <= len => \E h \in [0..n -> V] : Up(n, h)}
<1>1. 0 \in T
  <2> DEFINE h == [i \in 0..0 |-> v0]
  <2>1. h \in [0..0 -> V] /\ Up(0, h)
    OBVIOUS
  <2> QED BY <2>1
<1>2. ASSUME NEW n \in T  PROVE n + 1 \in T
  <2>1. n \in Nat /\ (n <= len => \E h \in [0..n -> V] : Up(n, h))
    OBVIOUS
  <2>2. SUFFICES ASSUME n + 1 <= len  PROVE \E h \in [0..(n + 1) -> V] : Up(n + 1, h)
    BY <2>1
  <2>3. PICK g \in [0..n -> V] : Up(n, g)
    BY <2>1, <2>2
  <2> DEFINE h == [i \in 0..(n + 1) |-> IF i <= n THEN g[i] ELSE step[<<g[n], n + 1>>]]
  <2>4. g[n] \in V /\ n + 1 \in 1..len
    BY <2>1, <2>2, <2>3
  <2>5. h \in [0..(n + 1) -> V]
    BY <2>1, <2>3, <2>4
  <2>6. h[0] = v0
    BY <2>1, <2>3
  <2>7. ASSUME NEW i \in 1..(n + 1)  PROVE h[i] = step[<<h[i - 1], i>>]
    <3>1. CASE i = n + 1
      <4>1. n + 1 \in 0..(n + 1) /\ n \in 0..(n + 1) /\ n <= n /\ ~(n + 1 <= n) /\ (n + 1) - 1 = n
        BY <2>1
      <4>2. h[n + 1] = step[<<g[n], n + 1>>] /\ h[n] = g[n]
        BY <4>1
      <4> QED BY <3>1, <4>1, <4>2
    <3>2. CASE i # n + 1
      <4>1. i \in 1..n /\ i - 1 <= n /\ i <= n /\ i - 1 \in 0..(n + 1) /\ i \in 0..(n + 1)
        BY <2>1, <3>2
      <4>2. h[i] = g[i] /\ h[i - 1] = g[i - 1]
        BY <4>1
      <4> QED BY <2>3, <4>1, <4>2
    <3> QED BY <3>1, <3>2
  <2>8. Up(n + 1, h)
    BY <2>6, <2>7
  <2> HIDE DEF h, Up
  <2> QED BY <2>5, <2>8
<1>3. T = Nat
  <2>1. T \in SUBSET Nat
    OBVIOUS
  <2> HIDE DEF T
  <2> QED BY <1>1, <1>2, <2>1, Induct
<1>4. PICK h \in [0..len -> V] : Up(len, h)
  <2>1. len \in T
    BY <1>3
  <2> QED BY <2>1
<1> QED BY <1>4 DEF Iterates

(***************************************************************************)
(* The loops                                                               *)
(***************************************************************************)
\* Two runs of a loop that agree on their first steps agree on their values.
LEMMA SamePrefix ==
  ASSUME NEW V, NEW v0, NEW m \in Nat, NEW n \in Nat, m <= n,
         NEW f, NEW s, Iterates(f, V, v0, m, s),
         NEW g, NEW t, Iterates(g, V, v0, n, t),
         \A x \in V, i \in 1..m : s[<<x, i>>] = t[<<x, i>>]
  PROVE  f[m] = g[m]
<1> DEFINE T == {i \in Nat : i <= m => f[i] = g[i]}
<1>1. 0 \in T
  BY DEF Iterates
<1>2. ASSUME NEW i \in T  PROVE i + 1 \in T
  <2>1. i \in Nat /\ (i <= m => f[i] = g[i])
    OBVIOUS
  <2>2. SUFFICES ASSUME i + 1 <= m  PROVE f[i + 1] = g[i + 1]
    BY <2>1
  <2>3. i + 1 \in 1..m /\ i + 1 \in 1..n /\ (i + 1) - 1 = i /\ i \in 0..m /\ f[i] = g[i]
    BY <2>1, <2>2
  <2>4. f[i] \in V
    BY <2>3 DEF Iterates
  <2>5. f[i + 1] = s[<<f[i], i + 1>>] /\ g[i + 1] = t[<<g[i], i + 1>>]
    BY <2>3 DEF Iterates
  <2> QED BY <2>3, <2>4, <2>5
<1>3. T = Nat
  <2>1. T \in SUBSET Nat
    OBVIOUS
  <2> HIDE DEF T
  <2> QED BY <1>1, <1>2, <2>1, Induct
<1>4. m \in T /\ m <= m
  BY <1>3
<1> QED BY <1>4

\* The value of a loop after all of its steps.
LoopValue(V, v0, n, step) == (CHOOSE h : Iterates(h, V, v0, n, step))[n]

\* A loop has a value; with no step it is the first, with one more step it is
\* one step from the value before.
LEMMA LoopSteps ==
  ASSUME NEW V, NEW v0 \in V, NEW n \in Nat,
         NEW s \in [V \X (1..n) -> V], NEW t \in [V \X (1..(n + 1)) -> V],
         \A x \in V, i \in 1..n : s[<<x, i>>] = t[<<x, i>>]
  PROVE  /\ LoopValue(V, v0, n, s) \in V
         /\ LoopValue(V, v0, n + 1, t) = t[<<LoopValue(V, v0, n, s), n + 1>>]
<1> DEFINE f == CHOOSE h : Iterates(h, V, v0, n, s)
           g == CHOOSE h : Iterates(h, V, v0, n + 1, t)
<1>1. Iterates(f, V, v0, n, s)
  BY Iteration
<1>2. Iterates(g, V, v0, n + 1, t)
  <2>1. n + 1 \in Nat
    OBVIOUS
  <2> QED BY <2>1, Iteration
<1> HIDE DEF f, g
<1>3. f[n] = g[n]
  <2>1. n + 1 \in Nat /\ n <= n + 1
    OBVIOUS
  <2> QED BY <1>1, <1>2, <2>1, SamePrefix
<1>4. n \in 0..n /\ n + 1 \in 1..(n + 1) /\ (n + 1) - 1 = n
  OBVIOUS
<1>5. f[n] \in V
  BY <1>1, <1>4 DEF Iterates
<1>6. g[n + 1] = t[<<g[n], n + 1>>]
  BY <1>2, <1>4 DEF Iterates
<1> QED BY <1>3, <1>5, <1>6 DEF LoopValue, f, g

\* Whatever takes the steps of the loop has its values.
LEMMA LoopIs ==
  ASSUME NEW V, NEW v0 \in V, NEW n \in Nat, NEW s \in [V \X (1..n) -> V],
         NEW g, g[0] = v0,
         \A i \in 1..n : g[i - 1] \in V => g[i] = s[<<g[i - 1], i>>]
  PROVE  g[n] = LoopValue(V, v0, n, s)
<1> DEFINE f == CHOOSE h : Iterates(h, V, v0, n, s)
           T == {i \in Nat : i <= n => f[i] \in V /\ g[i] = f[i]}
<1>1. Iterates(f, V, v0, n, s)
  BY Iteration
<1> HIDE DEF f
<1>2. 0 \in T
  BY <1>1 DEF Iterates
<1>3. ASSUME NEW i \in T  PROVE i + 1 \in T
  <2>1. i \in Nat /\ (i <= n => f[i] \in V /\ g[i] = f[i])
    OBVIOUS
  <2>2. SUFFICES ASSUME i + 1 <= n  PROVE f[i + 1] \in V /\ g[i + 1] = f[i + 1]
    BY <2>1
  <2>3. i + 1 \in 1..n /\ i + 1 \in 0..n /\ (i + 1) - 1 = i /\ f[i] \in V /\ g[i] = f[i]
    BY <2>1, <2>2
  <2>4. g[i + 1] = s[<<g[i], i + 1>>]
    BY <2>3
  <2>5. f[i + 1] = s[<<f[i], i + 1>>] /\ f[i + 1] \in V
    BY <1>1, <2>3 DEF Iterates
  <2> QED BY <2>3, <2>4, <2>5
<1>4. T = Nat
  <2>1. T \in SUBSET Nat
    OBVIOUS
  <2> HIDE DEF T
  <2> QED BY <1>2, <1>3, <2>1, Induct
<1>5. n \in T /\ n <= n
  BY <1>4
<1> QED BY <1>5 DEF LoopValue, f

(***************************************************************************)
(* The deltas of the lines                                                 *)
(***************************************************************************)
LEMMA LineDeltasType ==
  ASSUME NEW l \in Messages
  PROVE  LineDeltas(l) \in Seq(Deltas)
<1>1. CASE l \in Lines
  <2>1. l.choices \in Seq(Seq(Deltas))
    BY <1>1, StreamAssumption
  <2>2. l.choices # <<>> => l.choices[1] \in Seq(Deltas)
    BY <2>1
  <2> QED BY <2>2 DEF LineDeltas, ParseStreamEvent
<1>2. CASE l \in {NoLine, ReadFailure}
  BY <1>2 DEF NoLine, ReadFailure, LineDeltas
<1> QED BY <1>1, <1>2 DEF Messages

DeltaStep(lines) ==
  [p \in Seq(Deltas) \X (1..Len(lines)) |-> p[1] \o LineDeltas(lines[p[2]])]

LEMMA DeltaStepType ==
  ASSUME NEW lines \in Seq(Messages)
  PROVE  DeltaStep(lines) \in [Seq(Deltas) \X (1..Len(lines)) -> Seq(Deltas)]
<1>1. ASSUME NEW p \in Seq(Deltas) \X (1..Len(lines))
      PROVE  p[1] \o LineDeltas(lines[p[2]]) \in Seq(Deltas)
  <2>1. p[1] \in Seq(Deltas) /\ lines[p[2]] \in Messages
    OBVIOUS
  <2>2. LineDeltas(lines[p[2]]) \in Seq(Deltas)
    BY <2>1, LineDeltasType
  <2> HIDE DEF Deltas
  <2> QED BY <2>1, <2>2
<1> QED BY <1>1 DEF DeltaStep

LEMMA DeltasOfIs ==
  ASSUME NEW lines \in Seq(Messages)
  PROVE  DeltasOf(lines) = LoopValue(Seq(Deltas), <<>>, Len(lines), DeltaStep(lines))
<1> DEFINE n == Len(lines)
           V == Seq(Deltas)
           step == DeltaStep(lines)
           Loop(all) == all = [k \in 0..n |->
             IF k = 0 THEN <<>> ELSE all[k - 1] \o LineDeltas(lines[k])]
           all == CHOOSE h : Loop(h)
<1>1. n \in Nat /\ <<>> \in V /\ step \in [V \X (1..n) -> V]
  <2>1. n \in Nat /\ <<>> \in V
    OBVIOUS
  <2>2. step \in [V \X (1..n) -> V]
    BY DeltaStepType
  <2> HIDE DEF n, V, step
  <2> QED BY <2>1, <2>2
<1>2. DeltasOf(lines) = all[n]
  BY DEF DeltasOf
<1>3. \A x \in V, k \in 1..n : step[<<x, k>>] = x \o LineDeltas(lines[k])
  BY DEF DeltaStep
<1> HIDE DEF n, V, step
<1>4. PICK h : Iterates(h, V, <<>>, n, step)
  BY <1>1, Iteration
<1>5. Loop(h)
  <2>1. h \in [0..n -> V] /\ h[0] = <<>>
    BY <1>4 DEF Iterates
  <2>2. \A k \in 0..n : k # 0 => k \in 1..n /\ k - 1 \in 0..n
    BY <1>1
  <2>3. \A k \in 1..n : h[k - 1] \in V => h[k] = h[k - 1] \o LineDeltas(lines[k])
    BY <1>3, <1>4 DEF Iterates
  <2>4. \A k \in 0..n : h[k] = IF k = 0 THEN <<>> ELSE h[k - 1] \o LineDeltas(lines[k])
    BY <2>1, <2>2, <2>3
  <2> QED BY <2>1, <2>4
<1>6. Loop(all)
  <2> HIDE DEF Loop
  <2> QED BY <1>5
<1>7. all[0] = <<>> /\ \A k \in 1..n : all[k] = all[k - 1] \o LineDeltas(lines[k])
  <2> HIDE DEF all
  <2>1. 0 \in 0..n /\ \A k \in 1..n : k \in 0..n /\ k # 0
    BY <1>1
  <2> QED BY <1>6, <2>1
<1> HIDE DEF all, Loop
<1>8. \A k \in 1..n : all[k - 1] \in V => all[k] = step[<<all[k - 1], k>>]
  BY <1>3, <1>7
<1>9. all[n] = LoopValue(V, <<>>, n, step)
  BY <1>1, <1>7, <1>8, LoopIs
<1> QED BY <1>2, <1>9 DEF n, V, step

LEMMA DeltasOfAppend ==
  ASSUME NEW lines \in Seq(Messages), NEW l \in Messages
  PROVE  /\ DeltasOf(lines) \in Seq(Deltas)
         /\ DeltasOf(Append(lines, l)) = DeltasOf(lines) \o LineDeltas(l)
<1> DEFINE n == Len(lines)
           V == Seq(Deltas)
           more == Append(lines, l)
           s == DeltaStep(lines)
           t == DeltaStep(more)
<1>1. more \in Seq(Messages) /\ n \in Nat /\ Len(more) = n + 1 /\ more[n + 1] = l
  OBVIOUS
<1>2. s \in [V \X (1..n) -> V] /\ t \in [V \X (1..(n + 1)) -> V] /\ <<>> \in V
  <2>1. <<>> \in V
    OBVIOUS
  <2>2. s \in [V \X (1..n) -> V]
    BY DeltaStepType
  <2>3. t \in [V \X (1..Len(more)) -> V]
    <3> HIDE DEF more
    <3> QED BY <1>1, DeltaStepType
  <2> HIDE DEF n, V, s, t, more
  <2> QED BY <1>1, <2>1, <2>2, <2>3
<1>3. \A x \in V, i \in 1..n : s[<<x, i>>] = x \o LineDeltas(lines[i])
  BY DEF DeltaStep
<1>4. \A x \in V, i \in 1..(n + 1) : t[<<x, i>>] = x \o LineDeltas(more[i])
  BY <1>1 DEF DeltaStep
<1>5. \A i \in 1..n : more[i] = lines[i] /\ i \in 1..(n + 1)
  OBVIOUS
<1>6. DeltasOf(lines) = LoopValue(V, <<>>, n, s)
  BY DeltasOfIs
<1>7. DeltasOf(more) = LoopValue(V, <<>>, n + 1, t)
  BY <1>1, DeltasOfIs
<1> HIDE DEF n, V, s, t, more
<1>8. \A x \in V, i \in 1..n : s[<<x, i>>] = t[<<x, i>>]
  BY <1>3, <1>4, <1>5
<1>9. /\ LoopValue(V, <<>>, n, s) \in V
      /\ LoopValue(V, <<>>, n + 1, t) = t[<<LoopValue(V, <<>>, n, s), n + 1>>]
  BY <1>1, <1>2, <1>8, LoopSteps
<1>10. n + 1 \in 1..(n + 1)
  BY <1>1
<1> QED BY <1>1, <1>4, <1>6, <1>7, <1>9, <1>10 DEF V, more

LEMMA DeltasOfNothing == DeltasOf(<<>>) = <<>>
<1> DEFINE Loop(all) == all = [k \in 0..0 |->
             IF k = 0 THEN <<>> ELSE all[k - 1] \o LineDeltas(<<>>[k])]
           all == CHOOSE h : Loop(h)
           one == [k \in 0..0 |-> <<>>]
<1>1. Len(<<>>) = 0
  OBVIOUS
<1>2. DeltasOf(<<>>) = all[0]
  BY <1>1 DEF DeltasOf
<1>3. Loop(one)
  OBVIOUS
<1>4. Loop(all)
  <2> HIDE DEF Loop, one
  <2> QED BY <1>3
<1>5. all[0] = <<>>
  <2> HIDE DEF all
  <2> QED BY <1>4
<1> QED BY <1>2, <1>5

(***************************************************************************)
(* The fragments of one call                                               *)
(***************************************************************************)
Joined(x, d, i) == IF d.index = i THEN x \o d.args ELSE x

JoinStep(ds, i) ==
  [p \in Seq(Texts) \X (1..Len(ds)) |-> Joined(p[1], ds[p[2]], i)]

LEMMA JoinStepType ==
  ASSUME NEW ds \in Seq(Deltas), NEW i
  PROVE  JoinStep(ds, i) \in [Seq(Texts) \X (1..Len(ds)) -> Seq(Texts)]
<1>1. ASSUME NEW p \in Seq(Texts) \X (1..Len(ds))
      PROVE  Joined(p[1], ds[p[2]], i) \in Seq(Texts)
  <2>1. p[1] \in Seq(Texts) /\ ds[p[2]] \in Deltas
    OBVIOUS
  <2>2. ds[p[2]].args \in Seq(Texts)
    BY <2>1 DEF Deltas
  <2>3. p[1] \o ds[p[2]].args \in Seq(Texts)
    BY <2>1, <2>2
  <2> QED BY <2>1, <2>3 DEF Joined
<1> QED BY <1>1 DEF JoinStep

LEMMA ArgumentsIs ==
  ASSUME NEW ds \in Seq(Deltas), NEW i
  PROVE  Arguments(ds, i) = LoopValue(Seq(Texts), <<>>, Len(ds), JoinStep(ds, i))
<1> DEFINE n == Len(ds)
           V == Seq(Texts)
           step == JoinStep(ds, i)
           Loop(joined) == joined = [k \in 0..n |->
             IF k = 0 THEN <<>>
             ELSE IF ds[k].index = i THEN joined[k - 1] \o ds[k].args ELSE joined[k - 1]]
           joined == CHOOSE h : Loop(h)
<1>1. n \in Nat /\ <<>> \in V /\ step \in [V \X (1..n) -> V]
  <2>1. n \in Nat /\ <<>> \in V
    OBVIOUS
  <2>2. step \in [V \X (1..n) -> V]
    BY JoinStepType
  <2> HIDE DEF n, V, step
  <2> QED BY <2>1, <2>2
<1>2. Arguments(ds, i) = joined[n]
  BY DEF Arguments
<1>3. \A x \in V, k \in 1..n : step[<<x, k>>] = Joined(x, ds[k], i)
  BY DEF JoinStep
<1> HIDE DEF n, V, step
<1>4. PICK h : Iterates(h, V, <<>>, n, step)
  BY <1>1, Iteration
<1>5. Loop(h)
  <2>1. h \in [0..n -> V] /\ h[0] = <<>>
    BY <1>4 DEF Iterates
  <2>2. \A k \in 0..n : k # 0 => k \in 1..n /\ k - 1 \in 0..n
    BY <1>1
  <2>3. \A k \in 1..n : h[k - 1] \in V => h[k] = Joined(h[k - 1], ds[k], i)
    BY <1>3, <1>4 DEF Iterates
  <2>4. \A k \in 0..n : h[k] = IF k = 0 THEN <<>> ELSE Joined(h[k - 1], ds[k], i)
    BY <2>1, <2>2, <2>3
  <2> QED BY <2>1, <2>4 DEF Joined
<1>6. Loop(joined)
  <2> HIDE DEF Loop
  <2> QED BY <1>5
<1>7. joined[0] = <<>> /\ \A k \in 1..n : joined[k] = Joined(joined[k - 1], ds[k], i)
  <2> HIDE DEF joined
  <2>1. 0 \in 0..n /\ \A k \in 1..n : k \in 0..n /\ k # 0
    BY <1>1
  <2> QED BY <1>6, <2>1 DEF Joined
<1> HIDE DEF joined, Loop
<1>8. \A k \in 1..n : joined[k - 1] \in V => joined[k] = step[<<joined[k - 1], k>>]
  BY <1>3, <1>7
<1>9. joined[n] = LoopValue(V, <<>>, n, step)
  BY <1>1, <1>7, <1>8, LoopIs
<1> QED BY <1>2, <1>9 DEF n, V, step

LEMMA ArgumentsAppend ==
  ASSUME NEW ds \in Seq(Deltas), NEW d \in Deltas, NEW i
  PROVE  /\ Arguments(ds, i) \in Seq(Texts)
         /\ Arguments(Append(ds, d), i) = Joined(Arguments(ds, i), d, i)
<1> DEFINE n == Len(ds)
           V == Seq(Texts)
           more == Append(ds, d)
           s == JoinStep(ds, i)
           t == JoinStep(more, i)
<1>1. more \in Seq(Deltas) /\ n \in Nat /\ Len(more) = n + 1 /\ more[n + 1] = d
  OBVIOUS
<1>2. s \in [V \X (1..n) -> V] /\ t \in [V \X (1..(n + 1)) -> V] /\ <<>> \in V
  <2>1. <<>> \in V
    OBVIOUS
  <2>2. s \in [V \X (1..n) -> V]
    BY JoinStepType
  <2>3. t \in [V \X (1..Len(more)) -> V]
    <3> HIDE DEF more
    <3> QED BY <1>1, JoinStepType
  <2> HIDE DEF n, V, s, t, more
  <2> QED BY <1>1, <2>1, <2>2, <2>3
<1>3. \A x \in V, k \in 1..n : s[<<x, k>>] = Joined(x, ds[k], i)
  BY DEF JoinStep
<1>4. \A x \in V, k \in 1..(n + 1) : t[<<x, k>>] = Joined(x, more[k], i)
  <2> HIDE DEF more
  <2> QED BY <1>1 DEF JoinStep
<1>5. \A k \in 1..n : more[k] = ds[k] /\ k \in 1..(n + 1)
  OBVIOUS
<1>6. Arguments(ds, i) = LoopValue(V, <<>>, n, s)
  BY ArgumentsIs
<1>7. Arguments(more, i) = LoopValue(V, <<>>, n + 1, t)
  <2> HIDE DEF more
  <2> QED BY <1>1, ArgumentsIs
<1> HIDE DEF n, V, s, t, more
<1>8. \A x \in V, k \in 1..n : s[<<x, k>>] = t[<<x, k>>]
  BY <1>3, <1>4, <1>5
<1>9. /\ LoopValue(V, <<>>, n, s) \in V
      /\ LoopValue(V, <<>>, n + 1, t) = t[<<LoopValue(V, <<>>, n, s), n + 1>>]
  BY <1>1, <1>2, <1>8, LoopSteps
<1>10. n + 1 \in 1..(n + 1)
  BY <1>1
<1> QED BY <1>1, <1>4, <1>6, <1>7, <1>9, <1>10 DEF V, more

LEMMA ArgumentsOfNothing == ASSUME NEW i PROVE Arguments(<<>>, i) = <<>>
<1> DEFINE Loop(joined) == joined = [k \in 0..0 |->
             IF k = 0 THEN <<>>
             ELSE IF <<>>[k].index = i THEN joined[k - 1] \o <<>>[k].args ELSE joined[k - 1]]
           joined == CHOOSE h : Loop(h)
           one == [k \in 0..0 |-> <<>>]
<1>1. Len(<<>>) = 0
  OBVIOUS
<1>2. Arguments(<<>>, i) = joined[0]
  BY <1>1 DEF Arguments
<1>3. Loop(one)
  OBVIOUS
<1>4. Loop(joined)
  <2> HIDE DEF Loop, one
  <2> QED BY <1>3
<1>5. joined[0] = <<>>
  <2> HIDE DEF joined
  <2> QED BY <1>4
<1> QED BY <1>2, <1>5

(***************************************************************************)
(* The accumulators                                                        *)
(***************************************************************************)
CallRecords == [id : Texts, name : Texts, args : Seq(Texts)]
Accs == UNION {[S -> CallRecords] : S \in SUBSET Int}

LEMMA AccumulateType ==
  ASSUME NEW a \in Accs, NEW d \in Deltas
  PROVE  Accumulate(a, d) \in Accs
<1> DEFINE acc == IF d.index \in DOMAIN a THEN a[d.index] ELSE NoCall
           new == [id |-> IF d.id # "" THEN d.id ELSE acc.id,
                   name |-> IF d.name # "" THEN d.name ELSE acc.name,
                   args |-> acc.args \o d.args]
           D == DOMAIN a \cup {d.index}
<1>1. PICK S \in SUBSET Int : a \in [S -> CallRecords]
  BY DEF Accs
<1>2. d.index \in Int /\ d.id \in Texts /\ d.name \in Texts /\ d.args \in Seq(Texts)
  BY DEF Deltas
<1>3. acc \in CallRecords
  <2>1. NoCall \in CallRecords
    <3>1. "" \in Texts
      BY StreamAssumption
    <3>2. \A T : <<>> \in Seq(T)
      OBVIOUS
    <3> QED BY <3>1, <3>2 DEF NoCall, CallRecords
  <2>2. d.index \in DOMAIN a => a[d.index] \in CallRecords
    BY <1>1
  <2> QED BY <2>1, <2>2
<1> HIDE DEF acc
<1>4. acc.id \in Texts /\ acc.name \in Texts /\ acc.args \in Seq(Texts)
  BY <1>3 DEF CallRecords
<1>5. acc.args \o d.args \in Seq(Texts)
  BY <1>2, <1>4
<1>6. new \in CallRecords
  <2>1. /\ (IF d.id # "" THEN d.id ELSE acc.id) \in Texts
        /\ (IF d.name # "" THEN d.name ELSE acc.name) \in Texts
    BY <1>2, <1>4
  <2> QED BY <1>5, <2>1 DEF CallRecords
<1>7. D \in SUBSET Int
  BY <1>1, <1>2
<1>8. \A i \in D : i # d.index => a[i] \in CallRecords
  BY <1>1
<1> HIDE DEF new, D
<1>9. [i \in D |-> IF i = d.index THEN new ELSE a[i]] \in [D -> CallRecords]
  BY <1>6, <1>8
<1>10. Accumulate(a, d) = [i \in D |-> IF i = d.index THEN new ELSE a[i]]
  BY DEF Accumulate, new, acc, D
<1> QED BY <1>7, <1>9, <1>10 DEF Accs

AccStep(ds) == [p \in Accs \X (1..Len(ds)) |-> Accumulate(p[1], ds[p[2]])]

LEMMA AccStepType ==
  ASSUME NEW ds \in Seq(Deltas)
  PROVE  AccStep(ds) \in [Accs \X (1..Len(ds)) -> Accs]
<1>1. ASSUME NEW p \in Accs \X (1..Len(ds))
      PROVE  Accumulate(p[1], ds[p[2]]) \in Accs
  <2>1. p[1] \in Accs /\ ds[p[2]] \in Deltas
    OBVIOUS
  <2> QED BY <2>1, AccumulateType
<1> QED BY <1>1 DEF AccStep

LEMMA AccumulateAllIs ==
  ASSUME NEW a \in Accs, NEW ds \in Seq(Deltas)
  PROVE  AccumulateAll(a, ds) = LoopValue(Accs, a, Len(ds), AccStep(ds))
<1> DEFINE n == Len(ds)
           V == Accs
           step == AccStep(ds)
           Loop(after) == after = [k \in 0..n |->
             IF k = 0 THEN a ELSE Accumulate(after[k - 1], ds[k])]
           after == CHOOSE h : Loop(h)
<1>1. n \in Nat /\ a \in V /\ step \in [V \X (1..n) -> V]
  <2>1. n \in Nat /\ a \in V
    OBVIOUS
  <2>2. step \in [V \X (1..n) -> V]
    BY AccStepType
  <2> HIDE DEF n, V, step
  <2> QED BY <2>1, <2>2
<1>2. AccumulateAll(a, ds) = after[n]
  BY DEF AccumulateAll
<1>3. \A x \in V, k \in 1..n : step[<<x, k>>] = Accumulate(x, ds[k])
  BY DEF AccStep
<1> HIDE DEF n, V, step
<1>4. PICK h : Iterates(h, V, a, n, step)
  BY <1>1, Iteration
<1>5. Loop(h)
  <2>1. h \in [0..n -> V] /\ h[0] = a
    BY <1>4 DEF Iterates
  <2>2. \A k \in 0..n : k # 0 => k \in 1..n /\ k - 1 \in 0..n
    BY <1>1
  <2>3. \A k \in 1..n : h[k - 1] \in V => h[k] = Accumulate(h[k - 1], ds[k])
    BY <1>3, <1>4 DEF Iterates
  <2>4. \A k \in 0..n : h[k] = IF k = 0 THEN a ELSE Accumulate(h[k - 1], ds[k])
    BY <2>1, <2>2, <2>3
  <2> QED BY <2>1, <2>4
<1>6. Loop(after)
  <2> HIDE DEF Loop
  <2> QED BY <1>5
<1>7. after[0] = a /\ \A k \in 1..n : after[k] = Accumulate(after[k - 1], ds[k])
  <2> HIDE DEF after
  <2>1. 0 \in 0..n /\ \A k \in 1..n : k \in 0..n /\ k # 0
    BY <1>1
  <2> QED BY <1>6, <2>1
<1> HIDE DEF after, Loop
<1>8. \A k \in 1..n : after[k - 1] \in V => after[k] = step[<<after[k - 1], k>>]
  BY <1>3, <1>7
<1>9. after[n] = LoopValue(V, a, n, step)
  BY <1>1, <1>7, <1>8, LoopIs
<1> QED BY <1>2, <1>9 DEF n, V, step

LEMMA AccumulateAllAppend ==
  ASSUME NEW a \in Accs, NEW ds \in Seq(Deltas), NEW d \in Deltas
  PROVE  /\ AccumulateAll(a, ds) \in Accs
         /\ AccumulateAll(a, Append(ds, d)) = Accumulate(AccumulateAll(a, ds), d)
<1> DEFINE n == Len(ds)
           V == Accs
           more == Append(ds, d)
           s == AccStep(ds)
           t == AccStep(more)
<1>1. more \in Seq(Deltas) /\ n \in Nat /\ Len(more) = n + 1 /\ more[n + 1] = d
  OBVIOUS
<1>2. s \in [V \X (1..n) -> V] /\ t \in [V \X (1..(n + 1)) -> V] /\ a \in V
  <2>1. a \in V
    OBVIOUS
  <2>2. s \in [V \X (1..n) -> V]
    BY AccStepType
  <2>3. t \in [V \X (1..Len(more)) -> V]
    <3> HIDE DEF more
    <3> QED BY <1>1, AccStepType
  <2> HIDE DEF n, V, s, t, more
  <2> QED BY <1>1, <2>1, <2>2, <2>3
<1>3. \A x \in V, k \in 1..n : s[<<x, k>>] = Accumulate(x, ds[k])
  BY DEF AccStep
<1>4. \A x \in V, k \in 1..(n + 1) : t[<<x, k>>] = Accumulate(x, more[k])
  <2> HIDE DEF more
  <2> QED BY <1>1 DEF AccStep
<1>5. \A k \in 1..n : more[k] = ds[k] /\ k \in 1..(n + 1)
  OBVIOUS
<1>6. AccumulateAll(a, ds) = LoopValue(V, a, n, s)
  BY AccumulateAllIs
<1>7. AccumulateAll(a, more) = LoopValue(V, a, n + 1, t)
  <2> HIDE DEF more
  <2> QED BY <1>1, AccumulateAllIs
<1> HIDE DEF n, V, s, t, more
<1>8. \A x \in V, k \in 1..n : s[<<x, k>>] = t[<<x, k>>]
  BY <1>3, <1>4, <1>5
<1>9. /\ LoopValue(V, a, n, s) \in V
      /\ LoopValue(V, a, n + 1, t) = t[<<LoopValue(V, a, n, s), n + 1>>]
  BY <1>1, <1>2, <1>8, LoopSteps
<1>10. n + 1 \in 1..(n + 1)
  BY <1>1
<1> QED BY <1>1, <1>4, <1>6, <1>7, <1>9, <1>10 DEF V, more

LEMMA AccumulateNothing == ASSUME NEW a PROVE AccumulateAll(a, <<>>) = a
<1> DEFINE Loop(after) == after = [k \in 0..0 |->
             IF k = 0 THEN a ELSE Accumulate(after[k - 1], <<>>[k])]
           after == CHOOSE h : Loop(h)
           one == [k \in 0..0 |-> a]
<1>1. Len(<<>>) = 0
  OBVIOUS
<1>2. AccumulateAll(a, <<>>) = after[0]
  BY <1>1 DEF AccumulateAll
<1>3. Loop(one)
  OBVIOUS
<1>4. Loop(after)
  <2> HIDE DEF Loop, one
  <2> QED BY <1>3
<1>5. after[0] = a
  <2> HIDE DEF after
  <2> QED BY <1>4
<1> QED BY <1>2, <1>5

\* A nonempty bounded set of numbers has a greatest one.
LEMMA Greatest ==
  ASSUME NEW n \in Nat, NEW S \in SUBSET (1..n), S # {}
  PROVE  Max(S) \in S /\ \A k \in S : Max(S) >= k
<1> DEFINE R == {r \in Nat : n - r \in S}
<1>1. R \in SUBSET Nat
  OBVIOUS
<1>2. R # {}
  <2>1. PICK k \in S : TRUE
    OBVIOUS
  <2>2. n - k \in Nat /\ n - (n - k) = k
    OBVIOUS
  <2>3. n - k \in R
    BY <2>2
  <2> QED BY <2>3
<1>3. PICK r \in R : \A q \in R : r <= q
  <2> HIDE DEF R
  <2> QED BY <1>1, <1>2, Least
<1>4. n - r \in S /\ r \in Nat
  BY <1>3
<1>5. \A k \in S : n - k \in R
  <2>1. TAKE k \in S
  <2>2. n - k \in Nat /\ n - (n - k) = k
    OBVIOUS
  <2> QED BY <2>2
<1>6. \A k \in S : n - r >= k
  BY <1>3, <1>4, <1>5
<1> QED BY <1>4, <1>6 DEF Max

\* The last value given to a field, with one delta more.
LEMMA LastSetAppend ==
  ASSUME NEW ds \in Seq(Deltas), NEW d \in Deltas, NEW i, NEW field
  PROVE  LastSet(Append(ds, d), i, field) =
           IF d.index = i /\ d[field] # "" THEN d[field] ELSE LastSet(ds, i, field)
<1> DEFINE n == Len(ds)
           more == Append(ds, d)
           Set(q) == {k \in 1..Len(q) : q[k].index = i /\ q[k][field] # ""}
<1>1. n \in Nat /\ Len(more) = n + 1 /\ more[n + 1] = d
  OBVIOUS
<1>2. \A k \in 1..n : more[k] = ds[k]
  OBVIOUS
<1>3. \A k \in 1..(n + 1) : k \in 1..n \/ k = n + 1
  BY <1>1
<1>4. \A q : LastSet(q, i, field) = IF Set(q) = {} THEN "" ELSE q[Max(Set(q))][field]
  BY DEF LastSet
<1> HIDE DEF more
<1>5. /\ \A k : k \in Set(more) <=> k \in 1..(n + 1) /\ more[k].index = i /\ more[k][field] # ""
      /\ \A k : k \in Set(ds) <=> k \in 1..n /\ ds[k].index = i /\ ds[k][field] # ""
      /\ Set(more) \in SUBSET (1..(n + 1)) /\ Set(ds) \in SUBSET (1..n)
  BY <1>1
<1> HIDE DEF Set, n
<1>8. n \in Nat /\ n + 1 \in 1..(n + 1) /\ more[n + 1] = d
  BY <1>1
<1>9. n + 1 \in Nat /\ \A k \in 1..n : k \in 1..(n + 1)
  BY <1>8
<1>6. CASE d.index = i /\ d[field] # ""
  <2>1. n + 1 \in Set(more)
    <3>1. n + 1 \in 1..(n + 1) /\ more[n + 1].index = i /\ more[n + 1][field] # ""
      BY <1>8, <1>6
    <3> QED BY <1>5, <3>1
  <2>2. Set(more) \in SUBSET (1..(n + 1)) /\ Set(more) # {} /\ n + 1 \in Nat
    BY <1>5, <1>9, <2>1
  <2>3. Max(Set(more)) \in Set(more) /\ \A k \in Set(more) : Max(Set(more)) >= k
    BY <2>2, Greatest
  <2>4. Max(Set(more)) = n + 1
    BY <1>8, <2>1, <2>2, <2>3
  <2>5. LastSet(more, i, field) = d[field]
    BY <1>8, <1>4, <2>2, <2>4
  <2> QED BY <1>6, <2>5 DEF more
<1>7. CASE ~(d.index = i /\ d[field] # "")
  <2>1. \A k \in Set(more) : k \in Set(ds)
    <3>1. TAKE k \in Set(more)
    <3>2. k \in 1..(n + 1) /\ more[k].index = i /\ more[k][field] # ""
      BY <1>8, <1>5
    <3>3. k # n + 1
      BY <1>8, <1>7, <3>2
    <3>4. k \in 1..n
      BY <1>3, <3>2, <3>3
    <3> QED BY <1>2, <1>5, <3>2, <3>4
  <2>2. \A k \in Set(ds) : k \in Set(more)
    <3>1. TAKE k \in Set(ds)
    <3>2. k \in 1..n /\ ds[k].index = i /\ ds[k][field] # ""
      BY <1>5
    <3>3. k \in 1..(n + 1) /\ more[k] = ds[k]
      BY <1>2, <1>9, <3>2
    <3> QED BY <1>5, <3>2, <3>3
  <2>3. Set(more) = Set(ds)
    BY <2>1, <2>2
  <2>4. Set(ds) # {} => Max(Set(ds)) \in 1..n
    BY <1>8, <1>5, Greatest
  <2>5. LastSet(more, i, field) = LastSet(ds, i, field)
    BY <1>2, <1>4, <2>3, <2>4
  <2> QED BY <1>7, <2>5 DEF more
<1> QED BY <1>6, <1>7

(***************************************************************************)
(* The accumulators stand for the deltas                                   *)
(***************************************************************************)
Indices(ds) == {ds[k].index : k \in 1..Len(ds)}

\* What the deltas say of the call with index i.
CallOf(ds, i) ==
  [id |-> LastSet(ds, i, "id"), name |-> LastSet(ds, i, "name"), args |-> Arguments(ds, i)]

\* There is an accumulator for every index that occurred, and it has what the
\* deltas say of that call; of other indices they say nothing.
Represents(a, ds) ==
  /\ a \in Accs /\ DOMAIN a = Indices(ds)
  /\ \A i \in Indices(ds) : a[i] = CallOf(ds, i)
  /\ \A i : i \notin Indices(ds) => CallOf(ds, i) = NoCall

LEMMA IndicesAppend ==
  ASSUME NEW ds \in Seq(Deltas), NEW d \in Deltas
  PROVE  Indices(Append(ds, d)) = Indices(ds) \cup {d.index}
<1> DEFINE n == Len(ds)
           more == Append(ds, d)
<1>1. n \in Nat /\ Len(more) = n + 1 /\ more[n + 1] = d
  OBVIOUS
<1>2. \A k \in 1..n : more[k] = ds[k]
  OBVIOUS
<1>3. /\ Indices(more) = {more[k].index : k \in 1..(n + 1)}
      /\ Indices(ds) = {ds[k].index : k \in 1..n}
  BY <1>1 DEF Indices
<1> HIDE DEF n, more
<1>4. n + 1 \in 1..(n + 1) /\ more[n + 1] = d
  BY <1>1
<1>5. \A k \in 1..(n + 1) : k \in 1..n \/ k = n + 1
  BY <1>1
<1>6. \A k \in 1..n : k \in 1..(n + 1)
  BY <1>1
<1>7. \A x \in Indices(more) : x \in Indices(ds) \cup {d.index}
  <2>1. TAKE x \in Indices(more)
  <2>2. PICK k \in 1..(n + 1) : x = more[k].index
    BY <1>3
  <2>3. CASE k \in 1..n
    BY <1>2, <1>3, <2>2, <2>3
  <2>4. CASE k = n + 1
    BY <1>4, <2>2, <2>4
  <2> QED BY <1>5, <2>3, <2>4
<1>8. d.index \in Indices(more)
  BY <1>3, <1>4
<1>9. \A x \in Indices(ds) : x \in Indices(more)
  <2>1. TAKE x \in Indices(ds)
  <2>2. PICK k \in 1..n : x = ds[k].index
    BY <1>3
  <2>3. x = more[k].index /\ k \in 1..(n + 1)
    BY <1>2, <1>6, <2>2
  <2> QED BY <1>3, <2>3
<1> QED BY <1>7, <1>8, <1>9 DEF more

\* One delta more.
LEMMA CallOfAppend ==
  ASSUME NEW ds \in Seq(Deltas), NEW d \in Deltas, NEW i
  PROVE  CallOf(Append(ds, d), i) =
           IF d.index # i THEN CallOf(ds, i)
           ELSE [id |-> IF d.id # "" THEN d.id ELSE CallOf(ds, i).id,
                 name |-> IF d.name # "" THEN d.name ELSE CallOf(ds, i).name,
                 args |-> CallOf(ds, i).args \o d.args]
<1> DEFINE more == Append(ds, d)
<1>1. LastSet(more, i, "id") =
        IF d.index = i /\ d.id # "" THEN d.id ELSE LastSet(ds, i, "id")
  BY LastSetAppend
<1>2. LastSet(more, i, "name") =
        IF d.index = i /\ d.name # "" THEN d.name ELSE LastSet(ds, i, "name")
  BY LastSetAppend
<1>3. Arguments(more, i) = IF d.index = i THEN Arguments(ds, i) \o d.args ELSE Arguments(ds, i)
  BY ArgumentsAppend DEF Joined
<1>4. CallOf(more, i) = [id |-> LastSet(more, i, "id"), name |-> LastSet(more, i, "name"),
                         args |-> Arguments(more, i)]
  BY DEF CallOf
<1>5. /\ CallOf(ds, i).id = LastSet(ds, i, "id")
      /\ CallOf(ds, i).name = LastSet(ds, i, "name")
      /\ CallOf(ds, i).args = Arguments(ds, i)
  BY DEF CallOf
<1> HIDE DEF more
<1>6. CASE d.index # i
  <2>1. CallOf(more, i) = CallOf(ds, i)
    BY <1>1, <1>2, <1>3, <1>4, <1>6 DEF CallOf
  <2> QED BY <1>6, <2>1 DEF more
<1>7. CASE d.index = i
  <2>1. /\ LastSet(more, i, "id") = IF d.id # "" THEN d.id ELSE CallOf(ds, i).id
        /\ LastSet(more, i, "name") = IF d.name # "" THEN d.name ELSE CallOf(ds, i).name
        /\ Arguments(more, i) = CallOf(ds, i).args \o d.args
    BY <1>1, <1>2, <1>3, <1>5, <1>7
  <2> QED BY <1>4, <1>7, <2>1 DEF more
<1> QED BY <1>6, <1>7

LEMMA RepresentsOne ==
  ASSUME NEW ds \in Seq(Deltas), NEW d \in Deltas, NEW a, Represents(a, ds)
  PROVE  Represents(Accumulate(a, d), Append(ds, d))
<1> DEFINE more == Append(ds, d)
           I == Indices(ds)
           J == Indices(more)
           b == Accumulate(a, d)
           acc == IF d.index \in DOMAIN a THEN a[d.index] ELSE NoCall
           new == [id |-> IF d.id # "" THEN d.id ELSE acc.id,
                   name |-> IF d.name # "" THEN d.name ELSE acc.name,
                   args |-> acc.args \o d.args]
<1>1. /\ a \in Accs /\ DOMAIN a = I
      /\ \A i \in I : a[i] = CallOf(ds, i)
      /\ \A i : i \notin I => CallOf(ds, i) = NoCall
  BY DEF Represents
<1>2. J = I \cup {d.index}
  BY IndicesAppend
<1>3. b = [i \in DOMAIN a \cup {d.index} |-> IF i = d.index THEN new ELSE a[i]]
  BY DEF Accumulate
<1>4. b \in Accs
  BY <1>1, AccumulateType
<1>5. \A i : CallOf(more, i) =
        IF d.index # i THEN CallOf(ds, i)
        ELSE [id |-> IF d.id # "" THEN d.id ELSE CallOf(ds, i).id,
              name |-> IF d.name # "" THEN d.name ELSE CallOf(ds, i).name,
              args |-> CallOf(ds, i).args \o d.args]
  BY CallOfAppend
<1> HIDE DEF more, I, J, b
<1>6. acc = CallOf(ds, d.index)
  BY <1>1
<1>7. CallOf(more, d.index) = new
  <2> HIDE DEF acc
  <2> QED BY <1>5, <1>6
<1> HIDE DEF acc, new
<1>8. DOMAIN b = J
  BY <1>1, <1>2, <1>3
<1>9. ASSUME NEW i \in J  PROVE b[i] = CallOf(more, i)
  <2>1. b[i] = IF i = d.index THEN new ELSE a[i]
    BY <1>1, <1>2, <1>3
  <2>2. CASE i = d.index
    BY <1>7, <2>1, <2>2
  <2>3. CASE i # d.index
    <3>1. i \in I
      BY <1>2, <2>3
    <3>2. b[i] = CallOf(ds, i)
      BY <1>1, <2>1, <2>3, <3>1
    <3>3. CallOf(more, i) = CallOf(ds, i)
      BY <1>5, <2>3
    <3> QED BY <3>2, <3>3
  <2> QED BY <2>2, <2>3
<1>10. ASSUME NEW i, i \notin J  PROVE CallOf(more, i) = NoCall
  <2>1. i \notin I /\ d.index # i
    BY <1>2, <1>10
  <2>2. CallOf(more, i) = CallOf(ds, i)
    BY <1>5, <2>1
  <2> QED BY <1>1, <2>1, <2>2
<1> QED BY <1>4, <1>8, <1>9, <1>10 DEF Represents, more, J, b

\* The deltas of a whole line.
LEMMA RepresentsAll ==
  ASSUME NEW ds \in Seq(Deltas), NEW es \in Seq(Deltas), NEW a, Represents(a, ds)
  PROVE  Represents(AccumulateAll(a, es), ds \o es)
<1> DEFINE n == Len(es)
           First(k) == SubSeq(es, 1, k)
           P(k) == Represents(AccumulateAll(a, First(k)), ds \o First(k))
           T == {k \in Nat : k <= n => P(k)}
<1>0. a \in Accs /\ n \in Nat
  BY DEF Represents
<1>1. /\ First(0) = <<>> /\ ds \o <<>> = ds /\ First(n) = es
      /\ \A k \in Nat : k <= n => First(k) \in Seq(Deltas)
  <2> HIDE DEF Deltas
  <2> QED OBVIOUS
<1>2. \A k \in Nat : k + 1 <= n => First(k + 1) = Append(First(k), es[k + 1]) /\ es[k + 1] \in Deltas
  <2> HIDE DEF Deltas
  <2> QED OBVIOUS
<1> HIDE DEF First, n
<1>3. 0 \in T
  BY <1>1, AccumulateNothing
<1>4. ASSUME NEW k \in T  PROVE k + 1 \in T
  <2>1. k \in Nat /\ (k <= n => P(k))
    OBVIOUS
  <2>2. SUFFICES ASSUME k + 1 <= n  PROVE P(k + 1)
    <3> HIDE DEF P
    <3> QED BY <2>1
  <2>3. k <= n
    BY <1>0, <2>1, <2>2
  <2>4. P(k) /\ First(k) \in Seq(Deltas) /\ es[k + 1] \in Deltas
        /\ First(k + 1) = Append(First(k), es[k + 1])
    <3> HIDE DEF P
    <3> QED BY <1>1, <1>2, <2>1, <2>2, <2>3
  <2>5. /\ ds \o First(k) \in Seq(Deltas)
        /\ ds \o Append(First(k), es[k + 1]) = Append(ds \o First(k), es[k + 1])
    <3> HIDE DEF Deltas
    <3> QED BY <2>4, AppendRight
  <2>6. AccumulateAll(a, First(k + 1)) = Accumulate(AccumulateAll(a, First(k)), es[k + 1])
    BY <1>0, <2>4, AccumulateAllAppend
  <2>7. Represents(Accumulate(AccumulateAll(a, First(k)), es[k + 1]),
                   Append(ds \o First(k), es[k + 1]))
    BY <2>4, <2>5, RepresentsOne
  <2> QED BY <2>4, <2>5, <2>6, <2>7
<1>5. T = Nat
  <2>1. T \in SUBSET Nat
    OBVIOUS
  <2> HIDE DEF T
  <2> QED BY <1>3, <1>4, <2>1, Induct
<1>6. P(n)
  <2>1. n \in T /\ n <= n
    BY <1>0, <1>5
  <2> HIDE DEF P
  <2> QED BY <2>1
<1> QED BY <1>1, <1>6

(***************************************************************************)
(* Sorting the indices                                                     *)
(***************************************************************************)
Upto(S, i) == {j \in S : j <= i}

LEMMA Ranks ==
  ASSUME NEW S \in SUBSET Int, IsFiniteSet(S)
  PROVE  /\ Cardinality(S) \in Nat
         /\ \A i \in S : Cardinality(Upto(S, i)) \in 1..Cardinality(S)
         /\ \A i, j \in S : i < j => Cardinality(Upto(S, i)) < Cardinality(Upto(S, j))
<1>1. Cardinality(S) \in Nat
  BY FS_CardinalityType
<1>2. ASSUME NEW i \in S
      PROVE  /\ IsFiniteSet(Upto(S, i)) /\ Cardinality(Upto(S, i)) \in Nat
             /\ Cardinality(Upto(S, i)) \in 1..Cardinality(S)
  <2> DEFINE U == Upto(S, i)
  <2>1. U \in SUBSET S /\ i \in U
    BY DEF Upto
  <2> HIDE DEF U
  <2>2. IsFiniteSet(U) /\ Cardinality(U) <= Cardinality(S)
    BY <2>1, FS_Subset
  <2>3. Cardinality(U) \in Nat
    BY <2>2, FS_CardinalityType
  <2>4. Cardinality(U) # 0
    BY <2>1, <2>2, FS_EmptySet
  <2>5. Cardinality(U) \in 1..Cardinality(S)
    BY <1>1, <2>2, <2>3, <2>4
  <2> QED BY <2>2, <2>3, <2>5 DEF U
<1>3. ASSUME NEW i \in S, NEW j \in S, i < j
      PROVE  Cardinality(Upto(S, i)) < Cardinality(Upto(S, j))
  <2>1. Upto(S, i) \in SUBSET Upto(S, j) /\ j \in Upto(S, j) /\ j \notin Upto(S, i)
    <3>1. i \in Int /\ j \in Int /\ \A x \in S : x \in Int
      OBVIOUS
    <3>2. j <= j /\ ~(j <= i) /\ \A x \in S : x <= i => x <= j
      BY <1>3, <3>1
    <3> QED BY <3>2 DEF Upto
  <2>2. /\ Cardinality(Upto(S, i)) <= Cardinality(Upto(S, j))
        /\ Cardinality(Upto(S, i)) # Cardinality(Upto(S, j))
    <3>1. IsFiniteSet(Upto(S, j))
      BY <1>2
    <3> QED BY <2>1, <3>1, FS_Subset
  <2>3. Cardinality(Upto(S, i)) \in Nat /\ Cardinality(Upto(S, j)) \in Nat
    BY <1>2
  <2> QED BY <2>2, <2>3
<1> QED BY <1>1, <1>2, <1>3

Ascends(order, n) == \A i, j \in 1..n : i < j => order[i] < order[j]

\* A finite set of numbers can be listed in ascending order.
LEMMA SomeOrder ==
  ASSUME NEW S \in SUBSET Int, IsFiniteSet(S)
  PROVE  \E order \in [1..Cardinality(S) -> S] : Ascends(order, Cardinality(S))
<1> DEFINE n == Cardinality(S)
           rank == [i \in S |-> Cardinality(Upto(S, i))]
           order == [k \in 1..n |-> CHOOSE i \in S : rank[i] = k]
<1>1. n \in Nat /\ rank \in [S -> 1..n] /\ \A i, j \in S : i < j => rank[i] < rank[j]
  BY Ranks
<1> HIDE DEF n, rank
<1>2. \A i, j \in S : rank[i] = rank[j] => i = j
  <2>1. SUFFICES ASSUME NEW i \in S, NEW j \in S, rank[i] = rank[j], i < j  PROVE FALSE
    OBVIOUS
  <2>2. rank[i] \in Int /\ rank[i] < rank[j]
    BY <1>1, <2>1
  <2> QED BY <2>1, <2>2
<1>3. rank \in Injection(S, 1..n)
  BY <1>1, <1>2 DEF Injection, IsInjective
<1>4. IsFiniteSet(1..n) /\ Cardinality(1..n) = n
  BY <1>1, FS_Interval
<1>5. rank \in Surjection(S, 1..n)
  BY <1>3, <1>4, FS_Injection DEF n
<1>6. \A k \in 1..n : \E i \in S : rank[i] = k
  BY <1>5 DEF Surjection
<1>7. \A k \in 1..n : order[k] \in S /\ rank[order[k]] = k
  BY <1>6
<1>8. order \in [1..n -> S]
  BY <1>7
<1> HIDE DEF order
<1>9. ASSUME NEW k \in 1..n, NEW m \in 1..n, k < m  PROVE order[k] < order[m]
  <2>1. order[k] \in S /\ order[m] \in S /\ rank[order[k]] = k /\ rank[order[m]] = m
    BY <1>7
  <2>2. k \in Int /\ m \in Int /\ ~(m < k) /\ k # m
    BY <1>1, <1>9
  <2>3. order[k] # order[m] /\ ~(order[m] < order[k])
    BY <1>1, <2>1, <2>2
  <2>4. \A x, y \in S : x # y /\ ~(y < x) => x < y
    <3>1. \A x \in S : x \in Int
      OBVIOUS
    <3> QED BY <3>1
  <2> QED BY <2>1, <2>3, <2>4
<1> QED BY <1>8, <1>9 DEF Ascends, n

\* sort.Ints: every index is at the place of its rank.
LEMMA AscendingIs ==
  ASSUME NEW S \in SUBSET Int, IsFiniteSet(S)
  PROVE  /\ Ascending(S) \in [1..Cardinality(S) -> S]
         /\ \A i \in S : Ascending(S)[Cardinality(Upto(S, i))] = i
<1> DEFINE n == Cardinality(S)
           order == Ascending(S)
<1>1. order \in [1..n -> S] /\ Ascends(order, n)
  BY SomeOrder DEF Ascending, Ascends
<1>2. n \in Nat
  BY Ranks
<1>3. IsFiniteSet(1..n) /\ Cardinality(1..n) = n
  BY <1>2, FS_Interval
<1> HIDE DEF order
<1>4. \A k, m \in 1..n : order[k] = order[m] => k = m
  <2>1. SUFFICES ASSUME NEW k \in 1..n, NEW m \in 1..n, order[k] = order[m], k < m  PROVE FALSE
    BY <1>2
  <2>2. order[k] \in Int /\ order[k] < order[m]
    BY <1>1, <2>1 DEF Ascends
  <2> QED BY <2>1, <2>2
<1>5. order \in Injection(1..n, S)
  BY <1>1, <1>4 DEF Injection, IsInjective
<1>6. order \in Surjection(1..n, S)
  BY <1>3, <1>5, FS_Injection
<1>7. ASSUME NEW i \in S  PROVE order[Cardinality(Upto(S, i))] = i
  <2>1. PICK k \in 1..n : order[k] = i
    BY <1>6 DEF Surjection
  <2> DEFINE D == 1..k
             U == Upto(S, i)
             part == [m \in D |-> order[m]]
  <2>2. k \in Int /\ k >= 1 /\ \A m \in D : m \in 1..n /\ (m = k \/ m < k)
    BY <1>2
  <2>3. \A m \in D : part[m] \in U
    <3>1. TAKE m \in D
    <3>2. m \in 1..n /\ (m = k \/ m < k)
      BY <2>2
    <3>3. order[m] \in S /\ order[m] \in Int /\ i \in Int
      BY <1>1, <3>2
    <3>4. order[m] <= i
      <4>1. CASE m = k
        BY <2>1, <3>3, <4>1
      <4>2. CASE m < k
        BY <1>1, <2>1, <3>2, <3>3, <4>2 DEF Ascends
      <4> QED BY <3>2, <4>1, <4>2
    <3> QED BY <3>3, <3>4 DEF Upto
  <2>4. \A j \in U : \E m \in D : part[m] = j
    <3>1. TAKE j \in U
    <3>2. j \in S /\ j <= i
      BY DEF Upto
    <3>3. PICK m \in 1..n : order[m] = j
      BY <1>6, <3>2 DEF Surjection
    <3>4. ~(k < m)
      BY <1>1, <2>1, <3>2, <3>3 DEF Ascends
    <3>5. m \in D
      BY <1>2, <3>4
    <3> QED BY <3>3, <3>5
  <2>5. \A m, q \in D : part[m] = part[q] => m = q
    BY <1>4, <2>2
  <2>6. part \in [D -> U]
    <3> HIDE DEF U
    <3> QED BY <2>3
  <2>7. IsFiniteSet(D) /\ Cardinality(D) = k
    BY <2>2, FS_Interval
  <2> HIDE DEF D, U, part
  <2>8. part \in Surjection(D, U) /\ part \in Injection(D, U)
    BY <2>4, <2>5, <2>6 DEF Surjection, Injection, IsInjective
  <2>9. Cardinality(U) = k
    BY <2>7, <2>8, FS_Surjection
  <2> QED BY <2>1, <2>9 DEF U
<1> QED BY <1>1, <1>7 DEF order

LEMMA IndicesFinite ==
  ASSUME NEW ds \in Seq(Deltas)
  PROVE  Indices(ds) \in SUBSET Int /\ IsFiniteSet(Indices(ds))
<1> DEFINE n == Len(ds)
           D == 1..n
           f == [k \in D |-> ds[k].index]
           I == Indices(ds)
<1>1. n \in Nat /\ \A k \in D : ds[k].index \in Int
  <2>1. n \in Nat /\ \A k \in D : ds[k] \in Deltas
    OBVIOUS
  <2>2. \A d \in Deltas : d.index \in Int
    BY DEF Deltas
  <2> HIDE DEF n, D
  <2> QED BY <2>1, <2>2
<1>2. IsFiniteSet(D)
  BY <1>1, FS_Interval
<1>3. I = {ds[k].index : k \in D}
  BY DEF Indices
<1>4. I \in SUBSET Int
  <2> HIDE DEF I, D
  <2> QED BY <1>1, <1>3
<1>5. f \in Surjection(D, I)
  <2>1. \A k \in D : f[k] \in I
    BY <1>3
  <2>2. \A i \in I : \E k \in D : f[k] = i
    <3> HIDE DEF D, I
    <3> QED BY <1>3
  <2>3. f \in [D -> I]
    <3> HIDE DEF I
    <3> QED BY <2>1
  <2> HIDE DEF f, D, I
  <2> QED BY <2>2, <2>3 DEF Surjection
<1> HIDE DEF f, D, I
<1>6. IsFiniteSet(I)
  BY <1>2, <1>5, FS_Surjection
<1> QED BY <1>4, <1>6 DEF I

(***************************************************************************)
(* The calls                                                               *)
(***************************************************************************)
\* The accumulators hold what the lines in the buffer say.
AccInv == Represents(accs, DeltasOf(body))

LEMMA AccStart == Init => AccInv
<1> SUFFICES ASSUME Init  PROVE AccInv
  OBVIOUS
<1>1. DeltasOf(body) = <<>> /\ accs = <<>>
  BY DeltasOfNothing DEF Init
<1>2. Indices(<<>>) = {}
  BY DEF Indices
<1>3. <<>> \in Accs /\ DOMAIN (<<>>) = {}
  <2>1. <<>> \in [{} -> CallRecords] /\ {} \in SUBSET Int
    OBVIOUS
  <2> QED BY <2>1 DEF Accs
<1>4. \A i : CallOf(<<>>, i) = NoCall
  <2>1. \A i, field : LastSet(<<>>, i, field) = ""
    BY DEF LastSet
  <2> QED BY <2>1, ArgumentsOfNothing DEF CallOf, NoCall
<1> QED BY <1>1, <1>2, <1>3, <1>4 DEF AccInv, Represents

\* A line is accumulated as it is buffered.
LEMMA AccReceive ==
  ASSUME TypeInv, AccInv, Receive
  PROVE  AccInv'
<1> DEFINE l == Head(chan)
<1>1. l \in Messages /\ body \in Seq(Messages)
  BY DEF Receive, TypeInv
<1>2. /\ DeltasOf(body) \in Seq(Deltas)
      /\ DeltasOf(Append(body, l)) = DeltasOf(body) \o LineDeltas(l)
  BY <1>1, DeltasOfAppend
<1>3. LineDeltas(l) \in Seq(Deltas)
  BY <1>1, LineDeltasType
<1>4. CASE body' = body /\ accs' = accs
  BY <1>4 DEF AccInv
<1>5. CASE body' = Append(body, l) /\ l.kind # "data" /\ accs' = accs
  <2>1. DeltasOf(body) \o LineDeltas(l) = DeltasOf(body)
    <3> HIDE DEF Deltas
    <3> QED BY <1>2, <1>5 DEF LineDeltas
  <2> QED BY <1>2, <1>5, <2>1 DEF AccInv
<1>6. CASE body' = Append(body, l) /\ l.kind = "data" /\ accs' = AccumulateAll(accs, ParseStreamEvent(l))
  <2>1. accs' = AccumulateAll(accs, LineDeltas(l))
    BY <1>6 DEF LineDeltas
  <2>2. Represents(accs', DeltasOf(body) \o LineDeltas(l))
    BY <1>2, <1>3, <2>1, RepresentsAll DEF AccInv
  <2> QED BY <1>2, <1>6, <2>2 DEF AccInv
<1>7. \/ body' = body /\ accs' = accs
      \/ body' = Append(body, l) /\ l.kind # "data" /\ accs' = accs
      \/ body' = Append(body, l) /\ l.kind = "data" /\ accs' = AccumulateAll(accs, ParseStreamEvent(l))
  BY DEF Receive, Return, HasPayload
<1> QED BY <1>4, <1>5, <1>6, <1>7

LEMMA AccKept ==
  ASSUME TypeInv, AccInv, [Next]_vars
  PROVE  AccInv'
<1>1. CASE Receive
  BY <1>1, AccReceive
<1>2. CASE ~Receive
  <2>1. body' = body /\ accs' = accs
    BY <1>2 DEF Next, Reader, Handler, Send, EndStream, ReadLine, ReadEOF, ReadError, PutLine, PutError,
                Finish, IdleTimeout, Return, CloseBody, result, vars
  <2> QED BY <2>1 DEF AccInv
<1> QED BY <1>1, <1>2

\* The blocks made of the accumulators are the calls the agent puts together.
LEMMA FinalBlocksAre ==
  ASSUME TypeInv, AccInv, body = sent
  PROVE  LET ds == DeltasOf(sent)
         IN  /\ Len(FinalBlocks) = Cardinality(Indices(ds))
             /\ \A i \in Indices(ds) :
                  FinalBlocks[Cardinality(Upto(Indices(ds), i))] = AgentsCall(ds, i)
<1> DEFINE ds == DeltasOf(sent)
           I == Indices(ds)
           n == Cardinality(I)
<1>1. ds \in Seq(Deltas)
  <2>1. sent \in Seq(Messages) /\ NoLine \in Messages
    BY DEF TypeInv, Messages
  <2> QED BY <2>1, DeltasOfAppend
<1>2. DOMAIN accs = I /\ \A i \in I : accs[i] = CallOf(ds, i)
  BY DEF AccInv, Represents
<1> HIDE DEF ds
<1>3. I \in SUBSET Int /\ IsFiniteSet(I)
  BY <1>1, IndicesFinite
<1> HIDE DEF I
<1>4. n \in Nat /\ \A i \in I : Cardinality(Upto(I, i)) \in 1..n
  BY <1>3, Ranks
<1>5. \A i \in I : Ascending(I)[Cardinality(Upto(I, i))] = i
  BY <1>3, AscendingIs
<1>6. FinalBlocks = [k \in 1..n |-> ToolUseBlock(accs[Ascending(I)[k]])]
  BY <1>2 DEF FinalBlocks
<1> HIDE DEF n
<1>7. Len(FinalBlocks) = n
  BY <1>4, <1>6
<1>8. ASSUME NEW i \in I  PROVE FinalBlocks[Cardinality(Upto(I, i))] = AgentsCall(ds, i)
  <2>1. FinalBlocks[Cardinality(Upto(I, i))] = ToolUseBlock(accs[i])
    BY <1>4, <1>5, <1>6
  <2>2. ToolUseBlock(CallOf(ds, i)) = AgentsCall(ds, i)
    BY DEF ToolUseBlock, CallOf, AgentsCall
  <2> QED BY <1>2, <2>1, <2>2
<1> QED BY <1>7, <1>8 DEF ds, I, n

LEMMA RebuildStep ==
  ASSUME TypeInv, WholeInv, OnlyWholeStreams, AccInv, BlocksRebuildCalls, [Next]_vars
  PROVE  BlocksRebuildCalls'
<1> USE DEF BlocksRebuildCalls
<1>1. CASE Finish
  <2>1. outcome' = "ok" /\ sent' = sent /\ body' = body /\ blocks' = FinalBlocks
    BY <1>1 DEF Finish, provider
  <2>2. body = sent
    BY <2>1, DeliverStep DEF OnlyWholeStreams
  <2>3. LET ds == DeltasOf(sent)
        IN  /\ Len(FinalBlocks) = Cardinality(Indices(ds))
            /\ \A i \in Indices(ds) :
                 FinalBlocks[Cardinality(Upto(Indices(ds), i))] = AgentsCall(ds, i)
    BY <2>2, FinalBlocksAre
  <2> QED BY <2>1, <2>3 DEF Indices, Upto
<1>2. CASE \E l \in Lines : Send(l)
  BY <1>2 DEF Send, result, OnlyWholeStreams
<1>3. CASE EndStream \/ Reader \/ CloseBody \/ UNCHANGED vars
  BY <1>3 DEF EndStream, Reader, ReadLine, ReadEOF, ReadError, PutLine, PutError, CloseBody,
              provider, result, vars
<1>4. CASE Receive \/ IdleTimeout
  <2>1. outcome' # "ok"
    BY <1>4 DEF Receive, IdleTimeout, Return, HasPayload
  <2> QED BY <2>1
<1> QED BY <1>1, <1>2, <1>3, <1>4 DEF Next, Handler

\* The blocks that bufferSSEStream returns are the calls an agent reads from the
\* stream that is delivered, one per index and in their order: for any number of
\* lines and calls, however the fragments are cut and interleaved.
THEOREM BlocksAlwaysRebuildCalls == Spec => []BlocksRebuildCalls
<1> DEFINE I == TypeInv /\ WholeInv /\ OnlyWholeStreams /\ AccInv /\ BlocksRebuildCalls
<1>1. Init => I
  <2> SUFFICES ASSUME Init  PROVE I
    OBVIOUS
  <2>1. TypeInv /\ WholeInv /\ OnlyWholeStreams
    BY DEF Init, TypeInv, Messages, WholeInv, Whole, Failed, InHand, OnlyWholeStreams
  <2>2. BlocksRebuildCalls
    BY DEF Init, BlocksRebuildCalls
  <2> QED BY <2>1, <2>2, AccStart
<1>2. I /\ [Next]_vars => I'
  BY TypeStep, WholeStep, DeliverStep, AccKept, RebuildStep
<1> QED BY <1>1, <1>2, PTL DEF Spec
=============================================================================
