-------------------------- MODULE EventQueueProofs --------------------------
(***************************************************************************)
(* Theorems about EventQueue, for every set of senders, every capacity,    *)
(* both policies and any number of Send calls.                             *)
(***************************************************************************)
EXTENDS EventQueue, FiniteSetTheorems, SequenceTheorems, TLAPS

(***************************************************************************)
(* Type correctness                                                        *)
(***************************************************************************)

\* The event of a sender whose Send has begun.
LEMMA CurrentType ==
  ASSUME TypeOK, NEW s \in Senders, calls[s] # 0
  PROVE  Current(s) \in Event
BY QueueAssumption DEF TypeOK, Current, Event

\* A sender inside Send has made at least one call (Send).
Begun == \A s \in Senders : pc[s] # "idle" => calls[s] # 0

\* The senders that have counted an overflow and not announced it yet.
Emitting == {s \in Senders : pc[s] = "emit"}

\* Adding an element to a finite set, or removing one, changes its size by one.
LEMMA OneMore ==
  ASSUME NEW S, IsFiniteSet(S), NEW x
  PROVE  /\ Cardinality(S) \in Nat
         /\ x \notin S => Cardinality(S \cup {x}) = Cardinality(S) + 1
         /\ x \in S => Cardinality(S \ {x}) = Cardinality(S) - 1
BY FS_AddElement, FS_RemoveElement, FS_CardinalityType

\* What has been emitted is a number.
LEMMA EmittedType ==
  ASSUME TypeOK
  PROVE  /\ IsFiniteSet(Emitting)
         /\ Emitted = overflow - Cardinality(Emitting)
         /\ Emitted \in Int
<1>1. Emitting \subseteq Senders
  BY DEF Emitting
<1>2. IsFiniteSet(Emitting)
  BY <1>1, QueueAssumption, FS_Subset
<1>3. Cardinality(Emitting) \in Nat /\ overflow \in Nat
  BY <1>2, OneMore DEF TypeOK
<1>4. Emitted = overflow - Cardinality(Emitting)
  BY DEF Emitted, Emitting
<1> QED
  BY <1>2, <1>3, <1>4

\* Init establishes the types.
LEMMA InitType == Init => TypeOK /\ Begun
BY QueueAssumption DEF Init, TypeOK, Begun, Points, AllPolicies

\* A sender puts its event on a channel that has room (the send cases of the
\* selects in sendBlockTimeout and sendDropOldest).
LEMMA AdmitType ==
  ASSUME TypeOK, NEW s \in Senders, calls[s] # 0, Room, Admit(s)
  PROVE  /\ ch' \in Seq(Event) /\ Len(ch') <= Capacity
         /\ admitted' \in Seq(Event)
<1>1. Current(s) \in Event
  BY CurrentType
<1>2. ch \in Seq(Event) /\ admitted \in Seq(Event) /\ Len(ch) < Capacity /\ Capacity \in Nat
  BY QueueAssumption DEF TypeOK, Room
<1>3. ch' = Append(ch, Current(s)) /\ admitted' = Append(admitted, Current(s))
  BY DEF Admit
<1> HIDE DEF Current
<1> QED
  BY <1>1, <1>2, <1>3

\* Moving one sender to another point keeps the type of pc.
LEMMA GotoType ==
  ASSUME TypeOK, Begun, NEW s \in Senders, NEW p \in Points, Goto(s, p), calls' = calls,
         p = "idle" \/ calls[s] # 0
  PROVE  /\ pc' \in [Senders -> Points]
         /\ calls' \in [Senders -> 0..MaxSends]
         /\ Begun'
BY DEF Goto, TypeOK, Begun

\* Every step of a sender keeps the types.
LEMMA SenderType ==
  ASSUME TypeOK, Begun, NEW s \in Senders, Send(s) \/ SenderStep(s)
  PROVE  (TypeOK /\ Begun)'
<1> USE DEF history, counters
<1>1. CASE Send(s)
  <2>1. calls[s] + 1 \in 1..MaxSends /\ calls[s] \in 0..MaxSends
    BY <1>1, QueueAssumption DEF Send, MoreToSend, TypeOK
  <2>2. <<s, calls[s] + 1>> \in Event
    BY <2>1 DEF Event
  <2>3. refused' \in SUBSET Event
    BY <1>1, <2>2 DEF Send, TypeOK
  <2>4. calls' = [calls EXCEPT ![s] = calls[s] + 1]
    BY <1>1 DEF Send
  <2>5. calls' \in [Senders -> 0..MaxSends]
    BY <2>1, <2>4 DEF TypeOK
  <2>6. pc' \in [Senders -> Points] /\ (\A t \in Senders : t # s => pc'[t] = pc[t])
    BY <1>1 DEF Send, Goto, TypeOK, Points
  <2>7. Begun'
    BY <2>1, <2>4, <2>6 DEF Begun, TypeOK
  <2> QED
    BY <1>1, <2>3, <2>5, <2>6, <2>7 DEF Send, TypeOK
<1>a. CASE ~Send(s)
  <2>0. pc[s] # "idle"
    BY <1>a DEF SenderStep, Try, WaitSend, WaitTimeout, Evict, CountEvicted, Retry,
                CountDrop, CountOverflow, EmitOverflow
  <2>c. calls[s] # 0
    BY <2>0 DEF Begun
  <2>e. Current(s) \in Event
    BY <2>c, CurrentType
  <2>1. CASE PanicOnSend(s)
    BY <2>1, <2>c, <2>e, GotoType DEF PanicOnSend, TypeOK, Points
  <2>2. CASE /\ Room /\ Admit(s) /\ (Goto(s, "idle") \/ Goto(s, "overflow"))
             /\ UNCHANGED <<control, closing, overtaken, policy, counters, calls, history>>
    BY <2>2, <2>c, AdmitType, GotoType DEF TypeOK, Points
  <2>3. CASE /\ pc[s] = "try"
             /\ Goto(s, IF policy = "drop_oldest" THEN "evict" ELSE "wait")
             /\ UNCHANGED <<ch, control, closing, overtaken, policy, counters, calls, admitted, history>>
    BY <2>3, <2>c, GotoType DEF TypeOK, Points
  <2>4. CASE /\ rejected' = rejected \cup {Current(s)} /\ Goto(s, "drop")
             /\ UNCHANGED <<ch, control, closing, overtaken, policy, counters, calls, admitted,
                            received, evicted, refused, crashed, heard>>
    BY <2>4, <2>c, <2>e, GotoType DEF TypeOK, Points
  <2>5. CASE Evict(s)
    <3>1. ch # <<>> => Head(ch) \in Event /\ Tail(ch) \in Seq(Event) /\ Len(Tail(ch)) <= Capacity
      BY QueueAssumption, HeadTailProperties DEF TypeOK
    <3>2. ch' \in Seq(Event) /\ Len(ch') <= Capacity /\ evicted' \in SUBSET Event
      BY <2>5, <3>1 DEF Evict, TypeOK
    <3>3. Goto(s, "evicted") \/ Goto(s, "retry")
      BY <2>5 DEF Evict
    <3> QED
      BY <2>5, <2>c, <3>2, <3>3, GotoType DEF Evict, TypeOK, Points
  <2>6. CASE CountEvicted(s)
    BY <2>6, <2>c, GotoType DEF CountEvicted, TypeOK, Points
  <2>7. CASE CountDrop(s)
    BY <2>7, <2>c, GotoType DEF CountDrop, TypeOK, Points
  <2>8. CASE CountOverflow(s)
    BY <2>8, <2>c, GotoType DEF CountOverflow, TypeOK, Points
  <2>9. CASE EmitOverflow(s)
    <3>1. control' \in 0..ControlCapacity
      BY <2>9, QueueAssumption DEF EmitOverflow, TypeOK
    <3>2. Goto(s, "panicked") \/ Goto(s, "idle")
      BY <2>9 DEF EmitOverflow
    <3> QED
      BY <2>9, <2>c, <3>1, <3>2, GotoType DEF EmitOverflow, TypeOK, Points
  <2> QED
    BY <1>a, <2>1, <2>2, <2>3, <2>4, <2>5, <2>6, <2>7, <2>8, <2>9
    DEF SenderStep, Try, WaitSend, WaitTimeout, Retry
<1> QED
  BY <1>1, <1>a

\* Every step keeps the types.
LEMMA NextType == TypeOK /\ Begun /\ [Next]_vars => (TypeOK /\ Begun)'
<1> SUFFICES ASSUME TypeOK, Begun, [Next]_vars PROVE (TypeOK /\ Begun)'
  OBVIOUS
<1> USE QueueAssumption DEF Points, history, counters
<1>1. CASE \E s \in Senders : (Alive /\ Send(s)) \/ SenderStep(s)
  BY <1>1, SenderType
<1>2. CASE Receive
  BY <1>2 DEF Receive, TypeOK, Begun
<1>3. CASE ReceiveControl
  BY <1>3, EmittedType DEF ReceiveControl, TypeOK, Begun
<1>4. CASE Close
  BY <1>4 DEF Close, TypeOK, Begun
<1>5. CASE UNCHANGED vars
  BY <1>5 DEF vars, TypeOK, Begun
<1> QED
  BY <1>1, <1>2, <1>3, <1>4, <1>5 DEF Next, Done

\* The queue's variables have their types, and neither channel ever holds more
\* than its capacity, whatever the senders and the consumer do.
THEOREM TypeCorrect == Spec => []TypeOK
<1>1. Spec => [](TypeOK /\ Begun)
  BY InitType, NextType, PTL DEF Spec
<1> QED
  BY <1>1, PTL

(***************************************************************************)
(* Every event has one fate, and a sender's events keep their order        *)
(***************************************************************************)

\* sub is divided into the seven other sets.
Parts(sub, i, w, r, e, j, f, c) ==
  /\ sub = i \cup w \cup r \cup e \cup j \cup f \cup c
  /\ \A x \in i : x \notin w /\ x \notin r /\ x \notin e /\ x \notin j /\ x \notin f /\ x \notin c
  /\ \A x \in w : x \notin r /\ x \notin e /\ x \notin j /\ x \notin f /\ x \notin c
  /\ \A x \in r : x \notin e /\ x \notin j /\ x \notin f /\ x \notin c
  /\ \A x \in e : x \notin j /\ x \notin f /\ x \notin c
  /\ \A x \in j : x \notin f /\ x \notin c
  /\ \A x \in f : x \notin c

\* The partition that OneFate describes.
Fates == Parts(Submitted, InFlight, Range(ch), Range(received), evicted, rejected,
               refused, crashed)

\* OneFate says that the submitted events are divided into their seven fates.
LEMMA OneFateParts == Fates => OneFate
<1> SUFFICES ASSUME Fates PROVE OneFate
  OBVIOUS
<1> DEFINE F == <<InFlight, Range(ch), Range(received), evicted, rejected, refused, crashed>>
<1>1. Range(F) = {InFlight, Range(ch), Range(received), evicted, rejected, refused, crashed}
  <2> HIDE DEF InFlight
  <2>1. DOMAIN F = {1, 2, 3, 4, 5, 6, 7}
    OBVIOUS
  <2> QED
    BY <2>1 DEF Range
<1>2. Submitted = UNION Range(F)
  BY <1>1, Zenon DEF Fates, Parts
<1>3. \A a, b \in 1..7 : a # b => F[a] \cap F[b] = {}
  <2>1. \A a, b \in 1..7 : a < b => F[a] \cap F[b] = {}
    BY DEF Fates, Parts
  <2> QED
    BY <2>1
<1> QED
  BY <1>2, <1>3 DEF OneFate

\* An event of a sender precedes its later ones.
Earlier(a, b) == a[1] = b[1] => a[2] < b[2]

Ordered(q) == \A i, j \in 1..Len(q) : i < j => Earlier(q[i], q[j])

Cross == \A x \in Range(received), y \in Range(ch) : Earlier(x, y)

FateInv == TypeOK /\ Begun /\ Fates /\ Ordered(ch) /\ Ordered(received) /\ Cross

\* SenderOrder speaks of the received events followed by the waiting ones.
LEMMA OrderJoins == FateInv => SenderOrder
<1> SUFFICES ASSUME FateInv PROVE SenderOrder
  OBVIOUS
<1>1. received \in Seq(Event) /\ ch \in Seq(Event)
  BY DEF FateInv, TypeOK
<1>2. SUFFICES ASSUME NEW i \in 1..Len(received \o ch), NEW j \in 1..Len(received \o ch), i < j
               PROVE  Earlier((received \o ch)[i], (received \o ch)[j])
  BY DEF SenderOrder, Earlier
<1>3. Len(received) \in Nat /\ Len(ch) \in Nat /\ Len(received \o ch) = Len(received) + Len(ch)
  BY <1>1, LenProperties, ConcatProperties
<1>4. CASE j <= Len(received)
  BY <1>1, <1>2, <1>3, <1>4 DEF FateInv, Ordered
<1>5. CASE i > Len(received)
  <2>1. (received \o ch)[i] = ch[i - Len(received)] /\ (received \o ch)[j] = ch[j - Len(received)]
    BY <1>1, <1>2, <1>3, <1>5
  <2>2. i - Len(received) \in 1..Len(ch) /\ j - Len(received) \in 1..Len(ch)
        /\ i - Len(received) < j - Len(received)
    BY <1>2, <1>3, <1>5
  <2> QED
    BY <2>1, <2>2 DEF FateInv, Ordered
<1>6. CASE i <= Len(received) /\ j > Len(received)
  <2>1. (received \o ch)[i] = received[i] /\ (received \o ch)[j] = ch[j - Len(received)]
    BY <1>1, <1>2, <1>3, <1>6
  <2>2. i \in DOMAIN received /\ j - Len(received) \in DOMAIN ch
    BY <1>1, <1>2, <1>3, <1>6
  <2> QED
    BY <2>1, <2>2 DEF FateInv, Cross, Range
<1> QED
  BY <1>2, <1>3, <1>4, <1>5, <1>6

\* Appending to a sequence adds one element to its range.
LEMMA RangeAppend ==
  ASSUME NEW q \in Seq(Event), NEW x \in Event
  PROVE  /\ Range(Append(q, x)) = Range(q) \cup {x}
         /\ Ordered(q) /\ (\A y \in Range(q) : Earlier(y, x)) => Ordered(Append(q, x))
<1>1. Append(q, x) \in Seq(Event) /\ Len(Append(q, x)) = Len(q) + 1 /\ Len(q) \in Nat
      /\ DOMAIN Append(q, x) = 1..(Len(q) + 1) /\ DOMAIN q = 1..Len(q)
  BY AppendProperties, LenProperties
<1>2. \A i \in 1..Len(q) : Append(q, x)[i] = q[i]
  BY AppendProperties
<1>3. Append(q, x)[Len(q) + 1] = x
  BY AppendProperties
<1>4. Range(Append(q, x)) = Range(q) \cup {x}
  BY <1>1, <1>2, <1>3 DEF Range
<1>5. ASSUME Ordered(q), \A y \in Range(q) : Earlier(y, x)
      PROVE  Ordered(Append(q, x))
  <2> SUFFICES ASSUME NEW i \in 1..(Len(q) + 1), NEW j \in 1..(Len(q) + 1), i < j
               PROVE  Earlier(Append(q, x)[i], Append(q, x)[j])
    BY <1>1 DEF Ordered
  <2>1. i \in 1..Len(q) /\ q[i] \in Range(q)
    BY <1>1 DEF Range
  <2>2. CASE j = Len(q) + 1
    BY <1>2, <1>3, <1>5, <2>1, <2>2
  <2>3. CASE j \in 1..Len(q)
    BY <1>2, <1>5, <2>1, <2>3 DEF Ordered
  <2> QED
    BY <1>1, <2>2, <2>3
<1> QED
  BY <1>4, <1>5

\* Removing the head of an ordered sequence removes exactly that event.
LEMMA RangeTail ==
  ASSUME NEW q \in Seq(Event), q # <<>>, Ordered(q)
  PROVE  /\ Range(Tail(q)) = Range(q) \ {Head(q)}
         /\ Head(q) \in Range(q)
         /\ Ordered(Tail(q))
         /\ \A y \in Range(Tail(q)) : Earlier(Head(q), y)
<1>1. Len(q) \in Nat /\ Len(q) # 0 /\ DOMAIN q = 1..Len(q)
  BY EmptySeq, LenProperties
<1>2. Tail(q) \in Seq(Event) /\ Len(Tail(q)) = Len(q) - 1 /\ Head(q) = q[1]
      /\ DOMAIN Tail(q) = 1..(Len(q) - 1)
      /\ \A i \in 1..(Len(q) - 1) : Tail(q)[i] = q[i + 1]
  BY <1>1, HeadTailProperties
<1>3. \A i \in 2..Len(q) : Earlier(q[1], q[i]) /\ q[i] # q[1]
  <2> SUFFICES ASSUME NEW i \in 2..Len(q) PROVE Earlier(q[1], q[i]) /\ q[i] # q[1]
    OBVIOUS
  <2>1. Earlier(q[1], q[i])
    BY <1>1 DEF Ordered
  <2>2. q[1] \in Event /\ q[1][2] \in Nat
    BY <1>1, QueueAssumption DEF Event
  <2> QED
    BY <2>1, <2>2 DEF Earlier
<1>4. Ordered(Tail(q))
  BY <1>1, <1>2 DEF Ordered
<1>5. \A y \in Range(Tail(q)) : \E i \in 2..Len(q) : y = q[i]
  BY <1>1, <1>2 DEF Range
<1>6. Head(q) \in Range(q)
  BY <1>1, <1>2 DEF Range
<1>7. ASSUME NEW y \in Range(q), y # Head(q) PROVE y \in Range(Tail(q))
  <2>1. PICK i \in 1..Len(q) : y = q[i]
    BY <1>1 DEF Range
  <2>2. i - 1 \in 1..(Len(q) - 1) /\ Tail(q)[i - 1] = q[i]
    BY <1>1, <1>2, <1>7, <2>1
  <2> QED
    BY <1>2, <2>1, <2>2 DEF Range
<1>8. Range(Tail(q)) = Range(q) \ {Head(q)}
  <2>1. \A y \in Range(Tail(q)) : y \in Range(q) /\ y # Head(q)
    BY <1>1, <1>2, <1>3, <1>5 DEF Range
  <2> QED
    BY <1>7, <2>1
<1> QED
  BY <1>2, <1>3, <1>4, <1>5, <1>6, <1>8

\* The points at which a Send has neither enqueued nor given up.
Flying == {"try", "wait", "evict", "evicted", "retry"}

\* What a move of one sender does to the events in flight.
LEMMA InFlightMoves ==
  ASSUME TypeOK, NEW s \in Senders, NEW p \in Points, Goto(s, p), calls' = calls
  PROVE  /\ (pc[s] \in Flying <=> p \in Flying) => InFlight' = InFlight
         /\ pc[s] \in Flying /\ p \notin Flying =>
              InFlight' = InFlight \ {Current(s)} /\ Current(s) \in InFlight
<1>1. \A t \in Senders : pc'[t] = IF t = s THEN p ELSE pc[t]
  BY DEF Goto, TypeOK
<1>2. \A t \in Senders : Current(t)' = Current(t)
  BY DEF Current
<1>3. \A t \in Senders : t # s => Current(t) # Current(s)
  BY DEF Current
<1> DEFINE In == {t \in Senders : pc[t] \in Flying}
           In2 == {t \in Senders : pc'[t] \in Flying}
<1>4. InFlight = {Current(t) : t \in In} /\ InFlight' = {Current(t) : t \in In2}
  BY <1>2 DEF InFlight, Flying
<1>5. ASSUME pc[s] \in Flying <=> p \in Flying PROVE In2 = In
  BY <1>1, <1>5
<1>6. ASSUME pc[s] \in Flying, p \notin Flying PROVE In2 = In \ {s} /\ s \in In
  BY <1>1, <1>6
<1> HIDE DEF In, In2
<1>7. In \subseteq Senders
  BY DEF In
<1> QED
  BY <1>3, <1>4, <1>5, <1>6, <1>7

\* Send: the new event was not submitted before.
LEMMA SubmittedGrows ==
  ASSUME TypeOK, NEW s \in Senders, calls[s] < MaxSends,
         calls' = [calls EXCEPT ![s] = @ + 1]
  PROVE  /\ Submitted' = Submitted \cup {<<s, calls[s] + 1>>}
         /\ <<s, calls[s] + 1>> \notin Submitted
         /\ <<s, calls[s] + 1>> \in Event
<1>1. calls[s] \in Nat /\ MaxSends \in Nat /\ calls \in [Senders -> 0..MaxSends]
  BY QueueAssumption DEF TypeOK
<1>2. <<s, calls[s] + 1>> \in Event
  BY <1>1 DEF Event
<1>3. \A e \in Event : e = <<e[1], e[2]>> /\ e[1] \in Senders /\ e[2] \in Nat
  BY <1>1 DEF Event
<1>4. \A e \in Event : e[2] <= calls'[e[1]] <=> e[2] <= calls[e[1]] \/ e = <<s, calls[s] + 1>>
  BY <1>1, <1>3
<1>5. <<s, calls[s] + 1>> \notin Submitted
  BY <1>1 DEF Submitted
<1> QED
  BY <1>2, <1>4, <1>5 DEF Submitted

\* The event of a sender in flight comes after every event it has on the channel
\* or had received.
LEMMA CurrentIsLast ==
  ASSUME FateInv, NEW s \in Senders, pc[s] \in Flying, NEW y \in Range(ch) \cup Range(received)
  PROVE  Earlier(y, Current(s))
<1>1. Current(s) \in InFlight
  BY DEF InFlight, Flying
<1>2. y # Current(s) /\ y \in Submitted
  BY <1>1 DEF FateInv, Fates, Parts
<1>3. y \in Event /\ y = <<y[1], y[2]>> /\ y[2] \in Nat /\ y[2] <= calls[y[1]]
  BY <1>2, QueueAssumption DEF Submitted, Event
<1>4. calls[s] \in Nat
  BY QueueAssumption DEF FateInv, TypeOK
<1> QED
  BY <1>2, <1>3, <1>4 DEF Earlier, Current

\* The ways a step changes the partition: a new event, or one event that moves
\* from one fate to another.
LEMMA PartsMove ==
  ASSUME NEW S, NEW I, NEW W, NEW R, NEW E, NEW J, NEW F, NEW C, NEW x,
         Parts(S, I, W, R, E, J, F, C)
  PROVE  /\ x \notin S => Parts(S \cup {x}, I \cup {x}, W, R, E, J, F, C)
         /\ x \notin S => Parts(S \cup {x}, I, W, R, E, J, F \cup {x}, C)
         /\ x \in I => Parts(S, I \ {x}, W \cup {x}, R, E, J, F, C)
         /\ x \in I => Parts(S, I \ {x}, W, R, E, J \cup {x}, F, C)
         /\ x \in I => Parts(S, I \ {x}, W, R, E, J, F, C \cup {x})
         /\ x \in W => Parts(S, I, W \ {x}, R \cup {x}, E, J, F, C)
         /\ x \in W => Parts(S, I, W \ {x}, R, E \cup {x}, J, F, C)
BY DEF Parts

\* A sender that enqueues its event keeps the partition and the order.
LEMMA AdmitFate ==
  ASSUME FateInv, NEW s \in Senders, pc[s] \in Flying, NEW p \in Points \ Flying,
         Admit(s), Goto(s, p), UNCHANGED <<calls, history>>
  PROVE  (Fates /\ Ordered(ch) /\ Ordered(received) /\ Cross)'
<1>1. TypeOK /\ Fates /\ Ordered(ch) /\ Ordered(received) /\ Cross
  BY DEF FateInv
<1>2. Current(s) \in Event
  BY CurrentType DEF FateInv, Begun, Flying
<1>3. ch \in Seq(Event) /\ ch' = Append(ch, Current(s))
  BY <1>1 DEF TypeOK, Admit
<1>4. Range(ch') = Range(ch) \cup {Current(s)} /\ Ordered(ch')
  BY <1>1, <1>2, <1>3, RangeAppend, CurrentIsLast
<1>5. InFlight' = InFlight \ {Current(s)} /\ Current(s) \in InFlight
  BY <1>1, InFlightMoves
<1>6. Submitted' = Submitted
  BY DEF Submitted
<1>a. Parts(Submitted, InFlight \ {Current(s)}, Range(ch) \cup {Current(s)}, Range(received),
            evicted, rejected, refused, crashed)
  BY <1>1, <1>5, PartsMove, Zenon DEF Fates
<1>7. Fates'
  BY <1>4, <1>5, <1>6, <1>a DEF Fates, history
<1>8. Cross'
  BY <1>1, <1>4, CurrentIsLast DEF Cross, history
<1>9. Ordered(received)'
  BY <1>1 DEF history, Ordered
<1> QED
  BY <1>4, <1>7, <1>8, <1>9

\* A sender that gives up, or panics, moves its event out of flight.
LEMMA GiveUpFate ==
  ASSUME FateInv, NEW s \in Senders, pc[s] \in Flying, NEW p \in Points \ Flying, Goto(s, p),
         \/ rejected' = rejected \cup {Current(s)} /\ crashed' = crashed
         \/ crashed' = crashed \cup {Current(s)} /\ rejected' = rejected,
         UNCHANGED <<ch, calls, received, evicted, refused>>
  PROVE  (Fates /\ Ordered(ch) /\ Ordered(received) /\ Cross)'
<1>1. TypeOK /\ Fates /\ Ordered(ch) /\ Ordered(received) /\ Cross
  BY DEF FateInv
<1>2. InFlight' = InFlight \ {Current(s)} /\ Current(s) \in InFlight
  BY <1>1, InFlightMoves
<1>3. Submitted' = Submitted
  BY DEF Submitted
<1>4. /\ Parts(Submitted, InFlight \ {Current(s)}, Range(ch), Range(received), evicted,
               rejected \cup {Current(s)}, refused, crashed)
      /\ Parts(Submitted, InFlight \ {Current(s)}, Range(ch), Range(received), evicted,
               rejected, refused, crashed \cup {Current(s)})
  BY <1>1, <1>2, PartsMove, Zenon DEF Fates
<1>5. Fates'
  BY <1>2, <1>3, <1>4 DEF Fates
<1> QED
  BY <1>1, <1>5 DEF Ordered, Cross

\* A sender that moves on without deciding the fate of its event.
LEMMA MoveFate ==
  ASSUME FateInv, NEW s \in Senders, NEW p \in Points, Goto(s, p),
         pc[s] \in Flying <=> p \in Flying,
         UNCHANGED <<ch, calls, history>>
  PROVE  (Fates /\ Ordered(ch) /\ Ordered(received) /\ Cross)'
<1>1. TypeOK /\ Fates /\ Ordered(ch) /\ Ordered(received) /\ Cross
  BY DEF FateInv
<1>2. InFlight' = InFlight
  BY <1>1, InFlightMoves
<1>3. Submitted' = Submitted
  BY DEF Submitted
<1> QED
  BY <1>1, <1>2, <1>3 DEF Fates, history, Ordered, Cross

\* An event leaves the head of the channel, to the consumer or by eviction.
LEMMA HeadFate ==
  ASSUME FateInv, ch # <<>>, ch' = Tail(ch), Submitted' = Submitted, InFlight' = InFlight,
         \/ received' = Append(received, Head(ch)) /\ evicted' = evicted
         \/ received' = received /\ evicted' = evicted \cup {Head(ch)},
         UNCHANGED <<rejected, refused, crashed>>
  PROVE  (Fates /\ Ordered(ch) /\ Ordered(received) /\ Cross)'
<1>1. TypeOK /\ Fates /\ Ordered(ch) /\ Ordered(received) /\ Cross
  BY DEF FateInv
<1>2. ch \in Seq(Event) /\ received \in Seq(Event) /\ Head(ch) \in Event
  BY <1>1, HeadTailProperties DEF TypeOK
<1>3. /\ Range(ch') = Range(ch) \ {Head(ch)} /\ Head(ch) \in Range(ch) /\ Ordered(ch')
      /\ \A y \in Range(ch') : Earlier(Head(ch), y)
  BY <1>1, <1>2, RangeTail
<1>4. \A y \in Range(received) : Earlier(y, Head(ch))
  BY <1>1, <1>3 DEF Cross
<1>5. CASE received' = received /\ evicted' = evicted \cup {Head(ch)}
  <2>0. Parts(Submitted, InFlight, Range(ch) \ {Head(ch)}, Range(received),
              evicted \cup {Head(ch)}, rejected, refused, crashed)
    BY <1>1, <1>3, PartsMove, Zenon DEF Fates
  <2>1. Fates'
    BY <1>3, <1>5, <2>0 DEF Fates
  <2> QED
    BY <1>1, <1>3, <1>5, <2>1 DEF Cross, Ordered
<1>6. CASE received' = Append(received, Head(ch)) /\ evicted' = evicted
  <2>1. Range(received') = Range(received) \cup {Head(ch)} /\ Ordered(received')
    BY <1>1, <1>2, <1>4, <1>6, RangeAppend
  <2>0. Parts(Submitted, InFlight, Range(ch) \ {Head(ch)}, Range(received) \cup {Head(ch)},
              evicted, rejected, refused, crashed)
    BY <1>1, <1>3, PartsMove, Zenon DEF Fates
  <2>2. Fates'
    BY <1>3, <1>6, <2>0, <2>1 DEF Fates
  <2>3. Cross'
    BY <1>1, <1>3, <2>1 DEF Cross
  <2> QED
    BY <1>3, <2>1, <2>2, <2>3
<1> QED
  BY <1>5, <1>6

\* Every step keeps the partition and the order.
LEMMA NextFate == FateInv /\ [Next]_vars => FateInv'
<1> SUFFICES ASSUME FateInv, [Next]_vars PROVE FateInv'
  OBVIOUS
<1> USE DEF history, counters
<1>1. TypeOK /\ Begun /\ Fates /\ Ordered(ch) /\ Ordered(received) /\ Cross
  BY DEF FateInv
<1>2. (TypeOK /\ Begun)'
  BY <1>1, NextType
<1> SUFFICES (Fates /\ Ordered(ch) /\ Ordered(received) /\ Cross)'
  BY <1>2 DEF FateInv
<1>3. ASSUME NEW s \in Senders, Send(s)
      PROVE  (Fates /\ Ordered(ch) /\ Ordered(received) /\ Cross)'
  <2> DEFINE x == <<s, calls[s] + 1>>
  <2>1. Submitted' = Submitted \cup {x} /\ x \notin Submitted
    BY <1>1, <1>3, SubmittedGrows DEF Send, MoreToSend
  <2>2. /\ Parts(Submitted \cup {x}, InFlight \cup {x}, Range(ch), Range(received), evicted,
                 rejected, refused, crashed)
        /\ Parts(Submitted \cup {x}, InFlight, Range(ch), Range(received), evicted,
                 rejected, refused \cup {x}, crashed)
    <3> HIDE DEF x
    <3> QED
      BY <1>1, <2>1, PartsMove, Zenon DEF Fates
  <2>3. \A t \in Senders : t # s => Current(t)' = Current(t)
    BY <1>1, <1>3 DEF Send, Current, TypeOK
  <2>4. pc[s] = "idle" /\ pc[s] \notin Flying
    BY <1>3 DEF Send, Flying
  <2>5. CASE closing = 0
    <3>1. \A t \in Senders : pc'[t] = IF t = s THEN "try" ELSE pc[t]
      BY <1>1, <1>3, <2>5 DEF Send, Goto, TypeOK
    <3>2. Current(s)' = x
      BY <1>1, <1>3 DEF Send, Current, TypeOK
    <3>3. InFlight' = InFlight \cup {x}
      BY <2>3, <2>4, <3>1, <3>2 DEF InFlight, Flying
    <3>4. Fates'
      BY <1>3, <2>1, <2>2, <2>5, <3>3 DEF Fates, Send
    <3> QED
      BY <1>1, <1>3, <3>4 DEF Ordered, Cross, Send
  <2>6. CASE closing # 0
    <3>1. InFlight' = InFlight
      BY <1>3, <2>3, <2>4, <2>6 DEF InFlight, Flying, Send
    <3>2. Fates'
      BY <1>3, <2>1, <2>2, <2>6, <3>1 DEF Fates, Send
    <3> QED
      BY <1>1, <1>3, <3>2 DEF Ordered, Cross, Send
  <2> QED
    BY <2>5, <2>6
<1>4. ASSUME NEW s \in Senders, SenderStep(s)
      PROVE  (Fates /\ Ordered(ch) /\ Ordered(received) /\ Cross)'
  <2>1. CASE PanicOnSend(s) /\ pc[s] \in Flying
    BY <2>1, GiveUpFate DEF PanicOnSend, Points, Flying
  <2>2. CASE /\ pc[s] \in Flying /\ Admit(s) /\ (Goto(s, "idle") \/ Goto(s, "overflow"))
             /\ UNCHANGED <<calls, history>>
    BY <2>2, AdmitFate DEF Points, Flying
  <2>3. CASE /\ pc[s] = "try" /\ Goto(s, IF policy = "drop_oldest" THEN "evict" ELSE "wait")
             /\ UNCHANGED <<ch, calls, history>>
    BY <2>3, MoveFate DEF Points, Flying
  <2>4. CASE /\ pc[s] \in {"wait", "retry"} /\ rejected' = rejected \cup {Current(s)}
             /\ Goto(s, "drop")
             /\ UNCHANGED <<ch, calls, received, evicted, refused, crashed>>
    BY <2>4, GiveUpFate DEF Points, Flying
  <2>5. CASE Evict(s)
    <3>1. CASE ch = <<>>
      BY <2>5, <3>1, MoveFate DEF Evict, Points, Flying
    <3>2. CASE ch # <<>>
      <4>1. InFlight' = InFlight
        BY <1>1, <2>5, <3>2, InFlightMoves DEF Evict, Points, Flying
      <4>2. Submitted' = Submitted
        BY <2>5 DEF Evict, Submitted
      <4> QED
        BY <2>5, <3>2, <4>1, <4>2, HeadFate DEF Evict
    <3> QED
      BY <3>1, <3>2
  <2>6. CASE CountEvicted(s)
    BY <2>6, MoveFate DEF CountEvicted, Points, Flying
  <2>7. CASE CountDrop(s)
    BY <2>7, MoveFate DEF CountDrop, Points, Flying
  <2>8. CASE CountOverflow(s)
    BY <2>8, MoveFate DEF CountOverflow, Points, Flying
  <2>9. CASE EmitOverflow(s)
    BY <2>9, MoveFate DEF EmitOverflow, Points, Flying
  <2>10. CASE Try(s)
    BY <2>10, <2>1, <2>2, <2>3 DEF Try, Flying
  <2>11. CASE WaitSend(s)
    BY <2>11, <2>1, <2>2 DEF WaitSend, Flying
  <2>12. CASE WaitTimeout(s)
    BY <2>12, <2>4 DEF WaitTimeout
  <2>13. CASE Retry(s)
    BY <2>13, <2>1, <2>2, <2>4 DEF Retry, Flying
  <2> QED
    BY <1>4, <2>5, <2>6, <2>7, <2>8, <2>9, <2>10, <2>11, <2>12, <2>13 DEF SenderStep
<1>5. CASE Receive
  <2>1. Submitted' = Submitted /\ InFlight' = InFlight
    BY <1>5 DEF Receive, Submitted, InFlight, Current
  <2> QED
    BY <1>5, <2>1, HeadFate DEF Receive
<1>6. CASE UNCHANGED <<ch, pc, calls, received, evicted, rejected, refused, crashed>>
  <2>1. Submitted' = Submitted /\ InFlight' = InFlight
    BY <1>6 DEF Submitted, InFlight, Current
  <2> QED
    BY <1>1, <1>6, <2>1 DEF Fates, Ordered, Cross
<1>7. CASE ReceiveControl \/ Close \/ UNCHANGED vars
  BY <1>6, <1>7 DEF ReceiveControl, Close, vars
<1> QED
  BY <1>3, <1>4, <1>5, <1>7 DEF Next, Done

\* The empty queue has no events.
LEMMA InitFate == Init => FateInv
<1> SUFFICES ASSUME Init PROVE FateInv
  OBVIOUS
<1>1. Range(ch) = {} /\ Range(received) = {}
  BY DEF Init, Range
<1>2. InFlight = {}
  BY DEF Init, InFlight
<1>3. Submitted = {}
  BY QueueAssumption DEF Init, Submitted, Event
<1>4. Fates
  BY <1>1, <1>2, <1>3 DEF Init, Fates, Parts
<1>5. Ordered(ch) /\ Ordered(received) /\ Cross
  BY <1>1 DEF Init, Ordered, Cross
<1> QED
  BY <1>4, <1>5, InitType DEF FateInv

\* No event is duplicated or vanishes: at every moment each submitted event has
\* exactly one fate, whatever the policy and whenever Close is called.
THEOREM FateOfEveryEvent == Spec => []OneFate
<1>1. FateInv => OneFate
  BY OneFateParts DEF FateInv
<1> QED
  BY <1>1, InitFate, NextFate, PTL DEF Spec

\* The events of one sender reach the consumer in the order they were sent.
THEOREM OrderKept == Spec => []SenderOrder
BY OrderJoins, InitFate, NextFate, PTL DEF Spec

(***************************************************************************)
(* A queue that is closed when no Send is under way                        *)
(***************************************************************************)

\* Close overtakes nobody before it is called; once a Close that overtook
\* nobody has begun, no sender gets past the check of the flag.
Quiet ==
  /\ closing = 0 => overtaken = {}
  /\ overtaken = {} /\ closing # 0 => \A s \in Senders : pc[s] = "idle"

\* Senders that lost an event and have not counted it yet.
Losing == {s \in Senders : pc[s] \in {"evicted", "drop"}}

\* Only the first step of Close records senders, and no step takes them back.
LEMMA OvertakenStays ==
  ASSUME TypeOK, Quiet, [Next]_vars
  PROVE  /\ closing' = 0 => overtaken' = {}
         /\ overtaken' = {} => overtaken = {}
<1> USE DEF history, counters
<1>1. ASSUME NEW s \in Senders, Send(s) \/ SenderStep(s)
      PROVE  overtaken' = overtaken /\ closing' = closing
  BY <1>1 DEF Send, SenderStep, Try, WaitSend, WaitTimeout, Evict, CountEvicted, Retry,
              CountDrop, CountOverflow, EmitOverflow, PanicOnSend
<1>2. CASE Close
  BY <1>2 DEF Close, Quiet, TypeOK
<1>3. CASE Receive \/ ReceiveControl \/ UNCHANGED vars
  BY <1>3 DEF Receive, ReceiveControl, vars, Quiet
<1> QED
  BY <1>1, <1>2, <1>3 DEF Next, Done, Quiet

\* No step of a sender meets a closed channel.
LEMMA NextQuiet ==
  ASSUME TypeOK, Quiet, NoPanic, [Next]_vars
  PROVE  (Quiet /\ NoPanic)'
<1> USE DEF history, counters, NoPanic, Alive
<1> SUFFICES ASSUME overtaken' = {} PROVE (Quiet /\ NoPanic)'
  BY OvertakenStays DEF Quiet
<1>0. overtaken = {}
  BY OvertakenStays
<1>1. ASSUME NEW s \in Senders, Send(s) PROVE (Quiet /\ NoPanic)'
  BY <1>0, <1>1 DEF Send, Goto, Quiet, TypeOK
<1>2. ASSUME NEW s \in Senders, SenderStep(s) PROVE (Quiet /\ NoPanic)'
  <2>1. pc[s] # "idle"
    BY <1>2 DEF SenderStep, Try, WaitSend, WaitTimeout, Evict, CountEvicted, Retry,
                CountDrop, CountOverflow, EmitOverflow
  <2>2. closing = 0 /\ ~ChClosed /\ ~ControlClosed
    BY <1>0, <2>1 DEF Quiet, ChClosed, ControlClosed
  <2>3. closing' = 0
    BY <1>2, <2>2 DEF SenderStep, Try, WaitSend, WaitTimeout, Evict, CountEvicted, Retry,
                CountDrop, CountOverflow, EmitOverflow, PanicOnSend
  <2>4. \E p \in Points \ {"panicked"} : Goto(s, p)
    BY <1>2, <2>2 DEF SenderStep, Try, WaitSend, WaitTimeout, Evict, CountEvicted, Retry,
                CountDrop, CountOverflow, EmitOverflow, PanicOnSend, Points
  <2> QED
    BY <1>0, <2>3, <2>4 DEF Goto, Quiet, TypeOK
<1>3. CASE Receive \/ ReceiveControl \/ UNCHANGED vars
  BY <1>0, <1>3 DEF Receive, ReceiveControl, vars, Quiet
<1>4. CASE Close
  BY <1>0, <1>4 DEF Close, Quiet, TypeOK
<1> QED
  BY <1>1, <1>2, <1>3, <1>4 DEF Next, Done

\* A queue that is closed when no Send is under way never panics, although later
\* Sends race with the rest of Close: none meets a closed channel.
THEOREM NeverPanics == Spec => []NoPanic
<1>1. Init => TypeOK /\ Begun /\ Quiet /\ NoPanic
  BY InitType DEF Init, Quiet, NoPanic, Alive
<1>2. TypeOK /\ Begun /\ Quiet /\ NoPanic /\ [Next]_vars => (TypeOK /\ Begun /\ Quiet /\ NoPanic)'
  BY NextType, NextQuiet
<1> QED
  BY <1>1, <1>2, PTL DEF Spec

\* The history sets and the set of losing senders are finite.
LEMMA LossFinite ==
  ASSUME TypeOK
  PROVE  IsFiniteSet(evicted) /\ IsFiniteSet(rejected) /\ IsFiniteSet(Losing)
<1>1. IsFiniteSet(1..MaxSends) /\ IsFiniteSet(Senders)
  BY FS_Interval, QueueAssumption
<1>2. IsFiniteSet(Event)
  BY <1>1, FS_Product DEF Event
<1>3. evicted \subseteq Event /\ rejected \subseteq Event /\ Losing \subseteq Senders
  BY DEF TypeOK, Losing
<1> QED
  BY <1>1, <1>2, <1>3, FS_Subset

\* What a move of one sender does to the losing senders.
LEMMA LosingMoves ==
  ASSUME TypeOK, NEW s \in Senders, NEW p \in Points, Goto(s, p)
  PROVE  /\ (s \in Losing <=> p \in {"evicted", "drop"}) => Losing' = Losing
         /\ s \notin Losing /\ p \in {"evicted", "drop"} => Losing' = Losing \cup {s}
         /\ s \in Losing /\ p \notin {"evicted", "drop"} => Losing' = Losing \ {s}
<1>1. \A t \in Senders : pc'[t] = IF t = s THEN p ELSE pc[t]
  BY DEF Goto, TypeOK
<1> QED
  BY <1>1 DEF Losing

\* Every step keeps the count of losses.
LEMMA NextDropped ==
  ASSUME FateInv, Quiet, DroppedIsLoss, [Next]_vars
  PROVE  DroppedIsLoss'
<1> USE DEF history, counters
<1> SUFFICES ASSUME overtaken' = {} PROVE DroppedIsLoss'
  BY DEF DroppedIsLoss
<1>0. overtaken = {}
  BY OvertakenStays DEF FateInv
<1>1. TypeOK /\ Fates /\ Ordered(ch)
  BY DEF FateInv
<1>2. IsFiniteSet(evicted) /\ IsFiniteSet(rejected) /\ IsFiniteSet(Losing)
  BY <1>1, LossFinite
<1>3. /\ Cardinality(evicted) \in Nat /\ Cardinality(rejected) \in Nat
      /\ Cardinality(Losing) \in Nat /\ dropped \in Nat
      /\ dropped + Cardinality(Losing) = Cardinality(evicted) + Cardinality(rejected)
  BY <1>0, <1>1, <1>2, OneMore DEF TypeOK, DroppedIsLoss, Losing
<1> SUFFICES dropped' + Cardinality(Losing') = Cardinality(evicted') + Cardinality(rejected')
  BY DEF DroppedIsLoss, Losing
<1>4. ASSUME UNCHANGED <<dropped, evicted, rejected>>, Losing' = Losing
      PROVE  dropped' + Cardinality(Losing') = Cardinality(evicted') + Cardinality(rejected')
  BY <1>3, <1>4
<1>5. ASSUME NEW s \in Senders, NEW p \in Points, Goto(s, p), s \notin Losing,
             p \notin {"evicted", "drop"}, UNCHANGED <<dropped, evicted, rejected>>
      PROVE  dropped' + Cardinality(Losing') = Cardinality(evicted') + Cardinality(rejected')
  BY <1>1, <1>4, <1>5, LosingMoves
<1>6. ASSUME NEW s \in Senders, Send(s)
      PROVE  dropped' + Cardinality(Losing') = Cardinality(evicted') + Cardinality(rejected')
  <2>1. s \notin Losing
    BY <1>6 DEF Send, Losing
  <2>2. Goto(s, "try") \/ UNCHANGED pc
    BY <1>6 DEF Send
  <2>3. Losing' = Losing
    BY <1>1, <2>1, <2>2, LosingMoves DEF Losing, Points
  <2> QED
    BY <1>4, <1>6, <2>3 DEF Send
<1>7. ASSUME NEW s \in Senders, SenderStep(s)
      PROVE  dropped' + Cardinality(Losing') = Cardinality(evicted') + Cardinality(rejected')
  <2>0. ~ChClosed
    BY <1>0, <1>7 DEF SenderStep, Try, WaitSend, WaitTimeout, Evict, CountEvicted, Retry,
                CountDrop, CountOverflow, EmitOverflow, Quiet, ChClosed
  <2>1. CASE /\ pc[s] \in {"wait", "retry"} /\ rejected' = rejected \cup {Current(s)}
             /\ Goto(s, "drop") /\ UNCHANGED <<dropped, evicted>>
    <3>1. s \notin Losing
      BY <2>1 DEF Losing
    <3>2. Losing' = Losing \cup {s}
      BY <1>1, <2>1, <3>1, LosingMoves DEF Points
    <3>3. Current(s) \notin rejected
      BY <1>1, <2>1 DEF Fates, Parts, InFlight
    <3>4. Cardinality(Losing') = Cardinality(Losing) + 1
      BY <1>2, <3>1, <3>2, OneMore
    <3>5. Cardinality(rejected') = Cardinality(rejected) + 1
      BY <1>2, <2>1, <3>3, OneMore
    <3> QED
      BY <1>3, <2>1, <3>4, <3>5
  <2>2. CASE Evict(s)
    <3>1. s \notin Losing
      BY <2>2 DEF Evict, Losing
    <3>2. CASE ch = <<>>
      <4>1. Goto(s, "retry") /\ UNCHANGED <<dropped, evicted, rejected>>
        BY <2>0, <2>2, <3>2 DEF Evict
      <4> QED
        BY <1>5, <3>1, <4>1 DEF Points
    <3>3. CASE ch # <<>>
      <4>1. Goto(s, "evicted") /\ evicted' = evicted \cup {Head(ch)} /\ UNCHANGED <<dropped, rejected>>
        BY <2>2, <3>3 DEF Evict
      <4>2. Losing' = Losing \cup {s}
        BY <1>1, <3>1, <4>1, LosingMoves DEF Points
      <4>3. Head(ch) \in Range(ch)
        BY <1>1, <3>3, RangeTail DEF TypeOK
      <4>4. Head(ch) \notin evicted
        BY <1>1, <4>3 DEF Fates, Parts
      <4>5. Cardinality(Losing') = Cardinality(Losing) + 1
        BY <1>2, <3>1, <4>2, OneMore
      <4>6. Cardinality(evicted') = Cardinality(evicted) + 1
        BY <1>2, <4>1, <4>4, OneMore
      <4> QED
        BY <1>3, <4>1, <4>5, <4>6
    <3> QED
      BY <3>2, <3>3
  <2>3. CASE CountEvicted(s) \/ CountDrop(s)
    <3>1. s \in Losing
      BY <2>3 DEF CountEvicted, CountDrop, Losing
    <3>2. Goto(s, "retry") \/ Goto(s, "overflow")
      BY <2>3 DEF CountEvicted, CountDrop
    <3>3. Losing' = Losing \ {s}
      BY <1>1, <3>1, <3>2, LosingMoves DEF Points
    <3>4. Cardinality(Losing') = Cardinality(Losing) - 1
      BY <1>2, <3>1, <3>3, OneMore
    <3>5. dropped' = dropped + 1 /\ UNCHANGED <<evicted, rejected>>
      BY <2>3 DEF CountEvicted, CountDrop
    <3> QED
      BY <1>3, <3>4, <3>5
  <2>4. CASE CountOverflow(s) \/ EmitOverflow(s)
    <3>1. s \notin Losing
      BY <2>4 DEF CountOverflow, EmitOverflow, Losing
    <3> QED
      BY <1>5, <2>4, <3>1 DEF CountOverflow, EmitOverflow, Points
  <2>5. CASE /\ pc[s] \in {"try", "wait", "retry"} /\ UNCHANGED <<dropped, evicted, rejected>>
             /\ \E p \in Points \ {"evicted", "drop"} : Goto(s, p)
    <3>1. s \notin Losing
      BY <2>5 DEF Losing
    <3> QED
      BY <1>5, <2>5, <3>1
  <2>6. CASE Try(s)
    BY <2>0, <2>5, <2>6 DEF Try, PanicOnSend, Points
  <2>7. CASE WaitSend(s)
    BY <2>0, <2>5, <2>7 DEF WaitSend, PanicOnSend, Points
  <2>8. CASE WaitTimeout(s)
    BY <2>1, <2>8 DEF WaitTimeout
  <2>9. CASE Retry(s)
    BY <2>0, <2>1, <2>5, <2>9 DEF Retry, PanicOnSend, Points
  <2> QED
    BY <1>7, <2>2, <2>3, <2>4, <2>6, <2>7, <2>8, <2>9 DEF SenderStep
<1>8. CASE Receive \/ ReceiveControl \/ Close \/ UNCHANGED vars
  BY <1>4, <1>8 DEF Receive, ReceiveControl, Close, vars, Losing
<1> QED
  BY <1>6, <1>7, <1>8 DEF Next, Done

\* Stats.Dropped is the number of lost events, up to those a sender has lost and
\* is about to count: no loss is silent and none is counted twice.
THEOREM DroppedCounts == Spec => []DroppedIsLoss
<1> DEFINE I == FateInv /\ Quiet /\ NoPanic /\ DroppedIsLoss
<1>1. Init => I
  <2> SUFFICES ASSUME Init PROVE I
    OBVIOUS
  <2>1. Quiet /\ NoPanic /\ {s \in Senders : pc[s] \in {"evicted", "drop"}} = {}
    BY DEF Init, Quiet, NoPanic, Alive
  <2>2. DroppedIsLoss
    BY <2>1, FS_EmptySet DEF Init, DroppedIsLoss
  <2> QED
    BY <2>1, <2>2, InitFate
<1>2. I /\ [Next]_vars => I'
  BY NextFate, NextQuiet, NextDropped DEF FateInv
<1> QED
  BY <1>1, <1>2, PTL DEF Spec

(***************************************************************************)
(* Overflow                                                                *)
(***************************************************************************)

\* What a move of one sender does to the emitting senders.
LEMMA EmittingMoves ==
  ASSUME TypeOK, NEW s \in Senders, NEW p \in Points, Goto(s, p)
  PROVE  /\ (s \in Emitting <=> p = "emit") => Emitting' = Emitting
         /\ s \notin Emitting /\ p = "emit" => Emitting' = Emitting \cup {s}
         /\ s \in Emitting /\ p # "emit" => Emitting' = Emitting \ {s}
<1>1. \A t \in Senders : pc'[t] = IF t = s THEN p ELSE pc[t]
  BY DEF Goto, TypeOK
<1> QED
  BY <1>1 DEF Emitting

\* What OverflowAnnounced says while the process runs.
Announced ==
  LET due == heard.left + (Emitted - heard.emitted)
  IN  control = IF due < ControlCapacity THEN due ELSE ControlCapacity

\* No step but that of a panicking sender loses a signal while the control
\* channel has room.
LEMMA NextAnnounced ==
  ASSUME TypeOK, Begun, Announced, [Next]_vars, Alive'
  PROVE  Announced'
<1> USE DEF history, counters
<1>1. TypeOK'
  BY NextType
<1>2. /\ Emitted = overflow - Cardinality(Emitting)
      /\ Emitted' = overflow' - Cardinality(Emitting')
      /\ IsFiniteSet(Emitting) /\ Cardinality(Emitting) \in Nat
      /\ overflow \in Nat /\ Emitted \in Int
  <2>1. Emitted' = overflow' - Cardinality(Emitting')
    BY DEF Emitted, Emitting
  <2> QED
    BY <2>1, EmittedType, OneMore DEF TypeOK
<1>3. /\ control \in 0..ControlCapacity /\ ControlCapacity \in Nat \ {0}
      /\ heard.left \in 0..ControlCapacity /\ heard.emitted \in Int
  BY QueueAssumption DEF TypeOK
<1>4. ASSUME UNCHANGED <<heard, control>>, Emitted' = Emitted PROVE Announced'
  BY <1>4 DEF Announced
<1>5. ASSUME NEW s \in Senders, NEW p \in Points, Goto(s, p), pc[s] # "emit", p # "emit",
             UNCHANGED <<overflow, heard, control>>
      PROVE  Announced'
  <2>1. s \notin Emitting
    BY <1>5 DEF Emitting
  <2>2. Emitting' = Emitting
    BY <1>5, <2>1, EmittingMoves
  <2>3. Emitted' = Emitted
    BY <1>2, <1>5, <2>2
  <2> QED
    BY <1>4, <1>5, <2>3
<1>6. ASSUME NEW s \in Senders, Send(s) PROVE Announced'
  <2>1. CASE Goto(s, "try")
    BY <1>5, <1>6, <2>1 DEF Send, Points
  <2>2. CASE UNCHANGED pc
    BY <1>4, <1>6, <2>2 DEF Send, Emitted
  <2> QED
    BY <1>6, <2>1, <2>2 DEF Send
<1>7. ASSUME NEW s \in Senders, CountOverflow(s) PROVE Announced'
  <2>1. s \notin Emitting /\ Goto(s, "emit") /\ overflow' = overflow + 1
        /\ UNCHANGED <<heard, control>>
    BY <1>7 DEF CountOverflow, Emitting
  <2>2. Emitting' = Emitting \cup {s}
    BY <2>1, EmittingMoves DEF Points
  <2>3. Cardinality(Emitting') = Cardinality(Emitting) + 1
    BY <1>2, <2>1, <2>2, OneMore
  <2>4. Emitted' = Emitted
    BY <1>2, <2>1, <2>3
  <2> QED
    BY <1>4, <2>1, <2>4
<1>8. ASSUME NEW s \in Senders, EmitOverflow(s) PROVE Announced'
  <2>1. ~Goto(s, "panicked")
    BY DEF Goto, Alive, TypeOK
  <2>2. /\ Goto(s, "idle") /\ UNCHANGED <<overflow, heard>> /\ s \in Emitting
        /\ control' = (IF control < ControlCapacity THEN control + 1 ELSE control)
    BY <1>8, <2>1 DEF EmitOverflow, Emitting
  <2>3. Emitting' = Emitting \ {s}
    BY <2>2, EmittingMoves DEF Points
  <2>4. Cardinality(Emitting') = Cardinality(Emitting) - 1
    BY <1>2, <2>2, <2>3, OneMore
  <2>5. Emitted' = Emitted + 1
    BY <1>2, <2>2, <2>4
  <2> QED
    BY <1>2, <1>3, <2>2, <2>5 DEF Announced
<1>9. ASSUME NEW s \in Senders, SenderStep(s), ~CountOverflow(s), ~EmitOverflow(s)
      PROVE  Announced'
  <2>1. /\ pc[s] # "emit" /\ \E p \in Points \ {"emit"} : Goto(s, p)
        /\ UNCHANGED <<overflow, heard, control>>
    BY <1>9 DEF SenderStep, Try, WaitSend, WaitTimeout, Evict, CountEvicted, Retry, CountDrop,
                PanicOnSend, Points
  <2> QED
    BY <1>5, <2>1
<1>10. CASE ReceiveControl
  <2>1. /\ control > 0 /\ control' = control - 1 /\ UNCHANGED <<overflow, pc>>
        /\ heard' = [left |-> control - 1, emitted |-> Emitted]
    BY <1>10 DEF ReceiveControl
  <2>2. Emitted' = Emitted
    BY <2>1 DEF Emitted
  <2>3. heard'.left = control - 1 /\ heard'.emitted = Emitted
    BY <2>1
  <2> QED
    BY <1>2, <1>3, <2>1, <2>2, <2>3 DEF Announced
<1>11. CASE Receive \/ Close \/ UNCHANGED vars
  BY <1>4, <1>11 DEF Receive, Close, vars, Emitted
<1> QED
  BY <1>6, <1>7, <1>8, <1>9, <1>10, <1>11 DEF Next, SenderStep, Done

\* The control channel always holds what the consumer left in it and one signal
\* for each overflow emitted since, up to its capacity (emitOverflow): a signal
\* is lost only while every slot is taken, for any senders, capacities and
\* order of steps.
THEOREM OverflowAlwaysAnnounced == Spec => []OverflowAnnounced
<1> DEFINE I == TypeOK /\ Begun /\ (Alive => Announced)
<1>1. Init => I
  <2> SUFFICES ASSUME Init PROVE I
    OBVIOUS
  <2>1. Emitting = {} /\ overflow = 0
    BY DEF Init, Emitting
  <2>2. Emitted = 0
    <3>1. TypeOK
      BY InitType
    <3>2. Cardinality(Emitting) = 0
      BY <2>1, FS_EmptySet
    <3> QED
      BY <2>1, <3>1, <3>2, EmittedType
  <2>3. Announced
    BY <2>2, QueueAssumption DEF Init, Announced
  <2> QED
    BY <2>3, InitType
<1>2. I /\ [Next]_vars => I'
  <2> SUFFICES ASSUME I, [Next]_vars PROVE I'
    OBVIOUS
  <2>1. (TypeOK /\ Begun)'
    BY NextType
  <2>2. ASSUME Alive' PROVE Announced'
    <3>1. Alive
      BY <2>2 DEF Next, SenderStep, Done, Alive, vars
    <3> QED
      BY <2>2, <3>1, NextAnnounced
  <2> QED
    BY <2>1, <2>2
<1>3. I => OverflowAnnounced
  BY DEF Announced, OverflowAnnounced
<1> QED
  BY <1>1, <1>2, <1>3, PTL DEF Spec

=============================================================================
