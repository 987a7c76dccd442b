----------------------------- MODULE EventQueue -----------------------------
(***************************************************************************)
(* The bounded event queue of internal/queue/queue.go, between the         *)
(* goroutines that call Send (the daemon's forwarder and the callers of    *)
(* emitSystemEvent) and the audit logger that reads Receive() and          *)
(* Control().                                                              *)
(*                                                                         *)
(* A sender is at one of the program points of Send; between two points    *)
(* any other goroutine may run.  An event is <<s, k>>: the k-th event that *)
(* sender s submits.  A Go channel is a sequence; a sender parked on a     *)
(* full channel proceeds when there is room.  The critical section of      *)
(* sendDropOldest excludes nobody but other evictions, so it is one step.  *)
(***************************************************************************)
EXTENDS Integers, Sequences, FiniteSets, Functions

CONSTANTS
  Senders,          \* goroutines that call Send
  Capacity,         \* queue.capacity
  ControlCapacity,  \* capacity of the control channel (100 in New)
  Policies,         \* overflow policies a queue may be created with
  MaxSends,         \* bound: number of Send calls per sender
  MaxEvents         \* bound: number of Send calls in all

AllPolicies == {"block_with_timeout", "drop_oldest"}

ASSUME QueueAssumption ==
  /\ IsFiniteSet(Senders)
  /\ Capacity \in Nat \ {0}
  /\ ControlCapacity \in Nat \ {0}
  /\ Policies \subseteq AllPolicies
  /\ MaxSends \in Nat
  /\ MaxEvents \in Nat

VARIABLES
  ch,         \* the main channel
  control,    \* number of overflow events in the control channel
  closing,    \* progress of Close: 0 open, 1 flag set, 2 ch closed, 3 both
  overtaken,  \* history: senders inside Send when Close was called
  policy,     \* chosen by New, never changed
  dropped,    \* Stats.Dropped
  overflow,   \* Stats.Overflow
  pc,         \* program point of each sender
  calls,      \* number of Send calls of each sender
  admitted,   \* history: events put on ch, in order
  received,   \* history: events the consumer took, in order
  evicted,    \* history: events sendDropOldest removed from ch
  rejected,   \* history: events whose own Send gave up
  refused,    \* history: events submitted after Close
  crashed,    \* history: events whose Send panicked before deciding
  heard       \* history: the last receive from control (see ReceiveControl)

vars == <<ch, control, closing, overtaken, policy, dropped, overflow, pc, calls,
          admitted, received, evicted, rejected, refused, crashed, heard>>

counters == <<dropped, overflow>>
history  == <<received, evicted, rejected, refused, crashed, heard>>

Points == {"idle", "try", "wait", "evict", "evicted", "retry",
           "drop", "overflow", "emit", "panicked"}

Event == Senders \X (1..MaxSends)

Submitted == {e \in Event : e[2] <= calls[e[1]]}

\* The bounds on the number of Send calls.
MoreToSend(s) == calls[s] < MaxSends /\ Cardinality(Submitted) < MaxEvents

Current(s) == <<s, calls[s]>>
Room == Len(ch) < Capacity
ChClosed == closing >= 2
ControlClosed == closing = 3

Goto(s, p) == pc' = [pc EXCEPT ![s] = p]

(***************************************************************************)
(* New                                                                     *)
(***************************************************************************)
Init ==
  /\ ch = <<>>
  /\ control = 0
  /\ closing = 0
  /\ overtaken = {}
  /\ policy \in Policies
  /\ dropped = 0
  /\ overflow = 0
  /\ pc = [s \in Senders |-> "idle"]
  /\ calls = [s \in Senders |-> 0]
  /\ admitted = <<>>
  /\ received = <<>>
  /\ evicted = {}
  /\ rejected = {}
  /\ refused = {}
  /\ crashed = {}
  /\ heard = [left |-> 0, emitted |-> 0]

(***************************************************************************)
(* Send                                                                    *)
(***************************************************************************)

\* Mutant: the closed flag is not read.
SendIgnoresClosed(s) ==
  /\ pc[s] = "idle"
  /\ MoreToSend(s)
  /\ calls' = [calls EXCEPT ![s] = @ + 1]
  /\ Goto(s, "try")
  /\ UNCHANGED <<ch, control, closing, overtaken, policy, counters, admitted, history>>

\* The closed flag is read once, on entry.
Send(s) ==
  /\ pc[s] = "idle"
  /\ MoreToSend(s)
  /\ calls' = [calls EXCEPT ![s] = @ + 1]
  /\ IF closing = 0
     THEN Goto(s, "try") /\ UNCHANGED refused
     ELSE refused' = refused \cup {<<s, calls[s] + 1>>} /\ UNCHANGED pc
  /\ UNCHANGED <<ch, control, closing, overtaken, policy, counters, admitted, received,
                 evicted, rejected, crashed, heard>>

\* Mutant: the new event goes to the head.
AdmitAtHead(s) ==
  /\ ch' = <<Current(s)>> \o ch
  /\ admitted' = Append(admitted, Current(s))

Admit(s) ==
  /\ ch' = Append(ch, Current(s))
  /\ admitted' = Append(admitted, Current(s))

\* A send on a closed channel panics, which ends the process.
PanicOnSend(s) ==
  /\ ChClosed
  /\ Goto(s, "panicked")
  /\ crashed' = crashed \cup {Current(s)}
  /\ UNCHANGED <<ch, control, closing, overtaken, policy, counters, calls, admitted,
                 received, evicted, rejected, refused, heard>>

\* The non-blocking attempt both policies start with.
Try(s) ==
  /\ pc[s] = "try"
  /\ \/ PanicOnSend(s)
     \/ /\ ~ChClosed /\ Room
        /\ Admit(s)
        /\ Goto(s, "idle")
        /\ UNCHANGED <<control, closing, overtaken, policy, counters, calls, history>>
     \/ /\ ~ChClosed /\ ~Room
        /\ Goto(s, IF policy = "drop_oldest" THEN "evict" ELSE "wait")
        /\ UNCHANGED <<ch, control, closing, overtaken, policy, counters, calls, admitted, history>>

\* sendBlockTimeout, second select: room appears while the sender is parked ...
WaitSend(s) ==
  /\ pc[s] = "wait"
  /\ \/ PanicOnSend(s)
     \/ /\ ~ChClosed /\ Room
        /\ Admit(s)
        /\ Goto(s, "idle")
        /\ UNCHANGED <<control, closing, overtaken, policy, counters, calls, history>>

\* Mutant: no timer is armed.
WaitForever(s) == FALSE

\* ... or its timer fires first.
WaitTimeout(s) ==
  /\ pc[s] = "wait"
  /\ rejected' = rejected \cup {Current(s)}
  /\ Goto(s, "drop")
  /\ UNCHANGED <<ch, control, closing, overtaken, policy, counters, calls, admitted, received,
                 evicted, refused, crashed, heard>>

\* Mutant: the head is counted as evicted but stays.
EvictPeeks(s) ==
  /\ pc[s] = "evict"
  /\ evicted' = evicted \cup {ch[i] : i \in 1..Len(ch) \cap {1}}
  /\ Goto(s, "evicted")
  /\ UNCHANGED <<ch, control, closing, overtaken, policy, counters, calls, admitted, received,
                 rejected, refused, crashed, heard>>

\* sendDropOldest, under mu: remove the head.  The consumer may have emptied
\* the channel meanwhile; a closed empty channel yields a nil that counts.
Evict(s) ==
  /\ pc[s] = "evict"
  /\ \/ /\ ch # <<>>
        /\ ch' = Tail(ch)
        /\ evicted' = evicted \cup {Head(ch)}
        /\ Goto(s, "evicted")
     \/ /\ ch = <<>>
        /\ Goto(s, IF ChClosed THEN "evicted" ELSE "retry")
        /\ UNCHANGED <<ch, evicted>>
  /\ UNCHANGED <<control, closing, overtaken, policy, counters, calls, admitted, received,
                 rejected, refused, crashed, heard>>

\* Mutant: an eviction is not counted.
EvictedUncounted(s) ==
  /\ pc[s] = "evicted"
  /\ Goto(s, "retry")
  /\ UNCHANGED <<ch, control, closing, overtaken, policy, counters, calls, admitted, history>>

CountEvicted(s) ==
  /\ pc[s] = "evicted"
  /\ dropped' = dropped + 1
  /\ Goto(s, "retry")
  /\ UNCHANGED <<ch, control, closing, overtaken, policy, overflow, calls, admitted, history>>

\* sendDropOldest, after mu is released: another sender may have taken the
\* slot, and then the new event is lost as well as the evicted one.
Retry(s) ==
  /\ pc[s] = "retry"
  /\ \/ PanicOnSend(s)
     \/ /\ ~ChClosed /\ Room
        /\ Admit(s)
        /\ Goto(s, "overflow")
        /\ UNCHANGED <<control, closing, overtaken, policy, counters, calls, history>>
     \/ /\ ~ChClosed /\ ~Room
        /\ rejected' = rejected \cup {Current(s)}
        /\ Goto(s, "drop")
        /\ UNCHANGED <<ch, control, closing, overtaken, policy, counters, calls, admitted,
                       received, evicted, refused, crashed, heard>>

CountDrop(s) ==
  /\ pc[s] = "drop"
  /\ dropped' = dropped + 1
  /\ Goto(s, "overflow")
  /\ UNCHANGED <<ch, control, closing, overtaken, policy, overflow, calls, admitted, history>>

CountOverflow(s) ==
  /\ pc[s] = "overflow"
  /\ overflow' = overflow + 1
  /\ Goto(s, "emit")
  /\ UNCHANGED <<ch, control, closing, overtaken, policy, dropped, calls, admitted, history>>

\* Mutant: the last slot of the control channel is not used.
EmitLeavesSlot(s) ==
  /\ pc[s] = "emit"
  /\ IF ControlClosed
     THEN Goto(s, "panicked") /\ UNCHANGED control
     ELSE /\ control' = IF control + 1 < ControlCapacity THEN control + 1 ELSE control
          /\ Goto(s, "idle")
  /\ UNCHANGED <<ch, closing, overtaken, policy, counters, calls, admitted, history>>

\* emitOverflow: the event is discarded when the control channel is full.
EmitOverflow(s) ==
  /\ pc[s] = "emit"
  /\ \/ /\ ControlClosed
        /\ Goto(s, "panicked")
        /\ UNCHANGED control
     \/ /\ ~ControlClosed
        /\ control' = IF control < ControlCapacity THEN control + 1 ELSE control
        /\ Goto(s, "idle")
  /\ UNCHANGED <<ch, closing, overtaken, policy, counters, calls, admitted, history>>

(***************************************************************************)
(* The consumer: one receive from either channel.  Drain is a sequence of  *)
(* receives after Close.                                                   *)
(***************************************************************************)
Receive ==
  /\ ch # <<>>
  /\ ch' = Tail(ch)
  /\ received' = Append(received, Head(ch))
  /\ UNCHANGED <<control, closing, overtaken, policy, counters, pc, calls, admitted, evicted,
                 rejected, refused, crashed, heard>>

\* Overflow events that emitOverflow has tried to send.
Emitted == overflow - Cardinality({s \in Senders : pc[s] = "emit"})

\* heard records what is left in control and what had been emitted by then.
ReceiveControl ==
  /\ control > 0
  /\ control' = control - 1
  /\ heard' = [left |-> control - 1, emitted |-> Emitted]
  /\ UNCHANGED <<ch, closing, overtaken, policy, counters, pc, calls, admitted, received,
                 evicted, rejected, refused, crashed>>

(***************************************************************************)
(* Close: the compare-and-swap of the flag, then the two channels.         *)
(***************************************************************************)
Close ==
  /\ closing < 3
  /\ overtaken' = IF closing = 0 THEN {s \in Senders : pc[s] # "idle"} ELSE overtaken
  /\ closing' = closing + 1
  /\ UNCHANGED <<ch, control, policy, counters, pc, calls, admitted, history>>

\* The process runs until a goroutine panics.
Alive == \A s \in Senders : pc[s] # "panicked"

SenderStep(s) ==
  /\ Alive
  /\ \/ Try(s) \/ WaitSend(s) \/ WaitTimeout(s)
     \/ Evict(s) \/ CountEvicted(s) \/ Retry(s)
     \/ CountDrop(s) \/ CountOverflow(s) \/ EmitOverflow(s)

\* All Send calls have been made and have returned, or the process has ended.
Done ==
  /\ Alive => \A s \in Senders : ~MoreToSend(s) /\ pc[s] = "idle"
  /\ UNCHANGED vars

Next ==
  \/ \E s \in Senders : (Alive /\ Send(s)) \/ SenderStep(s)
  \/ Alive /\ (Receive \/ ReceiveControl \/ Close)
  \/ Done

Spec == Init /\ [][Next]_vars

\* A runnable goroutine is eventually scheduled and an armed timer fires.
\* Nothing is assumed of the consumer.
FairSpec == Spec /\ \A s \in Senders : WF_vars(SenderStep(s))

-----------------------------------------------------------------------------
(***************************************************************************)
(* Properties                                                              *)
(***************************************************************************)

\* Every variable has its type; the channels never exceed their capacity.
TypeOK ==
  /\ ch \in Seq(Event) /\ Len(ch) <= Capacity
  /\ control \in 0..ControlCapacity
  /\ closing \in 0..3
  /\ overtaken \in SUBSET Senders
  /\ policy \in AllPolicies
  /\ dropped \in Nat
  /\ overflow \in Nat
  /\ pc \in [Senders -> Points]
  /\ calls \in [Senders -> 0..MaxSends]
  /\ admitted \in Seq(Event)
  /\ received \in Seq(Event)
  /\ evicted \in SUBSET Event
  /\ rejected \in SUBSET Event
  /\ refused \in SUBSET Event
  /\ crashed \in SUBSET Event
  /\ heard \in [left : 0..ControlCapacity, emitted : Int]

\* Events whose Send has begun and has neither enqueued nor given up.
InFlight ==
  {Current(s) : s \in {t \in Senders :
                 pc[t] \in {"try", "wait", "evict", "evicted", "retry"}}}

\* Every submitted event has exactly one fate: it is still inside its Send, it
\* waits in the channel, it reached the consumer, it was evicted, its Send
\* returned false, it came after Close, or its Send panicked.  No event is duplicated or vanishes,
\* whatever the senders, the consumer and the evictions do in between (Send,
\* sendBlockTimeout, sendDropOldest).
OneFate ==
  LET fates == <<InFlight, Range(ch), Range(received), evicted, rejected,
                 refused, crashed>>
  IN  /\ Submitted = UNION Range(fates)
      /\ \A i, j \in 1..7 : i # j => fates[i] \cap fates[j] = {}

\* Stats.Dropped counts exactly the lost events, except for those a sender has
\* just lost and is about to count: no loss is silent and none counted twice.
\* A Send that Close overtook may count the nil of the closed channel.
DroppedIsLoss ==
  overtaken = {} =>
  dropped + Cardinality({s \in Senders : pc[s] \in {"evicted", "drop"}})
    = Cardinality(evicted) + Cardinality(rejected)

\* The events of one sender reach the consumer in the order they were sent,
\* although the queue may lose some of them.
SenderOrder ==
  LET seen == received \o ch
  IN  \A i, j \in 1..Len(seen) :
        i < j /\ seen[i][1] = seen[j][1] => seen[i][2] < seen[j][2]

\* An overflow that was counted is announced: the control channel holds what
\* the consumer left in it and one signal for each overflow that was emitted
\* since, up to its capacity.  So a signal is discarded only when all slots hold
\* signals that wait, and no loss stays silent after the last one was taken.
OverflowAnnounced ==
  Alive => LET due == heard.left + (Emitted - heard.emitted)
           IN  control = IF due < ControlCapacity THEN due ELSE ControlCapacity

\* No sender panics when no Send was under way as Close was called, although
\* Close is not atomic and later Sends race with the rest of it (queue_test.go
\* uses the queue like this; the daemon never closes it).
NoPanic == overtaken = {} => Alive

\* A Send that has begun returns, even when the consumer takes nothing more:
\* the timer bounds block_with_timeout and drop_oldest never waits.
SendReturns == \A s \in Senders : (pc[s] # "idle") ~> (pc[s] = "idle" \/ ~Alive)

=============================================================================
