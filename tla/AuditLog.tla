------------------------------ MODULE AuditLog ------------------------------
(***************************************************************************)
(* The audit logger of internal/audit/logger.go over the database of       *)
(* Store: one serializer goroutine takes events from the queue, judges     *)
(* them, chains them, collects them in a batch and writes the batch in one *)
(* transaction; then it notifies the subscribers.  The process may crash,  *)
(* the database may fail, and the daemon may be stopped and started again. *)
(*                                                                         *)
(* The queue is the environment (EventQueue models it): events arrive on   *)
(* the main channel and overflow events on the control channel, with any   *)
(* timestamps.  What an evaluator matches is chosen: the set of            *)
(* enforcements its rules trigger.                                         *)
(***************************************************************************)
EXTENDS Store, Judgement

CONSTANTS
  Ids,             \* event identifiers
  MainEvents,      \* events the adapters may submit
  OverflowEvents,  \* events processOverflow may build
  Triggers,        \* sets of enforcements the rules may trigger for an event
  Files,           \* source files of the log watcher
  BatchSize,       \* audit batch size
  Subs,            \* subscriber channels
  SubCapacity,     \* capacity of a subscriber channel (256)
  MaxRedactions,   \* MaxRedactionsPerField (50)
  StartServices,   \* environment: the commandments file at a start is valid or not
  MayStop,         \* environment: the daemon may be asked to stop
  MaxEvents,       \* bound: number of submitted events
  MaxFailures,     \* bound: number of failed flushes
  MaxRestarts      \* bound: number of restarts

NoFile == "none"

\* The rules, or noopCommandmentsService when the file was invalid at the start.
Services == {"rules", "noop"}

\* What redaction tells apart in the arguments: how often a pattern that is
\* always on matches, and one that is on when a rule triggered.
Arguments == [secrets : Nat, assigns : Nat]

EventType == [id : Ids, ts : Seq(Nat), exempt : BOOLEAN, adapter : STRING,
              outcome : Outcomes, args : Arguments,
              file : Files \cup {NoFile}, off : Nat]

ASSUME LogAssumption ==
  /\ MainEvents \subseteq EventType
  /\ OverflowEvents \subseteq EventType
  /\ Triggers \subseteq SUBSET Enforcements
  /\ NoFile \notin Files
  /\ BatchSize \in Nat \ {0}
  /\ SubCapacity \in Nat
  /\ MaxRedactions \in Nat
  /\ StartServices \subseteq Services
  /\ MayStop \in BOOLEAN
  /\ MaxEvents \in Nat
  /\ MaxFailures \in Nat
  /\ MaxRestarts \in Nat

VARIABLES
  rows, anchors, offsets,       \* the database
  inq, ctl,                     \* main and control channel of the queue
  pc, cont,                     \* program point; where flush returns to
  batch, prevHash, lastEpoch,   \* serializerLoop's locals
  tx,                           \* transaction of InsertEvents: rows, next, ignored
  notified,                     \* events of the batch already sent out
  subs,                         \* subscribers: on, pending, seen
  done,                         \* ctx is cancelled
  evaluator, redactor,          \* the service each of them is
  restarts, failures,           \* restarts and failed flushes so far
  submitted,                    \* history: every event submitted
  accepted,                     \* history: how many were when ctx was cancelled
  lost,                         \* history: ids a crash or a stop discarded
  discarded,                    \* history: rows of the batches they discarded
  ignored                       \* history: rows that INSERT OR IGNORE ignored

db     == <<rows, anchors, offsets>>
queue  == <<inq, ctl>>
locals == <<batch, prevHash, lastEpoch>>
bounds == <<restarts, failures>>
service == <<evaluator, redactor>>
ghosts == <<submitted, accepted, lost, discarded, ignored>>
vars   == <<db, queue, pc, cont, locals, tx, notified, subs, done, service, bounds,
            ghosts>>

NoTx == [rows |-> <<>>, next |-> 0, ignored |-> {}]
NoEpoch == 0

IdsOf(evts) == {evts[i].id : i \in 1..Len(evts)}

(***************************************************************************)
(* Judging: processEvent up to the redaction                               *)
(***************************************************************************)

Fewer(a, b) == IF a < b THEN a ELSE b

\* Mutant: the patterns of triggered rules are applied first.
RedactWidestFirst(args, triggered) ==
  LET wide == IF triggered # {} THEN Fewer(args.assigns, MaxRedactions) ELSE 0
  IN  [secrets |-> args.secrets - Fewer(args.secrets, MaxRedactions - wide),
       assigns |-> args.assigns - wide]

\* Redactor.Redact: at most MaxRedactions matches are replaced, first those of the
\* patterns that are always on, then, if a rule triggered, those of the others.
Redact(args, triggered) ==
  LET always == Fewer(args.secrets, MaxRedactions)
  IN  [secrets |-> args.secrets - always,
       assigns |-> args.assigns -
         IF triggered # {} THEN Fewer(args.assigns, MaxRedactions - always) ELSE 0]

Judge(e, triggered) ==
  IF e.exempt THEN e
  ELSE [e EXCEPT !.outcome = RaisedOutcome(e.outcome, e.adapter, triggered),
                 !.args = IF redactor = "rules" THEN Redact(e.args, triggered) ELSE e.args]

\* SetEvaluator and SetRedactor, when a reload finds the file repaired.  They are
\* plain writes, and the serializer reads one field some time after the other, so
\* it may see either change first.
SetEvaluator ==
  /\ evaluator = "noop" /\ evaluator' = "rules"
  /\ UNCHANGED <<db, queue, pc, cont, locals, tx, notified, subs, done, redactor, bounds,
                 ghosts>>

SetRedactor ==
  /\ redactor = "noop" /\ redactor' = "rules"
  /\ UNCHANGED <<db, queue, pc, cont, locals, tx, notified, subs, done, evaluator, bounds,
                 ghosts>>

(***************************************************************************)
(* Init: an empty database, the logger just started                        *)
(***************************************************************************)
Init ==
  /\ rows = <<>> /\ anchors = {} /\ offsets = [f \in Files |-> 0]
  /\ inq = <<>> /\ ctl = <<>>
  /\ pc = "drain" /\ cont = "drain"
  /\ batch = <<>> /\ prevHash = Genesis /\ lastEpoch = NoEpoch
  /\ tx = NoTx /\ notified = 0
  /\ subs = [s \in Subs |-> [on |-> FALSE, pending |-> 0, seen |-> <<>>]]
  /\ done = FALSE /\ restarts = 0 /\ failures = 0
  /\ evaluator \in StartServices /\ redactor = evaluator
  /\ submitted = <<>> /\ accepted = 0 /\ lost = {} /\ discarded = {} /\ ignored = {}

(***************************************************************************)
(* The environment: an event reaches the queue                             *)
(***************************************************************************)
Up == pc \notin {"down", "stopped"}

\* Only the log watcher may submit an id twice, when it scans a line again; the
\* ids of the others are random.
Admissible(e) ==
  /\ Len(submitted) < MaxEvents
  /\ e.adapter # "log_watcher" => e.id \notin IdsOf(submitted)

Submit(e) ==
  /\ Up /\ Admissible(e)
  /\ inq' = Append(inq, e)
  /\ submitted' = Append(submitted, e)
  /\ UNCHANGED <<db, ctl, pc, cont, locals, tx, notified, subs, done, service, bounds,
                 accepted, lost, discarded, ignored>>

Overflow(e) ==
  /\ Up /\ Admissible(e)
  /\ ctl' = Append(ctl, e)
  /\ submitted' = Append(submitted, e)
  /\ UNCHANGED <<db, inq, pc, cont, locals, tx, notified, subs, done, service, bounds,
                 accepted, lost, discarded, ignored>>

(***************************************************************************)
(* processEvent, from the redaction to the end                             *)
(***************************************************************************)

\* A new day is anchored at once, before the event itself is stored; an error
\* is only logged.
Anchor(row) ==
  LET epoch == EpochOf(row.e.ts)
  IN  /\ lastEpoch' = epoch
      /\ \/ /\ epoch # lastEpoch
            /\ anchors' = InsertChainAnchor(anchors, epoch, row.e.id, row.hash)
         \/ UNCHANGED anchors    \* same day, or the insert failed

ProcessEvent(e, then) ==
  \E triggered \in IF evaluator = "rules" THEN Triggers ELSE {{}} :
    LET x   == Judge(e, triggered)
        row == [e |-> x, prev |-> prevHash, hash |-> ComputeHash(x, prevHash),
                by |-> [redactor |-> redactor, triggered |-> triggered # {}]]
    IN  /\ prevHash' = row.hash
        /\ Anchor(row)
        /\ batch' = Append(batch, row)
        /\ IF Len(batch) + 1 >= BatchSize
           THEN pc' = "flush" /\ cont' = then
           ELSE pc' = then /\ UNCHANGED cont
        /\ UNCHANGED <<rows, offsets, tx, notified, subs, done, service, bounds, ghosts>>

TakeMain(then) ==
  /\ inq # <<>>
  /\ inq' = Tail(inq) /\ UNCHANGED ctl
  /\ ProcessEvent(Head(inq), then)

TakeControl(then) ==
  /\ ctl # <<>>
  /\ ctl' = Tail(ctl) /\ UNCHANGED inq
  /\ ProcessEvent(Head(ctl), then)

Goto(p) ==
  /\ pc' = p
  /\ UNCHANGED <<db, queue, cont, locals, tx, notified, subs, done, service, bounds,
                 ghosts>>

CallFlush(then) ==
  /\ pc' = "flush" /\ cont' = then
  /\ UNCHANGED <<db, queue, locals, tx, notified, subs, done, service, bounds, ghosts>>

(***************************************************************************)
(* serializerLoop                                                          *)
(***************************************************************************)

\* drainControl at the top of the loop
DrainControl ==
  /\ pc = "drain"
  /\ \/ TakeControl("drain")
     \/ ctl = <<>> /\ Goto("select")

\* The select: any ready case.
SelectReceive ==
  /\ pc = "select"
  /\ TakeMain("drain")

SelectControl == pc = "select" /\ TakeControl("drain")

\* Mutant: the ticker flushes full batches only.
TickFullOnly == pc = "select" /\ Len(batch) >= BatchSize /\ CallFlush("drain")

SelectTick == pc = "select" /\ CallFlush("drain")

SelectDone == pc = "select" /\ done /\ Goto("shutdown")

\* Shutdown: both channels until neither is ready, drainControl, flush, return.
Shutdown ==
  /\ pc = "shutdown"
  /\ \/ TakeMain("shutdown")
     \/ TakeControl("shutdown")
     \/ inq = <<>> /\ ctl = <<>> /\ Goto("final")

ShutdownFlush ==
  /\ pc = "final"
  /\ \/ TakeControl("final")
     \/ ctl = <<>> /\ CallFlush("stopped")

(***************************************************************************)
(* flush and Store.InsertEvents                                            *)
(***************************************************************************)
BeginFlush ==
  /\ pc = "flush"
  /\ \/ batch = <<>> /\ pc' = cont /\ UNCHANGED tx
     \/ batch # <<>> /\ pc' = "insert" /\ tx' = [rows |-> rows, next |-> 1, ignored |-> {}]
  /\ UNCHANGED <<db, queue, cont, locals, notified, subs, done, service, bounds,
                 ghosts>>

InsertOne ==
  /\ pc = "insert" /\ tx.next <= Len(batch)
  /\ LET row == batch[tx.next]
     IN  tx' = [rows |-> InsertRow(tx.rows, row), next |-> tx.next + 1,
                ignored |-> IF row.e.id \in StoredIds(tx.rows) THEN tx.ignored \cup {row}
                            ELSE tx.ignored]
  /\ UNCHANGED <<db, queue, pc, cont, locals, notified, subs, done, service, bounds,
                 ghosts>>

Commit ==
  /\ pc = "insert" /\ tx.next > Len(batch)
  /\ rows' = tx.rows /\ ignored' = ignored \cup tx.ignored
  /\ offsets' = CommitOffsets(offsets, batch)
  /\ tx' = NoTx /\ pc' = "notify" /\ notified' = 0
  /\ UNCHANGED <<anchors, queue, cont, locals, subs, done, service, bounds, submitted,
                 accepted, lost, discarded>>

\* Mutant: the batch is dropped with the transaction.
ErrorDropsBatch ==
  /\ pc = "insert" /\ failures < MaxFailures
  /\ tx' = NoTx /\ pc' = cont /\ batch' = <<>>
  /\ failures' = failures + 1
  /\ UNCHANGED <<db, queue, cont, prevHash, lastEpoch, notified, subs, done, service,
                 restarts, ghosts>>

\* Any statement may fail: the transaction is rolled back, the batch is kept.
FlushError ==
  /\ pc = "insert" /\ failures < MaxFailures
  /\ tx' = NoTx /\ pc' = cont
  /\ failures' = failures + 1
  /\ UNCHANGED <<db, queue, cont, locals, notified, subs, done, service, restarts,
                 ghosts>>

\* The read lock is held from here to the end of the loop over the batch.
Deliver(sub, row) ==
  IF sub.on /\ sub.pending < SubCapacity
  THEN [sub EXCEPT !.pending = @ + 1, !.seen = Append(@, row)]
  ELSE sub

\* Mutant: the batch is not emptied.
NotifyKeepsBatch ==
  /\ pc = "notify"
  /\ \/ /\ notified < Len(batch)
        /\ subs' = [s \in Subs |-> Deliver(subs[s], batch[notified + 1])]
        /\ notified' = notified + 1
        /\ UNCHANGED pc
     \/ /\ notified = Len(batch)
        /\ notified' = 0 /\ pc' = cont
        /\ UNCHANGED subs
  /\ UNCHANGED <<db, queue, cont, locals, tx, done, service, bounds, ghosts>>

Notify ==
  /\ pc = "notify"
  /\ \/ /\ notified < Len(batch)
        /\ subs' = [s \in Subs |-> Deliver(subs[s], batch[notified + 1])]
        /\ notified' = notified + 1
        /\ UNCHANGED <<pc, batch>>
     \/ /\ notified = Len(batch)
        /\ batch' = <<>> /\ notified' = 0 /\ pc' = cont
        /\ UNCHANGED subs
  /\ UNCHANGED <<db, queue, cont, prevHash, lastEpoch, tx, done, service, bounds,
                 ghosts>>

(***************************************************************************)
(* Subscribers                                                             *)
(***************************************************************************)
Subscribe(s) ==
  /\ Up /\ pc # "notify" /\ ~subs[s].on
  /\ subs' = [subs EXCEPT ![s] = [on |-> TRUE, pending |-> 0, seen |-> <<>>]]
  /\ UNCHANGED <<db, queue, pc, cont, locals, tx, notified, done, service, bounds,
                 ghosts>>

Unsubscribe(s) ==
  /\ Up /\ pc # "notify" /\ subs[s].on
  /\ subs' = [subs EXCEPT ![s].on = FALSE]
  /\ UNCHANGED <<db, queue, pc, cont, locals, tx, notified, done, service, bounds,
                 ghosts>>

\* The subscriber reads one event from its channel.
Consume(s) ==
  /\ subs[s].pending > 0
  /\ subs' = [subs EXCEPT ![s].pending = @ - 1]
  /\ UNCHANGED <<db, queue, pc, cont, locals, tx, notified, done, service, bounds,
                 ghosts>>

(***************************************************************************)
(* Stop, crash, restart                                                    *)
(***************************************************************************)
Stop ==
  /\ MayStop /\ Up /\ ~done
  /\ done' = TRUE /\ accepted' = Len(submitted)
  /\ UNCHANGED <<db, queue, pc, cont, locals, tx, notified, subs, service, bounds,
                 submitted, lost, discarded, ignored>>

\* What is not in the database is gone: channels, batch, open transaction.
Volatile == IdsOf(inq) \cup IdsOf(ctl) \cup StoredIds(batch)

Elems(c) == {c[i] : i \in 1..Len(c)}

Forget ==
  /\ inq' = <<>> /\ ctl' = <<>>
  /\ batch' = <<>> /\ lastEpoch' = NoEpoch
  /\ tx' = NoTx /\ notified' = 0
  /\ subs' = [s \in Subs |-> [on |-> FALSE, pending |-> 0, seen |-> <<>>]]
  /\ lost' = lost \cup (Volatile \ StoredIds(rows))
  /\ discarded' = discarded \cup (Elems(batch) \ Elems(rows))

Crash ==
  /\ Up /\ restarts < MaxRestarts
  /\ Forget
  /\ pc' = "down" /\ UNCHANGED <<db, cont, prevHash, done, service, bounds, submitted,
                                accepted, ignored>>

\* Mutant: every start begins a new chain.
RestartFromGenesis ==
  /\ ~Up /\ restarts < MaxRestarts
  /\ Forget
  /\ restarts' = restarts + 1
  /\ prevHash' = Genesis
  /\ pc' = "drain" /\ cont' = "drain" /\ done' = FALSE /\ accepted' = 0
  /\ evaluator' \in StartServices /\ redactor' = evaluator'
  /\ UNCHANGED <<db, failures, submitted, ignored>>

\* NewLogger and Start
Restart ==
  /\ ~Up /\ restarts < MaxRestarts
  /\ Forget
  /\ restarts' = restarts + 1
  /\ prevHash' = GetLastEventHash(rows)
  /\ pc' = "drain" /\ cont' = "drain" /\ done' = FALSE /\ accepted' = 0
  /\ evaluator' \in StartServices /\ redactor' = evaluator'
  /\ UNCHANGED <<db, failures, submitted, ignored>>

\* The daemon has ended for good.
Ended ==
  /\ ~Up /\ restarts = MaxRestarts
  /\ UNCHANGED vars

Serializer ==
  \/ DrainControl \/ SelectReceive \/ SelectControl \/ SelectTick \/ SelectDone
  \/ Shutdown \/ ShutdownFlush
  \/ BeginFlush \/ InsertOne \/ Commit \/ FlushError \/ Notify

Next ==
  \/ Serializer
  \/ \E e \in MainEvents : Submit(e)
  \/ \E e \in OverflowEvents : Overflow(e)
  \/ \E s \in Subs : Subscribe(s) \/ Unsubscribe(s) \/ Consume(s)
  \/ SetEvaluator \/ SetRedactor
  \/ Stop \/ Crash \/ Restart
  \/ Ended

Spec == Init /\ [][Next]_vars

\* The serializer goroutine is scheduled, and a case of its select that is
\* ready again and again (a channel, the ticker, ctx) is picked at some time.
\* The database fails at most MaxFailures times.
FairSpec ==
  /\ Spec
  /\ WF_vars(Serializer)
  /\ SF_vars(SelectReceive) /\ SF_vars(SelectTick) /\ SF_vars(SelectDone)

-----------------------------------------------------------------------------
(***************************************************************************)
(* Properties                                                              *)
(***************************************************************************)
Hashes == Seq(EventType)
Row == [e : EventType, prev : Hashes, hash : Hashes,
        by : [redactor : Services, triggered : BOOLEAN]]
Points == {"drain", "select", "shutdown", "final", "flush", "insert", "notify",
           "stopped", "down"}

InTextOrder(c) == \A i, j \in 1..Len(c) : i < j => ~TextBefore(c[j].e.ts, c[i].e.ts)

\* No row was ever ignored, and the table is in the order in which it is verified.
Intact == ignored = {} /\ InTextOrder(rows)

\* `crabwise audit --verify-integrity` finds the chain intact, whatever crashes,
\* failed flushes and restarts came before, as long as no event came twice and
\* those stored so far came in the order of their timestamps as text
\* (VerifyIntegrity, processEvent, NewLogger, INSERT OR IGNORE).
ChainVerifies == Intact => VerifyIntegrity(rows)

\* Under the same conditions the events a running logger has chained but not
\* stored continue the stored chain, so that the next commit extends it, although
\* they themselves may be duplicates or out of order (processEvent, flush).
ChainContinues ==
  Intact /\ Up /\ pc # "notify" =>
    LET chain == rows \o batch
    IN  \A i \in 1..Len(chain) :
          chain[i].prev = IF i = 1 THEN Genesis ELSE chain[i - 1].hash

Accounted == IdsOf(submitted) = Volatile \cup StoredIds(rows) \cup lost

StopDrains ==
  pc = "stopped" /\ batch = <<>> =>
    \A i \in 1..accepted : submitted[i].id \in StoredIds(rows) \cup lost

AnchorsBacked ==
  \A a \in anchors :
    \E r \in Elems(rows) \cup Elems(batch) \cup discarded \cup ignored : r.hash = a.hash

\* No accepted event is silently lost: it is queued, in the batch, stored, or
\* was in memory when the process ended; a failed flush loses nothing (flush
\* keeps the batch).  A graceful stop whose last flush succeeded has stored every
\* event accepted before the stop was requested (shutdown branch of
\* serializerLoop).  And an anchor, which is written before its event is,
\* points at a row that is stored, in the batch, was discarded by a crash, or
\* ignored because its event came twice (InsertChainAnchor).
NothingVanishes == Accounted /\ StopDrains /\ AnchorsBacked

CameTwice(id) ==
  \E i, j \in 1..Len(submitted) : i # j /\ submitted[i].id = id /\ submitted[j].id = id

\* Subscribers are told only of events that are committed, each at most once
\* and in the order of the table, however often a flush is retried.  The one
\* exception is an event that was submitted twice: they are told of both copies,
\* though INSERT OR IGNORE has left out one.
SubscribersFollow ==
  \A s \in Subs :
    LET seen == subs[s].seen
    IN  \A i \in 1..Len(seen) : ~CameTwice(seen[i].e.id) =>
          \E k \in 1..Len(rows) :
            /\ rows[k] = seen[i]
            /\ \A j \in 1..(i - 1) : ~CameTwice(seen[j].e.id) =>
                 \E m \in 1..(k - 1) : rows[m] = seen[j]

OutcomesFaithful ==
  \A i \in 1..Len(rows) : \E k \in 1..Len(submitted) :
    LET r == rows[i].e  s == submitted[k]
    IN  /\ r.id = s.id
        /\ OutcomeRank(s.outcome) <= OutcomeRank(r.outcome)
        /\ s.adapter = "log_watcher" /\ s.outcome # "blocked" => r.outcome # "blocked"
        /\ s.exempt => r = s

SecretsRedacted ==
  \A r \in Elems(rows) \cup Elems(batch) :
    /\ r.hash = ComputeHash(r.e, r.prev)
    /\ r.by.redactor = "rules" /\ ~r.e.exempt =>
         \E k \in 1..Len(submitted) :
           LET s == submitted[k]
           IN  /\ s.id = r.e.id
               /\ s.args.secrets <= MaxRedactions => r.e.args.secrets = 0
               /\ r.by.triggered /\ s.args.secrets + s.args.assigns <= MaxRedactions
                    => r.e.args.assigns = 0

\* What is stored is the submitted event, judged: the log watcher cannot enforce,
\* so none of its events becomes a blocked one, and no outcome is lowered
\* (outcomeForEnforcement, outcomeRank).  And if the redactor was that of the rules
\* when the event was judged, it is stored, and committed to by the hash, without
\* its secrets, and without assignments if a rule triggered, unless they are more
\* than MaxRedactionsPerField (processEvent, Redact).  The service that stands in
\* for an invalid file at the start redacts nothing (noopCommandmentsService).
StoredFaithfully == OutcomesFaithful /\ SecretsRedacted

\* Rows are only ever added, at the end.
AppendOnly ==
  [][Len(rows) <= Len(rows') /\ SubSeq(rows', 1, Len(rows)) = rows]_rows

\* A queued event is eventually stored, unless the process ends first.
EventuallyStored ==
  \A id \in Ids :
    (id \in IdsOf(inq) \cup IdsOf(ctl))
      ~> (id \in StoredIds(rows) \cup lost \/ ~Up)

(***************************************************************************)
(* The ledger the log implements                                           *)
(***************************************************************************)
Ledger == INSTANCE AuditLedger
            WITH entries <- [i \in 1..Len(rows) |-> rows[i].e],
                 head <- GetLastEventHash(rows),
                 intact <- Intact

\* The database is a ledger that is only appended to, whatever is submitted;
\* while it is intact its last hash commits to exactly its entries.
LedgerSpec == Ledger!Spec

=============================================================================
