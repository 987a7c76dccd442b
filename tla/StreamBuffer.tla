---------------------------- MODULE StreamBuffer ----------------------------
(***************************************************************************)
(* bufferSSEStream of internal/adapter/proxy/streaming.go: a goroutine     *)
(* reads the provider's stream line by line into a bounded channel, the    *)
(* request handler collects the lines and rebuilds the tool calls from     *)
(* their fragments, under an idle timer and a size limit.                  *)
(*                                                                         *)
(* A line is [kind, size, info, choices].  Its kind is "data" (an event    *)
(* ParseStreamEvent understands), "bad" (data it does not) or "skip" (no   *)
(* data: event names, comments, [DONE], any other text).  info has the     *)
(* model, finish reason and usage it names; a choice is a sequence of      *)
(* deltas, with args a sequence of fragments.  A last line without newline *)
(* is a line like any other.  Clock times are left out.                    *)
(***************************************************************************)
EXTENDS Integers, Sequences, FiniteSets, SequencesExt, TLC

CONSTANTS
  Texts,      \* ids, names and fragments of arguments, "" if there is none
  Lines,      \* lines a provider may send
  ValidArgs,  \* the arguments that are JSON
  MaxBytes,   \* StreamMaxBuffer (10 MB)
  ChanCap,    \* capacity of the channel (64)
  MaxLines    \* bound: lines of a stream

\* What ToolCallDelta holds.
Deltas == [index : Int, id : Texts, name : Texts, args : Seq(Texts)]

ASSUME StreamAssumption ==
  /\ ChanCap \in Nat \ {0} /\ MaxBytes \in Nat /\ MaxLines \in Nat /\ "" \in Texts
  /\ \A l \in Lines : l.kind \in {"data", "bad", "skip"} /\ l.size \in Nat \ {0}
                      /\ l.choices \in Seq(Seq(Deltas))

VARIABLES
  sent,       \* history: what the provider has sent
  wire,       \* lines sent and not yet read
  conn,       \* the provider's side: "open", "eof" or "error"
  bodyClosed, \* handleProxy has closed the body
  reader,     \* the goroutine: "read", "put", "fail" or "ended"
  held,       \* the line it has read
  chan,       \* the channel; it is closed when the reader has ended
  body,       \* bodyBuf
  accs,       \* accumulators: from indices to [id, name, args]
  telemetry,  \* result.Telemetry
  outcome,    \* "reading", "ok" or the error bufferSSEStream returns
  blocks      \* result.ToolBlocks

provider == <<sent, conn>>
result == <<body, accs, telemetry, outcome, blocks>>
vars == <<provider, wire, bodyClosed, reader, held, chan, result>>

SizeOf(s) == FoldLeft(LAMBDA n, l : n + l.size, 0, s)
NoLine == [kind |-> "skip", size |-> 0, info |-> <<>>, choices |-> <<>>]
ReadFailure == [NoLine EXCEPT !.kind = "error"]

(***************************************************************************)
(* The provider                                                            *)
(***************************************************************************)
Send(l) ==
  /\ conn = "open" /\ Len(sent) < MaxLines
  /\ sent' = Append(sent, l) /\ wire' = Append(wire, l)
  /\ UNCHANGED <<conn, bodyClosed, reader, held, chan, result>>

\* The stream ends, or the connection breaks or exceeds the client's timeout.
EndStream ==
  /\ conn = "open"
  /\ conn' \in {"eof", "error"}
  /\ UNCHANGED <<sent, wire, bodyClosed, reader, held, chan, result>>

(***************************************************************************)
(* The reader goroutine                                                    *)
(***************************************************************************)
ReadLine ==
  /\ reader = "read" /\ wire # <<>>
  /\ held' = Head(wire) /\ wire' = Tail(wire)
  /\ reader' = "put"
  /\ UNCHANGED <<provider, bodyClosed, chan, result>>

ReadEOF ==
  /\ reader = "read" /\ wire = <<>> /\ conn = "eof"
  /\ reader' = "ended"
  /\ UNCHANGED <<provider, wire, bodyClosed, held, chan, result>>

\* Mutant: every error ends the stream.
ReadErrorAsEOF ==
  /\ reader = "read"
  /\ bodyClosed \/ (wire = <<>> /\ conn = "error")
  /\ reader' = "ended"
  /\ UNCHANGED <<provider, wire, bodyClosed, held, chan, result>>

\* A closed body fails too, after the lines that were already buffered.
ReadError ==
  /\ reader = "read"
  /\ bodyClosed \/ (wire = <<>> /\ conn = "error")
  /\ reader' = "fail"
  /\ UNCHANGED <<provider, wire, bodyClosed, held, chan, result>>

PutLine ==
  /\ reader = "put" /\ Len(chan) < ChanCap
  /\ chan' = Append(chan, held)
  /\ reader' = "read" /\ held' = NoLine
  /\ UNCHANGED <<provider, wire, bodyClosed, result>>

PutError ==
  /\ reader = "fail" /\ Len(chan) < ChanCap
  /\ chan' = Append(chan, ReadFailure)
  /\ reader' = "ended"
  /\ UNCHANGED <<provider, wire, bodyClosed, held, result>>

(***************************************************************************)
(* ParseStreamEvent and the accumulators                                   *)
(***************************************************************************)
\* Only the first choice is looked at.
ParseStreamEvent(l) == IF l.choices = <<>> THEN <<>> ELSE l.choices[1]

NoCall == [id |-> "", name |-> "", args |-> <<>>]

\* Mutant: a fragment replaces the ones before it.
AccumulateLast(a, d) ==
  LET acc == IF d.index \in DOMAIN a THEN a[d.index] ELSE NoCall
  IN  (d.index :> [id |-> IF d.id # "" THEN d.id ELSE acc.id,
                   name |-> IF d.name # "" THEN d.name ELSE acc.name,
                   args |-> IF d.args # <<>> THEN d.args ELSE acc.args]) @@ a

Accumulate(a, d) ==
  LET acc == IF d.index \in DOMAIN a THEN a[d.index] ELSE NoCall
      new == [id |-> IF d.id # "" THEN d.id ELSE acc.id,
              name |-> IF d.name # "" THEN d.name ELSE acc.name,
              args |-> acc.args \o d.args]
  IN  [i \in DOMAIN a \cup {d.index} |-> IF i = d.index THEN new ELSE a[i]]

AccumulateAll(a, ds) ==
  LET after[k \in 0..Len(ds)] == IF k = 0 THEN a ELSE Accumulate(after[k - 1], ds[k])
  IN  after[Len(ds)]

\* Arguments that are not JSON become the value of a _raw_args key.
ToolInput(args) == IF args \in ValidArgs THEN args ELSE <<"_raw_args">> \o args

ToolUseBlock(acc) == [id |-> acc.id, name |-> acc.name, input |-> ToolInput(acc.args)]

\* sort.Ints
Ascending(indices) ==
  CHOOSE order \in [1..Cardinality(indices) -> indices] :
    \A i, j \in 1..Cardinality(indices) : i < j => order[i] < order[j]

FinalBlocks ==
  [k \in 1..Cardinality(DOMAIN accs) |-> ToolUseBlock(accs[Ascending(DOMAIN accs)[k]])]

(***************************************************************************)
(* bufferSSEStream: the select loop                                        *)
(***************************************************************************)
Return(why) == outcome' = why /\ UNCHANGED <<telemetry, accs, blocks>>

OverLimit(l) == SizeOf(body) + l.size > MaxBytes

\* parseSSEEventType and parseSSEData: the line has something to parse.
HasPayload(l) == l.kind \in {"data", "bad"}

Receive ==
  /\ outcome = "reading" /\ chan # <<>>
  /\ chan' = Tail(chan)
  /\ LET l == Head(chan)
     IN  IF l.kind = "error" THEN Return("read_error") /\ UNCHANGED body
         ELSE IF OverLimit(l) THEN Return("too_large") /\ UNCHANGED body
         ELSE /\ body' = Append(body, l)
              /\ CASE ~HasPayload(l) -> UNCHANGED <<accs, telemetry, outcome, blocks>>
                   [] l.kind = "bad" -> Return("enforcement_error")
                   [] l.kind = "data" ->
                        /\ telemetry' = l.info @@ telemetry
                        /\ accs' = AccumulateAll(accs, ParseStreamEvent(l))
                        /\ UNCHANGED <<outcome, blocks>>
  /\ UNCHANGED <<provider, wire, bodyClosed, reader, held>>

\* The channel is closed and empty.
Finish ==
  /\ outcome = "reading" /\ chan = <<>> /\ reader = "ended"
  /\ blocks' = FinalBlocks /\ outcome' = "ok"
  /\ UNCHANGED <<provider, wire, bodyClosed, reader, held, chan, body, accs, telemetry>>

\* Mutant: no timer.
NoTimeout == FALSE /\ UNCHANGED vars

\* The timer may also win against a line that has just come.
IdleTimeout ==
  /\ outcome = "reading"
  /\ Return("idle_timeout")
  /\ UNCHANGED <<provider, wire, bodyClosed, reader, held, chan, body>>

\* The deferred Close of handleProxy, whatever bufferSSEStream returned.
CloseBody ==
  /\ outcome # "reading" /\ ~bodyClosed
  /\ bodyClosed' = TRUE
  /\ UNCHANGED <<provider, wire, reader, held, chan, result>>

Init ==
  /\ sent = <<>> /\ wire = <<>> /\ conn = "open" /\ bodyClosed = FALSE
  /\ reader = "read" /\ held = NoLine /\ chan = <<>>
  /\ body = <<>> /\ accs = <<>> /\ telemetry = <<>> /\ outcome = "reading" /\ blocks = <<>>

Reader == ReadLine \/ ReadEOF \/ ReadError \/ PutLine \/ PutError
Handler == Receive \/ Finish \/ IdleTimeout \/ CloseBody

Next == (\E l \in Lines : Send(l)) \/ EndStream \/ Reader \/ Handler

Spec == Init /\ [][Next]_vars

\* The two goroutines run and the timer fires; the provider owes nothing.
FairSpec == Spec /\ WF_vars(Reader) /\ WF_vars(Receive \/ Finish)
                 /\ WF_vars(IdleTimeout) /\ WF_vars(CloseBody)

(***************************************************************************)
(* Properties                                                              *)
(***************************************************************************)
\* Neither the channel nor the buffered body ever exceeds its limit.
TypeOK ==
  /\ conn \in {"open", "eof", "error"} /\ bodyClosed \in BOOLEAN
  /\ reader \in {"read", "put", "fail", "ended"}
  /\ Len(chan) <= ChanCap
  /\ SizeOf(body) <= MaxBytes
  /\ outcome \in {"reading", "ok", "read_error", "too_large", "enforcement_error",
                  "idle_timeout"}

\* What goes to the agent is a whole stream: bufferSSEStream succeeds only if
\* the provider ended the stream itself, every line of it is in the body, in
\* order, and every one of them was understood.
OnlyWholeStreams ==
  outcome = "ok" => /\ conn = "eof" /\ body = sent
                    /\ \A i \in 1..Len(body) : body[i].kind # "bad"

\* The deltas that the lines carry, one after the other.
LineDeltas(l) == IF l.kind = "data" THEN ParseStreamEvent(l) ELSE <<>>

DeltasOf(lines) ==
  LET all[k \in 0..Len(lines)] == IF k = 0 THEN <<>> ELSE all[k - 1] \o LineDeltas(lines[k])
  IN  all[Len(lines)]

\* What the deltas say of the call with index i: the last value that a field is
\* given, and its fragments put together.
LastSet(ds, i, field) ==
  LET set == {k \in 1..Len(ds) : ds[k].index = i /\ ds[k][field] # ""}
  IN  IF set = {} THEN "" ELSE ds[Max(set)][field]

Arguments(ds, i) ==
  LET joined[k \in 0..Len(ds)] ==
        IF k = 0 THEN <<>>
        ELSE IF ds[k].index = i THEN joined[k - 1] \o ds[k].args ELSE joined[k - 1]
  IN  joined[Len(ds)]

\* The tool call with index i as an agent puts it together.
AgentsCall(ds, i) ==
  [id |-> LastSet(ds, i, "id"), name |-> LastSet(ds, i, "name"),
   input |-> ToolInput(Arguments(ds, i))]

\* The blocks that are judged are the calls an agent reads from the stream that
\* is delivered (of its first choice), one per index and in the order of the
\* indices, however the fragments are cut and interleaved.
BlocksRebuildCalls ==
  outcome = "ok" =>
    LET ds == DeltasOf(sent)
        indices == {ds[k].index : k \in 1..Len(ds)}
    IN  /\ Len(blocks) = Cardinality(indices)
        /\ \A i \in indices :
             blocks[Cardinality({j \in indices : j <= i})] = AgentsCall(ds, i)

\* bufferSSEStream returns, even if the provider falls silent; and after the call
\* the reader goroutine ends, unless the channel is full: then it stays blocked
\* for good.
BothReturn ==
  /\ <>(outcome # "reading")
  /\ outcome # "reading" ~> (reader = "ended" \/ Len(chan) = ChanCap)
=============================================================================
