------------------------------- MODULE LogTail ------------------------------
(***************************************************************************)
(* The log watcher of internal/adapter/logwatcher and the way its events   *)
(* take to the database: an agent appends lines to a log file, tailFile    *)
(* reads them from the offset the database holds, the events cross the     *)
(* daemon's event channel and the queue, and the logger commits a batch    *)
(* together with the offset its events carry.  The offset is persistent,   *)
(* everything else is lost in a crash.                                     *)
(*                                                                         *)
(* A file is a sequence of bytes; the body of line n is the two bytes      *)
(* <<n, 1>>, <<n, 2>>, so that a line can be seen half written, and        *)
(* Newline ends it.  Parsing (claudecode.go, codexcli.go) turns a whole    *)
(* line into EventCount[n] events and any other non-empty text into one    *)
(* "unknown" event.  What the agent logs, and how, is a world: chosen once *)
(* and unknown to the watcher.                                             *)
(***************************************************************************)
EXTENDS Store, SequencesExt

CONSTANTS
  Worlds,          \* environment: agents that may write the file, each with
                   \*   count: events in each line (0: a skipped record type)
                   \*   long: lines that exceed the scanner's buffer
                   \*   whole: a line is appended in one write
                   \*   truncations: how often it truncates the file
  ChannelCapacity, \* capacity of the daemon's event channel (1000)
  QueueCapacity,   \* events the queue and the logger's batch hold
  MaxCrashes       \* bound: crashes of the daemon

ASSUME TailAssumption ==
  /\ \A w \in Worlds :
       /\ w.count \in Seq(Nat) /\ w.long \subseteq DOMAIN w.count
       /\ w.whole \in BOOLEAN /\ w.truncations \in Nat
  /\ ChannelCapacity \in Nat \ {0}
  /\ QueueCapacity \in Nat \ {0}
  /\ MaxCrashes \in Nat

VARIABLES
  world,             \* the agent
  file, line,        \* the log file; the line being written
  changed,           \* an fsnotify Write event is pending
  polling,           \* LogWatcher.polling
  stored, offsets,   \* the database: event ids and file_offsets
  pc,                \* "idle", "scan" (in tailFile), "down"
  rest, newOffset,   \* unread bytes; running offset
  start,             \* offset tailFile started at
  parsed, held,      \* events of the line still to handle; lastEvt as <<>> or <<e>>
  chan,              \* the daemon's event channel
  batch,             \* events in the queue and in the logger's batch
  truncations, crashes,
  dropped,           \* history: ids dropped on a full channel or queue
  wrongReset,        \* history: a file that was not truncated was read from 0 again
  written            \* history: every byte that was ever in the file, and where

disk    == <<world, file, line>>
locals  == <<rest, newOffset, start, parsed, held>>
vars    == <<disk, changed, polling, stored, offsets, pc, locals, chan, batch,
             truncations, crashes, dropped, wrongReset, written>>

F == "log"
Newline == <<0, 0>>
Body(n) == <<<<n, 1>>, <<n, 2>>>>

EventCount == world.count
MaxLines == Len(world.count)

Init ==
  /\ world \in Worlds
  /\ file = <<>> /\ line = 1 /\ changed = FALSE
  /\ polling \in BOOLEAN
  /\ stored = {} /\ offsets = [f \in {F} |-> 0]
  /\ pc = "idle" /\ rest = <<>> /\ newOffset = 0 /\ start = 0
  /\ parsed = <<>> /\ held = <<>>
  /\ chan = <<>> /\ batch = <<>>
  /\ truncations = 0 /\ crashes = 0 /\ dropped = {} /\ wrongReset = FALSE /\ written = {}

(***************************************************************************)
(* The agent                                                               *)
(***************************************************************************)
Partial(n) == IF file # <<>> /\ Last(file) = <<n, 1>> THEN 1
              ELSE IF file # <<>> /\ Last(file) = <<n, 2>> THEN 2 ELSE 0

Write ==
  /\ line <= MaxLines
  /\ LET text == Append(Body(line), Newline)
         left == SubSeq(text, Partial(line) + 1, 3)
     IN  \E k \in 1..Len(left) :
           /\ world.whole => k = Len(left)
           /\ file' = file \o SubSeq(left, 1, k)
           /\ line' = IF k = Len(left) THEN line + 1 ELSE line
           /\ written' = written \cup {<<Len(file) + i, left[i]>> : i \in 1..k}
  /\ changed' = TRUE
  /\ UNCHANGED <<world, polling, stored, offsets, pc, locals, chan, batch, truncations,
                 crashes, dropped, wrongReset>>

Truncate ==
  /\ truncations < world.truncations /\ Partial(line) = 0
  /\ file' = <<>> /\ truncations' = truncations + 1
  /\ changed' = TRUE
  /\ UNCHANGED <<world, line, polling, stored, offsets, pc, locals, chan, batch,
                 crashes, dropped, wrongReset, written>>

(***************************************************************************)
(* tailFile                                                                *)
(***************************************************************************)

\* Called for an fsnotify event by watchLoop, on every tick by pollLoop.
OpenFile ==
  /\ pc = "idle"
  /\ polling \/ changed
  /\ LET off == IF offsets[F] > Len(file) THEN 0 ELSE offsets[F]
     IN  /\ start' = off /\ newOffset' = off
         /\ rest' = SubSeq(file, off + 1, Len(file))
         /\ wrongReset' = (wrongReset \/ (offsets[F] > Len(file) /\ truncations = 0))
  /\ pc' = "scan" /\ changed' = FALSE
  /\ parsed' = <<>> /\ held' = <<>>
  /\ UNCHANGED <<disk, polling, stored, offsets, chan, batch, truncations,
                 crashes, dropped, written>>

\* scanner.Scan: up to the newline, or to the end of the file.
NextLine == LET nl == {i \in 1..Len(rest) : rest[i] = Newline}
            IN  IF nl = {} THEN rest
                ELSE SubSeq(rest, 1, Min(nl) - 1)

TooLong(text) == \E n \in world.long : \E i \in 1..Len(text) : text[i][1] = n

\* deterministicID(path, lineOffset, suffix, line)
EventId(at, k, text) == <<at, k, text>>

\* Mutant: the id is made from the offset after the line.
ParseLineLate(text, at, after) ==
  LET whole == {n \in 1..MaxLines : text = Body(n)}
      count == IF text = <<>> THEN 0
               ELSE IF whole = {} THEN 1
               ELSE EventCount[CHOOSE n \in whole : TRUE]
  IN  [k \in 1..count |-> [id |-> EventId(after, k, text), file |-> F, off |-> after]]

\* ParseLineForSource
ParseLine(text, at, after) ==
  LET whole == {n \in 1..MaxLines : text = Body(n)}
      count == IF text = <<>> THEN 0
               ELSE IF whole = {} THEN 1
               ELSE EventCount[CHOOSE n \in whole : TRUE]
  IN  [k \in 1..count |-> [id |-> EventId(at, k, text), file |-> F, off |-> after]]

ScanLine ==
  /\ pc = "scan" /\ parsed = <<>>
  /\ rest # <<>> /\ ~TooLong(NextLine)
  /\ LET text  == NextLine
         after == newOffset + Len(text) + 1
     IN  /\ newOffset' = after
         /\ rest' = SubSeq(rest, Len(text) + 2, Len(rest))
         /\ parsed' = ParseLine(text, newOffset, after)
  /\ UNCHANGED <<disk, changed, polling, stored, offsets, pc, start, held, chan,
                 batch, truncations, crashes, dropped, wrongReset, written>>

\* A non-blocking send to the event channel.
SendEvents(evts) ==
  IF evts = <<>> THEN UNCHANGED <<chan, dropped>>
  ELSE IF Len(chan) < ChannelCapacity
       THEN chan' = chan \o evts /\ UNCHANGED dropped
       ELSE dropped' = dropped \cup {evts[1].id} /\ UNCHANGED chan

\* Stream the previous event, hold this one as potentially the last.
EmitHeld ==
  /\ pc = "scan" /\ parsed # <<>>
  /\ SendEvents(held)
  /\ held' = <<Head(parsed)>> /\ parsed' = Tail(parsed)
  /\ UNCHANGED <<disk, changed, polling, stored, offsets, pc, rest, newOffset,
                 start, batch, truncations, crashes, wrongReset, written>>

\* Mutant: the offset is stored at once, events or not.
FinishStoresOffset ==
  /\ pc = "scan" /\ parsed = <<>>
  /\ rest = <<>> \/ TooLong(NextLine)
  /\ pc' = "idle"
  /\ SendEvents(held)
  /\ offsets' = [offsets EXCEPT ![F] = newOffset]
  /\ held' = <<>> /\ rest' = <<>>
  /\ UNCHANGED <<disk, changed, polling, stored, newOffset, start, parsed,
                 batch, truncations, crashes, wrongReset, written>>

\* The end of the scan, or a line the scanner refuses.
FinishScan ==
  /\ pc = "scan" /\ parsed = <<>>
  /\ rest = <<>> \/ TooLong(NextLine)
  /\ pc' = "idle"
  /\ \/ /\ held # <<>>
        /\ SendEvents(<<[held[1] EXCEPT !.off = newOffset]>>)
        /\ UNCHANGED offsets
     \/ /\ held = <<>>
        /\ \/ /\ newOffset > start
              /\ offsets' = [offsets EXCEPT ![F] = newOffset]
           \/ UNCHANGED offsets   \* nothing was read, or the update failed
        /\ UNCHANGED <<chan, dropped>>
  /\ held' = <<>> /\ rest' = <<>>
  /\ UNCHANGED <<disk, changed, polling, stored, newOffset, start, parsed,
                 batch, truncations, crashes, wrongReset, written>>

(***************************************************************************)
(* forwardEvents, the queue and the logger                                 *)
(***************************************************************************)
Forward ==
  /\ chan # <<>> /\ Len(batch) < QueueCapacity
  /\ chan' = Tail(chan)
  /\ batch' = Append(batch, Head(chan))
  /\ UNCHANGED <<disk, changed, polling, stored, offsets, pc, locals,
                 truncations, crashes, dropped, wrongReset, written>>

\* Queue.Send gave up: the queue was full.
ForwardDrop ==
  /\ chan # <<>> /\ Len(batch) = QueueCapacity
  /\ chan' = Tail(chan)
  /\ dropped' = dropped \cup {Head(chan).id}
  /\ UNCHANGED <<disk, changed, polling, stored, offsets, pc, locals, batch,
                 truncations, crashes, wrongReset, written>>

\* InsertEvents: one transaction for any part of what is waiting, in order.
Flush ==
  \E n \in 1..Len(batch) :
    LET taken == [i \in 1..n |-> [e |-> batch[i]]]
    IN  /\ stored' = stored \cup {batch[i].id : i \in 1..n}
        /\ offsets' = CommitOffsets(offsets, taken)
        /\ batch' = SubSeq(batch, n + 1, Len(batch))
        /\ UNCHANGED <<disk, changed, polling, pc, locals, chan, truncations,
                       crashes, dropped, wrongReset, written>>

(***************************************************************************)
(* Crash, and Start: the initial scan tails the file again                 *)
(***************************************************************************)
Crash ==
  /\ pc # "down" /\ crashes < MaxCrashes
  /\ crashes' = crashes + 1 /\ pc' = "down"
  /\ rest' = <<>> /\ parsed' = <<>> /\ held' = <<>>
  /\ chan' = <<>> /\ batch' = <<>>
  /\ UNCHANGED <<disk, changed, polling, stored, offsets, newOffset, start,
                 truncations, dropped, wrongReset, written>>

\* Mutant: no initial scan.
RestartNoScan ==
  /\ pc = "down"
  /\ pc' = "idle" /\ changed' = FALSE
  /\ polling' \in BOOLEAN
  /\ UNCHANGED <<disk, stored, offsets, locals, chan, batch, truncations,
                 crashes, dropped, wrongReset, written>>

Restart ==
  /\ pc = "down"
  /\ pc' = "idle" /\ changed' = TRUE
  /\ polling' \in BOOLEAN
  /\ UNCHANGED <<disk, stored, offsets, locals, chan, batch, truncations,
                 crashes, dropped, wrongReset, written>>

Tailer == OpenFile \/ ScanLine \/ EmitHeld \/ FinishScan

\* Everything was written and read, and nothing is on its way.
Quiet ==
  /\ line > MaxLines /\ truncations = world.truncations /\ ~changed /\ pc = "idle"
  /\ chan = <<>> /\ batch = <<>>
  /\ UNCHANGED vars

Next ==
  \/ Write \/ Truncate
  \/ Tailer \/ Forward \/ ForwardDrop \/ Flush
  \/ Crash \/ Restart
  \/ Quiet

Spec == Init /\ [][Next]_vars

\* The watcher, the forwarder and the logger are goroutines that run whenever
\* they can; a daemon that went down is started again.
FairSpec ==
  /\ Spec
  /\ WF_vars(Tailer) /\ WF_vars(Forward) /\ WF_vars(Flush) /\ WF_vars(Restart)

-----------------------------------------------------------------------------
(***************************************************************************)
(* Properties                                                              *)
(***************************************************************************)

\* Where line n begins in the file (counted from 0), if it is there complete.
LineStarts(n) ==
  {i \in 0..(Len(file) - 3) : SubSeq(file, i + 1, i + 3) = Append(Body(n), Newline)}

LineEvents(n, at) == {EventId(at, k, Body(n)) : k \in 1..EventCount[n]}

\* An agent that appends whole lines and has not truncated the file.
Regular == world.whole /\ truncations = 0

SingleEvents == \A n \in 1..MaxLines : EventCount[n] <= 1

\* With a regular agent and at most one event in a line, the committed offset
\* never moves past an event that is not in the database, except one that a full
\* channel or queue dropped: after a crash at any point tailing resumes early
\* enough (tailFile, InsertEvents: "atomic with event inserts").
OffsetCoversStored ==
  Regular /\ SingleEvents =>
  \A n \in 1..MaxLines : \A at \in LineStarts(n) :
    at + 3 <= offsets[F] => LineEvents(n, at) \subseteq stored \cup dropped

IdsLocate ==
  \A id \in stored : \A i \in 1..Len(id[3]) : <<id[1] + i, id[3][i]>> \in written

ResetMeansTruncated == world.whole => ~wrongReset

\* The running offset of tailFile is where the watcher is in the file, whatever
\* mixture of half-written lines, truncations, overlong lines and crashes came
\* before: the offset in a stored event's id is where its text was, so that two
\* events share an id only if they are the same text at the same place
\* (deterministicID); and an agent that appends whole lines never triggers the
\* reset "file was truncated" without a truncation.
PositionsTrue == IdsLocate /\ ResetMeansTruncated

\* Every complete line of a regular agent that writes one event a line is
\* eventually in the database, across crashes, unless its event was dropped, the
\* file was truncated, or the scanner stopped at an overlong line before it.
EventuallyCaptured ==
  \A n \in UNION {DOMAIN w.count : w \in Worlds} :
    (Regular /\ SingleEvents /\ LineStarts(n) # {})
      ~> \/ \E at \in LineStarts(n) : LineEvents(n, at) \subseteq stored \cup dropped
         \/ LineStarts(n) = {}
         \/ \E m \in world.long : m <= n
=============================================================================
