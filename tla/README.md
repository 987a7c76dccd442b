# Crabwise: a TLA+ verification project

Crabwise is a local daemon that watches coding agents, records what they do in
a hash-chained audit trail and, for traffic that passes its proxy, enforces
rules ("commandments").  This directory models the daemon's own logic in TLA+,
checks small instances with TLC and proves the central results with TLAPS.
All paths below are relative to the repository (`src/` in `PROJECT.json`).

## 1. Inventory

| Component | State it keeps | Operations | Talks to |
|---|---|---|---|
| Event queue (`internal/queue`) | bounded channel, control channel (100), counters, closed flag, eviction mutex | Send (two overflow policies), Receive, Control, Close, Drain, Stats | senders: forwarder and emitSystemEvent; consumer: logger |
| Audit logger (`internal/audit/logger.go`) | batch, previous hash, last epoch, subscribers, evaluator, redactor | serializer loop, Subscribe/Unsubscribe, Stop, SetEvaluator/SetRedactor | queue, store, commandments, IPC subscribers, notifier |
| Store (`internal/store`) | events, file_offsets, chain_anchors | InsertEvents (one transaction), SetFileOffset, InsertChainAnchor, GetLastEventHash | logger, log watcher |
| Integrity check (`internal/audit/query.go`, `events.go`) | none | VerifyIntegrity, ComputeHash, queries | store, CLI |
| Log watcher (`internal/adapter/logwatcher`) | offset (in the database), fsnotify or polling | Start, tailFile, watchLoop, pollLoop, Stop | agents' log files, event channel |
| Log parsers (same package) | one table of session models (Codex), never emptied | ParseLineForSource, one parser for each agent | log watcher |
| Proxy (`internal/adapter/proxy`) | evaluator, classifier, mappings, metrics | handleProxy, evaluateToolUseBlocks, Stop | agents, providers, event channel |
| TLS interception (`connect.go`, `ca.go`) | certificate cache, hijacked connections, tunnels | CONNECT, GetOrCreate, Accept, io.Copy | agents, handleProxy, remote hosts |
| SSE buffering (`streaming.go`) | buffer, tool call accumulators, reader goroutine | bufferSSEStream | provider connection |
| Gate (`internal/daemon/gate.go`) | the rules captured at registration | gate.evaluate | IPC, event channel |
| Daemon (`internal/daemon/daemon.go`) | current commandments, classifier, pid file | Run, forwardEvents, discoveryLoop, reloadRuntime, shutdown by deferred stops | everything |
| Commandments (`internal/commandments`) | compiled rules | Evaluate, Reload, Redact | logger, proxy, gate |
| Classification (`internal/classify`) | registry, count of unclassified tools | Classify | proxy, log parsers |
| IPC (`internal/ipc`) | listener and its socket path, connections, subscriptions | Start, Stop, requests, subscriptions; Dial, Call, Subscribe | CLI, daemon |
| Notifier (`internal/notifier`) | backends, subscription, context, rate limits | Start, Reload, Stop | logger |
| OpenClaw (`internal/adapter/openclaw`, `internal/openclawstate`) | connection, pending requests, session cache, chat history | Connect, read loop, request, refresh, Stop, MatchProxyRequest | gateway, proxy, registry, event channel |
| Discovery (`internal/discovery`) | agents by id, by source | ReplaceSource, scans | daemon, OpenClaw |
| Raw payloads (`internal/audit/rawpayload.go`) | files, quota, retention | Write, collection | proxy |
| Watch (`internal/cli/watch_tui.go`) | stream, number of reconnects | open, reconnect once, quit | IPC |
| Services, certificates, other commands, OTel | files and settings of the system | single commands | operating system |

An event travels: adapter (log watcher, proxy, gate, OpenClaw) -> event channel
(1000, the log watcher drops when it is full, the others block) -> forwarder ->
queue (blocks with a timeout or evicts) -> serializer -> batch -> one database
transaction -> subscribers.

What is hard here:

* *Concurrency.* Several senders and one consumer share the queue; a goroutine
  per request shares evaluator, classifier and event channel with reloads;
  SIGHUP and IPC may reload at the same time.
* *Failure.* A flush may fail and be retried with the chain already advanced;
  the process may be killed between any two steps; what survives is the
  database: rows, offsets and anchors.
* *Life cycle.* Daemons of one user share a pid file and a socket path; a
  shutdown waits for connections, which wait for clients, channels and reloads;
  a remote gateway may answer late, twice or never.
* *Ordering.* The chain is built in processing order and verified in the order
  of timestamps, as text.
* *Timeouts and bounds.* Block timeout, flush ticker, bounded channels with
  three different overflow behaviours.

What makes each part correct, in one line: the queue loses nothing silently
and keeps each sender's order; the log is an append-only ledger whose chain
verifies, unless an event came twice or late; the watcher's offset never passes what is
not stored; the proxy lets through only what rules in force allow, as far as it judges,
and records what it did; a reload ends
with everyone using the new rules; pid file and socket lead to the daemon that
serves, and a shutdown ends when its clients let it; the gateway's client says truly whether it is
connected and forgets no request; the registry is the union of its sources; a
line's events are distinct and its usage is counted once; a host has one
certificate while it is cached.  `PROJECT.json` lists the hazards line by
line, with the properties that address each.

## 2. Modules

| Module | Models | Extends |
|---|---|---|
| `EventQueue` | `queue.go` | - |
| `Store` | `sqlite.go`, `VerifyIntegrity`, `ComputeHash` (operators only) | - |
| `Judgement` | outcome ranks and enforcement (`logger.go`, operators only) | - |
| `AuditLedger` | abstract: what the audit trail promises | - |
| `AuditLog` | `logger.go` with the database, crash, restart | `Store`, `Judgement`; instantiates `AuditLedger` |
| `LogTail` | `logwatcher.go`, parsers, forwarder, commit of offsets | `Store` |
| `Proxy` | `proxy.go`, `gate.go`, `reloadRuntime`, the second judgement by the logger | `Judgement` |
| `StreamBuffer` | `streaming.go`, `ParseStreamEvent` | - |
| `Rules` | `internal/commandments`: validation, matchers, evaluation (operators only) | `Judgement` |
| `Registry` | `internal/classify/registry.go` (operators only) | - |
| `Policy` | loading and replacing rules and registry: `Daemon.Run`, `reloadRuntime` | `Rules`, `Registry` |
| `LogParsers` | `parser_router.go`, `codexcli.go`, `claudecode.go` | - |
| `ProxyEdge` | `connect.go`, `CertCache` in `ca.go`, `router.go` | - |
| `Gateway` | the OpenClaw client and adapter: `client.go`, `openclaw.go` | - |
| `Correlation` | `openclawstate/store.go`, `session_cache.go`, `mapper.go` | - |
| `AgentRegistry` | `discovery/registry.go` | - |
| `OpenClaw` | their composition with the scanner and the event channel | `Gateway`, `Correlation`, `AgentRegistry` |
| `Notifier` | `notifier.go` | - |
| `WatchClient` | `watch_tui.go`, `ipc/client.go` | - |
| `Daemon` | `Daemon.Run` from start to stop, `ipc/server.go`, the pid file | `Notifier`, `WatchClient` |
| `EventQueueProofs`, `AuditLogProofs`, `PolicyProofs`, `StreamBufferProofs`, `OpenClawProofs`, `DaemonProofs` | theorems and proofs | the module each is named after |
| `LogTailProofs` | theorems and proofs | `LogTail`, `LogParsers` |
| `ProxyProofs` | theorems and proofs | `Proxy`, `ProxyEdge` |
| `MC...` | instances for TLC | the module each is named after |

### EventQueue

A sender is at a program point of `Send`: `try` (first attempt), `wait`
(parked, timer armed), `evict`, `evicted`, `retry`, `drop`, `overflow`, `emit`.
Every atomic operation of the Go code is a step of its own, so that other
senders, the consumer and `Close` interleave anywhere.  Events are pairs of a
sender and a number; the history variables `admitted`, `received`, `evicted`,
`rejected`, `refused`, `crashed` record what became of each.  `Close` may be
called at any time (the daemon never does, the tests do after the last `Send`);
a send on a closed channel panics, and a panic ends the process.  `overtaken`
remembers the senders that were inside `Send` when `Close` was called: the two
properties that such a race breaks are stated for the queues without one.

### Store and AuditLog

A hash is the list of events it commits to (SHA-256 is taken to be free of
collisions), so "the chain verifies" and "the head commits to these entries"
can be said exactly.  A timestamp is a tuple of digits; `TextBefore` is SQLite's
comparison of the RFC3339Nano text (where one fraction ends, `Z` meets a digit
and sorts after it) and `TimeBefore` the order in time.  `AuditLog` follows the
serializer from program point to program point (`drain`, `select`, `shutdown`,
`final`, `flush`, `insert`, `notify`); a flush inserts row by row into a
transaction that may fail at any statement.  `Crash` keeps the database and
forgets the rest, `Restart` is `NewLogger` and `Start`.  The queue is the
environment: events arrive in any order, with any timestamps, overflow events among
them, and an event of the log watcher may come twice.  No assumption is made of
them; what breaks the chain is a condition on the *state*, `Intact`: no row was
ignored by `INSERT OR IGNORE`, and the rows are in the order in which they are
verified.  The history variables `ignored` and `discarded` keep the rows that were
ignored and those that a crash or a stop took out of memory.  The daemon never closes
the queue, so the branches for a closed channel are not taken.  Which rules match an
event is a choice among `Triggers`.  `evaluator` and `redactor` are the rules or the
noop service, which a start with an invalid file leaves in place and a reload
replaces, in two plain writes (`SetEvaluator`, `SetRedactor`).  The arguments of an
event are how often the patterns that are always on match (`secrets`) and how often
those match that a triggered rule adds (`assigns`); `Redact` replaces the first kind
and then the second, `MaxRedactions` in all.

### LogTail

A file is a sequence of bytes; a line has a two-byte body so that it can be
seen half written.  `tailFile` reads up to the newline, counts `len + 1`, turns
the line into `count[n]` events with ids made of offset, index and text,
holds the last event back and gives it the end-of-scan offset.  Channel and
queue are bounded and drop; `Flush` commits any prefix of what is waiting with
the highest offset in it (`CommitOffsets`).  A crash loses all but the
database and the file.  What the agent does is a `world`, chosen once: how many
events its lines hold, which lines are too long for the scanner, whether it
appends whole lines, how often it truncates.  `polling` is chosen anew at each start.  What one scan
reads is what was in the file when it was opened; bytes appended during the
scan are seen by the next one, which their write triggers.

### Proxy

One goroutine per request goes through `handleProxy`; requests, answers and
faults are small sets.  A rule set is the facts it blocks or warns of, a
classifier a function from tools to categories.  A request lists any number of
tools; what the rules see of it (`RequestFacts`) is the model and the category of
the first, as `buildAuditEvent` has it.  A reload loads both files (or fails and changes
nothing), replaces `Daemon.commandments`, and then sets the logger's evaluator,
the proxy's evaluator and the proxy's classifier, each a step of its own, each
reading `Daemon.commandments` anew; any number of reloaders may run.  Event
channel, queue and batch are one bounded channel here: `AuditLog` and
`EventQueue` model them in detail.

### StreamBuffer

The goroutine that reads the provider's stream and the handler that collects it
are two processes joined by a bounded channel, which is closed when the reader
has ended.  A line is one of three kinds (an event, unparsable data, anything
else) and has the deltas of each of its choices, of which `ParseStreamEvent` reads
the first; a tool call arrives in fragments, each with an index, and
`AccumulateAll` puts them together, one accumulator for an index, in the loop of
`bufferSSEStream`.  The idle timer may fire at any moment of the
wait, `CloseBody` is the deferred close of `handleProxy`.  `Proxy` takes the
result as one step (`ReadAnswer`): a fault or the tool calls of the answer.

### Rules, Registry and Policy

`Rules` and `Registry` are the two engines as operators over documents:
`CompileRules` is the order that `sort.Slice` leaves, `Evaluate` the loop over the
sorted rules, `Classify` the six lookups one after the other.  A
pattern is the set of texts it matches, so globs and regular expressions stay
outside while the treatment of types, blanks, absent fields, limits, order and
letter case stays inside.  `NewRegistry` yields a set of registries: providers
whose names are equal after normalization overwrite each other in the order of
a Go map.  `Policy` is the daemon around them.  At the start an invalid
commandments file leaves the noop service and an invalid registry the embedded
one; a reload loads both files and installs both or neither; a missing file
means the embedded document in both cases.  Every reloader (the signal loop, a
connection of the IPC server) has a `job` of its own, and nothing keeps two of them
apart, between the two files read or the two parts installed: `crossed` remembers that
one installed its rules between another's rules and registry.  The invariants about `Evaluate` and
`Classify` compare them, in every state, with what the document in force says.

### LogParsers

A line is a record of what the parsers branch on: its type, the class of a
response item or of a content block (`tool`, `ignored`, `denied`, `dynamic`,
...), whether it names a tool, a model, usage.  `parseCodexLine` and `ParseClaudeLine`
yield the events with what tells them apart in `deterministicID` (`suffix`),
their model and their tokens.  `sessionModels` is `codexSessionModels`, which
all files share and a restart loses.  Its keys are session ids: that of a file is
taken from its base name (`SessionOf`, any function, so files may share one), and a
`session_meta` may carry the id of any session, or one of no file.  The history
variables are what each file said to its own session (`announced`) and what another
file said to that session since (`lent`).  Any line may follow any other.  Names that `LogTail` has too carry the name of the
parsers here (`ParserSpec`), so that `LogTailProofs` can extend both.

### ProxyEdge

A connection goes from `CONNECT` to the certificate (`lookup`, `create`), the
handshake and the server over a listener that yields this one connection; the
second `Accept` waits for the first connection to close.  A host of no provider
becomes a tunnel with one copying goroutine for each direction: a copy that ends
half-closes the other side.  As in `LogParsers`, `EdgeSpec` and its parts are named
so that `ProxyProofs` can extend `Proxy` and this module.  `Router.Resolve` is an operator that yields the set
of providers the code may choose: overlapping route patterns are tried in the
order of a Go map.

### Gateway, Correlation, AgentRegistry and OpenClaw

`Gateway` is the websocket client: `Connect` waits for the hello, `readLoop`
handles one frame after the other, a request checks the connection, registers
its channel and writes, each under a lock of its own, and a read error fails the
pending requests and then clears the connection.  The gateway may send any
frame at any time, answer any request or none, and the connection may be lost
between any two steps.  `Correlation` keeps the sessions, the runs and the ring of
recent chats; `MatchProxyRequest` is one loop over the ring, which keeps the best
chat so far and whether it was tied.  `AgentRegistry` is
`ReplaceSource`.  `OpenClaw` composes the three: a refresh replaces the cache,
records the sessions and reports them to the registry in three steps, while
the read loop records chats and the scanner reports its own agents.

### Daemon, Notifier and WatchClient

`Daemon` follows `Run` through its stages: `CheckPID` and `WritePID` (two steps,
as in `writePID`), the store, the notifier, the IPC server, the adapters, the
signal loop, and the deferred calls in reverse order (`StopIPC`, `IPCStopped`,
`StopNotifier`, `RemovePID`).  Any number of daemons share the pid file and the
socket path; `Self` is the one whose connections and notifier are followed.
A connection is `open`, in a `gate.evaluate` that waits for room in the event
channel, or in a reload, and `open` again after the reply; then the client may make
another call, hang up, or stay.  `Notifier` numbers its goroutines by the
Start that made them, so that one that is forgotten can be seen.
`WatchClient` is `crabwise watch`: it reconnects once, to whichever daemon the
socket path leads to, and ends when that fails or the stream is lost again; the
daemon's side of a subscription learns only from a failed write that its client
has gone.  A watch may be suspended for good (`asleep`): then it reads nothing, and
its subscription may hang in a write.

## 3. What is checked

Runs that pass:

| Run | Module / cfg | Shows |
|---|---|---|
| `queue` | `MCEventQueue` / `Queue` | `OneFate`, `DroppedIsLoss`, `SenderOrder`, `OverflowAnnounced`, `NoPanic`, `SendReturns` |
| `audit_chain` | `MCAuditLog` / `AuditChain` | `ChainVerifies` and `ChainContinues` (while `Intact`), `NothingVanishes` (what is accepted is stored, held or counted; a stop drains; anchors have their row), refinement of `AuditLedger` (`LedgerSpec`) |
| `audit_pipeline` | `MCAuditLog` / `AuditPipeline` | `SubscribersFollow`, `StoredFaithfully` (outcomes only raised, what the rules redact is neither stored nor hashed), `EventuallyStored` |
| `tail` | `MCLogTail` / `Tail` | `OffsetCoversStored`, `PositionsTrue` (ids locate the text, only a truncation resets), `EventuallyCaptured` |
| `proxy` | `MCProxy` / `Proxy` | `ForwardedWasAllowed` (model and first tool), `DeliveredWasAllowed`, `OneTrueEvent` (one event for a request, in agreement with its reply), `RequestsEnd` |
| `policy` | `MCPolicy` / `Policy` | `EvaluationExact`, `PolicyFromOneLoad` (unless two reloads crossed), `ClassificationSound` (letter case, and names before arguments), `ReloadTakesEffect` |
| `stream` | `MCStreamBuffer` / `Stream` | `OnlyWholeStreams`, `BlocksRebuildCalls`, `BothReturn` |
| `parsers` | `MCLogParsers` / `Parsers` | `EventIdsDistinct`, `TokensOnce`, `ModelCurrent` |
| `edge` | `MCProxyEdge` / `Edge` | `CertificatesShared`, `ConnectionsEnd` |
| `openclaw` | `MCOpenClaw` / `OpenClaw` | `StatusHonest`, `ForgottenOnlyIfLate`, `RegistryIsUnion`, `MatchExact`, `StopReturns` |
| `daemon` | `MCDaemon` / `Daemon` | `PathsLeadToDaemon`, `AlertsNotDoubled`, `ShutdownEnds` (unless a client holds it up) |

The run `gate_reload` finds that the code does not do what a document says (the
finding of `PROJECT.json` quotes the line): the gate keeps the rules of the
daemon's start.

The properties of the passing runs carry the condition under which they hold.
The models show what the code does where it does not hold, each case reachable in a
run, by a change of constants, or by dropping the condition:

* two senders under `drop_oldest`: the slot one has freed is taken by the other
  and the new event is lost too (`rejected # {}`; `DroppedIsLoss` counts both);
* an event whose id is stored is ignored by `INSERT OR IGNORE` although the chain
  has moved past it, and the next link is broken (`sqlite.go:81`; `ChainVerifies`
  without `ignored = {}`), while `README.md:139` promises hash chaining; subscribers
  are told of both copies (`SubscribersFollow` without `CameTwice`);
* an overflow event is chained before older events and verified after them; and
  with fractions of one and two digits `...01.1Z` sorts after `...01.15Z`, so that
  rows in time order are verified in another order (`ChainVerifies` without
  `InTextOrder`);
* a daemon started with an invalid commandments file redacts nothing until a reload
  of the repaired one; and of a field only the first 50 matches are replaced, those
  of the patterns that are always on first (`SecretsRedacted` without `by` or without
  `MaxRedactions`);
* a line of several events: all carry the offset after the line, so a commit
  between two of them, then a crash, skips the second (`OffsetCoversStored`
  without `SingleEvents`), while `sqlite.go:123` calls the commit "atomic with
  event inserts";
* a poll or a write between the scan of a line and the commit of its offset: the
  line is scanned again, its event is in the queue twice with one id, and the
  commit of the second may set the offset back (`CommitOffsets` takes the greatest
  of a batch, not of what is stored); nothing is lost, but this is how an event comes
  twice to the logger, which breaks the chain as above;
* an agent that writes half lines: the line is counted with its newline, the
  offset exceeds the size and the file is read from 0 (`wrongReset`); one that
  truncates and grows past the old offset is not recognised;
* the logger judges the event with the model the answer named, and may record
  as blocked what was delivered; between `SetEvaluator` and `SetClassifier` a
  tool call meets new rules over old categories;
* a request lists several tools: only the first becomes the event that the rules
  judge (`buildAuditEvent`, `proxy.go:615`), the others are written into the event's
  arguments, so that a request whose second tool is forbidden goes upstream;
  the tool is stopped only if an inspected answer calls it;
* a SIGHUP and an IPC reload that overlap (`reloadRuntime` has no lock): the rules of
  one may be in force with the registry of the other, after both have returned
  without an error, until another reload (`PolicyFromOneLoad` without `crossed`); with
  two `Reloaders` in `Proxy` also logger and proxy may end with different rules;
* a JSON answer to a streaming request goes through the SSE reader, where all
  its lines are skipped: its tool calls are not judged (`ToolBlocks`).  The same
  holds for the second and later choices of a stream event;
* a stream given up while the channel is full leaves its reader blocked for
  good (`BothReturn` without its alternative);
* a registry with capitals (`ClassificationSound` without its condition): a tool
  listed as `Bash` for one provider is not found as `bash`, and under the default
  provider a name with capitals is found only by calls without a provider;
* an empty registry file is valid and makes every tool `other`, an empty
  commandments file is not; a condition whose type has blanks around it
  validates but does not compile;
* two daemons that both look at the pid file before either writes it (`raced`):
  both start, and the one that stops first removes the other's files;
* a SIGHUP and an IPC reload at the same time (`overlapped`): the Start of one
  forgets the goroutine of the other, alerts are doubled and Stop leaves it;
* a client that keeps its connection open (`Held`): `handleConn` waits for its next
  request without a deadline and does not look at `done`, so `Server.Stop` waits for
  it for ever, and so does the shutdown; a suspended watch to which a subscription
  writes, and a `gate.evaluate` call that waits for room when the forwarder leaves
  (`GateStuck`), do the same;
* a challenge that meets no token ends the reader with `connected` still set
  (`StatusHonest` without `token`); a request registered after the reader failed
  the pending ones waits until the context ends (`late`); a `Start` that fails
  after the hello leaves the connection open, and its events are still recorded;
* a provider whose name has capitals is not reached by the header, which is
  lowered before the lookup; an intercepted request is routed by its path and
  not by the host it was sent to;
* a `session_meta` stores its model under the id it carries, on any line: that of
  another session gives its files the model (`lent`; `ModelCurrent` with `announced`
  alone), that of none is never asked for; and files of different directories with
  one base name share one entry.

Two things seen while reading that no model shows: the heartbeat of a subscription
carries no queue figures but `handleStreamLine` takes them from it, so the watch
shows zeros until its next poll; and a certificate is cached without a look at
its expiry after 24 hours.

*Bounds.* Two senders are the least that race, and up to three calls each, five in
all, let a sender be overtaken by its own later event and three losses meet a control
channel of two, so that the last of them finds it full; capacities of one and two
make "full" and "just freed" happen.  Three submissions with batches of two give a flushed
batch, a partial batch and a retry with a longer batch, around one failure and one
crash or stop with its restart; they are chosen from three log events, each of which may come twice,
of two days and in both orders of time and text, and an overflow event, so that the
table is intact in some states and damaged in others, in each of the ways there are.  The
pipeline has two submissions: events of the log watcher (twice, perhaps), of the proxy
and an exempt one, with one secret, as many matches as the limit of two allows, or more,
and a plain overflow event; a failure, and a reload that replaces the noop service
before, between or after them.  A regular agent writes three lines
(event, skipped record, event), an unruly one a line of two events in pieces, a
third an overlong line; this covers every shape of `held`, and one crash and one
truncation separate what is stored from what was read.  One request meets every
answer and fault during one reload, and competes with the gate for a channel of
one.  Four lines over a channel of one let fragments of two calls interleave,
reach the size limit exactly and exceed it.  The documents of `MCPolicy` are one
for each way to be valid or invalid, with priorities below, at and above zero and
equal ones; from any pair of files, one edit, one
restart and any number of reloads by two reloaders reach every mixture of old, new and
embedded, and every order of the steps of two reloads.
Four frames and two requests let a reply be late, doubled or lost around a
reconnect or a stop; `MatchExact` ranges over all rings of up to three chats with
four times and three models of two providers, which hold every order of a tie and a
better chat.  Two blocks in a message make several events of a line and any mixture
of their kinds; of three files two have one session, of either agent, and a
`session_meta` may name both sessions and one of no file.  Two connections
over a cache of one miss together and empty it for each other.  Two daemons
start, are refused, crash and stop in any interleaving, with one client, one
watch, one reload and an event channel of one.  With `MaxReloads = 2` two reloads
overlap; checked by hand with a single daemon (18,000 states), the same properties
hold.  Identifiers are symmetric in one safety run and in no liveness run.

*Fairness.* A sender that can move does (`WF`; the timer fires); nothing is
assumed of the consumer.  The serializer is scheduled (`WF`), and a `select`
picks a case that is ready again and again (`SF`): Go chooses uniformly among
ready cases, here and in `refreshLoop` and `forwardEvents`.  The database fails a
bounded number of times.  The tailing, forwarding and flushing goroutines run,
and the service manager restarts the daemon.  Request handlers run; a blocked
channel send is served first in, first out by the Go runtime, which is `SF` of the
emit steps.  A provider answers or the connection breaks (`upstream_timeout`).
The two goroutines of a stream run and its timer fires; nothing is assumed of
the provider, nor of the gateway.  A reload that has begun goes on; nobody is
obliged to begin one.  In `ProxyEdge` a client finishes its handshake or goes
away, and an end of a tunnel that is told of the other's end ends too: the code
sets no deadline for either.  In `Daemon` no client is obliged to hang up or to make
another call: the code gives its connections no deadline.  A watch that is not suspended
reads its stream to the end, so that a write to it goes through, and need not ever quit.

## 4. What is proved

The theorems hold for every value of the constants: any number of senders,
events, batch sizes, failures and restarts.  What they assume of the constants is
named in the module that declares them, and TLC evaluates it on every run.  Where
an invariant had to be strengthened, TLC checked the inductive one on the
instance of the run before it was proved.

| Module | Theorem | States |
|---|---|---|
| `EventQueueProofs` | `TypeCorrect`, `FateOfEveryEvent`, `OrderKept`, `NeverPanics`, `DroppedCounts`, `OverflowAlwaysAnnounced` | `TypeOK`, `OneFate`, `SenderOrder`, `NoPanic`, `DroppedIsLoss`, `OverflowAnnounced` |
| `AuditLogProofs` | `ChainAlwaysVerifies`, `ChainAlwaysContinues`, `TableOnlyGrows`, `LogImplementsLedger` | `ChainVerifies`, `ChainContinues`, no step removes or changes a stored row, `LedgerSpec` |
| `AuditLogProofs` | `AlwaysAccounted`, `StoredAlwaysFaithful` | `Accounted` and `StopDrains`, `StoredFaithfully` |
| `AuditLogProofs` | `NothingEverVanishes`, `SubscribersAlwaysFollow` | `NothingVanishes`, `SubscribersFollow` |
| `LogTailProofs` | `OffsetAlwaysCovers`, `PositionsAlwaysTrue` | `OffsetCoversStored`, `PositionsTrue` |
| `LogTailProofs` | `IdsAlwaysDistinct`, `TokensAlwaysOnce`, `ModelAlwaysCurrent` (of `LogParsers`) | `EventIdsDistinct`, `TokensOnce`, `ModelCurrent` |
| `ProxyProofs` | `ForwardedAlwaysAllowed`, `DeliveredAlwaysAllowed`, `AlwaysOneTrueEvent` | `ForwardedWasAllowed`, `DeliveredWasAllowed`, `OneTrueEvent` |
| `ProxyProofs` | `CertificatesAlwaysShared`, `AlwaysServedFirst` (of `ProxyEdge`) | `CertificatesShared`, `ServedFirst` (the safety half of `ConnectionsEnd`) |
| `PolicyProofs` | `PolicyAlwaysFromOneLoad`, `ClassificationAlwaysSound`, `EvaluationAlwaysExact` | `PolicyFromOneLoad`, `ClassificationSound`, `EvaluationExact` |
| `StreamBufferProofs` | `OnlyWholeStreamsDelivered`, `BlocksAlwaysRebuildCalls` | `OnlyWholeStreams`, `BlocksRebuildCalls` |
| `OpenClawProofs` | `StatusAlwaysHonest`, `NoneForgotten`, `RegistryAlwaysUnion`, `MatchAlwaysExact` | `StatusHonest`, `ForgottenOnlyIfLate`, `RegistryIsUnion`, `MatchExact` |
| `DaemonProofs` | `PathsAlwaysLead`, `NeverAlertedTwice` | `PathsLeadToDaemon`, `AlertsNotDoubled` |

**EventQueueProofs.**  `OneFate` and `SenderOrder`
are not inductive: that an event is not duplicated needs that events in
flight carry the number of the sender's current call (`Begun`) and that a
channel holds no event twice; so the invariant `FateInv` adds to the partition
(`Fates`) that the channel and what was received are each ordered by sender and
number, and that nothing in the channel precedes what the same sender has
already had received (`Cross`).  `Quiet` says that nobody is overtaken
before `Close`, and that after a `Close` that overtook nobody all senders stay
idle.  For `OverflowAnnounced` the overflows that were emitted (`Emitted`) are
those counted less the senders still at `emit` (`Emitting`); `heard` remembers
what the last receive left in the control channel and how many had been emitted
by then, and a step changes both sides of `Announced` alike or finds the channel full.

**AuditLogProofs, the chain.**  No theorem assumes anything of the events that are
submitted: they may come twice, with any timestamps, overflow events among them.
`Intact` is a condition on the state instead, that no row was ignored and the stored
ones are in text order; it is lost at a commit and never regained (`IntactBefore`).
The inductive invariant `ChainInv` says that while it holds the rows, followed by the
batch or by the part of it that is not yet stored, are linked hash to hash (`Linked`)
and `prevHash` is the last hash of the list (`Whole`).  A commit that leaves the
table intact has therefore stored the batch as it was (`CommitWhole`).  The order of the
verification is then the order of the rows, hence `VerifyIntegrity`; a hash is shown to
be the list of the entries before it, which gives the refinement: every other commit is
a `Damage` of the ledger, which still only appends, and no id twice.  The text order of
timestamps is proved a strict total order (`TextTotal`, `TextTransitive`), on which the
order of the table rests, and the existence of the last row (`LatestExists`).

**AuditLogProofs, the pipeline.**  Nothing that arrives is lost without trace,
and nothing stored differs from what was submitted and judged.  `PipeInv` adds to
`Accounted` what the program points imply: an open transaction has the rows of the table
and those of the batch it has passed, but for the ones ignored (`OpenTx`), a shutdown
that has found both channels empty has every accepted event in batch or table
(`DrainInv`), and each row of batch and table is a submitted event, judged
(`FaithInv`; `JudgeFaithful`, `RaisedHighest`: judging never lowers an outcome, and
`RedactCleans`: what a limit shared by two kinds of patterns leaves).  For anchors and
subscribers, `ToldInv` adds that an event that came once is in one place (`IdInv`,
`Twice` being the others), that a transaction adds the batch in its order (`TxOrder`),
that what is still to be sent out comes after what was (`NotifyOrder`), and that what each subscriber
has seen is found in the committed rows, in their order (`SubsInv`).  Ids that come
twice are exempt because `INSERT OR IGNORE` drops the second, which is nevertheless
notified; TLC refutes the property without the exemption.  `deterministicID` makes an id
the same when a line is scanned twice (section 3), the random ids of the other adapters
are new (`Admissible`).

**LogTailProofs, the watcher.**  `TailInv` says that the bytes of the file, those
still to be scanned and the text of every id are where something was written
(`PlaceInv`); that with an agent that appends whole lines every offset is the end
of a line (`WholeInv`), which is why such a file is never taken for a truncated one; and
that each offset on its way to the database covers only events that are settled
or ahead of it: in batch, channel, `held` or `parsed`, in this order (`CoverInv`).
`ParseLineIs` and `NextLineIs` say what a scan makes of a line from the bytes
alone.  They rest on a finite induction (`Bounded`, `Greatest`), which is carried
out through the least-number principle, as in the modules about loops below.

**LogTailProofs, the parsers.**  The events of a message are `Numbered` from 0
before the usage is put on the first (`UsageOnFirst`); a prompt takes the number
after the last tool (`OneMore`), an assistant's text is an event only when there is no tool.
`AnyLine` goes through the line types of both parsers.  `Learned` is the
invariant of the shared table: for every file the entry under its session is the
model announced last to that session, by the file or by another.

**ProxyProofs, requests.**  What a handler knows is an invariant for each
program point (`HandlerInv`): as long as a request is active, the evaluator and the classifier in
force are among those it has seen; from `send` on it was allowed by a pair of
them, and from `deliver` on so were its inspected tool calls.  `EventInv` follows the one
event of a request from nowhere into the channel and to the record (`Placed`) and
says how it agrees with the reply (`Truthful`), although the logger's own judgement
may raise its outcome (`RaisedNeverLower`).

**ProxyProofs, certificates.**  `CertInv` says that a cached certificate, and one shown to
a connection, was made for that host; `KeptInv` that a host which got a certificate is in
the cache until an attempt for another host follows.  A second certificate is made
under the write lock only for a host that is not in the cache, so that there is
such an attempt between the two.  `ServeInv`, for `AlwaysServedFirst`: nobody serves a
request before the connection is accepted, and none is left when it has ended.

**Loops.**  What a loop of the code computes is a function by recursion over its
counter (`Evaluate`, `matchLoop`, `AccumulateAll`), and the theorems about it
hold for lists of any length.  The induction theorems of the library take an operator as
their parameter, which the provers cannot instantiate; so `PolicyProofs`,
`OpenClawProofs` and `StreamBufferProofs` each state induction for sets
(`Induct`: a set of numbers with 0 and every successor is `Nat`), prove it from the
library's theorem that `<` is well-founded on `Nat`, and derive from it that such a
function exists and satisfies its recursion (`Iteration`).  An invariant of
the loop is then a set of counters to which `Induct` applies.

**PolicyProofs, loading and classifying.**  `PolicyFromOneLoad` is not inductive because a reload installs
rules and registry in two steps, and because other reloads run in between.  `JobInv`
says of each of them that the documents it holds are those it has read
(`OneDocument`: `NewEngine` compiles at most one), and that its rules are the ones in
force between its two steps unless another has installed since; `LoadInv` adds that
nobody reloads before the start is over.
`ClassificationSound` needs no invariant: it follows for every registry from the
order of the six lookups (`FirstOfSix`), of which only the last three see the
keys of the arguments, and from the fact that `strings.ToLower` yields lower case
(`LowerCaseAssumption`).

**PolicyProofs, evaluating.**  A list of rules with different names can be sorted,
whatever the priorities: by insertion of one rule after the other (`Insertion`,
`Sortable`).  What the sort leaves has no rule twice, because `Before` is
irreflexive, and as many as the document, hence all of them
(`CompileRulesSorts`, by counting).  `FoundUpto` is the invariant of the loop of `Evaluate`: what it
has triggered after `i` rules are those of the first `i` that are enabled and
match, in order.  `Compiled` says this of a pair of document and order, and
`EngineInv` that whatever engine is in force or loaded is such a pair, the noop
service included.

**StreamBufferProofs, delivery.**  The
invariant `WholeInv` says that while the handler reads, body, channel, the line
in the reader's hand and wire, one after the other, are exactly what was sent,
and that a reader that has ended saw the provider's end of stream, or else an
error is in the channel, which the handler meets before it can find the channel
empty and closed.  One lemma per step moves a line from one of the four places
to the next.

**StreamBufferProofs, tool calls.**  The property rebuilds each call from the delivered
bytes alone: the last id and name given for an index, and all fragments of its arguments,
in their order.  `Represents` says that the accumulators hold exactly these values;
one delta keeps it (`RepresentsOne`), so do those of a line (`RepresentsAll`),
and `AccInv` says it of the buffer at all times.  At the end the indices are sorted:
that a finite set of integers has exactly one ascending enumeration, and that the
place of an index in it is the number of indices up to it, is `SomeOrder` and `AscendingIs`.

**OpenClawProofs, the match.**  `BestOf` is the invariant of the loop of
`MatchProxyRequest`: after `i` chats the kept one is not beaten by any of those
in the window, and it is marked as tied exactly if another of them is as good;
`BestStep` shows it for the three branches, of which the one that takes a
better chat clears the mark.  `ChatInv` says that every chat in the ring is of an
event that came, with a model the gateway has listed, and that the ring is bounded.

**OpenClawProofs, the client.**  `PendingInv`, `LateInv` and `FlagInv` relate what the client
keeps under its separate locks: which request is registered at which point, that one
still registered when the reader has failed the pending ones came later or on a
connection given up at a challenge, and that a reader that has ended has cleared the
flag, or `Start` had failed, the client was stopped or there was no token.  `AnswerInv`
says that a list that was cached or recorded is one the gateway sent.  `RegistryInv` adds to the
union that each source reports ids of its own kind (`SourceInv`), without which
replacing one source would remove agents of the other.

**DaemonProofs.**  `PathInv` says of each stage of a daemon's life what pid file
and socket path hold, unless two daemons raced for the pid file: one daemon at most is past
the check, the file names it from the write on, and the socket path leads to it
while it serves.  `ThreadInv` says which thread may be reloading in which stage.
`AlertInv` says that unless reloads overlapped one notifier goroutine at most is
alive, the one `Stop` waits for, and none between a `Stop` and the next `Start`
(`OneGoroutine`), and that what it has still to alert nobody has alerted (`OneAlert`).

*Assumptions on constants.*  Most are types and non-empty bounds.  Those that say
more: `ProxyAssumption` (the tools of a request, and those of an answer, are
in every classifier's table: `Classify` is total, unknown tools are `other`);
`DaemonAssumption` (`main` names no client and `none` no daemon: they are
markers of the model); `ParserAssumption` (`SessionOf` gives every file a session id,
shared or not); `OpenClawAssumption` (the two sources, and that the scanner finds no agent under the id
of an OpenClaw session, which the adapter prefixes); `LowerCaseAssumption`, and that every
call of `Policy` and every rule of a document (`RuleList`) has its fields; that the
choices of a stream's line are sequences of `Deltas`, the fields of `ToolCallDelta`, whose
texts include the empty one.  No theorem has a hypothesis about the constants of its own.

Only model-checked:

* all liveness properties: fairness and `ENABLED` are out of the prover's reach;
* that the gate's rules are the current ones: the code violates it (`gate_reload`).

Every invariant of the passing runs, and the refinement, is proved.

## 5. What is not modelled

* *Presentation and single commands*: tables, colours, filters and text of the
  terminal UI and the command line.  What is left of a command is the shape of
  its call (`Daemon`) and the watch (`WatchClient`).
* *Data without behaviour over time*: configuration defaults, SQL filters, regular
  expressions, JSON paths, prices, spans, cryptography.
* *The operating system's tools* for services, certificates and notifications.
* *The notifier's backends*: their rate limits and formats are one step
  (`Alert`); there are no retries to get wrong.
* *Raw payload files*: written once per request; the collection by age and quota
  is called by tests only.
* *The reload of the provider mappings*, which replaces router and providers by
  one pointer, and the attribution of a request to an OpenClaw chat in
  `buildAuditEvent`, which may take the model from the chat: `Proxy` leaves both
  out, `Correlation` has the match itself.
* *Part of the redaction*: an argument field of more than `MaxRedactionFieldBytes` is
  cut before the patterns are applied, and of the patterns only which of the two kinds
  one belongs to is kept.
* `SetEvaluator` and `SetRedactor` of the logger are unsynchronised writes in the code;
  the models take each as one step, and `AuditLog` lets the serializer see them in
  either order.  What a torn read of an interface value would do is left out.

## 6. Plan

Modules and runs are complete as far as section 5 allows, and every safety
property of the passing runs is proved.  What is left, in this order:

1. Refinements: the proxy as an abstract judge that answers each request once, and the
   queue as a bounded list that loses only what it counts.
2. The watcher's committed offset as a cursor: that it falls back only when a line was
   scanned twice (section 3) would be an action property of `LogTail`, with a
   history of the scans.
3. Action properties: what a step of the daemon may never do to the files of
   another daemon.
