------------------------------- MODULE Store --------------------------------
(***************************************************************************)
(* The audit database: internal/store/sqlite.go, and the integrity check   *)
(* of internal/audit/query.go.  Operators only; the modules that own a     *)
(* database hold its tables in variables.                                  *)
(*                                                                         *)
(* events        a sequence of rows in rowid order                         *)
(* file_offsets  a function from files to byte offsets (0: no row)         *)
(* chain_anchors a set of [epoch, id, hash]                                *)
(*                                                                         *)
(* A row is [e |-> event, prev |-> hash, hash |-> hash].  SHA-256 over the *)
(* event and the previous hash is taken to be free of collisions: a hash   *)
(* is the sequence of the events it commits to, and the initial "genesis"  *)
(* is the empty one.                                                       *)
(*                                                                         *)
(* A timestamp is <<day, second, d1, d2, ...>>: the fixed-width part of    *)
(* the RFC 3339 text, then the fractional digits, without trailing zeros   *)
(* because RFC3339Nano omits them.                                         *)
(***************************************************************************)
EXTENDS Naturals, Sequences, FiniteSets

Genesis == <<>>

\* ComputeHash(e, prevHash)
ComputeHash(e, prevHash) == Append(prevHash, e)

(***************************************************************************)
(* Timestamps.  The database compares the TEXT of two timestamps: where    *)
(* one fraction ends, its "Z" meets a digit (or a ".") of the other and    *)
(* sorts after it.  So a prefix comes after its extensions, although it is *)
(* the earlier time.                                                       *)
(***************************************************************************)
SameUpTo(a, b, k) == k <= Len(a) /\ k <= Len(b) /\ \A i \in 1..k : a[i] = b[i]

TextBefore(a, b) ==
  \E k \in 1..Len(a) :
    /\ SameUpTo(a, b, k - 1)
    /\ \/ Len(b) = k - 1
       \/ k <= Len(b) /\ a[k] < b[k]

TimeBefore(a, b) ==
  \E k \in 1..Len(b) :
    /\ SameUpTo(a, b, k - 1)
    /\ \/ Len(a) = k - 1
       \/ k <= Len(a) /\ a[k] < b[k]

\* Format("2006-01-02")
EpochOf(ts) == ts[1]

(***************************************************************************)
(* Tables                                                                  *)
(***************************************************************************)
StoredIds(rows) == {rows[i].e.id : i \in 1..Len(rows)}

\* INSERT OR IGNORE INTO events: a row whose primary key exists is ignored.
InsertRow(rows, row) ==
  IF row.e.id \in StoredIds(rows) THEN rows ELSE Append(rows, row)

\* The offsets InsertEvents commits with a batch: for each source file the
\* highest offset IN THE BATCH replaces whatever was stored.
BatchOffsets(batch, f) == {batch[i].e.off : i \in {j \in 1..Len(batch) : batch[j].e.file = f}}

CommitOffsets(offsets, batch) ==
  [f \in DOMAIN offsets |->
     LET offs == BatchOffsets(batch, f) \ {0}
     IN  IF offs = {} THEN offsets[f]
         ELSE CHOOSE o \in offs : \A p \in offs : p <= o]

\* INSERT OR IGNORE INTO chain_anchors: the first anchor of an epoch stays.
InsertChainAnchor(anchors, epoch, id, hash) ==
  IF \E a \in anchors : a.epoch = epoch
  THEN anchors
  ELSE anchors \cup {[epoch |-> epoch, id |-> id, hash |-> hash]}

\* Mutant: ORDER BY timestamp, rowid DESC
RowBeforeDesc(rows, i, j) ==
  /\ ~TextBefore(rows[j].e.ts, rows[i].e.ts)
  /\ TextBefore(rows[i].e.ts, rows[j].e.ts) \/ i > j

\* ORDER BY timestamp, rowid
RowBefore(rows, i, j) ==
  /\ ~TextBefore(rows[j].e.ts, rows[i].e.ts)
  /\ TextBefore(rows[i].e.ts, rows[j].e.ts) \/ i < j

LatestRow(rows, S) == CHOOSE i \in S : \A j \in S : i = j \/ RowBefore(rows, j, i)

\* Mutant: ascending order.
GetFirstEventHash(rows) ==
  IF rows = <<>> THEN Genesis
  ELSE rows[CHOOSE i \in 1..Len(rows) :
              \A j \in 1..Len(rows) : i = j \/ RowBefore(rows, i, j)].hash

GetLastEventHash(rows) ==
  IF rows = <<>> THEN Genesis ELSE rows[LatestRow(rows, 1..Len(rows))].hash

(***************************************************************************)
(* VerifyIntegrity walks the rows in timestamp order and compares each     *)
(* prev_hash with the event_hash of the row before it.                     *)
(***************************************************************************)
LinkIntact(rows, i) ==
  LET earlier == {j \in 1..Len(rows) : RowBefore(rows, j, i)}
  IN  rows[i].prev = IF earlier = {} THEN Genesis
                     ELSE rows[LatestRow(rows, earlier)].hash

VerifyIntegrity(rows) == \A i \in 1..Len(rows) : LinkIntact(rows, i)
=============================================================================
