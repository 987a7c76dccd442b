---------------------------- MODULE AuditLedger -----------------------------
(***************************************************************************)
(* What the audit trail promises: a list of entries that only grows.  While*)
(* it is intact it has a head that commits to every entry, in order, and   *)
(* to nothing else; what was damaged once is never taken for intact again. *)
(***************************************************************************)
EXTENDS Naturals, Sequences

VARIABLES
  entries,   \* the stored events, in order
  head,      \* the events the last hash commits to
  intact     \* nothing has come between head and entries

ledger == <<entries, head, intact>>

Init == entries = <<>> /\ head = <<>> /\ intact = TRUE

\* New entries are added at the end, and no id is added twice.
Extend(new) ==
  /\ entries' = entries \o new
  /\ \A i, j \in 1..Len(entries') :
       i # j => entries'[i].id # entries'[j].id

Commit(new) ==
  /\ intact /\ intact'
  /\ new # <<>>
  /\ Extend(new)
  /\ head' = head \o new

\* An entry was left out, or is out of order: the head may be anything.
Damage(new) == ~intact' /\ Extend(new)

Next == LET new == SubSeq(entries', Len(entries) + 1, Len(entries'))
        IN  Commit(new) \/ Damage(new)

Spec == Init /\ [][Next]_ledger
=============================================================================
