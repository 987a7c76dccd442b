----------------------------- MODULE MCLogTail ------------------------------
(***************************************************************************)
(* Instances of LogTail for TLC.                                           *)
(***************************************************************************)
EXTENDS LogTail

\* Whole lines: an event, a skipped record, an event.
RegularAgent ==
  [count |-> <<1, 0, 1>>, long |-> {}, whole |-> TRUE, truncations |-> 0]

\* Whole lines, the second one overlong, and a truncation.
LongAgent ==
  [count |-> <<1, 1>>, long |-> {2}, whole |-> TRUE, truncations |-> 1]

\* A line of two tool calls in several writes, and a truncation.
UnrulyAgent ==
  [count |-> <<2>>, long |-> {}, whole |-> FALSE, truncations |-> 1]

AnyAgent == {RegularAgent, LongAgent, UnrulyAgent}
=============================================================================
