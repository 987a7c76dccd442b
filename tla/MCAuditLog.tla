----------------------------- MODULE MCAuditLog -----------------------------
(***************************************************************************)
(* Instances of AuditLog for TLC.                                          *)
(***************************************************************************)
EXTENDS AuditLog

CONSTANTS a, b, c, d   \* event ids

Event(id, ts) ==
  [id |-> id, ts |-> ts, exempt |-> FALSE, adapter |-> "log_watcher", outcome |-> "success",
   args |-> [secrets |-> 0, assigns |-> 0], file |-> NoFile, off |-> 0]

\* Log events of two days, each of which may be scanned twice; b comes before a in
\* time and after it as text (00:00:01.1 and 00:00:01.15).
LogEvents == {Event(a, <<1, 1, 1, 5>>), Event(b, <<1, 1, 1>>), Event(c, <<2, 1>>)}

\* An overflow event of the time of b.
LateOverflow == {[Event(d, <<1, 1, 1>>) EXCEPT !.adapter = "", !.outcome = "warned"]}

\* Main events with what judging looks at.  One of the log watcher, which cannot
\* enforce, may come twice, has more matches than are replaced, and an outcome that
\* outranks a warning; one of the proxy has as many as are replaced; one is exempt.
JudgedEvents ==
  {[Event(a, <<1, 1>>) EXCEPT !.args = [secrets |-> 2, assigns |-> 1], !.outcome = "failure"],
   [Event(b, <<1, 1>>) EXCEPT !.args = [secrets |-> 1, assigns |-> 1], !.adapter = "proxy"],
   [Event(c, <<1, 1>>) EXCEPT !.args = [secrets |-> 1, assigns |-> 0], !.adapter = "proxy",
                              !.exempt = TRUE]}
PlainOverflow == {[Event(d, <<1, 2>>) EXCEPT !.adapter = "", !.outcome = "warned"]}

NoTriggers == {{}}
\* No rule, or rules of both kinds.
SomeTriggers == {{}, Enforcements}
=============================================================================
