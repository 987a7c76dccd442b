---------------------------- MODULE WatchClient ----------------------------
(***************************************************************************)
(* `crabwise watch` (internal/cli/watch_tui.go over internal/ipc/          *)
(* client.go): a client that subscribes to the audit log's events, and     *)
(* when it loses the stream tries once, after a pause, to subscribe again. *)
(* What it draws, its filter and the status it polls (a call of its own,   *)
(* on a connection of its own) are left out.                               *)
(*                                                                         *)
(* subs are the goroutines of the daemons that serve a subscription: they  *)
(* end on their own, and learn that the client has gone only when they     *)
(* next write to it. A client that is suspended reads nothing, and then a  *)
(* write to it may wait: the connections have no deadline.                 *)
(***************************************************************************)

CONSTANT Watchers

VARIABLES
    watch,   \* "off", "connected", "reconnecting", "again" or "ended"
    source,  \* the daemon the scanner reads from, or "none"
    subs,    \* subscriptions served: <<watcher, daemon>>
    asleep   \* watchers whose process is suspended for good

watchVars == <<watch, source, subs, asleep>>

WatchInit ==
    /\ watch = [w \in Watchers |-> "off"] /\ source = [w \in Watchers |-> "none"]
    /\ subs = {} /\ asleep = {}

(* openWatchStream: Dial, Subscribe, its acknowledgement. The second time  *)
(* (reconnectAttempts is 1 by then) it is "again".                         *)
openWatchStream(w, d) ==
    /\ watch' = [watch EXCEPT ![w] = IF @ = "off" THEN "connected" ELSE "again"]
    /\ source' = [source EXCEPT ![w] = d]
    /\ subs' = subs \cup {<<w, d>>} /\ UNCHANGED asleep

(* The scanner ends: the daemon closed the connection, or a line was too   *)
(* long for it. The client closes its side; the second time it gives up.   *)
streamDisconnected(w) ==
    /\ watch[w] \in {"connected", "again"} /\ w \notin asleep
    /\ watch' = [watch EXCEPT ![w] = IF @ = "again" THEN "ended" ELSE "reconnecting"]
    /\ source' = [source EXCEPT ![w] = "none"]
    /\ UNCHANGED <<subs, asleep>>

(* The pause is over, and d answers at the socket path, or nobody does.    *)
Reconnect(w, d) ==
    /\ watch[w] = "reconnecting"
    /\ IF d = "none"
       THEN watch' = [watch EXCEPT ![w] = "ended"] /\ UNCHANGED <<source, subs, asleep>>
       ELSE openWatchStream(w, d)

(* The user quits, or kills the process.                                   *)
Quit(w) ==
    /\ watch[w] \notin {"off", "ended"}
    /\ watch' = [watch EXCEPT ![w] = "ended"] /\ source' = [source EXCEPT ![w] = "none"]
    /\ asleep' = asleep \ {w} /\ UNCHANGED subs

(* The process is suspended, and will only be killed; one that goes on     *)
(* again is a slow one.                                                    *)
Suspend(w) ==
    /\ watch[w] \in {"connected", "again"} /\ w \notin asleep
    /\ asleep' = asleep \cup {w} /\ UNCHANGED <<watch, source, subs>>

(* The scanner is at the end of its stream.                                *)
AtEnd(w) == source[w] # "none" /\ <<w, source[w]>> \notin subs

=============================================================================
