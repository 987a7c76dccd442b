------------------------------ MODULE Notifier ------------------------------
(***************************************************************************)
(* The notifier of blocked events (internal/notifier/notifier.go): Start   *)
(* subscribes a goroutine to the audit log, Stop cancels it and waits for  *)
(* it, Reload does one after the other with new backends. Each of the      *)
(* three takes the mutex for itself; Reload does not hold it in between.   *)
(*                                                                         *)
(* Goroutines are numbered by the Start that made them; current is the one *)
(* whose cancel and done the struct holds.                                 *)
(***************************************************************************)
EXTENDS Naturals, FiniteSets

CONSTANTS
    Threads,    \* who may call Reload
    Blocked,    \* blocked events the audit log publishes
    MaxReloads  \* bound: reloads

ASSUME NotifierAssumption == MaxReloads \in Nat

VARIABLES
    mu,         \* who holds Notifier.mu, or "free"
    current,    \* the goroutine of Notifier.cancel and Notifier.done, 0 for nil
    alive,      \* goroutines that run, each with its subscription
    cancelled,  \* goroutines whose context was cancelled
    starts,     \* number of Starts so far
    reload,     \* the step of each thread in Reload
    queued,     \* events in the subscriptions: <<goroutine, event>>
    alerts,     \* number of times each event was handed to the backends
    published,  \* events the audit log published
    overlapped  \* history: two Reloads ran at the same time

notifierVars == <<mu, current, alive, cancelled, starts, reload, queued, alerts, published, overlapped>>

NotifierInit ==
    /\ mu = "free" /\ current = 0 /\ alive = {} /\ cancelled = {} /\ starts = 0
    /\ reload = [t \in Threads |-> "no"]
    /\ queued = {} /\ alerts = [e \in Blocked |-> 0] /\ published = {}
    /\ overlapped = FALSE

Start ==
    /\ mu = "free"
    /\ starts' = starts + 1 /\ current' = starts + 1 /\ alive' = alive \cup {starts + 1}

(* Stop takes the mutex, cancels, waits for done, and lets go of both.     *)
StopBegin(t) ==
    /\ mu = "free" /\ mu' = t
    /\ cancelled' = cancelled \cup ({current} \ {0})

\* Mutant: Stop does not wait for the goroutine it cancelled.
StopEndAtOnce(t) ==
    /\ mu = t
    /\ mu' = "free" /\ current' = 0

StopEnd(t) ==
    /\ mu = t /\ current \notin alive
    /\ mu' = "free" /\ current' = 0

(* The goroutine: an event goes to the backends, a cancelled context ends  *)
(* it and drops its subscription.                                          *)
Alert(g, e) ==
    /\ g \in alive /\ <<g, e>> \in queued
    /\ queued' = queued \ {<<g, e>>}
    /\ alerts' = [alerts EXCEPT ![e] = @ + 1]
    /\ UNCHANGED <<mu, current, alive, cancelled, starts, reload, published, overlapped>>

GoroutineEnds(g) ==
    /\ g \in alive /\ g \in cancelled
    /\ alive' = alive \ {g} /\ queued' = {q \in queued : q[1] # g}
    /\ UNCHANGED <<mu, current, cancelled, starts, reload, alerts, published, overlapped>>

Publish(e) ==
    /\ e \notin published
    /\ published' = published \cup {e}
    /\ queued' = queued \cup {<<g, e>> : g \in alive}
    /\ UNCHANGED <<mu, current, alive, cancelled, starts, reload, alerts, overlapped>>

----------------------------------------------------------------------------
(* Reload by a thread: the Stop, the new backends, the Start.              *)

ReloadStop(t) ==
    /\ reload[t] = "no"
    /\ starts + Cardinality({u \in Threads : reload[u] # "no"}) <= MaxReloads
    /\ StopBegin(t)
    /\ reload' = [reload EXCEPT ![t] = "stopping"]
    /\ overlapped' = (overlapped \/ \E u \in Threads : reload[u] # "no")
    /\ UNCHANGED <<current, alive, starts, queued, alerts, published>>

ReloadStopped(t) ==
    /\ reload[t] = "stopping" /\ StopEnd(t)
    /\ reload' = [reload EXCEPT ![t] = "stopped"]
    /\ UNCHANGED <<alive, cancelled, starts, queued, alerts, published, overlapped>>

ReloadBackends(t) ==
    /\ reload[t] = "stopped" /\ mu = "free"
    /\ reload' = [reload EXCEPT ![t] = "ready"]
    /\ UNCHANGED <<mu, current, alive, cancelled, starts, queued, alerts, published, overlapped>>

ReloadStart(t) ==
    /\ reload[t] = "ready" /\ Start
    /\ reload' = [reload EXCEPT ![t] = "no"]
    /\ UNCHANGED <<mu, cancelled, queued, alerts, published, overlapped>>

=============================================================================
