------------------------------- MODULE Daemon -------------------------------
(***************************************************************************)
(* The life of the daemon (internal/daemon/daemon.go, Run): the order in   *)
(* which its parts are started and, through the deferred calls, stopped;   *)
(* the pid file and the socket path it shares with other daemons of the    *)
(* user; the IPC server (internal/ipc/server.go) with its connections; and *)
(* the notifier (Notifier), which a SIGHUP or an IPC call reloads. The     *)
(* clients are those that make calls (a command, an agent that asks the    *)
(* gate) and those that watch the events (WatchClient).                    *)
(*                                                                         *)
(* A daemon is one process; Self is the one whose clients and notifier are *)
(* followed, the others run the same start and stop. A crash at any moment *)
(* leaves the files as they are.                                           *)
(***************************************************************************)
EXTENDS Notifier, WatchClient

CONSTANTS
    Daemons,       \* daemon processes
    Self,
    Clients,       \* IPC clients of Self
    EventCapacity  \* capacity of the daemon's event channel

ASSUME DaemonAssumption ==
    /\ Self \in Daemons /\ "none" \notin Daemons
    /\ Threads = {"main"} \cup Clients /\ "main" \notin Clients
    /\ EventCapacity \in Nat \ {0}

VARIABLES
    pc,        \* where the main thread of each daemon is
    pidFile,   \* the pid in the file, or "none"
    socket,    \* the daemon the socket path leads to, or "none"
    raced,     \* history: two daemons checked the pid file before either wrote it
    conn,      \* the connection of each client: "none", "open", "gate", "reload"
    ctx,       \* the daemon's context is cancelled
    eventCh,   \* events in the daemon's channel
    forwarding \* forwardEvents runs

pathVars == <<pidFile, socket, raced>>
ipcVars == <<conn, watchVars>>
chanVars == <<eventCh, forwarding>>
vars == <<pc, pathVars, ipcVars, ctx, chanVars, notifierVars>>

Dead == {"off", "down", "crashed"}
(* The stages between IPC server start and stop.                           *)
Serving == {"starting", "run", "stopping"}

Init ==
    /\ pc = [d \in Daemons |-> "off"]
    /\ pidFile = "none" /\ socket = "none" /\ raced = FALSE
    /\ conn = [c \in Clients |-> "none"] /\ WatchInit
    /\ ctx = FALSE /\ eventCh = 0 /\ forwarding = FALSE
    /\ NotifierInit

Goto(d, stage) == pc' = [pc EXCEPT ![d] = stage]

----------------------------------------------------------------------------
(* Run, up to the signal loop.                                             *)

\* Mutant: a start that is refused removes the pid file on its way out.
CheckPIDRemoves(d) ==
    /\ pc[d] = "off"
    /\ IF pidFile # "none" /\ pc[pidFile] \notin Dead
       THEN Goto(d, "closing") /\ UNCHANGED raced
       ELSE /\ Goto(d, "checked")
            /\ raced' = (raced \/ \E o \in Daemons : pc[o] = "checked")
    /\ UNCHANGED <<pidFile, socket, ipcVars, ctx, chanVars, notifierVars>>

(* writePID reads the file and asks whether that process lives...          *)
CheckPID(d) ==
    /\ pc[d] = "off"
    /\ IF pidFile # "none" /\ pc[pidFile] \notin Dead
       THEN Goto(d, "down") /\ UNCHANGED raced
       ELSE /\ Goto(d, "checked")
            /\ raced' = (raced \/ \E o \in Daemons : pc[o] = "checked")
    /\ UNCHANGED <<pidFile, socket, ipcVars, ctx, chanVars, notifierVars>>

(* ... and then writes its own.                                            *)
WritePID(d) ==
    /\ pc[d] = "checked"
    /\ pidFile' = d /\ Goto(d, "opening")
    /\ UNCHANGED <<socket, raced, ipcVars, ctx, chanVars, notifierVars>>

(* The database, the tracer, the queue and the logger; an error returns    *)
(* through the deferred calls made so far. Then the notifier is started.   *)
OpenStore(d) ==
    /\ pc[d] = "opening"
    /\ \/ Goto(d, "closing") /\ UNCHANGED notifierVars
       \/ /\ Goto(d, "listening")
          /\ IF d = Self
             THEN Start /\ UNCHANGED <<mu, cancelled, reload, queued, alerts, published, overlapped>>
             ELSE UNCHANGED notifierVars
    /\ UNCHANGED <<pathVars, ipcVars, ctx, chanVars>>

(* Server.Start removes what is at the socket path, whoever made it, and   *)
(* listens there; it may fail, and then Run returns.                       *)
StartIPC(d) ==
    /\ pc[d] = "listening"
    /\ \/ Goto(d, "notifierStop") /\ socket' = "none"
       \/ Goto(d, "starting") /\ socket' = d
    /\ UNCHANGED <<pidFile, raced, ipcVars, ctx, chanVars, notifierVars>>

(* The watcher, the proxy, the forwarder, the OpenClaw adapter and the     *)
(* discovery loop; an adapter that fails is only logged.                   *)
StartAdapters(d) ==
    /\ pc[d] = "starting"
    /\ Goto(d, "run")
    /\ forwarding' = (forwarding \/ d = Self)
    /\ UNCHANGED <<pathVars, ipcVars, ctx, eventCh, notifierVars>>

----------------------------------------------------------------------------
(* The signal loop, and the deferred calls in reverse order.               *)

SigHup ==
    /\ pc[Self] = "run" /\ ReloadStop("main")
    /\ UNCHANGED <<pc, pathVars, ipcVars, ctx, chanVars>>

(* SIGTERM or the end of the caller's context: d.cancel() and return. The  *)
(* main thread is not in a reload. The goroutine of the first Start has    *)
(* the daemon's context.                                                   *)
Terminate(d) ==
    /\ pc[d] = "run"
    /\ d = Self => reload["main"] = "no"
    /\ Goto(d, "stopping")
    /\ IF d = Self
       THEN /\ ctx' = TRUE /\ cancelled' = cancelled \cup {1}
            /\ UNCHANGED <<mu, current, alive, starts, reload, queued, alerts, published, overlapped>>
       ELSE UNCHANGED <<ctx, notifierVars>>
    /\ UNCHANGED <<pathVars, ipcVars, chanVars>>

(* The adapters have stopped. Server.Stop closes done and the listener,    *)
(* which removes the socket path.                                          *)
StopIPC(d) ==
    /\ pc[d] = "stopping"
    /\ Goto(d, "ipcWait") /\ socket' = "none"
    /\ UNCHANGED <<pidFile, raced, ipcVars, ctx, chanVars, notifierVars>>

(* Server.Stop returns when every connection has ended, and removes the    *)
(* path once more.                                                         *)
IPCStopped(d) ==
    /\ pc[d] = "ipcWait"
    /\ d = Self => \A c \in Clients : conn[c] = "none"
    /\ \A w \in Watchers : <<w, d>> \notin subs
    /\ Goto(d, "notifierStop") /\ socket' = "none"
    /\ UNCHANGED <<pidFile, raced, ipcVars, ctx, chanVars, notifierVars>>

StopNotifier(d) ==
    /\ pc[d] = "notifierStop"
    /\ IF d # Self THEN Goto(d, "closing") /\ UNCHANGED notifierVars
       ELSE \/ /\ StopBegin("main") /\ UNCHANGED pc
               /\ UNCHANGED <<current, alive, starts, reload, queued, alerts, published, overlapped>>
            \/ /\ StopEnd("main") /\ Goto(d, "closing")
               /\ UNCHANGED <<alive, cancelled, starts, reload, queued, alerts, published, overlapped>>
    /\ UNCHANGED <<pathVars, ipcVars, ctx, chanVars>>

(* The process is gone: its files stay, its memory and connections do not. *)
ProcessEnds(d, how) ==
    /\ Goto(d, how)
    /\ subs' = {s \in subs : s[2] # d}
    /\ IF d = Self
       THEN /\ conn' = [c \in Clients |-> "none"]
            /\ forwarding' = FALSE /\ eventCh' = 0 /\ ctx' = FALSE
            /\ mu' = "free" /\ current' = 0 /\ starts' = 0
            /\ alive' = {} /\ cancelled' = {} /\ queued' = {}
            /\ reload' = [t \in Threads |-> "no"]
            /\ UNCHANGED <<alerts, published, overlapped>>
       ELSE UNCHANGED <<conn, ctx, chanVars, notifierVars>>
    /\ UNCHANGED <<socket, raced, watch, source, asleep>>

(* The logger, the tracer, the database, and last of all removePID, which  *)
(* does not look at what the file holds.                                   *)
RemovePID(d) ==
    /\ pc[d] = "closing"
    /\ pidFile' = "none" /\ ProcessEnds(d, "down")

(* SIGKILL, or a signal before signal.Notify.                              *)
Crash(d) ==
    /\ pc[d] \notin Dead
    /\ ProcessEnds(d, "crashed") /\ UNCHANGED pidFile

----------------------------------------------------------------------------
(* The IPC server's connections. handleConn answers one call after the     *)
(* other; in between it waits, without a deadline and without a look at    *)
(* Server.done, until the client makes the next one or hangs up. A command *)
(* does one of the two soon, an agent may keep its connection for ever.    *)

Connect(c) ==
    /\ conn[c] = "none" /\ socket = Self /\ pc[Self] \in Serving
    /\ conn' = [conn EXCEPT ![c] = "open"]
    /\ UNCHANGED <<pc, pathVars, watchVars, ctx, chanVars, notifierVars>>

(* gate.evaluate hands its event to the channel and waits for room; the    *)
(* calls that only read are not followed.                                  *)
GateCall(c) ==
    /\ conn[c] = "open"
    /\ conn' = [conn EXCEPT ![c] = "gate"]
    /\ UNCHANGED <<pc, pathVars, watchVars, ctx, chanVars, notifierVars>>

GateEmit(c) ==
    /\ conn[c] = "gate" /\ eventCh < EventCapacity
    /\ eventCh' = eventCh + 1 /\ conn' = [conn EXCEPT ![c] = "open"]
    /\ UNCHANGED <<pc, pathVars, watchVars, ctx, forwarding, notifierVars>>

ReloadCall(c) ==
    /\ conn[c] = "open" /\ ReloadStop(c)
    /\ conn' = [conn EXCEPT ![c] = "reload"]
    /\ UNCHANGED <<pc, pathVars, watchVars, ctx, chanVars>>

ReloadReturns(c) ==
    /\ conn[c] = "reload" /\ reload[c] = "no"
    /\ conn' = [conn EXCEPT ![c] = "open"]
    /\ UNCHANGED <<pc, pathVars, watchVars, ctx, chanVars, notifierVars>>

(* A watcher subscribes, the first time or again, with the daemon that     *)
(* listens at the socket path.                                             *)
Listener == IF socket # "none" /\ pc[socket] \in Serving THEN socket ELSE "none"

Watch(w) ==
    /\ \/ watch[w] = "off" /\ Listener # "none" /\ openWatchStream(w, Listener)
       \/ Reconnect(w, Listener)
    /\ UNCHANGED <<pc, pathVars, conn, ctx, chanVars, notifierVars>>

LoseStream(w) ==
    /\ streamDisconnected(w)
    /\ UNCHANGED <<pc, pathVars, conn, ctx, chanVars, notifierVars>>

QuitWatch(w) ==
    /\ Quit(w) \/ Suspend(w)
    /\ UNCHANGED <<pc, pathVars, conn, ctx, chanVars, notifierVars>>

EndSubscription(w, d) ==
    /\ <<w, d>> \in subs /\ subs' = subs \ {<<w, d>>}
    /\ UNCHANGED <<pc, pathVars, conn, watch, source, asleep, ctx, chanVars, notifierVars>>

\* Mutant: a subscription ends when the logger does, which stops later.
SubscriptionOutlasts(w, d) == pc[d] = "closing" /\ EndSubscription(w, d)

(* Server.done ends the goroutine of a subscription, if it is not writing  *)
(* to a client that is suspended, ...                                      *)
SubscriptionEnds(w, d) == pc[d] = "ipcWait" /\ EndSubscription(w, d)

(* ... and so does an event it cannot send, the watcher having gone.       *)
SendFails(w, d) == pc[d] \in Serving /\ source[w] # d /\ EndSubscription(w, d)

(* The client hangs up: the server's scanner ends.                         *)
HangUp(c) ==
    /\ conn[c] = "open"
    /\ conn' = [conn EXCEPT ![c] = "none"]
    /\ UNCHANGED <<pc, pathVars, watchVars, ctx, chanVars, notifierVars>>

----------------------------------------------------------------------------
(* The event channel: the adapters fill it, forwardEvents empties it until *)
(* the context ends.                                                       *)

AdapterEvent ==
    /\ pc[Self] \in {"run", "stopping"} /\ eventCh < EventCapacity
    /\ eventCh' = eventCh + 1
    /\ UNCHANGED <<pc, pathVars, ipcVars, ctx, forwarding, notifierVars>>

forwardEvents ==
    /\ forwarding
    /\ \/ eventCh > 0 /\ eventCh' = eventCh - 1 /\ UNCHANGED forwarding
       \/ ctx /\ forwarding' = FALSE /\ UNCHANGED eventCh
    /\ UNCHANGED <<pc, pathVars, ipcVars, ctx, notifierVars>>

ReloadStep(t) ==
    /\ ReloadStopped(t) \/ ReloadBackends(t) \/ ReloadStart(t)
    /\ UNCHANGED <<pc, pathVars, ipcVars, ctx, chanVars>>

NotifierStep ==
    /\ \E g \in alive : GoroutineEnds(g) \/ \E e \in Blocked : Alert(g, e)
    /\ UNCHANGED <<pc, pathVars, ipcVars, ctx, chanVars>>

Blocks ==
    /\ pc[Self] \notin Dead \cup {"checked", "opening"}
    /\ \E e \in Blocked : Publish(e)
    /\ UNCHANGED <<pc, pathVars, ipcVars, ctx, chanVars>>

Begin(d) == CheckPID(d) \/ WritePID(d) \/ OpenStore(d) \/ StartIPC(d) \/ StartAdapters(d)
End(d) == StopIPC(d) \/ IPCStopped(d) \/ StopNotifier(d) \/ RemovePID(d)
Serve(c) == GateEmit(c) \/ ReloadReturns(c)
Call(c) == Connect(c) \/ GateCall(c) \/ ReloadCall(c) \/ HangUp(c)

Next == \/ \E d \in Daemons : Begin(d) \/ End(d) \/ Terminate(d) \/ Crash(d)
        \/ \E c \in Clients : Serve(c) \/ Call(c)
        \/ \E w \in Watchers : Watch(w) \/ LoseStream(w) \/ QuitWatch(w)
        \/ \E w \in Watchers, d \in Daemons : SubscriptionEnds(w, d) \/ SendFails(w, d)
        \/ \E t \in Threads : ReloadStep(t)
        \/ SigHup \/ AdapterEvent \/ forwardEvents \/ NotifierStep \/ Blocks

Spec == Init /\ [][Next]_vars

(* Every goroutine that can run does, and the select of forwardEvents is   *)
(* random, so it does not pass over its context for ever. No client is     *)
(* obliged to call or to hang up. A subscription's goroutine goes on while *)
(* its watcher is not suspended, and then the watch sees the end of its    *)
(* stream.                                                                 *)
FairSpec ==
    /\ Spec
    /\ WF_vars(End(Self)) /\ WF_vars(NotifierStep)
    /\ WF_vars(forwardEvents /\ ~forwarding')
    /\ \A c \in Clients : WF_vars(Serve(c))
    /\ \A w \in Watchers : /\ WF_vars(w \notin asleep /\ SubscriptionEnds(w, Self))
                           /\ WF_vars(AtEnd(w) /\ LoseStream(w))
    /\ \A t \in Threads : WF_vars(ReloadStep(t))

----------------------------------------------------------------------------
(* While a daemon serves, the pid file holds its pid and the socket path   *)
(* leads to it: a start that is refused, a crash with a restart, and the   *)
(* files a daemon removes on its way out never cut off the one that runs.  *)
(* The exception is the race writePID allows: two daemons that both looked *)
(* before either wrote.                                                    *)
PathsLeadToDaemon ==
    ~raced => \A d \in Daemons : pc[d] \in Serving => pidFile = d /\ socket = d

(* A blocked event is handed to the backends at most once, and once Stop   *)
(* has returned no goroutine of the notifier is left, unless two reloads   *)
(* (a SIGHUP and an IPC call) overlapped: then the Start of one forgets    *)
(* the goroutine of the other.                                             *)
AlertsNotDoubled ==
    ~overlapped => /\ \A e \in Blocked : alerts[e] <= 1
                   /\ pc[Self] = "closing" => alive = {}

(* A daemon told to stop does stop, whatever its calls, watches and        *)
(* reloads were doing, unless Server.Stop waits for ever: for a client     *)
(* that keeps its connection open (handleConn's scanner has no deadline    *)
(* and does not look at Server.done), for a watch that stays suspended, or *)
(* for a gate.evaluate call that waits for room in the event channel after *)
(* the forwarder has left. Even then nobody goes on watching it: a watch   *)
(* that runs has found another daemon or has ended.                        *)
GateStuck == ~forwarding /\ eventCh = EventCapacity /\ \E c \in Clients : conn[c] = "gate"
Held == \/ \E c \in Clients : conn[c] = "open"
        \/ \E w \in asleep : <<w, Self>> \in subs
ShutdownEnds ==
    /\ (pc[Self] = "stopping") ~> (pc[Self] \in Dead \/ GateStuck \/ []Held)
    /\ \A w \in Watchers : (pc[Self] = "stopping") ~> (source[w] # Self \/ w \in asleep)

=============================================================================
