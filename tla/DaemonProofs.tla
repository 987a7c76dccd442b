---------------------------- MODULE DaemonProofs ----------------------------
(***************************************************************************)
(* Theorems about Daemon: the paths of a serving daemon lead to it, and a  *)
(* blocked event is alerted at most once, for any number of daemons,       *)
(* clients, watchers, events and reloads, and crashes at any moment.       *)
(***************************************************************************)
EXTENDS Daemon, TLAPS

Stages == Dead \cup Serving \cup
          {"checked", "opening", "listening", "ipcWait", "notifierStop", "closing"}

\* The flags are left out: they are only assigned truth values.
TypeOK ==
  /\ pc \in [Daemons -> Stages]
  /\ pidFile \in Daemons \cup {"none"} /\ socket \in Daemons \cup {"none"}
  /\ conn \in [Clients -> {"none", "open", "gate", "reload"}]
  /\ eventCh \in 0 .. EventCapacity
  /\ mu \in Threads \cup {"free"} /\ current \in Nat /\ starts \in Nat
  /\ alive \in SUBSET Nat /\ cancelled \in SUBSET Nat
  /\ reload \in [Threads -> {"no", "stopping", "stopped", "ready"}]
  /\ published \in SUBSET Blocked /\ queued \in SUBSET (Nat \X Blocked)
  /\ alerts \in [Blocked -> Nat]

\* Unless two daemons looked at the pid file before either wrote it, at most one
\* is past the check, the file names it from the write on, and the socket path
\* leads to it while it serves.
Alive(d) == pc[d] \notin Dead
PathInv ==
  ~raced =>
    /\ \A d, o \in Daemons : Alive(d) /\ Alive(o) => d = o
    /\ \A d \in Daemons : Alive(d) /\ pc[d] # "checked" => pidFile = d
    /\ \A d \in Daemons : pc[d] \in Serving => socket = d

\* A thread reloads only while the daemon runs or its connection is open, and a
\* connection is open only while the IPC server has not returned from Stop.
ThreadInv ==
  /\ reload["main"] # "no" => pc[Self] = "run"
  /\ \A c \in Clients :
       /\ reload[c] # "no" => conn[c] = "reload"
       /\ conn[c] # "none" => pc[Self] \in Serving \cup {"ipcWait"}

\* Before the first Start, between a Stop and the next Start and after the last
\* Stop no goroutine runs.
NoGoroutine ==
  \/ pc[Self] \in {"off", "checked", "opening", "closing"}
  \/ \E t \in Threads : reload[t] \in {"stopped", "ready"}

\* Unless reloads overlapped, there is one goroutine at most, the one Stop waits
\* for; only it has a subscription, and what it has still to alert nobody has
\* alerted yet.
OneGoroutine ==
  /\ \A t, u \in Threads : reload[t] # "no" /\ reload[u] # "no" => t = u
  /\ alive \subseteq {current}
  /\ NoGoroutine => alive = {}

OneAlert ==
  /\ queued \subseteq alive \X published
  /\ \A e \in Blocked :
       /\ alerts[e] <= 1
       /\ e \notin published => alerts[e] = 0
       /\ \A g \in alive : <<g, e>> \in queued => alerts[e] = 0

AlertInv == ~overlapped => OneGoroutine /\ OneAlert

(***************************************************************************)
(* Types                                                                   *)
(***************************************************************************)
LEMMA GotoMoves ==
  ASSUME TypeOK, NEW d \in Daemons, NEW stage \in Stages, Goto(d, stage)
  PROVE  /\ pc' \in [Daemons -> Stages] /\ pc'[d] = stage
         /\ \A o \in Daemons \ {d} : pc'[o] = pc[o]
  BY DEF TypeOK, Goto

\* The steps of a daemon's main thread.
MainStep(d) == Begin(d) \/ End(d) \/ Terminate(d) \/ Crash(d)

\* The steps that leave the main threads and the paths alone: those of the
\* clients and watchers, and those of the channel and the notifier.
ClientSteps == \/ \E c \in Clients : Serve(c) \/ Call(c)
               \/ \E w \in Watchers : Watch(w) \/ LoseStream(w) \/ QuitWatch(w)
               \/ \E w \in Watchers, d \in Daemons : SubscriptionEnds(w, d) \/ SendFails(w, d)
ServiceSteps == \/ \E t \in Threads : ReloadStep(t)
                \/ SigHup \/ AdapterEvent \/ forwardEvents \/ NotifierStep \/ Blocks

LEMMA Steps ==
  ASSUME [Next]_vars
  PROVE  \/ \E d \in Daemons : MainStep(d)
         \/ (ClientSteps \/ ServiceSteps \/ UNCHANGED vars) /\ UNCHANGED <<pc, pathVars>>
<1>1. CASE Next
  <2>1. CASE \E d \in Daemons : Begin(d) \/ End(d) \/ Terminate(d) \/ Crash(d)
    BY <2>1 DEF MainStep
  <2>2. CASE ClientSteps
    BY <2>2 DEF ClientSteps, Serve, Call, GateEmit, ReloadReturns, Connect, GateCall, ReloadCall,
       HangUp, Watch, LoseStream, QuitWatch, SubscriptionEnds, SendFails, EndSubscription
  <2>3. CASE ServiceSteps
    BY <2>3 DEF ServiceSteps, ReloadStep, SigHup, AdapterEvent, forwardEvents, NotifierStep, Blocks
  <2> QED BY <1>1, <2>1, <2>2, <2>3 DEF Next, ClientSteps, ServiceSteps
<1> QED BY <1>1 DEF vars

NotifierType ==
  /\ mu \in Threads \cup {"free"} /\ current \in Nat /\ starts \in Nat
  /\ alive \in SUBSET Nat /\ cancelled \in SUBSET Nat
  /\ reload \in [Threads -> {"no", "stopping", "stopped", "ready"}]
  /\ published \in SUBSET Blocked /\ queued \in SUBSET (Nat \X Blocked)
  /\ alerts \in [Blocked -> Nat]

\* The notifier keeps its types whoever calls it.
LEMMA NotifierTypes ==
  ASSUME TypeOK
  PROVE  /\ NotifierType
         /\ Start => starts' \in Nat /\ current' \in Nat /\ alive' \in SUBSET Nat
         /\ \A t \in Threads : StopBegin(t) => mu' \in Threads /\ cancelled' \in SUBSET Nat
         /\ \A t \in Threads : StopEnd(t) => mu' = "free" /\ current' = 0
         /\ UNCHANGED notifierVars => NotifierType'
<1> USE DEF NotifierType, TypeOK
<1>1. NotifierType
  OBVIOUS
<1>2. Start => starts' \in Nat /\ current' \in Nat /\ alive' \in SUBSET Nat
  BY DEF Start
<1>3. \A t \in Threads : StopBegin(t) => mu' \in Threads /\ cancelled' \in SUBSET Nat
  BY DEF StopBegin
<1>4. \A t \in Threads : StopEnd(t) => mu' = "free" /\ current' = 0
  BY DEF StopEnd
<1>5. UNCHANGED notifierVars => NotifierType'
  BY DEF notifierVars
<1> QED BY <1>1, <1>2, <1>3, <1>4, <1>5

LEMMA ReloadTypes ==
  ASSUME TypeOK, NEW t \in Threads,
         ReloadStop(t) \/ ReloadStopped(t) \/ ReloadBackends(t) \/ ReloadStart(t)
  PROVE  NotifierType'
<1> USE DEF NotifierType
<1>1. CASE ReloadStop(t)
  BY <1>1, NotifierTypes DEF ReloadStop
<1>2. CASE ReloadStopped(t)
  BY <1>2, NotifierTypes DEF ReloadStopped
<1>3. CASE ReloadBackends(t)
  BY <1>3, NotifierTypes DEF ReloadBackends
<1>4. CASE ReloadStart(t)
  <2>1. mu' = mu /\ Start
    BY <1>4 DEF ReloadStart
  <2> QED BY <1>4, <2>1, NotifierTypes DEF ReloadStart
<1> QED BY <1>1, <1>2, <1>3, <1>4

LEMMA GoroutineTypes ==
  ASSUME TypeOK, NotifierStep \/ (\E e \in Blocked : Publish(e))
  PROVE  NotifierType'
<1>0. NotifierType
  BY NotifierTypes
<1> USE DEF NotifierType
<1>1. ASSUME NEW g \in alive, GoroutineEnds(g)  PROVE NotifierType'
  <2>1. alive' \in SUBSET Nat /\ queued' \in SUBSET (Nat \X Blocked)
    BY <1>0, <1>1 DEF GoroutineEnds
  <2> QED BY <1>0, <1>1, <2>1 DEF GoroutineEnds
<1>2. ASSUME NEW g \in alive, NEW e \in Blocked, Alert(g, e)  PROVE NotifierType'
  <2>1. queued' \in SUBSET (Nat \X Blocked) /\ alerts' \in [Blocked -> Nat]
    BY <1>0, <1>2 DEF Alert
  <2> QED BY <1>0, <1>2, <2>1 DEF Alert
<1>3. ASSUME NEW e \in Blocked, Publish(e)  PROVE NotifierType'
  <2>1. queued' \in SUBSET (Nat \X Blocked) /\ published' \in SUBSET Blocked
    BY <1>0, <1>3 DEF Publish
  <2> QED BY <1>0, <1>3, <2>1 DEF Publish
<1> QED BY <1>1, <1>2, <1>3 DEF NotifierStep

\* A process that ends leaves the notifier as it was before the first Start,
\* except for what the audit log and the backends have seen.
LEMMA ProcessEndTypes ==
  ASSUME TypeOK, NEW d \in Daemons, NEW how \in {"down", "crashed"}, ProcessEnds(d, how)
  PROVE  /\ pc' \in [Daemons -> Stages] /\ pc'[d] = how
         /\ \A o \in Daemons \ {d} : pc'[o] = pc[o]
         /\ UNCHANGED <<socket, raced>>
         /\ conn' \in [Clients -> {"none", "open", "gate", "reload"}]
         /\ eventCh' \in 0 .. EventCapacity
         /\ NotifierType'
<1>1. how \in Stages /\ Goto(d, how) /\ UNCHANGED <<socket, raced>>
  BY DEF ProcessEnds, Stages, Dead
<1>2. CASE d = Self
  <2>1. conn' = [c \in Clients |-> "none"] /\ eventCh' = 0 /\ mu' = "free" /\ current' = 0
        /\ starts' = 0 /\ alive' = {} /\ cancelled' = {} /\ queued' = {}
        /\ reload' = [t \in Threads |-> "no"] /\ UNCHANGED <<alerts, published>>
    BY <1>2 DEF ProcessEnds
  <2>2. NotifierType'
    BY <2>1, NotifierTypes DEF NotifierType
  <2> QED BY <1>1, <2>1, <2>2, GotoMoves, DaemonAssumption
<1>3. CASE d # Self
  <2>1. UNCHANGED <<conn, chanVars, notifierVars>>
    BY <1>3 DEF ProcessEnds
  <2> QED BY <1>1, <2>1, GotoMoves, NotifierTypes DEF chanVars, TypeOK
<1> QED BY <1>2, <1>3

LEMMA TypeStep ==
  ASSUME TypeOK, [Next]_vars
  PROVE  TypeOK'
<1>0. TypeOK <=> /\ pc \in [Daemons -> Stages]
                 /\ pidFile \in Daemons \cup {"none"} /\ socket \in Daemons \cup {"none"}
                 /\ conn \in [Clients -> {"none", "open", "gate", "reload"}]
                 /\ eventCh \in 0 .. EventCapacity
                 /\ NotifierType
  BY DEF TypeOK, NotifierType
<1>1. (TypeOK <=> /\ pc \in [Daemons -> Stages]
                  /\ pidFile \in Daemons \cup {"none"} /\ socket \in Daemons \cup {"none"}
                  /\ conn \in [Clients -> {"none", "open", "gate", "reload"}]
                  /\ eventCh \in 0 .. EventCapacity
                  /\ NotifierType)'
  BY DEF TypeOK, NotifierType
<1>2. ASSUME NEW d \in Daemons, MainStep(d)  PROVE TypeOK'
  <2>1. CASE CheckPID(d)
    <3>1. PICK stage \in Stages : Goto(d, stage)
      BY <2>1 DEF CheckPID, Stages, Dead
    <3> QED BY <1>0, <1>1, <2>1, <3>1, GotoMoves, NotifierTypes DEF CheckPID, ipcVars, chanVars
  <2>2. CASE WritePID(d) \/ StartIPC(d) \/ StartAdapters(d) \/ StopIPC(d) \/ IPCStopped(d)
    <3>1. PICK stage \in Stages : Goto(d, stage)
      BY <2>2 DEF WritePID, StartIPC, StartAdapters, StopIPC, IPCStopped, Stages, Serving
    <3> QED BY <1>0, <1>1, <2>2, <3>1, GotoMoves, NotifierTypes
            DEF WritePID, StartIPC, StartAdapters, StopIPC, IPCStopped, pathVars, ipcVars, chanVars
  <2>3. CASE OpenStore(d)
    <3>1. PICK stage \in Stages : Goto(d, stage)
      BY <2>3 DEF OpenStore, Stages
    <3>2. UNCHANGED notifierVars
          \/ (Start /\ UNCHANGED <<mu, cancelled, reload, queued, alerts, published>>)
      BY <2>3 DEF OpenStore
    <3>3. NotifierType'
      <4>1. CASE UNCHANGED notifierVars
        BY <4>1, NotifierTypes
      <4>2. CASE Start /\ UNCHANGED <<mu, cancelled, reload, queued, alerts, published>>
        BY <4>2, NotifierTypes DEF NotifierType
      <4> QED BY <3>2, <4>1, <4>2
    <3> QED BY <1>0, <1>1, <2>3, <3>1, <3>3, GotoMoves DEF OpenStore, pathVars, ipcVars, chanVars
  <2>4. CASE Terminate(d)
    <3>1. Goto(d, "stopping") /\ "stopping" \in Stages
      BY <2>4 DEF Terminate, Stages, Serving
    <3>2. UNCHANGED notifierVars
          \/ (/\ cancelled' = cancelled \cup {1}
              /\ UNCHANGED <<mu, current, alive, starts, reload, queued, alerts, published>>)
      BY <2>4 DEF Terminate
    <3>3. NotifierType'
      <4>1. CASE UNCHANGED notifierVars
        BY <4>1, NotifierTypes
      <4>2. CASE /\ cancelled' = cancelled \cup {1}
                 /\ UNCHANGED <<mu, current, alive, starts, reload, queued, alerts, published>>
        BY <4>2, NotifierTypes DEF NotifierType
      <4> QED BY <3>2, <4>1, <4>2
    <3> QED BY <1>0, <1>1, <2>4, <3>1, <3>3, GotoMoves DEF Terminate, pathVars, ipcVars, chanVars
  <2>5. CASE StopNotifier(d)
    <3>0. "main" \in Threads
      BY DaemonAssumption
    <3>1. pc' = pc \/ Goto(d, "closing")
      BY <2>5 DEF StopNotifier
    <3>2. pc' \in [Daemons -> Stages]
      <4>1. "closing" \in Stages
        BY DEF Stages
      <4> QED BY <1>0, <3>1, <4>1, GotoMoves
    <3>3. \/ UNCHANGED notifierVars
          \/ StopBegin("main") /\ UNCHANGED <<current, alive, starts, reload, queued, alerts, published>>
          \/ StopEnd("main") /\ UNCHANGED <<alive, cancelled, starts, reload, queued, alerts, published>>
      BY <2>5 DEF StopNotifier
    <3>4. NotifierType'
      BY <3>0, <3>3, NotifierTypes DEF NotifierType
    <3> QED BY <1>0, <1>1, <2>5, <3>2, <3>4 DEF StopNotifier, pathVars, ipcVars, chanVars
  <2>6. CASE RemovePID(d) \/ Crash(d)
    <3>1. PICK how \in {"down", "crashed"} : ProcessEnds(d, how)
      BY <2>6 DEF RemovePID, Crash
    <3>2. pidFile' \in Daemons \cup {"none"}
      BY <1>0, <2>6 DEF RemovePID, Crash
    <3> QED BY <1>0, <1>1, <3>1, <3>2, ProcessEndTypes
  <2> QED BY <1>2, <2>1, <2>2, <2>3, <2>4, <2>5, <2>6 DEF MainStep, Begin, End
<1>3. ASSUME ClientSteps, UNCHANGED <<pc, pathVars>>  PROVE TypeOK'
  <2>1. ASSUME NEW c \in Clients, ReloadCall(c)  PROVE TypeOK'
    BY <1>0, <1>1, <1>3, <2>1, ReloadTypes, DaemonAssumption DEF ReloadCall, pathVars, chanVars
  <2>2. ASSUME NEW c \in Clients, GateEmit(c)  PROVE TypeOK'
    <3>1. eventCh' \in 0 .. EventCapacity
      BY <1>0, <2>2, DaemonAssumption DEF GateEmit
    <3> QED BY <1>0, <1>1, <2>2, <3>1, NotifierTypes DEF GateEmit, pathVars
  <2>3. ASSUME NEW c \in Clients, ReloadReturns(c) \/ Connect(c) \/ GateCall(c) \/ HangUp(c)
        PROVE  TypeOK'
    BY <1>0, <1>1, <2>3, NotifierTypes DEF ReloadReturns, Connect, GateCall, HangUp, pathVars, chanVars
  <2>4. ASSUME NEW w \in Watchers, Watch(w) \/ LoseStream(w) \/ QuitWatch(w)  PROVE TypeOK'
    BY <1>0, <1>1, <2>4, NotifierTypes DEF Watch, LoseStream, QuitWatch, pathVars, chanVars
  <2>5. ASSUME NEW w \in Watchers, NEW d \in Daemons, SubscriptionEnds(w, d) \/ SendFails(w, d)
        PROVE  TypeOK'
    BY <1>0, <1>1, <2>5, NotifierTypes DEF SubscriptionEnds, SendFails, EndSubscription, pathVars, chanVars
  <2> QED BY <1>3, <2>1, <2>2, <2>3, <2>4, <2>5 DEF ClientSteps, Serve, Call
<1>4. ASSUME ServiceSteps, UNCHANGED <<pc, pathVars>>  PROVE TypeOK'
  <2>1. CASE SigHup \/ (\E t \in Threads : ReloadStep(t))
    <3>1. NotifierType'
      BY <2>1, ReloadTypes, DaemonAssumption DEF SigHup, ReloadStep
    <3> QED BY <1>0, <1>1, <1>4, <2>1, <3>1 DEF SigHup, ReloadStep, pathVars, ipcVars, chanVars
  <2>2. CASE AdapterEvent \/ forwardEvents
    <3>1. eventCh' \in 0 .. EventCapacity
      BY <1>0, <2>2, DaemonAssumption DEF AdapterEvent, forwardEvents
    <3> QED BY <1>0, <1>1, <2>2, <3>1, NotifierTypes DEF AdapterEvent, forwardEvents, pathVars, ipcVars
  <2>3. CASE NotifierStep \/ Blocks
    <3>1. NotifierType'
      BY <2>3, GoroutineTypes DEF Blocks
    <3> QED BY <1>0, <1>1, <1>4, <2>3, <3>1 DEF NotifierStep, Blocks, pathVars, ipcVars, chanVars
  <2> QED BY <1>4, <2>1, <2>2, <2>3 DEF ServiceSteps
<1>5. CASE UNCHANGED vars
  BY <1>0, <1>1, <1>5, NotifierTypes DEF vars, pathVars, ipcVars, chanVars
<1> QED BY Steps, <1>2, <1>3, <1>4, <1>5

(***************************************************************************)
(* The paths                                                               *)
(***************************************************************************)
\* A daemon that was alive before its step stays the only one.
LEMMA PathStep ==
  ASSUME TypeOK, PathInv, [Next]_vars
  PROVE  PathInv'
<1>0. SUFFICES ASSUME ~raced'
      PROVE  /\ \A d, o \in Daemons : Alive(d)' /\ Alive(o)' => d = o
             /\ \A d \in Daemons : Alive(d)' /\ pc'[d] # "checked" => pidFile' = d
             /\ \A d \in Daemons : pc'[d] \in Serving => socket' = d
  BY DEF PathInv, Alive
<1> USE DEF Alive, Dead, Serving
<1>1. ASSUME NEW d \in Daemons, CheckPID(d)
      PROVE  PathInv'
  <2>1. ~raced /\ UNCHANGED <<pidFile, socket>> /\ pc[d] = "off"
    BY <1>0, <1>1 DEF CheckPID
  <2>2. CASE Goto(d, "down")
    <3>1. "down" \in Stages
      BY DEF Stages
    <3> QED BY <1>0, <2>1, <2>2, <3>1, GotoMoves DEF PathInv
  <2>3. CASE /\ Goto(d, "checked") /\ ~(pidFile # "none" /\ pc[pidFile] \notin Dead)
             /\ raced' = (raced \/ \E o \in Daemons : pc[o] = "checked")
    <3>1. "checked" \in Stages
      BY DEF Stages
    <3>2. ASSUME NEW o \in Daemons, Alive(o)  PROVE FALSE
      <4>1. pc[o] # "checked"
        BY <1>0, <2>3
      <4>2. pidFile = o
        BY <2>1, <3>2, <4>1 DEF PathInv
      <4> QED BY <2>3, <3>2, <4>2, DaemonAssumption
    <3> QED BY <1>0, <2>1, <2>3, <3>1, <3>2, GotoMoves DEF PathInv
  <2> QED BY <1>1, <2>2, <2>3 DEF CheckPID
<1>2. ASSUME NEW d \in Daemons, NEW stage \in Stages, Goto(d, stage), Alive(d),
             UNCHANGED raced, pidFile' = d \/ stage \in Dead \/ (pidFile' = pidFile /\ pc[d] # "checked"),
             stage \in Serving => socket' = d
      PROVE  PathInv'
  <2>1. ~raced /\ \A o \in Daemons : Alive(o) => o = d
    BY <1>0, <1>2 DEF PathInv
  <2>2. pc'[d] = stage /\ \A o \in Daemons \ {d} : pc'[o] = pc[o]
    BY <1>2, GotoMoves
  <2>3. \A o \in Daemons \ {d} : ~Alive(o)'
    BY <2>1, <2>2
  <2> QED BY <1>2, <2>1, <2>2, <2>3 DEF PathInv
<1>3. ASSUME NEW d \in Daemons, MainStep(d), ~CheckPID(d)
      PROVE  PathInv'
  <2>1. CASE WritePID(d)
    <3>1. Goto(d, "opening") /\ "opening" \in Stages /\ pc[d] = "checked" /\ pidFile' = d
          /\ UNCHANGED raced
      BY <2>1 DEF WritePID, Stages
    <3> QED BY <1>2, <3>1
  <2>2. CASE OpenStore(d)
    <3>1. PICK stage \in {"closing", "listening"} : Goto(d, stage)
      BY <2>2 DEF OpenStore
    <3>2. pc[d] = "opening" /\ UNCHANGED <<pidFile, raced>> /\ stage \in Stages
      BY <2>2 DEF OpenStore, pathVars, Stages
    <3> QED BY <1>2, <3>1, <3>2
  <2>3. CASE StartIPC(d)
    <3>1. PICK stage \in {"notifierStop", "starting"} :
            Goto(d, stage) /\ (stage = "starting" => socket' = d)
      BY <2>3 DEF StartIPC
    <3>2. pc[d] = "listening" /\ UNCHANGED <<pidFile, raced>> /\ stage \in Stages
      BY <2>3 DEF StartIPC, Stages
    <3> QED BY <1>2, <3>1, <3>2
  <2>4. CASE StartAdapters(d) \/ Terminate(d)
    <3>1. PICK stage \in {"run", "stopping"} : Goto(d, stage)
      BY <2>4 DEF StartAdapters, Terminate
    <3>2. pc[d] \in {"starting", "run"} /\ UNCHANGED <<pidFile, socket, raced>> /\ stage \in Stages
      BY <2>4 DEF StartAdapters, Terminate, pathVars, Stages
    <3>3. socket' = d
      BY <1>0, <3>2 DEF PathInv
    <3> QED BY <1>2, <3>1, <3>2, <3>3
  <2>5. CASE StopIPC(d) \/ IPCStopped(d)
    <3>1. PICK stage \in {"ipcWait", "notifierStop"} : Goto(d, stage)
      BY <2>5 DEF StopIPC, IPCStopped
    <3>2. pc[d] \in {"stopping", "ipcWait"} /\ UNCHANGED <<pidFile, raced>> /\ stage \in Stages
      BY <2>5 DEF StopIPC, IPCStopped, Stages
    <3> QED BY <1>2, <3>1, <3>2
  <2>6. CASE StopNotifier(d)
    <3>1. pc[d] = "notifierStop" /\ UNCHANGED <<pidFile, socket, raced>> /\ "closing" \in Stages
      BY <2>6 DEF StopNotifier, pathVars, Stages
    <3>2. CASE Goto(d, "closing")
      BY <1>2, <3>1, <3>2
    <3>3. CASE pc' = pc
      BY <1>0, <3>1, <3>3 DEF PathInv
    <3> QED BY <2>6, <3>2, <3>3 DEF StopNotifier
  <2>7. CASE RemovePID(d) \/ Crash(d)
    <3>1. PICK how \in {"down", "crashed"} : ProcessEnds(d, how)
      BY <2>7 DEF RemovePID, Crash
    <3>2. Goto(d, how) /\ UNCHANGED raced /\ how \in Stages /\ Alive(d)
      BY <2>7, <3>1 DEF ProcessEnds, RemovePID, Crash, Stages
    <3> QED BY <1>2, <3>2
  <2> QED BY <1>3, <2>1, <2>2, <2>3, <2>4, <2>5, <2>6, <2>7 DEF MainStep, Begin, End
<1>4. CASE UNCHANGED <<pc, pathVars>>
  BY <1>0, <1>4 DEF PathInv, pathVars
<1>5. PathInv' => /\ \A d, o \in Daemons : Alive(d)' /\ Alive(o)' => d = o
                  /\ \A d \in Daemons : Alive(d)' /\ pc'[d] # "checked" => pidFile' = d
                  /\ \A d \in Daemons : pc'[d] \in Serving => socket' = d
  BY <1>0 DEF PathInv
<1> QED BY Steps, <1>1, <1>3, <1>4, <1>5

(***************************************************************************)
(* The reloading threads                                                   *)
(***************************************************************************)
\* What another daemon's main thread cannot touch.
LEMMA OtherDaemon ==
  ASSUME TypeOK, NEW d \in Daemons, d # Self, MainStep(d)
  PROVE  pc'[Self] = pc[Self] /\ UNCHANGED <<conn, notifierVars>>
<1>1. CASE RemovePID(d) \/ Crash(d)
  <2>1. PICK how \in {"down", "crashed"} : ProcessEnds(d, how)
    BY <1>1 DEF RemovePID, Crash
  <2> QED BY <2>1, ProcessEndTypes, DaemonAssumption DEF ProcessEnds
<1>2. CASE ~RemovePID(d) /\ ~Crash(d)
  <2>1. UNCHANGED <<conn, notifierVars>>
    BY <1>2 DEF MainStep, Begin, End, CheckPID, WritePID, OpenStore, StartIPC, StartAdapters,
                Terminate, StopIPC, IPCStopped, StopNotifier, ipcVars
  <2>2. pc' = pc \/ \E stage \in Stages : Goto(d, stage)
    BY <1>2 DEF MainStep, Begin, End, CheckPID, WritePID, OpenStore, StartIPC, StartAdapters,
                Terminate, StopIPC, IPCStopped, StopNotifier, Stages, Dead, Serving
  <2> QED BY <2>1, <2>2, GotoMoves, DaemonAssumption
<1> QED BY <1>1, <1>2

\* How the main thread of Self moves, its threads' reloads and its connections
\* being what they were. Only the signal loop is left with a condition.
LEMMA SelfMoves ==
  ASSUME TypeOK, MainStep(Self), ~RemovePID(Self), ~Crash(Self)
  PROVE  /\ UNCHANGED <<conn, reload>>
         /\ \/ pc[Self] \in {"off", "checked", "opening"} /\ pc'[Self] \notin Serving \cup {"ipcWait"}
            \/ pc[Self] = "listening" /\ pc'[Self] \in {"notifierStop", "starting"}
            \/ pc[Self] = "starting" /\ pc'[Self] = "run"
            \/ pc[Self] = "run" /\ pc'[Self] = "stopping" /\ reload["main"] = "no"
            \/ pc[Self] = "stopping" /\ pc'[Self] = "ipcWait"
            \/ /\ pc[Self] = "ipcWait" /\ pc'[Self] = "notifierStop"
               /\ \A c \in Clients : conn[c] = "none"
            \/ pc[Self] = "notifierStop" /\ pc'[Self] \in {"notifierStop", "closing"}
<1> USE DEF Stages, Dead, Serving
<1>0. Self \in Daemons
  BY DaemonAssumption
<1>1. CASE CheckPID(Self) \/ WritePID(Self)
  <2>1. PICK stage \in {"down", "checked", "opening"} : Goto(Self, stage)
    BY <1>1 DEF CheckPID, WritePID
  <2> QED BY <1>0, <1>1, <2>1, GotoMoves DEF CheckPID, WritePID, ipcVars, notifierVars
<1>2. CASE OpenStore(Self)
  <2>1. PICK stage \in {"closing", "listening"} : Goto(Self, stage)
    BY <1>2 DEF OpenStore
  <2> QED BY <1>0, <1>2, <2>1, GotoMoves DEF OpenStore, ipcVars, notifierVars
<1>3. CASE StartIPC(Self) \/ StartAdapters(Self) \/ StopIPC(Self)
  <2>1. PICK stage \in {"notifierStop", "starting", "run", "ipcWait"} :
          Goto(Self, stage)
          /\ \/ pc[Self] = "listening" /\ stage \in {"notifierStop", "starting"}
             \/ pc[Self] = "starting" /\ stage = "run"
             \/ pc[Self] = "stopping" /\ stage = "ipcWait"
    BY <1>3 DEF StartIPC, StartAdapters, StopIPC
  <2> QED BY <1>0, <1>3, <2>1, GotoMoves DEF StartIPC, StartAdapters, StopIPC, ipcVars, notifierVars
<1>4. CASE Terminate(Self)
  <2>1. Goto(Self, "stopping") /\ pc[Self] = "run" /\ reload["main"] = "no"
        /\ UNCHANGED <<conn, reload>>
    BY <1>4 DEF Terminate, ipcVars
  <2> QED BY <1>0, <2>1, GotoMoves
<1>5. CASE IPCStopped(Self)
  <2>1. Goto(Self, "notifierStop") /\ pc[Self] = "ipcWait"
        /\ (\A c \in Clients : conn[c] = "none") /\ UNCHANGED <<conn, reload>>
    BY <1>5 DEF IPCStopped, ipcVars, notifierVars
  <2> QED BY <1>0, <2>1, GotoMoves
<1>6. CASE StopNotifier(Self)
  <2>1. (pc' = pc \/ Goto(Self, "closing")) /\ pc[Self] = "notifierStop" /\ UNCHANGED <<conn, reload>>
    BY <1>6 DEF StopNotifier, ipcVars
  <2> QED BY <1>0, <2>1, GotoMoves
<1> QED BY <1>1, <1>2, <1>3, <1>4, <1>5, <1>6 DEF MainStep, Begin, End

LEMMA ThreadStep ==
  ASSUME TypeOK, ThreadInv, [Next]_vars
  PROVE  ThreadInv'
<1> USE DEF ThreadInv
<1>0. /\ Threads = {"main"} \cup Clients /\ "main" \notin Clients /\ Self \in Daemons
      /\ reload \in [Threads -> {"no", "stopping", "stopped", "ready"}]
      /\ conn \in [Clients -> {"none", "open", "gate", "reload"}]
  BY DaemonAssumption DEF TypeOK
<1>1. ASSUME NEW d \in Daemons, MainStep(d)  PROVE ThreadInv'
  <2>1. CASE d # Self
    <3>1. pc'[Self] = pc[Self] /\ UNCHANGED <<conn, reload>>
      BY <1>1, <2>1, OtherDaemon DEF notifierVars
    <3> QED BY <3>1
  <2>2. CASE d = Self /\ (RemovePID(d) \/ Crash(d))
    <3>1. conn' = [c \in Clients |-> "none"] /\ reload' = [t \in Threads |-> "no"]
      BY <2>2 DEF RemovePID, Crash, ProcessEnds
    <3> QED BY <1>0, <3>1
  <2>3. CASE d = Self /\ ~RemovePID(d) /\ ~Crash(d)
    BY <1>0, <1>1, <2>3, SelfMoves DEF Serving
  <2> QED BY <2>1, <2>2, <2>3
<1>2. ASSUME NEW t \in Threads, ReloadStep(t), UNCHANGED pc
      PROVE  ThreadInv'
  <2>1. /\ conn' = conn /\ reload[t] # "no"
        /\ \A u \in Threads : reload'[u] # "no" => reload[u] # "no"
    BY <1>0, <1>2 DEF ReloadStep, ReloadStopped, ReloadBackends, ReloadStart, ipcVars
  <2> QED BY <1>0, <1>2, <2>1
<1>3. ASSUME SigHup, UNCHANGED pc  PROVE ThreadInv'
  <2>1. conn' = conn /\ pc[Self] = "run" /\ \A c \in Clients : reload'[c] = reload[c]
    BY <1>0, <1>3 DEF SigHup, ReloadStop, ipcVars
  <2> QED BY <1>0, <1>3, <2>1
<1>4. ASSUME NEW c \in Clients, ReloadCall(c), UNCHANGED pc  PROVE ThreadInv'
  <2>1. /\ conn[c] = "open" /\ conn' = [conn EXCEPT ![c] = "reload"]
        /\ \A t \in Threads \ {c} : reload'[t] = reload[t]
    BY <1>0, <1>4 DEF ReloadCall, ReloadStop
  <2> QED BY <1>0, <1>4, <2>1
<1>5. ASSUME NEW c \in Clients, Connect(c) \/ GateCall(c) \/ GateEmit(c) \/ ReloadReturns(c) \/ HangUp(c),
             UNCHANGED pc
      PROVE  ThreadInv'
  <2>1. reload' = reload
    BY <1>5 DEF Connect, GateCall, GateEmit, ReloadReturns, HangUp, notifierVars
  <2>2. PICK x \in {"none", "open", "gate"} : conn' = [conn EXCEPT ![c] = x]
    BY <1>5 DEF Connect, GateCall, GateEmit, ReloadReturns, HangUp
  <2>3. reload[c] = "no" /\ (conn[c] # "none" \/ pc[Self] \in Serving)
    BY <1>5 DEF Connect, GateCall, GateEmit, ReloadReturns, HangUp
  <2> QED BY <1>0, <1>5, <2>1, <2>2, <2>3
<1>6. CASE UNCHANGED <<pc, conn, reload>>
  BY <1>6
<1>7. ASSUME ClientSteps, UNCHANGED pc
      PROVE  \/ \E c \in Clients : \/ ReloadCall(c) \/ Connect(c) \/ GateCall(c) \/ GateEmit(c)
                                   \/ ReloadReturns(c) \/ HangUp(c)
             \/ UNCHANGED <<pc, conn, reload>>
  <2>1. ASSUME NEW w \in Watchers, Watch(w) \/ LoseStream(w) \/ QuitWatch(w)
        PROVE  UNCHANGED <<pc, conn, reload>>
    BY <2>1 DEF Watch, LoseStream, QuitWatch, notifierVars
  <2>2. ASSUME NEW w \in Watchers, NEW d \in Daemons, SubscriptionEnds(w, d) \/ SendFails(w, d)
        PROVE  UNCHANGED <<pc, conn, reload>>
    BY <2>2 DEF SubscriptionEnds, SendFails, EndSubscription, notifierVars
  <2> QED BY <1>7, <2>1, <2>2 DEF ClientSteps, Serve, Call
<1>8. ASSUME AdapterEvent \/ forwardEvents \/ NotifierStep \/ Blocks \/ UNCHANGED vars, UNCHANGED pc
      PROVE  UNCHANGED <<pc, conn, reload>>
  BY <1>8 DEF AdapterEvent, forwardEvents, NotifierStep, Blocks, GoroutineEnds, Alert, Publish,
     ipcVars, notifierVars, vars
<1> QED
  BY Steps, <1>1, <1>2, <1>3, <1>4, <1>5, <1>6, <1>7, <1>8 DEF ServiceSteps

(***************************************************************************)
(* The goroutines of the notifier                                          *)
(***************************************************************************)
\* With nobody alive there is nothing queued, so a Start is alone.
LEMMA StartAlone ==
  ASSUME TypeOK, OneGoroutine, OneAlert, alive = {}, Start,
         UNCHANGED <<queued, alerts, published>>,
         \A t \in Threads : reload'[t] = "no",
         pc'[Self] \notin {"off", "checked", "opening", "closing"}
  PROVE  OneGoroutine' /\ OneAlert'
<1>1. alive' = {starts + 1} /\ current' = starts + 1
  BY DEF Start
<1>2. queued = {}
  BY DEF OneAlert
<1>3. OneGoroutine'
  BY <1>1 DEF OneGoroutine, NoGoroutine
<1>4. OneAlert'
  BY <1>2 DEF OneAlert
<1> QED BY <1>3, <1>4

\* The events and the goroutines being what they were, only a new reason for
\* there to be none has to be looked at.
LEMMA SameGoroutines ==
  ASSUME OneGoroutine, OneAlert, UNCHANGED <<alive, queued, alerts, published>>,
         current' = current \/ alive = {},
         \A t, u \in Threads : reload'[t] # "no" /\ reload'[u] # "no" => t = u,
         NoGoroutine' => NoGoroutine \/ alive = {}
  PROVE  OneGoroutine' /\ OneAlert'
<1>1. OneGoroutine'
  BY DEF OneGoroutine
<1>2. OneAlert'
  BY DEF OneAlert
<1> QED BY <1>1, <1>2

LEMMA ReloadAlert ==
  ASSUME TypeOK, ThreadInv, AlertInv, NEW t \in Threads, UNCHANGED pc,
         ReloadStop(t) \/ ReloadStopped(t) \/ ReloadBackends(t) \/ ReloadStart(t)
  PROVE  AlertInv'
<1>0. /\ Threads = {"main"} \cup Clients
      /\ reload \in [Threads -> {"no", "stopping", "stopped", "ready"}]
  BY DaemonAssumption DEF TypeOK
<1>1. SUFFICES ASSUME ~overlapped'  PROVE OneGoroutine' /\ OneAlert'
  BY DEF AlertInv
<1>2. ~overlapped
  BY <1>1 DEF ReloadStop, ReloadStopped, ReloadBackends, ReloadStart
<1>3. OneGoroutine /\ OneAlert
  BY <1>2 DEF AlertInv
<1>4. CASE ReloadStop(t)
  <2>1. \A u \in Threads : reload[u] = "no"
    BY <1>1, <1>4 DEF ReloadStop
  <2>2. /\ reload' = [reload EXCEPT ![t] = "stopping"]
        /\ UNCHANGED <<current, alive, queued, alerts, published>>
    BY <1>4 DEF ReloadStop
  <2>3. NoGoroutine' => NoGoroutine
    BY <1>0, <2>1, <2>2 DEF NoGoroutine
  <2> QED BY <1>0, <1>3, <2>1, <2>2, <2>3, SameGoroutines
<1>5. CASE ReloadStopped(t)
  <2>1. /\ reload[t] = "stopping" /\ reload' = [reload EXCEPT ![t] = "stopped"]
        /\ current \notin alive
        /\ UNCHANGED <<alive, queued, alerts, published>>
    BY <1>5 DEF ReloadStopped, StopEnd
  <2>2. alive = {}
    BY <1>3, <2>1 DEF OneGoroutine
  <2> QED BY <1>0, <1>3, <2>1, <2>2, SameGoroutines DEF OneGoroutine
<1>6. CASE ReloadBackends(t)
  <2>1. /\ reload[t] = "stopped" /\ reload' = [reload EXCEPT ![t] = "ready"]
        /\ UNCHANGED <<current, alive, queued, alerts, published>>
    BY <1>6 DEF ReloadBackends
  <2>2. alive = {}
    BY <1>3, <2>1 DEF OneGoroutine, NoGoroutine
  <2> QED BY <1>0, <1>3, <2>1, <2>2, SameGoroutines DEF OneGoroutine
<1>7. CASE ReloadStart(t)
  <2>1. /\ reload[t] = "ready" /\ reload' = [reload EXCEPT ![t] = "no"]
        /\ Start /\ UNCHANGED <<queued, alerts, published>>
    BY <1>7 DEF ReloadStart
  <2>2. alive = {}
    BY <1>3, <2>1 DEF OneGoroutine, NoGoroutine
  <2>3. \A u \in Threads : reload'[u] = "no"
    BY <1>0, <1>3, <2>1 DEF OneGoroutine
  <2>4. pc'[Self] \notin {"off", "checked", "opening", "closing"}
    BY <1>0, <2>1 DEF ThreadInv, Serving
  <2> QED BY <1>3, <2>1, <2>2, <2>3, <2>4, StartAlone
<1> QED BY <1>4, <1>5, <1>6, <1>7

LEMMA GoroutineAlert ==
  ASSUME TypeOK, AlertInv, UNCHANGED pc, NotifierStep \/ (\E e \in Blocked : Publish(e))
  PROVE  AlertInv'
<1>1. SUFFICES ASSUME ~overlapped'  PROVE OneGoroutine' /\ OneAlert'
  BY DEF AlertInv
<1>2. ~overlapped /\ UNCHANGED <<current, reload>>
  <2>1. ASSUME NEW g \in alive, GoroutineEnds(g)  PROVE UNCHANGED <<overlapped, current, reload>>
    BY <2>1 DEF GoroutineEnds
  <2>2. ASSUME NEW g \in alive, NEW e \in Blocked, Alert(g, e)
        PROVE  UNCHANGED <<overlapped, current, reload>>
    BY <2>2 DEF Alert
  <2>3. ASSUME NEW e \in Blocked, Publish(e)  PROVE UNCHANGED <<overlapped, current, reload>>
    BY <2>3 DEF Publish
  <2>4. UNCHANGED <<overlapped, current, reload>>
    BY <2>1, <2>2, <2>3 DEF NotifierStep
  <2> QED BY <1>1, <2>4
<1>3. OneGoroutine /\ OneAlert /\ alerts \in [Blocked -> Nat]
  BY <1>2 DEF AlertInv, TypeOK
<1>4. ASSUME NEW g \in alive, GoroutineEnds(g)  PROVE OneGoroutine' /\ OneAlert'
  <2>1. alive' = alive \ {g} /\ queued' = {q \in queued : q[1] # g} /\ UNCHANGED <<alerts, published>>
    BY <1>4 DEF GoroutineEnds
  <2>2. OneGoroutine'
    BY <1>2, <1>3, <2>1 DEF OneGoroutine, NoGoroutine
  <2>3. queued' \subseteq alive' \X published'
    BY <1>3, <2>1 DEF OneAlert
  <2> QED BY <1>3, <2>1, <2>2, <2>3 DEF OneAlert
<1>5. ASSUME NEW g \in alive, NEW e \in Blocked, Alert(g, e)  PROVE OneGoroutine' /\ OneAlert'
  <2>1. /\ <<g, e>> \in queued /\ queued' = queued \ {<<g, e>>}
        /\ alerts' = [alerts EXCEPT ![e] = @ + 1] /\ UNCHANGED <<alive, published>>
    BY <1>5 DEF Alert
  <2>2. OneGoroutine'
    BY <1>2, <1>3, <2>1 DEF OneGoroutine, NoGoroutine
  <2>3. alive = {g}
    BY <1>3 DEF OneGoroutine
  <2>4. alerts[e] = 0 /\ e \in published
    BY <1>3, <2>1 DEF OneAlert
  <2>5. alerts'[e] = 1 /\ \A x \in Blocked \ {e} : alerts'[x] = alerts[x]
    BY <1>3, <2>1, <2>4
  <2>6. \A x \in Blocked :
          /\ alerts'[x] <= 1
          /\ x \notin published' => alerts'[x] = 0
          /\ \A h \in alive' : <<h, x>> \in queued' => alerts'[x] = 0
    <3>1. TAKE x \in Blocked
    <3>2. CASE x = e
      BY <2>1, <2>3, <2>4, <2>5, <3>2
    <3>3. CASE x # e
      BY <1>3, <2>1, <2>5, <3>3 DEF OneAlert
    <3> QED BY <3>2, <3>3
  <2>7. queued' \subseteq alive' \X published'
    BY <1>3, <2>1 DEF OneAlert
  <2> QED BY <2>2, <2>6, <2>7 DEF OneAlert
<1>6. ASSUME NEW e \in Blocked, Publish(e)  PROVE OneGoroutine' /\ OneAlert'
  <2>1. /\ e \notin published /\ published' = published \cup {e}
        /\ queued' = queued \cup {<<g, e>> : g \in alive} /\ UNCHANGED <<alive, alerts>>
    BY <1>6 DEF Publish
  <2>2. OneGoroutine'
    BY <1>2, <1>3, <2>1 DEF OneGoroutine, NoGoroutine
  <2>3. \A x \in Blocked, g \in alive : <<g, x>> \in queued' => <<g, x>> \in queued \/ x = e
    BY <2>1
  <2>4. queued' \subseteq alive' \X published'
    BY <1>3, <2>1 DEF OneAlert
  <2> QED BY <1>3, <2>1, <2>2, <2>3, <2>4 DEF OneAlert
<1> QED BY <1>4, <1>5, <1>6 DEF NotifierStep

LEMMA MainAlert ==
  ASSUME TypeOK, ThreadInv, AlertInv, NEW d \in Daemons, MainStep(d)
  PROVE  AlertInv'
<1>0. /\ Threads = {"main"} \cup Clients /\ Self \in Daemons
  BY DaemonAssumption
<1>1. CASE d # Self
  <2>1. pc'[Self] = pc[Self] /\ UNCHANGED notifierVars
    BY <1>1, OtherDaemon
  <2> QED BY <2>1 DEF AlertInv, OneGoroutine, OneAlert, NoGoroutine, notifierVars
<1>2. CASE d = Self /\ (RemovePID(d) \/ Crash(d))
  <2>1. /\ alive' = {} /\ queued' = {} /\ reload' = [t \in Threads |-> "no"]
        /\ UNCHANGED <<alerts, published, overlapped>>
    BY <1>2 DEF RemovePID, Crash, ProcessEnds
  <2> QED BY <2>1 DEF AlertInv, OneGoroutine, OneAlert
<1>3. CASE d = Self /\ ~RemovePID(d) /\ ~Crash(d)
  <2>1. UNCHANGED <<conn, reload>>
    BY <1>3, SelfMoves
  <2>2. UNCHANGED <<queued, alerts, published, overlapped>>
    BY <1>3 DEF MainStep, Begin, End, CheckPID, WritePID, OpenStore, StartIPC, StartAdapters,
                Terminate, StopIPC, IPCStopped, StopNotifier, notifierVars
  <2>3. SUFFICES ASSUME ~overlapped  PROVE OneGoroutine' /\ OneAlert'
    BY <2>2 DEF AlertInv
  <2>4. OneGoroutine /\ OneAlert
    BY <2>3 DEF AlertInv
  <2>5. \A t, u \in Threads : reload'[t] # "no" /\ reload'[u] # "no" => t = u
    BY <2>1, <2>4 DEF OneGoroutine
  <2>6. CASE OpenStore(Self)
    <3>1. pc[Self] = "opening" /\ alive = {}
      BY <2>4, <2>6 DEF OpenStore, OneGoroutine, NoGoroutine
    <3>2. CASE UNCHANGED notifierVars
      BY <2>2, <2>4, <2>5, <3>1, <3>2, SameGoroutines DEF notifierVars
    <3>3. CASE Start /\ Goto(Self, "listening")
      <4>1. \A t \in Threads : reload[t] = "no"
        BY <1>0, <3>1 DEF ThreadInv, Serving
      <4>2. pc'[Self] = "listening"
        BY <1>0, <3>3, GotoMoves DEF Stages
      <4> QED BY <2>1, <2>2, <2>4, <3>1, <3>3, <4>1, <4>2, StartAlone
    <3> QED BY <2>6, <3>2, <3>3 DEF OpenStore
  <2>7. CASE StopNotifier(Self)
    <3>1. CASE StopBegin("main") /\ UNCHANGED pc /\ UNCHANGED <<current, alive>>
      BY <2>1, <2>2, <2>4, <2>5, <3>1, SameGoroutines DEF NoGoroutine
    <3>2. CASE StopEnd("main") /\ UNCHANGED alive
      <4>1. alive = {}
        BY <2>4, <3>2 DEF StopEnd, OneGoroutine
      <4> QED BY <2>2, <2>4, <2>5, <3>2, <4>1, SameGoroutines
    <3> QED BY <2>7, <3>1, <3>2 DEF StopNotifier
  <2>8. CASE ~OpenStore(Self) /\ ~StopNotifier(Self)
    <3>1. UNCHANGED <<alive, current>>
      BY <1>3, <2>8 DEF MainStep, Begin, End, CheckPID, WritePID, StartIPC, StartAdapters,
                Terminate, StopIPC, IPCStopped, notifierVars
    <3>2. NoGoroutine' => NoGoroutine
      <4>1. CASE CheckPID(Self) \/ WritePID(Self)
        BY <4>1 DEF CheckPID, WritePID, NoGoroutine
      <4>2. CASE ~CheckPID(Self) /\ ~WritePID(Self)
        <5>1. pc[Self] # "notifierStop" /\ pc[Self] \notin {"off", "checked", "opening"}
          BY <1>3, <2>8, <4>2 DEF MainStep, Begin, End, StartIPC, StartAdapters, Terminate,
             StopIPC, IPCStopped
        <5> QED BY <1>3, <2>1, <5>1, SelfMoves DEF NoGoroutine
      <4> QED BY <4>1, <4>2
    <3> QED BY <2>2, <2>4, <2>5, <3>1, <3>2, SameGoroutines
  <2> QED BY <2>6, <2>7, <2>8
<1> QED BY <1>1, <1>2, <1>3

LEMMA AlertStep ==
  ASSUME TypeOK, ThreadInv, AlertInv, [Next]_vars
  PROVE  AlertInv'
<1>1. CASE \E d \in Daemons : MainStep(d)
  BY <1>1, MainAlert
<1>2. ASSUME SigHup \/ (\E t \in Threads : ReloadStep(t)) \/ (\E c \in Clients : ReloadCall(c)),
             UNCHANGED pc
      PROVE  AlertInv'
  <2>1. PICK t \in Threads :
          ReloadStop(t) \/ ReloadStopped(t) \/ ReloadBackends(t) \/ ReloadStart(t)
    BY <1>2, DaemonAssumption DEF SigHup, ReloadStep, ReloadCall
  <2> QED BY <1>2, <2>1, ReloadAlert
<1>3. ASSUME NotifierStep \/ Blocks, UNCHANGED pc  PROVE AlertInv'
  BY <1>3, GoroutineAlert DEF Blocks
<1>4. CASE UNCHANGED <<pc, notifierVars>>
  BY <1>4 DEF AlertInv, OneGoroutine, OneAlert, NoGoroutine, notifierVars
<1>5. ASSUME ClientSteps  PROVE UNCHANGED notifierVars \/ \E c \in Clients : ReloadCall(c)
  <2>1. ASSUME NEW c \in Clients, Serve(c) \/ Call(c), ~ReloadCall(c)  PROVE UNCHANGED notifierVars
    BY <2>1 DEF Serve, Call, GateEmit, ReloadReturns, Connect, GateCall, HangUp
  <2>2. ASSUME NEW w \in Watchers, Watch(w) \/ LoseStream(w) \/ QuitWatch(w)
        PROVE  UNCHANGED notifierVars
    BY <2>2 DEF Watch, LoseStream, QuitWatch
  <2>3. ASSUME NEW w \in Watchers, NEW d \in Daemons, SubscriptionEnds(w, d) \/ SendFails(w, d)
        PROVE  UNCHANGED notifierVars
    BY <2>3 DEF SubscriptionEnds, SendFails, EndSubscription
  <2> QED BY <1>5, <2>1, <2>2, <2>3 DEF ClientSteps
<1>6. AdapterEvent \/ forwardEvents \/ UNCHANGED vars => UNCHANGED notifierVars
  BY DEF AdapterEvent, forwardEvents, vars
<1> QED BY Steps, <1>1, <1>2, <1>3, <1>4, <1>5, <1>6 DEF ServiceSteps

(***************************************************************************)
(* The theorems                                                            *)
(***************************************************************************)
Inv == TypeOK /\ PathInv /\ ThreadInv /\ AlertInv

LEMMA InitInv == Init => Inv
<1> SUFFICES ASSUME Init  PROVE Inv
  OBVIOUS
<1> USE DaemonAssumption DEF Init, NotifierInit
<1>1. TypeOK
  BY DEF TypeOK, Stages, Dead
<1>2. PathInv
  BY DEF PathInv, Alive, Dead, Serving
<1>3. ThreadInv
  BY DEF ThreadInv
<1>4. AlertInv
  BY DEF AlertInv, OneGoroutine, OneAlert
<1> QED BY <1>1, <1>2, <1>3, <1>4 DEF Inv

LEMMA NextInv == Inv /\ [Next]_vars => Inv'
  BY TypeStep, PathStep, ThreadStep, AlertStep DEF Inv

LEMMA SpecInv == Spec => []Inv
  BY InitInv, NextInv, PTL DEF Spec

\* As long as no two daemons looked at the pid file before either wrote it, the
\* pid file and the socket path of a serving daemon are its own, whatever other
\* daemons are started, refused, stopped or killed.
THEOREM PathsAlwaysLead == Spec => []PathsLeadToDaemon
<1>1. Inv => PathsLeadToDaemon
  BY DEF Inv, PathInv, PathsLeadToDaemon, Alive, Dead, Serving
<1> QED BY <1>1, SpecInv, PTL

\* As long as no two reloads overlapped, no blocked event is alerted twice, and
\* the logger is closed only when the notifier's goroutine is gone.
THEOREM NeverAlertedTwice == Spec => []AlertsNotDoubled
<1>1. Inv => AlertsNotDoubled
  BY DEF Inv, AlertInv, OneGoroutine, OneAlert, NoGoroutine, AlertsNotDoubled
<1> QED BY <1>1, SpecInv, PTL

=============================================================================
