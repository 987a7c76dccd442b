------------------------------ MODULE OpenClaw ------------------------------
(***************************************************************************)
(* The OpenClaw integration: the gateway client (Gateway) feeding the      *)
(* correlation store (Correlation) and the agent registry (AgentRegistry), *)
(* with the scanner reporting to the same registry. The events go to the   *)
(* daemon's channel without blocking: a full channel drops them. Here the  *)
(* clock stands still; MatchExact of Correlation ranges over times.        *)
(***************************************************************************)
EXTENDS Gateway, Correlation, AgentRegistry, TLC

CONSTANTS
    Scanned,       \* the ids the scanner may find
    EventCapacity  \* the capacity of the daemon's event channel

(* The scanner's ids begin with a process signature or the agent type of a *)
(* log path (scanner.go), those of the gateway's sessions with openclaw/.  *)
ASSUME OpenClawAssumption ==
    /\ Sources = {"scanner", "openclaw-gateway"}
    /\ \A list \in Lists : \A k \in DOMAIN list : <<"openclaw", k>> \notin Scanned

VARIABLES
    eventCh,       \* events in the daemon's channel
    lastSessions   \* history: the list of the last refresh that was observed

vars == <<gatewayVars, correlationVars, registryVars, eventCh, lastSessions>>

agentOf(key) == <<"openclaw", key>>
openclawSessionsToAgents(list) == {agentOf(k) : k \in DOMAIN list}

Init == /\ GatewayInit /\ CorrelationInit /\ RegistryInit
        /\ eventCh = 0 /\ lastSessions = EmptyMap

emitNonBlocking == eventCh' = IF eventCh < EventCapacity THEN eventCh + 1 ELSE eventCh

(* handleEvent: chat and agent events are recorded and emitted; any other  *)
(* payload (exec.started, exec.completed, unknown) is ignored.             *)
handleEvent(e) ==
    \/ e.kind = "chat" /\ RecordChat(e, 0) /\ emitNonBlocking
    \/ e.kind = "agent" /\ RecordAgent(e) /\ emitNonBlocking
    \/ e.kind = "exec" /\ UNCHANGED <<correlationVars, eventCh>>

cacheReply(reply) ==
    IF reply = ReplyError THEN UNCHANGED correlationVars ELSE SetCache(reply)

observeSessions(list) ==
    /\ ReplaceSource("openclaw-gateway", openclawSessionsToAgents(list))
    /\ lastSessions' = list

Connect == /\ Dial \/ ConnectHello \/ ConnectError \/ ConnectCancelled
           /\ UNCHANGED <<correlationVars, registryVars, eventCh, lastSessions>>

ReadFrame == /\ \/ ReadHello \/ ReadNotJSON \/ ReadUndecodable \/ ReadChallenge
                \/ ReadReply \/ ReadError \/ FailPending \/ ClearConn
             /\ UNCHANGED <<correlationVars, registryVars, eventCh, lastSessions>>

ReadEventFrame ==
    /\ ReadEvent /\ handleEvent(Head(inbox).event)
    /\ UNCHANGED <<registryVars, lastSessions>>

Request == /\ ReqCheck \/ ReqRegister \/ ReqWrite \/ ReqCancelled
           /\ UNCHANGED <<correlationVars, registryVars, eventCh, lastSessions>>

RefreshCache ==
    /\ ReqReturn /\ cacheReply(req.resp[1])
    /\ UNCHANGED <<registryVars, eventCh, lastSessions>>

RefreshStore ==
    /\ RecordSessions /\ RecordSession(req.resp[1])
    /\ UNCHANGED <<registryVars, eventCh, lastSessions>>

RefreshRegistry ==
    /\ ObserveSessions /\ observeSessions(req.resp[1])
    /\ UNCHANGED <<correlationVars, eventCh>>

RefreshLoop == /\ RefreshTick \/ LoopEnds
               /\ UNCHANGED <<correlationVars, registryVars, eventCh, lastSessions>>

Stop == /\ Shutdown \/ StopClient \/ StopFailPending \/ StopReturned
        /\ UNCHANGED <<correlationVars, registryVars, eventCh, lastSessions>>

GatewaySteps == /\ GatewaySend \/ ConnectionLost
                /\ UNCHANGED <<correlationVars, registryVars, eventCh, lastSessions>>

(* discoveryLoop: a scan reports what it found, and ends with the context. *)
Scan == /\ ~ctx
        /\ \E found \in SUBSET Scanned : ReplaceSource("scanner", found)
        /\ UNCHANGED <<gatewayVars, correlationVars, eventCh, lastSessions>>

(* forwardEvents takes an event until the context is cancelled.            *)
Forward == /\ eventCh > 0 /\ ~ctx /\ eventCh' = eventCh - 1
           /\ UNCHANGED <<gatewayVars, correlationVars, registryVars, lastSessions>>

Next == \/ Connect \/ ReadFrame \/ ReadEventFrame \/ Request
        \/ RefreshCache \/ RefreshStore \/ RefreshRegistry \/ RefreshLoop
        \/ Stop \/ GatewaySteps \/ Scan \/ Forward

Spec == Init /\ [][Next]_vars

(* Goroutines that can run do run; the select of refreshLoop is random, so *)
(* a cancelled context is not passed over for ever. The gateway and the   *)
(* network owe nothing.                                                    *)
FairSpec == /\ Spec
            /\ WF_vars(ReadFrame) /\ WF_vars(ReadEventFrame)
            /\ WF_vars(Request) /\ WF_vars(RefreshCache)
            /\ WF_vars(RefreshStore) /\ WF_vars(RefreshRegistry)
            /\ WF_vars(Stop /\ stop # "no") /\ WF_vars(Stop /\ ctx /\ stop = "no")
            /\ SF_vars(RefreshLoop /\ loop' = "ended")

----------------------------------------------------------------------------
(* Whenever the daemon's status says that the gateway is connected         *)
(* (statusSnapshot reads Adapter.Connected), a goroutine is reading that   *)
(* connection: a lost connection cannot leave a client that looks          *)
(* connected and hears nothing. Only a challenge that meets no token ends  *)
(* the reader without clearing the flag.                                   *)
StatusHonest ==
    start = "ok" /\ connected /\ ~closed => reader # "ended" \/ ~token

(* A request that waits and that nobody will ever answer (the reader is    *)
(* gone and left nothing in its channel) was registered after the reader   *)
(* had failed the pending requests of the lost connection, or the reader   *)
(* left at a challenge: no request registered in time is forgotten.        *)
ForgottenOnlyIfLate ==
    reader = "ended" /\ req.step = "waiting" /\ req.resp = <<>> => req.late \/ ~token

(* The registry lists exactly what its two sources last reported, however  *)
(* their reports interleave, and the sessions it lists are those of the    *)
(* last refresh that was completed.                                        *)
RegistryIsUnion ==
    /\ agents = UNION {sources[s] : s \in Sources}
    /\ sources["openclaw-gateway"] = openclawSessionsToAgents(lastSessions)

(* Adapter.Stop returns and the reader ends, whatever the client was doing *)
(* when the daemon shut down: a request that nobody will answer, a refresh *)
(* half done, a connection lost at the same moment.                        *)
StopReturns == (ctx /\ start = "ok") ~> (stop = "returned" /\ reader = "ended")

=============================================================================
