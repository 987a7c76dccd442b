------------------------------ MODULE Gateway ------------------------------
(***************************************************************************)
(* The client of the OpenClaw gateway and the adapter that owns it         *)
(* (internal/adapter/openclaw/client.go and openclaw.go): one websocket    *)
(* connection, the goroutine that reads it, the requests that wait for a   *)
(* reply, and Adapter.Start, refreshLoop and Adapter.Stop.                 *)
(*                                                                         *)
(* What a frame or a session list does to the rest of the daemon is in     *)
(* OpenClaw, which composes this module with Correlation and               *)
(* AgentRegistry.                                                          *)
(***************************************************************************)
EXTENDS Naturals, Sequences

CONSTANTS
    ReplyError,   \* the error of a request that failed
    Lists,        \* the session lists the gateway may answer with
    Events,       \* the chat and agent events the gateway may send
    MaxFrames,    \* bound: frames the gateway sends
    MaxRequests   \* bound: requests the client makes

ASSUME GatewayAssumption == MaxFrames \in Nat /\ MaxRequests \in Nat

VARIABLES
    token,        \* an api token is configured (Config.APIToken)
    sock,         \* the socket: "none", "open", "lost" (by the peer), "closed" (by us)
    inbox,        \* frames that arrived and were not read yet
    sent,         \* number of frames the gateway sent
    conn,         \* GatewayClient.conn is this connection
    connected,    \* GatewayClient.connected
    closed,       \* GatewayClient.closed
    reader,       \* readLoop: "none", "read", "failing", "clearing", "ended"
    helloPending, \* readLoop's local of that name
    helloCh,      \* the channel holds the hello
    errCh,        \* the channel holds an error
    pending,      \* GatewayClient.pending: requests that have a response channel
    req,          \* the one request under way
    asked,        \* requests that reached the gateway and were not answered
    start,        \* Adapter.Start: "idle", "await", "refresh", "ok", "failed"
    loop,         \* refreshLoop: "off", "wait", "refresh", "ended"
    ctx,          \* the daemon's context was cancelled
    stop          \* Adapter.Stop: "no", "failing", "waiting", "returned"

clientVars == <<conn, connected, closed>>
readerVars == <<reader, helloPending, helloCh, errCh>>
requestVars == <<pending, req, asked>>
threadVars == <<start, loop, ctx, stop>>
gatewayVars == <<token, sock, inbox, sent, clientVars, readerVars, requestVars, threadVars>>

(* The steps of request(): nothing under way, the check of conn and        *)
(* connected passed, registered in pending, written; then the steps of     *)
(* refreshSessions: the cache replaced, the sessions recorded.             *)
ReqSteps == {"none", "checked", "registered", "waiting", "cached", "recorded"}

(* resp is the response channel: empty, or holding a list or an error.     *)
(* late: the request was registered after the reader had failed the        *)
(* pending ones.                                                           *)
NoRequest == [step |-> "none", id |-> 0, resp |-> <<>>, late |-> FALSE]

(* A frame of the gateway: the handshake, a frame that is not JSON, one    *)
(* whose event or response does not decode, or a payload.                  *)
Handshake == {[kind |-> k] : k \in {"hello", "helloRes", "challenge", "notJSON", "undecodable"}}
EventFrames == {[kind |-> "event", event |-> e] : e \in Events}
Replies(ids) == [kind : {"res"}, id : ids, list : Lists \cup {ReplyError}]

GatewayInit ==
    /\ token \in BOOLEAN
    /\ sock = "none" /\ inbox = <<>> /\ sent = 0
    /\ conn = FALSE /\ connected = FALSE /\ closed = FALSE
    /\ reader = "none" /\ helloPending = TRUE /\ helloCh = FALSE /\ errCh = FALSE
    /\ pending = {} /\ req = NoRequest /\ asked = {}
    /\ start = "idle" /\ loop = "off" /\ ctx = FALSE /\ stop = "no"

----------------------------------------------------------------------------
(* The gateway and the network (external).                                 *)

GatewaySend ==
    /\ sock = "open" /\ sent < MaxFrames
    /\ sent' = sent + 1
    /\ \/ \E f \in Handshake \cup EventFrames :
            inbox' = Append(inbox, f) /\ UNCHANGED asked
       \/ \E f \in Replies(asked) :
            inbox' = Append(inbox, f) /\ asked' = asked \ {f.id}
    /\ UNCHANGED <<token, sock, clientVars, readerVars, pending, req, threadVars>>

(* A closed connection still yields the frames that were already buffered: *)
(* some prefix of those under way.                                         *)
Buffered == \E n \in 0 .. Len(inbox) : inbox' = SubSeq(inbox, 1, n)

ConnectionLost ==
    /\ sock = "open"
    /\ sock' = "lost" /\ Buffered
    /\ UNCHANGED <<token, sent, clientVars, readerVars, requestVars, threadVars>>

CloseSocket ==
    IF sock = "open" THEN sock' = "closed" /\ Buffered
    ELSE sock' = "closed" /\ UNCHANGED inbox

----------------------------------------------------------------------------
(* GatewayClient.Connect, called by Adapter.Start.                         *)

Dial ==
    /\ start = "idle" /\ ~closed
    /\ \/ start' = "failed" /\ UNCHANGED <<sock, clientVars, reader>>
       \/ /\ ~ctx /\ start' = "await" /\ sock' = "open" /\ reader' = "read"
          /\ conn' = TRUE /\ connected' = FALSE /\ UNCHANGED closed
    /\ UNCHANGED <<token, inbox, sent, helloPending, helloCh, errCh, requestVars, loop, ctx, stop>>

ConnectHello ==
    /\ start = "await" /\ helloCh
    /\ helloCh' = FALSE /\ start' = "refresh"
    /\ UNCHANGED <<token, sock, inbox, sent, clientVars, reader, helloPending, errCh, requestVars, loop, ctx, stop>>

ConnectError ==
    /\ start = "await" /\ errCh
    /\ errCh' = FALSE /\ start' = "failed" /\ CloseSocket
    /\ conn' = FALSE
    /\ connected' = IF conn THEN FALSE ELSE connected
    /\ UNCHANGED <<token, sent, closed, reader, helloPending, helloCh, requestVars, loop, ctx, stop>>

ConnectCancelled ==
    /\ start = "await" /\ ctx
    /\ start' = "failed" /\ CloseSocket
    /\ UNCHANGED <<token, sent, clientVars, readerVars, requestVars, loop, ctx, stop>>

----------------------------------------------------------------------------
(* readLoop. A send on the full errCh blocks the reader: the step is not   *)
(* enabled then.                                                           *)

SendError == /\ helloPending => ~errCh
             /\ errCh' = (errCh \/ helloPending)

HasFrame(kind) == reader = "read" /\ inbox # <<>> /\ Head(inbox).kind = kind

Resume == inbox' = Tail(inbox) /\ UNCHANGED <<token, sock, sent, asked, threadVars>>

ReadHello ==
    /\ HasFrame("hello") \/ HasFrame("helloRes")
    /\ IF helloPending \/ Head(inbox).kind = "hello"
       THEN connected' = TRUE ELSE UNCHANGED connected
    /\ helloCh' = (helloCh \/ helloPending)
    /\ helloPending' = FALSE
    /\ Resume /\ UNCHANGED <<conn, closed, reader, errCh, pending, req>>

ReadNotJSON ==
    /\ HasFrame("notJSON")
    /\ SendError
    /\ Resume /\ UNCHANGED <<clientVars, reader, helloPending, helloCh, pending, req>>

ReadUndecodable ==
    /\ HasFrame("undecodable")
    /\ SendError /\ helloPending' = FALSE
    /\ Resume /\ UNCHANGED <<clientVars, reader, helloCh, pending, req>>

(* Without a token the reader closes the connection and returns, leaving   *)
(* conn, connected and the pending requests as they are; with one, the     *)
(* answer may fail to be written.                                          *)
ReadChallenge ==
    /\ HasFrame("challenge")
    /\ IF ~token
       THEN /\ SendError /\ reader' = "ended"
            /\ sock' = "closed" /\ inbox' = <<>>
            /\ UNCHANGED helloPending
       ELSE /\ \/ sock \in {"open", "lost"} /\ UNCHANGED <<errCh, helloPending>>
               \/ sock # "open" /\ SendError /\ helloPending' = FALSE
            /\ inbox' = Tail(inbox) /\ UNCHANGED <<sock, reader>>
    /\ UNCHANGED <<token, sent, clientVars, helloCh, requestVars, threadVars>>

(* The frame is handed to the adapter's callback (handleEvent of OpenClaw) *)
(* before the next one is read.                                            *)
ReadEvent ==
    /\ HasFrame("event")
    /\ Resume /\ UNCHANGED <<clientVars, readerVars, pending, req>>

(* resolvePending: a reply whose request was given up is ignored.          *)
ReadReply ==
    /\ HasFrame("res")
    /\ LET f == Head(inbox) IN
       IF f.id \in pending
       THEN /\ pending' = pending \ {f.id}
            /\ req' = [req EXCEPT !.resp = <<f.list>>]
       ELSE UNCHANGED <<pending, req>>
    /\ Resume /\ UNCHANGED <<clientVars, readerVars>>

(* A read error: reported while the hello is awaited, then the pending     *)
(* requests are failed, then conn is cleared, each under its own lock.     *)
ReadError ==
    /\ reader = "read" /\ inbox = <<>> /\ sock \in {"lost", "closed"}
    /\ SendError /\ reader' = "failing"
    /\ UNCHANGED <<token, sock, inbox, sent, clientVars, helloPending, helloCh, requestVars, threadVars>>

Fail(waiters) ==
    /\ pending' = {}
    /\ req' = IF req.id \in waiters THEN [req EXCEPT !.resp = <<ReplyError>>] ELSE req

\* Mutant: the waiting requests are left alone.
FailNobody ==
    /\ reader = "failing"
    /\ reader' = "clearing" /\ UNCHANGED <<pending, req>>
    /\ UNCHANGED <<token, sock, inbox, sent, clientVars, helloPending, helloCh, errCh, asked, threadVars>>

FailPending ==
    /\ reader = "failing"
    /\ reader' = "clearing" /\ Fail(pending)
    /\ UNCHANGED <<token, sock, inbox, sent, clientVars, helloPending, helloCh, errCh, asked, threadVars>>

\* Mutant: the flag survives the connection.
ClearConnOnly ==
    /\ reader = "clearing"
    /\ reader' = "ended"
    /\ conn' = FALSE
    /\ UNCHANGED <<token, sock, inbox, sent, connected, closed, helloPending, helloCh, errCh, requestVars, threadVars>>

ClearConn ==
    /\ reader = "clearing"
    /\ reader' = "ended"
    /\ conn' = FALSE
    /\ connected' = IF conn THEN FALSE ELSE connected
    /\ UNCHANGED <<token, sock, inbox, sent, closed, helloPending, helloCh, errCh, requestVars, threadVars>>

----------------------------------------------------------------------------
(* request() and refreshSessions, run by Start and then by refreshLoop.    *)

Refreshing == start = "refresh" \/ loop = "refresh"

(* What the caller of refreshSessions does with its result: Start returns  *)
(* an error or starts the loop, the loop ignores the error.                *)
Refreshed(ok) ==
    /\ req' = [NoRequest EXCEPT !.id = req.id]
    /\ IF start = "refresh"
       THEN IF ok THEN start' = "ok" /\ loop' = "wait"
            ELSE start' = "failed" /\ UNCHANGED loop
       ELSE loop' = "wait" /\ UNCHANGED start

ReqCheck ==
    /\ Refreshing /\ req.step = "none" /\ req.id < MaxRequests
    /\ IF conn /\ connected
       THEN req' = [req EXCEPT !.step = "checked", !.id = @ + 1] /\ UNCHANGED <<start, loop>>
       ELSE Refreshed(FALSE)
    /\ UNCHANGED <<token, sock, inbox, sent, clientVars, readerVars, pending, asked, ctx, stop>>

ReqRegister ==
    /\ req.step = "checked"
    /\ pending' = pending \cup {req.id}
    /\ req' = [req EXCEPT !.step = "registered", !.late = reader \in {"clearing", "ended"}]
    /\ UNCHANGED <<token, sock, inbox, sent, clientVars, readerVars, asked, threadVars>>

(* A write on a connection the peer has dropped may still succeed.         *)
ReqWrite ==
    /\ req.step = "registered"
    /\ \/ /\ sock \in {"open", "lost"}
          /\ req' = [req EXCEPT !.step = "waiting"]
          /\ asked' = IF sock = "open" THEN asked \cup {req.id} ELSE asked
          /\ UNCHANGED <<pending, start, loop>>
       \/ /\ sock \in {"lost", "closed"}
          /\ pending' = pending \ {req.id}
          /\ Refreshed(FALSE) /\ UNCHANGED asked
    /\ UNCHANGED <<token, sock, inbox, sent, clientVars, readerVars, ctx, stop>>

(* The reply arrived: an error, or a list that SessionCache.Refresh makes  *)
(* the cache (RefreshCache of OpenClaw).                                   *)
ReqReturn ==
    /\ req.step = "waiting" /\ req.resp # <<>>
    /\ IF req.resp[1] = ReplyError
       THEN Refreshed(FALSE)
       ELSE req' = [req EXCEPT !.step = "cached"] /\ UNCHANGED <<start, loop>>
    /\ UNCHANGED <<token, sock, inbox, sent, clientVars, readerVars, pending, asked, ctx, stop>>

ReqCancelled ==
    /\ req.step = "waiting" /\ ctx
    /\ pending' = pending \ {req.id} /\ Refreshed(FALSE)
    /\ UNCHANGED <<token, sock, inbox, sent, clientVars, readerVars, asked, ctx, stop>>

(* The two steps refreshSessions takes after the cache was replaced.       *)
RecordSessions ==
    /\ req.step = "cached"
    /\ req' = [req EXCEPT !.step = "recorded"]
    /\ UNCHANGED <<token, sock, inbox, sent, clientVars, readerVars, pending, asked, threadVars>>

ObserveSessions ==
    /\ req.step = "recorded"
    /\ Refreshed(TRUE)
    /\ UNCHANGED <<token, sock, inbox, sent, clientVars, readerVars, pending, asked, ctx, stop>>

RefreshTick ==
    /\ loop = "wait" /\ req.id < MaxRequests
    /\ loop' = "refresh"
    /\ UNCHANGED <<token, sock, inbox, sent, clientVars, readerVars, requestVars, start, ctx, stop>>

LoopEnds ==
    /\ loop = "wait" /\ ctx
    /\ loop' = "ended"
    /\ UNCHANGED <<token, sock, inbox, sent, clientVars, readerVars, requestVars, start, ctx, stop>>

----------------------------------------------------------------------------
(* Shutdown: the daemon's context is cancelled, and Adapter.Stop runs if   *)
(* Start had succeeded (daemon.go:219-227).                                *)

Shutdown ==
    /\ ~ctx /\ ctx' = TRUE
    /\ UNCHANGED <<token, sock, inbox, sent, clientVars, readerVars, requestVars, start, loop, stop>>

\* Mutant: Close forgets the connection without closing it.
StopForgets ==
    /\ ctx /\ start = "ok" /\ stop = "no"
    /\ stop' = "failing"
    /\ closed' = TRUE /\ conn' = FALSE /\ connected' = FALSE
    /\ UNCHANGED <<sock, inbox>>
    /\ UNCHANGED <<token, sent, readerVars, requestVars, start, loop, ctx>>

StopClient ==
    /\ ctx /\ start = "ok" /\ stop = "no"
    /\ stop' = "failing"
    /\ closed' = TRUE /\ conn' = FALSE /\ connected' = FALSE
    /\ IF conn THEN CloseSocket ELSE UNCHANGED <<sock, inbox>>
    /\ UNCHANGED <<token, sent, readerVars, requestVars, start, loop, ctx>>

StopFailPending ==
    /\ stop = "failing"
    /\ stop' = "waiting" /\ Fail(pending)
    /\ UNCHANGED <<token, sock, inbox, sent, clientVars, readerVars, asked, start, loop, ctx>>

StopReturned ==
    /\ stop = "waiting" /\ loop = "ended"
    /\ stop' = "returned"
    /\ UNCHANGED <<token, sock, inbox, sent, clientVars, readerVars, requestVars, start, loop, ctx>>

============================================================================
