--------------------------- MODULE OpenClawProofs ---------------------------
(***************************************************************************)
(* Theorems about OpenClaw: the status of the connection, the requests     *)
(* that are waited for and the registry of agents, for any number of       *)
(* frames and requests, any session lists and any interleaving of the      *)
(* reader, the requester, Stop, the gateway and the scanner.               *)
(***************************************************************************)
EXTENDS OpenClaw, SequenceTheorems, WellFoundedInduction, TLAPS

Frames == Handshake \cup EventFrames \cup Replies(Nat)
Answers == {<<r>> : r \in Lists \cup {ReplyError}}

\* The request is a record with these four fields.
ReqType(r) ==
  /\ r = [step |-> r.step, id |-> r.id, resp |-> r.resp, late |-> r.late]
  /\ r.step \in ReqSteps /\ r.id \in Nat /\ r.resp \in {<<>>} \cup Answers

\* The flags are left out: they are only assigned truth values.
TypeOK ==
  /\ sock \in {"none", "open", "lost", "closed"}
  /\ inbox \in Seq(Frames) /\ sent \in Nat
  /\ reader \in {"none", "read", "failing", "clearing", "ended"}
  /\ pending \in SUBSET Nat /\ asked \in SUBSET Nat
  /\ ReqType(req)
  /\ start \in {"idle", "await", "refresh", "ok", "failed"}
  /\ loop \in {"off", "wait", "refresh", "ended"}
  /\ stop \in {"no", "failing", "waiting", "returned"}

\* A response channel is registered exactly while its request is unanswered.
Unanswered == req.step \in {"registered", "waiting"} /\ req.resp = <<>>
PendingInv ==
  /\ pending = IF Unanswered THEN {req.id} ELSE {}
  /\ req.step \in {"none", "checked"} => req.resp = <<>>

\* Once the reader has failed the pending requests, only a request that came
\* later, or one on a connection given up at a challenge, is still registered.
LateInv ==
  reader \in {"clearing", "ended"} /\ pending # {} => req.late \/ ~token

\* The reader starts with Connect and, before the connection is closed or
\* refused, is the only one to forget it; having forgotten it, the flag is off.
FlagInv ==
  /\ start = "idle" => reader = "none"
  /\ ~conn => start \in {"idle", "failed"} \/ closed \/ reader = "ended"
  /\ reader = "ended" => ~token \/ start = "failed" \/ closed \/ ~connected

\* A list that was cached or recorded is one the gateway sent.
AnswerInv ==
  req.step \in {"cached", "recorded"} => \E list \in Lists : req.resp = <<list>>

\* Each source reports ids of its own kind.
SourceInv ==
  /\ DOMAIN sources = Sources /\ sources = [s \in Sources |-> sources[s]]
  /\ sources["scanner"] \subseteq Scanned
  /\ lastSessions \in Lists \cup {EmptyMap}

RegistryInv == SourceInv /\ RegistryIsUnion

(***************************************************************************)
(* The steps of the gateway client                                         *)
(***************************************************************************)
\* Whatever the rest of the integration does, the gateway client makes one of
\* its own steps or none.
ConnectSteps == Dial \/ ConnectHello \/ ConnectError \/ ConnectCancelled
ReaderSteps == \/ ReadHello \/ ReadNotJSON \/ ReadUndecodable \/ ReadChallenge \/ ReadEvent
               \/ ReadReply \/ ReadError \/ FailPending \/ ClearConn
RequestSteps == \/ ReqCheck \/ ReqRegister \/ ReqWrite \/ ReqReturn \/ ReqCancelled
                \/ RecordSessions \/ ObserveSessions
OtherSteps == \/ RefreshTick \/ LoopEnds \/ Shutdown \/ StopClient \/ StopFailPending
              \/ StopReturned \/ GatewaySend \/ ConnectionLost

LEMMA GatewayMoves ==
  ASSUME [Next]_vars
  PROVE  ConnectSteps \/ ReaderSteps \/ RequestSteps \/ OtherSteps \/ UNCHANGED gatewayVars
  BY DEF Next, Connect, ReadFrame, ReadEventFrame, Request, RefreshCache, RefreshStore,
         RefreshRegistry, RefreshLoop, Stop, GatewaySteps, Scan, Forward, vars,
         ConnectSteps, ReaderSteps, RequestSteps, OtherSteps

LEMMA InboxMoves ==
  ASSUME TypeOK
  PROVE  /\ inbox # <<>> => Head(inbox) \in Frames /\ Tail(inbox) \in Seq(Frames)
         /\ Buffered => inbox' \in Seq(Frames)
         /\ CloseSocket => inbox' \in Seq(Frames) /\ sock' = "closed"
<1>1. inbox \in Seq(Frames)
  BY DEF TypeOK
<1>2. inbox # <<>> => Head(inbox) \in Frames /\ Tail(inbox) \in Seq(Frames)
  BY <1>1
<1>3. ASSUME Buffered  PROVE inbox' \in Seq(Frames)
  <2>1. PICK n \in 0 .. Len(inbox) : inbox' = SubSeq(inbox, 1, n)
    BY <1>3 DEF Buffered
  <2>2. \A i \in 1..n : inbox[i] \in Frames
    BY <1>1
  <2> QED BY <1>1, <2>1, <2>2, SubSeqProperties
<1> QED BY <1>1, <1>2, <1>3 DEF CloseSocket

\* A reply carries the number of a request and a list or an error.
LEMMA ReplyFrame ==
  ASSUME TypeOK, HasFrame("res")
  PROVE  Head(inbox).id \in Nat /\ <<Head(inbox).list>> \in Answers
<1>1. inbox # <<>> /\ Head(inbox) \in Frames /\ Head(inbox).kind = "res"
  BY InboxMoves DEF HasFrame
<1>2. Head(inbox) \notin Handshake /\ Head(inbox) \notin EventFrames
  BY <1>1 DEF Handshake, EventFrames
<1>3. Head(inbox) \in Replies(Nat)
  BY <1>1, <1>2 DEF Frames
<1> QED BY <1>3 DEF Replies, Answers

\* What the steps of a request leave of it.
LEMMA RequestMoves ==
  ASSUME ReqType(req)
  PROVE  /\ \A ok \in BOOLEAN : Refreshed(ok) =>
              /\ req' = [step |-> "none", id |-> req.id, resp |-> <<>>, late |-> FALSE]
              /\ ReqType(req')
         /\ \A S : Fail(S) => pending' = {} /\ ReqType(req')
                           /\ req'.step = req.step /\ req'.id = req.id /\ req'.late = req.late
                           /\ req'.resp = IF req.id \in S THEN <<ReplyError>> ELSE req.resp
<1>1. ASSUME NEW ok \in BOOLEAN, Refreshed(ok)
      PROVE  /\ req' = [step |-> "none", id |-> req.id, resp |-> <<>>, late |-> FALSE]
             /\ ReqType(req')
  <2>1. req' = [step |-> "none", id |-> req.id, resp |-> <<>>, late |-> FALSE]
    BY <1>1 DEF Refreshed, NoRequest
  <2> QED BY <2>1 DEF ReqType, ReqSteps
<1>2. ASSUME NEW S, Fail(S)
      PROVE  /\ pending' = {} /\ ReqType(req')
             /\ req'.step = req.step /\ req'.id = req.id /\ req'.late = req.late
             /\ req'.resp = IF req.id \in S THEN <<ReplyError>> ELSE req.resp
  BY <1>2 DEF ReqType, Fail, Answers
<1> QED BY <1>1, <1>2

LEMMA TypeStep ==
  ASSUME TypeOK, [Next]_vars
  PROVE  TypeOK'
<1>1. CASE Dial
  BY <1>1 DEF Dial, TypeOK, clientVars, readerVars, requestVars, threadVars
<1>2. CASE ConnectHello
  BY <1>2 DEF ConnectHello, TypeOK, clientVars, readerVars, requestVars, threadVars
<1>3. CASE ConnectError
  BY <1>3, InboxMoves DEF ConnectError, TypeOK, clientVars, readerVars, requestVars, threadVars
<1>4. CASE ConnectCancelled
  BY <1>4, InboxMoves DEF ConnectCancelled, TypeOK, clientVars, readerVars, requestVars, threadVars
<1>5. CASE ReadHello
  BY <1>5, InboxMoves DEF ReadHello, HasFrame, Resume, TypeOK, clientVars, readerVars, requestVars, threadVars
<1>6. CASE ReadNotJSON
  BY <1>6, InboxMoves DEF ReadNotJSON, HasFrame, Resume, SendError, TypeOK, clientVars, readerVars, requestVars, threadVars
<1>7. CASE ReadUndecodable
  BY <1>7, InboxMoves DEF ReadUndecodable, HasFrame, Resume, SendError, TypeOK, clientVars, readerVars, requestVars, threadVars
<1>8. CASE ReadChallenge
  <2>1. inbox' = <<>> \/ (inbox' = Tail(inbox) /\ inbox # <<>>)
    BY <1>8 DEF ReadChallenge, HasFrame
  <2>2. inbox' \in Seq(Frames)
    <3>1. CASE inbox' = <<>>
      BY <3>1
    <3>2. CASE inbox' = Tail(inbox) /\ inbox # <<>>
      BY <3>2, InboxMoves
    <3> QED BY <2>1, <3>1, <3>2
  <2>3. sock' \in {sock, "closed"} /\ reader' \in {reader, "ended"}
    <3>1. CASE token
      BY <1>8, <3>1 DEF ReadChallenge
    <3>2. CASE ~token
      BY <1>8, <3>2 DEF ReadChallenge
    <3> QED BY <3>1, <3>2
  <2>4. UNCHANGED <<sent, requestVars, threadVars>>
    BY <1>8 DEF ReadChallenge
  <2> QED BY <2>2, <2>3, <2>4 DEF TypeOK, requestVars, threadVars
<1>9. CASE ReadEvent
  BY <1>9, InboxMoves DEF ReadEvent, HasFrame, Resume, TypeOK, clientVars, readerVars, requestVars, threadVars
<1>10. CASE ReadReply
  BY <1>10, InboxMoves, ReplyFrame DEF ReadReply, HasFrame, Resume, TypeOK, ReqType, ReqSteps, clientVars, readerVars, requestVars, threadVars
<1>11. CASE ReadError
  BY <1>11 DEF ReadError, SendError, TypeOK, clientVars, readerVars, requestVars, threadVars
<1>12. CASE FailPending
  BY <1>12, RequestMoves DEF FailPending, TypeOK, clientVars, readerVars, requestVars, threadVars
<1>13. CASE ClearConn
  BY <1>13 DEF ClearConn, TypeOK, clientVars, readerVars, requestVars, threadVars
<1>14. CASE ReqCheck
  <2>1. UNCHANGED <<sock, inbox, sent, reader, pending, asked, stop>>
    BY <1>14 DEF ReqCheck, readerVars
  <2>2. \/ req' = [req EXCEPT !.step = "checked", !.id = @ + 1] /\ UNCHANGED <<start, loop>>
        \/ Refreshed(FALSE)
    BY <1>14 DEF ReqCheck
  <2>3. CASE req' = [req EXCEPT !.step = "checked", !.id = @ + 1] /\ UNCHANGED <<start, loop>>
    <3>1. req.id + 1 \in Nat /\ ReqType(req)
      BY DEF TypeOK, ReqType
    <3>2. req' = [step |-> "checked", id |-> req.id + 1, resp |-> req.resp, late |-> req.late]
      BY <2>3, <3>1 DEF ReqType
    <3>3. ReqType(req')
      BY <3>1, <3>2 DEF ReqType, ReqSteps
    <3> QED BY <2>1, <2>3, <3>3 DEF TypeOK
  <2>4. CASE Refreshed(FALSE)
    <3>1. ReqType(req')
      BY <2>4, RequestMoves DEF TypeOK
    <3>2. start' \in {start, "failed"} /\ loop' \in {loop, "wait"}
      BY <2>4 DEF Refreshed
    <3> QED BY <2>1, <3>1, <3>2 DEF TypeOK
  <2> QED BY <2>2, <2>3, <2>4
<1>15. CASE ReqRegister
  BY <1>15 DEF ReqRegister, TypeOK, ReqType, ReqSteps, clientVars, readerVars, requestVars, threadVars
<1>16. CASE ReqWrite
  BY <1>16, RequestMoves DEF ReqWrite, TypeOK, ReqType, ReqSteps, Refreshed, NoRequest, clientVars, readerVars, requestVars, threadVars
<1>17. CASE ReqReturn
  BY <1>17, RequestMoves DEF ReqReturn, TypeOK, ReqType, ReqSteps, Refreshed, NoRequest, clientVars, readerVars, requestVars, threadVars
<1>18. CASE ReqCancelled
  BY <1>18, RequestMoves DEF ReqCancelled, TypeOK, ReqType, ReqSteps, Refreshed, NoRequest, clientVars, readerVars, requestVars, threadVars
<1>19. CASE RecordSessions
  BY <1>19 DEF RecordSessions, TypeOK, ReqType, ReqSteps, clientVars, readerVars, requestVars, threadVars
<1>20. CASE ObserveSessions
  BY <1>20, RequestMoves DEF ObserveSessions, TypeOK, ReqType, ReqSteps, Refreshed, NoRequest, clientVars, readerVars, requestVars, threadVars
<1>21. CASE RefreshTick
  BY <1>21 DEF RefreshTick, TypeOK, clientVars, readerVars, requestVars, threadVars
<1>22. CASE LoopEnds
  BY <1>22 DEF LoopEnds, TypeOK, clientVars, readerVars, requestVars, threadVars
<1>23. CASE Shutdown
  BY <1>23 DEF Shutdown, TypeOK, clientVars, readerVars, requestVars, threadVars
<1>24. CASE StopClient
  BY <1>24, InboxMoves DEF StopClient, TypeOK, clientVars, readerVars, requestVars, threadVars
<1>25. CASE StopFailPending
  BY <1>25, RequestMoves DEF StopFailPending, TypeOK, clientVars, readerVars, requestVars, threadVars
<1>26. CASE StopReturned
  BY <1>26 DEF StopReturned, TypeOK, clientVars, readerVars, requestVars, threadVars
<1>27. CASE GatewaySend
  <2>1. inbox \in Seq(Frames) /\ asked \in SUBSET Nat /\ sent \in Nat
    BY DEF TypeOK
  <2>2. PICK f : inbox' = Append(inbox, f) /\ (asked' = asked \/ asked' = asked \ {f.id})
                 /\ f \in Handshake \cup EventFrames \cup Replies(asked)
    BY <1>27 DEF GatewaySend
  <2>3. f \in Frames
    BY <2>1, <2>2 DEF Frames, Replies
  <2>4. inbox' \in Seq(Frames)
    BY <2>1, <2>2, <2>3
  <2>5. asked' \in SUBSET Nat
    BY <2>1, <2>2
  <2>6. sent' \in Nat
    BY <1>27, <2>1 DEF GatewaySend
  <2> QED BY <1>27, <2>4, <2>5, <2>6 DEF GatewaySend, TypeOK, clientVars, readerVars, threadVars
<1>28. CASE ConnectionLost
  BY <1>28, InboxMoves DEF ConnectionLost, TypeOK, clientVars, readerVars, requestVars, threadVars
<1>29. CASE UNCHANGED gatewayVars
  BY <1>29 DEF gatewayVars, TypeOK, clientVars, readerVars, requestVars, threadVars
<1> QED
  BY GatewayMoves, <1>1, <1>2, <1>3, <1>4, <1>5, <1>6, <1>7, <1>8, <1>9, <1>10, <1>11, <1>12, <1>13, <1>14, <1>15, <1>16, <1>17, <1>18, <1>19, <1>20, <1>21, <1>22, <1>23, <1>24, <1>25, <1>26, <1>27, <1>28, <1>29
     DEF ConnectSteps, ReaderSteps, RequestSteps, OtherSteps

(***************************************************************************)
(* The requests                                                            *)
(***************************************************************************)
RequestMoved == ReadReply \/ FailPending \/ StopFailPending \/ RequestSteps

LEMMA RequestKept ==
  ASSUME [Next]_vars
  PROVE  RequestMoved \/ UNCHANGED <<pending, req>>
<1>1. CASE ConnectSteps
  BY <1>1 DEF ConnectSteps, Dial, ConnectHello, ConnectError, ConnectCancelled, requestVars
<1>2. CASE ReaderSteps
  BY <1>2 DEF ReaderSteps, RequestMoved, ReadHello, ReadNotJSON, ReadUndecodable, ReadChallenge,
              ReadEvent, ReadError, ClearConn, requestVars
<1>3. CASE OtherSteps
  BY <1>3 DEF OtherSteps, RequestMoved, RefreshTick, LoopEnds, Shutdown, StopClient,
              StopReturned, GatewaySend, ConnectionLost, requestVars
<1> QED
  BY <1>1, <1>2, <1>3, GatewayMoves DEF RequestMoved, gatewayVars, requestVars

\* A reply, a lost connection and a stop answer the request that is registered;
\* its requester takes it out itself when it gives up.
LEMMA PendingStep ==
  ASSUME TypeOK, PendingInv, AnswerInv, [Next]_vars
  PROVE  PendingInv' /\ AnswerInv'
<1> USE DEF PendingInv, AnswerInv, Unanswered
<1>0. ReqType(req)
  BY DEF TypeOK
<1>1. CASE ReadReply
  <2> DEFINE f == Head(inbox)
  <2>1. <<f.list>> \in Answers /\ <<f.list>> # <<>>
    BY <1>1, ReplyFrame DEF ReadReply
  <2>2. CASE f.id \in pending
    <3>1. Unanswered /\ pending' = {} /\ req' = [req EXCEPT !.resp = <<f.list>>]
      BY <1>1, <2>2 DEF ReadReply
    <3>2. req'.step = req.step /\ req'.resp = <<f.list>>
      BY <1>0, <3>1 DEF ReqType
    <3> QED BY <2>1, <3>1, <3>2
  <2>3. CASE f.id \notin pending
    BY <1>1, <2>3 DEF ReadReply
  <2> QED BY <2>2, <2>3
<1>2. CASE FailPending \/ StopFailPending
  <2>1. Fail(pending)
    BY <1>2 DEF FailPending, StopFailPending
  <2>2. /\ pending' = {} /\ req'.step = req.step /\ req'.id = req.id
        /\ req'.resp = IF req.id \in pending THEN <<ReplyError>> ELSE req.resp
    BY <1>0, <2>1, RequestMoves
  <2> QED BY <2>2
<1>3. ASSUME NEW ok \in BOOLEAN, Refreshed(ok), pending' = {}
      PROVE  PendingInv' /\ AnswerInv'
  <2>1. req' = [step |-> "none", id |-> req.id, resp |-> <<>>, late |-> FALSE]
    BY <1>0, <1>3, RequestMoves
  <2> QED BY <1>3, <2>1
<1>4. CASE ReqCheck
  <2>1. pending' = {} /\ req.step = "none" /\ pending = {}
    BY <1>4 DEF ReqCheck
  <2>2. Refreshed(FALSE) \/ req' = [req EXCEPT !.step = "checked", !.id = @ + 1]
    BY <1>4 DEF ReqCheck
  <2>3. CASE req' = [req EXCEPT !.step = "checked", !.id = @ + 1]
    <3>1. req'.step = "checked" /\ req'.resp = req.resp
      BY <1>0, <2>3 DEF ReqType
    <3> QED BY <2>1, <3>1
  <2> QED BY <1>3, <2>1, <2>2, <2>3
<1>5. CASE ReqRegister
  <2>1. /\ req.step = "checked" /\ pending' = pending \cup {req.id}
        /\ req'.step = "registered" /\ req'.id = req.id /\ req'.resp = req.resp
    BY <1>0, <1>5 DEF ReqRegister, ReqType
  <2> QED BY <2>1
<1>6. CASE ReqWrite
  <2>1. req.step = "registered"
    BY <1>6 DEF ReqWrite
  <2>2. CASE req' = [req EXCEPT !.step = "waiting"] /\ pending' = pending
    <3>1. req'.step = "waiting" /\ req'.id = req.id /\ req'.resp = req.resp
      BY <1>0, <2>2 DEF ReqType
    <3> QED BY <2>1, <2>2, <3>1
  <2>3. CASE Refreshed(FALSE) /\ pending' = pending \ {req.id}
    BY <1>3, <2>3
  <2> QED BY <1>6, <2>2, <2>3 DEF ReqWrite
<1>7. CASE ReqReturn
  <2>1. req.step = "waiting" /\ req.resp # <<>> /\ pending' = {}
    BY <1>7 DEF ReqReturn
  <2>2. CASE req.resp[1] = ReplyError
    BY <1>3, <1>7, <2>1, <2>2 DEF ReqReturn
  <2>3. CASE req.resp[1] # ReplyError
    <3>1. req'.step = "cached" /\ req'.resp = req.resp
      BY <1>0, <1>7, <2>3 DEF ReqReturn, ReqType
    <3>2. PICK r \in Lists \cup {ReplyError} : req.resp = <<r>>
      BY <1>0, <2>1 DEF ReqType, Answers
    <3>3. r \in Lists
      BY <2>3, <3>2
    <3> QED BY <2>1, <3>1, <3>2, <3>3
  <2> QED BY <2>2, <2>3
<1>8. CASE ReqCancelled
  <2>1. Refreshed(FALSE) /\ pending' = {}
    BY <1>8 DEF ReqCancelled
  <2> QED BY <1>3, <2>1
<1>9. CASE RecordSessions
  <2>1. req.step = "cached" /\ pending' = {} /\ req'.step = "recorded" /\ req'.resp = req.resp
    BY <1>0, <1>9 DEF RecordSessions, ReqType
  <2> QED BY <2>1
<1>10. CASE ObserveSessions
  <2>1. Refreshed(TRUE) /\ pending' = {}
    BY <1>10 DEF ObserveSessions
  <2> QED BY <1>3, <2>1
<1>11. CASE UNCHANGED <<pending, req>>
  BY <1>11
<1> QED
  BY RequestKept, <1>1, <1>2, <1>4, <1>5, <1>6, <1>7, <1>8, <1>9, <1>10, <1>11
     DEF RequestMoved, RequestSteps

(***************************************************************************)
(* The reader                                                              *)
(***************************************************************************)
\* The ways the reader moves. Only a challenge without a token lets it end
\* without having failed the pending requests and cleared the connection.
LEMMA ReaderMoves ==
  ASSUME [Next]_vars
  PROVE  /\ token' = token
         /\ \/ UNCHANGED reader
            \/ Dial /\ reader' = "read"
            \/ reader = "read" /\ reader' = "failing"
            \/ reader = "read" /\ reader' = "ended" /\ ~token
            \/ FailPending /\ reader = "failing" /\ reader' = "clearing"
            \/ ClearConn /\ reader = "clearing" /\ reader' = "ended"
<1>1. CASE ConnectSteps
  BY <1>1 DEF ConnectSteps, Dial, ConnectHello, ConnectError, ConnectCancelled, readerVars
<1>2. CASE RequestSteps
  BY <1>2 DEF RequestSteps, ReqCheck, ReqRegister, ReqWrite, ReqReturn, ReqCancelled,
              RecordSessions, ObserveSessions, readerVars
<1>3. CASE OtherSteps
  BY <1>3 DEF OtherSteps, RefreshTick, LoopEnds, Shutdown, StopClient, StopFailPending,
              StopReturned, GatewaySend, ConnectionLost, readerVars
<1>4. CASE ReadHello \/ ReadNotJSON \/ ReadUndecodable \/ ReadEvent \/ ReadReply \/ ReadError
  BY <1>4 DEF ReadHello, ReadNotJSON, ReadUndecodable, ReadEvent, ReadReply, ReadError, Resume,
              HasFrame, readerVars
<1>5. CASE ReadChallenge
  <2>1. CASE token
    BY <1>5, <2>1 DEF ReadChallenge
  <2>2. CASE ~token
    BY <1>5, <2>2 DEF ReadChallenge, HasFrame
  <2> QED BY <2>1, <2>2
<1>6. CASE FailPending \/ ClearConn
  BY <1>6 DEF FailPending, ClearConn
<1> QED
  BY GatewayMoves, <1>1, <1>2, <1>3, <1>4, <1>5, <1>6 DEF ReaderSteps, gatewayVars, readerVars

\* FailPending empties the table, so what is in it afterwards was put there by
\* a registration that saw the reader on its way out.
LEMMA LateStep ==
  ASSUME TypeOK, PendingInv, LateInv, [Next]_vars
  PROVE  LateInv'
<1>0. ReqType(req)
  BY DEF TypeOK
<1>1. SUFFICES ASSUME reader' \in {"clearing", "ended"}, pending' # {}, token
      PROVE  req'.late
  BY ReaderMoves DEF LateInv
<1>2. ~FailPending /\ ~StopFailPending
  BY <1>0, <1>1, RequestMoves DEF FailPending, StopFailPending
<1>3. UNCHANGED reader \/ reader = "clearing"
  BY <1>1, <1>2, ReaderMoves
<1>4. reader \in {"clearing", "ended"}
  BY <1>1, <1>3
<1>5. CASE ReqRegister
  BY <1>0, <1>4, <1>5 DEF ReqRegister, ReqType
<1>6. CASE RequestMoved /\ ~ReqRegister
  <2>1. reader # "read"
    BY <1>4
  <2>2. ~ReadReply
    BY <2>1 DEF ReadReply, HasFrame
  <2>3. RequestSteps /\ ~ReqRegister
    BY <1>2, <1>6, <2>2 DEF RequestMoved
  <2>4. ReqWrite /\ req' = [req EXCEPT !.step = "waiting"] /\ pending' = pending
    <3>1. ~ReqCheck /\ ~ReqReturn /\ ~RecordSessions /\ ~ObserveSessions
      BY <1>1 DEF ReqCheck, ReqReturn, RecordSessions, ObserveSessions, PendingInv, Unanswered
    <3>2. ~ReqCancelled
      BY <1>1 DEF ReqCancelled, PendingInv
    <3>3. pending' # pending \ {req.id}
      BY <1>1 DEF PendingInv
    <3> QED BY <2>3, <3>1, <3>2, <3>3 DEF RequestSteps, ReqWrite
  <2>5. req.late /\ req'.late = req.late
    BY <1>0, <1>1, <1>4, <2>4 DEF LateInv, ReqType
  <2> QED BY <2>5
<1>7. CASE UNCHANGED <<pending, req>>
  BY <1>1, <1>4, <1>7 DEF LateInv
<1> QED BY RequestKept, <1>5, <1>6, <1>7

\* The steps that touch the connection, its flags or what Start has reached.
LEMMA FlagMoves ==
  ASSUME [Next]_vars
  PROVE  \/ Dial \/ ConnectHello \/ ConnectError \/ ConnectCancelled \/ StopClient \/ ClearConn
         \/ /\ UNCHANGED <<conn, closed>>
            /\ start' = start \/ (start = "refresh" /\ start' \in {"ok", "failed"})
            /\ connected' = connected \/ reader = "read"
<1>1. CASE ReadHello \/ ReadNotJSON \/ ReadUndecodable \/ ReadEvent \/ ReadReply
  BY <1>1 DEF ReadHello, ReadNotJSON, ReadUndecodable, ReadEvent, ReadReply, Resume, HasFrame,
              clientVars, threadVars
<1>2. CASE ReadChallenge \/ ReadError \/ FailPending
  BY <1>2 DEF ReadChallenge, ReadError, FailPending, clientVars, threadVars
<1>3. CASE RequestSteps
  BY <1>3 DEF RequestSteps, ReqCheck, ReqRegister, ReqWrite, ReqReturn, ReqCancelled,
              RecordSessions, ObserveSessions, Refreshed, clientVars, threadVars
<1>4. CASE OtherSteps
  BY <1>4 DEF OtherSteps, RefreshTick, LoopEnds, Shutdown, StopFailPending,
              StopReturned, GatewaySend, ConnectionLost, clientVars, threadVars
<1> QED
  BY GatewayMoves, <1>1, <1>2, <1>3, <1>4
     DEF ConnectSteps, ReaderSteps, gatewayVars, clientVars, threadVars

LEMMA FlagStep ==
  ASSUME TypeOK, FlagInv, [Next]_vars
  PROVE  FlagInv'
<1> USE DEF FlagInv
<1>1. CASE Dial
  BY <1>1, ReaderMoves DEF Dial, clientVars, readerVars
<1>2. CASE ConnectHello \/ ConnectCancelled
  BY <1>2 DEF ConnectHello, ConnectCancelled, clientVars, readerVars
<1>3. CASE ConnectError
  BY <1>3 DEF ConnectError
<1>4. CASE StopClient
  BY <1>4 DEF StopClient, readerVars
<1>5. CASE ClearConn
  <2>1. /\ reader = "clearing" /\ reader' = "ended" /\ conn' = FALSE
        /\ UNCHANGED <<token, closed, start>>
        /\ conn => connected' = FALSE
    BY <1>5 DEF ClearConn, threadVars
  <2>2. start # "idle"
    BY <2>1
  <2>3. conn \/ start = "failed" \/ closed
    BY <2>1, <2>2
  <2> QED BY <2>1, <2>2, <2>3
<1>6. CASE /\ UNCHANGED <<conn, closed>>
           /\ start' = start \/ (start = "refresh" /\ start' \in {"ok", "failed"})
           /\ connected' = connected \/ reader = "read"
           /\ ~Dial /\ ~ClearConn
  <2>1. \/ UNCHANGED reader
        \/ reader = "read" /\ reader' = "failing"
        \/ reader = "read" /\ reader' = "ended" /\ ~token
        \/ reader = "failing" /\ reader' = "clearing"
    BY <1>6, ReaderMoves
  <2>2. token' = token
    BY ReaderMoves
  <2>3. start' = "idle" => start = "idle" /\ reader = "none"
    BY <1>6
  <2>4. start = "failed" => start' = "failed"
    BY <1>6
  <2> QED BY <1>6, <2>1, <2>2, <2>3, <2>4
<1> QED BY FlagMoves, <1>1, <1>2, <1>3, <1>4, <1>5, <1>6

(***************************************************************************)
(* The registry                                                            *)
(***************************************************************************)
\* The agents of the gateway's sessions are none the scanner finds.
LEMMA AgentKinds ==
  ASSUME NEW list \in Lists \cup {EmptyMap}
  PROVE  openclawSessionsToAgents(list) \cap Scanned = {}
<1>1. CASE list \in Lists
  BY <1>1, OpenClawAssumption DEF openclawSessionsToAgents, agentOf
<1>2. CASE list = EmptyMap
  BY <1>2 DEF openclawSessionsToAgents, EmptyMap
<1> QED BY <1>1, <1>2

\* With two sources, what they report together.
LEMMA TwoSources ==
  ASSUME NEW f
  PROVE  UNION {f[s] : s \in Sources} = f["scanner"] \cup f["openclaw-gateway"]
  BY OpenClawAssumption

\* A report that is disjoint from what the other source reported replaces the
\* part of its source and nothing else.
LEMMA ReplaceStep ==
  ASSUME RegistryInv, NEW source \in Sources, NEW other \in Sources, source # other,
         NEW next, (next \cup sources[source]) \cap sources[other] = {},
         ReplaceSource(source, next)
  PROVE  /\ DOMAIN sources' = Sources /\ sources' = [s \in Sources |-> sources'[s]]
         /\ sources'[source] = next /\ sources'[other] = sources[other]
         /\ agents' = UNION {sources'[s] : s \in Sources}
<1>1. /\ sources' = [sources EXCEPT ![source] = next]
      /\ agents' = (agents \cup next) \ (sources[source] \ next)
  BY DEF ReplaceSource
<1>2. DOMAIN sources = Sources
  BY DEF RegistryInv, SourceInv
<1>3. sources'[source] = next /\ sources'[other] = sources[other] /\ DOMAIN sources' = Sources
  BY <1>1, <1>2
<1>4. sources' = [s \in Sources |-> sources'[s]]
  BY <1>1, <1>2
<1>5. \A f : UNION {f[s] : s \in Sources} = f[source] \cup f[other]
  BY OpenClawAssumption, TwoSources
<1>6. agents = sources[source] \cup sources[other]
  BY <1>5 DEF RegistryInv, RegistryIsUnion
<1>7. agents' = next \cup sources[other]
  BY <1>1, <1>6
<1> QED BY <1>3, <1>4, <1>5, <1>7

LEMMA RegistryStep ==
  ASSUME AnswerInv, RegistryInv, [Next]_vars
  PROVE  RegistryInv'
<1>0. /\ "scanner" \in Sources /\ "openclaw-gateway" \in Sources
      /\ sources["scanner"] \subseteq Scanned
      /\ sources["openclaw-gateway"] = openclawSessionsToAgents(lastSessions)
      /\ lastSessions \in Lists \cup {EmptyMap}
  BY OpenClawAssumption DEF RegistryInv, SourceInv, RegistryIsUnion
<1>1. CASE Scan
  <2>1. PICK found \in SUBSET Scanned : ReplaceSource("scanner", found)
    BY <1>1 DEF Scan
  <2>2. (found \cup sources["scanner"]) \cap sources["openclaw-gateway"] = {}
    BY <1>0, AgentKinds
  <2>3. /\ DOMAIN sources' = Sources /\ sources' = [s \in Sources |-> sources'[s]]
        /\ sources'["scanner"] = found
        /\ sources'["openclaw-gateway"] = sources["openclaw-gateway"]
        /\ agents' = UNION {sources'[s] : s \in Sources}
    BY <1>0, <2>1, <2>2, ReplaceStep
  <2>4. lastSessions' = lastSessions
    BY <1>1 DEF Scan
  <2> QED BY <1>0, <2>3, <2>4 DEF RegistryInv, SourceInv, RegistryIsUnion
<1>2. CASE RefreshRegistry
  <2>1. /\ req.step = "recorded"
        /\ ReplaceSource("openclaw-gateway", openclawSessionsToAgents(req.resp[1]))
        /\ lastSessions' = req.resp[1]
    BY <1>2 DEF RefreshRegistry, ObserveSessions, observeSessions
  <2>2. PICK list \in Lists : req.resp = <<list>>
    BY <2>1 DEF AnswerInv
  <2>3. req.resp[1] = list
    BY <2>2
  <2>4. openclawSessionsToAgents(list) \cap Scanned = {}
    BY AgentKinds
  <2>5. (openclawSessionsToAgents(list) \cup sources["openclaw-gateway"]) \cap sources["scanner"] = {}
    BY <1>0, <2>4, AgentKinds
  <2>6. /\ DOMAIN sources' = Sources /\ sources' = [s \in Sources |-> sources'[s]]
        /\ sources'["openclaw-gateway"] = openclawSessionsToAgents(list)
        /\ sources'["scanner"] = sources["scanner"]
        /\ agents' = UNION {sources'[s] : s \in Sources}
    BY <1>0, <2>1, <2>3, <2>5, ReplaceStep
  <2> QED BY <1>0, <2>1, <2>3, <2>6 DEF RegistryInv, SourceInv, RegistryIsUnion
<1>3. CASE UNCHANGED <<registryVars, lastSessions>>
  BY <1>3 DEF RegistryInv, SourceInv, RegistryIsUnion, registryVars
<1> QED
  BY <1>1, <1>2, <1>3 DEF Next, Connect, ReadFrame, ReadEventFrame, Request, RefreshCache,
     RefreshStore, RefreshLoop, Stop, GatewaySteps, Forward, vars, registryVars

(***************************************************************************)
(* Induction over numbers, in the form of sets of numbers                  *)
(***************************************************************************)
Less == {ss \in Nat \X Nat : ss[1] < ss[2]}

\* Induction: a set of numbers with 0 and every successor holds every number.
LEMMA Induct ==
  ASSUME NEW T \in SUBSET Nat, 0 \in T, \A n \in T : n + 1 \in T
  PROVE  T = Nat
<1>1. IsWellFoundedOn(Less, Nat)
  <2>1. OpToRel(<, Nat) = Less
    BY DEF OpToRel, Less
  <2> QED BY <2>1, NatLessThanWellFounded
<1>2. \A x, y \in Nat : <<x, y>> \in Less <=> x < y
  BY DEF Less
<1>3. SUFFICES ASSUME Nat \ T # {}  PROVE FALSE
  OBVIOUS
<1>4. PICK m \in Nat \ T : \A n \in Nat \ T : ~(<<n, m>> \in Less)
  <2> DEFINE R == Nat \ T
  <2>1. R \in SUBSET Nat /\ R # {}
    BY <1>3
  <2> HIDE DEF R
  <2>2. PICK m \in R : \A n \in R : ~(<<n, m>> \in Less)
    BY <1>1, <2>1, WFMin
  <2> QED BY <2>2 DEF R
<1>5. m # 0 /\ m \in Nat
  BY <1>4
<1>6. m - 1 \in Nat /\ m - 1 < m /\ (m - 1) + 1 = m
  BY <1>5
<1>7. m - 1 \notin Nat \ T
  BY <1>2, <1>4, <1>6
<1> QED BY <1>4, <1>6, <1>7

\* The values of a loop: h[i] is the value after i steps.
Iterates(h, V, v0, len, step) ==
  /\ h \in [0..len -> V] /\ h[0] = v0
  /\ \A i \in 1..len : h[i] = step[<<h[i - 1], i>>]

\* A recursive function whose step keeps a set has a value.
LEMMA Iteration ==
  ASSUME NEW V, NEW v0 \in V, NEW len \in Nat, NEW step \in [V \X (1..len) -> V]
  PROVE  \E h : Iterates(h, V, v0, len, step)
<1> DEFINE Up(n, h) == h[0] = v0 /\ \A i \in 1..n : h[i] = step[<<h[i - 1], i>>]
           T == {n \in Nat : n <= len => \E h \in [0..n -> V] : Up(n, h)}
<1>1. 0 \in T
  <2> DEFINE h == [i \in 0..0 |-> v0]
  <2>1. h \in [0..0 -> V] /\ Up(0, h)
    OBVIOUS
  <2> QED BY <2>1
<1>2. ASSUME NEW n \in T  PROVE n + 1 \in T
  <2>1. n \in Nat /\ (n <= len => \E h \in [0..n -> V] : Up(n, h))
    OBVIOUS
  <2>2. SUFFICES ASSUME n + 1 <= len  PROVE \E h \in [0..(n + 1) -> V] : Up(n + 1, h)
    BY <2>1
  <2>3. PICK g \in [0..n -> V] : Up(n, g)
    BY <2>1, <2>2
  <2> DEFINE h == [i \in 0..(n + 1) |-> IF i <= n THEN g[i] ELSE step[<<g[n], n + 1>>]]
  <2>4. g[n] \in V /\ n + 1 \in 1..len
    BY <2>1, <2>2, <2>3
  <2>5. h \in [0..(n + 1) -> V]
    BY <2>1, <2>3, <2>4
  <2>6. h[0] = v0
    BY <2>1, <2>3
  <2>7. ASSUME NEW i \in 1..(n + 1)  PROVE h[i] = step[<<h[i - 1], i>>]
    <3>1. CASE i = n + 1
      <4>1. n + 1 \in 0..(n + 1) /\ n \in 0..(n + 1) /\ n <= n /\ ~(n + 1 <= n) /\ (n + 1) - 1 = n
        BY <2>1
      <4>2. h[n + 1] = step[<<g[n], n + 1>>] /\ h[n] = g[n]
        BY <4>1
      <4> QED BY <3>1, <4>1, <4>2
    <3>2. CASE i # n + 1
      <4>1. i \in 1..n /\ i - 1 <= n /\ i <= n /\ i - 1 \in 0..(n + 1) /\ i \in 0..(n + 1)
        BY <2>1, <3>2
      <4>2. h[i] = g[i] /\ h[i - 1] = g[i - 1]
        BY <4>1
      <4> QED BY <2>3, <4>1, <4>2
    <3> QED BY <3>1, <3>2
  <2>8. Up(n + 1, h)
    BY <2>6, <2>7
  <2> HIDE DEF h, Up
  <2> QED BY <2>5, <2>8
<1>3. T = Nat
  <2>1. T \in SUBSET Nat
    OBVIOUS
  <2> HIDE DEF T
  <2> QED BY <1>1, <1>2, <2>1, Induct
<1>4. PICK h \in [0..len -> V] : Up(len, h)
  <2>1. len \in T
    BY <1>3
  <2> QED BY <2>1
<1> QED BY <1>4 DEF Iterates

(***************************************************************************)
(* The match                                                               *)
(***************************************************************************)
Best == [index : Nat, score : Int, delta : Nat, tied : BOOLEAN]

\* What MatchProxyRequest compares: the scores and the distances of n chats, of
\* which those in near are in the window.
Wins(sc, dl, i, j) == sc[i] > sc[j] \/ (sc[i] = sc[j] /\ dl[i] < dl[j])

\* After i chats, b is the best of those near, and is tied if one of them is as good.
BestOf(sc, dl, near, b, i) ==
  /\ b \in Best /\ b.index \in 0..i
  /\ b.index = 0 => b = NoBest /\ \A j \in 1..i : j \notin near
  /\ b.index # 0 =>
       /\ b.index \in near /\ b.score = sc[b.index] /\ b.delta = dl[b.index]
       /\ \A j \in near : j <= i => ~Wins(sc, dl, j, b.index)
       /\ b.tied <=> \E j \in near : /\ j <= i /\ j # b.index
                                     /\ sc[j] = b.score /\ dl[j] = b.delta

\* One round of the loop.
LEMMA BestStep ==
  ASSUME NEW n \in Nat, NEW sc \in [1..n -> Nat], NEW dl \in [1..n -> Nat],
         NEW near \in SUBSET (1..n), NEW i \in 1..n,
         NEW b, BestOf(sc, dl, near, b, i - 1),
         NEW c,
         c = IF i \notin near THEN b
             ELSE IF sc[i] > b.score \/ (sc[i] = b.score /\ dl[i] < b.delta)
             THEN [index |-> i, score |-> sc[i], delta |-> dl[i], tied |-> FALSE]
             ELSE IF sc[i] = b.score /\ dl[i] = b.delta THEN [b EXCEPT !.tied = TRUE]
             ELSE b
  PROVE  BestOf(sc, dl, near, c, i)
<1>0. /\ \A j \in near : j \in Nat /\ j \in 1..n /\ sc[j] \in Nat /\ dl[j] \in Nat
      /\ i \in Nat /\ i \in 0..i /\ i # 0 /\ sc[i] \in Nat /\ dl[i] \in Nat
      /\ i - 1 \in Nat /\ ~(i <= i - 1)
      /\ \A j \in Nat : j <= i => j <= i - 1 \/ j = i
  OBVIOUS
<1>1. b \in Best /\ b.index \in Nat /\ b.index \in 0..i /\ b.score \in Int /\ b.delta \in Nat
  BY DEF BestOf, Best
<1>2. CASE i \notin near
  <2>1. c = b /\ \A j \in 1..i : j # i => j \in 1..(i - 1)
    BY <1>2
  <2>2. \A j \in near : j <= i <=> j <= i - 1
    BY <1>0, <1>2
  <2> QED BY <1>1, <1>2, <2>1, <2>2 DEF BestOf
<1>3. CASE i \in near /\ (sc[i] > b.score \/ (sc[i] = b.score /\ dl[i] < b.delta))
  <2>1. c = [index |-> i, score |-> sc[i], delta |-> dl[i], tied |-> FALSE]
    BY <1>3
  <2>2. c \in Best /\ c.index = i /\ c.score = sc[i] /\ c.delta = dl[i] /\ ~c.tied
    <3>1. [index |-> i, score |-> sc[i], delta |-> dl[i], tied |-> FALSE] \in Best
      BY <1>0 DEF Best
    <3>2. c \in Best
      BY <2>1, <3>1
    <3>3. c.index = i /\ c.score = sc[i] /\ c.delta = dl[i]
      BY <2>1
    <3>4. ~c.tied
      BY <2>1
    <3> QED BY <3>2, <3>3, <3>4
  <2>3. ASSUME NEW j \in near, j <= i, j # i
        PROVE  ~Wins(sc, dl, j, i) /\ ~(sc[j] = sc[i] /\ dl[j] = dl[i])
    <3>1. j <= i - 1 /\ j \in 1..(i - 1)
      BY <1>0, <2>3
    <3>2. b.index # 0 /\ b.index \in near
      BY <2>3, <3>1 DEF BestOf
    <3>3. ~Wins(sc, dl, j, b.index) /\ b.score = sc[b.index] /\ b.delta = dl[b.index]
      BY <3>1, <3>2 DEF BestOf
    <3>4. ~(sc[j] > b.score) /\ ~(sc[j] = b.score /\ dl[j] < b.delta)
      BY <3>3 DEF Wins
    <3>5. sc[j] \in Nat /\ dl[j] \in Nat
      BY <1>0
    <3>6. CASE sc[i] > b.score
      BY <1>0, <1>1, <3>4, <3>5, <3>6 DEF Wins
    <3>7. CASE sc[i] = b.score /\ dl[i] < b.delta
      BY <1>0, <1>1, <3>4, <3>5, <3>7 DEF Wins
    <3> QED BY <1>3, <3>6, <3>7
  <2>4. ~Wins(sc, dl, i, i)
    BY <1>0 DEF Wins
  <2>5. \A j \in near : j <= i => ~Wins(sc, dl, j, c.index)
    BY <2>2, <2>3, <2>4
  <2>6. ~\E j \in near : j <= i /\ j # c.index /\ sc[j] = c.score /\ dl[j] = c.delta
    BY <2>2, <2>3
  <2> QED BY <1>0, <1>3, <2>2, <2>5, <2>6 DEF BestOf
<1>4. CASE i \in near /\ ~(sc[i] > b.score \/ (sc[i] = b.score /\ dl[i] < b.delta))
  <2>1. b.index # 0
    BY <1>0, <1>4 DEF BestOf, NoBest
  <2>2. b.index \in near /\ b.score = sc[b.index] /\ b.delta = dl[b.index] /\ b.index # i
    BY <1>0, <2>1 DEF BestOf
  <2>3. ~Wins(sc, dl, i, b.index)
    BY <1>0, <1>1, <1>4, <2>2 DEF Wins
  <2>4. \A j \in near : j <= i => ~Wins(sc, dl, j, b.index)
    BY <1>0, <2>1, <2>3 DEF BestOf
  <2>5. CASE sc[i] = b.score /\ dl[i] = b.delta
    <3>1. c = [b EXCEPT !.tied = TRUE]
      BY <1>4, <2>5
    <3>2. c \in Best /\ c.index = b.index /\ c.score = b.score /\ c.delta = b.delta /\ c.tied = TRUE
      BY <1>1, <3>1 DEF Best
    <3>3. \E j \in near : j <= i /\ j # c.index /\ sc[j] = c.score /\ dl[j] = c.delta
      BY <1>0, <1>4, <2>2, <2>5, <3>2
    <3> QED BY <1>1, <2>1, <2>2, <2>4, <3>2, <3>3 DEF BestOf
  <2>6. CASE ~(sc[i] = b.score /\ dl[i] = b.delta)
    <3>1. c = b
      BY <1>4, <2>6
    <3>2. (\E j \in near : j <= i /\ j # b.index /\ sc[j] = b.score /\ dl[j] = b.delta)
            <=> (\E j \in near : j <= i - 1 /\ j # b.index /\ sc[j] = b.score /\ dl[j] = b.delta)
      BY <1>0, <2>6
    <3> QED BY <1>1, <2>1, <2>2, <2>4, <3>1, <3>2 DEF BestOf
  <2> QED BY <2>5, <2>6
<1> QED BY <1>2, <1>3, <1>4

\* All rounds.
LEMMA BestLoop ==
  ASSUME NEW n \in Nat, NEW sc \in [1..n -> Nat], NEW dl \in [1..n -> Nat],
         NEW near \in SUBSET (1..n), NEW best,
         best[0] = NoBest,
         \A i \in 1..n : BestOf(sc, dl, near, best[i - 1], i - 1) => BestOf(sc, dl, near, best[i], i)
  PROVE  BestOf(sc, dl, near, best[n], n)
<1> DEFINE T == {i \in Nat : i <= n => BestOf(sc, dl, near, best[i], i)}
<1>1. 0 \in T
  <2>1. NoBest \in Best /\ NoBest.index = 0 /\ 0 \in 0..0 /\ ~\E j \in 1..0 : TRUE
    BY DEF Best, NoBest
  <2>2. BestOf(sc, dl, near, NoBest, 0)
    BY <2>1 DEF BestOf
  <2> QED BY <2>2
<1>2. ASSUME NEW i \in T  PROVE i + 1 \in T
  <2>1. i \in Nat /\ (i <= n => BestOf(sc, dl, near, best[i], i))
    OBVIOUS
  <2>2. SUFFICES ASSUME i + 1 <= n  PROVE BestOf(sc, dl, near, best[i + 1], i + 1)
    BY <2>1
  <2>3. i + 1 \in 1..n /\ (i + 1) - 1 = i /\ BestOf(sc, dl, near, best[i], i)
    BY <2>1, <2>2
  <2> QED BY <2>3
<1>3. T = Nat
  <2>1. T \in SUBSET Nat
    OBVIOUS
  <2> HIDE DEF T
  <2> QED BY <1>1, <1>2, <2>1, Induct
<1>4. n \in T
  BY <1>3
<1> QED BY <1>4

\* The loop of MatchProxyRequest finds the chat that is better than all others,
\* when there is one.
LEMMA MatchIs ==
  ASSUME NEW C, NEW cs \in Seq(C), \A c \in C : c.ts \in Nat,
         NEW ts \in Nat, NEW p, NEW m
  PROVE  MatchProxyRequest(cs, ts, p, m) = StrictlyBest(cs, ts, p, m)
<1> DEFINE n == Len(cs)
           sc == [i \in 1..n |-> Score(cs[i], p, m)]
           dl == [i \in 1..n |-> AbsDelta(ts, cs[i])]
           near == Near(cs, ts)
           step == [x \in Best \X (1..n) |-> matchStep(cs, ts, p, m, x[1], x[2])]
           Loop(best) == best = [i \in 0..n |-> IF i = 0 THEN NoBest
                                   ELSE matchStep(cs, ts, p, m, best[i - 1], i)]
           best == CHOOSE h : Loop(h)
<1>1. n \in Nat /\ DOMAIN cs = 1..n /\ \A i \in 1..n : cs[i].ts \in Nat
  BY LenProperties, ElementOfSeq
<1>2. sc \in [1..n -> Nat] /\ \A i \in 1..n : sc[i] = Score(cs[i], p, m)
  BY DEF Score
<1>3. dl \in [1..n -> Nat] /\ \A i \in 1..n : dl[i] = AbsDelta(ts, cs[i])
  BY <1>1 DEF AbsDelta
<1>4. near \in SUBSET (1..n) /\ \A i \in 1..n : i \in near <=> ~(dl[i] > correlationWindow)
  BY <1>1, <1>3, CorrelationAssumption DEF Near
<1> HIDE DEF n, sc, dl, near
<1>5. ASSUME NEW b, NEW i \in 1..n
      PROVE  matchStep(cs, ts, p, m, b, i) =
               IF i \notin near THEN b
               ELSE IF sc[i] > b.score \/ (sc[i] = b.score /\ dl[i] < b.delta)
               THEN [index |-> i, score |-> sc[i], delta |-> dl[i], tied |-> FALSE]
               ELSE IF sc[i] = b.score /\ dl[i] = b.delta THEN [b EXCEPT !.tied = TRUE]
               ELSE b
  BY <1>2, <1>3, <1>4 DEF matchStep
<1>6. NoBest \in Best
  BY DEF Best, NoBest
<1>7. step \in [Best \X (1..n) -> Best]
  <2> SUFFICES ASSUME NEW i \in 1..n, NEW v \in Best
               PROVE  matchStep(cs, ts, p, m, v, i) \in Best
    OBVIOUS
  <2>1. i \in Nat /\ sc[i] \in Nat /\ dl[i] \in Nat
    BY <1>1, <1>2, <1>3
  <2>2. [index |-> i, score |-> sc[i], delta |-> dl[i], tied |-> FALSE] \in Best
    BY <2>1 DEF Best
  <2>3. [v EXCEPT !.tied = TRUE] \in Best
    BY DEF Best
  <2> QED BY <1>5, <2>2, <2>3
<1>8. Loop(best)
  <2>0. PICK h : Iterates(h, Best, NoBest, n, step)
    <3>1. n \in Nat
      BY <1>1
    <3> HIDE DEF step
    <3> QED BY <1>6, <1>7, <3>1, Iteration
  <2>1. h \in [0..n -> Best] /\ h[0] = NoBest /\ \A i \in 1..n : h[i] = step[<<h[i - 1], i>>]
    BY <2>0 DEF Iterates
  <2>2. ASSUME NEW i \in 1..n  PROVE h[i] = matchStep(cs, ts, p, m, h[i - 1], i)
    <3>1. h[i - 1] \in Best
      BY <1>1, <2>1
    <3> QED BY <2>1, <3>1
  <2>3. \A i \in 0..n : h[i] = IF i = 0 THEN NoBest
                                ELSE matchStep(cs, ts, p, m, h[i - 1], i)
    <3>1. \A i \in 0..n : i # 0 => i \in 1..n
      BY <1>1
    <3> QED BY <2>1, <2>2, <3>1
  <2>4. Loop(h)
    <3>1. h = [i \in 0..n |-> h[i]]
      BY <2>1
    <3> QED BY <2>3, <3>1
  <2> HIDE DEF Loop
  <2> QED BY <2>4
<1>9. matchLoop(cs, ts, p, m) = best[n]
  BY DEF matchLoop, n
<1> HIDE DEF best
<1>10. BestOf(sc, dl, near, best[n], n)
  <2>1. best[0] = NoBest
    BY <1>1, <1>8
  <2>2. ASSUME NEW i \in 1..n, BestOf(sc, dl, near, best[i - 1], i - 1)
        PROVE  BestOf(sc, dl, near, best[i], i)
    <3>1. best[i] = matchStep(cs, ts, p, m, best[i - 1], i)
      BY <1>1, <1>8
    <3> DEFINE c == best[i]
               a == best[i - 1]
    <3>2. c = IF i \notin near THEN a
              ELSE IF sc[i] > a.score \/ (sc[i] = a.score /\ dl[i] < a.delta)
              THEN [index |-> i, score |-> sc[i], delta |-> dl[i], tied |-> FALSE]
              ELSE IF sc[i] = a.score /\ dl[i] = a.delta THEN [a EXCEPT !.tied = TRUE]
              ELSE a
      BY <1>5, <3>1
    <3>3. BestOf(sc, dl, near, a, i - 1)
      BY <2>2
    <3> HIDE DEF a, c
    <3>4. BestOf(sc, dl, near, c, i)
      BY <1>1, <1>2, <1>3, <1>4, <3>2, <3>3, BestStep
    <3> QED BY <3>4 DEF c
  <2> QED BY <1>1, <1>2, <1>3, <1>4, <2>1, <2>2, BestLoop
<1> DEFINE b == best[n]
<1>11. MatchProxyRequest(cs, ts, p, m) = IF b.index = 0 \/ b.tied THEN {} ELSE {b.index}
  BY <1>9 DEF MatchProxyRequest
<1>12. ASSUME NEW i \in near, NEW j \in near
       PROVE  Beats(cs, i, j, ts, p, m) <=> Wins(sc, dl, i, j)
  <2>1. /\ Score(cs[i], p, m) = sc[i] /\ Score(cs[j], p, m) = sc[j]
        /\ AbsDelta(ts, cs[i]) = dl[i] /\ AbsDelta(ts, cs[j]) = dl[j]
    BY <1>2, <1>3, <1>4
  <2>2. sc[i] \in Nat /\ sc[j] \in Nat
    BY <1>2, <1>4
  <2> QED BY <2>1, <2>2 DEF Beats, Wins
<1>13. StrictlyBest(cs, ts, p, m) =
         {i \in near : \A j \in near \ {i} : Wins(sc, dl, i, j)}
  BY <1>12 DEF StrictlyBest, near
<1> HIDE DEF b
<1>14. BestOf(sc, dl, near, b, n)
  BY <1>10 DEF b
<1>15. \A j \in near : j \in 1..n /\ j <= n /\ sc[j] \in Nat /\ dl[j] \in Nat
  BY <1>1, <1>2, <1>3, <1>4
<1>16. CASE b.index = 0
  <2>1. near = {}
    BY <1>14, <1>15, <1>16 DEF BestOf
  <2> QED BY <1>11, <1>13, <1>16, <2>1
<1>17. CASE b.index # 0
  <2>1. /\ b.index \in near /\ b.score = sc[b.index] /\ b.delta = dl[b.index]
        /\ \A j \in near : ~Wins(sc, dl, j, b.index)
        /\ b.tied <=> \E j \in near : j # b.index /\ sc[j] = b.score /\ dl[j] = b.delta
    BY <1>14, <1>15, <1>17 DEF BestOf
  <2>2. ASSUME NEW i \in near, i # b.index  PROVE i \notin StrictlyBest(cs, ts, p, m)
    BY <1>13, <2>1, <2>2
  <2>3. CASE b.tied
    <3>1. PICK j \in near : j # b.index /\ sc[j] = b.score /\ dl[j] = b.delta
      BY <2>1, <2>3
    <3>2. ~Wins(sc, dl, b.index, j)
      BY <1>15, <2>1, <3>1 DEF Wins
    <3>3. b.index \notin StrictlyBest(cs, ts, p, m)
      BY <1>13, <3>1, <3>2
    <3> QED BY <1>11, <1>13, <2>2, <2>3, <3>3
  <2>4. CASE ~b.tied
    <3>1. ASSUME NEW j \in near, j # b.index  PROVE Wins(sc, dl, b.index, j)
      <4>1. ~(sc[j] = sc[b.index] /\ dl[j] = dl[b.index]) /\ ~Wins(sc, dl, j, b.index)
        BY <2>1, <2>4, <3>1
      <4> QED BY <1>15, <2>1, <4>1 DEF Wins
    <3>2. b.index \in StrictlyBest(cs, ts, p, m)
      BY <1>13, <2>1, <3>1
    <3> QED BY <1>11, <1>13, <1>17, <2>2, <2>4, <3>2
  <2> QED BY <2>3, <2>4
<1> QED BY <1>16, <1>17

LEMMA EveryRing == EveryRingExact
<1> SUFFICES ASSUME NEW cs \in Rings, NEW ts \in Times, NEW p \in AnyProvider,
                    NEW m \in Models \cup {NoModel}
             PROVE  MatchProxyRequest(cs, ts, p, m) = StrictlyBest(cs, ts, p, m)
  BY DEF EveryRingExact, ExactOn
<1>1. cs \in Seq(AnyChat)
  <2>1. PICK n \in 0 .. MaxRing : cs \in [1 .. n -> AnyChat]
    BY DEF Rings
  <2>2. n \in Nat
    BY CorrelationAssumption
  <2> QED BY <2>1, <2>2, SeqDef
<1>2. \A t \in Times : t \in Nat
  BY CorrelationAssumption
<1>3. ASSUME NEW c \in AnyChat  PROVE c.ts \in Nat
  <2>1. PICK t \in Times, x \in Models \cup {NoModel} : c = Chat("", "", x, t)
    BY DEF AnyChat
  <2> QED BY <1>2, <2>1 DEF Chat
<1> QED BY <1>1, <1>2, <1>3, MatchIs

\* The models the gateway's session lists name, and the chats they may appear in.
ModelsSeen == {NoModel} \cup UNION {{list[k] : k \in DOMAIN list} : list \in Lists}
Recordable == {Chat(em[1].run, em[1].session, em[2], 0) : em \in Events \X ModelsSeen}

\* The cache is a list the gateway sent; what is kept of the chats is of events that
\* came, with models of such lists, and no more than the ring holds.
ChatInv ==
  /\ cache \in Lists \cup {EmptyMap}
  /\ chats \in Seq(Recordable) /\ Len(chats) <= maxRecentChats

LEMMA ChatStep ==
  ASSUME TypeOK, ChatInv, [Next]_vars
  PROVE  ChatInv'
<1>1. CASE RefreshCache
  <2>1. chats' = chats /\ (cache' = cache \/ cache' = req.resp[1])
    BY <1>1 DEF RefreshCache, cacheReply, SetCache, correlationVars, storeVars
  <2>2. req.resp[1] # ReplyError => req.resp[1] \in Lists
    <3>1. req.resp \in Answers
      BY <1>1 DEF RefreshCache, ReqReturn, TypeOK, ReqType
    <3>2. PICK r \in Lists \cup {ReplyError} : req.resp = <<r>>
      BY <3>1 DEF Answers
    <3> QED BY <3>2
  <2>3. cache' \in Lists \cup {EmptyMap}
    BY <1>1, <2>1, <2>2 DEF RefreshCache, cacheReply, correlationVars, ChatInv
  <2> QED BY <2>1, <2>3 DEF ChatInv
<1>2. CASE ReadEventFrame
  <2> DEFINE e == Head(inbox).event
             m == IF e.session \in DOMAIN cache THEN cache[e.session] ELSE NoModel
             new == Chat(e.run, e.session, m, 0)
             q == Append(chats, new)
  <2>1. e \in Events
    <3>1. inbox # <<>> /\ Head(inbox) \in Frames /\ Head(inbox).kind = "event"
      BY <1>2, InboxMoves DEF ReadEventFrame, ReadEvent, HasFrame
    <3>2. Head(inbox) \in EventFrames
      BY <3>1 DEF Frames, Handshake, Replies
    <3>3. PICK x \in Events : Head(inbox) = [kind |-> "event", event |-> x]
      BY <3>2 DEF EventFrames
    <3> QED BY <3>3
  <2>2. m \in ModelsSeen
    BY DEF ChatInv, ModelsSeen, EmptyMap
  <2>3. new \in Recordable
    <3> HIDE DEF e, m
    <3>1. <<e, m>> \in Events \X ModelsSeen /\ <<e, m>>[1] = e /\ <<e, m>>[2] = m
      BY <2>1, <2>2
    <3>2. new = Chat(<<e, m>>[1].run, <<e, m>>[1].session, <<e, m>>[2], 0)
      BY <3>1
    <3> HIDE DEF new
    <3> QED BY <3>1, <3>2 DEF Recordable
  <2>4. cache' = cache /\ (chats' = chats \/ chats' = lastChats(q))
    BY <1>2 DEF ReadEventFrame, handleEvent, RecordChat, RecordAgent, correlationVars, storeVars
  <2> HIDE DEF new
  <2>5. chats \in Seq(Recordable) /\ Len(chats) \in Nat /\ Len(chats) <= maxRecentChats
    BY DEF ChatInv
  <2>6. q \in Seq(Recordable) /\ Len(q) = Len(chats) + 1
    BY <2>3, <2>5, AppendProperties
  <2> HIDE DEF q
  <2>7. maxRecentChats \in Nat \ {0}
    BY CorrelationAssumption
  <2>8. lastChats(q) \in Seq(Recordable) /\ Len(lastChats(q)) <= maxRecentChats
    <3>1. CASE Len(q) <= maxRecentChats
      BY <2>5, <2>6, <2>7, <3>1 DEF lastChats
    <3>2. CASE Len(q) > maxRecentChats
      <4> DEFINE a == Len(q) - maxRecentChats + 1
      <4>1. a \in Int /\ Len(q) \in Int /\ a <= Len(q) /\ Len(q) - a + 1 = maxRecentChats
        BY <2>5, <2>6, <2>7, <3>2
      <4>2. \A i \in a .. Len(q) : q[i] \in Recordable
        BY <2>5, <2>6, <2>7, <3>2, ElementOfSeq
      <4>3. lastChats(q) = SubSeq(q, a, Len(q))
        BY <3>2 DEF lastChats
      <4> HIDE DEF a
      <4> QED BY <2>7, <4>1, <4>2, <4>3, SubSeqProperties
    <3> QED BY <2>5, <2>6, <2>7, <3>1, <3>2
  <2> QED BY <2>4, <2>5, <2>8 DEF ChatInv
<1>3. CASE UNCHANGED <<cache, chats>>
  BY <1>3 DEF ChatInv
<1> QED
  BY <1>1, <1>2, <1>3 DEF Next, Connect, ReadFrame, Request, RefreshStore, RecordSession,
     RefreshRegistry, RefreshLoop, Stop, GatewaySteps, Scan, Forward, vars,
     correlationVars, storeVars

LEMMA ChatsExact ==
  ASSUME ChatInv
  PROVE  ExactOn(chats)
<1>1. \A c \in Recordable : c.ts \in Nat
  BY DEF Recordable, Chat
<1>2. \A t \in Times : t \in Nat
  BY CorrelationAssumption
<1> QED BY <1>1, <1>2, MatchIs DEF ExactOn, ChatInv

(***************************************************************************)
(* The theorems                                                            *)
(***************************************************************************)
Inv == TypeOK /\ PendingInv /\ LateInv /\ FlagInv /\ AnswerInv /\ RegistryInv /\ ChatInv

LEMMA InitInv == Init => Inv
<1> SUFFICES ASSUME Init  PROVE Inv
  OBVIOUS
<1> USE DEF Init, GatewayInit, NoRequest
<1>1. TypeOK
  BY DEF TypeOK, ReqType, ReqSteps
<1>2. PendingInv /\ LateInv /\ FlagInv /\ AnswerInv
  BY DEF PendingInv, Unanswered, LateInv, FlagInv, AnswerInv
<1>3. RegistryInv
  <2>1. agents = {} /\ sources = [s \in Sources |-> {}] /\ lastSessions = EmptyMap
    BY DEF RegistryInit
  <2>2. UNION {sources[s] : s \in Sources} = sources["scanner"] \cup sources["openclaw-gateway"]
    BY TwoSources
  <2>3. sources["scanner"] = {} /\ sources["openclaw-gateway"] = {}
    BY <2>1, OpenClawAssumption
  <2>4. openclawSessionsToAgents(EmptyMap) = {}
    BY DEF openclawSessionsToAgents, EmptyMap
  <2> QED BY <2>1, <2>2, <2>3, <2>4 DEF RegistryInv, SourceInv, RegistryIsUnion
<1>4. ChatInv
  BY CorrelationAssumption DEF ChatInv, CorrelationInit
<1> QED BY <1>1, <1>2, <1>3, <1>4 DEF Inv

LEMMA NextInv == Inv /\ [Next]_vars => Inv'
  BY TypeStep, PendingStep, LateStep, FlagStep, RegistryStep, ChatStep DEF Inv

LEMMA SpecInv == Spec => []Inv
  BY InitInv, NextInv, PTL DEF Spec

\* The status says "connected" only while a goroutine reads the connection,
\* unless the reader left at a challenge it had no token for: statusSnapshot
\* and readLoop never disagree, whatever frames come and whenever the
\* connection is lost, refused or closed.
THEOREM StatusAlwaysHonest == Spec => []StatusHonest
<1>1. Inv => StatusHonest
  BY DEF Inv, FlagInv, StatusHonest
<1> QED BY <1>1, SpecInv, PTL

\* A request that nobody will answer any more was registered after readLoop had
\* failed the pending ones, or the reader left at a challenge.
THEOREM NoneForgotten == Spec => []ForgottenOnlyIfLate
<1>1. Inv => ForgottenOnlyIfLate
  BY DEF Inv, PendingInv, Unanswered, LateInv, ForgottenOnlyIfLate
<1> QED BY <1>1, SpecInv, PTL

\* The registry is the union of what the scanner and the gateway last reported,
\* and the gateway's part is the last session list that was observed.
THEOREM RegistryAlwaysUnion == Spec => []RegistryIsUnion
<1>1. Inv => RegistryIsUnion
  BY DEF Inv, RegistryInv
<1> QED BY <1>1, SpecInv, PTL

\* A request is attributed to the chat that fits it strictly better than every other
\* near it, and to none if there is no such chat: the one pass of MatchProxyRequest
\* is right for every ring of chats, of any length, and for those recorded so far.
THEOREM MatchAlwaysExact == Spec => []MatchExact
<1>1. Inv => MatchExact
  BY EveryRing, ChatsExact DEF Inv, MatchExact
<1> QED BY <1>1, SpecInv, PTL

=============================================================================
