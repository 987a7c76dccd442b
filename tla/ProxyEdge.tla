----------------------------- MODULE ProxyEdge ------------------------------
(***************************************************************************)
(* The front of the proxy: CONNECT (connect.go), the certificates it makes *)
(* for intercepted hosts (CertCache in ca.go) and the routing of the       *)
(* requests inside (router.go).                                            *)
(*                                                                         *)
(* A connection is one goroutine of the HTTP server; an intercepted one    *)
(* has a second goroutine for its only request, whose judgement and answer *)
(* are the subject of Proxy.  A tunnel has a copying goroutine for each    *)
(* direction.  A certificate is its place in the order of their making.    *)
(***************************************************************************)
EXTENDS Naturals, Sequences, FiniteSets

CONSTANTS
    Conns,            \* connections, one life each
    Providers,        \* configured providers
    DomainOf,         \* the host of each provider's upstream_base_url
    RoutesOf,         \* the paths that each provider's route_patterns match
    defaultProvider,
    Hosts,            \* hosts the agents ask for
    Asks,             \* requests: X-Crabwise-Provider, trimmed and in lower case, and path
    None,             \* no header, no host, no provider
    maxSize           \* the bound of the certificate cache (256)

ASSUME EdgeAssumption ==
    /\ defaultProvider \in Providers
    /\ DOMAIN DomainOf = Providers /\ DOMAIN RoutesOf = Providers
    /\ \A p, q \in Providers : DomainOf[p] = DomainOf[q] => p = q   \* Config.validate
    /\ maxSize \in Nat \ {0} /\ None \notin Providers

VARIABLES
    serving, \* Proxy.httpSrv accepts connections
    conn,    \* each connection
    certs,   \* CertCache.certs
    made     \* history: the attempts to generate a certificate, with their success

edge == <<certs, made>>
edgeVars == <<serving, conn, edge>>

NoAsk == [header |-> None, path |-> None]

\* handler is the goroutine of a request; copying holds the ends a tunnel still
\* copies from, closed those that have ended their side, eof those that were told
\* that nothing more will come.
Sides == {"client", "remote"}
Idle == [at |-> "idle", host |-> None, cert |-> 0, handler |-> "none",
         ask |-> NoAsk, route |-> None,
         copying |-> Sides, closed |-> {}, eof |-> {}]
Ended(handler) == [Idle EXCEPT !.at = "ended", !.handler = handler]

EdgeInit ==
    /\ serving = TRUE
    /\ conn = [c \in Conns |-> Idle]
    /\ certs = [h \in {} |-> 0] /\ made = <<>>

At(c, p) == conn[c].at = p
Go(c, p) == conn' = [conn EXCEPT ![c].at = p]
Close(c) == conn' = [conn EXCEPT ![c] = Ended(@.handler)]

----------------------------------------------------------------------------
(* Start, Stop and handleConnect *)

\* The server's handler is called: CONNECT, or a request in the clear.
Connect(c, h) ==
    /\ serving /\ At(c, "idle")
    /\ conn' = [conn EXCEPT ![c].at = "connect", ![c].host = h]
    /\ UNCHANGED <<serving, edge>>

PlainRequest(c) ==
    /\ serving /\ At(c, "idle")
    /\ conn' = [conn EXCEPT ![c].at = "plain", ![c].handler = "read"]
    /\ UNCHANGED <<serving, edge>>

\* Shutdown closes the listener; hijacked connections go on.
Stop ==
    /\ serving /\ serving' = FALSE
    /\ UNCHANGED <<conn, edge>>

ResolveByDomain(h) == {p \in Providers : DomainOf[p] = h}

\* A provider's host is intercepted, any other is tunnelled; hijack may fail.
HandleConnect(c) ==
    /\ At(c, "connect")
    /\ IF ResolveByDomain(conn[c].host) # {}
       THEN Go(c, "lookup") \/ Close(c)
       ELSE Go(c, "dial")
    /\ UNCHANGED <<serving, edge>>

----------------------------------------------------------------------------
(* CertCache.GetOrCreate: a lookup under the read lock; a second one, and  *)
(* the generation, under the write lock.                                   *)

Cached(c) == conn[c].host \in DOMAIN certs
Present(c, n) == conn' = [conn EXCEPT ![c].at = "handshake", ![c].cert = n]

Lookup(c) ==
    /\ At(c, "lookup")
    /\ IF Cached(c) THEN Present(c, certs[conn[c].host]) ELSE Go(c, "create")
    /\ UNCHANGED <<serving, edge>>

\* A full cache is emptied as a whole; the generation that follows may fail.
MakeRoom == IF Cardinality(DOMAIN certs) >= maxSize THEN [h \in {} |-> 0] ELSE certs

GenerateCert(c) ==
    LET h == conn[c].host IN
    \E ok \in BOOLEAN :
      /\ made' = Append(made, [host |-> h, ok |-> ok])
      /\ certs' = IF ok THEN [g \in DOMAIN MakeRoom \cup {h} |->
                               IF g = h THEN Len(made') ELSE MakeRoom[g]]
                  ELSE MakeRoom
      /\ IF ok THEN Present(c, Len(made')) ELSE Close(c)

\* Mutant: the cache is not looked at again under the write lock.
CreateUnchecked(c) ==
    /\ At(c, "create")
    /\ GenerateCert(c)
    /\ UNCHANGED serving

Create(c) ==
    /\ At(c, "create")
    /\ \/ Cached(c) /\ Present(c, certs[conn[c].host]) /\ UNCHANGED edge
       \/ ~Cached(c) /\ GenerateCert(c)
    /\ UNCHANGED serving

----------------------------------------------------------------------------
(* mitmConnect: the handshake, then a server over a listener that yields   *)
(* this connection and nothing else.                                       *)

Handshake(c) ==
    /\ At(c, "handshake")
    /\ Go(c, "accept") \/ Close(c)
    /\ UNCHANGED <<serving, edge>>

\* The first Accept starts the goroutine of the connection.
AcceptFirst(c) ==
    /\ At(c, "accept")
    /\ conn' = [conn EXCEPT ![c].at = "accept_again", ![c].handler = "read"]
    /\ UNCHANGED <<serving, edge>>

\* The second Accept waits for done; then Serve and mitmConnect return.
AcceptSecond(c) ==
    /\ At(c, "accept_again") /\ conn[c].handler = "closed"
    /\ Close(c)
    /\ UNCHANGED <<serving, edge>>

\* sclConn.Close, or the end of a request in the clear.
CloseConn(c) ==
    /\ conn[c].handler = "close"
    /\ IF At(c, "plain")
       THEN conn' = [conn EXCEPT ![c] = Ended("closed")]
       ELSE conn' = [conn EXCEPT ![c].handler = "closed"]
    /\ UNCHANGED <<serving, edge>>

----------------------------------------------------------------------------
(* handleProxy: the request is read and routed *)

Handler(c, p) == conn' = [conn EXCEPT ![c].handler = p]

\* The agent's request, or the end of the connection before one.
ReadRequest(c) ==
    /\ conn[c].handler = "read"
    /\ \/ \E q \in Asks :
            conn' = [conn EXCEPT ![c].handler = "resolve", ![c].ask = q]
       \/ Handler(c, "close")
    /\ UNCHANGED <<serving, edge>>

\* Router.Resolve: the header decides; then the patterns, of which any that
\* matches may be met first (the order of a Go map); then the default.
Resolve(q) ==
    LET matching == {p \in Providers : q.path \in RoutesOf[p]} IN
    IF q.header # None THEN {q.header} \cap Providers
    ELSE IF matching # {} THEN matching
    ELSE {defaultProvider}

\* No provider, or a body that cannot be mapped in strict mode: an error.
RouteRequest(c) ==
    /\ conn[c].handler = "resolve"
    /\ \/ \E p \in Resolve(conn[c].ask) :
            conn' = [conn EXCEPT ![c].handler = "serve", ![c].route = p]
       \/ Handler(c, "close")
    /\ UNCHANGED <<serving, edge>>

\* The request is judged, forwarded and answered (Proxy).
ServeRequest(c) ==
    /\ conn[c].handler = "serve"
    /\ conn' = [conn EXCEPT ![c].handler = "close", ![c].ask = NoAsk, ![c].route = None]
    /\ UNCHANGED <<serving, edge>>

----------------------------------------------------------------------------
(* tunnelConnect *)

Dial(c) ==
    /\ At(c, "dial")
    /\ Go(c, "tunnel") \/ Close(c)
    /\ UNCHANGED <<serving, edge>>

\* A peer ends its side, on its own or because it was told of the other's end.
PeerCloses(c, s) ==
    /\ At(c, "tunnel") /\ s \notin conn[c].closed
    /\ conn' = [conn EXCEPT ![c].closed = @ \cup {s}]
    /\ UNCHANGED <<serving, edge>>

\* Mutant: without CloseWrite.
StopsCopying(c, s) ==
    conn' = [conn EXCEPT ![c].copying = @ \ {s}]

\* The copying goroutine tells the other end with CloseWrite.
EndsCopying(c, s) ==
    conn' = [conn EXCEPT ![c].copying = @ \ {s}, ![c].eof = @ \cup (Sides \ {s})]

\* io.Copy has read the end of its source.
CopyEnds(c, s) ==
    /\ At(c, "tunnel") /\ s \in conn[c].copying \cap conn[c].closed
    /\ EndsCopying(c, s)
    /\ UNCHANGED <<serving, edge>>

\* io.Copy had something to write to an end that is gone.
CopyFails(c, s) ==
    /\ At(c, "tunnel") /\ s \in conn[c].copying /\ conn[c].closed \ {s} # {}
    /\ EndsCopying(c, s)
    /\ UNCHANGED <<serving, edge>>

TunnelEnds(c) ==
    /\ At(c, "tunnel") /\ conn[c].copying = {}
    /\ Close(c)
    /\ UNCHANGED <<serving, edge>>

----------------------------------------------------------------------------
HandleConn(c) ==
    \/ HandleConnect(c) \/ Lookup(c) \/ Create(c) \/ Handshake(c)
    \/ AcceptFirst(c) \/ AcceptSecond(c) \/ CloseConn(c)
    \/ ReadRequest(c) \/ RouteRequest(c) \/ ServeRequest(c)
    \/ Dial(c) \/ TunnelEnds(c)

EdgeNext ==
    \/ \E c \in Conns :
          \/ PlainRequest(c) \/ (\E h \in Hosts : Connect(c, h)) \/ HandleConn(c)
          \/ \E s \in Sides : PeerCloses(c, s) \/ CopyEnds(c, s) \/ CopyFails(c, s)
    \/ Stop

EdgeSpec == EdgeInit /\ [][EdgeNext]_edgeVars

\* The goroutines are scheduled.  A client finishes its handshake and sends its
\* request or goes away (the code sets no deadline for either), and an end of a
\* tunnel that is told of the other's end ends as well.
FairEdgeSpec ==
    /\ EdgeSpec
    /\ \A c \in Conns :
         /\ WF_edgeVars(HandleConn(c))
         /\ \A s \in Sides : /\ WF_edgeVars(CopyEnds(c, s))
                             /\ WF_edgeVars(s \in conn[c].eof /\ PeerCloses(c, s))

-----------------------------------------------------------------------------
(* Properties *)

\* A client is shown a certificate for the host it asked for, and a host keeps
\* its certificate until an attempt for another host empties the cache:
\* connections that miss the cache together do not make one each (the second
\* lookup in GetOrCreate).
CertificatesShared ==
    /\ \A c \in Conns : conn[c].cert > 0 => made[conn[c].cert].host = conn[c].host
    /\ \A i, j \in DOMAIN made :
         i < j /\ made[i].ok /\ made[i].host = made[j].host
           => \E k \in (i + 1)..(j - 1) : made[k].host # made[i].host

\* A connection is not closed before the goroutine that serves its request is
\* through ("ensuring http.Server.Serve does not return while the handler is still
\* running", connect.go).
ServedFirst ==
    \A c \in Conns : At(c, "ended") => conn[c].handler \in {"none", "closed"}

\* An intercepted connection is closed, but not before its request is served; a
\* tunnel is closed once one of its ends has closed.
ConnectionsEnd ==
    /\ []ServedFirst
    /\ \A c \in Conns :
         /\ At(c, "connect") ~> (At(c, "ended") \/ At(c, "tunnel"))
         /\ (At(c, "tunnel") /\ conn[c].closed # {}) ~> At(c, "ended")

============================================================================
