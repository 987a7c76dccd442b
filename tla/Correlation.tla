---------------------------- MODULE Correlation ----------------------------
(***************************************************************************)
(* The OpenClaw correlation store (internal/openclawstate/store.go) and    *)
(* the session cache (internal/adapter/openclaw/session_cache.go): what    *)
(* the daemon remembers of the gateway's sessions, runs and recent chats,  *)
(* and the match that attributes a proxied request to one of them.         *)
(*                                                                         *)
(* A session list is a function from the keys it names to their model; a   *)
(* model stands for the model and the provider that                        *)
(* inferProviderFromModel (mapper.go) derives from it. The counters of     *)
(* matches and ambiguous requests only feed the status and are left out.   *)
(***************************************************************************)
EXTENDS Integers, Sequences, TLC

CONSTANTS
    Sessions,        \* session keys
    Runs,            \* run ids, "" among them
    Models,          \* model names, NoModel excluded
    NoModel,         \* the empty model name
    ProviderOf,      \* inferProviderFromModel: the provider of each model
    NoProvider,      \* the empty provider name
    maxRecentChats,  \* the bound of the chat ring
    correlationWindow,
    Times, MaxRing   \* what MatchExact ranges over: times, and chats of up to this length

ASSUME CorrelationAssumption ==
    /\ NoModel \notin Models
    /\ maxRecentChats \in Nat \ {0} /\ correlationWindow \in Nat
    /\ DOMAIN ProviderOf = Models /\ Times \subseteq Nat /\ MaxRing \in Nat

VARIABLES
    cache,     \* SessionCache.sessions
    metas,     \* Store.sessions: the last model recorded for a key, never removed
    runs,      \* Store.runs: run id -> session key
    chats      \* Store.chats

storeVars == <<metas, runs, chats>>
correlationVars == <<cache, storeVars>>

inferProviderFromModel(m) == IF m = NoModel THEN NoProvider ELSE ProviderOf[m]

Chat(run, s, m, ts) ==
    [run |-> run, session |-> s, model |-> m, provider |-> inferProviderFromModel(m), ts |-> ts]

EmptyMap == [k \in {} |-> NoModel]

CorrelationInit ==
    /\ cache = EmptyMap /\ metas = EmptyMap /\ runs = EmptyMap
    /\ chats = <<>>

Merge(new, old) == [k \in DOMAIN new \cup DOMAIN old |-> IF k \in DOMAIN new THEN new[k] ELSE old[k]]

SetCache(list) == cache' = list /\ UNCHANGED storeVars

(* RecordSession for every session of the list. Each call takes the lock   *)
(* on its own; a match reads the meta of one key only, so the calls are    *)
(* one step.                                                               *)
RecordSession(list) == metas' = Merge(list, metas) /\ UNCHANGED <<cache, runs, chats>>

RecordRun(run, s) == runs' = Merge(run :> s, runs)

lastChats(q) == IF Len(q) > maxRecentChats THEN SubSeq(q, Len(q) - maxRecentChats + 1, Len(q)) ELSE q

(* handleChatEvent: the model comes from the cache (empty when the session *)
(* is not in it); RecordRun is called even with an empty run id.           *)
RecordChat(e, ts) ==
    LET m == IF e.session \in DOMAIN cache THEN cache[e.session] ELSE NoModel IN
    /\ RecordRun(e.run, e.session)
    /\ chats' = lastChats(Append(chats, Chat(e.run, e.session, m, ts)))
    /\ UNCHANGED <<cache, metas>>

(* handleAgentEvent: only an event that names its session is recorded.     *)
RecordAgent(e) ==
    /\ IF e.session \in Sessions THEN RecordRun(e.run, e.session) ELSE UNCHANGED runs
    /\ UNCHANGED <<cache, metas, chats>>

----------------------------------------------------------------------------
(* MatchProxyRequest: one pass over the chats, keeping the best index and  *)
(* whether an equally good one was met since.                              *)

AbsDelta(ts, chat) == IF ts >= chat.ts THEN ts - chat.ts ELSE chat.ts - ts

Score(chat, provider, model) ==
    (IF provider # NoProvider /\ chat.provider = provider THEN 2 ELSE 0)
  + (IF model # NoModel /\ chat.model = model THEN 1 ELSE 0)

NoBest == [index |-> 0, score |-> -1, delta |-> 0, tied |-> FALSE]

\* Mutant: the last of several equally good chats is taken.
matchStepLast(cs, ts, provider, model, best, i) ==
    LET delta == AbsDelta(ts, cs[i])
        score == Score(cs[i], provider, model) IN
    IF delta > correlationWindow THEN best
    ELSE IF score > best.score \/ (score = best.score /\ delta <= best.delta)
    THEN [index |-> i, score |-> score, delta |-> delta, tied |-> FALSE]
    ELSE best

matchStep(cs, ts, provider, model, best, i) ==
    LET delta == AbsDelta(ts, cs[i])
        score == Score(cs[i], provider, model) IN
    IF delta > correlationWindow THEN best
    ELSE IF score > best.score \/ (score = best.score /\ delta < best.delta)
    THEN [index |-> i, score |-> score, delta |-> delta, tied |-> FALSE]
    ELSE IF score = best.score /\ delta = best.delta
    THEN [best EXCEPT !.tied = TRUE]
    ELSE best

matchLoop(cs, ts, provider, model) ==
    LET best[i \in 0 .. Len(cs)] ==
          IF i = 0 THEN NoBest ELSE matchStep(cs, ts, provider, model, best[i - 1], i)
    IN  best[Len(cs)]

(* The position of the chat the request is attributed to, or none.         *)
MatchProxyRequest(cs, ts, provider, model) ==
    LET best == matchLoop(cs, ts, provider, model) IN
    IF best.index = 0 \/ best.tied THEN {} ELSE {best.index}

(* The reference: of the chats near the request, the one that beats every  *)
(* other in score or, with equal scores, in distance.                      *)
Near(cs, ts) == {i \in DOMAIN cs : AbsDelta(ts, cs[i]) <= correlationWindow}
Beats(cs, i, j, ts, p, m) ==
    LET better == Score(cs[i], p, m) - Score(cs[j], p, m) IN
    better > 0 \/ (better = 0 /\ AbsDelta(ts, cs[i]) < AbsDelta(ts, cs[j]))
StrictlyBest(cs, ts, p, m) ==
    {i \in Near(cs, ts) : \A j \in Near(cs, ts) \ {i} : Beats(cs, i, j, ts, p, m)}

AnyChat == UNION {{Chat("", "", m, ts) : m \in Models \cup {NoModel}} : ts \in Times}
Rings == UNION {[1 .. n -> AnyChat] : n \in 0 .. MaxRing}
AnyProvider == {inferProviderFromModel(m) : m \in Models \cup {NoModel}}

ExactOn(cs) ==
    \A ts \in Times, p \in AnyProvider, m \in Models \cup {NoModel} :
      MatchProxyRequest(cs, ts, p, m) = StrictlyBest(cs, ts, p, m)
EveryRingExact == \A cs \in Rings : ExactOn(cs)

(* A request is attributed to the chat that fits it strictly better than   *)
(* every other chat in the window, and to none when two fit equally, in    *)
(* whatever order the chats came: the single pass of MatchProxyRequest,    *)
(* which forgets a tie when it meets a better chat, finds a unique maximum *)
(* exactly when there is one, for the chats recorded so far and for every  *)
(* ring there may be.                                                      *)
MatchExact == EveryRingExact /\ ExactOn(chats)

============================================================================
