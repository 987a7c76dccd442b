---------------------------- MODULE MCProxyEdge -----------------------------
(***************************************************************************)
(* An instance of ProxyEdge for TLC: two providers and a host of neither.  *)
(***************************************************************************)
EXTENDS ProxyEdge, TLC

TwoProviders == {"openai", "OpenAI"}
TwoDomains == "openai" :> "api" @@ "OpenAI" :> "eu_api"
\* Both providers list one path: which of them gets it is not determined.
TwoRoutes == "openai" :> {"chat"} @@ "OpenAI" :> {"chat", "files"}
ThreeHosts == {"api", "eu_api", "elsewhere"}
SomeRequests ==
    {[header |-> h, path |-> p] : h \in {None, "openai", "unknown"}, p \in {"chat", "other"}}
============================================================================
