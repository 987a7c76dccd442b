----------------------------- MODULE MCOpenClaw -----------------------------
(* A small instance of OpenClaw for TLC.                                   *)
EXTENDS OpenClaw

CONSTANTS s1, s2, r1, m1, m2, m3, anthropic, openai

MCSessions == {s1, s2}
MCLists == {(s1 :> m1), (s2 :> m1)}
MCEvents == { [kind |-> "chat", run |-> r1, session |-> s1],
              [kind |-> "agent", run |-> r1, session |-> s2],
              [kind |-> "exec"] }
\* Two models of one provider, one of another.
MCProviderOf == m1 :> anthropic @@ m2 :> anthropic @@ m3 :> openai
MCSources == {"scanner", "openclaw-gateway"}
MCScanned == {<<"claude-code", 1>>}
MCAgents == MCScanned \cup {agentOf(s) : s \in Sessions}

=============================================================================
