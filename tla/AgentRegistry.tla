--------------------------- MODULE AgentRegistry ---------------------------
(***************************************************************************)
(* The registry of discovered agents (internal/discovery/registry.go).     *)
(* Two goroutines report to it: the scanner (discoveryLoop, which lists    *)
(* processes and session files) and the OpenClaw adapter (the sessions of  *)
(* its last refresh). An agent is its id; ids carry their source's prefix. *)
(***************************************************************************)
EXTENDS Naturals, FiniteSets

CONSTANTS Sources, Agents

VARIABLES
    agents,   \* Registry.agents: the ids it lists
    sources   \* Registry.sources: the ids each source last reported

registryVars == <<agents, sources>>

RegistryInit == agents = {} /\ sources = [s \in Sources |-> {}]

\* Mutant: only what the source has just reported is listed.
ReplaceEverySource(source, next) ==
    /\ agents' = next
    /\ sources' = [sources EXCEPT ![source] = next]

(* ReplaceSource: the reported agents are put in, those the source no      *)
(* longer reports are taken out.                                           *)
ReplaceSource(source, next) ==
    /\ agents' = (agents \cup next) \ (sources[source] \ next)
    /\ sources' = [sources EXCEPT ![source] = next]

============================================================================
