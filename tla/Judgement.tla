----------------------------- MODULE Judgement ------------------------------
(***************************************************************************)
(* Outcomes, and how the enforcement of a triggered commandment raises     *)
(* them (internal/audit/logger.go).  Used by the audit logger, which       *)
(* judges every event, and by the model of the proxy, whose events the     *)
(* logger judges again.                                                    *)
(***************************************************************************)
EXTENDS Naturals

Outcomes == {"success", "warned", "failure", "blocked"}
Enforcements == {"warn", "block"}

OutcomeRank(o) ==
  CASE o = "success" -> 0
    [] o = "warned"  -> 1
    [] o = "failure" -> 2
    [] o = "blocked" -> 3

\* Mutant: the adapter's ability to enforce is not looked at.
OutcomeAnyAdapter(enf, adapter) == IF enf = "warn" THEN "warned" ELSE "blocked"

OutcomeForEnforcement(enf, adapter) ==
  CASE enf = "warn" -> "warned"
    [] enf = "block" -> IF adapter = "log_watcher" THEN "warned" ELSE "blocked"

\* The outcome is raised to the highest candidate, never lowered.
RaisedOutcome(outcome, adapter, triggered) ==
  LET candidates == {outcome} \cup
                    {OutcomeForEnforcement(t, adapter) : t \in triggered}
  IN  CHOOSE o \in candidates :
        \A p \in candidates : OutcomeRank(p) <= OutcomeRank(o)
=============================================================================
