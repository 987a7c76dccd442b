---------------------------- MODULE MCLogParsers ----------------------------
(* Three session files: two under a Codex directory that have sessions of  *)
(* their own, and one elsewhere that shares its base name with the second. *)
(* A session_meta may name either session, or one that no file has.        *)
EXTENDS LogParsers

CONSTANTS codex1, codex2, claude, s1, s2, other, m1, m2

MCFiles == {codex1, codex2, claude}
MCCodexFiles == {codex1, codex2}
MCSessionIds == {s1, s2, other}
MCSessionOf == [f \in MCFiles |-> IF f = codex1 THEN s1 ELSE s2]
MCModels == {m1, m2}

=============================================================================
