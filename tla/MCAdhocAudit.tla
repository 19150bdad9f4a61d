---------------------------- MODULE MCAdhocAudit ----------------------------
(* Two writers and three results, all of which can be lost to two short    *)
(* writes at once. Results are alike, and so are writers.                  *)
EXTENDS AdhocAudit, TLC

CONSTANTS t1, t2, r1, r2, r3

MCWriter == {t1, t2}
MCRecordId == {r1, r2, r3}
Symmetry == Permutations(MCWriter) \cup Permutations(MCRecordId)
=============================================================================
