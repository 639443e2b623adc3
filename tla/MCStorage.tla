----------------------------- MODULE MCStorage -----------------------------
(* Instances of Storage for TLC. *)
EXTENDS Storage, FiniteSets

CONSTANTS MaxRows, MaxRaceTime

\* The rows share the clock and the transaction and nothing else: not all are there, or
\* about to be, at the same time.
FewRows ==
    Cardinality({i \in Ids : \/ rows[i].there \/ saved[i].there
                            \/ \E c \in checked : c.id = i
                            \/ \E b \in batches : i \in b.left}) <= MaxRows

\* Races and failed transactions are about the order of the statements, not about age:
\* they are followed early on only.
EarlyRaces ==
    failed \/ Cardinality(checked \cup batches) > 1 => now <= MaxRaceTime
=============================================================================
