---------------------------- MODULE MCContentCache --------------------------
(* Instances of ContentCache for TLC. *)
EXTENDS ContentCache, TLC

\* Referrers are interchangeable; used in the run that checks safety only.
EntrySymmetry == Permutations(Entries)

\* Bound: one late replacement at a time is on its way when an operation starts;
\* an update's own comes on top of it.  None meets a deletion, where an outside
\* edit does what it would.
OneLate ==
    \A i \in Ids : Cardinality(job[i]) <= CASE op = "update" -> 2
                                           [] op = "delete" -> 0
                                           [] OTHER -> 1
=============================================================================
