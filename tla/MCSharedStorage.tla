---------------------------- MODULE MCSharedStorage -------------------------
(* Instances of SharedStorage for TLC. *)
EXTENDS SharedStorage, TLC

\* Permissions are interchangeable.
EntrySymmetry == Permutations(Entries)

\* Bound: one late replacement at a time is on its way when an operation starts;
\* the operation's own comes on top of it.
OneLate == \A i \in Ids : Cardinality(job[i]) <= IF op = "idle" THEN 1 ELSE 2
=============================================================================
