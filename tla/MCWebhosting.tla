---------------------------- MODULE MCWebhosting ----------------------------
(* Instances of Webhosting for TLC. *)
EXTENDS Webhosting, TLC

\* Identities are interchangeable.
IdSymmetry == Permutations(Ids)

\* Bound of the two-identity run: services follow each other, as in a
\* replacement, and never live side by side.
OneLive == Cardinality({i \in Ids : life[i] \in {"alive", "dying"}}) <= 1
=============================================================================
