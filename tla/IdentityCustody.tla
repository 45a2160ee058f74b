--------------------------- MODULE IdentityCustody ---------------------------
(***************************************************************************)
(* What every resource of the provider promises about identities, without  *)
(* saying how: the one identity a resource address holds is let go only    *)
(* when the object it names no longer counts as alive, and an address that *)
(* holds an identity takes no other one.                                   *)
(***************************************************************************)
CONSTANTS Ids, None

VARIABLES
    held,   \* the identity in the stored state, or None
    alive,  \* objects that exist and whose deletion was not accepted
    born    \* objects that were ever created

vars == <<held, alive, born>>

TypeOK == held \in Ids \cup {None} /\ alive \subseteq Ids /\ born \subseteq Ids

Init == held = None /\ alive = {} /\ born = {}

\* A create request is accepted, whether or not its receipt comes back.
Create(i) ==
    /\ i \notin born
    /\ born' = born \cup {i} /\ alive' = alive \cup {i}
    /\ UNCHANGED held

\* A deletion is accepted, from Terraform or from anybody else.
End(i) == i \in alive /\ alive' = alive \ {i} /\ UNCHANGED <<held, born>>

\* A create returns with its identity, or an import succeeds.
Take(i) == held = None /\ i \in born /\ held' = i /\ UNCHANGED <<alive, born>>

Release == held # None /\ held \notin alive /\ held' = None /\ UNCHANGED <<alive, born>>

Next == Release \/ \E i \in Ids : Create(i) \/ End(i) \/ Take(i)

Spec == Init /\ [][Next]_vars
=============================================================================
