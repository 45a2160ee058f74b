---------------------------- MODULE CallContract ----------------------------
(***************************************************************************)
(* What one call of the client promises its caller, without saying how: it *)
(* asks for at most one effect, "ok" means that the API took it, "busy"    *)
(* that it did not and will not, and an error or an empty set says nothing *)
(* at all, so that the effect may even follow after the call has returned. *)
(***************************************************************************)
EXTENDS Naturals

CONSTANT None

VARIABLES
    effect,     \* how often the API took the request of this call
    outcome     \* what the call returned, or None while it runs

vars == <<effect, outcome>>

Outcomes == {"ok", "busy", "empty", "error"}
Uncertain == {"empty", "error"}

Init == effect = 0 /\ outcome = "error"

Begin == outcome # None /\ effect' = 0 /\ outcome' = None

Take == /\ effect = 0 /\ outcome \in {None} \cup Uncertain
        /\ effect' = 1 /\ UNCHANGED outcome

Return(o) ==
    /\ outcome = None
    /\ o = "ok" => effect = 1
    /\ o = "busy" => effect = 0
    /\ outcome' = o /\ UNCHANGED effect

\* The process ends between two calls; another one starts.
Exit == outcome # None /\ effect' = 0 /\ outcome' = "error"

Next == Begin \/ Take \/ Exit \/ \E o \in Outcomes : Return(o)

Spec == Init /\ [][Next]_vars
=============================================================================
