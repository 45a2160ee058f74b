--------------------------- MODULE FirewallResource ---------------------------
(***************************************************************************)
(* What security groups and their rules share.  Neither has a status, so   *)
(* neither a row nor a state says that the object was ever seen, and the   *)
(* row of HostedService keeps the status it was born with.  The owned set  *)
(* stands for all settings that an update can change; the description,     *)
(* which an update may leave out, is the part of it in Description.        *)
(***************************************************************************)
EXTENDS HostedResource

CONSTANT Description    \* the members of Entries that stand for the description

ASSUME DescriptionAssumption == Description \subseteq Entries

-----------------------------------------------------------------------------
Post == PostWith(want.set, want.set, want)

\* wait compares the settings and nothing else.
\* (Fault: any answer that shows the object ends the wait.)
Matched_Exists == IF goal = None THEN row = None ELSE row # None
Matched == IF goal = None THEN row = None ELSE Agrees(row, goal)

\* Create and Update store the plan they have waited for, not the row.
Arrived ==
    /\ pc = "judge" /\ Matched
    /\ Return(IF op = "delete" THEN None ELSE [resp EXCEPT !.set = want.set])
    /\ Local

KeepWaiting == pc = "judge" /\ ~Matched /\ PollAgain /\ Local

-----------------------------------------------------------------------------
\* Read takes the empty answer for absence, whatever it knows of the object.
AdoptAnswer ==
    /\ pc = "adopt"
    /\ Return(IF row = None THEN None
              ELSE [Observed(Subject, row) EXCEPT !.status = None])
    /\ Local

-----------------------------------------------------------------------------
\* Update writes without reading first.  A change of timeouts alone writes
\* nothing and reads nothing.
StartChange(w) ==
    /\ tf # None /\ ~tainted
    /\ IF tf.set = w.set THEN Start("update", tf, w, "return", None, tf)
                         ELSE StartUpdateAt(w, "write")

\* The body of the PUT: an unchanged description is left out, and keeps the
\* value it has on the other side when the change takes effect.
Body == LET kept == IF want.set \cap Description = prior.set \cap Description
                    THEN Description ELSE {}
        IN  [set |-> want.set \ kept, keep |-> kept]

\* (Fault: an uncertain update is tried again.)
Change_Retries ==
    /\ pc = "write" /\ op = "update" /\ Admitted
    /\ SendSet(Subject, Body)
    /\ Hit("put")
    /\ PollNext \/ Goto("write")
    /\ Frame /\ UNCHANGED <<touched, receipts>>

\* Accepted, acknowledged or not, or still in transit when the call times out.
Change ==
    /\ pc = "write" /\ op = "update" /\ Admitted
    /\ SendSet(Subject, Body)
    /\ Hit("put")
    /\ PollNext \/ Fail
    /\ Frame /\ UNCHANGED <<touched, receipts>>

-----------------------------------------------------------------------------
\* Delete is done when its first read shows nothing.
PreCheckAbsent ==
    /\ pc = "precheck" /\ op = "delete"
    /\ IF row = None THEN Return(None) ELSE WriteNext(resp) /\ UNCHANGED goal
    /\ Local

Remove == op = "delete" /\ Write

-----------------------------------------------------------------------------
\* Core's side, given the plans it can make for a create and for an update.
CoreWith(creates, updates) ==
    \/ StartCreateWith(creates)
    \/ StartRead \/ StartImport \/ StartDelete
    \/ \E w \in updates : StartChange(w)
    \/ Untaint \/ Crash

\* There is no status to change.
FirewallEnvironment ==
    /\ EnvironmentStep
    /\ \A i \in Ids : svc'[i] # None => svc'[i].status = "pending"
=============================================================================
