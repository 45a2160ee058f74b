------------------------------ MODULE DBInstance ------------------------------
(***************************************************************************)
(* The iwinv_db_instance resource.  It differs from the NAS in two places: *)
(* an update replaces the allowed IPs without reading the parent first,    *)
(* and a row without its default address is an error to Read, and no match *)
(* to wait.                                                                *)
(***************************************************************************)
EXTENDS HostedResource

\* A plan names at least one allowed IP; a service may show none.
DBPlans == {w \in Plans : w.set # {}}

NeedsReplacement(s, w) == s.config # w.config

-----------------------------------------------------------------------------
StartCreate == StartCreateWith(DBPlans)
Post == PostWith(want.set, want.set, want)

Create == Post \/ PostRejected

\* A matching, active row may still lack its default address for a while.
AwaitAddress == pc = "judge" /\ goal # None /\ Reached /\ PollAgain /\ Local

Wait == Poll \/ Arrive \/ AwaitAddress \/ GiveUp \/ KeepGoing \/ Pause

\* Read refuses a row without the default address and keeps the state.
AddressMissing == pc = "adopt" /\ row # None /\ Fail /\ Local

Read == Refresh \/ Adopt \/ AddressMissing

\* The write is decided on the plan and the prior state alone.
StartUpdate ==
    \E w \in DBPlans :
        /\ tf # None /\ ~NeedsReplacement(tf, w)
        /\ StartUpdateAt(w, IF tf.set = w.set THEN "poll" ELSE "write")

ReplaceOrDelete == Write \/ WriteRejected

Update == op = "update" /\ ReplaceOrDelete

Delete == PreRead \/ PreCheckDelete \/ (op = "delete" /\ ReplaceOrDelete)

-----------------------------------------------------------------------------
Core == \/ StartCreate \/ StartRead \/ StartImport \/ StartUpdate \/ StartDelete
        \/ Untaint \/ Crash

Handler == Create \/ Wait \/ Read \/ Update \/ Delete \/ Finish

Next == Core \/ Handler \/ Expire \/ EnvironmentStep

Spec == Init /\ [][Next]_vars

\* As for the cache: handlers are scheduled and contexts have deadlines.
FairSpec == Spec /\ WF_vars(Handler) /\ WF_vars(Expire)
=============================================================================
