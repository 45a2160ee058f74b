----------------------------- MODULE TerraformRun -----------------------------
(***************************************************************************)
(* One Terraform command after another: a plan, which may read a list for  *)
(* a data source first, and an apply of what was planned for one resource. *)
(* Each has a provider process of its own, and all its calls go through    *)
(* the client.                                                             *)
(***************************************************************************)
EXTENDS PagedList, Planning

vars == <<callVars, listVars, planVars>>

TypeOK == CallTypeOK /\ ListTypeOK /\ PlanTypeOK

Init == CallInit /\ NoList /\ NoPlan

-----------------------------------------------------------------------------
\* Core reads a data source first, page by page.
BeginList == StartList /\ step = "off" /\ UNCHANGED <<callVars, planVars>>
NextPage == AskPage /\ UNCHANGED planVars

ListExchange ==
    /\ reading = "reading" /\ Exchange
    /\ IF stage' = "idle" THEN Truthful /\ TakePage ELSE UNCHANGED listVars
    /\ UNCHANGED planVars

\* Core keeps what a data source has read.
KeepList == reading = "published" /\ ForgetList /\ UNCHANGED <<callVars, planVars>>

\* The resource is planned when its data sources have been read.
PlanResource == reading = "off" /\ MakePlan /\ UNCHANGED <<callVars, listVars>>

\* The apply: its steps between the calls, and its calls.
ApproveApply == Approve /\ Exit /\ UNCHANGED listVars

ApplyStep ==
    /\ BeginReplace \/ Resolve \/ ApplyCreate \/ ApplyUpdate
    /\ UNCHANGED <<callVars, listVars>>

Calling == step \in {"deleting", "creating", "updating"}

SendCall == Calling /\ Begin(CallOf) /\ UNCHANGED <<listVars, planVars>>

\* A call that was acknowledged may still not be verified; a busy one may be sent
\* again.
CallExchange ==
    /\ Calling /\ Exchange
    /\ IF stage' # "idle" THEN UNCHANGED planVars
       ELSE \/ outcome' = "ok" /\ (Deleted \/ Applied)
            \/ outcome' = "busy" /\ UNCHANGED planVars
            \/ CallFailed
    /\ UNCHANGED listVars

\* The command is over.
NewCommand ==
    /\ reading = "failed" \/ step \in {"applied", "refused", "conflict", "failed"}
    /\ ForgetList /\ ForgetPlan /\ Exit

Outside ==
    \/ Deliver /\ UNCHANGED <<listVars, planVars>>
    \/ (InsertRow \/ RemoveRow) /\ stage = "idle" /\ UNCHANGED <<callVars, planVars>>
    \/ Cancel /\ stage # "idle" /\ UNCHANGED <<listVars, planVars>>

Provider == BeginList \/ NextPage \/ ListExchange \/ SendCall \/ CallExchange

Next == \/ Provider \/ Outside
        \/ KeepList \/ PlanResource \/ ApproveApply \/ ApplyStep \/ NewCommand

Spec == Init /\ [][Next]_vars

\* The provider's goroutine is scheduled, and the timer of an exchange expires.
FairSpec == Spec /\ WF_vars(Provider)
=============================================================================
