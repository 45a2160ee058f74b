------------------------------ MODULE Webhosting ------------------------------
(***************************************************************************)
(* The iwinv_webhosting resource.  There is no update call: every remote   *)
(* setting, the custom domains (the owned set) included, is fixed at the   *)
(* POST, and an update only re-reads the service after a local change.     *)
(***************************************************************************)
EXTENDS HostedResource

VARIABLE onceActive     \* history: the state has recorded the service as active

hostingVars == <<vars, onceActive>>

NeedsReplacement(s, w) == s.config # w.config \/ s.set # w.set

-----------------------------------------------------------------------------
StartCreate == StartCreateWith(Plans)
Post == PostWith(want.set, want.set, want)

Create == Post \/ PostRejected

\* A row without its service-managed default domain is no match for wait and an
\* error to the handlers that store what they read.
AwaitDomain == pc = "judge" /\ goal # None /\ Reached /\ PollAgain /\ Local

Wait == Poll \/ Arrive \/ AwaitDomain \/ GiveUp \/ KeepGoing \/ Pause

DomainMissing == pc = "adopt" /\ row # None /\ Fail /\ Local

Read == Refresh \/ Adopt \/ DomainMissing

-----------------------------------------------------------------------------
\* Update: only local settings changed.  It stores whatever it reads.
StartUpdate ==
    \E w \in Plans :
        /\ tf # None /\ ~NeedsReplacement(tf, w)
        /\ StartUpdateAt(w, "preread")

\* (Fault: what was read is stored before its default domain is looked for.)
StoreUpdate_BeforeCheck ==
    /\ pc = "precheck" /\ op = "update"
    /\ row # None
    /\ Leave /\ resp' = Observed(Subject, row) /\ failed' \in BOOLEAN
    /\ Local

StoreUpdate ==
    /\ pc = "precheck" /\ op = "update"
    /\ \/ row # None /\ Return(Observed(Subject, row))
       \/ Fail      \* no row, or a row without its default domain
    /\ Local

Update == PreRead \/ StoreUpdate
Delete == PreCheckDelete

DeleteCall == Write \/ WriteRejected

-----------------------------------------------------------------------------
Core == \/ StartCreate \/ StartRead \/ StartImport \/ StartUpdate \/ StartDelete
        \/ Untaint \/ Crash

Handler == Create \/ Wait \/ Read \/ Update \/ Delete \/ DeleteCall \/ Finish

Step == Core \/ Handler \/ Expire \/ EnvironmentStep

Next ==
    /\ Step
    /\ onceActive' = (tf' # None /\ (onceActive \/ Verified(tf')))

HostingInit == Init /\ onceActive = FALSE

Spec == HostingInit /\ [][Next]_hostingVars

-----------------------------------------------------------------------------
\* What design/en/webhosting-lifecycle.md says of Read: a service that was active
\* once and is missing from a validated list is treated as externally deleted.
OnceActiveAbsenceRemoves ==
    [][op = "read" /\ pc = "adopt" /\ row = None /\ onceActive => ~failed']_hostingVars
=============================================================================
