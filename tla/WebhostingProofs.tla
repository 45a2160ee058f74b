--------------------------- MODULE WebhostingProofs ---------------------------
(***************************************************************************)
(* iwinv_webhosting keeps its identities, never repeats a write that may   *)
(* have been accepted, and leaves its state alone when it fails.           *)
(***************************************************************************)
EXTENDS Webhosting, HostedResourceProofs

\* The history variable apart, a step is a step of the resource.
LEMMA StepOrStutter ==
    ASSUME [Next]_hostingVars
    PROVE  [Step]_vars
BY DEF Next, hostingVars

LEMMA PostHostingStep ==
    ASSUME IInv, Post
    PROVE  IInv'
<1>1. want \in Plans /\ want.set \in SUBSET Entries
    BY DEF Post, PostWith, IInv, Base, TypeOK, Ops, Requests, Quiet, Steps, Polling, Writing, Plans
<1> QED BY <1>1, PostStep DEF Post

\* An update of local settings stores the row it reads, or fails.
LEMMA StoreUpdateStep ==
    ASSUME IInv, StoreUpdate
    PROVE  IInv'
<1>1. pc = "precheck" /\ op = "update" /\ Local
    BY DEF StoreUpdate
<1>2. CASE Fail
    BY <1>1, <1>2, FailStep
<1>3. CASE row # None /\ Return(Observed(Subject, row))
    BY <1>1, <1>3, ReturnObserved
<1> QED BY <1>2, <1>3 DEF StoreUpdate

\* IInv is inductive for the webhosting resource.
THEOREM Invariance == Spec => []IInv
<1>1. HostingInit => IInv
    BY InitStep DEF HostingInit
<1>2. IInv /\ [Next]_hostingVars => IInv'
    <2> SUFFICES ASSUME IInv, [Step]_vars PROVE IInv'
        BY StepOrStutter
    <2>1. CASE Core
        BY <2>1, CommonSteps, StartCreateStep, StartUpdateStep DEF Core, StartCreate, StartUpdate
    <2>2. CASE Create
        BY <2>2, PostHostingStep, RejectedStep DEF Create, PostRejected
    <2>3. CASE Wait
        BY <2>3, WaitMoves, ArriveStep, PollAgainStep DEF Wait, AwaitDomain
    <2>4. CASE DeleteCall
        BY <2>4, WriteStep, RejectedStep DEF DeleteCall, WriteRejected
    <2>5. CASE Read
        BY <2>5, RefreshStep, FailStep DEF Read, DomainMissing, IInv, Base, Requests, Quiet
    <2>6. CASE Update \/ Delete
        BY <2>6, PreCheckStep, StoreUpdateStep DEF Update, Delete
    <2>7. CASE Finish \/ Expire \/ EnvironmentStep \/ UNCHANGED vars
        BY <2>7, CommonSteps
    <2> QED BY <2>1, <2>2, <2>3, <2>4, <2>5, <2>6, <2>7 DEF Step, Handler
<1> QED BY <1>1, <1>2, PTL DEF Spec

\* What every step is, as far as the stored state and the services' lives go.
LEMMA StepKinds ==
    ASSUME [Next]_hostingVars
    PROVE  \/ Finish \/ Write \/ Post \/ Local
           \/ StartRead \/ StartImport \/ StartDelete \/ Untaint \/ Crash
           \/ Expire \/ EnvironmentStep \/ UNCHANGED vars
           \/ \E o, st, w, at, g, rs : Start(o, st, w, at, g, rs)
<1>1. Core => \/ StartRead \/ StartImport \/ StartDelete \/ Untaint \/ Crash
              \/ \E o, st, w, at, g, rs : Start(o, st, w, at, g, rs)
    BY DEF Core, StartCreate, StartCreateWith, StartUpdate, StartUpdateAt
<1>2. Wait => Local
    BY DEF Wait, Poll, Arrive, AwaitDomain, GiveUp, KeepGoing, Pause, ListAt, PauseAt
<1>3. Create \/ DeleteCall => Post \/ Write \/ Local
    BY DEF Create, PostRejected, DeleteCall, WriteRejected, RejectedAt
<1>4. Read \/ Update \/ Delete => Local
    BY DEF Read, Refresh, Adopt, DomainMissing, Update, StoreUpdate, PreRead, Delete, PreCheckDelete,
        ListAt
<1> QED BY <1>1, <1>2, <1>3, <1>4, StepOrStutter DEF Step, Handler

\* An identity that a receipt told the provider is not dropped while it lives.
THEOREM IdentityRetainedHolds == Spec => []IdentityRetained
BY Invariance, PTL DEF IInv, Receipts

\* No operation repeats a write that may have been accepted.
THEOREM NoReplayHolds == Spec => []NoReplay
BY Invariance, PTL DEF IInv, Base, Once

\* A failed read, import, update or delete leaves the stored state as it was.
THEOREM FailureKeepsStateHolds == Spec => FailureKeepsState
<1>1. IInv /\ [Next]_hostingVars => [pc = "return" /\ failed /\ op # "create" => tf' = tf]_vars
    BY StepKinds, StateKept, FinishKeepsState DEF Post, IInv
<1> QED BY <1>1, Invariance, PTL DEF Spec, FailureKeepsState

\* The webhosting resource implements the custody of identities.
THEOREM CustodyRefined == Spec => CustodyHolds
<1>1. HostingInit => Custody!Init
    BY CustodyInit DEF HostingInit
<1>2. IInv /\ [Next]_hostingVars => [Custody!Next]_(Custody!vars)
    BY StepKinds, CustodyCommon, CustodyPost DEF Post
<1> QED BY <1>1, <1>2, Invariance, PTL DEF Spec, CustodyHolds, Custody!Spec

-----------------------------------------------------------------------------
\* A create of the webhosting resource waits for its plan.
LEMMA AimedStep ==
    ASSUME IInv, Aimed, [Step]_vars
    PROVE  Aimed'
<1>1. CASE DomainMissing \/ StoreUpdate
    BY <1>1 DEF DomainMissing, StoreUpdate, Fail, Return, Leave, Aimed
<1>2. CASE ~(DomainMissing \/ StoreUpdate)
    BY <1>2, AimedKept DEF Step, Core, Handler, StartCreate, StartUpdate, Create, Post, Wait, AwaitDomain,
        Read, Update, Delete, DeleteCall, IInv
<1> QED BY <1>1, <1>2

\* Informed is inductive for the webhosting resource, relative to IInv and Aimed.
LEMMA InformedStep ==
    ASSUME IInv, Aimed, Informed, [Step]_vars
    PROVE  Informed'
<1>1. CASE Core
    BY <1>1, CoreInforms DEF Core, StartCreate, StartCreateWith, StartUpdate, StartUpdateAt, IInv
<1>2. CASE Create
    BY <1>2, MovesInform, WriteInforms DEF Create, Post, IInv
<1>3. CASE Wait
    BY <1>3, MovesInform, ArriveInforms DEF Wait, AwaitDomain, Arrive, Aimed, IInv
<1>4. CASE Read
    <2>1. CASE DomainMissing
        BY <2>1, LocalInforms DEF DomainMissing, Fail, Leave, IInv, Base, Requests, Quiet
    <2> QED BY <1>4, <2>1, MovesInform DEF Read, IInv
<1>5. CASE Update \/ Delete
    <2>1. CASE StoreUpdate
        \* Nothing was written before it, so that its success claims nothing.
        <3>1. /\ op' = "update" /\ row' = None
              /\ hits'["put"] = 0 /\ hits'["post"] = 0
            BY <2>1 DEF StoreUpdate, Return, Fail, Leave, Local, Frame, requestVars, IInv, Base, Once,
                Informed
        <3> QED BY <3>1 DEF Informed, Claims
    <2> QED BY <1>5, <2>1, MovesInform DEF Update, Delete, IInv
<1>6. CASE DeleteCall
    BY <1>6, MovesInform, WriteInforms DEF DeleteCall, IInv
<1>7. CASE Finish \/ Expire \/ EnvironmentStep \/ UNCHANGED vars
    BY <1>7, CoreInforms, EnvironmentInforms DEF IInv
<1> QED BY <1>1, <1>2, <1>3, <1>4, <1>5, <1>6, <1>7 DEF Step, Handler

\* A create reports success only for the settings and domains that its last list
\* call showed, and that only another hand can have changed since.
THEOREM ConfirmedHolds == Spec => []ConfirmedOnSuccess
<1>1. HostingInit => Aimed /\ Informed
    BY InitInforms DEF HostingInit, Init, Quiet, Aimed
<1>2. IInv /\ Aimed /\ Informed /\ [Next]_hostingVars => (Aimed /\ Informed)'
    BY AimedStep, InformedStep, StepOrStutter
<1>3. Informed => ConfirmedOnSuccess
    BY InformedImplies
<1> QED BY <1>1, <1>2, <1>3, Invariance, PTL DEF Spec
=============================================================================
