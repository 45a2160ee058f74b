------------------------ MODULE SharedStorageProofs -------------------------
(***************************************************************************)
(* iwinv_shared_storage keeps its identities, never repeats a write that may *)
(* have been accepted, and leaves its state alone when it fails.           *)
(***************************************************************************)
EXTENDS SharedStorage, HostedResourceProofs

LEMMA PostNASStep ==
    ASSUME IInv, Post
    PROVE  IInv'
<1>1. want \in Plans /\ want.set \in SUBSET Entries
    BY DEF Post, PostWith, IInv, Base, TypeOK, Ops, Requests, Quiet, Steps, Polling, Writing, Plans
<1> QED BY <1>1, PostStep DEF Post

\* IInv is inductive for the NAS resource.
THEOREM Invariance == Spec => []IInv
<1>1. Init => IInv
    BY InitStep
<1>2. IInv /\ [Next]_vars => IInv'
    <2> SUFFICES ASSUME IInv, [Next]_vars PROVE IInv'
        OBVIOUS
    <2>1. CASE Core
        BY <2>1, CommonSteps, StartCreateStep, StartUpdateStep
            DEF Core, StartCreate, StartUpdate, NASPlans
    <2>2. CASE Create
        BY <2>2, PostNASStep, RejectedStep DEF Create, PostRejected
    <2>3. CASE Wait
        BY <2>3, WaitMoves, ArriveStep DEF Wait
    <2>4. CASE ReplaceOrDelete
        BY <2>4, WriteStep, RejectedStep DEF ReplaceOrDelete, WriteRejected
    <2>5. CASE Read
        BY <2>5, RefreshStep DEF Read
    <2>6. CASE Update \/ Delete
        BY <2>6, PreCheckStep DEF Update, Delete
    <2>7. CASE Finish \/ Expire \/ EnvironmentStep \/ UNCHANGED vars
        BY <2>7, CommonSteps
    <2> QED BY <2>1, <2>2, <2>3, <2>4, <2>5, <2>6, <2>7 DEF Next, Handler
<1> QED BY <1>1, <1>2, PTL DEF Spec

\* What every step is, as far as the stored state and the services' lives go.
LEMMA StepKinds ==
    ASSUME [Next]_vars
    PROVE  \/ Finish \/ Write \/ Post \/ Local
           \/ StartRead \/ StartImport \/ StartDelete \/ Untaint \/ Crash
           \/ Expire \/ EnvironmentStep \/ UNCHANGED vars
           \/ \E o, st, w, at, g, rs : Start(o, st, w, at, g, rs)
<1>1. Core => \/ StartRead \/ StartImport \/ StartDelete \/ Untaint \/ Crash
              \/ \E o, st, w, at, g, rs : Start(o, st, w, at, g, rs)
    BY DEF Core, StartCreate, StartCreateWith, StartUpdate, StartUpdateAt
<1>2. Wait => Local
    BY DEF Wait, Poll, Arrive, GiveUp, KeepGoing, Pause, ListAt, PauseAt
<1>3. Create \/ ReplaceOrDelete => Post \/ Write \/ Local
    BY DEF Create, PostRejected, ReplaceOrDelete, WriteRejected, RejectedAt
<1>4. Read \/ Update \/ Delete => Local
    BY DEF Read, Refresh, Adopt, Update, PreCheckUpdate, PreRead, Delete, PreCheckDelete, ListAt
<1> QED BY <1>1, <1>2, <1>3, <1>4 DEF Next, Handler

\* An identity that a receipt told the provider is not dropped while it lives.
THEOREM IdentityRetainedHolds == Spec => []IdentityRetained
BY Invariance, PTL DEF IInv, Receipts

\* No operation repeats a write that may have been accepted.
THEOREM NoReplayHolds == Spec => []NoReplay
BY Invariance, PTL DEF IInv, Base, Once

\* A failed read, import, update or delete leaves the stored state as it was.
THEOREM FailureKeepsStateHolds == Spec => FailureKeepsState
<1>1. IInv /\ [Next]_vars => [pc = "return" /\ failed /\ op # "create" => tf' = tf]_vars
    BY StepKinds, StateKept, FinishKeepsState DEF Post, IInv
<1> QED BY <1>1, Invariance, PTL DEF Spec, FailureKeepsState

\* The NAS resource implements the custody of identities.
THEOREM CustodyRefined == Spec => CustodyHolds
<1>1. Init => Custody!Init
    BY CustodyInit
<1>2. IInv /\ [Next]_vars => [Custody!Next]_(Custody!vars)
    BY StepKinds, CustodyCommon, CustodyPost DEF Post
<1> QED BY <1>1, <1>2, Invariance, PTL DEF Spec, CustodyHolds, Custody!Spec

-----------------------------------------------------------------------------
\* A create or update of the NAS resource waits for its plan.
LEMMA AimedStep ==
    ASSUME IInv, Aimed, [Next]_vars
    PROVE  Aimed'
BY AimedKept DEF Next, Core, Handler, StartCreate, StartUpdate, Create, Post, Wait, Read, Update, Delete,
    ReplaceOrDelete, IInv

\* Informed is inductive for the NAS resource, relative to IInv and Aimed.
LEMMA InformedStep ==
    ASSUME IInv, Aimed, Informed, [Next]_vars
    PROVE  Informed'
<1>1. CASE Core
    BY <1>1, CoreInforms DEF Core, StartCreate, StartCreateWith, StartUpdate, StartUpdateAt, IInv
<1>2. CASE Create
    BY <1>2, MovesInform, WriteInforms DEF Create, Post, IInv
<1>3. CASE Wait
    BY <1>3, MovesInform, ArriveInforms DEF Wait, Arrive, Aimed, IInv
<1>4. CASE Read \/ Update \/ Delete
    BY <1>4, MovesInform DEF Read, Update, Delete, IInv
<1>5. CASE ReplaceOrDelete
    BY <1>5, MovesInform, WriteInforms DEF ReplaceOrDelete, IInv
<1>6. CASE Finish \/ Expire \/ EnvironmentStep \/ UNCHANGED vars
    BY <1>6, CoreInforms, EnvironmentInforms DEF IInv
<1> QED BY <1>1, <1>2, <1>3, <1>4, <1>5, <1>6 DEF Next, Handler

\* A create or update that wrote reports success only for what its last list call
\* showed; only another hand, a late earlier write included, can have changed it since.
THEOREM ConfirmedHolds == Spec => []ConfirmedOnSuccess
<1>1. Init => Aimed /\ Informed
    BY InitInforms DEF Init, Quiet, Aimed
<1>2. IInv /\ Aimed /\ Informed /\ [Next]_vars => (Aimed /\ Informed)'
    BY AimedStep, InformedStep
<1>3. Informed => ConfirmedOnSuccess
    BY InformedImplies
<1> QED BY <1>1, <1>2, <1>3, Invariance, PTL DEF Spec

\* Before a PUT the last list showed the prior state, and still does in row.
Reviewed ==
    pc = "write" => /\ op \in {"update", "delete"} /\ row = parent
                    /\ op = "update" => Agrees(parent, prior)

\* Every step that reaches the PUT has compared the row with the prior state.
LEMMA ReviewedStep ==
    ASSUME IInv, Reviewed, [Next]_vars
    PROVE  Reviewed'
<1> SUFFICES ASSUME pc' = "write" PROVE Reviewed'
    BY DEF Reviewed
<1>1. CASE PreCheckUpdate
    BY <1>1 DEF PreCheckUpdate, WriteNext, Agrees, Fail, Leave, Local, Frame, requestVars, Reviewed
<1>2. CASE PreCheckDelete
    BY <1>2 DEF PreCheckDelete, WriteNext, Return, Leave, Local, Frame, requestVars, Reviewed
<1>3. CASE Untaint \/ Expire \/ EnvironmentStep \/ UNCHANGED vars
    BY <1>3 DEF Untaint, Expire, EnvironmentStep, vars, requestVars, localVars, Reviewed, Agrees
<1>4. CASE StartCreate \/ StartRead \/ StartImport \/ StartUpdate \/ StartDelete \/ Crash \/ Finish
    BY <1>4 DEF StartCreate, StartCreateWith, StartRead, StartImport, StartUpdate, StartUpdateAt,
        StartDelete, Start, Crash, Finish, FinishCreate, FinishRead, FinishImport, FinishUpdate,
        FinishDelete, Settle
<1>5. CASE Create \/ Wait \/ Read \/ ReplaceOrDelete \/ PreRead
    BY <1>5 DEF Create, Post, PostWith, PostRejected, RejectedAt, Wait, Poll, Arrive, GiveUp, KeepGoing,
        Pause, ListAt, PauseAt, Goto, PollAgain, PollNext, Read, Refresh, Adopt, ReplaceOrDelete, Write,
        WriteRejected, PreRead, Fail, Return, Leave
<1> QED BY <1>1, <1>2, <1>3, <1>4, <1>5 DEF Next, Core, Handler, Update, Delete

\* No permission set is replaced unless the last list call showed the set, and the
\* settings, of the state that the plan was made for.
THEOREM ReviewedReplaceHolds == Spec => ReviewedReplace
<1>1. Init => Reviewed
    BY DEF Init, Quiet, Reviewed
<1>2. IInv /\ Reviewed /\ [Next]_vars =>
        [hits'["put"] > hits["put"] => row = parent /\ Agrees(parent, prior)]_vars
    <2> SUFFICES ASSUME IInv, Reviewed, Next, hits'["put"] > hits["put"]
                 PROVE  row = parent /\ Agrees(parent, prior)
        OBVIOUS
    <2>1. Write /\ op # "delete"
        BY StepKinds, CountedWrites DEF Post, IInv
    <2> QED BY <2>1 DEF Write, Reviewed
<1> QED BY <1>1, <1>2, Invariance, ReviewedStep, PTL DEF Spec, ReviewedReplace
=============================================================================
