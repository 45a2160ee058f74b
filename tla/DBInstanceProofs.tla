-------------------------- MODULE DBInstanceProofs --------------------------
(***************************************************************************)
(* iwinv_db_instance keeps its identities, never repeats a write that may  *)
(* have been accepted, and leaves its state alone when it fails.           *)
(***************************************************************************)
EXTENDS DBInstance, HostedResourceProofs

LEMMA PostDBStep ==
    ASSUME IInv, Post
    PROVE  IInv'
<1>1. want \in Plans /\ want.set \in SUBSET Entries
    BY DEF Post, PostWith, IInv, Base, TypeOK, Ops, Requests, Quiet, Steps, Polling, Writing, Plans
<1> QED BY <1>1, PostStep DEF Post

\* IInv is inductive for the DBMS resource.
THEOREM Invariance == Spec => []IInv
<1>1. Init => IInv
    BY InitStep
<1>2. IInv /\ [Next]_vars => IInv'
    <2> SUFFICES ASSUME IInv, [Next]_vars PROVE IInv'
        OBVIOUS
    <2>1. CASE Core
        BY <2>1, CommonSteps, StartCreateStep, StartUpdateStep
            DEF Core, StartCreate, StartUpdate, DBPlans
    <2>2. CASE Create
        BY <2>2, PostDBStep, RejectedStep DEF Create, PostRejected
    <2>3. CASE Wait
        BY <2>3, WaitMoves, ArriveStep, PollAgainStep DEF Wait, AwaitAddress
    <2>4. CASE Update \/ (op = "delete" /\ ReplaceOrDelete)
        BY <2>4, WriteStep, RejectedStep DEF Update, ReplaceOrDelete, WriteRejected
    <2>5. CASE Read
        BY <2>5, RefreshStep, FailStep DEF Read, AddressMissing, IInv, Base, Requests, Quiet
    <2>6. CASE PreRead \/ PreCheckDelete
        BY <2>6, PreCheckStep
    <2>7. CASE Finish \/ Expire \/ EnvironmentStep \/ UNCHANGED vars
        BY <2>7, CommonSteps
    <2> QED BY <2>1, <2>2, <2>3, <2>4, <2>5, <2>6, <2>7 DEF Next, Handler, Delete
<1> QED BY <1>1, <1>2, PTL DEF Spec

\* What every step is, as far as the stored state and the services' lives go.
LEMMA StepKinds ==
    ASSUME [Next]_vars
    PROVE  \/ Finish \/ Write \/ Post \/ Local
           \/ StartRead \/ StartImport \/ StartDelete \/ Untaint \/ Crash
           \/ Expire \/ EnvironmentStep \/ UNCHANGED vars
           \/ \E o, st, w, at, g, rs : Start(o, st, w, at, g, rs)
<1>1. Core => \/ StartRead \/ StartImport \/ StartDelete \/ Untaint \/ Crash
              \/ \E o, st, w, at, g, rs : Start(o, st, w, at, g, rs)
    BY DEF Core, StartCreate, StartCreateWith, StartUpdate, StartUpdateAt
<1>2. Wait => Local
    BY DEF Wait, Poll, Arrive, AwaitAddress, GiveUp, KeepGoing, Pause, ListAt, PauseAt
<1>3. Create \/ Update \/ ReplaceOrDelete => Post \/ Write \/ Local
    BY DEF Create, PostRejected, Update, ReplaceOrDelete, WriteRejected, RejectedAt
<1>4. Read \/ PreRead \/ PreCheckDelete => Local
    BY DEF Read, Refresh, Adopt, AddressMissing, PreRead, PreCheckDelete, ListAt
<1> QED BY <1>1, <1>2, <1>3, <1>4 DEF Next, Handler, Delete

\* An identity that a receipt told the provider is not dropped while it lives.
THEOREM IdentityRetainedHolds == Spec => []IdentityRetained
BY Invariance, PTL DEF IInv, Receipts

\* No operation repeats a write that may have been accepted.
THEOREM NoReplayHolds == Spec => []NoReplay
BY Invariance, PTL DEF IInv, Base, Once

\* A failed read, import, update or delete leaves the stored state as it was.
THEOREM FailureKeepsStateHolds == Spec => FailureKeepsState
<1>1. IInv /\ [Next]_vars => [pc = "return" /\ failed /\ op # "create" => tf' = tf]_vars
    BY StepKinds, StateKept, FinishKeepsState DEF Post, IInv
<1> QED BY <1>1, Invariance, PTL DEF Spec, FailureKeepsState

\* The DBMS resource implements the custody of identities.
THEOREM CustodyRefined == Spec => CustodyHolds
<1>1. Init => Custody!Init
    BY CustodyInit
<1>2. IInv /\ [Next]_vars => [Custody!Next]_(Custody!vars)
    BY StepKinds, CustodyCommon, CustodyPost DEF Post
<1> QED BY <1>1, <1>2, Invariance, PTL DEF Spec, CustodyHolds, Custody!Spec

-----------------------------------------------------------------------------
\* A create or update of the DBMS resource waits for its plan.
LEMMA AimedStep ==
    ASSUME IInv, Aimed, [Next]_vars
    PROVE  Aimed'
<1>1. CASE AddressMissing
    BY <1>1 DEF AddressMissing, Fail, Leave, Aimed
<1>2. CASE ~AddressMissing
    BY <1>2, AimedKept DEF Next, Core, Handler, StartCreate, StartUpdate, Create, Post, Wait, AwaitAddress,
        Read, Update, Delete, ReplaceOrDelete, IInv
<1> QED BY <1>1, <1>2

\* Informed is inductive for the DBMS resource, relative to IInv and Aimed.
LEMMA InformedStep ==
    ASSUME IInv, Aimed, Informed, [Next]_vars
    PROVE  Informed'
<1>1. CASE Core
    BY <1>1, CoreInforms DEF Core, StartCreate, StartCreateWith, StartUpdate, StartUpdateAt, IInv
<1>2. CASE Create
    BY <1>2, MovesInform, WriteInforms DEF Create, Post, IInv
<1>3. CASE Wait
    BY <1>3, MovesInform, ArriveInforms DEF Wait, AwaitAddress, Arrive, Aimed, IInv
<1>4. CASE Read
    <2>1. CASE AddressMissing
        BY <2>1, LocalInforms DEF AddressMissing, Fail, Leave, IInv, Base, Requests, Quiet
    <2> QED BY <1>4, <2>1, MovesInform DEF Read, IInv
<1>5. CASE Update \/ Delete
    BY <1>5, MovesInform, WriteInforms DEF Update, Delete, ReplaceOrDelete, IInv
<1>6. CASE Finish \/ Expire \/ EnvironmentStep \/ UNCHANGED vars
    BY <1>6, CoreInforms, EnvironmentInforms DEF IInv
<1> QED BY <1>1, <1>2, <1>3, <1>4, <1>5, <1>6 DEF Next, Handler

\* A create or update that wrote reports success only for what its last list call
\* showed, although an update reads nothing before it writes; only another hand, a
\* late earlier write included, can have changed it since.
THEOREM ConfirmedHolds == Spec => []ConfirmedOnSuccess
<1>1. Init => Aimed /\ Informed
    BY InitInforms DEF Init, Quiet, Aimed
<1>2. IInv /\ Aimed /\ Informed /\ [Next]_vars => (Aimed /\ Informed)'
    BY AimedStep, InformedStep
<1>3. Informed => ConfirmedOnSuccess
    BY InformedImplies
<1> QED BY <1>1, <1>2, <1>3, Invariance, PTL DEF Spec
=============================================================================
