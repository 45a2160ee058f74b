-------------------------- MODULE ContentCacheProofs --------------------------
(***************************************************************************)
(* iwinv_content_cache keeps its identities, never repeats a write that    *)
(* may have been accepted, and leaves its state alone when it fails, for   *)
(* any sets of identities, settings and referrers.                         *)
(***************************************************************************)
EXTENDS ContentCache, HostedResourceProofs

LEMMA PostCacheStep ==
    ASSUME IInv, Post
    PROVE  IInv'
<1>1. want \in Plans
    BY DEF Post, PostWith, IInv, Base, TypeOK, Ops, Requests, Quiet, Steps, Polling, Writing
<1>2. [want EXCEPT !.set = {}] \in Plans
    BY <1>1 DEF Plans
<1> QED BY <1>2, PostStep DEF Post

\* The second phase of a create starts from a row that was verified.
LEMMA BeginReferrersStep ==
    ASSUME IInv, BeginReferrers
    PROVE  IInv'
<1> DEFINE new == Observed(Subject, row)
<1>0. /\ op = "create" /\ pc = "judge" /\ Local /\ goal # want
      /\ pc' = "write" /\ parent' = row /\ resp' = new /\ goal' = want
      /\ UNCHANGED <<row, failed>>
      /\ row # None /\ want # None
    BY DEF BeginReferrers, WriteNext, Reached, Agrees, IInv, Base, Requests, Steps
<1>1. /\ new \in States /\ new # None /\ new.id = resp.id /\ Seen(resp.id)
      /\ resp.id \in Ids /\ life[resp.id] # "unborn"
    <2>1. Subject = resp.id /\ op # "idle" /\ pc \notin {"post", "return"} /\ Base
        BY <1>0 DEF Subject, IInv
    <2>2. resp.id \in Ids /\ new \in States /\ new # None /\ new.id = resp.id
        BY <1>0, <2>1, ObservedRow
    <2>3. Seen(resp.id)
        BY <1>0, <2>1 DEF IInv, Evidence
    <2> QED BY <2>1, <2>2, <2>3 DEF Base, Services, Seen
<1> HIDE DEF new
<1> USE <1>0, <1>1 DEF Local, Frame
<1>2. TypeOK'
    BY LocalKeeps DEF IInv, Base, TypeOK, coreVars, requestVars, Pcs
<1>3. Requests'
    BY DEF IInv, Base, Requests, Steps, coreVars, requestVars, Writing
<1>4. Answers'
    BY DEF IInv, Base, Answers, coreVars, requestVars
<1>5. Evidence'
    BY DEF IInv, Base, Evidence, coreVars, requestVars, Subject, remoteVars, Seen, Ended
<1>6. Receipts'
    BY DEF IInv, Base, Receipts, IdentityRetained, coreVars, requestVars, remoteVars
<1>7. Once'
    BY DEF IInv, Base, Once, NoReplay, requestVars, Polling, Writing
<1> QED BY <1>2, <1>3, <1>4, <1>5, <1>6, <1>7, LocalKeeps DEF IInv, Base

\* The busy loop: only rejected attempts, reads and pauses.
LEMMA WriteLoopStep ==
    ASSUME IInv, WriteLoop
    PROVE  IInv'
<1>1. CASE Write
    BY <1>1, WriteStep
<1>2. CASE WriteRejected
    BY <1>2, RejectedStep DEF WriteRejected
<1>3. CASE WriteBusy
    BY <1>3, FailStep, GotoStep DEF WriteBusy, Writing, IInv, Base, Requests, Quiet
<1>4. CASE Reconcile
    BY <1>4, ListStep DEF Reconcile, Calls
<1>5. CASE Compare
    BY <1>5, FailStep, GotoStep DEF Compare, Writing, IInv, Base, Requests, Quiet
<1>6. CASE BackOff
    BY <1>6, PauseStep DEF BackOff
<1> QED BY <1>1, <1>2, <1>3, <1>4, <1>5, <1>6 DEF WriteLoop

LEMMA WaitStep ==
    ASSUME IInv, Wait
    PROVE  IInv'
BY BeginReferrersStep, ArriveStep, WaitMoves DEF Wait, Finished

LEMMA StartUpdateCacheStep ==
    ASSUME IInv, StartUpdate
    PROVE  IInv'
BY StartUpdateStep DEF StartUpdate

LEMMA StartCreateCacheStep ==
    ASSUME IInv, StartCreate
    PROVE  IInv'
BY StartCreateStep DEF StartCreate

\* IInv is inductive for the cache.
THEOREM Invariance == Spec => []IInv
<1>1. Init => IInv
    BY InitStep
<1>2. IInv /\ [Next]_vars => IInv'
    <2> SUFFICES ASSUME IInv, [Next]_vars PROVE IInv'
        OBVIOUS
    <2>1. CASE Core
        BY <2>1, CommonSteps, StartCreateCacheStep, StartUpdateCacheStep DEF Core
    <2>2. CASE Create
        BY <2>2, PostCacheStep, RejectedStep DEF Create, PostRejected
    <2>3. CASE Wait
        BY <2>3, WaitStep
    <2>4. CASE WriteLoop
        BY <2>4, WriteLoopStep
    <2>5. CASE Read
        BY <2>5, RefreshStep DEF Read
    <2>6. CASE Update \/ Delete
        BY <2>6, PreCheckStep DEF Update, Delete
    <2>7. CASE Finish \/ Expire \/ EnvironmentStep \/ UNCHANGED vars
        BY <2>7, CommonSteps
    <2> QED BY <2>1, <2>2, <2>3, <2>4, <2>5, <2>6, <2>7 DEF Next, Handler
<1> QED BY <1>1, <1>2, PTL DEF Spec

\* Every variable keeps its type: no handler ever stores half a state.
THEOREM TypeCorrect == Spec => []TypeOK
BY Invariance, PTL DEF IInv, Base

\* An identity that a receipt told the provider is not dropped while it lives.
THEOREM IdentityRetainedHolds == Spec => []IdentityRetained
BY Invariance, PTL DEF IInv, Receipts

\* No operation repeats a write that may have been accepted, busy loop included.
THEOREM NoReplayHolds == Spec => []NoReplay
BY Invariance, PTL DEF IInv, Base, Once

\* What every step is, as far as the stored state and the services' lives go.
LEMMA StepKinds ==
    ASSUME [Next]_vars
    PROVE  \/ Finish \/ Write \/ Post \/ Local
           \/ StartRead \/ StartImport \/ StartDelete \/ Untaint \/ Crash
           \/ Expire \/ EnvironmentStep \/ UNCHANGED vars
           \/ \E o, st, w, at, g, rs : Start(o, st, w, at, g, rs)
<1>1. Core => \/ StartRead \/ StartImport \/ StartDelete \/ Untaint \/ Crash
              \/ \E o, st, w, at, g, rs : Start(o, st, w, at, g, rs)
    BY DEF Core, StartCreate, StartCreateWith, StartUpdate, StartUpdateAt
<1>2. Wait => Local
    BY DEF Wait, Poll, BeginReferrers, Finished, Arrive, GiveUp, KeepGoing, Pause, ListAt, PauseAt
<1>3. WriteLoop => Write \/ Local
    BY DEF WriteLoop, WriteRejected, RejectedAt, WriteBusy, Reconcile, Compare, BackOff, ListAt, PauseAt
<1>4. Create => Post \/ Local
    BY DEF Create, PostRejected, RejectedAt
<1>5. Read \/ Update \/ Delete => Local
    BY DEF Read, Refresh, Adopt, Update, PreRead, PreCheckUpdate, Delete, PreCheckDelete, ListAt
<1> QED BY <1>1, <1>2, <1>3, <1>4, <1>5 DEF Next, Handler

\* A failed read, import, update or delete leaves the stored state as it was.
THEOREM FailureKeepsStateHolds == Spec => FailureKeepsState
<1>1. IInv /\ [Next]_vars => [pc = "return" /\ failed /\ op # "create" => tf' = tf]_vars
    BY StepKinds, StateKept, FinishKeepsState DEF Post, IInv
<1> QED BY <1>1, Invariance, PTL DEF Spec, FailureKeepsState

\* The cache implements the custody of identities: its state takes one identity
\* at a time, of a service that was created, and lets it go only at its end.
THEOREM CustodyRefined == Spec => CustodyHolds
<1>1. Init => Custody!Init
    BY CustodyInit
<1>2. IInv /\ [Next]_vars => [Custody!Next]_(Custody!vars)
    BY StepKinds, CustodyCommon, CustodyPost DEF Post
<1> QED BY <1>1, <1>2, Invariance, PTL DEF Spec, CustodyHolds, Custody!Spec

-----------------------------------------------------------------------------
\* What the first phase of a create waits for.
Unset == [want EXCEPT !.set = {}]

\* An update waits for its plan; a create for the empty set and then for its plan.
Phases ==
    op \in {"create", "update"} /\ pc \notin {"post", "return"} =>
        goal = want \/ (op = "create" /\ goal = Unset)

\* The verified parent of a write is the state that the plan was made for, and
\* whenever the write is about to be sent, also again, the last row read is it.
Reviewed ==
    /\ pc \in {"write", "backoff"} => row = parent
    /\ op = "update" /\ pc \in Writing => Agrees(parent, prior)
    /\ op = "create" /\ pc \in Writing => Agrees(parent, Unset)

\* Every step keeps what the two phases of a creation wait for.
LEMMA PhasesStep ==
    ASSUME IInv, Phases, [Next]_vars
    PROVE  Phases'
<1>1. CASE StartCreate \/ StartUpdate
    BY <1>1 DEF StartCreate, StartCreateWith, StartUpdate, StartUpdateAt, Start, Phases
<1>2. CASE Post
    <2>1. op = "create"
        BY <1>2 DEF Post, PostWith, IInv, Base, TypeOK, Ops, Requests, Quiet, Steps, Polling, Writing
    <2> QED BY <1>2, <2>1 DEF Post, PostWith, Leave, Fail, Frame, requestVars, Phases, Unset
<1>3. CASE BeginReferrers
    BY <1>3 DEF BeginReferrers, WriteNext, Local, Frame, requestVars, Phases
<1>4. CASE WriteBusy \/ Reconcile \/ Compare \/ BackOff
    BY <1>4 DEF WriteBusy, Reconcile, Compare, BackOff, ListAt, PauseAt, Goto, Fail, Leave,
        Local, Frame, requestVars, Phases, Unset
<1>5. CASE ~(StartCreate \/ StartUpdate \/ Post \/ BeginReferrers \/ WriteBusy \/ Reconcile
             \/ Compare \/ BackOff)
    <2>1. op' \in {"create", "update"} /\ pc' \notin {"post", "return"} =>
            UNCHANGED <<op, want, goal>> /\ pc \notin {"post", "return"}
        BY <1>5, GoalKept DEF Next, Core, Handler, Create, Wait, Finished, WriteLoop, Read, Update, Delete,
            IInv
    <2> QED BY <2>1 DEF Phases, Unset
<1> QED BY <1>1, <1>2, <1>3, <1>4, <1>5

\* The second phase and the busy loop, as far as the row is concerned.
LEMMA WriteLoopInforms ==
    ASSUME IInv, Informed, BeginReferrers \/ WriteBusy \/ Reconcile \/ Compare \/ BackOff
    PROVE  Informed'
<1>0. op # "idle" /\ pc \notin {"off", "post", "return"} /\ Local /\ ~failed /\ Base
    BY DEF BeginReferrers, WriteBusy, Reconcile, Compare, BackOff, ListAt, PauseAt,
        IInv, Base, Requests, Quiet
<1>1. op \in {"create", "update"} => resp # None
    BY <1>0 DEF Base, Answers
<1>2. CASE Fail
    BY <1>0, <1>2, LocalInforms DEF Fail, Leave
<1>3. CASE ~Fail /\ Reconcile
    <2>1. /\ pc' = "compare" /\ row' = ListedRow(Subject) /\ UNCHANGED <<resp, failed>>
        BY <1>3 DEF Reconcile, ListAt
    <2> QED BY <1>0, <1>1, <2>1, LocalInforms
<1>4. CASE ~Fail /\ (WriteBusy \/ Compare \/ BackOff)
    <2>1. /\ pc' \in {"reconcile", "backoff", "write"} /\ row' = row /\ UNCHANGED <<resp, failed>>
        BY <1>4 DEF WriteBusy, Compare, BackOff, PauseAt, Goto
    <2>2. <<pc, pc'>> \notin Calls
        BY <2>1 DEF Calls
    <2> QED BY <1>0, <1>1, <2>1, <2>2, LocalInforms
<1>5. CASE BeginReferrers
    <2>1. /\ pc' = "write" /\ UNCHANGED <<row, failed>> /\ op = "create" /\ row # None
          /\ resp' = Observed(Subject, row)
        BY <1>5 DEF BeginReferrers, WriteNext, Reached, Agrees, IInv, Base, Requests
    <2>2. resp' # None /\ resp'.id = resp.id
        <3>1. Subject = resp.id
            BY <2>1 DEF Subject
        <3> QED BY <1>0, <2>1, <3>1, ObservedRow
    <2>3. <<pc, pc'>> \notin Calls
        BY <2>1 DEF Calls
    <2> QED BY <1>0, <1>1, <2>1, <2>2, <2>3, LocalInforms
<1> QED BY <1>2, <1>3, <1>4, <1>5

\* Informed is inductive for the cache, relative to IInv and Phases.
LEMMA InformedStep ==
    ASSUME IInv, Phases, Informed, [Next]_vars
    PROVE  Informed'
<1>1. CASE Core
    BY <1>1, CoreInforms DEF Core, StartCreate, StartCreateWith, StartUpdate, StartUpdateAt, IInv
<1>2. CASE Create
    BY <1>2, MovesInform, WriteInforms DEF Create, Post, IInv
<1>3. CASE Wait
    <2>1. CASE Finished
        BY <2>1, ArriveInforms DEF Finished, Arrive, Phases, IInv
    <2> QED BY <1>3, <2>1, MovesInform, WriteLoopInforms DEF Wait, IInv
<1>4. CASE WriteLoop
    BY <1>4, MovesInform, WriteInforms, WriteLoopInforms DEF WriteLoop, IInv
<1>5. CASE Read \/ Update \/ Delete
    BY <1>5, MovesInform DEF Read, Update, Delete, IInv
<1>6. CASE Finish \/ Expire \/ EnvironmentStep \/ UNCHANGED vars
    BY <1>6, CoreInforms, EnvironmentInforms DEF IInv
<1> QED BY <1>1, <1>2, <1>3, <1>4, <1>5, <1>6 DEF Next, Handler

\* The invariant of both phases holds throughout.
LEMMA PhasesHold == Spec => []Phases
<1>1. Init => Phases
    BY DEF Init, Quiet, Phases
<1>2. IInv /\ Phases /\ [Next]_vars => Phases'
    BY PhasesStep
<1> QED BY <1>1, <1>2, Invariance, PTL DEF Spec

\* A create, in its two phases, or an update that wrote reports success only for
\* what its last list call showed, and nothing but another hand, an earlier
\* operation's late write included, can have changed that since.
THEOREM ConfirmedHolds == Spec => []ConfirmedOnSuccess
<1>1. Init => Informed
    BY InitInforms
<1>2. IInv /\ Phases /\ Informed /\ [Next]_vars => Informed'
    BY InformedStep
<1>3. Informed => ConfirmedOnSuccess
    BY InformedImplies
<1> QED BY <1>1, <1>2, <1>3, Invariance, PhasesHold, PTL DEF Spec

\* No way leads to a write, or back to it after a busy answer, but past a list
\* that shows the parent it was decided on.
LEMMA ReviewedStep ==
    ASSUME IInv, Phases, Reviewed, [Next]_vars
    PROVE  Reviewed'
<1> SUFFICES ASSUME pc' \in Writing PROVE Reviewed'
    BY DEF Reviewed, Writing
<1> USE DEF Writing
<1>1. CASE BeginReferrers
    <2>1. Agrees(row, Unset)
        BY <1>1 DEF BeginReferrers, Reached, Phases, IInv, Base, Requests
    <2> QED BY <1>1, <2>1 DEF BeginReferrers, WriteNext, Agrees, Unset, Local, Frame, requestVars, Reviewed
<1>2. CASE PreCheckUpdate
    BY <1>2 DEF PreCheckUpdate, WriteNext, Agrees, Fail, Leave, Local, Frame, requestVars, Reviewed
<1>3. CASE PreCheckDelete
    BY <1>3 DEF PreCheckDelete, WriteNext, Return, Leave, Local, Frame, requestVars, Reviewed
<1>4. CASE WriteBusy \/ Compare \/ BackOff
    BY <1>4 DEF WriteBusy, Compare, BackOff, PauseAt, Goto, Fail, Leave, Local, Frame, requestVars,
        Reviewed, Agrees, Unset
<1>5. CASE Reconcile
    BY <1>5 DEF Reconcile, ListAt, Fail, Leave, Local, Frame, requestVars, Reviewed, Agrees, Unset
<1>6. CASE Untaint \/ Expire \/ EnvironmentStep \/ UNCHANGED vars
    BY <1>6 DEF Untaint, Expire, EnvironmentStep, vars, requestVars, localVars, Reviewed, Agrees, Unset
<1>7. CASE StartCreate \/ StartRead \/ StartImport \/ StartUpdate \/ StartDelete \/ Crash \/ Finish
    BY <1>7 DEF StartCreate, StartCreateWith, StartRead, StartImport, StartUpdate, StartUpdateAt,
        StartDelete, Start, Crash, Finish, FinishCreate, FinishRead, FinishImport, FinishUpdate,
        FinishDelete, Settle
<1>8. CASE \/ Create \/ Read \/ PreRead \/ Write \/ WriteRejected
           \/ Poll \/ Finished \/ GiveUp \/ KeepGoing \/ Pause
    BY <1>8 DEF Create, Post, PostWith, PostRejected, RejectedAt, Poll, Finished, Arrive, GiveUp, KeepGoing,
        Pause, ListAt, PauseAt, Goto, PollAgain, PollNext, Read, Refresh, Adopt, Write,
        WriteRejected, PreRead, Fail, Return, Leave
<1> QED BY <1>1, <1>2, <1>3, <1>4, <1>5, <1>6, <1>7, <1>8 DEF Next, Core, Handler, Wait, WriteLoop,
        Update, Delete

\* No write is sent unless the last list call showed the service as planned
\* against; before a repeated write, exactly as it was before the first one.
THEOREM ReviewedWritesHold == Spec => ReviewedWrites
<1>1. Init => Reviewed
    BY DEF Init, Quiet, Reviewed, Writing
<1>2. IInv /\ Phases /\ Reviewed /\ [Next]_vars => Reviewed'
    BY ReviewedStep
<1>3. IInv /\ Reviewed /\ [Next]_vars =>
        [/\ hits'["put"] > hits["put"] =>
              /\ row = parent
              /\ Agrees(parent, IF op = "create" THEN [want EXCEPT !.set = {}] ELSE prior)
         /\ hits'["delete"] > hits["delete"] => row = parent]_vars
    <2> SUFFICES ASSUME IInv, Reviewed, Next
                 PROVE  /\ hits'["put"] > hits["put"] =>
                             /\ row = parent
                             /\ Agrees(parent, IF op = "create" THEN Unset ELSE prior)
                        /\ hits'["delete"] > hits["delete"] => row = parent
        BY DEF Unset
    <2>1. /\ hits'["put"] > hits["put"] => Write /\ op # "delete"
          /\ hits'["delete"] > hits["delete"] => Write
        BY StepKinds, CountedWrites DEF Post, IInv
    <2>2. Write => pc = "write" /\ op \in {"create", "update", "delete"}
        BY DEF Write, IInv, Base, TypeOK, Ops, Requests, Steps, Quiet
    <2> QED BY <2>1, <2>2 DEF Reviewed, Writing
<1> QED BY <1>1, <1>2, <1>3, Invariance, PhasesHold, PTL DEF Spec, ReviewedWrites

-----------------------------------------------------------------------------
\* Until a create succeeds, its response claims no referrers but the empty set,
\* and that one with the status of the row it was observed in.
Unclaimed ==
    op = "create" /\ resp # None /\ (pc # "return" \/ failed) =>
        resp.set \in {None, {}} /\ (resp.set = {} => resp.status # None)

\* The receipt claims nothing, the second phase what the first has observed, and
\* no other step of a create that does not succeed touches the response.
LEMMA UnclaimedStep ==
    ASSUME IInv, Phases, Unclaimed, [Next]_vars
    PROVE  Unclaimed'
<1> SUFFICES ASSUME op' = "create", resp' # None, pc' # "return" \/ failed'
             PROVE  resp'.set \in {None, {}} /\ (resp'.set = {} => resp'.status # None)
    BY DEF Unclaimed
<1>1. CASE Post
    <2>1. resp = None
        BY <1>1 DEF Post, PostWith, IInv, Base, Answers
    <2>2. \/ resp' = resp
          \/ \E i \in Ids : resp' = Pending(i, None)
        BY <1>1 DEF Post, PostWith, Fail
    <2>3. None # {}
        BY NoneAssumption
    <2> QED BY <2>1, <2>2, <2>3 DEF Pending
<1>2. CASE BeginReferrers
    <2>1. /\ resp' = Observed(Subject, row) /\ Agrees(row, goal) /\ row.status = "active"
          /\ goal # want /\ op = "create" /\ pc = "judge"
        BY <1>2 DEF BeginReferrers, WriteNext, Reached, IInv, Base, Requests
    <2>2. goal = Unset /\ want \in Plans
        BY <2>1 DEF Phases, IInv, Base, TypeOK, Requests
    <2>3. row.set = {} /\ "active" # None
        BY <2>1, <2>2, NoneIsNoRow DEF Agrees, Unset, Plans, Statuses
    <2> QED BY <2>1, <2>3 DEF Observed
<1>3. CASE \/ Poll \/ GiveUp \/ KeepGoing \/ Pause \/ WriteLoop \/ Refresh \/ PreRead \/ PostRejected
           \/ Finished \/ Adopt \/ Update \/ Delete
    <2>1. op = "create" /\ pc \notin {"off", "return"} /\ UNCHANGED resp
        BY <1>3 DEF Poll, GiveUp, KeepGoing, Pause, WriteLoop, Write, WriteRejected, WriteBusy, Reconcile,
            Compare, BackOff, Refresh, PreRead, PostRejected, RejectedAt, Finished, Arrive, Adopt, Update,
            Delete, PreCheckUpdate, PreCheckDelete, ListAt, PauseAt, Goto, PollAgain, PollNext, WriteNext,
            Return, Leave, Fail, Local, Frame, requestVars, IInv, Base, Requests, Steps, Polling, Writing
    <2> QED BY <2>1 DEF Unclaimed
<1>4. CASE StartCreate \/ StartRead \/ StartImport \/ StartUpdate \/ StartDelete \/ Crash \/ Finish
    BY <1>4 DEF StartCreate, StartCreateWith, StartRead, StartImport, StartUpdate, StartUpdateAt,
        StartDelete, Start, Crash, Finish, FinishCreate, FinishRead, FinishImport, FinishUpdate,
        FinishDelete, Settle
<1>5. CASE Untaint \/ Expire \/ EnvironmentStep \/ UNCHANGED vars
    BY <1>5 DEF Untaint, Expire, EnvironmentStep, vars, requestVars, localVars, Unclaimed
<1> QED BY <1>1, <1>2, <1>3, <1>4, <1>5 DEF Next, Core, Handler, Create, Wait, Read

\* A create that fails stores no referrers that were not observed, whichever of
\* its two phases it failed in.
THEOREM FailedCreateHolds == Spec => FailedCreateClaimsNothing
<1>1. Init => Unclaimed
    BY DEF Init, Quiet, Unclaimed
<1>2. IInv /\ Phases /\ Unclaimed /\ [Next]_vars => Unclaimed'
    BY UnclaimedStep
<1>3. IInv /\ Unclaimed /\ [Next]_vars =>
        [op = "create" /\ pc = "return" /\ failed /\ tf' # None =>
            tf'.set \in {None, {}} /\ (tf'.set = {} => Seen(tf'.id))]_vars
    <2> SUFFICES ASSUME IInv, Unclaimed, Next, op = "create", pc = "return", failed, tf' # None
                 PROVE  tf'.set \in {None, {}} /\ (tf'.set = {} => Seen(tf'.id))
        OBVIOUS
    <2>1. tf = None
        BY DEF IInv, Base, Requests
    <2>2. Finish
        BY <2>1, StepKinds, StateKept DEF Post
    <2>3. tf' = resp
        BY <2>2 DEF Finish, FinishCreate, FinishRead, FinishImport, FinishUpdate, FinishDelete, Settle
    <2> QED BY <2>3 DEF Unclaimed, IInv, Evidence
<1> QED BY <1>1, <1>2, <1>3, Invariance, PhasesHold, PTL DEF Spec, FailedCreateClaimsNothing
=============================================================================
