---------------------------- MODULE FirewallProofs ----------------------------
(***************************************************************************)
(* Security groups and their rules never repeat a write that may have been *)
(* accepted, leave their state alone when they fail, and succeed only with *)
(* an answer that shows the plan in force.  What they know of identities   *)
(* is less than Evidence says, so only Base and Informed are taken from    *)
(* the hosted services.                                                    *)
(***************************************************************************)
EXTENDS SecurityGroup, SecurityGroupRule, HostedResourceProofs

-----------------------------------------------------------------------------
\* The steps that groups and rules share.

\* A read, in one call or in two: what it learns is the row, or nothing; an
\* error fails the handler, and the first of two calls may tell nothing yet.
Looked ==
    /\ Local
    /\ \/ /\ <<pc, pc'>> \in Calls
          /\ row' \in {None, ListedRow(Subject)}
          /\ UNCHANGED <<goal, parent, resp, failed>>
       \/ pc \in {"poll", "refresh", "preread"} /\ Fail
       \/ UNCHANGED localVars

Handled ==
    \/ Post \/ PostRejected \/ Arrived \/ KeepWaiting \/ Pause \/ AdoptAnswer
    \/ Change \/ WriteRejected \/ PreCheckAbsent \/ Remove

FirewallStep ==
    \/ Handled \/ Looked \/ Finish \/ Expire \/ EnvironmentStep \/ UNCHANGED vars
    \/ \E creates, updates \in SUBSET Plans : CoreWith(creates, updates)

\* A step of a group is one of the shared steps.
LEMMA GroupSteps ==
    ASSUME [Next]_vars
    PROVE  FirewallStep
<1>1. Detail => Looked
    BY DEF Detail, Poll, Refresh, PreRead, ListAt, Looked, Calls
<1>2. Core => \E creates, updates \in SUBSET Plans : CoreWith(creates, updates)
    BY DEF Core
<1> QED BY <1>1, <1>2 DEF Next, Handler, Create, Wait, Read, Update, Delete, FirewallStep, Handled,
        FirewallEnvironment

\* The two calls of a rule, taken one by one.
LEMMA RuleLooks ==
    ASSUME Rule
    PROVE  Looked
<1>1. pc \in {"poll", "refresh", "preread"} => <<pc, AfterRule[pc]>> \in Calls
    BY DEF AfterRule, Calls
<1>2. pc \in DOMAIN AfterRule => pc \in {"poll", "refresh", "preread"}
    BY DEF AfterRule
<1> QED BY <1>1, <1>2 DEF Rule, ReadParent, ReadRules, Answer, Looked

\* A step of a rule is one of the shared steps, or its parent's end.
LEMMA RuleSteps ==
    ASSUME [RuleNext]_ruleVars
    PROVE  FirewallStep \/ ParentDeleted
<1>1. RuleCore => \E creates, updates \in SUBSET Plans : CoreWith(creates, updates)
    BY DEF RuleCore, RulePlans
<1>2. RuleCreate => Post \/ PostRejected
    BY DEF RuleCreate, PostRule
<1> QED BY <1>1, <1>2, RuleLooks DEF RuleNext, RuleHandler, RuleWait, RuleRead, RuleUpdate, RuleDelete,
        FirewallStep, Handled, RuleEnvironment, FirewallEnvironment, ParentAppears, ruleVars

-----------------------------------------------------------------------------
\* Base.

\* A call that tells nothing yet leaves everything as it was.
LEMMA StandingStill ==
    ASSUME Base, Local, UNCHANGED localVars
    PROVE  UNCHANGED vars
<1>1. <<pc, pc'>> \notin Calls /\ touched' = touched
    BY DEF localVars, Local, Calls, Base, TypeOK
<1> QED BY <1>1 DEF Local, Frame, vars, historyVars

\* A read of any kind.
LEMMA LookedBase ==
    ASSUME Base, Looked
    PROVE  Base'
<1>1. Local
    BY DEF Looked
<1>2. CASE UNCHANGED localVars
    BY <1>1, <1>2, StandingStill, StillBase
<1>3. CASE ~UNCHANGED localVars
    <2>1. op # "idle" /\ pc \notin {"post", "return"}
        BY <1>3 DEF Looked, Calls, Base, Requests, Quiet
    <2>2. ListedRow(Subject) \in {None} \cup Rows
        BY <2>1, ListedSubject
    <2> QED BY <1>1, <1>3, <2>1, <2>2, FailBase, AnswerBase DEF Looked
<1> QED BY <1>2, <1>3

\* The answers of a handler that succeeds.
LEMMA AnswersBase ==
    ASSUME Base, Arrived \/ AdoptAnswer \/ PreCheckAbsent
    PROVE  Base'
<1>0. /\ op # "idle" /\ pc \notin {"post", "return"} /\ Local
    BY DEF Arrived, AdoptAnswer, PreCheckAbsent, Base, Requests, Quiet
<1>1. CASE Arrived
    <2>1. CASE op = "delete"
        BY <1>0, <1>1, <2>1, ReturnBase DEF Arrived
    <2>2. CASE op # "delete"
        <3> DEFINE new == [resp EXCEPT !.set = want.set]
        <3>1. op \in {"create", "update"} /\ resp \in States /\ want \in Plans
            BY <1>0, <1>1, <2>2 DEF Arrived, Base, TypeOK, Ops, Requests, Steps, Answers
        <3>2. new \in States /\ new.id = resp.id
            BY <3>1 DEF States, Plans
        <3>3. op = "update" => resp.id = prior.id
            BY <3>1, NoneIsNoRecord DEF Base, Answers
        <3>4. Return(new)
            BY <1>1, <2>2 DEF Arrived
        <3> HIDE DEF new
        <3> QED BY <1>0, <3>1, <3>2, <3>3, <3>4, NoneIsNoRecord, ReturnBase
    <2> QED BY <2>1, <2>2
<1>2. CASE AdoptAnswer
    <2>0. op \in {"read", "import"}
        BY <1>0, <1>2 DEF AdoptAnswer, Base, TypeOK, Ops, Requests, Steps, Polling, Writing
    <2>1. CASE row = None
        BY <1>0, <1>2, <2>0, <2>1, ReturnBase DEF AdoptAnswer
    <2>2. CASE row # None
        <3> DEFINE new == [Observed(Subject, row) EXCEPT !.status = None]
        <3>1. new \in States /\ new.id = Subject
            BY <1>0, <2>2, ObservedRow DEF States
        <3>2. Subject = prior.id
            BY <2>0 DEF Subject
        <3>3. Return(new)
            BY <1>2, <2>2 DEF AdoptAnswer
        <3> HIDE DEF new
        <3> QED BY <1>0, <2>0, <3>1, <3>2, <3>3, ReturnBase
    <2> QED BY <2>1, <2>2
<1>3. CASE PreCheckAbsent
    <2>1. CASE Return(None)
        BY <1>0, <1>3, <2>1, ReturnBase DEF PreCheckAbsent
    <2>2. CASE WriteNext(resp) /\ UNCHANGED goal
        BY <1>0, <1>3, <2>2, WriteNextBase DEF PreCheckAbsent
    <2> QED BY <1>3, <2>1, <2>2 DEF PreCheckAbsent
<1> QED BY <1>1, <1>2, <1>3

\* The PUT with or without the description: what it sends is a replacement of
\* the set or of a part of it, and nothing has changed yet.
LEMMA ChangeBase ==
    ASSUME Base, Change
    PROVE  Base' /\ WriteLocals /\ UNCHANGED <<life, listed, svc>>
<1>1. Subject \in Ids /\ want \in Plans /\ RemoteTypeOK /\ Services
    BY WriteAbout DEF Change, Base, TypeOK
<1>2. Body \in Bodies
    BY <1>1, DescriptionAssumption DEF Body, Bodies, Plans
<1>3. (RemoteTypeOK /\ Services)' /\ UNCHANGED <<life, listed, svc>>
    BY <1>1, <1>2, SendRemote DEF Change
<1>4. WriteLocals
    BY DEF Change, WriteLocals, WrittenKind
<1> QED BY <1>3, <1>4, WriteLocalsBase

\* An update that changes nothing returns at once.
LEMMA StartChangeBase ==
    ASSUME Base, NEW w \in Plans, StartChange(w)
    PROVE  Base'
<1>1. CASE Start("update", tf, w, "return", None, tf)
    <2>1. tf \in States /\ tf # None /\ w # None
        BY NoneIsNoRecord DEF StartChange, Base, TypeOK
    <2>2. (Requests /\ Answers)'
        BY <1>1, <2>1 DEF Start, coreVars, Base, Requests, Quiet, Steps, Answers
    <2> QED BY <1>1, <2>1, <2>2, StartBase DEF Ops
<1>2. CASE StartUpdateAt(w, "write")
    BY <1>2, CoreBase
<1> QED BY <1>1, <1>2 DEF StartChange

\* Every shared step keeps Base.
LEMMA FirewallBase ==
    ASSUME Base, FirewallStep
    PROVE  Base'
<1>1. CASE Post
    <2>1. want \in Plans /\ want.set \in SUBSET Entries
        BY <1>1 DEF Post, PostWith, Base, TypeOK, Ops, Requests, Quiet, Steps, Polling, Writing, Plans
    <2> QED BY <1>1, <2>1, PostBase DEF Post
<1>2. CASE PostRejected \/ WriteRejected
    BY <1>2, RejectedBase DEF PostRejected, WriteRejected
<1>3. CASE KeepWaiting
    BY <1>3, PollAgainBase DEF KeepWaiting
<1>4. CASE Pause
    BY <1>4, PauseBase DEF Pause
<1>5. CASE Change \/ Remove
    BY <1>5, ChangeBase, WriteBase DEF Remove
<1>6. CASE Looked \/ Arrived \/ AdoptAnswer \/ PreCheckAbsent
    BY <1>6, LookedBase, AnswersBase
<1>7. CASE Finish \/ Expire \/ EnvironmentStep \/ UNCHANGED vars
    BY <1>7, EndBase, StillBase, EnvironmentBase
<1>8. ASSUME NEW creates \in SUBSET Plans, NEW updates \in SUBSET Plans, CoreWith(creates, updates)
      PROVE  Base'
    BY <1>8, CoreBase, StartChangeBase, EndBase, StillBase DEF CoreWith
<1> QED BY <1>1, <1>2, <1>3, <1>4, <1>5, <1>6, <1>7, <1>8 DEF FirewallStep, Handled

-----------------------------------------------------------------------------
\* The wait is for the plan.
LEMMA FirewallAimed ==
    ASSUME Base, Aimed, FirewallStep
    PROVE  Aimed'
<1>1. CASE Arrived \/ AdoptAnswer \/ PreCheckAbsent \/ Change \/ Looked
    BY <1>1 DEF Arrived, AdoptAnswer, PreCheckAbsent, Change, Looked, Calls, PollNext, Fail, Return, Leave,
        WriteNext, Local, Frame, requestVars, localVars, Aimed
<1>2. CASE \E creates, updates \in SUBSET Plans : CoreWith(creates, updates)
    <2>1. ASSUME NEW w, Start("update", tf, w, "return", None, tf) PROVE Aimed'
        BY <2>1 DEF Start, Aimed
    <2> QED BY <1>2, <2>1, AimedKept DEF CoreWith, StartChange
<1>3. CASE ~(Arrived \/ AdoptAnswer \/ PreCheckAbsent \/ Change \/ Looked)
           /\ ~(\E creates, updates \in SUBSET Plans : CoreWith(creates, updates))
    BY <1>3, AimedKept DEF FirewallStep, Handled, Post, KeepWaiting, Remove
<1> QED BY <1>1, <1>2, <1>3

\* What is learned is what the list shows, and a success is answered with the
\* row of the plan.
LEMMA AnswersInform ==
    ASSUME Base, Aimed, Informed, Looked \/ Arrived \/ AdoptAnswer \/ PreCheckAbsent
    PROVE  Informed'
<1>1. CASE Looked /\ UNCHANGED localVars
    <2>1. UNCHANGED vars
        BY <1>1, StandingStill DEF Looked
    <2> QED BY <2>1, CoreInforms
<1>2. CASE ~(Looked /\ UNCHANGED localVars)
    <2>0. op # "idle" /\ pc \notin {"post", "return"} /\ Local /\ ~failed
        BY <1>2 DEF Looked, Calls, Arrived, AdoptAnswer, PreCheckAbsent, Base, Requests, Quiet
    <2>1. op \in {"create", "update"} => resp \in States /\ resp # None /\ want \in Plans /\ goal = want
                                         /\ goal # None
        BY <2>0 DEF Base, TypeOK, Requests, Answers, Aimed
    <2>2. CASE Fail
        BY <2>0, <2>2, LocalInforms DEF Fail, Leave
    <2>3. CASE Looked /\ ~Fail
        <3>1. row' \in {None, ListedRow(Subject)} /\ UNCHANGED <<resp, failed>> /\ pc' # "return"
            BY <1>2, <2>3 DEF Looked, Calls
        <3> QED BY <2>0, <2>1, <3>1, LocalInforms
    <2>4. CASE Arrived
        <3>1. row' = None /\ failed' = failed /\ <<pc, pc'>> \notin Calls
            BY <2>4 DEF Arrived, Return, Leave, Calls
        <3>2. CASE op \in {"create", "update"}
            <4> DEFINE new == [resp EXCEPT !.set = want.set]
            <4>1. new \in States /\ new.id = resp.id /\ resp' = new
                BY <2>1, <2>4, <3>2 DEF States, Plans, Arrived, Return
            <4>2. Agrees(row, want)
                BY <2>1, <2>4, <3>2 DEF Arrived, Matched
            <4> QED BY <2>0, <2>1, <3>1, <4>1, <4>2, NoneIsNoRecord, LocalInforms
        <3> QED BY <2>0, <3>1, <3>2, LocalInforms
    <2>5. CASE AdoptAnswer \/ PreCheckAbsent
        <3>1. op \notin {"create", "update"} /\ failed' = failed
            BY <2>0, <2>5 DEF AdoptAnswer, PreCheckAbsent, Return, WriteNext, Base, TypeOK, Ops, Requests,
                Steps, Polling, Writing
        <3> QED BY <2>0, <3>1, LocalInforms
    <2> QED BY <2>2, <2>3, <2>4, <2>5
<1> QED BY <1>1, <1>2

\* No shared step reports a success that the last answer does not show.
LEMMA FirewallInforms ==
    ASSUME Base, Aimed, Informed, FirewallStep
    PROVE  Informed'
<1>1. CASE Post \/ Change \/ Remove
    BY <1>1, ChangeBase, WriteInforms DEF Post, Remove
<1>2. CASE PostRejected \/ WriteRejected \/ KeepWaiting \/ Pause
    BY <1>2, MovesInform DEF KeepWaiting
<1>3. CASE Looked \/ Arrived \/ AdoptAnswer \/ PreCheckAbsent
    BY <1>3, AnswersInform
<1>4. CASE Finish \/ Expire \/ EnvironmentStep \/ UNCHANGED vars
    BY <1>4, CoreInforms, EnvironmentInforms
<1>5. CASE \E creates, updates \in SUBSET Plans : CoreWith(creates, updates)
    BY <1>5, CoreInforms DEF CoreWith, StartChange, StartUpdateAt, StartCreateWith
<1> QED BY <1>1, <1>2, <1>3, <1>4, <1>5 DEF FirewallStep, Handled

\* The parent goes, and its rules with it: an operation that runs is disturbed.
LEMMA ParentDeletedKeeps ==
    ASSUME Base, Aimed, Informed, ParentDeleted
    PROVE  (Base /\ Aimed /\ Informed)' /\ tf' = tf
<1> USE DEF ParentDeleted, coreVars, requestVars, localVars
<1>1. (RemoteTypeOK /\ Services)'
    BY DEF Base, TypeOK, RemoteTypeOK, Lives, Services
<1>2. TypeOK'
    BY <1>1 DEF Base, TypeOK
<1>3. Requests' /\ Answers'
    BY DEF Base, Requests, Quiet, Steps, Answers
<1>4. Once'
    BY DEF Base, Once, NoReplay
<1>5. Aimed'
    BY DEF Aimed
<1>6. Informed'
    <2>1. row # None \/ Claims => op # "idle"
        BY DEF Base, Requests, Quiet, Claims
    <2> QED BY <2>1 DEF Informed, Claims
<1> QED BY <1>1, <1>2, <1>3, <1>4, <1>5, <1>6 DEF Base

\* No request and no write is under way in the beginning.
LEMMA FirewallInit ==
    ASSUME Init
    PROVE  Base /\ Aimed /\ Informed
BY InitBase, InitInforms DEF Init, Quiet, Aimed

\* Only a handler's return changes the stored state, and not when it failed.
LEMMA HandledKeepsState ==
    ASSUME Handled \/ Looked \/ \E creates, updates \in SUBSET Plans : CoreWith(creates, updates)
    PROVE  tf' = tf
<1>1. Handled \/ Looked => tf' = tf
    BY StateKept DEF Handled, Post, PostRejected, WriteRejected, RejectedAt, Arrived, KeepWaiting, Pause,
        PauseAt, AdoptAnswer, Change, PreCheckAbsent, Remove, Looked, Frame, coreVars
<1>2. (\E creates, updates \in SUBSET Plans : CoreWith(creates, updates)) => tf' = tf
    BY StateKept DEF CoreWith, StartChange, StartUpdateAt, StartCreateWith
<1> QED BY <1>1, <1>2

\* A failure leaves the stored state as it was, whichever step it is.
LEMMA FirewallKeepsState ==
    ASSUME Base, FirewallStep, pc = "return", failed, op # "create"
    PROVE  tf' = tf
BY HandledKeepsState, FinishKeepsState, StateKept DEF FirewallStep

-----------------------------------------------------------------------------
\* Security groups.

\* The inductive invariant of a group: types, requests and answers, the plan that is
\* waited for, and what the last answer tells of the group.
THEOREM GroupInvariance == Spec => [](Base /\ Aimed /\ Informed)
<1>1. Init => Base /\ Aimed /\ Informed
    BY FirewallInit
<1>2. Base /\ Aimed /\ Informed /\ [Next]_vars => (Base /\ Aimed /\ Informed)'
    BY GroupSteps, FirewallBase, FirewallAimed, FirewallInforms
<1> QED BY <1>1, <1>2, PTL DEF Spec

\* No operation on a group repeats a write that may have been accepted.
THEOREM GroupNoReplay == Spec => []NoReplay
BY GroupInvariance, PTL DEF Base, Once

\* A create or update that wrote succeeds only with the planned settings in force,
\* an update that leaves the description out included: since the answer it went by,
\* only another hand, or a write of an earlier operation, can have changed them.
THEOREM GroupConfirmed == Spec => []ConfirmedOnSuccess
BY GroupInvariance, InformedImplies, PTL

\* A failed read, import, update or delete leaves the stored state as it was.
THEOREM GroupFailureKeepsState == Spec => FailureKeepsState
<1>1. Base /\ [Next]_vars => [pc = "return" /\ failed /\ op # "create" => tf' = tf]_vars
    BY GroupSteps, FirewallKeepsState
<1> QED BY <1>1, GroupInvariance, PTL DEF Spec, FailureKeepsState

-----------------------------------------------------------------------------
\* Rules, under a parent that may be late to appear and may go at any time.

\* The inductive invariant of a rule; its parent's end may come at any step.
THEOREM RuleInvariance == RuleSpec => [](Base /\ Aimed /\ Informed)
<1>1. RuleInit => Base /\ Aimed /\ Informed
    BY FirewallInit DEF RuleInit
<1>2. Base /\ Aimed /\ Informed /\ [RuleNext]_ruleVars => (Base /\ Aimed /\ Informed)'
    BY RuleSteps, FirewallBase, FirewallAimed, FirewallInforms, ParentDeletedKeeps
<1> QED BY <1>1, <1>2, PTL DEF RuleSpec

\* No operation on a rule sends a POST, PUT or DELETE again that the API may have
\* accepted, also when the parent group vanishes in the middle of it.
THEOREM RuleNoReplay == RuleSpec => []NoReplay
BY RuleInvariance, PTL DEF Base, Once

\* A create or update of a rule that wrote succeeds only with the planned settings
\* in force, unless another hand, a late write of an earlier operation or the end of
\* the parent came after the answer it went by.
THEOREM RuleConfirmed == RuleSpec => []ConfirmedOnSuccess
BY RuleInvariance, InformedImplies, PTL

\* A failed read, import, update or delete of a rule leaves its stored state as it was.
THEOREM RuleFailureKeepsState == RuleSpec => FailureKeepsState
<1>1. Base /\ Aimed /\ Informed /\ [RuleNext]_ruleVars =>
        [pc = "return" /\ failed /\ op # "create" => tf' = tf]_vars
    BY RuleSteps, FirewallKeepsState, ParentDeletedKeeps
<1> QED BY <1>1, RuleInvariance, PTL DEF RuleSpec, FailureKeepsState

-----------------------------------------------------------------------------
\* What a rule's state may forget.

\* A rule that a list has shown is listed as long as it lives, which it does not
\* without its parent; nothing was shown, or confirmed, before the parent was.
Placed ==
    /\ \A i \in seen : life[i] # "unborn" /\ (life[i] = "alive" => i \in listed)
    /\ seen # {} \/ confirmed => group # "hidden"
    /\ group = "gone" => \A i \in Ids : life[i] \in {"unborn", "gone"}

Over(i) == i \in seen => life[i] # "alive"

\* An answer without the rule, and what a handler concludes from it, are never
\* about a rule that was shown and lives.
Deserved ==
    /\ op \in {"read", "delete"} /\ pc \in {"adopt", "precheck", "judge"} /\ row = None =>
            Over(prior.id)
    /\ pc = "return" /\ ~failed /\ (op = "delete" \/ (op = "read" /\ resp = None)) =>
            Over(prior.id)

\* The requests whose answer may drop the rule are about an identity.
LEMMA PriorKnown ==
    ASSUME Base, op \in {"read", "delete"}
    PROVE  prior \in States /\ prior.id \in Ids /\ Subject = prior.id /\ tf = prior
BY NoneIsNoRecord DEF Base, TypeOK, Requests, Subject, States

\* The first call answers for the rule only without its parent; the second one
\* with the complete list; an error answers nothing.
LEMMA RuleLooksDeserved ==
    ASSUME Base, RuleTypeOK, Placed, Deserved, Rule
    PROVE  (Placed /\ Deserved)'
<1>1. /\ UNCHANGED <<life, listed, op, prior, group>> /\ Local
      /\ pc \in {"poll", "refresh", "preread"}
    BY DEF Rule, ReadParent, ReadRules, Local, Frame, remoteVars, requestVars, AfterRule
<1>2. CASE UNCHANGED <<localVars, seen>> /\ group = "shown"
    BY <1>1, <1>2 DEF localVars, Placed, Deserved, Over
<1>3. CASE Fail /\ UNCHANGED seen /\ (confirmed' => confirmed)
    BY <1>1, <1>3 DEF Fail, Leave, Placed, Deserved, Over
<1>4. CASE group # "shown" /\ pc' # "return" /\ row' = None /\ UNCHANGED <<seen, confirmed>>
    <2>1. op \in {"read", "delete"} => Over(prior.id)
        BY <1>4, PriorKnown DEF Placed, Over, RuleTypeOK
    <2> QED BY <1>1, <1>4, <2>1 DEF Placed, Deserved, Over
<1>5. CASE /\ confirmed /\ ~confirmed' /\ pc' # "return" /\ row' = ListedRow(Subject)
           /\ seen' = IF Subject \in listed THEN seen \cup {Subject} ELSE seen
    <2>0. op # "idle" /\ Subject \in Ids /\ (ListedRow(Subject) # None <=> Subject \in listed)
        <3>1. op # "idle" /\ pc \notin {"post", "return"}
            BY <1>1 DEF Base, Requests, Quiet
        <3> QED BY <3>1, ListedSubject
    <2>1. Placed'
        <3>1. confirmed /\ ~confirmed' /\ group # "hidden"
            BY <1>5 DEF Placed
        <3>2. Subject \in listed => life[Subject] \in {"alive", "dying"}
            BY <2>0 DEF Base, Services
        <3> QED BY <1>1, <1>5, <2>0, <3>1, <3>2 DEF Placed
    <2>2. Deserved'
        <3> SUFFICES ASSUME op \in {"read", "delete"}, row' = None PROVE Over(prior.id)
            BY <1>1, <1>5, <2>0 DEF Deserved, Over
        <3>1. prior.id \notin listed
            BY <1>5, <2>0, PriorKnown
        <3> QED BY <3>1 DEF Placed, Over
    <2> QED BY <2>1, <2>2
<1>6. \A r : Answer(r) => pc' # "return" /\ row' = r
    BY <1>1 DEF Answer, AfterRule
<1>7. CASE ReadParent
    BY <1>2, <1>3, <1>4, <1>6, <1>7 DEF ReadParent
<1>8. CASE ReadRules
    BY <1>3, <1>5, <1>6, <1>8 DEF ReadRules
<1> QED BY <1>7, <1>8 DEF Rule

\* What the services may do under the rest of the handlers and between them: a
\* rule may be born while its parent may live, and go at any time.
LEMMA PlacedKept ==
    ASSUME Base, RuleTypeOK, Placed, UNCHANGED <<group, seen>>, (confirmed' => confirmed),
           \/ UNCHANGED remoteVars \/ Change \/ Remove \/ RuleEnvironment
           \/ Post /\ group # "gone"
    PROVE  Placed'
<1>0. life \in [Ids -> Lives] /\ seen \subseteq Ids
    BY DEF Base, TypeOK, RemoteTypeOK, RuleTypeOK
<1>1. CASE UNCHANGED <<life, listed>>
    BY <1>1 DEF Placed
<1>2. ASSUME NEW i \in Ids, NEW c, NEW s, Born(i, c, s), group = "gone" => life'[i] = "unborn"
      PROVE  Placed'
    <2>1. life[i] = "unborn" /\ life' = [life EXCEPT ![i] = "alive"] /\ listed' = listed
        BY <1>2 DEF Born
    <2> QED BY <1>0, <1>2, <2>1 DEF Placed
<1>3. ASSUME NEW i \in Ids, Appear(i) PROVE Placed'
    <2>1. life' = life /\ listed \subseteq listed'
        BY <1>3 DEF Appear
    <2> QED BY <1>0, <2>1 DEF Placed
<1>4. ASSUME NEW i \in Ids, Die(i) PROVE Placed'
    <2>1. life[i] = "dying" /\ life' = [life EXCEPT ![i] = "gone"] /\ listed' = listed \ {i}
        BY <1>4 DEF Die
    <2> QED BY <1>0, <2>1 DEF Placed
<1>5. ASSUME NEW i \in Ids, AcceptDelete(i) PROVE Placed'
    <2>1. life[i] \in {"alive", "dying"} /\ life' = [life EXCEPT ![i] = "dying"] /\ listed' = listed
        BY <1>5 DEF AcceptDelete
    <2> QED BY <1>0, <2>1 DEF Placed
<1>6. CASE RuleEnvironment
    <2>1. ASSUME NEW i \in Ids, NEW c, NEW s, OutsideCreate(i, c, s) PROVE Placed'
        <3>1. Born(i, c, s) /\ (group = "gone" => life'[i] = "unborn")
            BY <1>6, <2>1 DEF RuleEnvironment, OutsideCreate, Born
        <3> QED BY <1>2, <3>1
    <2>2. ASSUME NEW i \in Ids, OutsideDelete(i) PROVE Placed'
        BY <1>5, <2>2 DEF OutsideDelete
    <2>3. \/ UNCHANGED <<life, listed>>
          \/ \E i \in Ids : \/ Appear(i) \/ Die(i) \/ OutsideDelete(i)
                           \/ \E c \in Configs, s \in SUBSET Entries : OutsideCreate(i, c, s)
        BY <1>6 DEF RuleEnvironment, FirewallEnvironment, EnvironmentStep, Environment, Land, Fade, Turn,
            OutsideEdit
    <2> QED BY <1>1, <1>3, <1>4, <2>1, <2>2, <2>3
<1>7. CASE Remove
    <2>1. Subject \in Ids
        BY <1>7, WriteAbout DEF Remove, Write
    <2> QED BY <1>1, <1>5, <1>7, <2>1 DEF Remove, Write, remoteVars
<1>8. CASE Post /\ group # "gone"
    BY <1>1, <1>2, <1>8 DEF Post, PostWith, remoteVars
<1> QED BY <1>1, <1>6, <1>7, <1>8, ChangeBase DEF remoteVars

\* A handler lets the rule go only on the answer it has.
LEMMA ReturnsDeserved ==
    ASSUME Base, Placed, Deserved, UNCHANGED seen,
           \/ Handled \/ Finish \/ Expire \/ EnvironmentStep \/ UNCHANGED vars
           \/ \E creates, updates \in SUBSET Plans : CoreWith(creates, updates)
    PROVE  Deserved'
<1>1. CASE Arrived \/ AdoptAnswer \/ PreCheckAbsent
    <2>0. UNCHANGED <<life, op, prior, failed>> /\ op # "idle" /\ pc \notin {"off", "post", "return"}
        BY <1>1 DEF Arrived, AdoptAnswer, PreCheckAbsent, Return, WriteNext, Local, Frame, remoteVars,
            requestVars, Base, Requests, Quiet
    <2>1. CASE Arrived
        <3>1. pc = "judge" /\ pc' = "return" /\ (op = "delete" => row = None)
            BY <2>1 DEF Arrived, Matched, Return, Leave, Base, Requests
        <3>2. op # "read"
            BY <2>0, <3>1 DEF Base, Requests, Steps
        <3> QED BY <2>0, <3>1, <3>2 DEF Deserved, Over
    <2>2. CASE AdoptAnswer
        <3>1. pc = "adopt" /\ pc' = "return" /\ op # "delete"
            BY <2>0, <2>2 DEF AdoptAnswer, Return, Leave, Base, Requests, Steps, Polling, Writing
        <3>2. row # None => resp' # None
            <4> SUFFICES ASSUME row # None PROVE [Observed(Subject, row) EXCEPT !.status = None] # None
                BY <2>2 DEF AdoptAnswer, Return
            <4>1. [Observed(Subject, row) EXCEPT !.status = None] \in States
                BY <2>0, ObservedRow DEF States
            <4> QED BY <4>1, NoneIsNoRecord
        <3> QED BY <2>0, <3>1, <3>2 DEF Deserved, Over
    <2>3. CASE PreCheckAbsent
        <3>1. pc = "precheck" /\ (pc' = "write" \/ (pc' = "return" /\ row = None)) /\ op = "delete"
            BY <2>3 DEF PreCheckAbsent, Return, Leave, WriteNext
        <3> QED BY <2>0, <3>1 DEF Deserved, Over
    <2> QED BY <1>1, <2>1, <2>2, <2>3
<1>2. CASE Post \/ PostRejected \/ KeepWaiting \/ Pause \/ Change \/ WriteRejected \/ Remove
    <2>1. pc' \in {"poll", "pause"} \/ failed'
        BY <1>2 DEF Post, PostWith, PostRejected, WriteRejected, RejectedAt, KeepWaiting, PollAgain, Pause,
            PauseAt, Goto, Change, Remove, Write, PollNext, Fail
    <2>2. pc' \in {"poll", "pause", "return"}
        BY <1>2 DEF Post, PostWith, PostRejected, WriteRejected, RejectedAt, KeepWaiting, PollAgain, Pause,
            PauseAt, Goto, Change, Remove, Write, PollNext, Fail, Leave
    <2> QED BY <2>1, <2>2 DEF Deserved
<1>3. CASE Expire \/ EnvironmentStep \/ Untaint \/ UNCHANGED vars
    <2>1. UNCHANGED <<op, prior, pc, row, resp, failed>>
        BY <1>3 DEF Expire, EnvironmentStep, Untaint, vars, requestVars, localVars
    <2>2. \A i \in Ids : i \in seen /\ life'[i] = "alive" => life[i] = "alive"
        BY <1>3, EnvironmentBase DEF Forward, Placed, Expire, Untaint, vars, remoteVars
    <2> QED BY <2>1, <2>2, PriorKnown DEF Deserved, Over
<1>4. CASE Finish \/ Crash
    BY <1>4 DEF Finish, FinishCreate, FinishRead, FinishImport, FinishUpdate, FinishDelete, Crash, Settle,
        Deserved
<1>5. ASSUME NEW creates, NEW updates, CoreWith(creates, updates), ~Untaint, ~Crash PROVE Deserved'
    BY <1>5 DEF CoreWith, StartCreateWith, StartRead, StartImport, StartDelete, StartChange, StartUpdateAt,
        Start, Deserved
<1>6. (\E creates, updates \in SUBSET Plans : CoreWith(creates, updates)) => Untaint \/ Crash \/ Deserved'
    BY <1>5
<1> QED BY <1>1, <1>2, <1>3, <1>4, <1>6 DEF Handled

\* Which steps reach the services, apart from the parent's.
LEMMA RemoteSteps ==
    ASSUME \/ RuleCore \/ RuleHandler \/ Expire \/ RuleEnvironment
    PROVE  \/ UNCHANGED remoteVars \/ Change \/ Remove \/ RuleEnvironment
           \/ Post /\ group # "gone"
BY DEF RuleCore, CoreWith, StartCreateWith, StartRead, StartImport, StartDelete, StartChange, StartUpdateAt,
    Start, Untaint, Crash, Expire, Finish, FinishCreate, FinishRead, FinishImport, FinishUpdate,
    FinishDelete, Settle, RuleHandler, RuleCreate, PostRule, PostRejected, RejectedAt, RuleWait, Arrived,
    KeepWaiting, Pause, PauseAt, RuleRead, AdoptAnswer, RuleUpdate, WriteRejected, RuleDelete,
    PreCheckAbsent, Local

\* Every step keeps what a recorded absence rests on.
LEMMA ShownStep ==
    ASSUME Base, RuleTypeOK, Placed, Deserved, [RuleNext]_ruleVars
    PROVE  (Placed /\ Deserved)'
<1>1. CASE Rule
    BY <1>1, RuleLooksDeserved
<1>2. CASE ParentAppears
    BY <1>2 DEF ParentAppears, vars, remoteVars, requestVars, localVars, Placed, Deserved, Over
<1>3. CASE ParentDeleted
    <2>1. \A i \in Ids : life'[i] \in {"unborn", "gone"}
        BY <1>3 DEF ParentDeleted
    <2>2. Placed'
        BY <1>3, <2>1 DEF ParentDeleted, Placed, RuleTypeOK, Base, TypeOK, RemoteTypeOK
    <2>3. UNCHANGED <<op, prior, seen>>
        BY <1>3 DEF ParentDeleted, requestVars
    <2>4. op \in {"read", "delete"} => Over(prior.id)'
        BY <2>1, <2>3, PriorKnown DEF Over
    <2> QED BY <2>2, <2>3, <2>4 DEF Deserved
<1>4. CASE (RuleCore \/ RuleHandler \/ Expire \/ RuleEnvironment) /\ UNCHANGED <<group, seen>>
           /\ (confirmed' => confirmed)
    <2>1. Placed'
        BY <1>4, RemoteSteps, PlacedKept
    <2>2. RuleCore => \E creates, updates \in SUBSET Plans : CoreWith(creates, updates)
        BY DEF RuleCore, RulePlans
    <2>3. RuleHandler => Finish \/ Handled
        BY DEF RuleHandler, RuleCreate, PostRule, RuleWait, RuleRead, RuleUpdate, RuleDelete, Handled
    <2> QED BY <1>4, <2>1, <2>2, <2>3, ReturnsDeserved DEF RuleEnvironment, FirewallEnvironment
<1>5. CASE UNCHANGED ruleVars
    BY <1>5 DEF ruleVars, parentVars, vars, remoteVars, requestVars, localVars, Placed, Deserved, Over
<1>6. CASE (RuleHandler \/ Expire \/ RuleEnvironment) /\ UNCHANGED parentVars
    BY <1>4, <1>6 DEF parentVars
<1> QED BY <1>1, <1>2, <1>3, <1>4, <1>5, <1>6 DEF RuleNext

\* A rule that was shown leaves the state only when it has ended.
LEMMA ShownDropped ==
    ASSUME Base, Deserved, [RuleNext]_ruleVars, tf # None, tf' = None, tf.id \in seen
    PROVE  life[tf.id] # "alive"
<1>1. CASE Finish
    <2>1. op \in {"read", "delete"} /\ pc = "return" /\ ~failed /\ (op = "read" => resp = None)
        BY <1>1 DEF Finish, FinishCreate, FinishRead, FinishImport, FinishUpdate, FinishDelete, Settle,
            Base, Requests, Answers
    <2> QED BY <2>1, PriorKnown DEF Deserved, Over
<1>2. CASE ~Finish
    <2>1. CASE FirewallStep
        BY <1>2, <2>1, HandledKeepsState, StateKept DEF FirewallStep
    <2>2. CASE ParentDeleted
        BY <2>2 DEF ParentDeleted, coreVars
    <2> QED BY <2>1, <2>2, RuleSteps
<1> QED BY <1>1, <1>2

\* Type correctness of the rule model: the parent, the place between the two calls of a
\* read, and the history of what was shown.
THEOREM RuleTypeCorrect == RuleSpec => []RuleTypeOK
<1>1. RuleInit => RuleTypeOK
    BY FirewallInit DEF RuleInit, RuleTypeOK, Base
<1>2. Base /\ Base' /\ RuleTypeOK /\ [RuleNext]_ruleVars => RuleTypeOK'
    <2> SUFFICES ASSUME Base, Base', RuleTypeOK, [RuleNext]_ruleVars PROVE RuleTypeOK'
        OBVIOUS
    <2>1. CASE Rule
        <3>1. UNCHANGED group /\ confirmed' \in BOOLEAN
            BY <2>1 DEF Rule, ReadParent, ReadRules, RuleTypeOK
        <3>2. seen' \subseteq seen \cup listed
            BY <2>1 DEF Rule, ReadParent, ReadRules
        <3> QED BY <3>1, <3>2 DEF Base, TypeOK, RemoteTypeOK, RuleTypeOK
    <2>2. CASE ~Rule
        <3>1. group' \in {group, "shown", "gone"} /\ confirmed' \in {confirmed, FALSE} /\ seen' = seen
            BY <2>2 DEF RuleNext, ParentAppears, ParentDeleted, parentVars, ruleVars
        <3> QED BY <3>1 DEF Base, RuleTypeOK
    <2> QED BY <2>1, <2>2
<1> QED BY <1>1, <1>2, RuleInvariance, PTL DEF RuleSpec

\* A rule that a list has shown to this address leaves the state only when it has
\* ended: no error and no change of the parent is taken for its absence.
THEOREM ShownRuleHolds == RuleSpec => ShownRuleKept
<1>1. RuleInit => Placed /\ Deserved
    BY DEF RuleInit, Init, RemoteInit, Quiet, Placed, Deserved
<1>2. Base /\ RuleTypeOK /\ Placed /\ Deserved /\ [RuleNext]_ruleVars => (Placed /\ Deserved)'
    BY ShownStep
<1>3. Base /\ Deserved /\ [RuleNext]_ruleVars =>
        [tf # None /\ tf' = None /\ tf.id \in seen => life[tf.id] # "alive"]_ruleVars
    BY ShownDropped
<1> QED BY <1>1, <1>2, <1>3, RuleInvariance, RuleTypeCorrect, PTL DEF RuleSpec, ShownRuleKept
==============================================================================
