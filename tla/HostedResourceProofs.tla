------------------------- MODULE HostedResourceProofs -------------------------
(***************************************************************************)
(* The inductive invariants that the resources share, and one lemma for    *)
(* each of the steps they share.  Base is what holds of every resource;    *)
(* IInv adds what the hosted services know of identities.  A resource's    *)
(* own proof module adds its own steps and concludes.                      *)
(***************************************************************************)
EXTENDS HostedResource, TLAPS

\* A deletion was accepted or carried out; that is never taken back.
Ended(i) == life[i] \in {"dying", "gone"}

\* Only existing services are listed, and every existing service has a row.
Services ==
    \A i \in Ids : /\ life[i] \in {"alive", "dying"} => svc[i] # None
                   /\ i \in listed => life[i] \in {"alive", "dying"}

Polling == {"poll", "judge", "pause"}
Writing == {"write", "reconcile", "compare", "backoff"}

\* The steps of each handler.
Steps ==
    /\ op = "create" => pc \in {"post", "return"} \cup Polling \cup Writing
    /\ op \in {"read", "import"} => pc \in {"refresh", "adopt", "return"}
    /\ op \in {"update", "delete"} =>
            pc \in {"preread", "precheck", "return"} \cup Polling \cup Writing

\* What a handler knows of its request, and what it has answered so far.
Requests ==
    /\ op = "idle" => Quiet
    /\ Steps
    /\ failed => pc = "return"
    /\ op \in {"read", "update", "delete"} => tf # None /\ prior = tf
    /\ op \in {"create", "import"} => tf = None
    /\ op = "import" => prior # None /\ prior.status = None
    /\ op \in {"create", "update"} => want # None
    /\ op \in {"create", "update"} /\ pc \notin {"post", "return"} => goal # None
    /\ op = "delete" => goal = None

Answers ==
    /\ pc \in {"post", "return"} => row = None
    /\ pc = "post" => resp = None
    /\ op = "create" /\ pc \notin {"post", "return"} => resp # None
    /\ op # "create" /\ resp # None => resp.id = prior.id
    /\ op = "update" => resp # None
    /\ op = "update" /\ (failed \/ pc # "return") => resp = prior

\* A write that may have been accepted leaves no way back to a write; a create
\* that replaces the set does it on the way to the whole plan.
Once ==
    /\ NoReplay
    /\ op = "create" /\ pc \in Writing => goal = want
    /\ pc = "post" => hits["post"] = 0
    /\ \/ pc \in {"post", "preread", "precheck"} \cup Writing
       \/ op = "create" /\ pc \in Polling /\ goal # want
       => hits["put"] = 0 /\ hits["delete"] = 0

Base == TypeOK /\ Services /\ Requests /\ Answers /\ Once

\* A recorded status is evidence that the list has shown the service, so that
\* its absence from a later list means its end; a delete has other evidence.
Evidence ==
    /\ tf # None /\ tf.status # None => Seen(tf.id)
    /\ resp # None /\ resp.status # None => Seen(resp.id)
    /\ row # None => Seen(Subject)
    /\ op = "create" /\ resp # None => life[resp.id] # "unborn"
    /\ op = "import" /\ pc = "return" /\ ~failed => resp # None /\ resp.status # None
    /\ pc \in {"adopt", "precheck"} /\ row = None /\ Verified(prior) => Ended(prior.id)
    /\ op = "delete" /\ pc \in Polling => Ended(prior.id)
    /\ pc = "return" /\ ~failed /\ (op = "delete" \/ (op = "read" /\ resp = None)) =>
            Ended(prior.id)

Receipts ==
    /\ \A i \in receipts : life[i] # "unborn"
    /\ IdentityRetained

IInv == Base /\ Evidence /\ Receipts

-----------------------------------------------------------------------------
\* The life of a service goes one way, and what was seen was seen.
Forward ==
    \A i \in Ids : /\ life[i] # "unborn" => life'[i] # "unborn"
                   /\ Ended(i) => Ended(i)'
                   /\ Seen(i) => Seen(i)'
                   /\ life'[i] = "alive" => life[i] \in {"unborn", "alive"}

\* The conjuncts that only the remote side decides are kept by every step of a
\* handler that leaves it alone.
LEMMA LocalKeeps ==
    ASSUME Base, Local
    PROVE  /\ (RemoteTypeOK /\ Services)'
           /\ Forward
           /\ \A i \in Ids : (Seen(i) <=> Seen(i)') /\ (Ended(i) <=> Ended(i)')
<1>1. UNCHANGED remoteVars
    BY DEF Local, Frame
<1>2. RemoteTypeOK' /\ Services'
    BY <1>1 DEF Base, TypeOK, RemoteTypeOK, Services, remoteVars
<1>3. \A i \in Ids : (Seen(i) <=> Seen(i)') /\ (Ended(i) <=> Ended(i)')
    BY <1>1 DEF Seen, Ended, remoteVars
<1>4. Forward
    BY <1>1, <1>3 DEF Base, TypeOK, RemoteTypeOK, Lives, Forward, remoteVars
<1> QED BY <1>2, <1>3, <1>4

-----------------------------------------------------------------------------
\* Base: the steps of a handler that leave the remote side alone.

\* A handler that runs fails: it keeps the request and the answer it has.
LEMMA FailBase ==
    ASSUME Base, op # "idle", pc # "return", Fail, Local
    PROVE  Base'
<1> USE DEF Fail, Leave, Local, Frame
<1>1. TypeOK'
    BY LocalKeeps DEF Base, TypeOK, coreVars, requestVars, Pcs
<1>2. Requests'
    BY DEF Base, Requests, Steps, TypeOK, Ops, coreVars, requestVars
<1>3. Answers'
    BY DEF Base, Requests, Answers, coreVars, requestVars
<1>4. Once'
    BY DEF Base, Once, NoReplay, Polling, Writing, requestVars
<1> QED BY <1>1, <1>2, <1>3, <1>4, LocalKeeps DEF Base

\* A move of the program counter within one phase of a handler.
LEMMA GotoBase ==
    ASSUME Base, NEW at, Goto(at), Local,
           \/ pc \in Polling /\ at \in Polling
           \/ pc \in Writing /\ at \in Writing
    PROVE  Base'
<1> USE DEF Polling, Writing, Goto, Local, Frame
<1>1. TypeOK'
    BY LocalKeeps DEF Base, TypeOK, coreVars, requestVars, Pcs
<1>2. Requests'
    BY DEF Base, Requests, Quiet, Steps, TypeOK, Ops, coreVars, requestVars
<1>3. Answers'
    BY DEF Base, Requests, Answers, coreVars, requestVars
<1>4. Once'
    BY DEF Base, Once, NoReplay, requestVars
<1> QED BY <1>1, <1>2, <1>3, <1>4, LocalKeeps DEF Base

\* The answer of a call that reads, whatever it says.
LEMMA AnswerBase ==
    ASSUME Base, <<pc, pc'>> \in Calls, row' \in {None} \cup Rows,
           UNCHANGED <<goal, parent, resp, failed>>, Local
    PROVE  Base'
<1> USE DEF Calls, Local, Frame
<1>1. TypeOK'
    BY LocalKeeps DEF Base, TypeOK, coreVars, requestVars, Pcs
<1>2. Requests'
    BY DEF Base, Requests, Quiet, Steps, TypeOK, Ops, Polling, Writing, coreVars, requestVars
<1>3. Answers'
    BY DEF Base, Requests, Answers, coreVars, requestVars
<1>4. Once'
    BY DEF Base, Once, NoReplay, Polling, Writing, requestVars
<1> QED BY <1>1, <1>2, <1>3, <1>4, LocalKeeps DEF Base

\* What a list call shows of the subject is a row of it.
LEMMA ListedSubject ==
    ASSUME Base, op # "idle", pc # "post", pc # "return"
    PROVE  /\ Subject \in Ids
           /\ ListedRow(Subject) \in {None} \cup Rows
           /\ ListedRow(Subject) # None <=> Subject \in listed
<1>1. Subject \in Ids
    BY DEF Base, TypeOK, Requests, Answers, Quiet, Steps, Ops, Polling, Writing, Subject, States
<1> QED BY <1>1 DEF ListedRow, Base, TypeOK, RemoteTypeOK, Services

\* One list call.
LEMMA ListBase ==
    ASSUME Base, NEW at, NEW next, ListAt(at, next), <<at, next>> \in Calls
    PROVE  Base'
<1>1. op # "idle" /\ pc \notin {"post", "return"} /\ Local
    BY DEF ListAt, Base, Requests, Quiet, Calls
<1>2. CASE Fail
    BY <1>1, <1>2, FailBase
<1>3. CASE pc' = next /\ row' = ListedRow(Subject) /\ UNCHANGED <<goal, parent, resp, failed>>
    BY <1>1, <1>3, ListedSubject, AnswerBase DEF ListAt
<1> QED BY <1>2, <1>3 DEF ListAt

\* A timer, in the polling or in the busy loop.
LEMMA PauseBase ==
    ASSUME Base, NEW at, NEW next, PauseAt(at, next),
           <<at, next>> \in {<<"pause", "poll">>, <<"backoff", "write">>}
    PROVE  Base'
<1>1. op # "idle" /\ pc # "return" /\ Local
    BY DEF PauseAt, Base, Requests, Quiet
<1>2. CASE Fail
    BY <1>1, <1>2, FailBase
<1>3. CASE Goto(next)
    BY <1>1, <1>3, GotoBase DEF PauseAt, Polling, Writing
<1> QED BY <1>2, <1>3 DEF PauseAt

\* A write that the API did not take only fails the handler.
LEMMA RejectedBase ==
    ASSUME Base, NEW at \in {"post", "write"}, RejectedAt(at)
    PROVE  Base' /\ op # "idle" /\ pc # "return" /\ Fail /\ Local
<1>1. op # "idle" /\ pc # "return" /\ Fail /\ Local
    BY DEF RejectedAt, Base, Requests, Quiet
<1> QED BY <1>1, FailBase

\* The row is dropped and polling goes on.
LEMMA PollAgainBase ==
    ASSUME Base, pc = "judge", PollAgain, Local
    PROVE  Base'
<1> USE DEF PollAgain, Local, Frame
<1>1. TypeOK'
    BY LocalKeeps DEF Base, TypeOK, coreVars, requestVars, Pcs
<1>2. Requests'
    BY DEF Base, Requests, Quiet, Steps, TypeOK, Ops, coreVars, requestVars, Polling, Writing
<1>3. Answers'
    BY DEF Base, Requests, Answers, coreVars, requestVars
<1>4. Once'
    BY DEF Base, Once, NoReplay, requestVars, Polling, Writing
<1> QED BY <1>1, <1>2, <1>3, <1>4, LocalKeeps DEF Base

\* The row becomes the parent of a write.
LEMMA WriteNextBase ==
    ASSUME Base, pc = "precheck", WriteNext(resp), UNCHANGED goal, Local
    PROVE  Base'
<1> USE DEF WriteNext, Local, Frame
<1>1. TypeOK'
    BY LocalKeeps DEF Base, TypeOK, coreVars, requestVars, Pcs
<1>2. Requests'
    BY DEF Base, Requests, Quiet, Steps, TypeOK, Ops, coreVars, requestVars, Polling, Writing
<1>3. Answers'
    BY DEF Base, Requests, Answers, coreVars, requestVars
<1>4. Once'
    BY DEF Base, Once, NoReplay, Requests, Steps, requestVars, Polling, Writing
<1> QED BY <1>1, <1>2, <1>3, <1>4, LocalKeeps DEF Base

\* A handler that runs succeeds; only a read or a delete may answer with nothing.
LEMMA ReturnBase ==
    ASSUME Base, op # "idle", pc \notin {"post", "return"}, NEW s \in {None} \cup States,
           Return(s), Local,
           s # None /\ op # "create" => s.id = prior.id,
           op = "update" => s # None
    PROVE  Base'
<1> USE DEF Return, Leave, Local, Frame
<1>1. TypeOK'
    BY LocalKeeps DEF Base, TypeOK, coreVars, requestVars, Pcs
<1>2. Requests'
    BY DEF Base, Requests, Steps, TypeOK, Ops, coreVars, requestVars, Polling, Writing
<1>3. Answers'
    BY DEF Base, Requests, Answers, coreVars, requestVars
<1>4. Once'
    BY DEF Base, Once, NoReplay, requestVars, Polling, Writing
<1> QED BY <1>1, <1>2, <1>3, <1>4, LocalKeeps DEF Base

-----------------------------------------------------------------------------
\* Base: the remote side.

\* A body replaces the set, or a part of it, by entries.
LEMMA AppliedSet ==
    ASSUME NEW b \in Bodies, NEW r \in Rows
    PROVE  [r EXCEPT !.set = Applied(b, r.set)] \in Rows
<1>1. Applied(b, r.set) \in SUBSET Entries
    BY DEF Applied, Bodies, Rows
<1> QED BY <1>1 DEF Rows

\* A new service.
LEMMA BornRemote ==
    ASSUME RemoteTypeOK, Services, NEW i \in Ids, NEW c \in Configs, NEW s \in SUBSET Entries,
           Born(i, c, s)
    PROVE  (RemoteTypeOK /\ Services)' /\ Forward
<1> DEFINE new == [status |-> "pending", config |-> c, set |-> s]
<1>1. new \in Rows /\ new # None
    BY NoneIsNoRow DEF Rows, Statuses
<1>2. /\ life[i] = "unborn" /\ life' = [life EXCEPT ![i] = "alive"]
      /\ svc' = [svc EXCEPT ![i] = new] /\ UNCHANGED <<listed, job>>
    BY DEF Born
<1> HIDE DEF new
<1> QED BY <1>1, <1>2 DEF RemoteTypeOK, Services, Forward, Seen, Ended, Lives

\* A deletion that the API takes, for the first time or again.
LEMMA DeleteRemote ==
    ASSUME RemoteTypeOK, Services, NEW i \in Ids, AcceptDelete(i)
    PROVE  (RemoteTypeOK /\ Services)' /\ Forward /\ life'[i] = "dying"
BY DEF AcceptDelete, RemoteTypeOK, Services, Forward, Seen, Ended, Lives

\* A replacement that sets out changes nothing yet.
LEMMA SendRemote ==
    ASSUME RemoteTypeOK, Services, NEW i \in Ids, NEW b \in Bodies, SendSet(i, b)
    PROVE  (RemoteTypeOK /\ Services)' /\ Forward /\ UNCHANGED <<life, listed, svc>>
BY DEF SendSet, RemoteTypeOK, Services, Forward, Seen, Ended, Lives

\* The remote side never goes back: what is gone stays gone, what is listed exists.
LEMMA RemoteMoves ==
    ASSUME RemoteTypeOK, Services, Environment
    PROVE  (RemoteTypeOK /\ Services)' /\ Forward
<1> USE DEF RemoteTypeOK, Services, Forward, Seen, Ended, Lives
<1>1. ASSUME NEW i \in Ids, Appear(i)
      PROVE  (RemoteTypeOK /\ Services)' /\ Forward
    BY <1>1 DEF Appear
<1>2. ASSUME NEW i \in Ids, NEW st \in Statuses, Turn(i, st)
      PROVE  (RemoteTypeOK /\ Services)' /\ Forward
    <2> DEFINE new == [svc[i] EXCEPT !.status = st]
    <2>1. svc[i] \in Rows
        BY <1>2 DEF Turn
    <2>2. new \in Rows
        BY <2>1 DEF Rows
    <2>3. svc' = [svc EXCEPT ![i] = new] /\ UNCHANGED <<life, listed, job>>
        BY <1>2 DEF Turn
    <2> HIDE DEF new
    <2> QED BY <2>2, <2>3, NoneIsNoRow
<1>3. ASSUME NEW i \in Ids, NEW b, Land(i, b)
      PROVE  (RemoteTypeOK /\ Services)' /\ Forward
    <2> DEFINE new == [svc[i] EXCEPT !.set = Applied(b, svc[i].set)]
    <2>1. svc[i] \in Rows /\ b \in Bodies
        BY <1>3 DEF Land
    <2>2. new \in Rows
        BY <2>1, AppliedSet
    <2>3. svc' = [svc EXCEPT ![i] = new] /\ UNCHANGED <<life, listed>>
        BY <1>3 DEF Land
    <2>4. job' \in [Ids -> SUBSET Bodies]
        BY <1>3 DEF Land
    <2> HIDE DEF new
    <2> QED BY <2>2, <2>3, <2>4, NoneIsNoRow
<1>4. ASSUME NEW i \in Ids, NEW b, Fade(i, b)
      PROVE  (RemoteTypeOK /\ Services)' /\ Forward
    BY <1>4 DEF Fade
<1>5. ASSUME NEW i \in Ids, Die(i)
      PROVE  (RemoteTypeOK /\ Services)' /\ Forward
    BY <1>5 DEF Die
<1>6. ASSUME NEW i \in Ids, NEW c \in Configs, NEW s \in SUBSET Entries, OutsideEdit(i, c, s)
      PROVE  (RemoteTypeOK /\ Services)' /\ Forward
    <2> DEFINE new == [svc[i] EXCEPT !.config = c, !.set = s]
    <2>1. svc[i] \in Rows
        BY <1>6 DEF OutsideEdit
    <2>2. new \in Rows
        BY <2>1 DEF Rows
    <2>3. svc' = [svc EXCEPT ![i] = new] /\ UNCHANGED <<life, listed, job>>
        BY <1>6 DEF OutsideEdit
    <2> HIDE DEF new
    <2> QED BY <2>2, <2>3, NoneIsNoRow
<1>7. ASSUME NEW i \in Ids, OutsideDelete(i)
      PROVE  (RemoteTypeOK /\ Services)' /\ Forward
    BY <1>7, DeleteRemote DEF OutsideDelete
<1>8. ASSUME NEW i \in Ids, NEW c \in Configs, NEW s \in SUBSET Entries, OutsideCreate(i, c, s)
      PROVE  (RemoteTypeOK /\ Services)' /\ Forward
    BY <1>8, BornRemote DEF OutsideCreate
<1> QED BY <1>1, <1>2, <1>3, <1>4, <1>5, <1>6, <1>7, <1>8 DEF Environment

\* What the remote side does leaves the request and the answers alone.
LEMMA EnvironmentBase ==
    ASSUME Base, EnvironmentStep
    PROVE  Base' /\ Forward
<1> USE DEF EnvironmentStep, coreVars, requestVars, localVars
<1>0. (RemoteTypeOK /\ Services)' /\ Forward
    BY RemoteMoves DEF Base, TypeOK
<1>1. TypeOK'
    <2>1. touched' \in BOOLEAN
        BY DEF Environment, Base, TypeOK
    <2> QED BY <1>0, <2>1 DEF Base, TypeOK
<1>2. Requests'
    <2>1. op = "idle" => touched' = FALSE
        BY DEF Environment, Base, Requests, Quiet
    <2> QED BY <2>1 DEF Base, Requests, Quiet, Steps
<1>3. Answers'
    BY DEF Base, Answers
<1>4. Once'
    BY DEF Base, Once, NoReplay
<1> QED BY <1>0, <1>1, <1>2, <1>3, <1>4 DEF Base

-----------------------------------------------------------------------------
\* Base: writes.

\* What a POST does, apart from its effect on the handler.
LEMMA PostRemote ==
    ASSUME Base, NEW s \in SUBSET Entries, NEW rs, NEW g, PostWith(s, rs, g)
    PROVE  /\ pc = "post" /\ op = "create" /\ tf = None /\ resp = None /\ row = None /\ want \in Plans
           /\ (RemoteTypeOK /\ Services)' /\ Forward
<1>1. /\ pc = "post" /\ op = "create" /\ tf = None /\ resp = None /\ row = None /\ want \in Plans
    BY DEF PostWith, Base, TypeOK, Ops, Requests, Quiet, Steps, Answers, Polling, Writing
<1>2. RemoteTypeOK /\ Services /\ want.config \in Configs
    BY <1>1 DEF Base, TypeOK, Plans
<1>3. ASSUME UNCHANGED remoteVars
      PROVE  (RemoteTypeOK /\ Services)' /\ Forward
    BY <1>2, <1>3 DEF remoteVars, RemoteTypeOK, Services, Forward, Seen, Ended, Lives
<1>4. ASSUME NEW i \in Ids, Born(i, want.config, s)
      PROVE  (RemoteTypeOK /\ Services)' /\ Forward
    BY <1>2, <1>4, BornRemote
<1> QED BY <1>1, <1>3, <1>4 DEF PostWith

\* A new service, or none yet: the handler learns an identity or fails.
LEMMA PostBase ==
    ASSUME Base, NEW s \in SUBSET Entries, NEW rs \in {None} \cup SUBSET Entries,
           NEW g \in Plans, PostWith(s, rs, g)
    PROVE  Base'
<1>1. /\ pc = "post" /\ op = "create" /\ tf = None /\ resp = None /\ row = None
      /\ want \in Plans /\ want # None
    BY PostRemote, NoneIsNoRecord
<1>2. \A i \in Ids : Pending(i, rs) \in States /\ Pending(i, rs) # None
    BY <1>1, NoneIsNoRecord DEF Pending, States, Plans
<1>3. /\ hits' = [hits EXCEPT !["post"] = hits["post"] + 1]
      /\ UNCHANGED <<tf, tainted, op, prior, want, expired, lost, touched>>
    BY DEF PostWith, Hit, Frame, coreVars, requestVars
<1>4. /\ resp' \in {None} \cup States /\ receipts' \in SUBSET Ids /\ row' = None
      /\ \/ /\ pc' = "poll" /\ goal' = g /\ resp' # None /\ UNCHANGED <<parent, failed>>
         \/ /\ pc' = "return" /\ goal' = None /\ parent' = None /\ failed' = TRUE
    <2>1. receipts \in SUBSET Ids
        BY DEF Base, TypeOK
    <2> QED BY <1>1, <1>2, <2>1 DEF PostWith, Leave, Fail
<1>5. TypeOK'
    <2>1. hits' \in [Writes -> Nat]
        BY <1>3 DEF Base, TypeOK, Writes
    <2> QED BY <1>1, <1>3, <1>4, <2>1, PostRemote DEF Base, TypeOK, Pcs
<1>6. Requests'
    BY <1>1, <1>3, <1>4, NoneIsNoRecord DEF Base, Requests, Steps, Polling, Writing
<1>7. Answers'
    BY <1>1, <1>3, <1>4 DEF Base, Answers
<1>8. Once'
    BY <1>1, <1>3, <1>4 DEF Base, TypeOK, Once, NoReplay, Writes, Polling, Writing
<1> QED BY <1>5, <1>6, <1>7, <1>8, PostRemote DEF Base

\* What a write does to the handler, whatever the remote side makes of it.
WriteLocals ==
    /\ pc = "write" /\ op \in {"create", "update", "delete"}
    /\ Hit(WrittenKind)
    /\ PollNext \/ Fail
    /\ Frame /\ UNCHANGED <<touched, receipts>>

\* The handler's part of a write, whatever the API made of it.
LEMMA WriteLocalsBase ==
    ASSUME Base, WriteLocals, (RemoteTypeOK /\ Services)'
    PROVE  Base'
<1>0. /\ pc = "write" /\ op \in {"create", "update", "delete"}
      /\ hits' = [hits EXCEPT ![WrittenKind] = hits[WrittenKind] + 1]
      /\ WrittenKind \in {"put", "delete"}
      /\ UNCHANGED <<tf, tainted, op, prior, want, resp, touched, receipts, expired, lost>>
      /\ row' = None /\ parent' = None
      /\ \/ pc' = "poll" /\ UNCHANGED <<goal, failed>>
         \/ pc' = "return" /\ goal' = None /\ failed' = TRUE
    BY DEF WriteLocals, Hit, WrittenKind, Frame, coreVars, requestVars, PollNext, Fail, Leave
<1>1. TypeOK'
    <2>1. hits' \in [Writes -> Nat]
        BY <1>0 DEF Base, TypeOK, Writes
    <2> QED BY <1>0, <2>1 DEF Base, TypeOK, Pcs
<1>2. Requests'
    BY <1>0 DEF Base, Requests, Steps, Polling, Writing
<1>3. Answers'
    BY <1>0 DEF Base, Requests, Answers
<1>4. Once'
    <2>1. hits["put"] = 0 /\ hits["delete"] = 0
        BY <1>0 DEF Base, Once, Writing
    <2> QED BY <1>0, <2>1 DEF Base, TypeOK, Once, NoReplay, Writes, Polling, Writing
<1> QED BY <1>1, <1>2, <1>3, <1>4 DEF Base

\* The identity and the plan that a write is about.
LEMMA WriteAbout ==
    ASSUME Base, pc = "write"
    PROVE  /\ Subject \in Ids /\ op \in {"create", "update", "delete"}
           /\ op # "delete" => want \in Plans /\ FullSet(want.set) \in Bodies
<1>1. Subject \in Ids /\ op \in {"create", "update", "delete"} /\ (op # "delete" => want \in Plans)
    BY NoneIsNoRecord DEF Base, TypeOK, Ops, Requests, Quiet, Steps, Answers, Subject, States
<1> QED BY <1>1 DEF Plans, FullSet, Bodies

\* A PUT or DELETE: accepted, unanswered, or still on its way.
LEMMA WriteBase ==
    ASSUME Base, Write
    PROVE  /\ Base' /\ WriteLocals /\ Forward
           /\ op = "delete" => failed' \/ life'[Subject] = "dying"
<1>0. /\ Subject \in Ids /\ op \in {"create", "update", "delete"}
      /\ op # "delete" => FullSet(want.set) \in Bodies
      /\ RemoteTypeOK /\ Services
    BY WriteAbout DEF Write, Base, TypeOK
<1>1. WriteLocals
    BY <1>0 DEF Write, WriteLocals
<1>2. CASE op # "delete" /\ SendSet(Subject, FullSet(want.set))
    BY <1>0, <1>1, <1>2, SendRemote, WriteLocalsBase
<1>3. CASE op = "delete" /\ AcceptDelete(Subject)
    BY <1>0, <1>1, <1>3, DeleteRemote, WriteLocalsBase
<1>4. CASE UNCHANGED remoteVars /\ Fail
    <2>1. (RemoteTypeOK /\ Services)' /\ Forward
        BY <1>0, <1>4 DEF remoteVars, RemoteTypeOK, Services, Forward, Seen, Ended, Lives
    <2> QED BY <1>1, <1>4, <2>1, WriteLocalsBase DEF Fail
<1> QED BY <1>2, <1>3, <1>4 DEF Write

-----------------------------------------------------------------------------
\* Base: Terraform Core.

\* A handler starts with nothing but its request, before any call of its own.
LEMMA StartBase ==
    ASSUME Base, NEW o \in Ops \ {"idle"}, NEW st \in {None} \cup States,
           NEW w \in {None} \cup Plans, NEW g \in {None} \cup Plans, NEW rs \in {None, st},
           NEW at \in {"post", "refresh", "preread", "poll", "write", "return"},
           o = "create" => at # "write",
           Start(o, st, w, at, g, rs),
           (Requests /\ Answers)'
    PROVE  /\ Base'
           /\ UNCHANGED <<life, listed, svc, job, tf, tainted, parent, failed, expired,
                          hits, touched, receipts, lost>>
           /\ op = "idle" /\ row' = None /\ resp = None
<1>1. /\ UNCHANGED <<life, listed, svc, job, tf, tainted, parent, failed, expired,
                     hits, touched, receipts, lost>>
      /\ op = "idle" /\ row' = None /\ resp = None /\ hits = [k \in Writes |-> 0]
      /\ op' = o /\ prior' = st /\ want' = w /\ pc' = at /\ goal' = g /\ resp' = rs
    BY DEF Start, remoteVars, coreVars, historyVars, Base, Requests, Quiet
<1>2. (RemoteTypeOK /\ Services)'
    BY <1>1 DEF Base, TypeOK, RemoteTypeOK, Services
<1>3. TypeOK'
    BY <1>1, <1>2 DEF Base, TypeOK, Pcs
<1>4. Once'
    <2>1. hits' = [k \in Writes |-> 0]
        BY <1>1
    <2> QED BY <1>1, <2>1 DEF Once, NoReplay, Writes, Polling, Writing
<1> QED BY <1>1, <1>2, <1>3, <1>4 DEF Base

\* The requests that Core makes of every resource.
LEMMA CoreRequests ==
    ASSUME Base
    PROVE  /\ \A plans \in SUBSET Plans : StartCreateWith(plans) => (Requests /\ Answers)'
           /\ StartRead => (Requests /\ Answers)'
           /\ \A i \in Ids : /\ Stub(i) \in States /\ Stub(i).status = None
                             /\ tf = None /\ Start("import", Stub(i), None, "refresh", None, Stub(i))
                                    => (Requests /\ Answers)'
           /\ \A w \in Plans, at \in {"poll", "preread", "write"} :
                StartUpdateAt(w, at) => (Requests /\ Answers)'
           /\ StartDelete => (Requests /\ Answers)'
<1> USE NoneIsNoRecord DEF Start, coreVars, Base, Requests, Quiet, Steps, Answers, Polling, Writing
<1>1. ASSUME NEW plans \in SUBSET Plans, StartCreateWith(plans) PROVE (Requests /\ Answers)'
    BY <1>1 DEF StartCreateWith
<1>2. StartRead => (Requests /\ Answers)'
    BY DEF StartRead
<1>3. ASSUME NEW i \in Ids
      PROVE  /\ Stub(i) \in States /\ Stub(i).status = None
             /\ tf = None /\ Start("import", Stub(i), None, "refresh", None, Stub(i))
                    => (Requests /\ Answers)'
    <2>1. Stub(i) \in States /\ Stub(i).status = None /\ Stub(i) # None
        BY DEF Stub, States
    <2> QED BY <2>1
<1>4. ASSUME NEW w \in Plans, NEW at \in {"poll", "preread", "write"}, StartUpdateAt(w, at)
      PROVE  (Requests /\ Answers)'
    BY <1>4 DEF StartUpdateAt
<1>5. StartDelete => (Requests /\ Answers)'
    BY DEF StartDelete
<1> QED BY <1>1, <1>2, <1>3, <1>4, <1>5

LEMMA CoreBase ==
    ASSUME Base,
           \/ \E plans \in SUBSET Plans : StartCreateWith(plans)
           \/ \E w \in Plans, at \in {"poll", "preread", "write"} : StartUpdateAt(w, at)
           \/ StartRead \/ StartImport \/ StartDelete
    PROVE  Base'
<1>0. tf \in {None} \cup States
    BY DEF Base, TypeOK
<1>1. ASSUME NEW plans \in SUBSET Plans, StartCreateWith(plans) PROVE Base'
    <2> PICK w \in plans : Start("create", None, w, "post", None, None)
        BY <1>1 DEF StartCreateWith
    <2> QED BY <1>1, CoreRequests, StartBase DEF Ops
<1>2. ASSUME NEW w \in Plans, NEW at \in {"poll", "preread", "write"}, StartUpdateAt(w, at) PROVE Base'
    BY <1>0, <1>2, CoreRequests, StartBase DEF StartUpdateAt, Ops
<1>3. CASE StartRead
    BY <1>0, <1>3, CoreRequests, StartBase DEF StartRead, Ops
<1>4. CASE StartImport
    <2> PICK i \in Ids : Start("import", Stub(i), None, "refresh", None, Stub(i))
        BY <1>4 DEF StartImport
    <2>1. tf = None
        BY <1>4 DEF StartImport
    <2> QED BY <2>1, CoreRequests, StartBase DEF Ops
<1>5. CASE StartDelete
    BY <1>0, <1>5, CoreRequests, StartBase DEF StartDelete, Ops
<1> QED BY <1>1, <1>2, <1>3, <1>4, <1>5

\* Core forgets the request.
LEMMA SettleBase ==
    ASSUME Base, NEW st \in {None} \cup States, NEW taint \in BOOLEAN, Settle(st, taint),
           lost' \in SUBSET Ids
    PROVE  Base' /\ tf' = st /\ Quiet' /\ UNCHANGED <<life, listed, receipts>>
<1>1. /\ UNCHANGED <<life, listed, svc, job, receipts>>
      /\ tf' = st /\ tainted' = taint /\ Quiet'
    BY DEF Settle, remoteVars, Quiet
<1>2. (RemoteTypeOK /\ Services)'
    BY <1>1 DEF Base, TypeOK, RemoteTypeOK, Services
<1>3. TypeOK'
    BY <1>1, <1>2 DEF Quiet, Base, TypeOK, Ops, Pcs
<1>4. Requests' /\ Answers'
    BY <1>1 DEF Requests, Answers, Quiet, Steps
<1>5. Once'
    BY <1>1 DEF Once, NoReplay, Quiet, Writes, Polling, Writing
<1> QED BY <1>1, <1>2, <1>3, <1>4, <1>5 DEF Base

\* An operation ends, in one way or the other.
LEMMA EndBase ==
    ASSUME Base, Finish \/ Crash
    PROVE  Base'
<1>1. /\ tf \in {None} \cup States /\ resp \in {None} \cup States /\ lost' \in SUBSET Ids
      /\ tainted \in BOOLEAN /\ failed \in BOOLEAN
    BY DEF Base, TypeOK, States, Finish, Crash
<1>2. \E st \in {None} \cup States, taint \in BOOLEAN : Settle(st, taint)
    BY <1>1 DEF Finish, FinishCreate, FinishRead, FinishImport, FinishUpdate, FinishDelete, Crash
<1> QED BY <1>1, <1>2, SettleBase

\* Steps of Core that change one thing, and none.
LEMMA StillBase ==
    ASSUME Base, Untaint \/ Expire \/ UNCHANGED vars
    PROVE  Base'
<1>1. /\ UNCHANGED <<remoteVars, tf, requestVars, localVars, historyVars>>
      /\ tainted' \in BOOLEAN /\ expired' \in BOOLEAN
      /\ op = "idle" => expired' = expired
    BY DEF Untaint, Expire, vars, coreVars, Base, TypeOK
<1> USE <1>1 DEF remoteVars, requestVars, localVars, historyVars
<1>2. TypeOK' /\ Services'
    BY DEF Base, TypeOK, RemoteTypeOK, Services
<1>3. Requests'
    BY DEF Base, Requests, Quiet, Steps
<1>4. Answers' /\ Once'
    BY DEF Base, Answers, Once, NoReplay
<1> QED BY <1>2, <1>3, <1>4 DEF Base

LEMMA InitBase ==
    ASSUME Init
    PROVE  Base
<1> USE DEF Init, RemoteInit, Quiet
<1>1. TypeOK
    <2>1. RemoteTypeOK
        BY DEF RemoteTypeOK, Lives
    <2>2. hits \in [Writes -> Nat]
        BY DEF Writes
    <2> QED BY <2>1, <2>2 DEF TypeOK, Ops, Pcs
<1>2. Services
    BY DEF Services
<1>3. Requests /\ Answers
    BY DEF Requests, Answers, Steps
<1>4. Once
    BY DEF Once, NoReplay, Writes, Polling, Writing
<1> QED BY <1>1, <1>2, <1>3, <1>4 DEF Base

-----------------------------------------------------------------------------
\* IInv: the same steps, with what they mean for the knowledge of identities.

\* A handler that runs fails: it keeps the request and the answer it has.
LEMMA FailStep ==
    ASSUME IInv, op # "idle", pc # "return", Fail, Local
    PROVE  IInv'
<1> USE DEF Fail, Leave, Local, Frame, coreVars, requestVars, remoteVars
<1>1. Evidence'
    BY LocalKeeps DEF IInv, Evidence, Seen, Ended, Subject, Polling
<1>2. Receipts'
    BY DEF IInv, Receipts, IdentityRetained
<1> QED BY <1>1, <1>2, FailBase DEF IInv

\* A move of the program counter within one phase of a handler.
LEMMA GotoStep ==
    ASSUME IInv, NEW at, Goto(at), Local,
           \/ pc \in Polling /\ at \in Polling
           \/ pc \in Writing /\ at \in Writing
    PROVE  IInv'
<1> USE DEF Goto, Local, Frame, coreVars, requestVars, remoteVars
<1>1. Evidence'
    BY DEF IInv, Evidence, Polling, Writing, Subject, Seen, Ended, Verified
<1>2. Receipts'
    BY DEF IInv, Receipts, IdentityRetained
<1> QED BY <1>1, <1>2, GotoBase DEF IInv

\* One list call: its row, or its silence about a service it has shown before,
\* is evidence for the step that looks at it.
LEMMA ListStep ==
    ASSUME IInv, NEW at, NEW next, ListAt(at, next), <<at, next>> \in Calls
    PROVE  IInv'
<1>0. /\ op # "idle" /\ pc \notin {"post", "return"} /\ Local
      /\ Base /\ Base'
    BY ListBase DEF ListAt, IInv, Base, Requests, Quiet, Calls
<1>1. CASE Fail
    BY <1>0, <1>1, FailStep
<1>2. CASE /\ pc = at /\ pc' = next /\ row' = ListedRow(Subject)
           /\ UNCHANGED <<goal, parent, resp, failed>>
    <2> USE <1>0, <1>2 DEF Calls, Local, Frame, coreVars, requestVars, remoteVars
    <2>1. row' # None <=> Subject \in listed
        BY ListedSubject
    <2>2. Evidence'
        <3>1. (row # None)' => Seen(Subject)'
            BY <2>1 DEF Seen, Subject
        <3>2. (pc \in {"adopt", "precheck"} /\ row = None /\ Verified(prior))' => Ended(prior.id)'
            <4> SUFFICES ASSUME (pc \in {"adopt", "precheck"} /\ row = None /\ Verified(prior))'
                         PROVE  Ended(prior.id)'
                OBVIOUS
            <4>1. op \in {"read", "update", "delete"} /\ prior = tf /\ tf # None /\ prior' = prior
                BY NoneIsNoRow DEF Base, Requests, Steps, TypeOK, Ops, Polling, Writing, Verified,
                    Statuses
            <4>2. Seen(prior.id) /\ Subject = prior.id
                BY <4>1, NoneIsNoRow DEF IInv, Evidence, Verified, Statuses, Subject
            <4>3. Ended(prior.id)
                BY <4>2, <2>1 DEF Seen, Ended
            <4> QED BY <4>1, <4>3 DEF Ended
        <3> QED BY <3>1, <3>2 DEF IInv, Base, Evidence, Requests, Polling, Seen, Ended
    <2>3. Receipts'
        BY DEF IInv, Receipts, IdentityRetained
    <2> QED BY <2>2, <2>3 DEF IInv
<1> QED BY <1>1, <1>2 DEF ListAt

LEMMA PauseStep ==
    ASSUME IInv, NEW at, NEW next, PauseAt(at, next),
           <<at, next>> \in {<<"pause", "poll">>, <<"backoff", "write">>}
    PROVE  IInv'
<1>1. op # "idle" /\ pc # "return" /\ Local
    BY DEF PauseAt, IInv, Base, Requests, Quiet
<1>2. CASE Fail
    BY <1>1, <1>2, FailStep
<1>3. CASE Goto(next)
    BY <1>1, <1>3, GotoStep DEF PauseAt, Polling, Writing
<1> QED BY <1>2, <1>3 DEF PauseAt

LEMMA RejectedStep ==
    ASSUME IInv, NEW at \in {"post", "write"}, RejectedAt(at)
    PROVE  IInv'
BY RejectedBase, FailStep DEF IInv

\* The row is dropped and polling goes on.
LEMMA PollAgainStep ==
    ASSUME IInv, pc = "judge", PollAgain, Local
    PROVE  IInv'
<1> USE DEF PollAgain, Local, Frame, coreVars, requestVars, remoteVars
<1>1. Evidence'
    BY DEF IInv, Evidence, Subject, Polling, Seen, Ended, Verified
<1>2. Receipts'
    BY DEF IInv, Receipts, IdentityRetained
<1> QED BY <1>1, <1>2, PollAgainBase DEF IInv

\* The row becomes the verified parent of a write.
LEMMA WriteNextStep ==
    ASSUME IInv, pc = "precheck", WriteNext(resp), UNCHANGED goal, Local
    PROVE  IInv'
<1> USE DEF WriteNext, Local, Frame, coreVars, requestVars, remoteVars
<1>1. Evidence'
    BY DEF IInv, Evidence, Subject, Polling, Seen, Ended, Verified
<1>2. Receipts'
    BY DEF IInv, Receipts, IdentityRetained
<1> QED BY <1>1, <1>2, WriteNextBase DEF IInv

\* The answer of a handler that succeeds: what it observed, under its identity.
LEMMA ObservedRow ==
    ASSUME Base, op # "idle", pc \notin {"post", "return"}, row # None
    PROVE  /\ Subject \in Ids
           /\ Observed(Subject, row) \in States
           /\ Observed(Subject, row) # None
           /\ Observed(Subject, row).id = Subject
           /\ Observed(Subject, row).status # None
<1>1. Subject \in Ids
    BY ListedSubject
<1>2. row.status \in Statuses /\ row.config \in Configs /\ row.set \in SUBSET Entries
    BY DEF Base, TypeOK, Rows
<1>3. Observed(Subject, row) \in States
    BY <1>1, <1>2 DEF Observed, States
<1> QED BY <1>1, <1>2, <1>3, NoneIsNoRecord, NoneIsNoRow DEF Observed

\* A handler that runs returns the row it observed.
LEMMA ReturnObserved ==
    ASSUME IInv, pc \notin {"off", "post", "return"}, op # "delete", row # None,
           Return(Observed(Subject, row)), Local
    PROVE  IInv'
<1> DEFINE new == Observed(Subject, row)
<1>0. /\ op # "idle" /\ resp' = new /\ Return(new)
      /\ Subject \in Ids /\ new \in States /\ new # None /\ new.id = Subject /\ new.status # None
    BY ObservedRow DEF Return, IInv, Base, Requests, Quiet
<1>1. Seen(Subject) /\ life[Subject] # "unborn"
    BY <1>0 DEF IInv, Base, Evidence, Services, Seen
<1> HIDE DEF new
<1>2. Base'
    BY <1>0, ReturnBase DEF IInv, Subject
<1> USE <1>0, <1>1 DEF Return, Leave, Local, Frame, coreVars, requestVars, remoteVars
<1>3. Evidence'
    BY DEF IInv, Evidence, Subject, Polling, Seen, Ended, Verified
<1>4. Receipts'
    BY DEF IInv, Base, Requests, Receipts, IdentityRetained, Answers, Subject
<1> QED BY <1>2, <1>3, <1>4 DEF IInv

\* A handler that may let the identity go returns without one.
LEMMA ReturnNothing ==
    ASSUME IInv, pc \notin {"off", "post", "return"}, op \in {"read", "delete"}, Ended(prior.id),
           Return(None), Local
    PROVE  IInv'
<1>1. Base'
    BY ReturnBase DEF IInv
<1> USE DEF Return, Leave, Local, Frame, coreVars, requestVars, remoteVars
<1>2. Evidence'
    BY DEF IInv, Evidence, Subject, Polling, Seen, Ended, Verified
<1>3. Receipts'
    BY DEF IInv, Base, Requests, Receipts, IdentityRetained
<1> QED BY <1>1, <1>2, <1>3 DEF IInv

\* The end of the wait, and its other steps.
LEMMA ArriveStep ==
    ASSUME IInv, Arrive
    PROVE  IInv'
<1>1. CASE op = "delete"
    <2>1. Ended(prior.id)
        BY <1>1 DEF IInv, Base, Evidence, Arrive, Polling
    <2> QED BY <1>1, <2>1, ReturnNothing DEF Arrive
<1>2. CASE op # "delete"
    <2>1. op \in {"create", "update"} /\ goal # None
        BY <1>2 DEF IInv, Base, TypeOK, Ops, Requests, Quiet, Steps, Arrive
    <2> QED BY <1>2, <2>1, ReturnObserved DEF Arrive, Reached, Agrees
<1> QED BY <1>1, <1>2

LEMMA WaitMoves ==
    ASSUME IInv, Poll \/ GiveUp \/ KeepGoing \/ Pause
    PROVE  IInv'
<1>1. CASE Poll
    BY <1>1, ListStep DEF Poll, Calls
<1>2. CASE GiveUp
    BY <1>2, FailStep DEF GiveUp, IInv, Base, Requests, Quiet
<1>3. CASE KeepGoing
    BY <1>3, PollAgainStep DEF KeepGoing
<1>4. CASE Pause
    BY <1>4, PauseStep DEF Pause
<1> QED BY <1>1, <1>2, <1>3, <1>4

LEMMA RefreshStep ==
    ASSUME IInv, Refresh \/ Adopt
    PROVE  IInv'
<1>1. CASE Refresh
    BY <1>1, ListStep DEF Refresh, Calls
<1>2. CASE Adopt
    <2>0. /\ pc = "adopt" /\ op \in {"read", "import"} /\ Local
          /\ op = "import" => ~Verified(prior)
        BY <1>2, NoneIsNoRow DEF Adopt, IInv, Base, TypeOK, Ops, Requests, Quiet, Steps, Polling,
            Writing, Verified, Statuses
    <2>1. CASE row # None
        BY <1>2, <2>0, <2>1, ReturnObserved DEF Adopt
    <2>2. CASE row = None /\ Verified(prior)
        <3>1. Ended(prior.id)
            BY <2>0, <2>2 DEF IInv, Base, Evidence
        <3> QED BY <1>2, <2>0, <2>2, <3>1, ReturnNothing DEF Adopt
    <2>3. CASE row = None /\ ~Verified(prior)
        BY <1>2, <2>0, <2>3, FailStep DEF Adopt
    <2> QED BY <2>1, <2>2, <2>3
<1> QED BY <1>1, <1>2

LEMMA PreCheckStep ==
    ASSUME IInv, PreRead \/ PreCheckUpdate \/ PreCheckDelete
    PROVE  IInv'
<1>1. CASE PreRead
    BY <1>1, ListStep DEF PreRead, Calls
<1>2. CASE PreCheckUpdate
    <2>1. CASE Agrees(row, prior)
        BY <1>2, <2>1, WriteNextStep DEF PreCheckUpdate
    <2>2. CASE ~Agrees(row, prior)
        BY <1>2, <2>2, FailStep DEF PreCheckUpdate
    <2> QED BY <2>1, <2>2
<1>3. CASE PreCheckDelete
    <2>1. CASE row = None /\ Verified(prior)
        <3>1. Ended(prior.id)
            BY <1>3, <2>1 DEF PreCheckDelete, IInv, Base, Evidence
        <3> QED BY <1>3, <2>1, <3>1, ReturnNothing DEF PreCheckDelete
    <2>2. CASE ~(row = None /\ Verified(prior))
        BY <1>3, <2>2, WriteNextStep DEF PreCheckDelete
    <2> QED BY <2>1, <2>2
<1> QED BY <1>1, <1>2, <1>3

-----------------------------------------------------------------------------
\* What the remote side does leaves a handler's knowledge true.
LEMMA EnvironmentKeeps ==
    ASSUME IInv, EnvironmentStep
    PROVE  IInv'
<1> USE DEF EnvironmentStep, coreVars, requestVars, localVars
<1>0. Base' /\ Forward
    BY EnvironmentBase DEF IInv
<1>1. Evidence'
    <2>1. /\ tf # None => tf.id \in Ids
          /\ resp # None => resp.id \in Ids
          /\ prior # None => prior.id \in Ids
        BY DEF IInv, Base, TypeOK, States
    <2>2. row # None => Subject \in Ids
        BY ListedSubject DEF IInv, Base, Requests, Answers, Quiet
    <2>3. pc \in {"adopt", "precheck"} \/ op \in {"read", "delete"} => prior # None
        BY DEF IInv, Base, TypeOK, Ops, Requests, Steps, Polling, Writing, Quiet
    <2>4. UNCHANGED <<tf, op, prior, pc, row, resp, failed>> /\ Subject' = Subject
        BY DEF Subject
    <2> QED BY <1>0, <2>1, <2>2, <2>3, <2>4 DEF IInv, Evidence, Forward, Verified
<1>2. Receipts'
    BY <1>0 DEF IInv, Base, TypeOK, Receipts, IdentityRetained, Forward
<1> QED BY <1>0, <1>1, <1>2 DEF IInv

\* A new service: its creator learns its identity from the receipt, or fails.
LEMMA PostStep ==
    ASSUME IInv, NEW s \in SUBSET Entries, NEW rs \in {None} \cup SUBSET Entries,
           NEW g \in Plans, PostWith(s, rs, g)
    PROVE  IInv'
<1>1. /\ pc = "post" /\ op = "create" /\ tf = None /\ resp = None /\ row = None /\ want \in Plans
      /\ Base /\ Base' /\ Forward
      /\ UNCHANGED <<tf, op, prior, lost>>
    BY PostRemote, PostBase DEF PostWith, Frame, coreVars, requestVars, IInv
<1>2. \A i \in Ids : Pending(i, rs) # None /\ Pending(i, rs).id = i /\ Pending(i, rs).status = None
    BY <1>1, NoneIsNoRecord DEF Pending, States, Plans
<1>3. \A k \in receipts : life[k] # "unborn" /\ (life[k] # "alive" \/ k \in lost) /\ k \in Ids
    BY <1>1 DEF IInv, Base, TypeOK, Receipts, IdentityRetained
<1>4. CASE resp' = None /\ receipts' = receipts /\ row' = None /\ failed' = TRUE /\ pc' = "return"
    <2>1. Evidence'
        BY <1>1, <1>4 DEF IInv, Evidence
    <2>2. Receipts'
        BY <1>1, <1>3, <1>4 DEF Forward, Receipts, IdentityRetained
    <2> QED BY <1>1, <2>1, <2>2 DEF IInv
<1>5. ASSUME NEW i \in Ids, Born(i, want.config, s),
             resp' = Pending(i, rs), receipts' = receipts \cup {i}, row' = None,
             pc' \in {"poll", "return"}, pc' = "return" => failed'
      PROVE  IInv'
    <2>1. life[i] = "unborn" /\ life' = [life EXCEPT ![i] = "alive"] /\ life \in [Ids -> Lives]
        BY <1>1, <1>5 DEF Born, Base, TypeOK, RemoteTypeOK
    <2>2. Evidence'
        BY <1>1, <1>2, <1>5, <2>1 DEF IInv, Evidence
    <2>3. Receipts'
        BY <1>1, <1>2, <1>3, <1>5, <2>1 DEF Receipts, IdentityRetained
    <2> QED BY <1>1, <2>2, <2>3 DEF IInv
<1> QED BY <1>1, <1>4, <1>5 DEF PostWith, Leave, Fail

\* A PUT or DELETE: the handler polls, or it fails.
LEMMA WriteStep ==
    ASSUME IInv, Write
    PROVE  IInv'
<1>0. /\ Base /\ Base' /\ Forward
      /\ pc = "write" /\ op \in {"create", "update", "delete"} /\ Subject \in Ids
      /\ UNCHANGED <<tf, op, prior, resp, receipts, lost>> /\ row' = None
      /\ \/ pc' = "poll" /\ UNCHANGED failed
         \/ pc' = "return" /\ failed' = TRUE
    BY WriteBase, WriteAbout DEF Write, IInv, Frame, coreVars, requestVars, PollNext, Fail, Leave
<1>1. op = "delete" /\ pc' = "poll" => Ended(prior.id)'
    <2>1. op = "delete" => Subject = prior.id
        BY DEF Subject
    <2>2. pc' = "poll" => ~failed'
        BY <1>0 DEF IInv, Base, Requests
    <2> QED BY <1>0, <2>1, <2>2, WriteBase DEF Ended
<1>2. Evidence'
    <2>1. /\ tf # None => tf.id \in Ids
          /\ resp # None => resp.id \in Ids
        BY <1>0 DEF Base, TypeOK, States
    <2> QED BY <1>0, <1>1, <2>1 DEF IInv, Evidence, Forward, Polling
<1>3. Receipts'
    BY <1>0 DEF IInv, Base, TypeOK, Receipts, IdentityRetained, Forward
<1> QED BY <1>0, <1>2, <1>3 DEF IInv

-----------------------------------------------------------------------------
\* A handler starts with nothing but its request: an identity it knows is the
\* stored one, or was never verified.
LEMMA StartStep ==
    ASSUME IInv, NEW o \in Ops \ {"idle"}, NEW st \in {None} \cup States,
           NEW w \in {None} \cup Plans, NEW g \in {None} \cup Plans, NEW rs \in {None, st},
           NEW at \in {"post", "refresh", "preread", "poll", "write"},
           Start(o, st, w, at, g, rs),
           (Requests /\ Answers)',
           o = "delete" => at = "preread",
           o = "create" => rs = None /\ at # "write",
           st # None /\ st.status # None => st = tf
    PROVE  IInv'
<1>1. /\ UNCHANGED <<life, listed, tf, receipts, lost, failed>> /\ Base'
      /\ op = "idle" /\ row' = None /\ resp = None
      /\ op' = o /\ prior' = st /\ pc' = at /\ resp' = rs
    BY StartBase DEF Start, IInv
<1>2. Evidence'
    BY <1>1 DEF IInv, Evidence, Seen, Polling
<1>3. Receipts'
    BY <1>1 DEF IInv, Receipts, IdentityRetained
<1> QED BY <1>1, <1>2, <1>3 DEF IInv

LEMMA StartCreateStep ==
    ASSUME IInv, NEW plans \in SUBSET Plans, StartCreateWith(plans)
    PROVE  IInv'
<1> PICK w \in plans : Start("create", None, w, "post", None, None)
    BY DEF StartCreateWith
<1> QED BY CoreRequests, StartStep DEF IInv, Ops

LEMMA StartUpdateStep ==
    ASSUME IInv, NEW w \in Plans, NEW at \in {"poll", "preread", "write"}, StartUpdateAt(w, at)
    PROVE  IInv'
<1>1. tf \in {None} \cup States
    BY DEF IInv, Base, TypeOK
<1> QED BY <1>1, CoreRequests, StartStep DEF StartUpdateAt, Ops, IInv

\* The other operations.
LEMMA StartOtherStep ==
    ASSUME IInv, StartRead \/ StartImport \/ StartDelete
    PROVE  IInv'
<1>0. Base /\ tf \in {None} \cup States
    BY DEF IInv, Base, TypeOK
<1>1. CASE StartRead
    BY <1>0, <1>1, CoreRequests, StartStep DEF StartRead, Ops
<1>2. CASE StartImport
    <2> PICK i \in Ids : Start("import", Stub(i), None, "refresh", None, Stub(i))
        BY <1>2 DEF StartImport
    <2>1. tf = None
        BY <1>2 DEF StartImport
    <2> QED BY <1>0, <2>1, CoreRequests, StartStep DEF Ops
<1>3. CASE StartDelete
    BY <1>0, <1>3, CoreRequests, StartStep DEF StartDelete, Ops
<1> QED BY <1>1, <1>2, <1>3

\* Core keeps a state that is as well founded as the one it had, or forgets an
\* identity whose service has ended or whose receipt died with the process.
LEMMA SettleStep ==
    ASSUME IInv, NEW st \in {None} \cup States, NEW taint \in BOOLEAN, Settle(st, taint),
           lost' \in SUBSET Ids, lost \subseteq lost',
           st # None /\ st.status # None => Seen(st.id),
           \A i \in receipts \ lost' : life[i] = "alive" => st # None /\ st.id = i
    PROVE  IInv'
<1>1. Base' /\ tf' = st /\ Quiet' /\ UNCHANGED <<life, listed, receipts>>
    BY SettleBase DEF IInv
<1>2. Evidence'
    BY <1>1 DEF Evidence, Quiet, Seen
<1>3. Receipts'
    BY <1>1 DEF IInv, Receipts, IdentityRetained, Quiet
<1> QED BY <1>1, <1>2, <1>3 DEF IInv

\* The handler has returned, and Core keeps what it may.
LEMMA FinishStep ==
    ASSUME IInv, Finish
    PROVE  IInv'
<1>1. /\ pc = "return" /\ lost' = lost /\ lost \in SUBSET Ids /\ failed \in BOOLEAN
      /\ tf \in {None} \cup States /\ resp \in {None} \cup States /\ tainted \in BOOLEAN
      /\ tf # None /\ tf.status # None => Seen(tf.id)
      /\ resp # None /\ resp.status # None => Seen(resp.id)
      /\ receipts \subseteq Ids
    BY DEF Finish, IInv, Base, TypeOK, Evidence
<1>2. CASE FinishCreate
    BY <1>1, <1>2, SettleStep DEF FinishCreate, IInv, Base, Requests, Receipts, IdentityRetained
<1>3. CASE FinishRead
    <2>1. CASE failed
        BY <1>1, <1>3, <2>1, SettleStep DEF FinishRead, IInv, Base, Receipts, IdentityRetained
    <2>2. CASE ~failed
        <3>1. /\ tf # None /\ prior = tf
              /\ resp # None => resp.id = tf.id
              /\ resp = None => life[tf.id] # "alive"
            BY <1>1, <1>3, <2>2 DEF FinishRead, IInv, Base, Requests, Answers, Evidence, Ended
        <3>2. \A i \in receipts \ lost : life[i] = "alive" => resp # None /\ resp.id = i
            BY <1>3, <3>1 DEF FinishRead, IInv, Base, Receipts, IdentityRetained
        <3> QED BY <1>1, <1>3, <2>2, <3>2, SettleStep DEF FinishRead
    <2> QED BY <2>1, <2>2
<1>4. CASE FinishImport
    <2>1. \A i \in receipts \ lost : life[i] # "alive"
        BY <1>4 DEF FinishImport, IInv, Base, Requests, Receipts, IdentityRetained
    <2> QED BY <1>1, <1>4, <2>1, SettleStep DEF FinishImport
<1>5. CASE FinishUpdate
    <2>1. tf # None /\ prior = tf /\ resp # None /\ resp.id = tf.id
        BY <1>5 DEF FinishUpdate, IInv, Base, Requests, Answers
    <2>2. \A i \in receipts \ lost : life[i] = "alive" => resp # None /\ resp.id = i
        BY <1>5, <2>1 DEF FinishUpdate, IInv, Base, Receipts, IdentityRetained
    <2> QED BY <1>1, <1>5, <2>2, SettleStep DEF FinishUpdate
<1>6. CASE FinishDelete
    <2>1. CASE failed
        BY <1>1, <1>6, <2>1, SettleStep DEF FinishDelete, IInv, Base, Receipts, IdentityRetained
    <2>2. CASE ~failed
        <3>1. tf # None /\ life[tf.id] # "alive"
            BY <1>1, <1>6, <2>2 DEF FinishDelete, IInv, Base, Requests, Evidence, Ended
        <3>2. \A i \in receipts \ lost : life[i] # "alive"
            BY <1>6, <3>1 DEF FinishDelete, IInv, Base, Receipts, IdentityRetained
        <3> QED BY <1>1, <1>6, <2>2, <3>2, SettleStep DEF FinishDelete
    <2> QED BY <2>1, <2>2
<1> QED BY <1>2, <1>3, <1>4, <1>5, <1>6 DEF Finish

LEMMA CrashStep ==
    ASSUME IInv, Crash
    PROVE  IInv'
<1>1. /\ tf \in {None} \cup States /\ tainted \in BOOLEAN
      /\ tf # None /\ tf.status # None => Seen(tf.id)
      /\ lost' \in SUBSET Ids /\ lost \subseteq lost'
    BY DEF Crash, IInv, Base, TypeOK, States, Evidence
<1>2. \A i \in receipts \ lost' : life[i] = "alive" => tf # None /\ tf.id = i
    BY DEF Crash, IInv, Base, Receipts, IdentityRetained
<1> QED BY <1>1, <1>2, SettleStep DEF Crash

\* Steps of Core that change one thing, and none.
LEMMA StillStep ==
    ASSUME IInv, Untaint \/ Expire \/ UNCHANGED vars
    PROVE  IInv'
<1>1. Base'
    BY StillBase DEF IInv
<1>2. UNCHANGED <<remoteVars, tf, requestVars, localVars, historyVars>>
    BY DEF Untaint, Expire, vars, coreVars
<1>3. Evidence' /\ Receipts'
    BY <1>2 DEF IInv, Evidence, Seen, Ended, Subject, Receipts, IdentityRetained,
        remoteVars, requestVars, localVars, historyVars
<1> QED BY <1>1, <1>3 DEF IInv

LEMMA InitStep ==
    ASSUME Init
    PROVE  IInv
<1>1. Evidence /\ Receipts
    BY DEF Init, RemoteInit, Quiet, Evidence, Receipts, IdentityRetained
<1> QED BY <1>1, InitBase DEF IInv

\* What Core and the environment do, in any of the resources.
LEMMA CommonSteps ==
    ASSUME IInv,
           \/ StartRead \/ StartImport \/ StartDelete \/ Untaint \/ Crash
           \/ Finish \/ Expire \/ EnvironmentStep \/ UNCHANGED vars
    PROVE  IInv'
BY StartOtherStep, StillStep, CrashStep, FinishStep, EnvironmentKeeps

-----------------------------------------------------------------------------
\* The custody of identities: which abstract step each step is.

LEMMA CustodyInit ==
    ASSUME Init
    PROVE  Custody!Init
BY DEF Init, RemoteInit, Custody!Init

\* Most steps leave both the stored identity and the services' lives alone.
LEMMA CustodyStutter ==
    ASSUME UNCHANGED <<tf, life>>
    PROVE  UNCHANGED Custody!vars
BY DEF Custody!vars

\* A service is created, by a handler or elsewhere.
LEMMA CustodyBorn ==
    ASSUME IInv, NEW i \in Ids, NEW c, NEW s, Born(i, c, s), tf' = tf
    PROVE  Custody!Next
<1>1. life[i] = "unborn" /\ life' = [life EXCEPT ![i] = "alive"] /\ life \in [Ids -> Lives]
    BY DEF Born, IInv, Base, TypeOK, RemoteTypeOK
<1>2. /\ {k \in Ids : life'[k] = "alive"} = {k \in Ids : life[k] = "alive"} \cup {i}
      /\ {k \in Ids : life'[k] # "unborn"} = {k \in Ids : life[k] # "unborn"} \cup {i}
    BY <1>1
<1>3. Custody!Create(i)
    BY <1>1, <1>2 DEF Custody!Create
<1> QED BY <1>3 DEF Custody!Next

LEMMA CustodyPost ==
    ASSUME IInv, NEW s, NEW rs, NEW g, PostWith(s, rs, g)
    PROVE  Custody!Next \/ UNCHANGED Custody!vars
<1>1. tf' = tf
    BY DEF PostWith, Frame, coreVars
<1>2. CASE UNCHANGED remoteVars
    BY <1>1, <1>2, CustodyStutter DEF remoteVars
<1>3. ASSUME NEW i \in Ids, Born(i, want.config, s) PROVE Custody!Next
    BY <1>1, <1>3, CustodyBorn
<1> QED BY <1>2, <1>3 DEF PostWith

\* A deletion is accepted, from a handler or from elsewhere, or once more.
LEMMA CustodyEnd ==
    ASSUME IInv, NEW i \in Ids, AcceptDelete(i), tf' = tf
    PROVE  Custody!Next \/ UNCHANGED Custody!vars
<1>0. /\ life[i] \in {"alive", "dying"} /\ life' = [life EXCEPT ![i] = "dying"]
      /\ life \in [Ids -> Lives]
    BY DEF AcceptDelete, IInv, Base, TypeOK, RemoteTypeOK
<1>1. CASE life[i] = "dying"
    <2>1. life' = life
        BY <1>0, <1>1
    <2> QED BY <2>1, CustodyStutter
<1>2. CASE life[i] = "alive"
    <2>1. /\ {k \in Ids : life'[k] = "alive"} = {k \in Ids : life[k] = "alive"} \ {i}
          /\ {k \in Ids : life'[k] # "unborn"} = {k \in Ids : life[k] # "unborn"}
        BY <1>0, <1>2
    <2>2. Custody!End(i)
        BY <1>0, <1>2, <2>1 DEF Custody!End
    <2> QED BY <2>2 DEF Custody!Next
<1> QED BY <1>0, <1>1, <1>2

LEMMA CustodyWrite ==
    ASSUME IInv, Write
    PROVE  Custody!Next \/ UNCHANGED Custody!vars
<1>1. Subject \in Ids /\ tf' = tf
    BY WriteAbout DEF Write, Frame, coreVars, IInv
<1>2. CASE AcceptDelete(Subject)
    BY <1>1, <1>2, CustodyEnd
<1>3. CASE ~AcceptDelete(Subject)
    BY <1>1, <1>3, CustodyStutter DEF Write, SendSet, remoteVars
<1> QED BY <1>2, <1>3

LEMMA CustodyEnvironment ==
    ASSUME IInv, EnvironmentStep
    PROVE  Custody!Next \/ UNCHANGED Custody!vars
<1>0. tf' = tf
    BY DEF EnvironmentStep, coreVars
<1>1. ASSUME NEW i \in Ids, AcceptDelete(i) PROVE Custody!Next \/ UNCHANGED Custody!vars
    BY <1>0, <1>1, CustodyEnd
<1>2. ASSUME NEW i \in Ids, Die(i) PROVE UNCHANGED Custody!vars
    <2>1. life[i] = "dying" /\ life' = [life EXCEPT ![i] = "gone"] /\ life \in [Ids -> Lives]
        BY <1>2 DEF Die, IInv, Base, TypeOK, RemoteTypeOK
    <2>2. /\ {k \in Ids : life'[k] = "alive"} = {k \in Ids : life[k] = "alive"}
          /\ {k \in Ids : life'[k] # "unborn"} = {k \in Ids : life[k] # "unborn"}
        BY <2>1
    <2> QED BY <1>0, <2>2 DEF Custody!vars
<1>3. CASE UNCHANGED life
    BY <1>0, <1>3, CustodyStutter
<1>4. ASSUME NEW i \in Ids, NEW c, NEW s, OutsideCreate(i, c, s) PROVE Custody!Next
    BY <1>0, <1>4, CustodyBorn DEF OutsideCreate
<1> QED BY <1>1, <1>2, <1>3, <1>4 DEF EnvironmentStep, Environment, Appear, Turn, Land, Fade, OutsideEdit,
        OutsideDelete

\* An identity is taken from a receipt or an observed row, and let go at the end.
LEMMA CustodyFinish ==
    ASSUME IInv, Finish
    PROVE  Custody!Next \/ UNCHANGED Custody!vars
<1> DEFINE held == IF tf = None THEN None ELSE tf.id
<1>0. /\ life' = life /\ pc = "return" /\ lost' = lost
      /\ life \in [Ids -> Lives]
      /\ tf \in {None} \cup States /\ resp \in {None} \cup States
    BY DEF Finish, FinishCreate, FinishRead, FinishImport, FinishUpdate, FinishDelete,
        Settle, remoteVars, IInv, Base, TypeOK, RemoteTypeOK
<1>1. CASE tf' = tf
    BY <1>0, <1>1, CustodyStutter
<1>2. ASSUME tf = None, tf' = resp, resp # None, life[resp.id] # "unborn" PROVE Custody!Next
    <2>1. resp.id \in Ids
        BY <1>0, <1>2 DEF States
    <2>2. Custody!Take(resp.id)
        BY <1>0, <1>2, <2>1 DEF Custody!Take
    <2> QED BY <2>1, <2>2 DEF Custody!Next
<1>3. ASSUME tf # None, tf' = None, life[tf.id] # "alive" PROVE Custody!Next
    <2>1. tf.id \in Ids /\ tf.id # None
        BY <1>0, <1>3, NoneAssumption DEF States
    <2>2. Custody!Release
        BY <1>0, <1>3, <2>1 DEF Custody!Release
    <2> QED BY <2>2 DEF Custody!Next
<1>4. ASSUME tf # None, tf' # None, tf'.id = tf.id PROVE UNCHANGED Custody!vars
    BY <1>0, <1>4 DEF Custody!vars
<1>5. CASE FinishCreate
    <2>1. tf = None /\ tf' = resp /\ (resp # None => life[resp.id] # "unborn")
        BY <1>5 DEF FinishCreate, Settle, IInv, Base, Requests, Evidence
    <2> QED BY <1>1, <1>2, <2>1
<1>6. CASE FinishRead
    <2>1. tf # None /\ prior = tf /\ (resp # None => resp.id = tf.id)
        BY <1>6 DEF FinishRead, IInv, Base, Requests, Answers
    <2>2. tf' = tf \/ (tf' = resp /\ ~failed)
        BY <1>6 DEF FinishRead, Settle
    <2>3. ~failed /\ resp = None => life[tf.id] # "alive"
        BY <1>0, <1>6, <2>1 DEF FinishRead, IInv, Base, Evidence, Ended
    <2> QED BY <1>1, <1>3, <1>4, <2>1, <2>2, <2>3
<1>7. CASE FinishImport
    <2>1. tf = None /\ (tf' = tf \/ (tf' = resp /\ ~failed))
        BY <1>7 DEF FinishImport, Settle, IInv, Base, Requests
    <2>2. ~failed => resp # None /\ resp.status # None
        BY <1>0, <1>7 DEF FinishImport, IInv, Evidence
    <2>3. ~failed => life[resp.id] # "unborn"
        BY <1>0, <2>2 DEF IInv, Base, Evidence, Services, Seen, States
    <2> QED BY <1>1, <1>2, <2>1, <2>2, <2>3
<1>8. CASE FinishUpdate
    <2>1. tf # None /\ prior = tf /\ resp # None /\ resp.id = prior.id /\ tf' = resp
        BY <1>8 DEF FinishUpdate, Settle, IInv, Base, Requests, Answers
    <2> QED BY <1>4, <2>1
<1>9. CASE FinishDelete
    <2>1. tf # None /\ prior = tf /\ (tf' = tf \/ (tf' = None /\ ~failed))
        BY <1>9 DEF FinishDelete, Settle, IInv, Base, Requests
    <2>2. ~failed => life[tf.id] # "alive"
        BY <1>0, <1>9, <2>1 DEF FinishDelete, IInv, Base, Evidence, Ended
    <2> QED BY <1>1, <1>3, <2>1, <2>2
<1> QED BY <1>5, <1>6, <1>7, <1>8, <1>9 DEF Finish

\* The steps of the handlers that do not call, and those of Core that do not end.
LEMMA CustodyCommon ==
    ASSUME IInv,
           \/ StartRead \/ StartImport \/ StartDelete \/ Untaint \/ Crash
           \/ Finish \/ Expire \/ EnvironmentStep \/ Write \/ Local \/ UNCHANGED vars
           \/ \E o, st, w, at, g, rs : Start(o, st, w, at, g, rs)
    PROVE  Custody!Next \/ UNCHANGED Custody!vars
<1>1. ASSUME StartRead \/ StartImport \/ StartDelete \/ Untaint \/ Crash \/ Expire
             \/ Local \/ UNCHANGED vars \/ \E o, st, w, at, g, rs : Start(o, st, w, at, g, rs)
      PROVE  UNCHANGED <<tf, life>>
    BY <1>1 DEF StartRead, StartImport, StartDelete, Start, Untaint, Crash, Settle, Expire, Local, Frame,
        coreVars, remoteVars, vars
<1> QED BY <1>1, CustodyStutter, CustodyFinish, CustodyEnvironment, CustodyWrite

\* A failed operation other than a create leaves the stored state as it was.
LEMMA FinishKeepsState ==
    ASSUME Base, Finish, failed, op # "create"
    PROVE  tf' = tf
BY DEF Finish, FinishCreate, FinishRead, FinishImport, FinishUpdate, FinishDelete, Settle,
       Base, Requests, Answers

\* Only Finish changes the stored state.
LEMMA StateKept ==
    ASSUME \/ StartRead \/ StartImport \/ StartDelete \/ Untaint \/ Crash
           \/ Expire \/ EnvironmentStep \/ Write \/ Local \/ UNCHANGED vars
           \/ \E s, rs, g : PostWith(s, rs, g)
           \/ \E o, st, w, at, g, rs : Start(o, st, w, at, g, rs)
    PROVE  tf' = tf
BY DEF StartRead, StartImport, StartDelete, Start, Untaint, Crash, Settle, Expire, EnvironmentStep,
       Write, Local, Frame, PostWith, coreVars, vars

-----------------------------------------------------------------------------
\* A create or update that wrote and reports success, with no other hand since
\* the last answer.
Claims == /\ pc = "return" /\ ~failed /\ op \in {"create", "update"} /\ ~touched
          /\ hits["post"] + hits["put"] > 0

\* What ConfirmedOnSuccess rests on.  As long as no other hand is seen, the row
\* that a create or update goes by tells of the service as it still is: its
\* settings, and whether the planned set is in force, which writes of the same
\* content cannot undo.  A success inherits that from its last row.
Informed ==
    /\ op = "update" => hits["post"] = 0
    /\ op \in {"create", "update"} /\ ~touched /\ row # None =>
        /\ life[Subject] # "unborn" /\ svc[Subject] # None
        /\ row.config = svc[Subject].config
        /\ row.set = want.set => svc[Subject].set = want.set
    /\ Claims =>
        /\ resp # None /\ life[Subject] # "unborn" /\ svc[Subject] # None
        /\ svc[Subject].config = want.config /\ svc[Subject].set = want.set

\* What a reader of the property sees of the invariant.
LEMMA InformedImplies ==
    ASSUME Informed
    PROVE  ConfirmedOnSuccess
BY DEF Informed, Claims, ConfirmedOnSuccess

\* A step of a handler that does not write: it may fail, read the list, or drop
\* its row; it succeeds only with the row of the plan before it.
LEMMA LocalInforms ==
    ASSUME Base, Informed, Local, op # "idle", pc # "return",
           failed => failed', failed' => row' = None,
           op \in {"create", "update"} /\ ~failed' =>
               /\ resp # None /\ resp' # None /\ resp'.id = resp.id
               /\ \/ row' \in {None, row} /\ <<pc, pc'>> \notin Calls
                  \/ row' \in {None, ListedRow(Subject)} /\ pc # "post"
               /\ pc' = "return" => Agrees(row, want) /\ row' = None
    PROVE  Informed'
<1>0. /\ UNCHANGED <<life, listed, svc, job, op, prior, want, hits>>
      /\ touched' = (touched /\ <<pc, pc'>> \notin Calls)
    BY DEF Local, Frame, remoteVars, requestVars
<1>1. (op = "update" => hits["post"] = 0)'
    BY <1>0 DEF Informed
<1>2. CASE op \notin {"create", "update"} \/ failed'
    BY <1>0, <1>1, <1>2 DEF Informed, Claims
<1>3. CASE op \in {"create", "update"} /\ ~failed'
    <2>1. Subject' = Subject /\ resp' # None
        BY <1>0, <1>3 DEF Subject
    <2>2. ASSUME ~touched', row' # None
          PROVE  /\ life[Subject] # "unborn" /\ svc[Subject] # None
                 /\ row'.config = svc[Subject].config
                 /\ row'.set = want.set => svc[Subject].set = want.set
        <3>1. CASE row' = row /\ <<pc, pc'>> \notin Calls
            BY <1>0, <1>3, <2>2, <3>1 DEF Informed
        <3>2. CASE row' = ListedRow(Subject) /\ pc # "post"
            <4>1. Subject \in Ids /\ Subject \in listed /\ row' = svc[Subject]
                BY <2>2, <3>2, ListedSubject DEF ListedRow
            <4> QED BY <2>2, <4>1 DEF Base, Services
        <3> QED BY <1>3, <2>2, <3>1, <3>2
    <2>3. ASSUME ~touched', pc' = "return"
          PROVE  /\ row' = None
                 /\ life[Subject] # "unborn" /\ svc[Subject] # None
                 /\ svc[Subject].config = want.config /\ svc[Subject].set = want.set
        <3>1. Agrees(row, want) /\ row' = None /\ ~touched
            BY <1>0, <1>3, <2>3 DEF Calls
        <3> QED BY <1>3, <3>1 DEF Informed, Agrees
    <2> QED BY <1>0, <1>1, <2>1, <2>2, <2>3 DEF Informed, Claims
<1> QED BY <1>2, <1>3

\* The steps that every handler is made of keep it.
LEMMA MovesInform ==
    ASSUME Base, Informed,
           \/ Poll \/ GiveUp \/ KeepGoing \/ Pause \/ Refresh \/ Adopt \/ PreRead
           \/ PreCheckUpdate \/ PreCheckDelete \/ PostRejected \/ WriteRejected
           \/ (pc = "judge" /\ PollAgain /\ Local)
    PROVE  Informed'
<1> USE DEF Local, Frame, requestVars
<1>0. op # "idle" /\ pc \notin {"off", "return"} /\ Local /\ ~failed
    BY DEF Poll, GiveUp, KeepGoing, Pause, Refresh, Adopt, PreRead, PreCheckUpdate, PreCheckDelete,
           PostRejected, WriteRejected, RejectedAt, ListAt, PauseAt, Base, Requests, Quiet
<1>1. pc # "post" /\ op \in {"create", "update"} => resp # None
    BY <1>0 DEF Base, Answers
<1>2. CASE Fail
    BY <1>0, <1>2, LocalInforms DEF Fail, Leave
<1>3. CASE ~Fail
    <2>1. CASE Poll \/ Refresh \/ PreRead
        <3>1. /\ pc \notin {"post", "return"} /\ pc' \in {"judge", "adopt", "precheck"}
              /\ row' = ListedRow(Subject) /\ UNCHANGED <<resp, failed>>
            BY <1>3, <2>1 DEF Poll, Refresh, PreRead, ListAt
        <3> QED BY <1>0, <1>1, <3>1, LocalInforms
    <2>2. CASE KeepGoing \/ Pause \/ (pc = "judge" /\ PollAgain /\ Local)
        <3>1. /\ pc \in {"judge", "pause"} /\ pc' \in {"pause", "poll"}
              /\ row' \in {None, row} /\ UNCHANGED <<resp, failed>>
            BY <1>3, <2>2 DEF KeepGoing, Pause, PauseAt, PollAgain, Goto
        <3>2. <<pc, pc'>> \notin Calls
            BY <3>1 DEF Calls
        <3> QED BY <1>0, <1>1, <3>1, <3>2, LocalInforms
    <2>3. CASE Adopt
        <3>1. op \in {"read", "import"} /\ UNCHANGED failed
            BY <1>0, <1>3, <2>3 DEF Adopt, Return, Base, TypeOK, Ops, Requests, Steps, Polling, Writing
        <3> QED BY <1>0, <3>1, LocalInforms
    <2>4. CASE PreCheckDelete
        <3>1. op = "delete" /\ UNCHANGED failed
            BY <2>4 DEF PreCheckDelete, Return, WriteNext
        <3> QED BY <1>0, <3>1, LocalInforms
    <2>5. CASE PreCheckUpdate
        <3>1. /\ pc = "precheck" /\ pc' = "write"
              /\ row' = row /\ UNCHANGED <<resp, failed>>
            BY <1>3, <2>5 DEF PreCheckUpdate, WriteNext
        <3>2. <<pc, pc'>> \notin Calls
            BY <3>1 DEF Calls
        <3> QED BY <1>0, <1>1, <3>1, <3>2, LocalInforms
    <2> QED BY <1>3, <2>1, <2>2, <2>3, <2>4, <2>5 DEF GiveUp, PostRejected, WriteRejected, RejectedAt
<1> QED BY <1>2, <1>3

\* The wait ends with a row that shows the plan.
LEMMA ArriveInforms ==
    ASSUME Base, Informed, Arrive, op \in {"create", "update"} => goal = want
    PROVE  Informed'
<1>0. /\ pc = "judge" /\ op # "idle" /\ Local
      /\ op \in {"create", "update"} => resp # None /\ want # None
      /\ ~failed /\ failed' = failed /\ row' = None /\ pc' = "return"
    BY DEF Arrive, Return, Leave, Base, Requests, Quiet, Answers
<1>1. CASE op \in {"create", "update"}
    <2>1. Agrees(row, want)
        BY <1>0, <1>1 DEF Arrive, Reached
    <2>2. resp' # None /\ resp'.id = Subject
        BY <1>0, <1>1, <2>1, ObservedRow DEF Arrive, Return, Agrees
    <2>3. Subject = resp.id
        BY <1>0, <1>1 DEF Subject, Base, Answers
    <2>4. <<pc, pc'>> \notin Calls
        BY <1>0 DEF Calls
    <2> QED BY <1>0, <1>1, <2>1, <2>2, <2>3, <2>4, LocalInforms
<1>2. CASE op \notin {"create", "update"}
    BY <1>0, <1>2, LocalInforms
<1> QED BY <1>1, <1>2

\* The subject of a row, or of a success, is known.
LEMMA SubjectKnown ==
    ASSUME Base, op \in {"create", "update"}, resp # None
    PROVE  Subject \in Ids /\ want \in Plans
BY NoneIsNoRecord DEF Base, TypeOK, Requests, Answers, Subject, States

\* A service that no other hand reaches keeps its settings, and the planned set
\* once that is in force, whatever else the remote side does.
LEMMA UntouchedSteady ==
    ASSUME Base, Environment, op # "idle", ~touched', want \in Plans,
           NEW i \in Ids, life[i] # "unborn", svc[i] # None
    PROVE  /\ ~touched /\ life'[i] # "unborn" /\ svc'[i] # None
           /\ svc'[i].config = svc[i].config
           /\ svc[i].set = want.set => svc'[i].set = want.set
<1>0. /\ life \in [Ids -> Lives] /\ svc \in [Ids -> {None} \cup Rows] /\ job \in [Ids -> SUBSET Bodies]
      /\ svc[i] \in Rows
    BY DEF Base, TypeOK, RemoteTypeOK
<1>1. life'[i] # "unborn"
    BY RemoteMoves DEF Forward, Base, TypeOK
<1>2. ~touched
    BY DEF Environment
<1>3. ASSUME NEW k \in Ids, Appear(k) PROVE svc' = svc
    BY <1>3 DEF Appear
<1>4. ASSUME NEW k \in Ids, NEW st \in Statuses, Turn(k, st)
      PROVE  svc' = [svc EXCEPT ![k] = [svc[k] EXCEPT !.status = st]] /\ life[k] = "alive"
    BY <1>4 DEF Turn
<1>5. ASSUME NEW k \in Ids, NEW b, Fade(k, b) PROVE svc' = svc
    BY <1>5 DEF Fade
<1>6. ASSUME NEW k \in Ids, NEW c \in Configs, NEW s \in SUBSET Entries, OutsideCreate(k, c, s)
      PROVE  svc'[i] = svc[i]
    BY <1>0, <1>6 DEF OutsideCreate, Born
<1>7. ASSUME NEW k \in Ids, NEW b \in job[k], Land(k, b), Planned(b)
      PROVE  /\ svc' = [svc EXCEPT ![k] = [svc[k] EXCEPT !.set = Applied(b, svc[k].set)]]
             /\ svc[k].set = want.set => Applied(b, svc[k].set) = want.set
    BY <1>7 DEF Land, Planned, Applied
<1>8. \/ svc'[i] = svc[i]
      \/ \E st \in Statuses : svc'[i] = [svc[i] EXCEPT !.status = st]
      \/ \E t \in SUBSET Entries : /\ svc'[i] = [svc[i] EXCEPT !.set = t]
                                   /\ svc[i].set = want.set => t = want.set
    <2>1. CASE \E k \in Ids : Appear(k) \/ \E b \in job[k] : Fade(k, b)
        BY <1>3, <1>5, <2>1
    <2>2. ASSUME NEW k \in Ids, NEW st \in Statuses, Turn(k, st)
          PROVE  svc'[i] = svc[i] \/ svc'[i] = [svc[i] EXCEPT !.status = st]
        BY <1>0, <1>4, <2>2
    <2>3. ASSUME NEW k \in Ids, NEW b \in job[k], Land(k, b), Planned(b)
          PROVE  \/ svc'[i] = svc[i]
                 \/ \E t \in SUBSET Entries : /\ svc'[i] = [svc[i] EXCEPT !.set = t]
                                              /\ svc[i].set = want.set => t = want.set
        <3>1. CASE k = i
            <4>1. Applied(b, svc[i].set) \in SUBSET Entries
                BY <1>0, <2>3, <3>1 DEF Applied, Bodies, Rows
            <4> QED BY <1>0, <1>7, <2>3, <3>1, <4>1
        <3>2. CASE k # i
            BY <1>0, <1>7, <2>3, <3>2
        <3> QED BY <3>1, <3>2
    <2> QED BY <1>6, <2>1, <2>2, <2>3 DEF Environment
<1>9. svc'[i] # None
    BY <1>0, <1>8, NoneIsNoRow DEF Rows
<1> QED BY <1>0, <1>1, <1>2, <1>8, <1>9 DEF Rows

\* Whoever changes more than that is seen in touched.
LEMMA EnvironmentInforms ==
    ASSUME Base, Informed, EnvironmentStep
    PROVE  Informed'
<1>0. UNCHANGED <<op, prior, want, pc, row, resp, failed, hits>> /\ Subject' = Subject /\ Environment
    BY DEF EnvironmentStep, requestVars, localVars, Subject
<1>1. CASE op \notin {"create", "update"} \/ touched'
    BY <1>0, <1>1 DEF Informed, Claims
<1>2. CASE op \in {"create", "update"} /\ ~touched'
    <2>1. ~touched
        BY <1>0, <1>2 DEF Environment
    <2>2. row # None => resp # None
        BY <1>2 DEF Base, Answers
    <2>3. CASE row # None
        <3>1. Subject \in Ids /\ want \in Plans /\ life[Subject] # "unborn" /\ svc[Subject] # None
            BY <1>2, <2>1, <2>2, <2>3, SubjectKnown DEF Informed
        <3>2. pc # "return"
            BY <2>3 DEF Base, Answers
        <3> QED BY <1>0, <1>2, <2>1, <2>3, <3>1, <3>2, UntouchedSteady DEF Informed, Claims
    <2>4. CASE row = None /\ Claims
        <3>1. Subject \in Ids /\ want \in Plans /\ life[Subject] # "unborn" /\ svc[Subject] # None
            BY <1>2, <2>4, SubjectKnown DEF Informed
        <3> QED BY <1>0, <1>2, <2>4, <3>1, UntouchedSteady DEF Informed
    <2>5. CASE row = None /\ ~Claims
        BY <1>0, <2>1, <2>5 DEF Informed, Claims
    <2> QED BY <2>3, <2>4, <2>5
<1> QED BY <1>1, <1>2

\* A write drops the row it was decided on: what it claims comes later.
LEMMA WriteInforms ==
    ASSUME Base, Informed,
           Write \/ WriteLocals \/ \E s, rs, g : PostWith(s, rs, g)
    PROVE  Informed'
<1>1. CASE Write \/ WriteLocals
    <2>1. /\ op' = op /\ row' = None /\ (failed' \/ pc' = "poll")
          /\ hits' = [hits EXCEPT ![WrittenKind] = hits[WrittenKind] + 1]
        BY <1>1 DEF Write, WriteLocals, Frame, requestVars, Hit, PollNext, Fail, Leave
    <2>2. hits'["post"] = hits["post"]
        BY <2>1 DEF WrittenKind, Base, TypeOK, Writes
    <2> QED BY <2>1, <2>2 DEF Informed, Claims
<1>2. CASE \E s, rs, g : PostWith(s, rs, g)
    <2>1. pc = "post" /\ op' = op /\ (failed' \/ pc' = "poll") /\ (row' = None \/ row' = row)
        BY <1>2 DEF PostWith, Frame, requestVars, Fail, Leave
    <2>2. op = "create" /\ row = None
        BY <2>1 DEF Base, TypeOK, Ops, Requests, Quiet, Steps, Answers, Polling, Writing
    <2> QED BY <2>1, <2>2 DEF Informed, Claims
<1> QED BY <1>1, <1>2

\* Between two operations nothing is claimed.
LEMMA CoreInforms ==
    ASSUME Base, Informed,
           \/ StartRead \/ StartImport \/ StartDelete \/ Untaint \/ Crash
           \/ Finish \/ Expire \/ UNCHANGED vars
           \/ \E o, st, w, at, g, rs : Start(o, st, w, at, g, rs)
    PROVE  Informed'
<1>1. CASE \/ StartRead \/ StartImport \/ StartDelete
           \/ \E o, st, w, at, g, rs : Start(o, st, w, at, g, rs)
    <2>1. op = "idle" /\ UNCHANGED <<row, hits>>
        BY <1>1 DEF StartRead, StartImport, StartDelete, Start, historyVars
    <2>2. hits = [k \in Writes |-> 0] /\ row = None
        BY <2>1 DEF Base, Requests, Quiet
    <2> QED BY <2>1, <2>2 DEF Informed, Claims, Writes
<1>2. CASE Crash \/ Finish
    <2>1. op' = "idle"
        BY <1>2 DEF Crash, Finish, FinishCreate, FinishRead, FinishImport, FinishUpdate, FinishDelete,
            Settle
    <2> QED BY <2>1 DEF Informed, Claims
<1>3. CASE Untaint \/ Expire \/ UNCHANGED vars
    BY <1>3 DEF Untaint, Expire, vars, remoteVars, requestVars, localVars, historyVars, Informed, Claims,
        Subject
<1> QED BY <1>1, <1>2, <1>3

\* Nothing is claimed in the beginning.
LEMMA InitInforms ==
    ASSUME Init
    PROVE  Informed
BY DEF Init, RemoteInit, Quiet, Informed, Claims

\* What a create or update waits for is decided once: by its start, or by the
\* Post.  The shared steps keep it until the handler returns.
LEMMA GoalKept ==
    ASSUME Base,
           \/ Poll \/ Arrive \/ GiveUp \/ KeepGoing \/ Pause \/ Refresh \/ Adopt \/ PreRead
           \/ PreCheckUpdate \/ PreCheckDelete \/ PostRejected \/ WriteRejected \/ Write
           \/ (pc = "judge" /\ PollAgain /\ Local)
           \/ StartRead \/ StartImport \/ StartDelete \/ Untaint \/ Crash
           \/ Finish \/ Expire \/ EnvironmentStep \/ UNCHANGED vars,
           op' \in {"create", "update"}, pc' \notin {"post", "return"}
    PROVE  UNCHANGED <<op, prior, want, goal>> /\ pc \notin {"post", "return"}
<1>1. CASE \/ Poll \/ Arrive \/ GiveUp \/ KeepGoing \/ Pause \/ Refresh \/ Adopt \/ PreRead
           \/ PreCheckUpdate \/ PreCheckDelete \/ PostRejected \/ WriteRejected \/ Write
           \/ (pc = "judge" /\ PollAgain /\ Local)
    BY <1>1 DEF Poll, Arrive, GiveUp, KeepGoing, Pause, Refresh, Adopt, PreRead, PreCheckUpdate,
        PreCheckDelete, PostRejected, WriteRejected, RejectedAt, Write, ListAt, PauseAt, Goto, WriteNext,
        PollAgain, PollNext, Fail, Return, Leave, Local, Frame, requestVars
<1>2. CASE StartRead \/ StartImport \/ StartDelete \/ Crash \/ Finish
    BY <1>2 DEF StartRead, StartImport, StartDelete, Start, Crash, Finish, FinishCreate, FinishRead,
        FinishImport, FinishUpdate, FinishDelete, Settle
<1>3. CASE Untaint \/ Expire \/ EnvironmentStep \/ UNCHANGED vars
    BY <1>3 DEF Untaint, Expire, EnvironmentStep, vars, requestVars, localVars
<1> QED BY <1>1, <1>2, <1>3

\* A create or update in one phase waits for its plan.
Aimed == op \in {"create", "update"} /\ pc \notin {"post", "return"} => goal = want

\* No step of a handler changes what its wait is for.
LEMMA AimedKept ==
    ASSUME Base, Aimed,
           \/ Poll \/ Arrive \/ GiveUp \/ KeepGoing \/ Pause \/ Refresh \/ Adopt \/ PreRead
           \/ PreCheckUpdate \/ PreCheckDelete \/ PostRejected \/ WriteRejected \/ Write
           \/ (pc = "judge" /\ PollAgain /\ Local)
           \/ StartRead \/ StartImport \/ StartDelete \/ Untaint \/ Crash
           \/ Finish \/ Expire \/ EnvironmentStep \/ UNCHANGED vars
           \/ \E plans : StartCreateWith(plans)
           \/ \E w, at : StartUpdateAt(w, at)
           \/ \E s, rs : PostWith(s, rs, want)
    PROVE  Aimed'
<1>1. CASE \E plans : StartCreateWith(plans)
    BY <1>1 DEF StartCreateWith, Start, Aimed
<1>2. CASE \E w, at : StartUpdateAt(w, at)
    BY <1>2 DEF StartUpdateAt, Start, Aimed
<1>3. CASE \E s, rs : PostWith(s, rs, want)
    BY <1>3 DEF PostWith, Leave, Fail, Frame, requestVars, Aimed
<1>4. CASE ~ \/ \E plans : StartCreateWith(plans)
             \/ \E w, at : StartUpdateAt(w, at)
             \/ \E s, rs : PostWith(s, rs, want)
    BY <1>4, GoalKept DEF Aimed
<1> QED BY <1>1, <1>2, <1>3, <1>4

-----------------------------------------------------------------------------
\* A PUT or a DELETE is counted by Write alone.
LEMMA CountedWrites ==
    ASSUME Base,
           \/ StartRead \/ StartImport \/ StartDelete \/ Untaint \/ Crash
           \/ Finish \/ Expire \/ EnvironmentStep \/ Write \/ Local \/ UNCHANGED vars
           \/ \E s, rs, g : PostWith(s, rs, g)
           \/ \E o, st, w, at, g, rs : Start(o, st, w, at, g, rs)
    PROVE  /\ hits'["put"] > hits["put"] => Write /\ op # "delete"
           /\ hits'["delete"] > hits["delete"] => Write /\ op = "delete"
<1>0. hits \in [Writes -> Nat]
    BY DEF Base, TypeOK
<1>1. CASE Write
    BY <1>0, <1>1 DEF Write, Hit, WrittenKind, Writes
<1>2. CASE \E s, rs, g : PostWith(s, rs, g)
    BY <1>0, <1>2 DEF PostWith, Hit, Writes
<1>3. CASE Crash \/ Finish
    <2>1. hits' = [k \in Writes |-> 0]
        BY <1>3 DEF Crash, Finish, FinishCreate, FinishRead, FinishImport, FinishUpdate, FinishDelete,
            Settle
    <2> QED BY <1>0, <2>1 DEF Writes
<1>4. CASE hits' = hits
    BY <1>0, <1>4 DEF Writes
<1>5. Write \/ (\E s, rs, g : PostWith(s, rs, g)) \/ Crash \/ Finish \/ hits' = hits
    BY DEF Local, StartRead, StartImport, StartDelete, Start, Untaint, Expire, EnvironmentStep,
        historyVars, vars
<1> QED BY <1>1, <1>2, <1>3, <1>4, <1>5
=============================================================================
