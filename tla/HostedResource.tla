---------------------------- MODULE HostedResource ----------------------------
(***************************************************************************)
(* What the resources for hosted services have in common: Terraform Core's *)
(* side of one resource address (the stored state, which handler it calls  *)
(* and what it keeps of the answer), the context that bounds a handler,    *)
(* and the single-attempt calls a handler makes.  A resource module adds   *)
(* the handlers themselves as steps between the program counters.          *)
(***************************************************************************)
EXTENDS HostedService

VARIABLES
    tf,         \* the stored state of the resource, or None
    tainted,    \* Core will replace it at the next apply
    op,         \* the running handler, or "idle"
    prior,      \* the request's prior state
    want,       \* the request's plan
    pc,         \* where the handler is
    goal,       \* what wait() polls for: a plan, or None for absence
    row,        \* the row the last list call returned
    parent,     \* the verified row a write was decided on
    resp,       \* the response state so far
    failed,     \* the handler added an error diagnostic
    expired,    \* the operation context is done
    hits,       \* history: writes of this operation the API may have accepted
    touched,    \* history: another hand changed a service since the last answer
    receipts,   \* history: identities a create receipt has told the provider
    lost        \* history: receipts that died with the provider process

coreVars    == <<tf, tainted>>
requestVars == <<op, prior, want>>
localVars   == <<pc, goal, row, parent, resp, failed>>
historyVars == <<hits, touched, receipts, lost>>
vars == <<remoteVars, coreVars, requestVars, localVars, expired, historyVars>>

\* The attributes of a state; status and set are null until they are observed.
States == [id : Ids, status : {None} \cup Statuses, config : {None} \cup Configs,
           set : {None} \cup SUBSET Entries]
Plans == [config : Configs, set : SUBSET Entries]

ASSUME NoneIsNoRecord == None \notin States /\ None \notin Plans

Ops == {"idle", "create", "read", "import", "update", "delete"}
Pcs == {"off", "post", "poll", "judge", "pause", "refresh", "adopt", "preread",
        "precheck", "write", "reconcile", "compare", "backoff", "return"}
Writes == {"post", "put", "delete"}

TypeOK ==
    /\ RemoteTypeOK
    /\ tf \in {None} \cup States
    /\ tainted \in BOOLEAN
    /\ op \in Ops
    /\ prior \in {None} \cup States
    /\ want \in {None} \cup Plans
    /\ pc \in Pcs
    /\ goal \in {None} \cup Plans
    /\ row \in {None} \cup Rows
    /\ parent \in {None} \cup Rows
    /\ resp \in {None} \cup States
    /\ failed \in BOOLEAN
    /\ expired \in BOOLEAN
    /\ hits \in [Writes -> Nat]
    /\ touched \in BOOLEAN
    /\ receipts \subseteq Ids
    /\ lost \subseteq Ids

Quiet == /\ op = "idle" /\ prior = None /\ want = None
         /\ pc = "off" /\ goal = None /\ row = None /\ parent = None
         /\ resp = None /\ failed = FALSE /\ expired = FALSE
         /\ hits = [k \in Writes |-> 0] /\ touched = FALSE

Init ==
    /\ RemoteInit
    /\ tf = None /\ tainted = FALSE
    /\ Quiet
    /\ receipts = {} /\ lost = {}

-----------------------------------------------------------------------------
\* Terraform Core calls a handler.  Start leaves the first step to the handler.

Start(o, st, w, at, g, rs) ==
    /\ op = "idle"
    /\ op' = o /\ prior' = st /\ want' = w
    /\ pc' = at /\ goal' = g /\ resp' = rs
    /\ UNCHANGED <<remoteVars, coreVars, row, parent, failed, expired, historyVars>>

\* The state an import hands to Read: the identity and nothing else.
Stub(i) == [id |-> i, status |-> None, config |-> None, set |-> None]

\* Core forgets the handler's request; the stored state becomes st.
Settle(st, taint) ==
    /\ tf' = st /\ tainted' = taint
    /\ op' = "idle" /\ prior' = None /\ want' = None
    /\ pc' = "off" /\ goal' = None /\ row' = None /\ parent' = None
    /\ resp' = None /\ failed' = FALSE /\ expired' = FALSE
    /\ hits' = [k \in Writes |-> 0] /\ touched' = FALSE
    /\ UNCHANGED <<remoteVars, receipts>>

\* The handler has returned.  A create that failed with an identity is stored
\* tainted; a failed read, import or delete changes nothing; a failed update
\* stores the response state.
FinishCreate == op = "create" /\ Settle(resp, failed /\ resp # None)
FinishRead   == op = "read"   /\ IF failed THEN Settle(tf, tainted)
                                 ELSE Settle(resp, tainted /\ resp # None)
FinishImport == op = "import" /\ IF failed THEN Settle(tf, tainted)
                                 ELSE Settle(resp, FALSE)
FinishUpdate == op = "update" /\ Settle(resp, FALSE)
FinishDelete == op = "delete" /\ IF failed THEN Settle(tf, tainted)
                                 ELSE Settle(None, FALSE)

Finish ==
    /\ pc = "return"
    /\ FinishCreate \/ FinishRead \/ FinishImport \/ FinishUpdate \/ FinishDelete
    /\ UNCHANGED lost

\* The process dies under the handler: nothing of the response is stored.
Crash ==
    /\ op # "idle"
    /\ Settle(tf, tainted)
    /\ lost' = IF op = "create" /\ resp # None THEN lost \cup {resp.id} ELSE lost

\* The documented recovery of a failed create: the operator keeps the service.
Untaint ==
    /\ op = "idle" /\ tainted
    /\ tainted' = FALSE
    /\ UNCHANGED <<remoteVars, tf, requestVars, localVars, expired, historyVars>>

\* The deadline of the operation passes, or Core cancels it.
Expire ==
    /\ op # "idle" /\ ~expired
    /\ expired' = TRUE
    /\ UNCHANGED <<remoteVars, coreVars, requestVars, localVars, historyVars>>

-----------------------------------------------------------------------------
\* Control flow of a handler.  Moves leave the remote side and Core alone.

Frame == UNCHANGED <<coreVars, requestVars, expired, lost>>

\* Each call that reads, with the step that looks at its answer.
Calls == {<<"poll", "judge">>, <<"refresh", "adopt">>, <<"preread", "precheck">>,
          <<"reconcile", "compare">>}

Local == /\ Frame /\ UNCHANGED <<remoteVars, hits, receipts>>
         /\ touched' = (touched /\ <<pc, pc'>> \notin Calls)

\* A local that is not read again is dropped at once, so that it tells no two
\* states apart: the row when polling goes on, goal and parent at the return.
Goto(at)     == pc' = at /\ UNCHANGED <<goal, row, parent, resp, failed>>
WriteNext(s) == pc' = "write" /\ parent' = row /\ resp' = s /\ UNCHANGED <<row, failed>>
PollAgain    == pc' = "pause" /\ row' = None /\ UNCHANGED <<goal, parent, resp, failed>>
PollNext     == pc' = "poll" /\ row' = None /\ parent' = None
                /\ UNCHANGED <<goal, resp, failed>>
Leave        == pc' = "return" /\ goal' = None /\ row' = None /\ parent' = None
Fail         == Leave /\ failed' = TRUE /\ UNCHANGED resp
Return(s)    == Leave /\ resp' = s /\ UNCHANGED failed

\* The identity the handler works on.
Subject == IF op = "create" THEN resp.id ELSE prior.id

\* Every call checks the context first: none is admitted once it is done.
\* (Fault: calls and pauses on a context of their own.)
Admitted_Detached == TRUE
Admitted == ~expired

\* One list call.  A transport failure, an error answer or a list that does
\* not validate is an error, never an absence.
ListAt(at, next) ==
    /\ pc = at
    /\ \/ /\ Admitted
          /\ row' = ListedRow(Subject)
          /\ pc' = next
          /\ UNCHANGED <<goal, parent, resp, failed>>
       \/ Fail
    /\ Local

\* A timer pause that the context can cut short.
PauseAt(at, next) ==
    /\ pc = at
    /\ IF Admitted THEN Goto(next) ELSE Fail
    /\ Local

Hit(k) == hits' = [hits EXCEPT ![k] = @ + 1]

\* A write the API rejects, or that never leaves the client.
RejectedAt(at) == pc = at /\ Fail /\ Local

\* The replacements whose effect is the plan of the running operation.
Planned(b) == want # None /\ b.set = want.set \ b.keep

\* The remote side moves while a handler runs or between two handlers.
Environment ==
    \/ /\ \E i \in Ids : \/ Appear(i)
                         \/ \E st \in Statuses : Turn(i, st)
                         \/ \E b \in job[i] : Fade(i, b)
                         \/ \E c \in Configs, s \in SUBSET Entries : OutsideCreate(i, c, s)
       /\ UNCHANGED touched
    \/ \E i \in Ids : \E b \in job[i] :
          /\ Land(i, b)
          /\ touched' = (op # "idle" /\ (touched \/ ~Planned(b)))
    \/ /\ \E i \in Ids : \/ Die(i) \/ OutsideDelete(i)
                         \/ \E c \in Configs, s \in SUBSET Entries : OutsideEdit(i, c, s)
       /\ touched' = (op # "idle")

EnvironmentStep ==
    /\ Environment
    /\ UNCHANGED <<coreVars, requestVars, localVars, expired, hits, receipts, lost>>

-----------------------------------------------------------------------------
\* What a state says of a row, and the other way round.

Observed(i, r) == [id |-> i, status |-> r.status, config |-> r.config, set |-> r.set]

\* The comparison the handlers poll and check with; the status is not part of it.
\* (Fault: only the owned set is compared, not the settings.)
Agrees_SetOnly(r, w) == r # None /\ r.set = w.set
Agrees(r, w) == r # None /\ r.config = w.config /\ r.set = w.set

\* A null or unfamiliar status is not a verified one.
Verified(s) == s.status = "active"

-----------------------------------------------------------------------------
\* Create: one POST.  It is accepted with the owned set s; the receipt gives the
\* identity, which is stored with the unverified set rs even when the rest of
\* the receipt is not acceptable; then wait() polls for g.  A lost or unreadable
\* answer leaves no identity at all; and a request that times out in transit has
\* made no service yet.

StartCreateWith(plans) ==
    /\ tf = None
    /\ \E w \in plans : Start("create", None, w, "post", None, None)

\* What is stored before anything is verified.
\* (Fault: a placeholder in the place of the unknown status.)
Pending_Placeholder(i, rs) == [id |-> i, status |-> "creating", config |-> want.config, set |-> rs]
Pending(i, rs) == [id |-> i, status |-> None, config |-> want.config, set |-> rs]

\* Fault: the receipt is validated before its identity is stored.
PostWith_ValidatesFirst(s, rs, g) ==
    /\ pc = "post" /\ Admitted
    /\ \E i \in Ids :
        /\ Born(i, want.config, s)
        /\ receipts' = receipts \cup {i}
        /\ \/ /\ resp' = Pending(i, rs) /\ pc' = "poll" /\ goal' = g
              /\ UNCHANGED <<row, parent, failed>>
           \/ Fail
    /\ Hit("post")
    /\ Frame /\ UNCHANGED touched

\* Fault: a creation whose answer was lost is tried again.
PostWith_RetriesUncertain(s, rs, g) ==
    /\ pc = "post" /\ Admitted
    /\ \E i \in Ids :
        /\ Born(i, want.config, s)
        /\ \/ /\ resp' = Pending(i, rs)
              /\ receipts' = receipts \cup {i}
              /\ pc' = "poll" /\ goal' = g /\ UNCHANGED <<row, parent, failed>>
           \/ Goto("post") /\ UNCHANGED receipts
    /\ Hit("post")
    /\ Frame /\ UNCHANGED touched

PostWith(s, rs, g) ==
    /\ pc = "post" /\ Admitted
    /\ \/ \E i \in Ids :
          /\ Born(i, want.config, s)
          /\ \/ /\ resp' = Pending(i, rs)
                /\ receipts' = receipts \cup {i}
                /\ \/ pc' = "poll" /\ goal' = g /\ UNCHANGED <<row, parent, failed>>
                   \/ Leave /\ failed' = TRUE
             \/ Fail /\ UNCHANGED receipts
       \/ Fail /\ UNCHANGED <<remoteVars, receipts>>
    /\ Hit("post")
    /\ Frame /\ UNCHANGED touched

PostRejected == RejectedAt("post")

-----------------------------------------------------------------------------
\* wait: poll until the goal is reached, the status is hopeless, a call fails or
\* the context is done.

Poll == ListAt("poll", "judge")

\* (Fault: an active status alone ends the wait.)
Reached_StatusOnly == IF goal = None THEN row = None
                      ELSE row # None /\ row.status = "active"
Reached == IF goal = None THEN row = None
           ELSE Agrees(row, goal) /\ row.status = "active"
Hopeless == goal # None /\ row # None /\ row.status = "failed"

\* The handler is done: a delete leaves no state, the others what they observed.
Arrive ==
    /\ pc = "judge" /\ Reached
    /\ Return(IF op = "delete" THEN None ELSE Observed(Subject, row))
    /\ Local

GiveUp    == pc = "judge" /\ ~Reached /\ Hopeless /\ Fail /\ Local
KeepGoing == pc = "judge" /\ ~Reached /\ ~Hopeless /\ PollAgain /\ Local
Pause     == PauseAt("pause", "poll")

-----------------------------------------------------------------------------
\* One PUT or DELETE.  The API accepts it; the acknowledgement arrives, or it is
\* lost or not the expected one.  A request that times out in transit is still
\* on its way: the replacement is sent as well, the deletion has not begun.

WrittenKind == IF op = "delete" THEN "delete" ELSE "put"

\* (Fault: an uncertain outcome is tried again.)
Write_RetriesUncertain ==
    /\ pc = "write" /\ Admitted
    /\ IF op = "delete" THEN AcceptDelete(Subject) ELSE SendSet(Subject, FullSet(want.set))
    /\ Hit(WrittenKind)
    /\ PollNext \/ Goto("write")
    /\ Frame /\ UNCHANGED <<touched, receipts>>

Write ==
    /\ pc = "write" /\ Admitted
    /\ \/ op # "delete" /\ SendSet(Subject, FullSet(want.set)) /\ (PollNext \/ Fail)
       \/ op = "delete" /\ AcceptDelete(Subject) /\ (PollNext \/ Fail)
       \/ op = "delete" /\ UNCHANGED remoteVars /\ Fail
    /\ Hit(WrittenKind)
    /\ Frame /\ UNCHANGED <<touched, receipts>>

WriteRejected == RejectedAt("write")

-----------------------------------------------------------------------------
\* Read, also as the second half of an import.

StartRead   == tf # None /\ Start("read", tf, None, "refresh", None, tf)
StartImport == tf = None /\ \E i \in Ids : Start("import", Stub(i), None, "refresh", None, Stub(i))

Refresh == ListAt("refresh", "adopt")

\* (Fault: a never verified identity is dropped with the first list without it.)
Adopt_Forgets ==
    /\ pc = "adopt"
    /\ IF row # None THEN Return(Observed(Subject, row)) ELSE Return(None)
    /\ Local

Adopt ==
    /\ pc = "adopt"
    /\ IF row # None THEN Return(Observed(Subject, row))
       ELSE IF Verified(prior) THEN Return(None)
       ELSE Fail
    /\ Local

-----------------------------------------------------------------------------
\* Update.  Core only asks for what ModifyPlan did not turn into a replacement.
\* (Fault: the plan is stored before it is verified.)

StartUpdateAt_StoresPlan(w, at) ==
    tf # None /\ ~tainted /\ Start("update", tf, w, at, w, [tf EXCEPT !.set = w.set])

StartUpdateAt(w, at) ==
    tf # None /\ ~tainted /\ Start("update", tf, w, at, w, tf)

PreRead == ListAt("preread", "precheck")

\* The update writes only over the state it was planned against.
\* (Fault: that the service exists is enough.)
PreCheckUpdate_ExistsOnly ==
    /\ pc = "precheck" /\ op = "update"
    /\ IF row # None THEN WriteNext(resp) /\ UNCHANGED goal ELSE Fail
    /\ Local

PreCheckUpdate ==
    /\ pc = "precheck" /\ op = "update"
    /\ IF Agrees(row, prior) THEN WriteNext(resp) /\ UNCHANGED goal ELSE Fail
    /\ Local

-----------------------------------------------------------------------------
\* Delete, also as the first half of a replacement.  It is done when a verified
\* service is absent, and addresses the identity in every other case.

StartDelete == tf # None /\ Start("delete", tf, None, "preread", None, tf)

PreCheckDelete ==
    /\ pc = "precheck" /\ op = "delete"
    /\ IF row = None /\ Verified(prior) THEN Return(None)
       ELSE WriteNext(resp) /\ UNCHANGED goal
    /\ Local

-----------------------------------------------------------------------------
\* Properties every hosted resource is meant to have.

\* An identity that a create receipt told the provider is never dropped while
\* its service is alive: from the receipt on it is in the running create's
\* response, and after that in Terraform's state, through failed waits,
\* untainting, refreshes of a list that does not show it yet, and deletes.
\* (Create stores the ID before it looks at the error; Read and Delete let an
\* unverified identity go only on evidence.)
IdentityRetained ==
    \A i \in receipts \ lost : life[i] = "alive" =>
        \/ tf # None /\ tf.id = i
        \/ op = "create" /\ resp # None /\ resp.id = i

\* One operation sends at most one POST, one PUT and one DELETE that the API
\* may have accepted: accepted and uncertain writes are never repeated.
NoReplay == \A k \in Writes : hits[k] <= 1

\* A create or update that wrote reports success only for what the service had
\* come to: an accepted write that is not in force yet, the effect of an earlier
\* operation's write that came late, or the row of another phase is no success.
\* After the last answer only another hand can have changed it, a late write of
\* an earlier operation included: that one the handler cannot know of.
ConfirmedOnSuccess ==
    (pc = "return" /\ ~failed /\ op \in {"create", "update"} /\ ~touched
       /\ hits["post"] + hits["put"] > 0) =>
    svc[Subject].config = want.config /\ svc[Subject].set = want.set

\* A failed read, import, update or delete leaves the stored state as it was.
FailureKeepsState ==
    [][pc = "return" /\ failed /\ op # "create" => tf' = tf]_vars

\* A started operation returns, however slow the API is and whatever it
\* answers: every loop of a handler ends with the operation context.
OperationReturns == (op # "idle") ~> (op = "idle")

\* The abstract promise about identities, under the refinement mapping.
Custody == INSTANCE IdentityCustody WITH
    held  <- IF tf = None THEN None ELSE tf.id,
    alive <- {i \in Ids : life[i] = "alive"},
    born  <- {i \in Ids : life[i] # "unborn"}

\* The resource implements IdentityCustody: in particular its state drops an
\* identity only after the deletion of the service was accepted or carried out.
CustodyHolds == Custody!Spec
=============================================================================
