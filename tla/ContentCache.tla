----------------------------- MODULE ContentCache -----------------------------
(***************************************************************************)
(* The iwinv_content_cache resource.  It is the only resource with a two-  *)
(* phase create (the POST ignores referrers, a PUT applies them) and the   *)
(* only one that repeats a write: after the exact "another operation in    *)
(* progress" rejection, and only while the whole parent is unchanged.      *)
(***************************************************************************)
EXTENDS HostedResource

\* Settings with no update call, and clearing a nonempty set, replace.
NeedsReplacement(s, w) ==
    \/ s.config # w.config
    \/ s.set \notin {None, {}} /\ w.set = {}

-----------------------------------------------------------------------------
\* Create, first phase: the referrers are null until the empty set is observed.

StartCreate == StartCreateWith(Plans)
Post == PostWith({}, None, [want EXCEPT !.set = {}])

\* The initial, empty set is verified: store it and go on to the planned one.
\* (Fault: the planned referrers are stored with the row.)
BeginReferrers_ClaimsPlan ==
    /\ pc = "judge" /\ Reached
    /\ op = "create" /\ goal # want
    /\ WriteNext([Observed(Subject, row) EXCEPT !.set = want.set]) /\ goal' = want
    /\ Local

BeginReferrers ==
    /\ pc = "judge" /\ Reached
    /\ op = "create" /\ goal # want
    /\ WriteNext(Observed(Subject, row)) /\ goal' = want
    /\ Local

Finished == (op # "create" \/ goal = want) /\ Arrive

Wait == Poll \/ BeginReferrers \/ Finished \/ GiveUp \/ KeepGoing \/ Pause

Create == Post \/ PostRejected

-----------------------------------------------------------------------------
\* write: only the exact busy rejection leads to another attempt.

\* Without a verified parent even the busy rejection is final.
WriteBusy ==
    /\ pc = "write" /\ Admitted
    /\ life[Subject] \in {"alive", "dying"}
    /\ IF parent = None THEN Fail ELSE Goto("reconcile")
    /\ Local

Reconcile == ListAt("reconcile", "compare")

\* (Fault: the busy write is repeated without looking at the answer.)
Compare_Skipped == pc = "compare" /\ Goto("backoff") /\ Local

Compare ==
    /\ pc = "compare"
    /\ IF row = parent THEN Goto("backoff") ELSE Fail
    /\ Local

BackOff == PauseAt("backoff", "write")

WriteLoop == Write \/ WriteRejected \/ WriteBusy \/ Reconcile \/ Compare \/ BackOff

-----------------------------------------------------------------------------
Read == Refresh \/ Adopt

StartUpdate ==
    \E w \in Plans :
        /\ tf # None /\ ~NeedsReplacement(tf, w)
        /\ StartUpdateAt(w, IF tf.set = w.set THEN "poll" ELSE "preread")

Update == PreRead \/ PreCheckUpdate
Delete == PreCheckDelete

-----------------------------------------------------------------------------
Core == \/ StartCreate \/ StartRead \/ StartImport \/ StartUpdate \/ StartDelete
        \/ Untaint \/ Crash

Handler == Create \/ Wait \/ WriteLoop \/ Read \/ Update \/ Delete \/ Finish

Next == Core \/ Handler \/ Expire \/ EnvironmentStep

Spec == Init /\ [][Next]_vars

\* The Go scheduler runs a handler that can take a step, and every operation
\* context has a finite deadline.  The API and the operator owe nothing.
FairSpec == Spec /\ WF_vars(Handler) /\ WF_vars(Expire)

-----------------------------------------------------------------------------
\* No write is sent, first attempt or busy retry, unless the last list call of
\* the operation returned the very parent the write was decided on: for a PUT
\* the complete prior state (the observed empty set, during create).  The row
\* read before a busy retry is compared as a whole, status included.  It is the
\* last answer that counts, not the service at the instant of the write.
ReviewedWrites ==
    [][/\ hits'["put"] > hits["put"] =>
            /\ row = parent
            /\ Agrees(parent, IF op = "create" THEN [want EXCEPT !.set = {}] ELSE prior)
       /\ hits'["delete"] > hits["delete"] => row = parent]_vars

\* A create that fails leaves no claim about referrers that was not observed:
\* the stored set is null, or it is the empty one that a list has shown, also
\* when the second phase had written, waited or given up.
FailedCreateClaimsNothing ==
    [][op = "create" /\ pc = "return" /\ failed /\ tf' # None =>
         tf'.set \in {None, {}} /\ (tf'.set = {} => Seen(tf'.id))]_vars
=============================================================================
