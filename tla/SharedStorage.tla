---------------------------- MODULE SharedStorage ----------------------------
(***************************************************************************)
(* The iwinv_shared_storage (NAS) resource.  The POST carries the complete *)
(* allowed-IP map; an update reads the parent first and writes once, with  *)
(* no retry of any rejection.                                              *)
(***************************************************************************)
EXTENDS HostedResource

\* The map in a plan is never empty: the configuration validator rejects it.
\* A service edited elsewhere may well show an empty one.
NASPlans == {w \in Plans : w.set # {}}

NeedsReplacement(s, w) == s.config # w.config

-----------------------------------------------------------------------------
\* The creation state keeps the planned map; status and addresses are null.
StartCreate == StartCreateWith(NASPlans)
Post == PostWith(want.set, want.set, want)

Create == Post \/ PostRejected

Wait == Poll \/ Arrive \/ GiveUp \/ KeepGoing \/ Pause

Read == Refresh \/ Adopt

StartUpdate ==
    \E w \in NASPlans :
        /\ tf # None /\ ~NeedsReplacement(tf, w)
        /\ StartUpdateAt(w, IF tf.set = w.set THEN "poll" ELSE "preread")

Update == PreRead \/ PreCheckUpdate
Delete == PreCheckDelete

ReplaceOrDelete == Write \/ WriteRejected

-----------------------------------------------------------------------------
Core == \/ StartCreate \/ StartRead \/ StartImport \/ StartUpdate \/ StartDelete
        \/ Untaint \/ Crash

Handler == Create \/ Wait \/ Read \/ Update \/ Delete \/ ReplaceOrDelete \/ Finish

Next == Core \/ Handler \/ Expire \/ EnvironmentStep

Spec == Init /\ [][Next]_vars

-----------------------------------------------------------------------------
\* A PUT is sent only when the last list call showed the complete prior state:
\* the set that is replaced is the one the plan was made for, as far as the last
\* answer tells.  An edit between that answer and the PUT is still overwritten.
ReviewedReplace ==
    [][hits'["put"] > hits["put"] => row = parent /\ Agrees(parent, prior)]_vars
=============================================================================
