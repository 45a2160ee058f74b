-------------------------- MODULE SecurityGroupRule --------------------------
(***************************************************************************)
(* The iwinv_security_group_ingress_rule and _egress_rule resources: a     *)
(* rule of a group that somebody else owns.  Every read takes two calls,   *)
(* the group's detail and then its complete list of rules, and the group   *)
(* may be deleted, with all its rules, before, between and after them.     *)
(* The members of Opposite say that the rule has the other direction.      *)
(***************************************************************************)
EXTENDS FirewallResource

CONSTANT Opposite   \* the members of Entries that stand for the other direction

ASSUME OppositeAssumption == Opposite \subseteq Entries

VARIABLES
    group,      \* the parent: hidden (new), shown, gone
    confirmed,  \* the running read has its first answer: the parent exists
    seen        \* history: rules that a list call of this address returned

parentVars == <<group, confirmed, seen>>
ruleVars == <<vars, parentVars>>

RuleTypeOK ==
    /\ TypeOK
    /\ group \in {"hidden", "shown", "gone"}
    /\ confirmed \in BOOLEAN
    /\ seen \subseteq Ids

RuleInit ==
    /\ Init
    /\ group = "hidden" /\ confirmed = FALSE /\ seen = {}

-----------------------------------------------------------------------------
\* ModifyPlan plans the resource's own direction, whatever was observed.
RulePlans == {w \in Plans : w.set \cap Opposite = {}}

\* Another parent, and clearing a description, replace.
NeedsReplacement(s, w) ==
    \/ s.config # w.config
    \/ s.set \cap Description # {} /\ w.set \cap Description = {}

\* Without the parent the POST cannot be accepted.
PostRule == group # "gone" /\ Post
RuleCreate == PostRule \/ PostRejected

-----------------------------------------------------------------------------
\* Rule: the steps that call it, each with the step that looks at its answer.
AfterRule == [poll |-> "judge", refresh |-> "adopt", preread |-> "precheck"]

Answer(r) == pc' = AfterRule[pc] /\ row' = r /\ UNCHANGED <<goal, parent, resp, failed>>

\* The first call.  The empty detail of the parent answers for the rule.
ReadParent ==
    /\ pc \in DOMAIN AfterRule /\ ~confirmed
    /\ \/ Admitted /\ group = "shown" /\ confirmed' = TRUE /\ UNCHANGED localVars
       \/ Admitted /\ group # "shown" /\ Answer(None) /\ UNCHANGED confirmed
       \/ Fail /\ UNCHANGED confirmed
    /\ Local /\ UNCHANGED <<group, seen>>

\* The second call.  Its errors, the ones of a deleted parent included, say
\* nothing about the rule.  (Fault: an error is an empty list.)
ReadRules_ErrorIsAbsence ==
    /\ pc \in DOMAIN AfterRule /\ confirmed
    /\ confirmed' = FALSE
    /\ \/ /\ Admitted /\ Answer(ListedRow(Subject))
          /\ seen' = IF Subject \in listed THEN seen \cup {Subject} ELSE seen
       \/ Answer(None) /\ UNCHANGED seen
    /\ Local /\ UNCHANGED group

ReadRules ==
    /\ pc \in DOMAIN AfterRule /\ confirmed
    /\ confirmed' = FALSE
    /\ \/ /\ Admitted /\ Answer(ListedRow(Subject))
          /\ seen' = IF Subject \in listed THEN seen \cup {Subject} ELSE seen
       \/ Fail /\ UNCHANGED seen
    /\ Local /\ UNCHANGED group

Rule == ReadParent \/ ReadRules

-----------------------------------------------------------------------------
\* What the handlers do between their reads.
RuleWait == Arrived \/ KeepWaiting \/ Pause
RuleRead == AdoptAnswer
RuleUpdate == Change \/ WriteRejected
RuleDelete == PreCheckAbsent \/ Remove

-----------------------------------------------------------------------------
RuleCore == CoreWith(RulePlans, {w \in RulePlans : tf # None /\ ~NeedsReplacement(tf, w)})

RuleHandler == RuleCreate \/ RuleWait \/ RuleRead \/ RuleUpdate \/ RuleDelete \/ Finish

\* The parent becomes visible; somebody deletes it, and its rules go with it.
ParentAppears ==
    /\ group = "hidden" /\ group' = "shown"
    /\ UNCHANGED <<vars, confirmed, seen>>

ParentDeleted ==
    /\ group # "gone" /\ group' = "gone"
    /\ life' = [i \in Ids |-> IF life[i] = "unborn" THEN "unborn" ELSE "gone"]
    /\ listed' = {}
    /\ svc' = [i \in Ids |-> None]
    /\ job' = [i \in Ids |-> {}]
    /\ touched' = (op # "idle")
    /\ UNCHANGED <<coreVars, requestVars, localVars, expired, hits, receipts, lost>>
    /\ UNCHANGED <<confirmed, seen>>

\* No rule is born into a group that is gone.
RuleEnvironment ==
    /\ FirewallEnvironment
    /\ group = "gone" => \A i \in Ids : life[i] = "unborn" => life'[i] = "unborn"

RuleNext ==
    \/ Rule \/ ParentAppears \/ ParentDeleted
    \/ RuleCore /\ confirmed' = FALSE /\ UNCHANGED <<group, seen>>
    \/ (RuleHandler \/ Expire \/ RuleEnvironment) /\ UNCHANGED parentVars

RuleSpec == RuleInit /\ [][RuleNext]_ruleVars

-----------------------------------------------------------------------------
\* A rule that a list has shown to this address leaves the state only when it
\* has ended, by itself or with its parent: no error of either call, and no
\* change of the parent between them, is taken for the rule's absence.
ShownRuleKept ==
    [][tf # None /\ tf' = None /\ tf.id \in seen => life[tf.id] # "alive"]_ruleVars
=============================================================================
