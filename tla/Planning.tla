------------------------------- MODULE Planning -------------------------------
(***************************************************************************)
(* What ModifyPlan decides and what becomes of it: Terraform Core plans    *)
(* with values that may be unknown, the operator approves the action, and  *)
(* the apply plans again when the values are known.  The approved action   *)
(* must still be the right one then.                                       *)
(***************************************************************************)
EXTENDS Naturals, FiniteSets

CONSTANTS
    Accounts,   \* login accounts, or share names
    Settings,   \* everything else that is fixed at the creation
    Entries,    \* members of the set (description of a rule) an update can change
    Null, Unknown

ASSUME NoValues ==
    /\ Null # Unknown
    /\ {Null, Unknown} \cap (Accounts \cup Settings) = {}
    /\ \A s \in SUBSET Entries : s # Null /\ s # Unknown
    /\ "given" \notin {Null, Unknown}

VARIABLES
    kind,       \* the resource
    prior,      \* its state, or Null
    forced,     \* Core replaces it anyway: tainted, or -replace
    config,     \* the plan; its values become known in the apply
    action,     \* what the operator has approved, or "none"
    step,       \* where Core is
    wholly,     \* history: every value was known when the plan was made
    deleted     \* history: the state of the service this apply has deleted, or Null

planVars == <<kind, prior, forced, config, action, step, wholly, deleted>>

Resources == {"cache", "hosting", "db", "nas", "rule"}

\* Account and share name are no more in the list of a DB instance or a NAS: an
\* imported one has none.  A server choice is as unknown of an imported hosting
\* service; it is part of the settings.
Priors == [account : Accounts \cup {Null}, setting : Settings, set : SUBSET Entries]
Imported(k) == k \in {"db", "nas"}
PriorsOf(k) ==
    {p \in Priors : /\ k = "rule" => p.account = Null
                    /\ k \notin {"rule", "db", "nas"} => p.account # Null
                    /\ Imported(k) => p.set # {}}

\* first: what only a creation needs and no state records: write-only passwords.
Configs == [account : Accounts \cup {Null, Unknown}, setting : Settings \cup {Unknown},
            set : {Unknown} \cup SUBSET Entries, first : {"given", Null, Unknown}]
ConfigsOf(k) ==
    {c \in Configs : /\ k = "rule" => c.account = Null
                     /\ k \notin {"rule", "db", "nas"} => c.account # Null
                     /\ k \notin {"cache", "hosting"} => c.first = Null
                     /\ Imported(k) => c.set # {}}

Known(c) == Unknown \notin {c.account, c.setting, c.set, c.first}

\* A value an unknown one may turn out to have, also none; a known value stays.
Becomes(v, values) == IF v = Unknown THEN values ELSE {v}
Resolutions(c) ==
    [account : Becomes(c.account, Accounts \cup {Null}), setting : Becomes(c.setting, Settings),
     set : Becomes(c.set, SUBSET Entries), first : Becomes(c.first, {"given", Null})]

Actions == {"none", "create", "update", "replace"}
Steps == {"off", "planned", "approved", "deleting", "deleted", "resolved", "creating", "updating",
          "applied", "refused", "conflict", "failed"}

PlanTypeOK ==
    /\ kind \in Resources
    /\ prior \in {Null} \cup Priors
    /\ forced \in BOOLEAN
    /\ config \in {Null} \cup Configs
    /\ action \in Actions
    /\ step \in Steps
    /\ wholly \in BOOLEAN
    /\ deleted \in {Null} \cup Priors

NoPlan ==
    /\ kind = "cache" /\ prior = Null /\ forced = FALSE /\ config = Null
    /\ action = "none" /\ step = "off" /\ wholly = FALSE /\ deleted = Null

ForgetPlan ==
    /\ kind' = "cache" /\ prior' = Null /\ forced' = FALSE /\ config' = Null
    /\ action' = "none" /\ step' = "off" /\ wholly' = FALSE /\ deleted' = Null

-----------------------------------------------------------------------------
\* Which changes ModifyPlan turns into a replacement.  An unknown value is equal
\* to no known one.

Fixed(p, c) == p.account = c.account /\ p.setting = c.setting

\* Clearing a nonempty set cannot be sent, and an unknown set might be empty.
\* (Fault: an unknown set is taken for a nonempty one.)
CacheReplaced_KnownEmpty(p, c) == ~Fixed(p, c) \/ (p.set # {} /\ c.set = {})
CacheReplaced(p, c) == ~Fixed(p, c) \/ (p.set # {} /\ c.set \in {{}, Unknown})
HostingReplaced(p, c) == ~Fixed(p, c) \/ p.set # c.set
DBReplaced(p, c) == ~Fixed(p, c)
NASReplaced(p, c) == ~Fixed(p, c)
RuleReplaced(p, c) == \/ p.setting # c.setting
                      \/ p.set # {} /\ c.set \in {{}, Unknown}

Replaced(k, p, c) ==
    \/ k = "cache" /\ CacheReplaced(p, c)
    \/ k = "hosting" /\ HostingReplaced(p, c)
    \/ k = "db" /\ DBReplaced(p, c)
    \/ k = "nas" /\ NASReplaced(p, c)
    \/ k = "rule" /\ RuleReplaced(p, c)

\* What a creation needs.  An unknown value passes.
\* (Fault: the passwords are not asked for.)
CreateRefused_NoPasswords(k, c) == k \in {"db", "nas"} /\ c.account = Null
CreateRefused(k, c) == \/ k \in {"cache", "hosting"} /\ c.first = Null
                       \/ k \in {"db", "nas"} /\ c.account = Null

\* What a replacement needs besides: an account that is known to be another one.
\* (Fault: an unknown account is taken for another one.)
ReplaceRefused_UnknownPasses(k, p, c) ==
    \/ k \in {"cache", "hosting"} /\ c.first = Null
    \/ k # "rule" /\ c.account \in {Null, p.account}
ReplaceRefused(k, p, c) ==
    \/ k \in {"cache", "hosting"} /\ c.first = Null
    \/ k # "rule" /\ c.account \in {Null, Unknown, p.account}

-----------------------------------------------------------------------------
\* Core plans.  A tainted or forced replacement is planned as a creation only; an
\* ordinary one is planned first as a change and then as a creation.
Plan(k, p, f, c) ==
    /\ kind' = k /\ prior' = p /\ forced' = f /\ config' = c
    /\ wholly' = Known(c) /\ deleted' = Null
    /\ action' = IF p = Null THEN "create"
                 ELSE IF f \/ Replaced(k, p, c) THEN "replace" ELSE "update"
    /\ step' = IF \/ ~f /\ p # Null /\ Replaced(k, p, c) /\ ReplaceRefused(k, p, c)
                  \/ action' # "update" /\ CreateRefused(k, c)
               THEN "refused" ELSE "planned"

MakePlan ==
    /\ step = "off"
    /\ \E k \in Resources : \E p \in {Null} \cup PriorsOf(k), f \in BOOLEAN, c \in ConfigsOf(k) :
        /\ p = Null => ~f
        /\ Plan(k, p, f, c)

PlanFrame == UNCHANGED <<kind, forced, action, wholly>>
Goes(s) == step' = s /\ PlanFrame /\ UNCHANGED <<prior, config, deleted>>

\* The operator approves.  The apply of a replacement begins with the deletion: it
\* needs no value of the plan, and what the plan waits for may be created after it.
Approve == step = "planned" /\ Goes("approved")

BeginReplace == step = "approved" /\ action = "replace" /\ Goes("deleting")

Resolve ==
    /\ \/ step = "approved" /\ action # "replace"
       \/ step = "deleted"
    /\ \E c \in Resolutions(config) : config' = c
    /\ step' = "resolved"
    /\ PlanFrame /\ UNCHANGED <<prior, deleted>>

\* What the handler itself does not write with: it asks for its inputs once more.
NeverEmpty(k, c) == k \in {"db", "nas"} /\ c.set = {}
Incomplete(k, c) == \/ k # "rule" /\ c.account = Null
                    \/ k \in {"cache", "hosting"} /\ c.first = Null
                    \/ NeverEmpty(k, c)

\* Core plans again, of a replacement the creation, and compares the action; then
\* it calls the handler.
ApplyCreate ==
    /\ step = "resolved" /\ prior = Null
    /\ Goes(IF CreateRefused(kind, config) \/ Incomplete(kind, config)
            THEN "refused" ELSE "creating")

\* An unchanged rule is not even read.
ApplyUpdate ==
    /\ step = "resolved" /\ prior # Null
    /\ Goes(IF Replaced(kind, prior, config) THEN "conflict"
            ELSE IF NeverEmpty(kind, config) THEN "refused"
            ELSE IF kind = "rule" /\ config.set = prior.set THEN "applied"
            ELSE "updating")

\* How the handler's writing call went.
Deleted ==
    /\ step = "deleting"
    /\ step' = "deleted" /\ deleted' = prior /\ prior' = Null
    /\ PlanFrame /\ UNCHANGED config

Applied == step \in {"creating", "updating"} /\ Goes("applied")
CallFailed == step \in {"deleting", "creating", "updating"} /\ Goes("failed")

\* The call of the step: only the two cache paths know a busy answer, and a change
\* of nothing remote only reads.
CallOf ==
    IF step = "deleting" THEN IF kind = "cache" THEN "deleteCache" ELSE "delete"
    ELSE IF step = "creating" THEN "post"
    ELSE IF kind = "hosting" \/ config.set = prior.set THEN "get"
    ELSE IF kind = "cache" THEN "putReferrers" ELSE "put"

-----------------------------------------------------------------------------
\* An update that was approved is still one when its values are known: it is never
\* found, in the apply, to be a replacement nobody has approved.
PlanKept == step # "conflict"

\* A service is not deleted for a successor that the provider itself then refuses
\* to create, if the plan was made with known values.  (Passwords and accounts that
\* are unknown pass the plan, and may turn out to be none after the deletion.)
NoStranding == step = "refused" /\ deleted # Null => ~wholly

\* A replacement that was not forced never creates the successor under the account
\* of the service it has just deleted, whose name stays blocked for a day.
FreshAccount ==
    step = "creating" /\ deleted # Null /\ ~forced /\ kind # "rule" =>
        config.account # deleted.account
=============================================================================
