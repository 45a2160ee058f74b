---------------------------- MODULE HostedService ----------------------------
(***************************************************************************)
(* The iwinv hosted-service API, as far as the provider relies on it: the  *)
(* services that exist, what the unpaginated list endpoint shows of them,  *)
(* and the writes that have been sent and have not taken effect yet.  The  *)
(* service itself is external; every action here is the weakest one the    *)
(* adapters in internal/services/hosted and the lifecycle documents allow. *)
(*                                                                         *)
(* A request outlives its caller: the API may take it after the client has *)
(* timed out, in any order with later requests, or never.  It may take a   *)
(* further write while an earlier one is still being carried out.          *)
(*                                                                         *)
(* What is assumed of the API:                                             *)
(*   - an identity is given to one service only, and once listed it stays  *)
(*     listed until that service is gone (the list may be late to show a   *)
(*     new service, never to forget one);                                  *)
(*   - an accepted deletion is not taken back, and what is being deleted   *)
(*     does not change any more.                                           *)
(***************************************************************************)
EXTENDS Naturals, FiniteSets

CONSTANTS
    Ids,        \* service_idx values the API may assign
    Configs,    \* creation settings (product, account, name, ...), one value
    Entries,    \* members of the set a parent owns (referrers, allowed IPs)
    None        \* null, nil, "nothing"

ASSUME NoneAssumption ==
    /\ None \notin Ids
    /\ None \notin Configs
    /\ \A s \in SUBSET Entries : s # None

\* "pending" also stands for "waiting"; "failed" for every unrecognised status.
Statuses == {"pending", "active", "failed"}

\* One validated row of the list endpoint.
Rows == [status : Statuses, config : Configs, set : SUBSET Entries]

ASSUME NoneIsNoRow == None \notin Rows /\ None \notin Statuses

VARIABLES
    life,       \* [Ids -> ...]: unborn, alive, dying (deletion accepted), gone
    listed,     \* identities the list endpoint returns
    svc,        \* [Ids -> Rows]: the service as a list row shows it
    job         \* [Ids -> ...]: set replacements sent and not yet in force

remoteVars == <<life, listed, svc, job>>

Lives == {"unborn", "alive", "dying", "gone"}

\* The body of a set replacement: the members to set, and the part of the set
\* that the body does not name and that keeps its value.
Bodies == [set : SUBSET Entries, keep : SUBSET Entries]

FullSet(s) == [set |-> s, keep |-> {}]

Applied(b, s) == (b.set \ b.keep) \cup (s \cap b.keep)

RemoteTypeOK ==
    /\ life \in [Ids -> Lives]
    /\ listed \subseteq Ids
    /\ svc \in [Ids -> {None} \cup Rows]
    /\ job \in [Ids -> SUBSET Bodies]

RemoteInit ==
    /\ life = [i \in Ids |-> "unborn"]
    /\ listed = {}
    /\ svc = [i \in Ids |-> None]
    /\ job = [i \in Ids |-> {}]

-----------------------------------------------------------------------------
\* What the API does with a request.

Born(i, c, s) ==
    /\ life[i] = "unborn"
    /\ life' = [life EXCEPT ![i] = "alive"]
    /\ svc' = [svc EXCEPT ![i] = [status |-> "pending", config |-> c, set |-> s]]
    /\ UNCHANGED <<listed, job>>

\* A replacement is on its way: accepted and to be carried out, or still in
\* transit when its caller gives up.  One element stands for all requests of
\* the same content.  It comes to nothing once the deletion was accepted.
SendSet(i, b) ==
    /\ life[i] \in {"alive", "dying"}
    /\ job' = [job EXCEPT ![i] = IF life[i] = "alive" THEN @ \cup {b} ELSE @]
    /\ UNCHANGED <<life, listed, svc>>

AcceptDelete(i) ==
    /\ life[i] \in {"alive", "dying"}
    /\ life' = [life EXCEPT ![i] = "dying"]
    /\ job' = [job EXCEPT ![i] = {}]
    /\ UNCHANGED <<listed, svc>>

-----------------------------------------------------------------------------
\* What happens on the other side of the API, at its own pace.

\* A new service becomes visible in the list.
Appear(i) ==
    /\ life[i] \in {"alive", "dying"}
    /\ i \notin listed
    /\ listed' = listed \cup {i}
    /\ UNCHANGED <<life, svc, job>>

\* The service changes status: it is provisioned, suspended, fails, recovers.
Turn(i, st) ==
    /\ life[i] = "alive"
    /\ st # svc[i].status
    /\ svc' = [svc EXCEPT ![i].status = st]
    /\ UNCHANGED <<life, listed, job>>

\* A replacement that was sent takes effect, whatever was sent or has taken
\* effect since; another one of the same content may still be on its way.
Land(i, b) ==
    /\ life[i] = "alive" /\ b \in job[i]
    /\ svc' = [svc EXCEPT ![i].set = Applied(b, @)]
    /\ job' \in {job, [job EXCEPT ![i] = @ \ {b}]}
    /\ UNCHANGED <<life, listed>>

\* A replacement never takes effect: it is lost, or refused out of sight.
Fade(i, b) ==
    /\ b \in job[i]
    /\ job' = [job EXCEPT ![i] = @ \ {b}]
    /\ UNCHANGED <<life, listed, svc>>

\* A deletion is carried out and the row leaves the list.
Die(i) ==
    /\ life[i] = "dying"
    /\ life' = [life EXCEPT ![i] = "gone"]
    /\ listed' = listed \ {i}
    /\ svc' = [svc EXCEPT ![i] = None]
    /\ UNCHANGED job

\* Somebody creates, edits or deletes a service outside Terraform.  A POST or a
\* DELETE of the provider that the API takes after its caller has given up is
\* one of these, as far as the provider can tell.
OutsideCreate(i, c, s) == Born(i, c, s)

OutsideEdit(i, c, s) ==
    /\ life[i] = "alive"
    /\ svc' = [svc EXCEPT ![i].config = c, ![i].set = s]
    /\ svc' # svc
    /\ UNCHANGED <<life, listed, job>>

OutsideDelete(i) == life[i] = "alive" /\ AcceptDelete(i)

-----------------------------------------------------------------------------
\* What a complete, validated list shows of one identity.
ListedRow(i) == IF i \in listed THEN svc[i] ELSE None

\* The list shows it, or has shown it and the service is gone since.
Seen(i) == i \in listed \/ life[i] = "gone"
=============================================================================
