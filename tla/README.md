# A verification development of terraform-provider-iwinv

The provider lets Terraform manage iwinv cloud services through an API that
answers late, has no idempotency keys, and reports some states only in an
account-wide list. What can go wrong is mostly the same everywhere: a service is
created and its identity forgotten, a write whose answer was lost is sent again,
a success is reported for what another write left in the list. These
modules state what the code does about that, TLC checks it on small instances,
and TLAPS proves the most important results for every instance.

Paths below are relative to `src/` of the repository unless they name a module.

## 1. The system

| Component | State | Operations | Interacts with |
|---|---|---|---|
| `internal/client` admission (`Client.wait`) | `next`, mutex | reserve a slot, sleep, give up | every handler, concurrently |
| `internal/client` requests, `write.go` | none | GET, POST, PUT, DELETE, one attempt each; classification of the answer | HTTP |
| paginated lists (`network/groups.go`, `compute/`, `billing/`) | page, total, rows so far | one traversal, for a data source | client, Core |
| ModifyPlan of five resources | none | which change is a replacement, what it needs | Core, twice for one change |
| `services/hosted` adapters | none | List, Read, Create, Replace..., Delete; `contract.go` validates lists and receipts | client |
| `content_cache_resource.go` | Terraform state of one address | Create, Read, Update, Delete, ImportState, ModifyPlan | cache adapter, Core |
| `shared_storage_resource.go` | same | same | NAS adapter, Core |
| `db_instance_resource.go` | same | same | DBMS adapter, Core |
| `webhosting_resource.go` | same | same | hosting adapter, Core |
| `security_group_resource.go`, `network/groups.go` | same | same; paginated list | client, Core |
| `security_group_rule_resource.go`, `network/rules.go` | same, with the parent's ID | same; a read in two calls | client, Core, the parent group |
| `provider.go` | none | Configure | all of the above |
| other data sources and catalogs | none | one call and one decode each | client |
| `compute/instance_writes.go` | none | adapters no resource uses yet | client |
| `cmd/contract-probe`, `scripts/` | none | development tools | - |

The hard behaviours:

* **Late visibility.** A new service is absent from the list for a while. A
  missing row is absence for a service that was seen, and nothing at all for one
  that was not.
* **Uncertain writes.** An answer may be lost or unreadable after the API
  accepted the write. Nothing may be repeated, and nothing is known.
* **Late writes.** A request may reach the API after its caller has timed out, and
  an accepted replacement or deletion takes effect later: possibly after the
  operation that sent it has failed and another one has written and succeeded.
* **Partial failure.** A receipt is half acceptable; the second phase of a cache
  creation fails after the first; an update fails after its write.
* **Timeouts and cancellation** at any step, including the rate limiter's queue.
* **Outside edits** between plan, check and write.
* **Lists without a snapshot.** Rows come and go between two pages.
* **Unknown values.** A plan is approved before all of its values are known, and a
  replacement deletes before it creates.
* **Crashes** of the provider before an answer is stored.

`PROJECT.json` lists each hazard at its line, with the property about it.

What makes each part correct: a resource never forgets a living service it was
told of (`IdentityRetained`, `CustodyHolds`), never repeats a write (`NoReplay`),
reports success only for what its last answer showed in force (`ConfirmedOnSuccess`),
keeps its state when it fails (`FailureKeepsState`, `FailedCreateClaimsNothing`), takes no error for absence
(`ShownRuleKept`), writes over nothing it did
not review where the code promises that (`ReviewedWrites`, `ReviewedReplace`), and
returns (`OperationReturns`). A call of the client has at most one effect and claims
nothing it does not know (`CallKept`); a list that is published is complete
(`ListComplete`, `CountedComplete`) and a read of it returns (`ReadReturns`); an approved
update stays one (`PlanKept`), and a replacement does not delete for a successor that
cannot be created (`NoStranding`, `FreshAccount`). The limiter hands out slots that are an interval
apart (`SlotsSpaced`), keeps its quota (`QuotaKept`) and lets cancelled callers go
(`CancelledReturns`).

## 2. The modules

```
HostedService          the remote API: services, list, writes on their way (external)
  HostedResource       Core + context + single calls + polling; shared properties
    ContentCache       two-phase create, busy retry
    SharedStorage      pre-checked single PUT
    DBInstance         blind single PUT, late default address
    Webhosting         no update call, local-only update
    FirewallResource   no status, description left out of the PUT
      SecurityGroup      one detail call
      SecurityGroupRule  two-call read under a parent that may vanish
IdentityCustody        abstract: what a resource promises about identities
RateLimiter            Client.wait
CallContract           abstract: what one call of the client promises
ClientRequest          Client.request and write.go; implements CallContract
  PagedList            the lists read page by page
Planning               ModifyPlan, Core's plan and apply of one resource
TerraformRun           composes ClientRequest, PagedList and Planning
MC<module>             symmetry and bounds for TLC
HostedResourceProofs   the shared inductive invariants, a lemma per shared step
  ContentCacheProofs, SharedStorageProofs, DBInstanceProofs, WebhostingProofs
  FirewallProofs       groups, and rules under their parent
RateLimiterProofs
TerraformRunProofs     the calls' contract, the lists, the plans
```

### HostedService

`life`, `listed`, `svc` and `job` are the service's existence, its visibility, the
list row it shows, and the set replacements that were sent and are not in force yet. A row has a
status, its creation settings as one value (`Configs`: product, account, name,
description, ...), and the set the parent owns (`Entries`: referrers, allowed IPs,
custom domains). `pending` stands for `pending` and `waiting`, which `wait` treats
alike, and `failed` for every status it does not know. Secrets, addresses and
product types are left out: no decision depends on them except the default
address or domain, which is a free choice in the two resources that wait for it.

A replacement (`SendSet`) may take effect (`Land`) at any time, in any order with others, more
than once if it was sent more than once, or never (`Fade`). It does not matter whether the API had
accepted it when its caller gave up: `client.go` stops waiting after 30 seconds (113) or with
the context (184-199), and the request goes on. A late POST is one more service nobody
was told of, and a late DELETE one more outside deletion, so these are `OutsideCreate` and
`OutsideDelete`. A body is a set, and the part of it that the PUT leaves alone (`Bodies`, `Applied`).

This is assumed of the API:

* an identity is given to one service only, and a listed identity stays listed until its service
  is gone. That is what Read's and Delete's "active and missing means gone" rests on; without it
  no client could do better;
* an accepted deletion is not taken back, and what is being deleted does not change any more.

Nothing is assumed about writes that meet: an API may take a second one while the first is carried
out, or reject it. The busy rejection is known of the cache alone
(`design/en/cache-lifecycle.md:53-63`; `design/en/nas-lifecycle.md:55` keeps it from the NAS), where it is a possible answer to any write
(`ContentCache!WriteBusy`); that a busy answer is truthful is `Possible` in `ClientRequest`.

`ListedRow` is what `arrayResult`, an adapter's row decoder and its `Read` return for one identity.

### HostedResource

Core's side: `tf` and `tainted` are stored, `op`, `prior`, `want` are the request,
`Finish...` is what Core keeps of an answer (a failed create with an ID is stored
tainted; a failed update stores the response state; a failed read or delete
stores nothing), `Crash` is a handler that never answers, `Untaint` is the
documented recovery of a failed create. The handler's side: `pc` is the place in
the Go function, `goal`, `row`, `parent`, `resp`, `failed` are its locals and
response. Each network call is one step that takes effect at the remote side or
fails; everything else may happen between two of them. `Expire` is the deadline
of `groupOperationContext`, or Core's cancellation; once it has happened no call is
admitted and no pause completes. A write that times out is among the writes on their way
(`SendSet`), or, a POST or DELETE, has had no effect yet.

`PostWith` is the moment `contract.go`'s `CreateID` and the adapters' receipt checks
decide: accepted and verified, accepted with an ID but an error, accepted and
lost, still in transit. `Write` is a PUT or DELETE that was sent, with or without an
acknowledgement; `WriteRejected` one that the API did not take. `ListAt` is `List` and
`Read` of an adapter: any transport, status or validation problem is an error.

The variables `hits`, `touched`, `receipts` and `lost` are history: no guard reads
them. `touched` says that since the last answer another hand has changed a service, or a
replacement has come into force that the running operation did not plan.

### The resources

| Action | Code |
|---|---|
| `StartCreate`, `Post` | Create up to the POST; the planned set is validated nonempty (NAS, DB) |
| `Wait` | `wait`: `Poll` is the list call, `Arrive`/`GiveUp`/`KeepGoing` its three outcomes, `Pause` the timer |
| `BeginReferrers`, `WriteLoop` | the cache's second phase, and `write` with `Reconcile`, `Compare`, `BackOff` after a busy answer |
| `Read` | Read, and the second half of an import |
| `StartUpdate` | the plans that ModifyPlan does not turn into a replacement |
| `Update` | the pre-read and check (cache, NAS), the blind write (DB), the local-only read and store (webhosting) |
| `Delete` | the pre-read, the done-when-absent test, the DELETE |
| `AwaitAddress`, `AddressMissing`, `AwaitDomain`, `DomainMissing` | the row without its default address or domain |

A replacement is a delete followed by a create: an address holds one identity.

### FirewallResource, SecurityGroup and SecurityGroupRule

Groups and rules have no status, so `Read` and `Delete` take the first empty answer
for absence (`AdoptAnswer`, `PreCheckAbsent`). The owned set stands for all
settings an update can change; `Body` is the body of the PUT, which leaves an
unchanged description out, so that the API keeps the value it has when the change takes effect.

`network.Service.Rule` is two calls, and so are `ReadParent` and `ReadRules`: the
group's detail first, whose empty answer is absence of the rule too, then the list
of rules, whose errors say nothing. `confirmed` is the place between them. The
parent is an outside actor: it appears (`ParentAppears`) and is deleted with its
rules (`ParentDeleted`) at any moment, after which no rule is born into it (`RuleEnvironment`). `Opposite` is the direction the resource
does not plan: Read stores it, ModifyPlan plans it away. `seen` is history.

### RateLimiter

`Check`, `Reserve`, `Admit`, `Abandon` are the four steps of `Client.wait`: the test
of the context, the critical section under the mutex, and the two branches of the
`select`. Several callers share one client. The clock advances by any amount
between two steps, so a timer may be late. An abandoned slot stays reserved.

### ClientRequest and CallContract

`Begin`, `Prepare`, `Send`, `Receive` and `TimeOut` are the stages of `request` and of the
write helpers. The request is an actor of its own: `wire` is where it is, and
`Deliver` lets the API take or reject it at any moment after it left, also after the
caller has given up. `Answers` are the combinations of status, code and result that
`request` tells apart, and `Possible` is all that is assumed of them: SUCCESS is said of
what was taken, the busy text on the two cache paths of what was rejected. In
particular the status says nothing: a 500 or an unreadable body may follow an accepted
request. `Classify` is the order of the tests. `Exit` is the end of the provider process.

`CallContract` says what is left for a caller: at most one effect, "ok" means taken,
"busy" means neither taken nor going to be, everything else means nothing. This is
what makes the cache's repetition after busy, and nobody else's, correct.

### PagedList

One traversal of `Groups`, `Instances`, `SSHKeys` and `CatalogIDs` of images ("plain"), of
`CatalogIDs` of instance types, whose pages repeat a total ("counted"), and of the bills,
whose empty answer is an error of its own ("bills"). The collection is a sequence of row
numbers in the order the API lists them; `InsertRow` and `RemoveRow` change it between two
pages, at any position. (Inside a call nothing depends on the moment, since a page is
one answer; so rows change only between calls.) The malformed answers of the row
decoders are the `FailList` that each page may end in. An identity is never used again.

### Planning

Core's side of one change: `MakePlan` plans it, with the values that are unknown then;
`Approve`, `BeginReplace`, `Resolve` and the two `Apply...` actions carry it out, `Resolve` gives the
unknown values any value, also none. The provider's side: which changes ModifyPlan turns
into a replacement (`...Replaced`), what it asks for (`CreateRefused`, `ReplaceRefused`), and what the
handler asks for again (`Incomplete`). Core plans an ordinary replacement twice, as a
change and as a creation, and a forced one as a creation only; it plans again in the apply and
stops when the action is another one (`conflict`).

An `account` is whatever is blocked after a deletion (the login account, the share name),
`setting` everything else fixed at the creation (of a rule: its parent), `set` what an
update can change, `first` the write-only passwords. Of a rule `set` is the description, the
one attribute whose change may be a replacement; the server choice of a
hosting service counts as a setting, and that it may be none in a plan is left out. So
are the size limits of a request body, which a creation could exceed after a deletion.

### TerraformRun

One command after another: a data source is read (`BeginList`, `NextPage`, `ListExchange`), a
resource is planned and applied, and every writing call of the apply is a call of
`ClientRequest`: `ListExchange` and `CallExchange` are a step of the call and what its caller does with
the answer, in one step when the call returns. The apply has a process of its own
(`ApproveApply`). Reads inside the handlers, polling and verification are in the
resources' own modules; here a call that was acknowledged may still fail to be verified.

## 3. The runs

| Run | Instance | States | Question |
|---|---|---|---|
| `cache` | 1 service, 1 setting, 2 referrers | 1,065,043 | all safety of the cache |
| `cache_live` | 1 service, 1 referrer, fair | 150,614 | every operation returns |
| `nas` | 1 service, 2 permissions | 567,420 | safety of the NAS |
| `db` | 1 service, 2 settings, 1 IP, fair | 322,926 | safety of the DB instance, with drift of settings; every operation returns |
| `hosting` | 2 services after each other, 1 domain | 444,132 | safety across replacements |
| `hosting_absence` | 1 service, 1 domain | violated | a documented rule of Read |
| `group` | 1 group, 2 settings | 569,036 | safety of the security group |
| `rule` | 1 rule: direction, name, description; its parent | 894,398 | safety of a rule, and what absence means for it |
| `group_identity` | 1 group | violated | a documented rule of Read |
| `limiter` | 3 callers, interval 2, clock to 4 | 107,782 | slots, quota, cancellation |
| `limiter_spacing` | 2 callers, interval 2, clock to 4 | violated | a documented rule of pacing |
| `terraform` | pages of 2, at most 2 pages and 4 rows; 2 accounts, 2 settings, 1 entry; fair | 184,126 | lists, plans and calls of Terraform commands |

`nas`, `db`, `hosting` and `group` do not repeat the type invariant of `cache`, and the first
three leave `IdentityRetained` to its proofs; they check the refinement of `IdentityCustody`. `nas` and
`db` leave `NoReplay` to its proofs: their writes are the `PostWith` and `Write` that `cache` and `hosting` run.

Why the bounds are enough. The handlers work on one identity; a second one
matters only after a replacement or a lost create, which `hosting` exercises
(`OneLive`: services follow each other). Two members of the owned set give plans
that differ, overlap, and are empty, hence an old uncertain write that disagrees
with a new plan. In `db` there is one IP, so that all its late writes agree; an outside edit does there
what another late write would. Two settings are needed for drift of what cannot be updated. `OneLate`, in `cache` and
`nas`, bounds the writes that earlier operations have left on their way to one when an operation
starts, which an update's own write meets; in `cache` none meets a deletion, where an outside edit does what it
would. `group` and `rule` have no such bound. Nothing
else is bounded: operations, polls, retries, outside edits and status changes
happen as often as they like, since repeated ones lead back to the same states.
`Bounded` in `MCRateLimiter` bounds the clock and the slots; three callers
are two in the queue and one that arrives while one of them gives up. `CancelledReturns`
is checked up to that horizon, and does not depend on the clock.

In `terraform`, two pages of two rows let a row be inserted or removed before, in and
behind the page that is read, a page be full, short or empty, the total change between two pages, and the
page limit be reached with rows left. A second account and setting give plans that change and keep them; the
empty set and one entry are all that a replacement rule distinguishes.
`ListComplete` and the others are proved for all bounds.

`CHECK_DEADLOCK` is left on everywhere.

**Fairness.** `ContentCache!FairSpec` and `DBInstance!FairSpec`: the handler's goroutine is scheduled
(`WF(Handler)`), and every operation context has a finite deadline
(`WF(Expire)`, from `context.WithTimeout` with a duration checked positive). The
API, the operator and other actors owe nothing. `RateLimiter!FairSpec`: goroutines
that can take a step do; the clock owes nothing. `TerraformRun!FairSpec`: the provider's
goroutine is scheduled, which includes the timer of an exchange (`Timeout` of 30 seconds at
`client.go:113`); the API may never answer, and nobody cancels.

### What the code does that a document says otherwise

* **Admissions are not spaced** (`AdmissionsSpaced`). The client spaces the slots it
  reserves; a caller whose timer fires late is admitted just before the next. The
  quota holds, the spacing that `docs/index.md:53` announces does not.
* **Once active is not enough** (`OnceActiveAbsenceRemoves`). Read asks for the
  status recorded last, so a hosting service that was active, was refreshed
  while failed, and then vanished stays in the state with an error.
  `design/en/webhosting-lifecycle.md:62` treats it as deleted.
* **A new security group can be forgotten** (`OnlyConfirmedAbsenceRemoves`). A create
  that failed to verify leaves a tainted ID; the next Read of a group that is
  not visible yet removes it. `design/en/architecture.md:138` asks for a grace period.
  Rules do the same; what the code does guarantee for them is `ShownRuleKept`.

## 4. The proofs

All are checked by TLAPS for any sets of identities, settings and entries, any
number of callers and any positive interval. They assume the named assumptions of
the modules: `None` is none of the values it is compared with, the interval is
positive.

**The resources.** `NoReplay`, `FailureKeepsState` and `ConfirmedOnSuccess` are proved of all six (the
four hosted services, groups and rules); `IdentityRetained` and `CustodyHolds` (the refinement of
`IdentityCustody`) of the four hosted services; `FailedCreateClaimsNothing` and `ReviewedWrites` of the cache, `ReviewedReplace` of the
NAS and `ShownRuleKept` of the rules. None of them is inductive. `HostedResourceProofs` has their
common strengthening in two layers. `Base` holds of every resource:

* `Services`: what is listed exists, and what exists has a row;
* `Requests`: what `op` and `pc` say of `tf`, `prior`, `want` and `goal`;
* `Answers`: which response state each step has; in particular a failing update
  answers with its prior state, which is `FailureKeepsState`;
* `Once`: a counted write is only sent from a step before which none of its kind
  was counted, and no path leads back from after it. In the cache the busy loop goes
  back, but only from a rejection; a create passes through polling twice, and the
  two passes are told apart by the goal.

`IInv` adds what only the hosted services keep, whose Read asks for the status recorded last:

* `Evidence`: the heart of the identity argument. A recorded status means that the
  list has shown the service. With the API's first assumption a later absence
  then means that the service has ended, so that a Read that removes the
  state, or a Delete that returns, does so only for a service that no longer
  counts as alive. A never verified identity has no recorded status, and the code
  removes it for no missing row;
* `Receipts`: with `Evidence`, that every step keeps `IdentityRetained`.

Groups and rules have no status to record. Their Read takes the first empty answer for absence, so
`IdentityRetained` does not hold of them (see the finding above), and their proofs
rest on `Base` and `Informed` (below).

`HostedResourceProofs` has one lemma for each shared step (a list call, a pause, a
write, the Post, the finish, the crash, the environment), once for `Base` and once for what `IInv` adds; a
resource's own module adds its own steps and concludes. The refinement follows from the same invariant:
`Post` is `Create`, an accepted deletion is `End`, the end of a create or import is `Take`, the
end of a removing read or delete is `Release`, and everything else stutters.

*Confirmed success* (`ConfirmedHolds`, `GroupConfirmed`, `RuleConfirmed`). A success must rest on an answer
that showed the plan, after this operation's write, whatever else was on its way. `Informed` is
the invariant. As long as no other hand is seen (`~touched`), the row a create or update goes by has
the settings of the service as it still is, and if it shows the planned set, that is in force. It has
to say "if": a replacement with the planned effect, of this operation or of an older one, may
come into force after a row that does not show it. But where the plan is in force such a
replacement changes nothing (`UntouchedSteady`), also when its body leaves the description out. Every other
change sets `touched`, and only another answer clears it. The operation also has to
wait for its own plan: `Aimed` says so for the resources with one phase, `Phases` for the cache, whose
creation waits for the empty set first.

*Failed creates* (`FailedCreateHolds`). `Unclaimed`: until a create of the cache succeeds, its response has no
referrers, or the empty set together with the status of the row it was observed in, which by `Evidence`
a list has shown.

*Reviewed writes* (`ReviewedWritesHold`, `ReviewedReplaceHolds`). `Reviewed` carries the comparison from
the read to the write: the verified row is the prior state (the empty set, in a cache's
creation), and whenever the write is about to be sent, after a busy answer too, the last
row read is the verified one. Both are about that answer, not about the service at the instant of the
write: an edit in between is overwritten, for want of a precondition in the API.

*Rules* (`RuleTypeCorrect`, `ShownRuleHolds`). The end of the parent (`ParentDeleted`) can come at any
step of any operation, and takes the rules with it. `Placed` says that a rule that was shown is listed
as long as it lives, and that a rule that was shown, or a parent that was confirmed, means
that the parent is not hidden any more. So an empty answer to the first call means that the parent
is gone, and a shown rule with it, and an empty answer to the second one that a shown rule is gone.
`Deserved` carries this from the answer to the step that drops the state.

**Calls** (`CallsKeepContract`): each step of a call is a step of `CallContract` or none. The
invariant `CallInv` ties the count of effects to the place of the request, and the outcomes "ok"
and "busy" to its acceptance and rejection.

**Lists** (`ListsComplete`, `CountedListsComplete`, `RunTypeCorrect`), for any page size, page limit and
number of rows. `ListInv` says what has not been collected yet: as long as nothing can have moved
towards the pages that were read (`Undisturbed`), every row that was there from the beginning is
collected or still ahead (`Ahead`). An insertion moves rows away from the pages that were read. A removal
breaks `Undisturbed` for good in a plain list; in a counted list the total of the first page
is larger than the list from then on, unless rows are inserted, and no page is accepted any more. A short page
has nothing behind it, and as many collected rows as there are rows are all of them, so what
is published misses none.

**Plans** (`PlansKept`, `NothingStranded`, `AccountsFresh`). `PlanInv` carries what the approval rested on
(`Approved`) and what the successor of a deleted service is known to have (`Successor`) through the deletion and the
resolution of the unknown values: a value that was known stays, and every replacement rule
counts an unknown value as a change.

**The limiter**: `TypeOK`, `SlotsSpaced`, `QuotaKept`. The invariant ties all handed out
slots to `next`, which only a reservation moves, and only forward.

Only model-checked: the liveness properties `OperationReturns`, `CancelledReturns` and
`ReadReturns`, which the proof system does not treat. Every safety property of a passing run is a
theorem; the type invariants of the NAS, DB instance, webhosting and group models are proved as
the part `TypeOK` of `Base`.

## 5. What the code cannot promise

* **A success can be undone by an earlier write.** On the NAS: the first update sends PUT A, which times out in
  transit, and the state keeps P. The second update reads P, its PUT B is acknowledged, and the list
  shows B. A is taken before the second update returns, or after: success is reported, and A is in force. The
  models have this behaviour, for every resource with an update. The code reads before it
  writes, repeats nothing that may have been accepted and verifies what it wrote, and the API has neither a precondition nor a way to
  take a request back, so that no client could do better; the next refresh shows the difference. This is why
  `ConfirmedOnSuccess` excepts a change after the last answer.
* **An outside edit between the check and the write is overwritten**, for the same reason
  (`shared_storage_resource.go:366-375`).
* **A service whose receipt was never seen is in no state**: the POST was taken, and its answer lost, or the process
  died before it returned.

## 6. Not modelled

* Signing, the encodings of requests and the texts of errors: no decision depends on them.
* Validators of single values in ValidateConfig, and timeouts that are unknown in a plan.
* Rows that are removed between two pages of a plain list, and a removal together with an
  insertion in a counted one, may hide others: the API has no snapshot, and the
  properties leave these cases out, as the comment at `catalogs.go:77` does.
* A password or a server choice that is unknown in the plan and turns out to be none after the
  deletion: `NoStranding` is about plans with known values. An account that an earlier
  apply or a forced replacement deleted: the provider keeps no record of it.
* Provider configuration, unpaginated catalogs, the current bill, the decoding of rows,
  contract-probe and scripts: one pass over their input, no state between calls. The write adapters
  in `instance_writes.go`: no resource calls them, so nothing fixes the order of their calls.
* The group resource as the owner of a rule's parent (the parent is an outside actor there).
* Concurrency between two addresses that name the same remote service: the
  other one is an outside actor here.
* A delete during which the API names the row differently: malformed lists are errors.

## 7. The plan

In order:

1. `HostedService`, `HostedResource`, the four hosted resources, `IdentityCustody`,
   `RateLimiter`, `SecurityGroup`, `SecurityGroupRule`: done.
2. `ClientRequest` with `CallContract`, `PagedList`, `Planning`, their composition `TerraformRun`, and
   their proofs: done.
3. Proofs of confirmed success for all resources, of the reviewed writes, and of groups and rules: done.
4. A composition of one group resource with one of its rules in the same configuration: rules
   are destroyed before their managed parent, and no order of refreshes loses one of them.
5. The unknown password of a hosting replacement as a property of its own.
