# Formal models of tvc-examples

This directory models and verifies the four example programs of the repository:

| example | what it does |
|---|---|
| `tvc-oracle` | an enclave that carries CoinGecko's signed ETH/USD observations to an Ethereum contract |
| `tvc-policy-sidecar` | a webhook receiver that votes on Turnkey activities by a fixed Aptos transfer policy |
| `tvc-cosign` | an enclave that routes unsigned transactions and stamps Turnkey activities with one of two keys |
| `tvc-chainalysis` | a web app and an enclave app that screen a destination before a transfer is sent |

The examples share no state, so each has a family of modules of its own. The
specifications are TLA+, checked on small instances with TLC; the modules named
`*_proofs` hold theorems for all values of the constants, checked with TLAPS.
`PROJECT.json` lists the runs, the source lines behind every definition, the
hazards and the findings.

## Inventory

### tvc-oracle

*State.* On chain: `owner`, `pendingOwner`, `updater`, `sourceAirnode`, six feed
slots and the event log. In the enclave: one task (`run_forever`) with the
locals of its current cycle, and `OracleRuntimeStatus`. Between them: the node's
mempool and nonce count.

*Operations.* `updatePrice`, `setUpdater`, `setSourceAirnode` and the ownership
calls; one cycle of the updater (read the contract, check whether an update is
due, fetch and verify an observation, get a nonce, have Turnkey sign, send, poll
for the receipt); `GET /oracle/status`, which reads five slots; `main()`, which
loads keys and options, may have Turnkey judge eight transactions
(`policy_preflight.rs`), spawns the updater and binds; the router's handlers
behind the metrics layer.

*What is hard.* A cycle is a dozen awaited calls against a chain that moves on.
The slots are read in five separate calls. A transaction given up on may be
mined later, and the answer to a send may be lost. An administrator may rotate
the keys that are compiled into the enclave. The process restarts without
memory. The preflight asks Turnkey about eight transactions and concludes about
all; the policy may change under it, and failures of Turnkey look like denials.

*What makes it correct.* Every published price was signed by the airnode trusted at
that moment; no observation is published twice; the events tell the storage; updates
revert only for reasons a cycle cannot know; a cycle that reports success has its
observation on chain; only a signature that never comes can hang a cycle; no price
gets on chain that the updater's own `word_to_u128` refuses; behind a passed
preflight Turnkey signs nothing but updates, if the policy pins its fields one by
one.

### tvc-policy-sidecar

*State.* One key cache (`RwLock<CachedVerificationKeys>`) shared by all
requests, and the histogram of the metrics layer; nothing else outlives a
request. At Turnkey: activities and votes.

*Operations.* Receive a delivery, look its key up (refreshing the cache), verify
the signature, judge the activity, vote, answer.

*What is hard.* The lock is not held during the fetch, so answers are stored in
any order and the key is read back under a second lock; and since the key is looked
up before the signature is checked, anybody's post makes a fetch. A vote may reach
Turnkey although the handler has given up, and may be turned down while the activity
still awaits consensus. Deliveries are repeated, delayed, and carry headers the
signature does not cover.

*What makes it correct.* The vote on an activity is the policy's verdict on what
its initiator asked for; a 204 means that the vote was taken; an uncertain vote
leads to another delivery; withdrawn keys stop being trusted; the u64 arithmetic
of the policy cannot be wrapped around; clients cannot make the registry of
metrics grow; an eligible delivery is dismissed only because its key was overtaken.

### tvc-cosign

*State.* Per replica, fixed at boot: the two API keys, the ephemeral key and the
ruleset. Outside: boot proofs, registered keys, activities.

*Operations.* Boot (read two key files, load a ruleset), `GET /pubkeys`, `POST
/cosign` (parse, classify, build the body, stamp it, prove the decision).

*What is hard.* Replicas and successive deployments share the quorum key but not
the ruleset or the ephemeral key; the customer combines their answers freely; a
key file can be missing or malformed, the replica then runs with keys everybody
knows, and those can be registered.

*What makes it correct.* Whatever is signed without a human is a transfer within
some approved ruleset and whatever waits for humans is a privileged call, unless the
registered keys are the known ones; a verified proof tells the truth about the
activity it is held against.

### tvc-chainalysis

*State.* Per page: the `SendETH` form and its connection. On the server: a request at one of its
awaits, and three SQLite tables. In the enclave: the key read at start.

*Operations.* `handleSubmit`, `POST /api/screen` (find or create the user,
record the intent, ask the enclave, fetch the boot proof, insert the screening,
block the intent), `GET /api/screen` and the badge that matches a row's proofs,
the transfer.

*What is hard.* Requests of one person interleave between select and insert;
different enclave replicas, with keys of their own, answer them; the server may
restart between any two statements, and there is no transaction around them; a form
that loses its connection is free again while its request goes on; the list changes
while a request is under way.

*What makes it correct.* Nothing is sent without a recorded clean screening of
the same destination; tables agree; a blocked intent has a screening that says
why; a row of the history carries the proofs of its own screening; only a call to
the outside that never ends keeps the form disabled.

## Modules

| module | models |
|---|---|
| `PriceFeed` | abstract specification: what a reader of the chain may rely on |
| `SignedEthUsdOracle` | the contract, one action per function that succeeds (a revert leaves no trace) |
| `SignedEthUsdOracle_proofs` | theorems about the contract |
| `SignedObservation` | what CoinGecko's API may answer and `verify_observation` lets through |
| `OracleUpdater` | extends the two with the chain, the node and the updater tasks, one action per awaited call |
| `OracleUpdater_proofs` | theorems about the updater and the chain together |
| `OracleDashboard` | extends the contract with one request for the status, one action per `eth_call` |
| `OracleDashboard_proofs` | a theorem about the five reads |
| `PolicyPreflight` | `main()` of the oracle and its preflight against a policy kept, and changed, at Turnkey |
| `RequestMetrics` | the routers of the oracle and the sidecar, by paths, methods and statuses, and the metrics layer |
| `Services` | composes the two into the life of a server process |
| `Services_proofs` | theorems about the preflight, the start of a process and its metrics |
| `AptosPolicy` | the policy as operators, and the README's conditions as the reference |
| `PolicyEvaluation` | `evaluate_activity` on one activity at a time |
| `WebhookVerifier` | the key cache and the lookups of concurrent requests |
| `WebhookVerifier_proofs` | theorems about the key cache |
| `PolicySidecar` | composes the two with the webhook handler, Turnkey and the network between |
| `PolicySidecar_proofs` | theorems about the decision, the votes and the answers |
| `SigningGate` | abstract specification: what the owners of the wallets may rely on |
| `CosignRules` | parser and ruleset as operators, and the documented classification as the reference |
| `CosignRouting` | the ruleset in force after `Config::load` and the routing of one request |
| `Cosign` | replicas, deployments, the customer and Turnkey over `CosignRules` |
| `Cosign_proofs` | theorems about routing and about the whole protocol |
| `Screening` | form, API, tables, enclave replicas and history of the screening example |
| `Screening_proofs` | theorems about forms, requests, tables and the history |
| `MC*` | instances for TLC |

Operators introduced by "Wrong variant" are never part of a specification. Each
is a definition of the model with a plausible mistake in it; substituting it for
the definition that follows makes a run fail, which shows that the property
depends on that part of the code. `PROJECT.json` pairs them ("mutants").

### Conventions

- An *action* ends where the code awaits. What the code does between two awaits
  is one step.
- Signatures, hashes and keys are records of what they cover. Hashes do not
  collide, nobody signs with a key not in its possession. The keys derived from the
  development seed are in everybody's (`ForgedStamps`).
- Variables marked *(history)* exist only for properties.
- Time is a small integer. Bounds on it, on the number of events, requests and
  restarts are constants marked *bound*. When they are reached a model stops, and
  so does a system that nobody calls: hence `CHECK_DEADLOCK FALSE` throughout.
  That nothing stops half-way is checked as liveness instead.

## Runs

All passing runs explore their whole state space.

| run | question | bounds and why they suffice | states |
|---|---|---|---|
| `oracle_contract` | Does any sequence of calls by anybody break the feed, the log or the administration, and what can a five-slot read see of it? | two accounts and airnodes (a trusted one and another), two templates, prices below, within and above what fits; two events, so two updates, or a rotation and an update in either order, plus any ownership moves; whatever comes between two updates takes more events and is left to the theorems (`NoReplay`, `Authenticity`) | 1,086,015 |
| `oracle_updater` | What does the updater do to the chain when calls fail, transactions are late or evicted, keys rotate, the process restarts? | one replica, interval 2, three time units, one event before or after the transactions in flight, one restart, blocks one unit late, source one unit fast, two polls; observations of two templates and airnodes with a negative price, one that fits 128 bits and one that does not | 490,366 |
| `aptos_policy` | Is the code's decision the README's, for all amounts? | a 4-bit u64: every amount, gas limit and price, each with at most one other defect | 122,882 |
| `webhook_keys` | Can concurrent fetches keep a withdrawn key trusted, or lose a request? | two requests for any key id, two keys, four time units: longer than cache lifetime and timeout together | 993,913 |
| `policy_sidecar` | Does every vote follow the policy, every answer the vote, and what dismisses an eligible delivery? | two requests, one key that comes and goes; an activity within the policy and one of another organization; one signed delivery, of which the body may fail to parse (`Unreadable`), repeated and altered at will; forged posts about the first activity (`ForgedAbout`) under any key id, before and after Turnkey signs anything | 919,622 |
| `sidecar_overtaken` | Does every eligible delivery lead to a vote? | one key, one delivery, one forged post: the key is published between two fetches | violated |
| `cosign_routing` | Is the routing the documented one? | all combinations around the boundaries of three rulesets and of files that do not parse | 138,240 |
| `cosign_protocol` | Can replicas, deployments and a free customer be combined into something no ruleset allows? | two replicas, three boots, two rulesets that disagree, two approvers; of the stamps anybody can forge (`Forgery`), those on a transfer above every limit, which no ruleset lets through | 282,106 |
| `cosign_dev_keys` | Are development keys confined to machines without key files? | as above | violated |
| `screening` | Do interleaved requests, restarts and list changes get a transfer past the screening, or corrupt the tables? | two tabs of one person, two requests at once (`Post`), two destinations of which one may be listed (`Listable`), two intents, two replicas, so that each of two rows can be lent the other's transaction or proof, and a tab whose connection is lost can have both requests | 879,696 |
| `screening_history` | Does the history show what was screened last? | as above, both destinations listable, with a page of one row instead of 50 | violated |
| `services` | What does a passed preflight say about the policy, and what do clients leave behind in a server? | the complete policy, each policy one pin or cap away from it, and the pair the wrong-function fixture has wrong, refusing, and three of them asking for consensus; two paths without a route, two methods, two answers | 917,916 |

There are two refinements. `PublishedFeed`: the contract implements `PriceFeed`, and so
does the contract driven by the updater (a theorem only: what the updater does to the
contract, `oracle_contract` lets anybody do). `ImplementsGate`: replicas, deployments, the
customer and Turnkey implement `SigningGate`, where a body is *signed* if an activity
with it is complete, and a consent is an approval of an activity with that body; of
activities stamped with the known keys it says nothing (`Guarded`).

### Fairness

Each liveness property assumes weak fairness of the steps of one task and nothing
of its environment. Where the code bounds no call, the step is not assumed to come,
and the property says so.

- `CycleEnds`: `TimedStep(r)`, the updater's own steps but `Sign(r)`. The Tokio runtime
  polls the task, and calls to the RPC node and the source return or fail by the
  four-second timeouts of `AppState.http_client` (`client.rs`). The Turnkey client is
  built without one (`state.rs:39`), so the property leaves a cycle at its signature for
  ever, and nowhere else. Blocks are not assumed to be mined, nor the source to
  have news: polling for a receipt ends by its attempts. `FailCycle` needs no
  fairness.
- `LookupEnds`: `Verify(h)`; the fetch ends by `EGRESS_REQUEST_TIMEOUT`.
- `ScreeningEnds`: `Serve(p)` where `~CallsOut(p)`: statements on the tables, and the
  answer. The enclave gives Chainalysis ten seconds, but the fetches in between
  (`tvc-app.ts:38`, `route.ts:72`, `SendETH.tsx:98`) and the wallet have no limit; a
  form may stay disabled waiting for one of these, or for a connection it has lost
  without noticing, and for nothing else.

### Findings

- `sidecar_overtaken`: two requests fetch the key document around the publication of
  a key; the older document is stored last and the request that fetched the newer one
  then fails to find its key. The delivery is answered 401, which is not retried, and
  no vote is cast (`verification.rs:187`, `:217`; README of the sidecar, line 238).
  One key is enough, and so is one delivery: the other request may be anybody's post,
  since its key is looked up before its signature is checked (`verification.rs:156`).
  `RefusedOnlyIfOvertaken` states that this schedule is the only one.
- `cosign_dev_keys`: a key file that exists but does not parse leads to the
  development keys, which the comment at `keys.rs:44` confines to its absence (the
  comment at `keys.rs:200` describes what the code does).
- `screening_history`: `GET` returns the *oldest* 50 rows (`route.ts:146`), which the page
  then shows in reverse, as if the latest were among them (`ScreeningHistory.tsx:52`).

Behaviour seen while modelling for which no run is kept:

- `run_once` reads the recording time before it sends. If the answer to a send is
  lost, the next cycle starts after the retry delay and may send again, so two
  updates can be closer than the interval that `oracle_status.rs:11` calls
  configured. `EarlyOnlyIfUnseen` states what does hold.
- The five slots of a status response may come from different blocks
  (`oracle_updater.rs:142`). `NeverBehind` states what does hold.
- A transfer selector listed among the admin selectors has no effect, since
  `classify` tests for it first (`rules.rs:80`).
- A screening is stored and acted on without boot proof or app proof when one
  cannot be had (`route.ts:80`), although the README, line 40, speaks of every
  check with both. The badge shows "Verified by Turnkey Verifiable Cloud" for a row
  that has only a boot proof (`ProofBadge.tsx:59`).
- The preflight's wrong-function case lacks the template as well, so it does not
  show that the policy pins the function: a policy without that pin passes all
  eight cases. `PreflightHolds` says nothing of the function.
- `is_policy_denial` counts Turnkey's own failures to produce a result as denials
  (`policy_preflight.rs:75-81`). `PreflightHolds` excepts a start in which one
  occurred.
- Under a policy that asks for consensus, each preflight leaves seven signing
  activities at Turnkey that wait for a human.
- The updater is spawned before the port is bound (`main.rs:49-60`): a process that
  fails to bind may have sent a transaction.
- The oracle's copy of the metrics layer labels with the raw path
  (`metrics/src/layer.rs:221`), the sidecar's with the route. `SeriesBounded` is
  about the sidecar, and about one method: the method is the client's in both.
- Once the keys of the published seed are registered, Turnkey takes whatever anybody
  stamps. `UnattendedWithinRules`, `AttendedIsPrivileged` and `ImplementsGate` are
  about activities under other keys.
- A vote may be turned down while its activity still awaits consensus (401, 403, an
  activity that needs approval); the delivery is then answered 400 and not repeated
  (`turnkey_voter.rs:42-48`).
- An allowed intent stays `pending` for good; only blocking changes a status
  (`route.ts:102`).

## Proofs

| module | theorem | statement |
|---|---|---|
| contract | `TypeCorrect` | `Spec => []TypeOK` |
| | `NoReplay` | `Spec => []NeverReplayed` |
| | `LogIsComplete` | `Spec => []StorageMatchesLog` |
| | `Authenticity` | `Spec => []EventsAuthentic` |
| | `Renouncement` | `Spec => RenouncedIsFinal` |
| | `ContractImplementsFeed` | `Spec => PublishedFeed` |
| updater | `UpdaterInvariant`, `UpdaterTypeCorrect` | `USpec => []UInv`, `[]UTypeOK` |
| | `Readable` | `USpec => []FeedStaysReadable` |
| | `EarlyIsUnseen` | `USpec => EarlyOnlyIfUnseen` |
| | `RevertsHaveReasons` | `USpec => RevertsExplained` |
| | `SuccessIsReal` | `USpec => SuccessIsOnChain` |
| | `UpdaterImplementsFeed` | `USpec => PublishedFeed` |
| dashboard | `ResponsesAreConsistent` | `DSpec => NeverBehind` |
| services | `ServicesTypeCorrect` | `SSpec => []ServicesTypeOK` |
| | `SeriesStayBounded` | `SSpec => []SeriesBounded` |
| | `PreflightIsEnough` | `SSpec => []PreflightHolds` |
| | `SignedDefectStops` | `SSpec => []UnattendedSignatureStops` |
| verifier | `VerifierInvariant`, `VerifierTypeCorrect` | `VSpec => []VInv`, `[]VTypeOK` |
| | `TrustEnds` | `VSpec => TrustIsRecent` |
| sidecar | `DecisionIsThePolicy` | `EvaluateActivity` against the README's conditions, for every activity |
| | `EveryDecisionIsThePolicy` | `EvaluationSpec => []DecidesByThePolicy` |
| | `SidecarInvariant`, `SidecarTypeCorrect` | `SSpec => []SInv`, `[]STypeOK` |
| | `VotesAreThePolicys` | `SSpec => []VotesFollowPolicy` |
| | `SidecarTrustEnds` | `SSpec => TrustIsRecent` |
| | `SuccessIsVoted` | `SSpec => SuccessMeansVoted` |
| | `UncertainIsAskedAgain` | `SSpec => UncertainIsRetried` |
| | `EligibleUnlessOvertaken` | `SSpec /\ [][~DropsKey]_sidecarVars => EligibleDeliveryVotes` |
| | `DismissalMeansOvertaken` | `SSpec => RefusedOnlyIfOvertaken` |
| cosign | `RoutingIsExact` | `RoutingSpec => []RoutedByTheRules` |
| | `CosignTypeCorrect` | `Spec => []TypeOK` |
| | `RulesAreFollowed` | `Spec => []Inv` |
| | `UnattendedIsSafe` | `Spec => []UnattendedWithinRules` |
| | `AttendedIsSafe` | `Spec => []AttendedIsPrivileged` |
| | `ProofsAreTrue` | `Spec => []VerifiedProofIsTrue` |
| | `AnswersVerify` | `Spec => []AnswersAreVerifiable` |
| | `CosignImplementsGate` | `Spec => ImplementsGate` |
| screening | `ScreeningInvariant`, `ScreeningTypeCorrect` | `Spec => []Inv`, `[]TypeOK` |
| | `RecordedBeforeSent` | `Spec => []SentIsOnRecord` |
| | `CleanBeforeSent` | `Spec => []SendingWasClean` |
| | `TablesFit` | `Spec => []TablesAgree` |
| | `HistoryShowsOwnProofs` | `Spec => []ShownProofIsOfRow` |

They hold for all values of the constants: any accounts, prices, replicas,
handlers, keys, rulesets, forgeries, tabs and bounds. The assumptions are the named `ASSUME`s of
the modules (`OracleConstants`, `ObservationConstants`, `UpdaterConstants`,
`DashboardConstants`, `PreflightConstants`, `MetricsConstants`, `VerifierConstants`,
`PolicyConstants`, `PolicyEvaluationConstants`, `SidecarConstants`,
`CosignRulesConstants`, `CosignRoutingConstants`, `CosignConstants`,
`ScreeningConstants`), which TLC evaluates on the instances. One of them is a real
restriction: `PreflightConstants` takes a policy to be a set of independent pins and
two caps. In particular the two
updater replicas that no run explores, and key sets larger than those of the runs,
are covered by the theorems.

*Contract.* `TypeOK` is inductive. `NeverReplayed` is not: nothing in it relates
the log to the storage that `updatePrice` compares with. The invariant adds that
no price event carries a later source timestamp than the feed. An update appends
an event whose timestamp exceeds the feed's, hence all earlier ones; every other
event is no price event, so the order of the others is what it was.
`StorageMatchesLog` is inductive with `TypeOK`: an event either is of another kind,
and what is said of a kind stays, or starts where the chain of its kind ends.
`EventsAuthentic` rests on it: when the airnode is rotated, the one trusted at an
event before the rotation becomes the rotation's `from`. `RenouncedIsFinal` needs
that a renounced contract has no nominee (`NoNomineeOfNobody`), and the refinement
that nothing was recorded later than the latest block (`RecordedInThePast`).

*Updater.* `UInv` adds to the types what is known at each suspension point. Of the
chain: every transaction in the mempool is `Justified` (it carries an observation
`verify_observation` let through, newer than the reading it was based on, and due by
that reading), and a successful receipt has its observation, or a newer one, in the
feed. Of a cycle: `Grounded`, the same of its locals as far as they have been
computed, and that what it read of the contract is not newer than the feed: an
observation that is not newer than the reading is therefore on chain, or overtaken.
None of the four properties is inductive without this, since the step that violates
it would be one of the chain's and its cause a cycle long ended. A step of a replica
changes one cycle to a grounded one (`Moves`); a block changes the chain by one
transaction or by a call of somebody else.

*Dashboard.* A slot already read lies between its value at the request and its
value now; and because every update raises the source timestamp, a feed that equals
the one at the request has not changed in between.

*Key cache.* Every key in an answer was published since its request began to wait,
which is at most one timeout ago. Storing it therefore gives a cache whose keys
were published at most one timeout before the store, and whose expiry is at most
one lifetime after it. The second read looks at no expiry, but between store and
read the clock stands still (`Tick`), so only the timeout counts there.

*Sidecar.* `DecisionIsThePolicy` is arithmetic: a checked operation refuses only
what is above every limit a u64 can hold. `VotesFollowPolicy` rests on what Turnkey
signs: whatever `Altered` does, the signature on a delivery is one Turnkey made, so
a delivery that verifies carries the activity as it was created, but for its status,
and one that calls for a vote still has the status it was created with.
`EligibleDeliveryVotes` is false (finding `sidecar_overtaken`); what is proved is
that the cause found there is the only one, in two ways. `RefusedOnlyIfOvertaken`
holds of every behaviour: a request for a key that is still published is answered
with a document that has it (`KeyFetched`), so when it ends as "unknown" the key has
left the cache between the two. `EligibleUnlessOvertaken` excludes the step behind
that, `DropsKey`, a store of a document that lacks a cached key which is still
published; then the key is there when it is read back (`KeyRead`). A key that is
withdrawn meanwhile makes the delivery ineligible. Neither asks who posted the other
requests. `TaskFits` and `RequestFits` tie a vote under way to the handler that
waits for it, which gives the meaning of 204 and of 503; a vote that was turned down
has told so the handler that waits (`result`), whatever becomes of the activity.
Every step of the sidecar is a step of the verifier or leaves it alone, so the
verifier's theorem carries over.

*Routing.* `LoadedRuleset`: whatever file is named, the ruleset in force lists
addresses and selectors only, since the embedded one is used if the file does not
load. `Classify` then agrees with the documented conditions in both directions
(`ProgrammaticRouting` and `AdminRouting` from the code to the conditions,
`WithinRulesIsRouted` and `PrivilegedIsRouted` back), and what is malformed meets
neither.

*Cosign.* `TypeInv` says that each replica runs what `main` has put together at a
boot (`Booted`), and that registration, which happens once, precedes every activity.
`Inv` has three parts. `RunsApproved`: running replicas have approved rulesets.
`StampsFollowRules`: every stamp handed out is on a body that is within, or
privileged by, some approved ruleset, according to the role of its key.
`ActivitiesFollowRules`: so is every activity whose key is not of the known seed
(`Guarded`), and an administrative one is complete only with all approvals. The
parts are needed in this order: an activity is only as good as the stamp it was
submitted with, and the stamp as the ruleset of the replica that made it. Rulesets
are never withdrawn from `approved`, so old stamps stay covered (`OldStampsStay`).
The two routing lemmas connect `Classify` with the documented conditions. For the
proofs of decisions, `ProofInv` says that a running replica's boot proof names its
own ruleset and ephemeral key, that an ephemeral key has one boot proof, and that
every answer agrees with it (`Coherent`). For the refinement, `ActivitiesDistinct`
says that a body has at most one activity of each role, and that nobody is asked
about a programmatic one. The consents to a body are therefore the approvals of one
activity, and the approval that completes it is the one with which everybody has
consented (`ApprovalStep`).

*Metrics.* `answered`, the history of labels, only grows by answers of the routes
(`AnswersAreStatuses`), and the series count it (`OneMoreAnswer`). Every label of the
sidecar is that of a route, or the one all other paths share, which bounds the
series for any clients and paths.

*Preflight.* `StartInv` says, of a start under a stable policy without spurious
denials, that every case before `nextCase` was judged as the policy judges it. An
updater or a server behind a preflight has all eight behind it. `CaseTells` turns
each verdict into what the policy pins: a case differs from the update in one
field, so a denial means that this field is pinned or capped; `EightCases` puts the
eight together for every transaction. The wrong-function case adds nothing, for it
differs in two fields. For a signed defect the invariant is the property itself
with the phase in which it can arise (`OthersAreNoDenials`: an error after a
signature never passes for a denial).

*Screening.* `RequestsSound` says of each suspension point of a request what the tables
already hold for it (a user, an intent, a row), and of a form that sends that its
row is there. Nothing in it ties a request to a form: a form may have lost its
connection, and only an open connection leads to a request about the same destination
(`TypeOK`). `TablesSound` keeps the unique columns, the references between the
tables, and a screening behind every blocked intent. `SentSound` carries both over to
what has been sent. A restart drops requests and keeps rows, so all parts survive it.
A second invariant rests on the first. `IdsSound`: ids are numbered through and belong
to one row each; a status update maps the table one to one (`SetStatusNumbered`), so
the next id is free. `ProofsSound`: from the enclave's answer to the stored row, what
was signed is this verdict on this destination, and the boot proof belongs to the
signing key. The join of the history finds the transaction of the row
(`ShownDestination`), so what is shown with a row is its own.

*Only model-checked.* Liveness (`CycleEnds`, `LookupEnds`, `ScreeningEnds`), which
under fairness is out of the prover's reach. Every other property of a passing run
is stated by a theorem. The properties of the violating runs are false.

## Plan

Done: every component whose code changes state has a module, the detailed
specifications of the oracle are shown to implement `PriceFeed` and that of cosign
`SigningGate`, and the safety properties are proved.

Next, in this order:

1. Two organizations in `screening`, sharing destinations, on an instance small enough
   to finish; the proofs already cover any number.
2. A second updater replica on a reduced instance, to see which reverts it causes.
3. Abstract specifications of the sidecar (a vote for each eligible delivery) and of the
   screening (a transfer for each clean verdict), with the refinements proved.
4. The admin CLI as a composition with the contract, if it grows beyond one call.

## Not modelled

- Bytes: RLP, ABI, BCS, hex, DER, HKDF, and the curves. The operators stand for
  what decoding yields, including that it fails.
- Durations, buckets and the text format of the metrics, command line parsing, the
  admin CLI (it signs what it is given), and end-to-end tests.
- Presentation: login, history and badge markup, and the signature check the badge
  does in the browser. `ScreeningTool.tsx` is not used by any page.
- Two updater replicas at once: the theorems hold for any number, the run has one, and
  the README of `tvc-oracle` asks for one.
- Liveness of the start-up: no timeout of the Turnkey client is visible in the
  code, so nothing says that a preflight ends.
- Policies at Turnkey that tie conditions together (the preflight's eight cases would
  not stand for all transactions), and a system clock before 1970, with which the
  webhook answers 503 as it does to an uncertain vote.

