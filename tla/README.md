# TLA+ models of HOOKX

HOOKX takes payment webhooks from providers, stores each one under its
identity, derives the payment's state from the stored log, and lets operators
look into what went wrong. This directory holds TLA+ modules of it, TLC
configurations that check them on small instances, and proofs, checked by
TLAPS, that hold for every instance.

## The system

| Component | State it keeps | Operations | Hard behaviour | What makes it correct |
| --- | --- | --- | --- | --- |
| Payment state machine (`packages/state-machine`) | none: a snapshot and a history are arguments | `processEvent`, `isEventuallyPossible` | duplicates, conflicting copies, events dated before the snapshot | an accepted event follows the table; nothing else changes the payment |
| Replay coordinator (`replay.ts`, `order-events.ts`) | locals of one call | `replayEvents` | any order of arrival, ties, several passes | one result per set of events; stops at a fixed point; decisions final |
| Provider adapters and signatures (`packages/webhook`) | none | `verify`, `validate`, `normalize`, `hashCanonicalPayload` | clock tolerance, order of the checks, spellings of one event | nothing unverified is stored; a respelled event is no conflict |
| Webhook event store (`packages/storage`) | `webhook_events` | `store`, `markProcessing`, `listByPayment`, ... | concurrent inserts of one identity | one row per identity, statuses only move forward |
| Ingest pipeline (`apps/api/src/pipeline`, `http/webhooks.ts`) | process counters | `handleWebhookPost`, `processIncomingWebhook` | several statements without a common transaction; the provider redelivers | what is acknowledged is stored and tracked; every delivery is counted once |
| Retry and recovery (`storage/src/retry`) | `webhook_retries`, `webhook_dead_letters` | `ensurePending`, `beginAttempt`, `claimDue`, `markSucceeded`, `scheduleRetry`, `deadLetter`, `runRetryTick` | crashes with claims in hand, leases that expire, late completions | an event is applied once or dead-lettered; every row settles |
| Outcome writer (`audit/persist-outcome.ts`, `payment/from-replay.ts`) | `payments`, `audit_events` | `persistOutcome` | snapshot read before the transaction that writes it | the projection is the replay of the log |
| Audit trail (`packages/audit`, `storage/src/audit`) | `audit_events`, append only | `append`, lists | an append that fails after the change it describes | the trail tells each event's fate, once |
| Exceptions (`packages/exceptions`, `storage/src/exceptions`) | `exceptions` | detect, `create`, `updateStatus` | detection repeated by retries; two operators | one exception and one audit row per identity; status moves forward |
| Simulator (`packages/simulator`, `apps/api/src/simulate`) | none: scenarios are data | generate deliveries, `runScenario` | expectations kept by hand | a scenario does what it says |
| Failure lab (`apps/api/src/failure-lab`) | run reports, kept up to a bound | run, report, reset (purge) | runs beside live traffic, drains retries at a future instant | live events unharmed; a reset leaves nothing stray |
| Investigation (`packages/investigation`, `http/investigation.ts`) | `investigations` | build context, investigate, validate, store, log | an unreliable model; evidence read in parts; an audit append that fails after the insert | records cite evidence of their own exception; each is logged |
| Observability and timeline (`packages/observability`) | none | `composeIncidentTimeline` | rows dated before they commit; two sources of one fact | a chronology without effects before causes |
| Operator console (`apps/web`) | page state in each tab | open, investigate | loads and answers that overtake each other | a page shows the newest it knows, of its own exception |
| Domain values (`packages/domain`) | none | checks on money, currency, instants | fractional seconds, calendar dates | one normal form per value |

Components interact through the database. A delivery is verified and
normalized, stored, and handed to `processFreshEvent`, which inserts the retry
row, claims it and makes the first attempt; the `retry:tick` command claims what
is due and makes the later ones. Both run `processWebhookAttempt`, which loads the payment's events, calls
`replayEvents`, and hands the decision for its own event to the outcome writer;
what was detected on the way is recorded as exceptions. The failure lab posts
deliveries of its own to the same handler and runs the same ticks. Operators
read exceptions and timelines and ask for investigations, which are stored and
audited. Nothing holds a lock or a transaction across these steps.

## Modules

| Module | What it is |
| --- | --- |
| `PaymentStateMachine` | The transition table, reachability and `processEvent` as operators. An event is a record of identity, payment, type, instant and `body`, a token for the money and the payload hash. |
| `Replay` | `orderWebhookEvents`, `classifyAttempt` and `replayEvents` as a function of a list of events. |
| `ReplayLoop` | `replayEvents` as a state machine: an action per iteration of the inner loop (`SkipSettled`, `Accept`, `Settle`, `LeaveDelayed`), per early return (`ReturnEmpty`), and for the sort, the next pass and the return. |
| `Detection` | `packages/exceptions`: facts, their order and severity, `uniqueMissingPrerequisite`, `detectException`, and the failure codes and final status of an attempt they depend on. |
| `Classification` | `ReplayLoop` with `Detection`: every event of a finished replay is put through `recordAttemptExceptions`. |
| `EventLifecycle` | What the retry protocol promises for an event: absent, open, then applied or parked for good, with one effect at most. |
| `RetryProtocol` | Requests and workers on `webhook_events`, `webhook_retries`, `webhook_dead_letters` and `payments`; one action per statement or transaction. |
| `Exceptions` | Recorders and operators on `exceptions` and its audit rows; one action per statement. |
| `Providers` | The two adapters and verifiers as operators on a delivery: order of the checks, tolerance, type maps, normal form and hash. |
| `Ingest` | A delivery from the first byte to the answer, retries of its event, audit rows, exceptions and counters. Composes `Providers`, `Detection` and `Replay`. |
| `Simulator` | Scenarios, their deliveries, and what each and the lab's catalog expects, as values. |
| `FailureLab` | Lab and simulator runs, their ticks, reports and the purge, beside live traffic and a worker. Composes `Simulator` and `Replay`. |
| `Investigator` | The stub, the model behind a provider and the stand-in, and the one validation, as operators on the evidence. |
| `Timeline` | `composeIncidentTimeline` as an operator on audit rows. |
| `Console` | Two pages, the investigation and timeline routes, `investigations` and the trail. Composes `Investigator` and `Timeline`. |
| `ReplayLoopProofs`, `ClassificationProofs`, `RetryProtocolProofs`, `ExceptionsProofs`, `IngestProofs`, `IngestAuditProofs`, `FailureLabProofs`, `ConsoleProofs` | The inductive invariants and theorems. |
| `MC...` | The instances for TLC: pools of events, deliveries, plans. `MCRetryProtocol` also binds the verdicts of `RetryProtocol` to `replayEvents`. |

Definitions whose comment begins with `Mutant:` are wrong versions of the
definition that follows them, each the way a plausible bug would have it; they
are used to see that a property notices.

### How `RetryProtocol` corresponds to the code

A process is a request or a worker; `pc[p]` names the database call it is about
to make. What a call returns is kept in `job[p]` (the event, the attempt count
of the claim, the decision and the snapshot of the replay) or `batch[p]` (the
claimed records a tick has not come to). `now[p]` is the instant `handleWebhookPost`
or the tick command sampled once at its start and uses for every due test, lease
and backoff; `clock` is the wall clock. One action is one statement with the
local code up to the next `await`, so all interleavings of statements are there.

* `Receive`, `Store`, `EnsurePending`, `CheckPending`, `BeginAttempt`: a delivery up to its attempt.
* `StartTick`, `ClaimDue`, `TakeRecord`, `EndTick`: a tick. `ClaimDue` is one statement with `SKIP LOCKED`; records are taken in any order, as `RETURNING` promises none.
* `LoadEvent`, `MarkProcessing`, `Recheck`, `ReplayLog`: `processWebhookAttempt`. `AttemptThrows` is the outcome its two `catch` clauses classify, retryable or not.
* `Commit`, `Park`: the outcome transaction. `Park` stands for CONFLICT and REJECTED.
* `MarkSucceeded`, `ScheduleRetry`, `DeadLetter`: the completions, which name the row by its id alone.
* `Fail`: the process stops at any await, by a crash or by an error nothing catches; in a tick the claimed records go with it.
* `Tick`: time passes.

`Verdict` and `Snapshot` are constants, the decision for an event in a log and
the payment of a log, so that the protocol can be reasoned about without the
state machine. `MCRetryProtocol` sets them to what `replayEvents` computes,
except in the runs that do not depend on them.

`TimelySpec` adds that whoever holds claims finishes within the lease
(`Timely`); the default lease is 30 s and a tick takes ten records, so the code
makes this likely and does not enforce it.

### How `Exceptions` and `Detection` correspond to the code

A recorder is a call of `recordExceptionsSafely`, by a request or at the end of
an attempt; an operator is a call of `changeExceptionStatus`, which storage
exports and no route calls yet. A row of the table is named by its identity key,
a code and a subject; `status` is the row, `noted` counts the audit rows of its
detection and `changed` collects what EXCEPTION_STATUS_CHANGED rows say.

* `Detect`: what happened (a cause) is chosen, classified, and the drafts are in hand.
* `Create`, `AppendDetected`, `Advance`, `Finish`: the loop of `persistDetectedExceptions`, in the order of `EXCEPTION_PRECEDENCE`. Only an insert that took place is audited.
* `Abandon`: a statement throws, which `recordExceptionsSafely` swallows together with the drafts that are left, or the process stops.
* `FindCurrent`, `UpdateStatus`: the read with its check, and the update by id. `AppendChanged` is the audit row, `GiveUp` an error or a crash in between.

A cause is the store's outcome, the verifier's status, the adapter's error, or
the end of an attempt: the failure code, whether it was the last attempt, and
what the machine said of which event in which state. `Classification` takes the
attempts' causes from finished replays, `Ingest` all of them from requests.

### How `Ingest` and `Providers` correspond to the code

A delivery is a record of what the checks look at (`Content[d]`): provider,
media type, lengths, the signature's kind and age, the payload's flaws and the
normalized fields. HMAC is a token: "genuine" verifies, "forged" does not. A
flaw is the name of a check that fails; the adapters' checks are sequences, so
that their order, and with it the code that is answered, is the source's.
`hashPayload` is the tuple of normalized fields. The digits an instant is written
with are part of it: an event sent once with `.0Z` and once with `Z` is a
conflict, which `ConflictsDiffer` says.

* `Deliver` is the provider's copy arriving: `TurnAway` for the answers of `handleWebhookPost` before a body is read, else `Receive`, the verification and validation up to the first statement.
* `Refuse`: the rejection's audit row; `Report`: its exceptions.
* `Store`, `StoreThrows`, `Receipt`, `ReportConflict`: the store, what it answers and its audit row; the 409 path.
* `Ensure`, `Begin`: the retry row and the claim. `FinishAttempt` is an attempt: `Announce`, `Work` (the reads and the replay), `Commit` (status and the audit rows of the decision in one transaction), `Settle` (the retry row), `Tell` and `Raise` (its audit row and exceptions).
* `Observe`: the counters and the answer, 200 or 500.
* `Throw`: the statement a process is at fails, with what each `catch` then does; `Crash`: the API process stops, with all requests and its counters.
* `Claim`: a worker's tick, of one due row at a time.

`RetryProtocol` has the attempt in finer steps, with time and leases that run
out; here a lease lasts while its holder lives. The two modules overlap on
purpose: the finer one has few audit rows and no rejections, this one has all
of them.

### How `FailureLab` and `Simulator` correspond to the code

A process is a lab run, the `simulate` command, a live request or the worker.
`Start`, `Post`, `Drain`, `Report` are `runFailureLabScenario`, with the HTTP
handler's steps `Ensure`, `Work`, `Commit`, `Settle`, `Observe` between them;
`DrainSimulated` is the loop of `runScenario`. `StartTick`, `ClaimDue`,
`TakeRecord`, `EndTick` are `runRetryTick` at the instant `hand[p].since`, which
for a drain lies in the future. `Injects` is `createLabProcessFn`: by payment id
prefix, whoever makes the attempt as long as it is a run's. `PurgeSelect`,
`PurgeChildren`, `PurgeParents` are the statements of the reset's transaction in
READ COMMITTED: what it has deleted is locked for others (`Locked`) and visible
to them until it commits, and a foreign key that has come to point at a parent
fails the whole purge. Event ids are random, so an id that somebody still has in
hand after the purge is the id of no row, even when the same event is delivered
again: it becomes `Nowhere` (`Forgotten`), and what is written under it finds
nothing. `report` is what `composeFailureLabReport` found stored;
`strangers` collects the events somebody else's attempt got hold of.

### How `Console`, `Investigator` and `Timeline` correspond to the code

A request is a call of POST .../investigate: `Begin` and the parts of
`buildInvestigationContext` (`ReadRetries`, `ReadAudit`), `Investigate` or
`Abort` (the provider's timeout), `Create` or `CreateFails` with the fallback of
`persistUnavailable` (`StandIn`), `recordInvestigationAudit`, `Respond`; `Fails` is
a statement that throws, `Crash` the process. `ModelAnswers` lets the model give
an honest answer of each of the ten types with each of the three confidences
(`Honest`), or one that goes wrong in one way (`Astray`, `Malformed`): a citation
of a row it was not shown, an identifier it was not shown in its prose, in its
prose and too long to be repeated, or in its limitations, or no answer of any
form. `validateInvestigationResult` is what stands between that and the table,
`ErrorNames` what its error names. The limitations are not scanned: the stand-in
repeats there the identifier it was called in for (`reason`), and where that makes
an entry too long its own validation fails and nothing is stored
(`StandInFails`).

The pipeline goes on meanwhile. `retry` has a row per webhook, of any of the five
statuses or none yet, and `attempts` who is at work on which. `ensurePending` and
`Claim` (`beginAttempt` and `claimDue`) start an attempt; `Announce`, `TellOutcome`
and `Settle` are the statements of `finishAttempt`: RETRY_ATTEMPTED if it is not
the first, then the rows of the outcome, with RETRY_SUCCEEDED if it is not the
first, then the retry row, in another statement and, for an attempt that is to be
repeated, before the audit row. So a first attempt that succeeds leaves a row
SUCCEEDED with its decision on the trail and no RETRY_SUCCEEDED. An attempt may
fall silent before any of them, and a row that is PROCESSING be claimed again
while its holder is still at work: leases, which `RetryProtocol` has, are left out
here, so it may happen at any time. `Deliver` is a repeated or conflicting
delivery. Rows are dated at the start of an attempt and committed later. Rows
that a REJECTED or CONFLICT decision adds to a dead letter, and the exceptions
recorded after an attempt, are left out: no property here speaks of them.

A tab has one page: `Open` mounts it, `LoadRecord`, `LoadTrail`, `LoadLatest`
are answers to its GETs, `ShowLatest` and `ShowList` the callbacks that put them
on the page, `Click` the button, `Received` its answer, `Broken` a lost
connection. Answers reach the page only while the component that asked is
mounted, which `Mounted` decides as React does, by `key`. `display` is
`investigationLocked`. What a page knew when it was opened (`known`) and which
correlation ids callers have sent (`echoed`) are not in the code; properties
speak of them.

## Runs

| Run | Shows | Bounds |
| --- | --- | --- |
| `replay_loop` | Every order, repetition and mixture of events replays to one legal history, at a fixed point, with final decisions; the function and the loop agree; what is not applied raises something, a dead letter at least an ERROR; MISSING_EVENT exactly where every walk through the table has the same first step | lists of up to 4 of 9 events; the longest accepted history is 4, so a list that is accepted whole, in any order, is among them |
| `retry_any_timing` | Without any assumption on timing, success and projection have a committed cause, PROCESSED is final | 2 events of one payment that conflict when both are stored, a delivery each, 1 worker, 1 crash, lease and clock 1, so that an attempt of the delivery and one of the tick overlap |
| `retry_timely` | With sufficient leases the protocol implements `EventLifecycle`; one holder per event; attempts are within budget; the dead letters agree with the rows | 1 event, delivered twice, 2 workers, 1 crash, 2 attempts, clock up to 3: a crash, its lease running out, a rescheduled and a last attempt |
| `retry_liveness` | Every retry row settles for good | 1 event, 2 deliveries, 1 worker, 2 crashes, any timing |
| `exceptions_races` | One detection audit row at most; no audit row missing without a fault or a writer to blame; no way back to OPEN | 2 recorders, 2 operators, 1 fault, at most 2 rows: an attempt recorded as two conditions and a redelivery that is one of them |
| `ingest` | Answers are true, only authentic events are stored, the trail, the exceptions and the counters tell what happened, a redelivery repairs what a crash left | 21 deliveries of two providers, in 15 groups of up to three that make trouble for each other, each sent up to 3 times; 2 requests at once, 1 worker, 1 fault or crash, 2 attempts. A conflict needs two versions of one identity, a delay an event and its predecessor, a lost claim one crash |
| `failure_lab` | A run that nobody disturbs reports what its catalog promises; live events are not harmed; an event takes effect once; no tick takes over an attempt under way, although a drain works at a future instant; a reset leaves nothing stray; runs end | each of the lab's and the simulator's scenarios alone, and those that retry beside a live delivery, a worker, a second run and a reset; 1 fault, 3 attempts, 1 report kept, so that a second run evicts one |
| `console` | Records cite and name evidence of their own and are logged, evidence misses nothing it must have, pages show investigations of their own exception and never fall back to an older one, timelines tell a sound story, clicks are answered | 3 exceptions, 3 webhooks, 2 tabs, 2 requests, in 17 plans that each have the budget for one kind of trouble: overtaking loads, first and later attempts that overlap or fall silent, a model's answers, lost statements, incidents; at most 2 webhooks and 2 retries as evidence, so that those caps cut. `MaxAudit` is 9, so that only the fullest trails are cut: of those `EvidenceSound` claims nothing |
| `replay_leftovers`, `retry_projection`, `retry_orphan`, `timeline_joins` | Where the code and the repository's documents disagree, see below | as small as the counterexample allows |

Sizes: `ingest` has 170 thousand distinct states, `failure_lab` 220 thousand,
`console` 290 thousand, `replay_loop` 72 thousand. `ingest`, `failure_lab` and
`console` choose a group or plan in their initial state and carry it in a
variable, so that one run covers all of them without the product of all.

Six type invariants are not in a run because they are proved for every
instance (`ReplayLoop`, `RetryProtocol`, `Exceptions`, `Ingest`, `FailureLab`,
`Console`), and so is `NeverRejected`.

The rows of the exceptions table are bounded by `MaxRows`, the statements that
fail by `MaxFaults` or a plan's `faults`, the clock by `Horizon` or `ticks`. In
`retry_liveness` the horizon is not reached: time passes only while a row waits
for it. `View` leaves out the sampled instant of a process that is at rest,
which it samples anew before using it; workers are symmetric, and so are
recorders and operators. `FailureLab` bounds an attempt by `Slack`, below the
lease: leases that run out are `retry_any_timing`'s. Deadlock is not checked:
when every delivery is answered and the bounds are used up, the system is
simply over.

Fairness. `replayEvents` is synchronous, so `FairSpec` has weak fairness of its
next step. `LiveSpec` has weak fairness of each request and each worker, because
Node runs a promise that is ready and it is assumed that somebody keeps running
`retry:tick`: the repository leaves that to the deployment (`README.md:178`,
`packages/storage/README.md:260`); and of time while a row waits for it.
`Ingest` has the same for requests and due rows, and weak fairness of a provider
that sends what was not acknowledged until the traffic's bound on `sends` is
used up; `RedeliverySettles` speaks of traffics whose provider outlasts the
faults. `FailureLab` has it for what has been started, the purge included.
`Console` has it for the server's side of a request only: a model need not
answer, an operator need not click, a page need not load; that the answer comes
all the same is the timeout's doing (`Abort`). Nothing is assumed of faults and
crashes, which may happen at any step and need not. Where fairness is stated
of `pc` alone (`Moves`), it is because every step of a process changes `pc` there
and nowhere else.

## Where code and documents disagree

1. `replay_leftovers`: an event older than the last accepted one is reported DELAYED for ever, although the package says leftovers that are not eventually possible become CONFLICT.
2. `retry_projection`: deliveries of `created` and `authorized` overlap; both load the log, the one with the longer log commits first, the other overwrites the row with CREATED. Both events are PROCESSED, so nothing repairs the row until another event of the payment is accepted.
3. `retry_orphan`: a crash after the event's insert and before its retry row's leaves a stored event that only a redelivery repairs.
4. `timeline_joins`: the timeline of an incident shows an investigation of another incident of the same payment, although `docs/observability.md:41` says that investigations are joined by `exceptionId`.

Smaller ones are behaviours of the models, or of code next to them, without a
run of their own:

* An attempt that outlives its lease commits after its successor and records PAYMENT_STATE_CHANGED a second time (`Commit`); `packages/storage/README.md:157` rules out a second payment transition.
* A crash during the last attempt is followed by one more (`ClaimDue`); `packages/storage/README.md:190` says that after `maxAttempts` the retry is DEAD_LETTERED.
* Within all leases, a delivery that saw its row PENDING begins an attempt after the first has failed and scheduled a retry (`BeginAttempt` after `CheckPending`); `packages/storage/README.md:234` says a duplicate starts none while RETRY_SCHEDULED.
* Of two status changes that both read OPEN, ACKNOWLEDGED may be written after RESOLVED (`UpdateStatus`); `packages/exceptions/README.md:140` rules out reverse transitions. No route calls the function yet.
* An event that can never apply is recorded as INVALID_STATE_TRANSITION, as `packages/exceptions/README.md:81` says, and as CONFLICTING_EVENT too, because of its failure code (`Facts`), unless it was the last attempt.
* A permanent failure whose code has no kind of its own, such as INVALID_ROW, is recorded as PROCESSING_FAILURE (`factsFromFailureCode`), which `packages/exceptions/README.md:75` describes as "a retry is scheduled".
* A provider time beyond the representable instants is answered with 500 (`Unfit`, the flaw "era"); `apps/api/README.md:71` has 400 for an invalid timestamp.
* The report of a lab run that is under way while the lab is reset comes back after the reset has cleared the reports (`Purged`, `Report`).
* The timeline shows REPLAY_COMPLETED for the state change of any webhook that follows a delay, which `docs/observability.md:62` describes as a later state change "for that webhook"; and older RETRY_SCHEDULED items carry the current schedule, although line 89 says that historical schedules are not invented.
* What a model writes into `limitations` is not scanned for identifiers, and when an answer is refused because it names one it was not shown, the record that is stored in its stead names it there, in the words of the error (`Invented`, `ErrorNames`, `StandIn`; `packages/investigation/src/validate.ts:107`, `http/investigation.ts:228`, `unavailable.ts:59`). `docs/ai-investigator.md:105` says hallucinated identifiers are rejected. `AnswersGrounded` is about citations and the rest of the prose.
* Over evidence that contradicts itself a model may be MEDIUM (`validateInvestigationResult`, `ModelAnswers`): `packages/investigation/src/validate.ts:164` refuses HIGH only. `docs/ai-investigator.md:120` says confidence must be LOW; the stub and the stand-in keep to that (`AnswersGrounded`).
* On the incident page a load leaves the oldest investigation as the main one, with newer ones under "PREVIOUS RUNS" (`ShowList`); on the exception page a POST that fails hides an investigation that exists (`Received`). A timeline beyond its first 80 items is never shown.

## Proofs

All theorems assume only the named assumptions on the constants
(`EventAssumption`, `ConstantsAssumption`, `ExceptionsAssumption`,
`ProvidersAssumption`, `IngestAssumption`, `ContentAssumption`,
`FailureLabAssumption`, `ConsoleAssumption`): types,
`MaxAttempts >= 1` and `MaxDelay >= BaseDelay` as `assertRetryPolicy` demands,
that a log's verdicts are decisions on its events, that a payload's flaws are
checks of its adapter, bad JSON or a date that only the database refuses, that
the requests, workers, deliveries, recorders and operators of a behaviour are finitely many, and that a
time has at most three digits of a fraction, which is what a JavaScript date
keeps: with more, two times could hash differently and sort as one.

`ReplayLoopProofs`, for every pool of events and every list: `TypeCorrect`,
`AcceptedHistoryIsLegal`, `StopsAtFixedPoint`, `ReplayNeverRejects`,
`SettledStaysSettled`. `LegalHistory` and `FixedPoint` are not inductive alone.
The invariant adds that nothing has happened before the sort (`Fresh`), that
in a pass without progress every event passed over was refused by the payment
as it still is (`Barren`), and that every ordered event belongs to the payment
asked for (`Scoped`), without which `NeverRejected` could not be kept.

Two more theorems of it compare the loop with `replayEvents` as a function:
`ArrivalOrderDoesNotMatter` and `UnacceptedLeaveNoTrace`. The module begins with
what they need of the function. The scoped events have one arrangement in replay order
(`OrderingIsUnique`: at the first place where two differ, each puts the other's
event later), so exchanging two neighbours in the log cannot show
(`ExchangeKeepsOrdering`). The two folds are unrolled into an event, and a pass, at a
time (`PassUnrolled`, `ReplayUnrolled`). The library's induction theorems cannot
be cited here, so induction is by least counterexample (`Induction`, from the
well-foundedness of < on the naturals). The invariant `Tracked` then says where
in the function the loop is: after `j` passes and `index - 1` offers, each of
these passes having accepted something. `Counted` bounds the passes by the
events, which is why the function's `Len(ordered) + 1` passes are always enough
(`LoopIsReplay`). For `UnacceptedLeaveNoTrace` two runs are followed side by side,
one over the list without event `k`: they differ in the verdict on `k` alone
(`Same`) until it is accepted, and what is accepted stays so (`Won`). The list
without `k` has one pass less, and since `k` was never accepted, that pass was
not needed.

`ClassificationProofs`, for every outcome a replay can have: `UnappliedIsReported`
and `MissingMeansForced`. The transition table is small, so its closure is computed
once: five rounds of the breadth-first search reach all there is (`FiveRounds`),
the rows a walk may start with are those from which the event is reached
(`FirstStepsAre`), and the rest is a case analysis of the facts of an attempt.

`RetryProtocolProofs`, for every number of events, payments, deliveries and
workers, every policy and lease, and any timing: `TypeCorrect`,
`SuccessIsReal` (a SUCCEEDED row's event is PROCESSED), `AppliedStaysApplied`,
`ProjectionCaused`. `SucceededMeansApplied` is not inductive: a process about to
report success must have seen PROCESSED (`Seen`), no status write may leave
PROCESSED (`ParkSparesProcessed`, which needs that the decision in hand is
CONFLICT or REJECTED, `Decided`), and a claim is only ever of a stored event
(`Stored`), without which the verdict of `ReplayLog` would be of no event of its
log. For `ProjectionHasCause` a decision in hand must rest on a log that was
stored and still is (`Grounded`).

Its second half has what holds of `TimelySpec`, in which no claim is worked on
after its lease: `EventHasOneHolder`, `AttemptsAreBudgeted`,
`DeadLettersAreTheRows`, and `LifecycleImplemented`, the refinement of
`EventLifecycle`, one lemma per action and case of `phase`. `SingleHolder` is
not inductive, because a claim is taken by the row and not by who holds it. The
invariant says that the row is as its holder believes: PROCESSING, with the
holder's lease and attempt (`Backing`), so that a row whose lease is over is held
by nobody; that a record being attempted has left the batch (`Apart`); and that
the event is where its holder left it (`OnCourse`), so that no second write of an
outcome can be. `Budget` bounds the attempts of a row with no holder left
(`Abandoned`) by the faults so far: a crash or a throw is what leaves one.
`OneEffectPerEvent` follows from the refinement.

`ExceptionsProofs`, for every number of recorders, operators and subjects and
every set of causes: `TypeCorrect`, `AuditedOnce`, `TakenUpStaysTakenUp`.
`DetectedOnce` counts; the invariant behind it (`OneAuditor`) says who: the
recorder that inserted the row is the only one about to audit it, and nobody has
yet. `NeverReopened` rests on `WritesForward`, that no operator has OPEN in hand.
`GapsAreAccounted` (`EvidenceGap`) counts the rows whose audit row is missing while
no writer is about to append it (`Paid`): only a fault adds to them, and one at a
time, because a writer has one audit row to append at most.

`IngestProofs`, for any deliveries in any mixture, any number of requests and
workers and any faults: `AuthenticLog` (only what an authentic, well-formed
delivery said is stored), `AcknowledgedIsSafe` (after a 200 the event is stored as
it was said and has a retry row), `ToldTheTruth` (`AnswersAreTrue`: that, and a
409 only where the stored event differs), `LogOnlyGrows` (no stored event is
rewritten, no retry row lost) and `CountersAddUp`. The lemmas on deliveries say
that what passes the verifier and every check is genuine and has no flaw
(`KeptIsAuthentic`), and that one hash means one event (`HashTellsMeaning`), on
which the 200 for a duplicate rests. The invariant follows a request from point
to point: what it works on has passed (`Screened`), past the store it says what
is stored unless it is a conflict (`Matched`), and from the retry row on there is
one (`Rowed`), which every other step keeps because it is `Onward`. For the 409
a request that will send it has been told CONFLICT of a hash that the stored
event does not have (`Doubted`), and equal times have equal spellings after the
database has stored them. The counters are balanced by induction on steps that
count a delivery in, count it out, or neither.

`IngestAuditProofs` builds on that. `TrailTellsOutcome`: the trail agrees with
status and row because only one process attempts an event (`Alone`), it knows
whether it is the first to (`Knows`), its decision is on an event that is still
PROCESSING (`Deciding`), and before it settles a row the trail has the outcome
(`Told`). `ReceiptsAreOnRecord` and `GivenUpIsRaised` bound a set by the faults:
a receipt is on record or somebody's to write (`Once`), and what is `Missed` grows
by a step only if that step is a fault, and by no more than one for each request
and worker then under way (`FewOf`); the same goes for dead letters that nobody
has raised or is about to (`Lost`), where an attempt that gives up must have a
severe exception to raise (`Grave`). `TypesAreRight` has the type invariant, with
`Neat` and `Listed` about what is in hand and in the exceptions table.

`FailureLabProofs`, for any runs and plans, whatever the worker, live deliveries,
crashes and the reset do in between. `ResetLeavesNothing` (`NothingStray`) holds
without any assumption on timing: `TablesInvariant` says that an event has a
status exactly if it is stored, that rows refer to events, and what the purge
owes (`PurgeHolds`): what it has deleted belongs to the lab, and where it has
deleted audit rows there are as many to subtract when it commits. A foreign key
that points at a row in its scope makes it fail, which is why the commit leaves
nothing behind; that ids are not used again is why nobody brings it back.

`OneEffectUnderLeases` (`OneEffect`) has a hypothesis, `[]LeasesOutlast`: no tick
finds an attempt under way past its lease. Drains work at instants ahead of the
clock, so this is not only a matter of how long an attempt takes; the run checks
that the catalog's instants keep to it under its policy and lease, and without it
`OneEffect` is false (`DrainLate` breaks it). Under it, `ClaimsInvariant`: an event
is in one pair of hands (`OneHolder`), once (`HeldOnce`), and its row is PROCESSING
(`HeldRows`); a decision waits for an event that still awaits it (`DecidedOpen`); and
what is not PROCESSED has had no effect (`Unapplied`), so that the effect that is
written is the first. `OneEffect` alone is not inductive, because nothing in it
says that a second holder cannot commit. `TypesAreRight` has the type invariant.

`ConsoleProofs`, for any exceptions, webhooks, tabs and requests, any caps and
any budget of clicks, faults and processing: `TypeCorrect`, `CitesItsOwn`
(`AnswersGrounded`), `NothingFromItself` (`NoEvidenceOfItsOwn`),
`EveryRecordIsAudited` (`RecordsAudited`), `EvidenceMissesNothing`
(`EvidenceSound`), `PagesKeepToTheirs` (`PagesShowTheirOwn`) and `NewestStays`
(`NeverOlder`). Its lemmas say what a step may mean: to a request (`Turn`), to the
tables (`RecordsAre`, `TrailIs`), to a page (`TabTurn`), so that each part of the
invariant is shown to be kept case by case of these and not once more of each
action. What a request has gathered stays true although the pipeline goes on
(`Evidence`): the trail only grows, and what it told when a row was read as over
it still tells, even if a late attempt has moved the row since. How a row comes to
be over is told before the statement that says so, so at any time the trail tells
it of every row that is over and of every attempt that is about to end one
(`OverIsTold`; the second half is needed because another attempt may have moved
the row in between). With the retries read before the trail the evidence is
`Complete`; in the other order of the reads, or of an attempt's statements, it
would not be. That the cap does not cut when fewer rows than `MaxAudit` are left
is `CapIsAll`. `CitesItsOwn` rests on the validation of every answer that is kept,
the stand-in's included (`Kept`), and on `Cautious`: the stub and the stand-in are
never above LOW over a contradiction. Of limitations it says nothing.
`NothingFromItself` needs to know where the correlation
ids on the trail come from (`Sources`). `NewestStays` is not kept by itself: a page
waits for one request at most, which began after what it shows first was filed
(`Clicked`), and while the button has not been used nothing is shown before the
load has ended (`PagesOK`); and what is read last is newest only because the
order of the investigations is total (`PlacesAreTaken`, by counting
predecessors).

Only model-checked:

* Liveness, whose fairness and ENABLED are out of the prover's reach: `Terminates`, `RowsSettle`, `RedeliverySettles`, `RunsEnd`, `ClicksSettle`.
* `TimelinesTell`: a timeline is cut at `TimelineLimit`, so it holds of instances with room for all items, which those of TLC have; and it is about `SortSeq` and `FlattenSeq`, which are defined by recursion or choice over data.
* `FailureLab`: what a run reports depends on what each scenario is expected to replay to (`ReportsMatch`), which is a computation on the catalog. `LiveUnharmed` and `LeasesOutlast` depend on its instants, on the policies and on who runs beside whom: a scenario with other delays, or the `simulate` command beside live traffic, could break them.

## Not modelled

Not modelled yet, and next in order: the demo and failure lab pages of the
console, which poll and race like the two that are modelled.

Left out for good: HTTP parsing and routing, HMAC, JSON and SQL text,
formatting, redaction and wording, log records, the read-only pages and list
routes, the in-memory repositories that tests use, and what a model writes
beyond the fields that are validated.
