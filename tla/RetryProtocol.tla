---------------------------- MODULE RetryProtocol ----------------------------
(***************************************************************************)
(* From a verified delivery to a settled webhook event: the durable retry  *)
(* row, the lease an attempt holds on it, the attempt itself, and the      *)
(* transaction that writes an attempt's outcome.                           *)
(*                                                                         *)
(* A request process is one HTTP delivery after signature and payload have *)
(* been accepted: processIncomingWebhook from `store` on, then             *)
(* processFreshEvent. A worker process is the `retry:tick` command, run    *)
(* again and again: runRetryTick. Each action is one database statement or *)
(* transaction together with the local code up to the next await, so every *)
(* interleaving the database allows is a behaviour. Audit rows other than  *)
(* the payment transitions, and exception records, are left out; an audit  *)
(* insert that fails throws, and every such throw is a Fail step.          *)
(***************************************************************************)
EXTENDS Integers, FiniteSets

CONSTANTS
  Event,        \* stored webhook events, by identity
  Payment,      \* payments
  PaymentOf,    \* the payment of each event
  Verdict,      \* Verdict[log][e]: the replay decision for e in a log
  Snapshot,     \* Snapshot[log]: the payment a log replays to
  NoSnapshot,   \* no payments row
  Request,      \* HTTP deliveries
  EventOf,      \* the event each request delivers
  Worker,       \* retry workers
  MaxAttempts, BaseDelay, MaxDelay,   \* RetryPolicy
  Lease,        \* leaseMs
  Limit,        \* rows one tick claims at most
  Horizon,      \* bound on the clock
  MaxFaults     \* bound on crashes and thrown errors that end an attempt

Decisions == {"ACCEPTED", "DUPLICATE", "DELAYED", "CONFLICT", "REJECTED"}

ASSUME ConstantsAssumption ==
  /\ PaymentOf \in [Event -> Payment]
  /\ EventOf \in [Request -> Event]
  /\ \A log \in SUBSET Event : Verdict[log] \in [log -> Decisions]
  /\ Request \cap Worker = {}
  /\ MaxAttempts \in Nat \ {0}
  /\ BaseDelay \in Nat /\ MaxDelay \in Nat /\ MaxDelay >= BaseDelay
  /\ Lease \in Nat
  /\ Horizon \in Nat /\ MaxFaults \in Nat /\ Limit \in Nat

Proc == Request \cup Worker

VARIABLES
  clock,     \* the wall clock all processes sample
  status,    \* webhook_events.processing_status, "ABSENT" without a row
  row,       \* webhook_retries, status "NONE" without a row
  dead,      \* events with a webhook_dead_letters row
  payment,   \* the payments table, the durable projection
  changes,   \* PAYMENT_STATE_CHANGED audit rows of each event
  pc,        \* next await of each process
  now,       \* the instant a process sampled when it started
  batch,     \* rows a tick has claimed and not come to yet
  job,       \* the attempt a process is making
  faults

vars == <<clock, status, row, dead, payment, changes, pc, now, batch, job,
          faults>>

tables == <<status, row, dead, payment, changes>>

Statuses == {"RECEIVED", "PROCESSING", "PROCESSED", "REJECTED", "CONFLICT"}

Terminal == {"SUCCEEDED", "DEAD_LETTERED"}

RetryStatuses == {"PENDING", "PROCESSING", "RETRY_SCHEDULED"} \cup Terminal

Claim == [ev : Event, att : Nat]

\* Mutant: a conflict also overwrites PROCESSED.
FROM_STATUSAny ==
  [PROCESSED |-> {"PROCESSING"},
   REJECTED  |-> {"PROCESSING"},
   CONFLICT  |-> Statuses]

\* The statuses persistOutcome may move an event from; finding the event at
\* the target status already counts as done.
FROM_STATUS ==
  [PROCESSED |-> {"PROCESSING"},
   REJECTED  |-> {"PROCESSING"},
   CONFLICT  |-> {"RECEIVED", "PROCESSING", "REJECTED", "CONFLICT"}]

\* Past the 30th attempt the power is not computed.
calculateRetryDelay(attempt) ==
  LET delay == BaseDelay * 2 ^ (attempt - 1)
  IN  IF attempt <= 30 /\ delay \in 0..MaxDelay THEN delay ELSE MaxDelay

\* Mutant: a claim does not look at the lease of the row's holder.
DueWithoutLease(r, t) ==
  \/ r.status \in {"PENDING", "RETRY_SCHEDULED"} /\ r.next <= t
  \/ r.status = "PROCESSING"

\* Mutant: rows left PROCESSING by a crash are not reclaimed.
DueOnlyScheduled(r, t) ==
  r.status \in {"PENDING", "RETRY_SCHEDULED"} /\ r.next <= t

\* The guard of claimDue and beginAttempt.
Due(r, t) ==
  \/ r.status \in {"PENDING", "RETRY_SCHEDULED"} /\ r.next <= t
  \/ r.status = "PROCESSING" /\ r.lease <= t

Claimed(r, t) ==
  [r EXCEPT !.status = "PROCESSING", !.att = @ + 1, !.lease = t + Lease]

\* listByPayment: every stored event of the payment, whatever its status.
Log(pay) == {e \in Event : status[e] # "ABSENT" /\ PaymentOf[e] = pay}

NoJob == [ev |-> "none", att |-> 0, verdict |-> "none", pay |-> NoSnapshot]

-----------------------------------------------------------------------------
Init ==
  /\ clock = 0
  /\ status = [e \in Event |-> "ABSENT"]
  /\ row = [e \in Event |-> [status |-> "NONE", att |-> 0, next |-> 0,
                             lease |-> 0]]
  /\ dead = {}
  /\ payment = [p \in Payment |-> NoSnapshot]
  /\ changes = [e \in Event |-> 0]
  /\ pc = [p \in Proc |-> "idle"]
  /\ now = [p \in Proc |-> 0]
  /\ batch = [p \in Proc |-> {}]
  /\ job = [p \in Proc |-> NoJob]
  /\ faults = 0

Goto(p, from, to) ==
  /\ pc[p] = from
  /\ pc' = [pc EXCEPT ![p] = to]

\* A request answers and is over; a tick goes on to its next record.
Rest(p) == IF p \in Request THEN "done" ELSE "next"

\* An exception leaves the attempt: the request answers 500; the tick ends,
\* its remaining records with it.
Abandon(p) ==
  /\ pc' = [pc EXCEPT ![p] = IF p \in Request THEN "done" ELSE "idle"]
  /\ batch' = [batch EXCEPT ![p] = {}]
  /\ job' = [job EXCEPT ![p] = NoJob]

\* persistOutcome finds the event where it may move it, or moved already.
MayWrite(e, to) == status[e] \in FROM_STATUS[to] \cup {to}

-----------------------------------------------------------------------------
(* A delivery: store, ensurePending, beginAttempt *)

\* The request samples the instant all its steps use.
Receive(r) ==
  /\ Goto(r, "idle", "store")
  /\ now' = [now EXCEPT ![r] = clock]
  /\ job' = [job EXCEPT ![r] = [NoJob EXCEPT !.ev = EventOf[r]]]
  /\ UNCHANGED <<clock, tables, batch, faults>>

\* The event is stored, or found stored with the same material.
Store(r) ==
  /\ Goto(r, "store", "ensure")
  /\ status' = [status EXCEPT ![job[r].ev] =
                  IF @ = "ABSENT" THEN "RECEIVED" ELSE @]
  /\ UNCHANGED <<clock, row, dead, payment, changes, now, batch, job, faults>>

EnsurePending(r) ==
  /\ Goto(r, "ensure", "check")
  /\ row' = [row EXCEPT ![job[r].ev] =
               IF @.status = "NONE"
               THEN [status |-> "PENDING", att |-> 0, next |-> now[r],
                     lease |-> 0]
               ELSE @]
  /\ UNCHANGED <<clock, status, dead, payment, changes, now, batch, job, faults>>

\* The row is read back after the insert: only a PENDING one is attempted.
CheckPending(r) ==
  LET pending == row[job[r].ev].status = "PENDING"
  IN  /\ Goto(r, "check", IF pending THEN "begin" ELSE "done")
      /\ job' = IF pending THEN job ELSE [job EXCEPT ![r] = NoJob]
      /\ UNCHANGED <<clock, tables, now, batch, faults>>

BeginAttempt(r) ==
  LET e == job[r].ev
      claims == Due(row[e], now[r])
  IN  /\ Goto(r, "begin", IF claims THEN "load" ELSE "done")
      /\ row' = IF claims THEN [row EXCEPT ![e] = Claimed(@, now[r])] ELSE row
      /\ job' = IF claims THEN [job EXCEPT ![r].att = row[e].att + 1]
                           ELSE [job EXCEPT ![r] = NoJob]
      /\ UNCHANGED <<clock, status, dead, payment, changes, now, batch, faults>>

-----------------------------------------------------------------------------
(* A retry tick: claimDue, then its records one after the other *)

StartTick(w) ==
  /\ Goto(w, "idle", "claim")
  /\ now' = [now EXCEPT ![w] = clock]
  /\ UNCHANGED <<clock, tables, batch, job, faults>>

\* The Limit due rows with the earliest next attempt, in one statement; ids are
\* random, so ties are broken either way, and RETURNING has no order.
Claimable(S, t) ==
  LET due == {e \in Event : Due(row[e], t)}
  IN  /\ S \subseteq due
      /\ Cardinality(S) <= Limit
      /\ Cardinality(S) < Limit => S = due
      /\ \A e \in S, d \in due \ S : row[e].next <= row[d].next

ClaimDue(w) ==
  /\ Goto(w, "claim", "next")
  /\ \E S \in SUBSET Event :
       /\ Claimable(S, now[w])
       /\ row' = [e \in Event |-> IF e \in S THEN Claimed(row[e], now[w])
                                             ELSE row[e]]
       /\ batch' = [batch EXCEPT ![w] =
                      {[ev |-> e, att |-> row[e].att + 1] : e \in S}]
  /\ UNCHANGED <<clock, status, dead, payment, changes, now, job, faults>>

TakeRecord(w) ==
  /\ Goto(w, "next", "load")
  /\ \E c \in batch[w] :
       /\ batch' = [batch EXCEPT ![w] = @ \ {c}]
       /\ job' = [job EXCEPT ![w] = [NoJob EXCEPT !.ev = c.ev, !.att = c.att]]
  /\ UNCHANGED <<clock, tables, now, faults>>

EndTick(w) ==
  /\ batch[w] = {}
  /\ Goto(w, "next", "idle")
  /\ UNCHANGED <<clock, tables, now, batch, job, faults>>

-----------------------------------------------------------------------------
(* One attempt: processWebhookAttempt and finishAttempt *)

\* Mutant: one attempt too many.
AfterFailureLate(p, permanent) ==
  IF permanent \/ job[p].att > MaxAttempts THEN "bury" ELSE "backoff"

\* Where a failed attempt goes: a permanent failure or the last attempt is
\* dead-lettered, any other is scheduled again.
AfterFailure(p, permanent) ==
  IF permanent \/ job[p].att >= MaxAttempts THEN "bury" ELSE "backoff"

\* Mutant: an event found PROCESSED is replayed again.
LoadEventAnew(p) ==
  LET s == status[job[p].ev]
  IN  /\ Goto(p, "load",
              IF s \in {"REJECTED", "CONFLICT"} THEN "bury"
              ELSE IF s = "RECEIVED" THEN "mark"
              ELSE "replay")
      /\ UNCHANGED <<clock, tables, now, batch, job, faults>>

LoadEvent(p) ==
  LET s == status[job[p].ev]
  IN  /\ Goto(p, "load",
              IF s = "PROCESSED" THEN "succeed"
              ELSE IF s \in {"REJECTED", "CONFLICT"} THEN "bury"
              ELSE IF s = "RECEIVED" THEN "mark"
              ELSE "replay")
      /\ UNCHANGED <<clock, tables, now, batch, job, faults>>

\* markProcessing compares and sets; losing the race leads to a second look.
MarkProcessing(p) ==
  LET e == job[p].ev
  IN  /\ Goto(p, "mark", IF status[e] = "RECEIVED" THEN "replay" ELSE "recheck")
      /\ status' = [status EXCEPT ![e] = IF @ = "RECEIVED" THEN "PROCESSING"
                                                           ELSE @]
      /\ UNCHANGED <<clock, row, dead, payment, changes, now, batch, job, faults>>

\* Mutant: whoever lost the race takes the event for processed.
RecheckHopeful(p) ==
  /\ Goto(p, "recheck",
          IF status[job[p].ev] # "RECEIVED" THEN "succeed"
                                            ELSE AfterFailure(p, FALSE))
  /\ UNCHANGED <<clock, tables, now, batch, job, faults>>

Recheck(p) ==
  LET s == status[job[p].ev]
  IN  /\ Goto(p, "recheck",
              IF s = "PROCESSED" THEN "succeed"
              ELSE IF s = "PROCESSING" THEN "replay"
              ELSE AfterFailure(p, FALSE))
      /\ UNCHANGED <<clock, tables, now, batch, job, faults>>

\* listByPayment, the pure replay of what it returned, and the decision for
\* this event. The snapshot to be written is fixed here, one await before the
\* transaction that writes it.
ReplayLog(p) ==
  LET e == job[p].ev
      log == Log(PaymentOf[e])
      v == Verdict[log][e]
  IN  /\ Goto(p, "replay", IF v \in {"CONFLICT", "REJECTED"} THEN "park"
                                                             ELSE "commit")
      /\ job' = [job EXCEPT ![p].verdict = v,
                            ![p].pay = IF v = "ACCEPTED" THEN Snapshot[log]
                                                         ELSE NoSnapshot]
      /\ UNCHANGED <<clock, tables, now, batch, faults>>

\* The status update or the replay throws; classifyThrown sorts the error.
AttemptThrows(p) ==
  /\ pc[p] \in {"mark", "replay"}
  /\ \E permanent \in BOOLEAN :
       pc' = [pc EXCEPT ![p] = AfterFailure(p, permanent)]
  /\ UNCHANGED <<clock, tables, now, batch, job, faults>>

\* Mutant: the projection is written before the status is checked, outside the
\* transaction.
CommitPaymentFirst(p) ==
  LET e == job[p].ev
      moved == job[p].verdict = "ACCEPTED"
  IN  /\ pc[p] = "commit"
      /\ payment' = [payment EXCEPT ![PaymentOf[e]] =
                       IF moved THEN job[p].pay ELSE @]
      /\ IF MayWrite(e, "PROCESSED")
         THEN /\ pc' = [pc EXCEPT ![p] = "succeed"]
              /\ status' = [status EXCEPT ![e] = "PROCESSED"]
              /\ changes' = [changes EXCEPT ![e] = IF moved THEN @ + 1 ELSE @]
              /\ UNCHANGED <<batch, job>>
         ELSE Abandon(p) /\ UNCHANGED <<status, changes>>
      /\ UNCHANGED <<clock, row, dead, now, faults>>

\* persistOutcome("PROCESSED"): status, projection and audit in one
\* transaction, or INVALID_STATUS_TRANSITION out of the attempt. The
\* projection and the audit row are written also when the event already was
\* PROCESSED.
Commit(p) ==
  LET e == job[p].ev
      moved == job[p].verdict = "ACCEPTED"
  IN  /\ pc[p] = "commit"
      /\ IF MayWrite(e, "PROCESSED")
         THEN /\ pc' = [pc EXCEPT ![p] = "succeed"]
              /\ status' = [status EXCEPT ![e] = "PROCESSED"]
              /\ payment' = [payment EXCEPT ![PaymentOf[e]] =
                               IF moved THEN job[p].pay ELSE @]
              /\ changes' = [changes EXCEPT ![e] = IF moved THEN @ + 1 ELSE @]
              /\ UNCHANGED <<batch, job>>
         ELSE Abandon(p) /\ UNCHANGED <<status, payment, changes>>
      /\ UNCHANGED <<clock, row, dead, now, faults>>

\* persistOutcome("CONFLICT") or ("REJECTED").
Park(p) ==
  LET e == job[p].ev
      to == job[p].verdict
  IN  /\ pc[p] = "park"
      /\ IF MayWrite(e, to)
         THEN /\ pc' = [pc EXCEPT ![p] = "bury"]
              /\ status' = [status EXCEPT ![e] = to]
              /\ UNCHANGED <<batch, job>>
         ELSE Abandon(p) /\ UNCHANGED status
      /\ UNCHANGED <<clock, row, dead, payment, changes, now, faults>>

\* The three completions update the row by id alone: neither its status, its
\* attempt count nor its lease is compared with what the attempt claimed.
Complete(p, from, r) ==
  /\ Goto(p, from, Rest(p))
  /\ row' = [row EXCEPT ![job[p].ev] = r]
  /\ job' = [job EXCEPT ![p] = NoJob]
  /\ UNCHANGED <<clock, status, payment, changes, now, batch, faults>>

MarkSucceeded(p) ==
  /\ Complete(p, "succeed", [row[job[p].ev] EXCEPT !.status = "SUCCEEDED",
                                                   !.next = 0, !.lease = 0])
  /\ UNCHANGED dead

ScheduleRetry(p) ==
  /\ Complete(p, "backoff",
              [row[job[p].ev] EXCEPT
                 !.status = "RETRY_SCHEDULED",
                 !.next = now[p] + calculateRetryDelay(job[p].att),
                 !.lease = 0])
  /\ UNCHANGED dead

\* Mutant: the row is buried without a dead letter.
DeadLetterUnsent(p) ==
  /\ Complete(p, "bury", [row[job[p].ev] EXCEPT !.status = "DEAD_LETTERED",
                                                !.next = 0, !.lease = 0])
  /\ UNCHANGED dead

DeadLetter(p) ==
  /\ Complete(p, "bury", [row[job[p].ev] EXCEPT !.status = "DEAD_LETTERED",
                                                !.next = 0, !.lease = 0])
  /\ dead' = dead \cup {job[p].ev}

-----------------------------------------------------------------------------
Busy(p) == pc[p] \notin {"idle", "done"}

\* The process crashes, or a call whose error nobody classifies throws.
Fail(p) ==
  /\ Busy(p)
  /\ faults < MaxFaults
  /\ faults' = faults + 1
  /\ Abandon(p)
  /\ UNCHANGED <<clock, tables, now>>

Tick ==
  /\ clock < Horizon
  /\ clock' = clock + 1
  /\ UNCHANGED <<tables, pc, now, batch, job, faults>>

Deliver(r) ==
  \/ Receive(r) \/ Store(r)
  \/ EnsurePending(r) \/ CheckPending(r) \/ BeginAttempt(r)

RunTick(w) == StartTick(w) \/ ClaimDue(w) \/ TakeRecord(w) \/ EndTick(w)

Attempt(p) ==
  \/ LoadEvent(p) \/ MarkProcessing(p) \/ Recheck(p)
  \/ ReplayLog(p) \/ AttemptThrows(p)
  \/ Commit(p) \/ Park(p)
  \/ MarkSucceeded(p) \/ ScheduleRetry(p) \/ DeadLetter(p)

Next ==
  \/ \E r \in Request : Deliver(r)
  \/ \E w \in Worker : RunTick(w)
  \/ \E p \in Proc : Attempt(p) \/ Fail(p)
  \/ Tick

\* Any timing: an attempt may take longer than its lease.
Spec == Init /\ [][Next]_vars

\* The processes that hold a claim on an event: in a batch, or as the attempt
\* under way.
Attempting(p) ==
  pc[p] \in {"load", "mark", "recheck", "replay", "commit", "park", "succeed",
            "backoff", "bury"}

Holds(p, e) ==
  \/ Attempting(p) /\ job[p].ev = e
  \/ \E c \in batch[p] : c.ev = e

\* Leases are long enough: a request finishes its attempt, and a tick all of
\* its batch, before the lease taken at their start runs out.
Timely ==
  \A p \in Proc : (\E e \in Event : Holds(p, e)) => clock < now[p] + Lease

TimelySpec == Init /\ [][Next /\ Timely']_vars

\* The rows time has to pass for.
Waiting == {e \in Event : /\ row[e].status \notin Terminal \cup {"NONE"}
                         /\ ~Due(row[e], clock)}

LiveTick == Waiting # {} /\ Tick

\* Node runs what is runnable and ticks are scheduled for ever; nothing makes a
\* crash or a thrown error happen. Time passes when a row waits for it.
LiveSpec ==
  /\ Init
  /\ [][Next /\ (clock' # clock => Waiting # {})]_vars
  /\ \A r \in Request : WF_vars(Deliver(r) \/ Attempt(r))
  /\ \A w \in Worker : WF_vars(RunTick(w) \/ Attempt(w))
  /\ WF_vars(LiveTick)

-----------------------------------------------------------------------------
(* Properties *)

\* Where a process has no event in hand, and where it has.
HandsFree == {"idle", "done", "claim", "next"}

AtWork == {"store", "ensure", "check", "begin", "load", "mark", "recheck",
           "replay", "commit", "park", "succeed", "backoff", "bury"}

Projections == {Snapshot[log] : log \in SUBSET Event} \cup {NoSnapshot}

Row == [status : RetryStatuses \cup {"NONE"}, att : Nat, next : Nat, lease : Nat]

Job == [ev : Event \cup {"none"}, att : Nat,
        verdict : Decisions \cup {"none"}, pay : Projections]

\* Rows, statuses and jobs are what the schema and the types allow, and a
\* process at work has an event in hand.
TypeOK ==
  /\ clock \in Nat
  /\ status \in [Event -> Statuses \cup {"ABSENT"}]
  /\ row \in [Event -> Row]
  /\ dead \subseteq Event
  /\ payment \in [Payment -> Projections]
  /\ changes \in [Event -> Nat]
  /\ pc \in [Proc -> HandsFree \cup AtWork]
  /\ now \in [Proc -> Nat]
  /\ batch \in [Proc -> SUBSET Claim]
  /\ job \in [Proc -> Job]
  /\ \A p \in Proc : pc[p] \in AtWork => job[p].ev \in Event
  /\ faults \in Nat

\* A retry row is SUCCEEDED only when its event is PROCESSED: no mixture of
\* attempts, stale completions and crashes reports success for an event whose
\* outcome transaction did not commit.
SucceededMeansApplied ==
  \A e \in Event : row[e].status = "SUCCEEDED" => status[e] = "PROCESSED"

\* PROCESSED is final, for an overtaken attempt too.
AppliedIsFinal ==
  [][\A e \in Event : status[e] = "PROCESSED" => status'[e] = "PROCESSED"]_vars

\* What the payments table holds is never made up of a mixture: it is what some
\* set of stored events of that payment replays to, a set with an event that
\* is accepted there and whose own outcome is committed.
ProjectionHasCause ==
  \A p \in Payment :
    payment[p] # NoSnapshot =>
      \E log \in SUBSET Log(p) :
        /\ payment[p] = Snapshot[log]
        /\ \E e \in log : /\ Verdict[log][e] = "ACCEPTED"
                          /\ status[e] = "PROCESSED"
                          /\ changes[e] > 0

\* With leases that are long enough, an event is in one pair of hands: in one
\* batch or one attempt.
SingleHolder ==
  \A e \in Event : \A p, q \in Proc :
    Holds(p, e) /\ Holds(q, e) => p = q

\* With leases that are long enough, the dead-letter table and the retry rows
\* agree on what was given up: nothing is dead-lettered and succeeds later.
DeadLettersAgree == dead = {e \in Event : row[e].status = "DEAD_LETTERED"}

\* The phase of an event, for one who sees neither attempts nor leases.
phase ==
  [e \in Event |-> IF status[e] = "ABSENT" THEN "absent"
                   ELSE IF row[e].status = "DEAD_LETTERED" THEN "parked"
                   ELSE IF status[e] = "PROCESSED" THEN "applied"
                   ELSE "open"]

Lifecycle == INSTANCE EventLifecycle WITH effects <- changes

\* With leases that are long enough, the protocol implements EventLifecycle:
\* an event is applied once or dead-lettered, never both, whatever deliveries,
\* ticks, retries and crashes it takes.
ImplementsLifecycle == Lifecycle!Spec

\* With leases that are long enough, only a claim that was lost to a crash or a
\* thrown error is not counted against maxAttempts.
AttemptBudget == \A e \in Event : row[e].att <= MaxAttempts + faults

\* Once nobody works on a payment and each of its stored events is settled, the
\* durable projection is the replay of the whole log, whatever the order of
\* arrival and of the attempts.
SettledProjection ==
  \A p \in Payment :
    (/\ \A q \in Proc : job[q].ev \in Log(p) => ~Busy(q)
     /\ \A e \in Log(p) : status[e] \in {"PROCESSED", "CONFLICT"})
    => payment[p] = Snapshot[Log(p)]

\* Every row ends SUCCEEDED or DEAD_LETTERED and stays there.
RowsSettle ==
  \A e \in Event :
    row[e].status # "NONE" ~> [](row[e].status \in Terminal)

-----------------------------------------------------------------------------
(* What storage/README.md says of retries, and the code does not always do *)

\* "Failure must not mean event loss": a stored event is retried until its row
\* is terminal.
StoredEventsSettle ==
  \A e \in Event : status[e] # "ABSENT" ~> row[e].status \in Terminal
=============================================================================
