------------------------------ MODULE FailureLab ------------------------------
(***************************************************************************)
(* Scenario runs beside live traffic. A run of the Failure Lab, or of the  *)
(* simulate command, posts the scenario's deliveries one after the other   *)
(* through the ingest route with a process function of its own that fails  *)
(* on purpose, drains the retries of its payment by ticks at instants that *)
(* have not come yet, and reports what it finds stored. Meanwhile a live   *)
(* request and the retry worker use the same tables, and an operator may   *)
(* reset the lab.                                                          *)
(*                                                                         *)
(* An attempt is here in four steps (claim, work, commit, settle);         *)
(* RetryProtocol has each of its statements. ensurePending and             *)
(* beginAttempt are one step, so that no row is ever seen PENDING.         *)
(***************************************************************************)
EXTENDS Simulator, FiniteSetsExt, Functions

CONSTANTS
  Run,          \* scenario runs
  Plans,        \* what may go on at once: of, the scenario of each run, and
                \* whether there is live traffic, a worker and a reset
  MaxAttempts, BaseDelay, MaxDelay,   \* RetryPolicy of the API process
  Lease,        \* leaseMs
  Limit,        \* rows one tick claims at most
  Slack,        \* the longest an attempt may take
  Horizon,      \* bound on the clock
  Retention,    \* LAB_RUN_RETENTION
  MaxFaults     \* bound on crashes and live failures

NoRun == [kind |-> "none", id |-> "none"]

ASSUME FailureLabAssumption ==
  /\ Plans \subseteq
       [of : [Run -> [kind : {"lab"}, id : FAILURE_LAB_SCENARIO]
                       \cup [kind : {"simulate"}, id : DOMAIN SCENARIOS]
                       \cup {NoRun}],
        live : BOOLEAN, worker : BOOLEAN, reset : BOOLEAN]
  /\ {MaxAttempts, BaseDelay, MaxDelay, Lease, Limit, Slack, Horizon, Retention,
      MaxFaults} \subseteq Nat
  /\ Run \cap {"live", "worker", "none"} = {}

VARIABLES
  plan,       \* of this behaviour
  clock,      \* the wall clock, in seconds
  stored,     \* webhook_events, NoEvent without a row
  status,     \* its processing_status
  row,        \* webhook_retries, NoRow without one
  audit,      \* audit rows of each event, counted by type
  payment,    \* the state in the payments table, "NONE" without a row
  pc, hand,   \* next await of each process, and what it works on
  report,     \* what each run has reported
  runs,       \* labRuns: the runs whose reports are kept, oldest first
  reset,      \* how far the purge is
  scope,      \* the lab events it has selected
  gone,       \* their retry and audit rows, deleted but not committed
  strangers,  \* events claimed by another than their owner (not in the code)
  faults

tables == <<stored, status, row, audit, payment>>
purge == <<reset, scope, gone>>
vars == <<plan, clock, tables, pc, hand, report, runs, purge, strangers, faults>>

Proc == Run \cup {"live", "worker"}

Lab == {r \in Run : plan.of[r].kind = "lab"}

Simulated == {r \in Run : plan.of[r].kind = "simulate"}

\* What each process posts. The live request brings one creation.
Deliveries(p) ==
  CASE p \in Lab       -> labDeliveries(plan.of[p].id)
    [] p \in Simulated -> generateDeliveries(SCENARIOS[plan.of[p].id])
    [] p = "live"      -> generateDeliveries(RETRY_FAILURE)
    [] OTHER           -> << >>

Policy(p) ==
  IF p \in Simulated THEN SCENARIOS[plan.of[p].id].retry
  ELSE [max |-> MaxAttempts, base |-> BaseDelay, cap |-> MaxDelay, ticks |-> 0]

\* bindScenarioToLabRun: ids carry the run, so that no two runs share an event
\* or a payment.
EventsOf(p) == {<<p, d.id>> : d \in ToSet(Deliveries(p))}

\* The id of a row that is gone. Ids are drawn at random: what is stored later
\* under the same event id is another row.
Nowhere == <<"none", 0>>

Identity == {Nowhere} \cup UNION {EventsOf(p) : p \in Proc}

Account == UNION {{<<p, d.pay>> : d \in ToSet(Deliveries(p))} : p \in Proc}

\* The payment an event names, whether or not it is stored.
PayOf(id) ==
  (CHOOSE d \in ToSet(Deliveries(id[1])) : d.id = id[2]).pay

isFailureLabPaymentId(id) == id[1] \in Lab

Larger(a, b) == IF a > b THEN a ELSE b

NoEvent == event(0, 0, "none", 0)

NoRow == [status |-> "NONE", att |-> 0, next |-> 0, lease |-> 0, failed |-> FALSE]

AuditTypes ==
  {"WEBHOOK_RECEIVED", "WEBHOOK_DUPLICATE", "WEBHOOK_CONFLICT",
   "WEBHOOK_DELAYED", "PAYMENT_STATE_CHANGED", "RETRY_ATTEMPTED",
   "RETRY_SCHEDULED", "RETRY_SUCCEEDED", "RETRY_DEAD_LETTERED"}

NoAudit == [t \in AuditTypes |-> 0]

NoReport == [http |-> << >>]

NothingGone == [id \in {} |-> NoRow]

\* now: the instant a step works at; since: the clock when it was taken. A tick
\* has claimed batch; the attempt under way is on id.
Idle == [step |-> 0, replies |-> << >>, outcome |-> "none", now |-> 0,
         since |-> 0, ticking |-> FALSE, ticks |-> 0, thrown |-> 0,
         batch |-> {}, id |-> Nowhere, att |-> 0, again |-> FALSE,
         result |-> "none", state |-> "NONE"]

Init ==
  /\ plan \in Plans
  /\ clock = 0
  /\ stored = [id \in Identity |-> NoEvent]
  /\ status = [id \in Identity |-> "ABSENT"]
  /\ row = [id \in Identity |-> NoRow]
  /\ audit = [id \in Identity |-> NoAudit]
  /\ payment = [a \in Account |-> "NONE"]
  /\ pc = [p \in Proc |-> "idle"]
  /\ hand = [p \in Proc |-> Idle]
  /\ report = [r \in Run |-> NoReport]
  /\ runs = << >>
  /\ reset = "idle" /\ scope = {} /\ gone = NothingGone
  /\ strangers = {}
  /\ faults = 0

-----------------------------------------------------------------------------
Goto(p, from, to) ==
  /\ pc[p] = from
  /\ pc' = [pc EXCEPT ![p] = to]

Fault == faults < MaxFaults /\ faults' = faults + 1

Appended(id, types) ==
  [audit EXCEPT ![id] = [t \in AuditTypes |-> IF t \in types THEN @[t] + 1
                                                             ELSE @[t]]]

\* The simulate command runs on a clock that stands still.
Sampled(p) == IF p \in Simulated THEN 0 ELSE clock

\* After a delivery: the next one, or the retries are drained.
AfterReply(p) ==
  LET left == Len(Deliveries(p)) - hand[p].step
  IN  IF p = "live" THEN "done"
      ELSE IF left = 0 \/ (left = 1 /\ plan.of[p].id = "GOLDEN_DEMO") THEN "drain"
      ELSE "post"

Reply(p, http) ==
  /\ pc' = [pc EXCEPT ![p] = AfterReply(p)]
  /\ hand' = [hand EXCEPT ![p].replies = Append(@, http)]

\* Out of the attempt: the route answers 500; a tick, and a run with it, ends.
Thrown(p) ==
  CASE ~hand[p].ticking -> Reply(p, failed)
    [] hand[p].ticking -> /\ pc' = [pc EXCEPT ![p] = IF p = "worker" THEN "idle"
                                                                     ELSE "done"]
                          /\ hand' = [hand EXCEPT ![p] = Idle]

\* The purge holds the retry rows it has deleted until it commits.
Locked(id) == id \in DOMAIN gone /\ gone[id].row # NoRow

-----------------------------------------------------------------------------
(* The ingest route *)

Start(p) ==
  /\ Goto(p, "idle", "post")
  /\ IF p = "live" THEN plan.live ELSE p \in Lab \cup Simulated
  /\ UNCHANGED <<plan, clock, tables, hand, report, runs, purge, strangers,
                 faults>>

Post(p) ==
  LET d == Deliveries(p)[hand[p].step + 1]
      id == <<p, d.id>>
      outcome == IF stored[id] = NoEvent THEN "STORED"
                 ELSE IF stored[id] = d THEN "DUPLICATE" ELSE "CONFLICT"
  IN  /\ hand[p].step + 1 \in DOMAIN Deliveries(p)
      /\ Goto(p, "post", IF outcome = "CONFLICT" THEN "observe" ELSE "ensure")
      /\ stored' = [stored EXCEPT ![id] = IF @ = NoEvent THEN d ELSE @]
      /\ status' = [status EXCEPT ![id] = IF @ = "ABSENT" THEN "RECEIVED" ELSE @]
      /\ audit' = Appended(id, {CASE outcome = "STORED"    -> "WEBHOOK_RECEIVED"
                                  [] outcome = "DUPLICATE" -> "WEBHOOK_DUPLICATE"
                                  [] OTHER                 -> "WEBHOOK_CONFLICT"})
      /\ hand' = [hand EXCEPT ![p].step = @ + 1, ![p].id = id,
                              ![p].outcome = outcome, ![p].now = Sampled(p),
                              ![p].since = clock]
      /\ UNCHANGED <<plan, clock, row, payment, report, runs, purge, strangers,
                     faults>>

\* Mutant: the claim moves the row and leaves the lease as it was.
ClaimedUnleased(r, t) == [r EXCEPT !.status = "PROCESSING", !.att = @ + 1]

Claimed(r, t) ==
  [r EXCEPT !.status = "PROCESSING", !.att = @ + 1, !.lease = t + Lease]

\* ensurePending and beginAttempt. A retry row needs its event.
Ensure(p) ==
  LET id == hand[p].id
  IN  /\ pc[p] = "ensure" /\ ~Locked(id)
      /\ \/ /\ stored[id] = NoEvent
            /\ Thrown(p)
            /\ UNCHANGED row
         \/ /\ stored[id] # NoEvent
            /\ row[id] # NoRow
            /\ pc' = [pc EXCEPT ![p] = "observe"]
            /\ UNCHANGED <<row, hand>>
         \/ /\ stored[id] # NoEvent
            /\ row[id] = NoRow
            /\ row' = [row EXCEPT ![id] =
                         Claimed([@ EXCEPT !.next = hand[p].now], hand[p].now)]
            /\ pc' = [pc EXCEPT ![p] = "work"]
            /\ hand' = [hand EXCEPT ![p].att = 1, ![p].again = FALSE]
      /\ UNCHANGED <<plan, clock, stored, status, audit, payment, report, runs,
                     purge, strangers, faults>>

\* The answer, once the row is read.
Observe(p) ==
  /\ pc[p] = "observe"
  /\ Reply(p, IF hand[p].outcome = "CONFLICT" THEN refused
              ELSE IF hand[p].outcome = "DUPLICATE" THEN duplicate
              ELSE IF row[hand[p].id].status = "RETRY_SCHEDULED" THEN failed
              ELSE accepted)
  /\ UNCHANGED <<plan, clock, tables, report, runs, purge, strangers, faults>>

-----------------------------------------------------------------------------
(* A tick: claimDue at the instant the process works at *)

Lapsed(r, t) == r.status = "PROCESSING" /\ r.lease <= t

Due(r, t) ==
  \/ r.status = "RETRY_SCHEDULED" /\ r.next <= t
  \/ Lapsed(r, t)

\* A tick with nothing due would do nothing.
StartTick ==
  /\ plan.worker
  /\ \E id \in Identity : Due(row[id], clock)
  /\ Goto("worker", "idle", "tick")
  /\ hand' = [hand EXCEPT !["worker"] =
                [Idle EXCEPT !.ticking = TRUE, !.now = clock, !.since = clock]]
  /\ UNCHANGED <<plan, clock, tables, report, runs, purge, strangers, faults>>

\* Whoever's rows they are; locked ones are skipped.
ClaimDue(p) ==
  LET due == {id \in Identity : Due(row[id], hand[p].now) /\ ~Locked(id)}
  IN  /\ Goto(p, "tick", "next")
      /\ \E S \in SUBSET due :
           /\ Cardinality(S) <= Limit
           /\ Cardinality(S) < Limit => S = due
           /\ \A i \in S, j \in due \ S : row[i].next <= row[j].next
           /\ row' = [id \in Identity |->
                        IF id \in S THEN Claimed(row[id], hand[p].now)
                                    ELSE row[id]]
           /\ hand' = [hand EXCEPT ![p].batch =
                         {[id |-> id, att |-> row[id].att + 1,
                           again |-> row[id].att > 0 \/ row[id].failed] :
                            id \in S}]
           /\ strangers' = strangers \cup {id \in S : id[1] # p}
      /\ UNCHANGED <<plan, clock, stored, status, audit, payment, report, runs,
                     purge, faults>>

TakeRecord(p) ==
  /\ Goto(p, "next", "work")
  /\ \E c \in hand[p].batch :
       hand' = [hand EXCEPT ![p].batch = @ \ {c}, ![p].id = c.id,
                            ![p].att = c.att, ![p].again = c.again]
  /\ UNCHANGED <<plan, clock, tables, report, runs, purge, strangers, faults>>

EndTick(p) ==
  /\ hand[p].batch = {}
  /\ Goto(p, "next", IF p = "worker" THEN "idle" ELSE "drain")
  /\ hand' = [hand EXCEPT ![p] = IF p = "worker" THEN Idle
                                 ELSE [@ EXCEPT !.ticking = FALSE]]
  /\ UNCHANGED <<plan, clock, tables, report, runs, purge, strangers, faults>>

-----------------------------------------------------------------------------
(* The attempt *)

\* Mutant: whatever the run processes may be made to fail.
InjectsAnywhere(p, id) ==
  LET n == hand[p].thrown + 1
      plain == plan.of[p].id
  IN  \/ p \in Lab /\ \/ failureModeForLab(plain) = "FAIL_ONCE" /\ n = 1
                      \/ failureModeForLab(plain) = "ALWAYS_FAIL"
      \/ p \in Simulated /\ n <= SCENARIOS[plain].failure.upTo

\* createLabProcessFn and createSimulatorProcessFn: whether the attempt is made
\* to throw. The lab's touches lab payments only, but any run's.
Injects(p, id) ==
  \/ /\ p \in Lab
     /\ isFailureLabPaymentId(id)
     /\ \/ failureModeForLab(plan.of[p].id) = "ALWAYS_FAIL"
        \/ failureModeForLab(plan.of[p].id) = "FAIL_ONCE" /\ hand[p].thrown = 0
  \/ /\ p \in Simulated
     /\ LET failure == SCENARIOS[plan.of[p].id].failure
        IN  failure.kind = "EXHAUST_RETRIES" \/ hand[p].thrown < failure.upTo

\* processPaymentEvents: the decision on an event, and where its payment is.
Replayed(id) ==
  LET log == {stored[i] : i \in {j \in Identity :
                /\ j[1] = id[1]
                /\ stored[j] # NoEvent /\ stored[j].pay = stored[id].pay}}
      r == replayEvents(SetToSeq(log), stored[id].pay)
      k == CHOOSE n \in DOMAIN r.ordered : r.ordered[n] = stored[id]
  IN  [decision |-> r.decisions[k].decision, state |-> r.payment.state]

Attempted(p, result, state) ==
  hand' = [hand EXCEPT ![p].result = result, ![p].state = state,
                       ![p].thrown = IF Injects(p, hand[p].id) THEN @ + 1 ELSE @]

\* processWebhookAttempt.
Work(p) ==
  LET id == hand[p].id
      open == status[id] \in {"RECEIVED", "PROCESSING"}
  IN  /\ Goto(p, "work", "commit")
      /\ audit' = IF hand[p].again /\ status[id] # "ABSENT"
                  THEN Appended(id, {"RETRY_ATTEMPTED"}) ELSE audit
      /\ status' = IF open THEN [status EXCEPT ![id] = "PROCESSING"] ELSE status
      /\ \/ /\ ~open
            /\ hand' = [hand EXCEPT ![p].result =
                          CASE status[id] = "PROCESSED" -> "already"
                            [] status[id] = "ABSENT"    -> "lost"
                            [] OTHER                    -> "permanent"]
            /\ UNCHANGED faults
         \/ /\ open /\ Injects(p, id)
            /\ Attempted(p, "failed", "NONE")
            /\ UNCHANGED faults
         \/ /\ open /\ ~Injects(p, id) /\ id[1] = "live"
            /\ Fault
            /\ Attempted(p, "failed", "NONE")
         \/ /\ open /\ ~Injects(p, id)
            /\ Attempted(p, Replayed(id).decision, Replayed(id).state)
            /\ UNCHANGED faults
      /\ UNCHANGED <<plan, clock, stored, row, payment, report, runs, purge,
                     strangers>>

\* finishAttempt: the status the retry row ends in.
AttemptStatus(p) ==
  CASE hand[p].result \in {"already", "ACCEPTED", "DELAYED", "DUPLICATE"}
         -> "SUCCEEDED"
    [] hand[p].result \in {"CONFLICT", "REJECTED", "permanent", "lost"}
         -> "DEAD_LETTERED"
    [] OTHER
         -> IF hand[p].att >= Policy(p).max THEN "DEAD_LETTERED"
                                            ELSE "RETRY_SCHEDULED"

Drafts(p) ==
  LET decided ==
        CASE hand[p].result = "ACCEPTED" -> {"PAYMENT_STATE_CHANGED"}
          [] hand[p].result = "DELAYED"  -> {"WEBHOOK_DELAYED"}
          [] hand[p].result = "CONFLICT" -> {"WEBHOOK_CONFLICT"}
          [] OTHER                       -> {}
  IN  IF hand[p].result = "lost" THEN {}
      ELSE decided \cup (IF AttemptStatus(p) = "DEAD_LETTERED"
                         THEN {"RETRY_DEAD_LETTERED"} ELSE {})

AllDrafts(p) ==
  Drafts(p) \cup (IF hand[p].again /\ AttemptStatus(p) = "SUCCEEDED"
                  THEN {"RETRY_SUCCEEDED"} ELSE {})

TerminalStatus(p) ==
  CASE hand[p].result \in {"ACCEPTED", "DELAYED", "DUPLICATE"} -> "PROCESSED"
    [] hand[p].result \in {"CONFLICT", "REJECTED"} -> hand[p].result
    [] OTHER -> status[hand[p].id]

\* Where the event must be to go to a terminal status.
FROM_STATUS(to) ==
  IF to = "CONFLICT" THEN {"RECEIVED", "PROCESSING", "REJECTED", "CONFLICT"}
                     ELSE {"PROCESSING"}

\* persistOutcome, which needs the event where it was or where it goes; or the
\* drafts alone where nothing was decided, which need the event.
Commit(p) ==
  LET id == hand[p].id
      to == TerminalStatus(p)
      lost == IF hand[p].result \in DecisionKinds
              THEN status[id] \notin FROM_STATUS(to) \cup {to}
              ELSE AllDrafts(p) # {} /\ status[id] = "ABSENT"
  IN  /\ pc[p] = "commit"
      /\ IF lost
         THEN Thrown(p) /\ UNCHANGED <<status, payment, audit>>
         ELSE /\ pc' = [pc EXCEPT ![p] = "settle"]
              /\ status' = [status EXCEPT ![id] = to]
              /\ payment' = IF hand[p].result = "ACCEPTED"
                            THEN [payment EXCEPT ![<<id[1], PayOf(id)>>] =
                                    hand[p].state]
                            ELSE payment
              /\ audit' = Appended(id, AllDrafts(p))
              /\ UNCHANGED hand
      /\ UNCHANGED <<plan, clock, stored, row, report, runs, purge, strangers,
                     faults>>

calculateRetryDelay(policy, attempt) ==
  LET delay == policy.base * 2 ^ (attempt - 1)
  IN  IF delay < policy.cap THEN delay ELSE policy.cap

\* markSucceeded, deadLetter or scheduleRetry: by id alone, if it is there.
Settle(p) ==
  LET id == hand[p].id
      outcome == AttemptStatus(p)
  IN  /\ pc[p] = "settle"
      /\ ~Locked(id)
      /\ IF row[id] = NoRow
         THEN Thrown(p) /\ UNCHANGED <<row, audit>>
         ELSE /\ pc' = [pc EXCEPT ![p] = IF hand[p].ticking THEN "next"
                                                            ELSE "observe"]
              /\ row' = [row EXCEPT
                   ![id].status = outcome,
                   ![id].lease = 0,
                   ![id].next = IF outcome = "RETRY_SCHEDULED"
                                THEN hand[p].now
                                       + calculateRetryDelay(Policy(p), hand[p].att)
                                ELSE 0,
                   ![id].failed = @ \/ outcome # "SUCCEEDED"]
              /\ audit' = IF outcome = "RETRY_SCHEDULED" /\ stored[id] # NoEvent
                          THEN Appended(id, {"RETRY_SCHEDULED"}) ELSE audit
              /\ UNCHANGED hand
      /\ UNCHANGED <<plan, clock, stored, status, payment, report, runs, purge,
                     strangers, faults>>

-----------------------------------------------------------------------------
(* The end of a run *)

Own(p) == {id \in EventsOf(p) : stored[id] # NoEvent}

\* Mutant: nothing but the end of its retries ends a run.
DrainUntilSettled(p) ==
  LET open == \E id \in Own(p) : row[id].status \in {"RETRY_SCHEDULED", "PROCESSING"}
  IN  /\ p \in Lab
      /\ Goto(p, "drain", IF open THEN "tick" ELSE "report")
      /\ hand' = [hand EXCEPT ![p].ticking = open, ![p].now = clock,
                              ![p].since = clock]
      /\ UNCHANGED <<plan, clock, tables, report, runs, purge, strangers, faults>>

\* Mutant: ticks that come late enough to find every lease run out.
DrainLate(p) ==
  LET due == {id \in Own(p) : row[id].status = "RETRY_SCHEDULED"}
      left == hand[p].step < Len(Deliveries(p))
  IN  /\ p \in Lab
      /\ \/ /\ hand[p].ticks < MaxAttempts + 2
            /\ due # {}
            /\ Goto(p, "drain", "tick")
            /\ \E id \in due :
                 hand' = [hand EXCEPT ![p].ticking = TRUE, ![p].ticks = @ + 1,
                            ![p].now = Larger(row[id].next, clock) + Lease,
                            ![p].since = clock]
         \/ /\ hand[p].ticks >= MaxAttempts + 2 \/ due = {}
            /\ Goto(p, "drain", IF left THEN "post" ELSE "report")
            /\ hand' = [hand EXCEPT ![p].ticks = 0]
      /\ UNCHANGED <<plan, clock, tables, report, runs, purge, strangers, faults>>

\* drainLabRetries: ticks at the instant the first scheduled retry of the run's
\* own is due at, which need not have come, as long as there is one.
Drain(p) ==
  LET due == {id \in Own(p) : row[id].status = "RETRY_SCHEDULED"}
      left == hand[p].step < Len(Deliveries(p))
  IN  /\ p \in Lab
      /\ \/ /\ hand[p].ticks < MaxAttempts + 2
            /\ due # {}
            /\ Goto(p, "drain", "tick")
            /\ \E id \in due :
                 hand' = [hand EXCEPT ![p].ticking = TRUE, ![p].ticks = @ + 1,
                            ![p].now = Larger(row[id].next, clock),
                            ![p].since = clock]
         \/ /\ hand[p].ticks >= MaxAttempts + 2 \/ due = {}
            /\ Goto(p, "drain", IF left THEN "post" ELSE "report")
            /\ hand' = [hand EXCEPT ![p].ticks = 0]
      /\ UNCHANGED <<plan, clock, tables, report, runs, purge, strangers, faults>>

\* The simulate command runs the ticks its scenario lists, whatever is due.
DrainSimulated(p) ==
  LET retry == SCENARIOS[plan.of[p].id].retry
  IN  /\ p \in Simulated
      /\ \/ /\ hand[p].ticks < retry.ticks
            /\ Goto(p, "drain", "tick")
            /\ hand' = [hand EXCEPT ![p].ticking = TRUE, ![p].ticks = @ + 1,
                            ![p].now = retry.base * 2 ^ hand[p].ticks,
                            ![p].since = clock]
         \/ /\ hand[p].ticks = retry.ticks
            /\ Goto(p, "drain", "report")
            /\ UNCHANGED hand
      /\ UNCHANGED <<plan, clock, tables, report, runs, purge, strangers, faults>>

\* retainLabRuns.
Retained(s) ==
  IF Len(s) > Retention THEN SubSeq(s, Len(s) - Retention + 1, Len(s)) ELSE s

Told(p, type) == SumFunctionOnSet([id \in Identity |-> audit[id][type]], EventsOf(p))

\* composeFailureLabReport, and the end of runScenario: what is stored by now.
Report(p) ==
  LET accounts == {<<p, d.pay>> : d \in ToSet(Deliveries(p))}
      attempted == {id \in Own(p) : row[id] # NoRow}
      latest == CHOOSE id \in attempted : \A j \in attempted : j[2] <= id[2]
  IN  /\ Goto(p, "report", "done")
      /\ report' = [report EXCEPT ![p] =
           [http |-> hand[p].replies,
            stored |-> Cardinality(Own(p)),
            transitions |-> Told(p, "PAYMENT_STATE_CHANGED"),
            payments |-> [n \in 1..Cardinality(accounts) |-> payment[<<p, n>>]],
            audit |-> {t \in AuditTypes : Told(p, t) > 0},
            delayed |-> Told(p, "WEBHOOK_DELAYED"),
            retry |-> IF attempted = {} THEN "NONE" ELSE row[latest].status]]
      /\ runs' = IF p \in Lab THEN Retained(Append(runs, p)) ELSE runs
      /\ hand' = [hand EXCEPT ![p] = Idle]
      /\ UNCHANGED <<plan, clock, tables, purge, strangers, faults>>

-----------------------------------------------------------------------------
(* The reset: purgeSyntheticFailureLab, one READ COMMITTED transaction *)

PurgeSelect ==
  /\ plan.reset
  /\ reset = "idle" /\ reset' = "children"
  /\ scope' = {id \in Identity : isFailureLabPaymentId(id) /\ stored[id] # NoEvent}
  /\ UNCHANGED <<plan, clock, tables, pc, hand, report, runs, gone, strangers,
                 faults>>

\* Retry rows of the events selected, audit rows of any lab payment.
PurgeChildren ==
  /\ reset = "children" /\ reset' = "parents"
  /\ gone' = [id \in {i \in Identity : isFailureLabPaymentId(i)} |->
                [row |-> IF id \in scope THEN row[id] ELSE NoRow,
                 audit |-> audit[id]]]
  /\ UNCHANGED <<plan, clock, tables, pc, hand, report, runs, scope, strangers,
                 faults>>

\* Retry and audit rows that came after the deletes.
LaterRow(id) == gone[id].row = NoRow /\ row[id] # NoRow

LaterAudit(id) == [t \in AuditTypes |-> audit[id][t] - gone[id].audit[t]]

\* Whoever has the id of a row in hand has the id of none once it is gone.
Forgotten(id) == IF id \in scope THEN Nowhere ELSE id

\* What the commit leaves of the tables: the events selected go, with whatever
\* was deleted before, and every lab payment.
Purged ==
  /\ stored' = [id \in Identity |-> IF id \in scope THEN NoEvent ELSE stored[id]]
  /\ status' = [id \in Identity |-> IF id \in scope THEN "ABSENT" ELSE status[id]]
  /\ row' = [id \in Identity |-> IF Locked(id) THEN NoRow ELSE row[id]]
  /\ audit' = [id \in Identity |-> IF id \in DOMAIN gone THEN LaterAudit(id)
                                                         ELSE audit[id]]
  /\ payment' = [a \in Account |-> IF isFailureLabPaymentId(a) THEN "NONE"
                                                              ELSE payment[a]]
  /\ hand' = [p \in Proc |->
                [hand[p] EXCEPT !.id = Forgotten(@),
                                !.batch = {[c EXCEPT !.id = Forgotten(@)] : c \in @}]]

\* Mutant: whatever refers to the events goes with them.
PurgeParentsCascading ==
  /\ reset = "parents" /\ reset' = "done"
  /\ Purged
  /\ runs' = << >>
  /\ gone' = NothingGone
  /\ UNCHANGED <<plan, clock, pc, report, scope, strangers, faults>>

\* A retry or audit row that came meanwhile keeps the event it refers to, and
\* the transaction fails.
PurgeParents ==
  /\ reset = "parents"
  /\ IF \E id \in scope : LaterRow(id) \/ LaterAudit(id) # NoAudit
     THEN reset' = "failed" /\ UNCHANGED <<tables, hand, runs>>
     ELSE /\ reset' = "done"
          /\ Purged
          /\ runs' = << >>
  /\ gone' = NothingGone
  /\ UNCHANGED <<plan, clock, pc, report, scope, strangers, faults>>

-----------------------------------------------------------------------------
(* Crashes and time *)

Idling == {"idle", "done"}

\* The API process goes, with the runs and reports in it and a purge that has
\* not committed. The worker and the simulate command are other processes.
Crash ==
  /\ Fault
  /\ \E p \in Lab \cup {"live"} : pc[p] \notin Idling
  /\ pc' = [p \in Proc |-> IF p \in Lab \cup {"live"} /\ pc[p] # "idle"
                          THEN "done" ELSE pc[p]]
  /\ hand' = [p \in Proc |-> IF p \in Lab \cup {"live"} THEN Idle ELSE hand[p]]
  /\ runs' = << >>
  /\ reset' = IF reset \in {"children", "parents"} THEN "failed" ELSE reset
  /\ gone' = NothingGone
  /\ UNCHANGED <<plan, clock, tables, report, scope, strangers>>

\* Nobody takes longer than Slack over a request or a tick.
Tick ==
  /\ clock < Horizon
  /\ \A p \in Proc : pc[p] \notin Idling \cup {"post", "drain", "report"} =>
                      clock < hand[p].since + Slack
  /\ clock' = clock + 1
  /\ UNCHANGED <<plan, tables, pc, hand, report, runs, purge, strangers, faults>>

-----------------------------------------------------------------------------
ProcessAttempt(p) == Work(p) \/ Commit(p) \/ Settle(p)

Act(p) ==
  \/ Start(p) \/ Post(p) \/ Ensure(p) \/ Observe(p)
  \/ ClaimDue(p) \/ TakeRecord(p) \/ EndTick(p) \/ ProcessAttempt(p)

Next ==
  \/ \E p \in Proc : Act(p)
  \/ StartTick
  \/ \E r \in Run : Drain(r) \/ DrainSimulated(r) \/ Report(r)
  \/ PurgeSelect \/ PurgeChildren \/ PurgeParents
  \/ Crash
  \/ Tick

Points == Idling \cup {"post", "ensure", "work", "commit", "settle", "observe",
                      "drain", "tick", "next", "report"}

\* Each step of a process changes pc there and nowhere else.
Moves(p) ==
  /\ pc[p] \notin Idling
  /\ \E to \in Points \ {pc[p]} : pc' = [pc EXCEPT ![p] = to]

PurgeMoves ==
  reset \in {"children", "parents"} /\ reset' \in {"parents", "done", "failed"}

\* What has been started goes on; a purge that has begun ends.
Spec ==
  /\ Init
  /\ [][Next]_vars
  /\ \A p \in Proc : WF_pc(Moves(p))
  /\ WF_reset(PurgeMoves)

-----------------------------------------------------------------------------
(* Properties *)

TypeOK ==
  /\ clock \in 0..Horizon
  /\ status \in [Identity -> {"ABSENT", "RECEIVED", "PROCESSING", "PROCESSED",
                              "CONFLICT", "REJECTED"}]
  /\ DOMAIN row = Identity
  /\ \A id \in Identity :
       /\ row[id].status \in {"NONE", "PROCESSING", "RETRY_SCHEDULED",
                              "SUCCEEDED", "DEAD_LETTERED"}
       /\ row[id].att \in Nat
  /\ audit \in [Identity -> [AuditTypes -> Nat]]
  /\ DOMAIN stored = Identity /\ DOMAIN payment = Account
  /\ pc \in [Proc -> Points]
  /\ \A p \in Proc : pc[p] \in {"tick", "next"} => hand[p].ticking
  /\ runs \in Seq(Lab) /\ Len(runs) <= Retention
  /\ scope \subseteq Identity /\ DOMAIN gone \subseteq Identity

Undisturbed(r) == strangers \cap EventsOf(r) = {} /\ faults = 0 /\ reset = "idle"

\* A scenario that nobody disturbs does what it demonstrates: the report of a
\* lab run or of the simulate command shows the answers, the events, audit
\* rows, payments and retries its catalog promises, whatever else is going on
\* at the same time.
ReportsMatch ==
  \A r \in Lab \cup Simulated :
    LET promised == IF r \in Lab THEN labExpected(plan.of[r].id)
                    ELSE SCENARIOS[plan.of[r].id].expected
        unsaid == promised.retry = "unsaid"
    IN  report[r] # NoReport /\ Undisturbed(r) =>
          report[r] = IF unsaid THEN [promised EXCEPT !.retry = report[r].retry]
                      ELSE promised

\* The lab keeps to itself (docs/failure-lab.md: a non-lab webhook "cannot
\* activate injection"): neither the failures it injects nor its ticks ahead of time take a live
\* event an attempt, and its reset leaves what the event led to. Of a reset
\* during a tick the attempts are not claimed: it ends the tick, and the
\* attempts on the live rows the tick has claimed with it.
LiveUnharmed ==
  \A id \in EventsOf("live") :
    /\ reset # "done" => row[id].att <= 1 + faults
    /\ status[id] = "PROCESSED" =>
         /\ payment[<<"live", 1>>] = "CREATED"
         /\ audit[id]["PAYMENT_STATE_CHANGED"] = 1
         /\ row[id] # NoRow

\* Who is to process an event, or has claimed it to do so.
Attempting == {"work", "commit", "settle"}

Holds(p, id) ==
  \/ pc[p] \in Attempting /\ hand[p].id = id
  \/ \E c \in hand[p].batch : c.id = id

\* No tick comes so late, or works at an instant so far ahead, that it finds an
\* attempt under way past its lease.
LeasesOutlast ==
  \A p, q \in Proc : \A id \in Identity :
    pc[p] = "tick" /\ Holds(q, id) => ~Lapsed(row[id], hand[p].now)

\* However an event is processed, by its request, by the worker, by the ticks
\* of its own run and of others at once, it takes effect once
\* (docs/golden-demo.md: one "PAYMENT_STATE_CHANGED").
OneEffect ==
  \A id \in Identity :
    audit[id]["PAYMENT_STATE_CHANGED"] + audit[id]["WEBHOOK_DELAYED"] <= 1

\* A reset in the middle of a run leaves nothing behind that refers to an event
\* that is gone.
NothingStray ==
  /\ \A id \in Identity :
       stored[id] = NoEvent => row[id] = NoRow /\ audit[id] = NoAudit
  /\ \A a \in Account :
       payment[a] # "NONE" =>
         \E id \in EventsOf(a[1]) : stored[id] # NoEvent /\ PayOf(id) = a[2]

\* A run that was started ends, whoever takes its rows: the drain gives up.
RunsEnd == \A r \in Run : pc[r] = "post" ~> pc[r] = "done"
=============================================================================
