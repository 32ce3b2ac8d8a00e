-------------------------------- MODULE Ingest --------------------------------
(***************************************************************************)
(* POST /webhooks/:provider from the first byte to the answer, with what a *)
(* delivery leaves behind: the stored event, its retry row, audit rows,    *)
(* exceptions and the counters of the API process. Providers says what a   *)
(* delivery is, Detection which exceptions it raises, Replay what the      *)
(* payment's log makes of it. The provider sends again what was not        *)
(* answered with 200, and need not wait for the answer to do so.           *)
(*                                                                         *)
(* One action is one database statement or transaction. RetryProtocol has  *)
(* the attempt in finer steps, with time, leases that run out and the      *)
(* payments table; here leases last, a row with a past lease is one nobody *)
(* holds, and the reads of an attempt are one step.                        *)
(***************************************************************************)
EXTENDS Detection, Providers, FiniteSets

CONSTANTS
  Request,      \* requests the API process serves at once
  Worker,       \* retry workers
  Delivery,     \* what providers and others may send
  Content,      \* Content[d]: the delivery's bytes and headers, see Providers
  Traffics,     \* what may be sent together: a set of deliveries, a bound on
                \* how often each is sent and one on crashes and on
                \* statements that throw
  MaxAttempts   \* RetryPolicy

ASSUME IngestAssumption ==
  /\ Request \cap Worker = {} /\ IsFiniteSet(Request) /\ IsFiniteSet(Worker)
  /\ Traffics \subseteq [of : SUBSET Delivery, sends : Nat, faults : Nat]
  /\ \A t \in Traffics : IsFiniteSet(t.of)
  /\ MaxAttempts \in Nat \ {0}

\* A payload's flaws are checks it fails, text that is no JSON, or a date that
\* only the database refuses. Three digits of a fraction are what SortKey tells
\* apart.
ASSUME ContentAssumption ==
  \A d \in Delivery :
    /\ Content[d].age \in Int
    /\ Content[d].at \in [sec : Int, frac : Seq(0..9)]
    /\ Len(Content[d].at.frac) <= 3
    /\ Content[d].flaws \subseteq
         {check[1] : check \in ToSet(Checks(Content[d]))}
           \cup {"syntax", "calendar"}

VARIABLES
  traffic,    \* of this behaviour
  event,      \* webhook_events, NoEvent without a row
  status,     \* its processing_status
  row,        \* webhook_retries; failed: last_error_code is set
  audit,      \* audit rows of each stored event, counted by type
  rejected,   \* deliveries with a WEBHOOK_REJECTED audit row
  raised,     \* the exceptions table: <<code, subject>>
  metrics,    \* counters of the API process
  accepted,   \* 200s answered since the process started (not in the code)
  sends, answers,   \* what the provider has sent and been told
  pc, hand,   \* next await of each process, and what it works on
  faults

tables == <<event, status, row, audit, rejected, raised>>
counters == <<metrics, accepted>>
outside == <<sends, answers>>
vars == <<traffic, tables, counters, outside, pc, hand, faults>>

-----------------------------------------------------------------------------
(* What the pure part of the handler says of each delivery *)

\* Refused for its media type or its size, unlogged and uncounted.
early(c) ==
  IF ~c.json THEN 415
  ELSE IF c.declared > MaxBodyBytes \/ c.size > MaxBodyBytes THEN 413
  ELSE 0

\* verify, JSON.parse and normalize: the answer a refusal leads to, who refuses
\* and why. Anything but a WebhookError from the adapter is a 500.
screen(c) ==
  LET v == verify(c)
      e == IF "syntax" \in c.flaws THEN "INVALID_PAYLOAD" ELSE validate(c)
  IN  IF v # "VERIFIED"
      THEN [http |-> CASE v = "UNSUPPORTED_PROVIDER" -> 404
                       [] v = "MALFORMED_SIGNATURE"  -> 400
                       [] OTHER                      -> 401,
            by |-> "verifier", code |-> v]
      ELSE IF e = "none" THEN [http |-> 0, by |-> "none", code |-> "none"]
      ELSE [http |-> IF e \in WEBHOOK_ERROR_CODE THEN 400 ELSE 500,
            by |-> "adapter", code |-> e]

\* A well-formed instant that no calendar has, or an amount beyond bigint.
Unstorable(c) == "calendar" \in c.flaws \/ c.amount > MaxAmount

\* The same for the deliveries at hand, worked out once.
Early == [d \in Delivery |-> early(Content[d])]

Screen == [d \in Delivery |-> screen(Content[d])]

Id == [d \in Delivery |-> webhookIdentity(Content[d])]

Refuses == {d \in Delivery : Unstorable(Content[d])}

\* Deliveries the store can keep.
Kept == {d \in Delivery : Early[d] = 0 /\ Screen[d].http = 0} \ Refuses

Event ==
  [d \in {x \in Delivery : Screen[x].http = 0} |-> normalize(Content[d])]

Proc == Request \cup Worker

Busy(p) == pc[p] # "idle"

Identity == {Id[d] : d \in traffic.of}

NoEvent == [id |-> 0, pay |-> "none", type |-> "none", at |-> 0,
            body |-> [amount |-> 0, currency |-> "none", hash |-> << >>]]

AuditTypes ==
  {"WEBHOOK_RECEIVED", "WEBHOOK_DUPLICATE", "WEBHOOK_CONFLICT",
   "WEBHOOK_DELAYED", "PAYMENT_STATE_CHANGED", "RETRY_ATTEMPTED",
   "RETRY_SCHEDULED", "RETRY_SUCCEEDED", "RETRY_DEAD_LETTERED"}

RUNTIME_METRIC_NAMES ==
  {"webhooksReceived", "webhooksRejected", "duplicates", "conflicts",
   "processingFailures", "retryAttempts", "deadLetterEvents"}

NoCause == [by |-> "none", code |-> "none", met |-> NoMeeting, last |-> FALSE]

Idle == [d |-> "none", id |-> << >>, stored |-> "none", again |-> FALSE,
         cause |-> NoCause]

Init ==
  /\ traffic \in Traffics
  /\ event = [id \in Identity |-> NoEvent]
  /\ status = [id \in Identity |-> "ABSENT"]
  /\ row = [id \in Identity |-> [status |-> "NONE", att |-> 0, failed |-> FALSE]]
  /\ audit = [id \in Identity |-> [t \in AuditTypes |-> 0]]
  /\ rejected = {}
  /\ raised = {}
  /\ metrics = [m \in RUNTIME_METRIC_NAMES |-> 0]
  /\ accepted = 0
  /\ sends = [d \in traffic.of |-> 0]
  /\ answers = [d \in traffic.of |-> {}]
  /\ pc = [p \in Proc |-> "idle"]
  /\ hand = [p \in Proc |-> Idle]
  /\ faults = 0

-----------------------------------------------------------------------------
(* Steps the actions are made of *)

Goto(p, from, to) ==
  /\ pc[p] = from
  /\ pc' = [pc EXCEPT ![p] = to]

Counted(m) == [metrics EXCEPT ![m] = @ + 1]

\* The process lets go of what it worked on.
Leave(p) ==
  /\ pc' = [pc EXCEPT ![p] = "idle"]
  /\ hand' = [hand EXCEPT ![p] = Idle]

Answer(r, http) ==
  /\ Leave(r)
  /\ answers' = [answers EXCEPT ![hand[r].d] = @ \cup {http}]
  /\ accepted' = IF http = 200 THEN accepted + 1 ELSE accepted
  /\ UNCHANGED sends

\* Out of the attempt: a request answers 500, a tick ends.
Thrown(p) ==
  IF p \in Request
  THEN Answer(p, 500) /\ metrics' = Counted("processingFailures")
  ELSE Leave(p) /\ UNCHANGED <<counters, outside>>

Fault == faults < traffic.faults /\ faults' = faults + 1

\* An X-Request-Id is taken as it comes, and createAuditEvent and
\* createException refuse one that is not an identifier. A worker takes the
\* correlation id from the audit rows there are, or makes one up.
Unfit(p) == p \in Request /\ ~Content[hand[p].d].rid

\* A write whose failure is swallowed is lost to a bad id or a fault.
Swallowing(p, lost) ==
  /\ Unfit(p) => lost
  /\ IF lost /\ ~Unfit(p) THEN Fault ELSE UNCHANGED faults

\* Audit rows of an event, one more of each of the types.
Appended(id, types) ==
  [audit EXCEPT ![id] = [t \in AuditTypes |-> IF t \in types THEN @[t] + 1
                                                             ELSE @[t]]]

\* What recordExceptionsSafely saves.
Raised(cause, subject) == raised \cup (detectException(Facts(cause)) \X {subject})

Happened(by, code) == [NoCause EXCEPT !.by = by, !.code = code]

\* A stored event with the payment the delivery names for it.
Subject(id, d) == <<id, Content[d].pay>>

\* What a delivery that is not stored is known by.
Correlation(d) == <<<<"request", 0>>, d>>

-----------------------------------------------------------------------------
(* Before the store *)

\* Whether the provider sends d (again), to a request that is free.
Sends(r, d) ==
  /\ pc[r] = "idle"
  /\ d \in traffic.of
  /\ sends[d] < traffic.sends
  /\ 200 \notin answers[d]
  /\ sends' = [sends EXCEPT ![d] = @ + 1]

TurnAway(r, d) ==
  /\ Sends(r, d)
  /\ Early[d] # 0
  /\ answers' = [answers EXCEPT ![d] = @ \cup {Early[d]}]
  /\ UNCHANGED <<traffic, tables, counters, pc, hand, faults>>

Receive(r, d) ==
  LET s == Screen[d]
  IN  /\ Sends(r, d)
      /\ Early[d] = 0
      /\ IF s.http = 500
         THEN /\ metrics' = [Counted("webhooksReceived")
                               EXCEPT !["processingFailures"] = @ + 1]
              /\ answers' = [answers EXCEPT ![d] = @ \cup {500}]
              /\ UNCHANGED <<pc, hand>>
         ELSE /\ metrics' = Counted("webhooksReceived")
              /\ Goto(r, "idle", IF s.http = 0 THEN "store" ELSE "refuse")
              /\ hand' = [hand EXCEPT ![r] =
                            [Idle EXCEPT !.d = d,
                               !.id = Id[d],
                               !.cause = Happened(s.by, s.code)]]
              /\ UNCHANGED answers
      /\ UNCHANGED <<traffic, tables, accepted, faults>>

\* recordRejection.
Refuse(r) ==
  /\ Goto(r, "refuse", "report")
  /\ \E lost \in BOOLEAN :
       /\ Swallowing(r, lost)
       /\ rejected' = IF lost THEN rejected ELSE rejected \cup {hand[r].d}
  /\ UNCHANGED <<traffic, event, status, row, audit, raised, counters, outside,
                 hand>>

\* Mutant: what the adapter refuses is not counted.
ReportUncounted(r) ==
  /\ pc[r] = "report"
  /\ \E lost \in BOOLEAN :
       /\ Swallowing(r, lost)
       /\ raised' = IF lost THEN raised
                    ELSE Raised(hand[r].cause, Correlation(hand[r].d))
  /\ metrics' = IF hand[r].cause.by = "adapter" THEN metrics
                ELSE Counted("webhooksRejected")
  /\ Answer(r, Screen[hand[r].d].http)
  /\ UNCHANGED <<traffic, event, status, row, audit, rejected>>

\* recordIngestExceptions, the counter and the answer. Only an unverified
\* signature counts as rejected.
Report(r) ==
  /\ pc[r] = "report"
  /\ \E lost \in BOOLEAN :
       /\ Swallowing(r, lost)
       /\ raised' = IF lost THEN raised
                    ELSE Raised(hand[r].cause, Correlation(hand[r].d))
  /\ metrics' = Counted(IF /\ hand[r].cause.by = "verifier"
                           /\ hand[r].cause.code # "UNSUPPORTED_PROVIDER"
                        THEN "webhooksRejected" ELSE "processingFailures")
  /\ Answer(r, Screen[hand[r].d].http)
  /\ UNCHANGED <<traffic, event, status, row, audit, rejected>>

-----------------------------------------------------------------------------
(* The store and the receipt *)

StoreOutcome(id, e) ==
  IF status[id] = "ABSENT" THEN "STORED"
  ELSE IF event[id].body.hash = e.body.hash THEN "DUPLICATE"
  ELSE "CONFLICT"

Store(r) ==
  LET id == hand[r].id
      e == Event[hand[r].d]
  IN  /\ Goto(r, "store", "receipt")
      /\ hand[r].d \notin Refuses
      /\ event' = [event EXCEPT ![id] = IF @ = NoEvent THEN e ELSE @]
      /\ status' = [status EXCEPT ![id] = IF @ = "ABSENT" THEN "RECEIVED" ELSE @]
      /\ hand' = [hand EXCEPT ![r].stored = StoreOutcome(id, e)]
      /\ UNCHANGED <<traffic, row, audit, rejected, raised, counters, outside,
                     faults>>

\* The database refuses the row: 500, now and whenever it is sent again.
StoreThrows(r) ==
  /\ pc[r] = "store"
  /\ hand[r].d \in Refuses
  /\ Thrown(r)
  /\ UNCHANGED <<traffic, tables, faults>>

\* Mutant: every delivery of a stored event is received anew.
ReceiptTypeReceived(outcome) ==
  IF outcome = "CONFLICT" THEN "WEBHOOK_CONFLICT" ELSE "WEBHOOK_RECEIVED"

ReceiptType(outcome) ==
  CASE outcome = "STORED"    -> "WEBHOOK_RECEIVED"
    [] outcome = "DUPLICATE" -> "WEBHOOK_DUPLICATE"
    [] outcome = "CONFLICT"  -> "WEBHOOK_CONFLICT"

Receipt(r) ==
  LET outcome == hand[r].stored
  IN  /\ Goto(r, "receipt", IF outcome = "CONFLICT" THEN "conflict" ELSE "ensure")
      /\ \E lost \in BOOLEAN :
           /\ Swallowing(r, lost)
           /\ audit' = IF lost THEN audit
                       ELSE Appended(hand[r].id, {ReceiptType(outcome)})
      /\ metrics' = IF outcome = "DUPLICATE" THEN Counted("duplicates")
                    ELSE metrics
      /\ UNCHANGED <<traffic, event, status, row, rejected, raised, accepted,
                     outside, hand>>

ReportConflict(r) ==
  /\ pc[r] = "conflict"
  /\ \E lost \in BOOLEAN :
       /\ Swallowing(r, lost)
       /\ raised' = IF lost THEN raised
                    ELSE Raised(Happened("store", "CONFLICT"),
                                Subject(hand[r].id, hand[r].d))
  /\ metrics' = Counted("conflicts")
  /\ Answer(r, 409)
  /\ UNCHANGED <<traffic, event, status, row, audit, rejected>>

-----------------------------------------------------------------------------
(* The attempt *)

\* While it holds the row, and with what follows.
HoldPoints == {"announce", "work", "commit", "settle"}
AttemptPoints == HoldPoints \cup {"tell", "raise"}

Points ==
  {"idle", "refuse", "report", "store", "receipt", "conflict", "ensure", "begin",
   "observe"} \cup AttemptPoints

Holds(p, id) == pc[p] \in HoldPoints /\ hand[p].id = id

\* Mutant: only a delivery that was stored just now gets a retry row.
EnsureFreshOnly(r) ==
  LET id == hand[r].id
      fresh == row[id].status = "NONE" /\ hand[r].stored = "STORED"
  IN  /\ Goto(r, "ensure",
              IF fresh \/ row[id].status = "PENDING" THEN "begin" ELSE "observe")
      /\ row' = [row EXCEPT ![id].status = IF fresh THEN "PENDING" ELSE @]
      /\ UNCHANGED <<traffic, event, status, audit, rejected, raised, counters,
                     outside, hand, faults>>

\* ensurePending: only a PENDING row is attempted by the request.
Ensure(r) ==
  LET id == hand[r].id
  IN  /\ Goto(r, "ensure", IF row[id].status \in {"NONE", "PENDING"} THEN "begin"
                                                                   ELSE "observe")
      /\ row' = [row EXCEPT ![id].status = IF @ = "NONE" THEN "PENDING" ELSE @]
      /\ UNCHANGED <<traffic, event, status, audit, rejected, raised, counters,
                     outside, hand, faults>>

\* The claim beginAttempt and claimDue make.
Claims(p, id) ==
  /\ row' = [row EXCEPT ![id].status = "PROCESSING", ![id].att = @ + 1]
  /\ hand' = [hand EXCEPT ![p].id = id,
                          ![p].again = row[id].att > 0 \/ row[id].failed]

\* A row that was scheduled again in the meantime may be due.
Begin(r) ==
  LET id == hand[r].id
  IN  /\ \/ /\ Goto(r, "begin", "announce")
            /\ row[id].status \in {"PENDING", "RETRY_SCHEDULED"}
            /\ Claims(r, id)
            /\ metrics' = IF row[id].att > 0 THEN Counted("retryAttempts")
                                             ELSE metrics
         \/ /\ Goto(r, "begin", "observe")
            /\ row[id].status # "PENDING"
            /\ UNCHANGED <<row, hand, metrics>>
      /\ UNCHANGED <<traffic, event, status, audit, rejected, raised, accepted,
                     outside, faults>>

\* claimDue takes it. Every scheduled row is due sooner or later.
Due(id) ==
  \/ row[id].status \in {"PENDING", "RETRY_SCHEDULED"}
  \/ row[id].status = "PROCESSING" /\ \A p \in Proc : ~Holds(p, id)

\* One record of a tick.
Claim(w) ==
  /\ Goto(w, "idle", "announce")
  /\ \E id \in Identity :
       /\ Due(id)
       /\ Claims(w, id)
  /\ UNCHANGED <<traffic, event, status, audit, rejected, raised, counters,
                 outside, faults>>

Announce(p) ==
  /\ pc[p] = "announce"
  /\ IF hand[p].again /\ Unfit(p)
     THEN Thrown(p) /\ UNCHANGED audit
     ELSE /\ Goto(p, "announce", "work")
          /\ audit' = IF hand[p].again
                      THEN Appended(hand[p].id, {"RETRY_ATTEMPTED"}) ELSE audit
          /\ UNCHANGED <<counters, outside, hand>>
  /\ UNCHANGED <<traffic, event, status, row, rejected, raised, faults>>

\* listByPayment: the stored events of the payment id at this provider.
Log(id) ==
  {i \in Identity : /\ status[i] # "ABSENT"
                    /\ i[1] = id[1]
                    /\ event[i].pay = event[id].pay}

\* processPaymentEvents: how the replay of a log meets each of its events.
Meet(log, e) ==
  LET r == replayEvents(SetToSeq(log), e.pay)
      k == CHOOSE n \in DOMAIN r.ordered : r.ordered[n] = e
  IN  MeetingOf(r.decisions[k], e.type)

Meets ==
  [log \in UNION {SUBSET {Event[d] : d \in t.of \cap Kept} : t \in Traffics} |->
     [e \in log |-> Meet(log, e)]]

Meeting(id) == Meets[{event[i] : i \in Log(id)}][event[id]]

Attempted(p, code, met) ==
  hand' = [hand EXCEPT ![p].cause =
             [by |-> "attempt", code |-> code, met |-> met,
              last |-> row[hand[p].id].att >= MaxAttempts]]

\* processWebhookAttempt. Whatever one of its statements throws that is no
\* permanent failure is a temporary one.
Work(p) ==
  LET id == hand[p].id
      open == status[id] \in {"RECEIVED", "PROCESSING"}
  IN  /\ Goto(p, "work", "commit")
      /\ \/ /\ status[id] = "PROCESSED"
            /\ Attempted(p, "none", NoMeeting)
            /\ UNCHANGED <<status, faults>>
         \/ /\ status[id] = "CONFLICT"
            /\ Attempted(p, "PERMANENT_CONFLICT", NoMeeting)
            /\ UNCHANGED <<status, faults>>
         \/ /\ open
            /\ status' = [status EXCEPT ![id] = "PROCESSING"]
            /\ Attempted(p, DecisionCode(Meeting(id)), Meeting(id))
            /\ UNCHANGED faults
         \/ /\ open
            /\ Fault
            /\ \E s \in {status[id], "PROCESSING"} :
                 status' = [status EXCEPT ![id] = s]
            /\ Attempted(p, "TEMPORARY_DATABASE_FAILURE", NoMeeting)
      /\ UNCHANGED <<traffic, event, row, audit, rejected, raised, counters,
                     outside>>

\* outcomeDraftsFromDecision.
DecisionDrafts(met) ==
  IF met = NoMeeting THEN {}
  ELSE CASE Decision(met) = "ACCEPTED"  -> {"PAYMENT_STATE_CHANGED"}
         [] Decision(met) = "DELAYED"   -> {"WEBHOOK_DELAYED"}
         [] Decision(met) = "CONFLICT"  -> {"WEBHOOK_CONFLICT"}
         [] OTHER                       -> {}

\* The drafts of a finished attempt.
Drafts(p) ==
  LET outcome == AttemptStatus(hand[p].cause)
  IN  CASE outcome = "SUCCEEDED" ->
             DecisionDrafts(hand[p].cause.met)
               \cup (IF hand[p].again THEN {"RETRY_SUCCEEDED"} ELSE {})
        [] outcome = "DEAD_LETTERED" ->
             DecisionDrafts(hand[p].cause.met) \cup {"RETRY_DEAD_LETTERED"}
        [] OTHER -> {}

TerminalStatus(met) ==
  IF Decision(met) = "CONFLICT" THEN "CONFLICT" ELSE "PROCESSED"

\* Mutant: the status and the drafts are two transactions.
CommitSplit(p) ==
  LET id == hand[p].id
      met == hand[p].cause.met
  IN  /\ pc[p] = "commit"
      /\ IF met # NoMeeting /\ status[id] = "PROCESSING"
         THEN /\ status' = [status EXCEPT ![id] = TerminalStatus(met)]
              /\ UNCHANGED <<pc, audit, counters, outside, hand>>
         ELSE /\ Goto(p, "commit", "settle")
              /\ audit' = Appended(id, Drafts(p))
              /\ UNCHANGED <<status, counters, outside, hand>>
      /\ UNCHANGED <<traffic, event, row, rejected, raised, faults>>

\* The outcome transaction, or where no decision was made the drafts alone. As
\* long as leases last nobody else has moved the status.
Commit(p) ==
  LET id == hand[p].id
      met == hand[p].cause.met
  IN  /\ pc[p] = "commit"
      /\ IF Drafts(p) # {} /\ Unfit(p)
         THEN Thrown(p) /\ UNCHANGED <<status, audit>>
         ELSE /\ Goto(p, "commit", "settle")
              /\ status' = [status EXCEPT ![id] = IF met = NoMeeting THEN @
                                                  ELSE TerminalStatus(met)]
              /\ audit' = Appended(id, Drafts(p))
              /\ UNCHANGED <<counters, outside, hand>>
      /\ UNCHANGED <<traffic, event, row, rejected, raised, faults>>

\* markSucceeded, deadLetter or scheduleRetry.
Settle(p) ==
  LET outcome == AttemptStatus(hand[p].cause)
  IN  /\ Goto(p, "settle", IF outcome = "RETRY_SCHEDULED" THEN "tell" ELSE "raise")
      /\ row' = [row EXCEPT ![hand[p].id].status = outcome,
                            ![hand[p].id].failed = outcome # "SUCCEEDED" \/ @]
      /\ metrics' = IF outcome = "DEAD_LETTERED" /\ p \in Request
                    THEN Counted("deadLetterEvents") ELSE metrics
      /\ UNCHANGED <<traffic, event, status, audit, rejected, raised, accepted,
                     outside, hand, faults>>

Tell(p) ==
  /\ pc[p] = "tell"
  /\ IF Unfit(p)
     THEN Thrown(p) /\ UNCHANGED audit
     ELSE /\ Goto(p, "tell", "raise")
          /\ audit' = Appended(hand[p].id, {"RETRY_SCHEDULED"})
          /\ UNCHANGED <<counters, outside, hand>>
  /\ UNCHANGED <<traffic, event, status, row, rejected, raised, faults>>

\* Mutant: only a scheduled retry raises an exception.
RaiseScheduled(p) ==
  LET id == hand[p].id
  IN  /\ pc[p] = "raise"
      /\ \E lost \in BOOLEAN :
           /\ Swallowing(p, lost)
           /\ raised' = IF lost \/ row[id].status # "RETRY_SCHEDULED" THEN raised
                        ELSE Raised(hand[p].cause, <<id, event[id].pay>>)
      /\ IF p \in Request
         THEN Goto(p, "raise", "observe") /\ UNCHANGED hand ELSE Leave(p)
      /\ UNCHANGED <<traffic, event, status, row, audit, rejected, counters,
                     outside>>

\* recordAttemptExceptions.
Raise(p) ==
  LET id == hand[p].id
  IN  /\ pc[p] = "raise"
      /\ \E lost \in BOOLEAN :
           /\ Swallowing(p, lost)
           /\ raised' = IF lost THEN raised
                        ELSE Raised(hand[p].cause, <<id, event[id].pay>>)
      /\ IF p \in Request
         THEN Goto(p, "raise", "observe") /\ UNCHANGED hand ELSE Leave(p)
      /\ UNCHANGED <<traffic, event, status, row, audit, rejected, counters,
                     outside>>

\* The row is read and the delivery answered; for a duplicate its exception
\* comes first, and the answer is 200 whatever the row says.
Observe(r) ==
  LET duplicate == hand[r].stored = "DUPLICATE"
      failed == ~duplicate /\ row[hand[r].id].status = "RETRY_SCHEDULED"
  IN  /\ pc[r] = "observe"
      /\ \E lost \in BOOLEAN :
           /\ lost => duplicate
           /\ IF duplicate THEN Swallowing(r, lost) ELSE UNCHANGED faults
           /\ raised' = IF lost \/ ~duplicate THEN raised
                        ELSE Raised(Happened("store", "DUPLICATE"),
                                    Subject(hand[r].id, hand[r].d))
      /\ metrics' = IF failed THEN Counted("processingFailures") ELSE metrics
      /\ Answer(r, IF failed THEN 500 ELSE 200)
      /\ UNCHANGED <<traffic, event, status, row, audit, rejected>>

-----------------------------------------------------------------------------
(* Faults *)

\* A statement whose error is not swallowed throws; a worker may also crash.
Throw(p) ==
  /\ Fault
  /\ \/ pc[p] \in AttemptPoints \ {"raise"}
     \/ p \in Request /\ pc[p] \in {"store", "ensure", "begin"}
     \/ p \in Worker /\ pc[p] = "raise"
  /\ Thrown(p)
  /\ UNCHANGED <<traffic, tables>>

\* The API process crashes with its requests and counters.
Crash ==
  /\ Fault
  /\ \E r \in Request : pc[r] # "idle"
  /\ pc' = [p \in Proc |-> IF p \in Request THEN "idle" ELSE pc[p]]
  /\ hand' = [p \in Proc |-> IF p \in Request THEN Idle ELSE hand[p]]
  /\ metrics' = [m \in RUNTIME_METRIC_NAMES |-> 0]
  /\ accepted' = 0
  /\ UNCHANGED <<traffic, tables, outside>>

-----------------------------------------------------------------------------
FinishAttempt(p) ==
  \/ Announce(p) \/ Work(p) \/ Commit(p) \/ Settle(p) \/ Tell(p) \/ Raise(p)

Handle(r) ==
  \/ Refuse(r) \/ Report(r)
  \/ Store(r) \/ StoreThrows(r) \/ Receipt(r) \/ ReportConflict(r)
  \/ Ensure(r) \/ Begin(r) \/ FinishAttempt(r) \/ Observe(r)

\* Which of the free requests serves a delivery makes no difference.
Deliver(d) ==
  \E r \in Request :
    /\ r = CHOOSE q \in Request :
             (\E f \in Request : pc[f] = "idle") => pc[q] = "idle"
    /\ TurnAway(r, d) \/ Receive(r, d)

Next ==
  \/ \E d \in Delivery : Deliver(d)
  \/ \E r \in Request : Handle(r)
  \/ \E w \in Worker : Claim(w) \/ FinishAttempt(w)
  \/ \E p \in Proc : Throw(p)
  \/ Crash

\* What a process with something to do does next. Each of its steps changes pc
\* there and nowhere else, so that fairness may be stated of pc alone.
Moves(p) ==
  /\ Busy(p) \/ (p \in Worker /\ \E id \in Identity : Due(id))
  /\ \E to \in Points \ {pc[p]} : pc' = [pc EXCEPT ![p] = to]

\* Requests are served, ticks are scheduled for ever, and a provider goes on
\* sending what was not acknowledged.
Spec ==
  /\ Init
  /\ [][Next]_vars
  /\ WF_sends(\E r \in Request, d \in Delivery : Sends(r, d))
  /\ \A p \in Proc : WF_pc(Moves(p))

-----------------------------------------------------------------------------
(* Properties *)

\* Where a process is decides what it has in hand; a row under way is
\* PROCESSING until its attempt settles it, and nobody else attempts it.
TypeOK ==
  /\ status \in [Identity -> {"ABSENT", "RECEIVED", "PROCESSING", "PROCESSED",
                              "CONFLICT"}]
  /\ row \in [Identity -> [status : {"NONE", "PENDING", "PROCESSING",
                                     "RETRY_SCHEDULED", "SUCCEEDED",
                                     "DEAD_LETTERED"},
                           att : Nat, failed : BOOLEAN]]
  /\ audit \in [Identity -> [AuditTypes -> Nat]]
  /\ \A x \in raised : /\ x[1] \in ExceptionCodes
                       /\ \E d \in traffic.of :
                            x[2] \in {Correlation(d),
                                     Subject(Id[d], d)}
  /\ metrics \in [RUNTIME_METRIC_NAMES -> Nat]
  /\ pc \in [Proc -> Points]
  /\ \A p \in Proc :
       /\ Busy(p) <=> hand[p] # Idle
       /\ pc[p] \in HoldPoints =>
            row[hand[p].id].status = "PROCESSING"
       /\ \A q \in Proc : Holds(p, hand[p].id) /\ Holds(q, hand[p].id) => p = q

\* What an event says, whatever its spelling.
Meaning(e) == <<e.id, e.pay, e.type, e.at, e.body.amount, e.body.currency>>

Says(d) == Meaning(Event[d])

\* A delivery answered with 200 is in safe hands: an event that says what it
\* says is stored, with a retry row, so that the provider may forget it
\* (apps/api/README.md: 200 means the "webhook row is durable").
AcknowledgedIsTracked ==
  \A d \in traffic.of :
    200 \in answers[d] => /\ event[Id[d]] # NoEvent
                          /\ Meaning(event[Id[d]]) = Says(d)
                          /\ row[Id[d]].status # "NONE"

\* The digits an event's instant is written with count as material.
Digits(e) == Len(e.body.hash[5].frac)

\* A delivery is refused as a conflict only where it says something else than
\* the event that is stored, or writes its instant with fewer or more digits:
\* the spelling of its currency, its offset and the way it came do not matter.
ConflictsDiffer ==
  \A d \in traffic.of :
    409 \in answers[d] => \/ Meaning(event[Id[d]]) # Says(d)
                         \/ Digits(event[Id[d]]) # Digits(Event[d])

\* What the provider is told is true (http/webhooks.ts, respond).
AnswersAreTrue == AcknowledgedIsTracked /\ ConflictsDiffer

\* Nothing that is forged, stale, malformed or unsupported gets into the log:
\* every stored event is what an authentic, well-formed delivery said.
OnlyAuthenticStored ==
  \A id \in Identity :
    event[id] # NoEvent =>
      \E d \in traffic.of :
        LET c == Content[d]
        IN  /\ webhookIdentity(c) = id /\ event[id] = normalize(c)
            /\ c.sig = "genuine" /\ c.flaws = {}
            /\ c.provider = "SYNTHETIC" =>
                 c.age \in -ToleranceSeconds..ToleranceSeconds

\* The audit trail tells an event's fate exactly: one row for its transition or
\* delay, from the moment it is PROCESSED and never without it, and the end of
\* a retry, whatever crashes and repeated attempts led there.
AuditTellsOutcome ==
  \A id \in Identity :
    LET told == audit[id]
    IN  /\ told["PAYMENT_STATE_CHANGED"] + told["WEBHOOK_DELAYED"]
             = IF status[id] = "PROCESSED" THEN 1 ELSE 0
        /\ status[id] = "CONFLICT" => told["WEBHOOK_CONFLICT"] > 0
        /\ row[id].status = "SUCCEEDED" /\ row[id].att > 1 =>
             told["RETRY_SUCCEEDED"] > 0
        /\ row[id].status = "DEAD_LETTERED" => told["RETRY_DEAD_LETTERED"] > 0

\* What one fault may take with it: a crash, the writes of every request.
Losses == faults * Cardinality(Proc)

\* The receipt of an event is on record once at most, and missing only for a
\* fault or a request id the audit refuses.
ReceivedOnce ==
  LET pending(id) == {r \in Request : /\ pc[r] = "receipt"
                                      /\ hand[r].id = id
                                      /\ hand[r].stored = "STORED"}
      missing == {id \in Identity : /\ event[id] # NoEvent
                                    /\ audit[id]["WEBHOOK_RECEIVED"] = 0
                                    /\ pending(id) = {}}
  IN  /\ \A id \in Identity :
           audit[id]["WEBHOOK_RECEIVED"] + Cardinality(pending(id)) <= 1
      /\ Cardinality(missing)
           <= Losses + Cardinality({d \in traffic.of : ~Content[d].rid})

\* Whatever was given up is on the operators' list as an ERROR at least, unless
\* a fault lost the record.
DeadLettersAreRaised ==
  LET unseen ==
        {id \in Identity :
           /\ row[id].status = "DEAD_LETTERED"
           /\ \A p \in Proc : ~(pc[p] = "raise" /\ hand[p].id = id)
           /\ \A x \in raised :
                x[2][1] = id =>
                  severityForExceptionCode(x[1]) \notin {"ERROR", "CRITICAL"}}
  IN  Cardinality(unseen) <= Losses

\* The counters of the API process add up: every delivery it has counted as
\* received is refused, a conflict, a failure, acknowledged or in progress.
CountersBalance ==
  metrics["webhooksReceived"] =
    metrics["webhooksRejected"] + metrics["conflicts"]
      + metrics["processingFailures"] + accepted
      + Cardinality({r \in Request : Busy(r)})

\* Where the provider goes on sending for longer than things fail, an authentic
\* event is stored and settled: a crash between the store and the retry row,
\* which leaves an event that no worker finds, is made good by the next
\* delivery.
RedeliverySettles ==
  traffic.sends > traffic.faults * Cardinality(Request) ~>
    \A d \in traffic.of \cap Kept :
      row[Id[d]].status \in {"SUCCEEDED", "DEAD_LETTERED"}
=============================================================================
