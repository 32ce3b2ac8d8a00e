-------------------------------- MODULE Console --------------------------------
(***************************************************************************)
(* Operators looking into exceptions: the browser's exception and incident *)
(* pages, the API's investigation and timeline routes, and the two tables  *)
(* they share, investigations and the audit trail, to which the pipeline   *)
(* keeps adding. Investigator says what an answer may be, Timeline what a  *)
(* chronology shows. An action is one statement of the API or one callback *)
(* of a page.                                                              *)
(*                                                                         *)
(* One payment, whose webhooks are Hooks in the order of provider time; a  *)
(* delivery's correlation id is its webhook's number, and 0 is an id that  *)
(* a request made up for itself.                                           *)
(***************************************************************************)
EXTENDS Investigator, Timeline, FiniteSets, FiniteSetsExt

CONSTANTS
  Request,      \* investigations the API serves at once
  Tab,          \* browser tabs, numbered from 1: 0 is a caller without a page
  Story,        \* Story[e]: the code of exception e, whether it names the
                \* payment, its webhook or 0, and its correlation id
  Hooks,        \* the payment's webhooks, [id, received]
  Plans,        \* how a behaviour starts and what may happen in it, see Plan
  MaxWebhooks, MaxRetries, MaxAudit,   \* MAX_INVESTIGATION_*
  TimelineLimit                        \* TIMELINE_DEFAULT_LIMIT

\* Deliveries of a webhook that is stored already, and the ends of an attempt:
\* the decision is ACCEPTED or DELAYED, the webhook is PROCESSED already, the
\* attempt has failed and another one is scheduled, or there is none left.
Receipts == {"duplicate", "conflict"}

Ends == {"applied", "delayed", "found", "postponed", "exhausted"}

RETRY_STATUSES ==
  {"PENDING", "PROCESSING", "RETRY_SCHEDULED", "SUCCEEDED", "DEAD_LETTERED"}

Over == {"SUCCEEDED", "DEAD_LETTERED"}

\* The audit rows one of which tells how it came to that.
Telling(status) ==
  IF status = "SUCCEEDED"
  THEN {"PAYMENT_STATE_CHANGED", "WEBHOOK_DELAYED", "RETRY_SUCCEEDED"}
  ELSE {"RETRY_DEAD_LETTERED"}

AUDIT_EVENT_TYPES ==
  {"WEBHOOK_RECEIVED", "WEBHOOK_REJECTED", "WEBHOOK_DUPLICATE",
   "WEBHOOK_CONFLICT", "PAYMENT_STATE_CHANGED", "WEBHOOK_DELAYED",
   "RETRY_SCHEDULED", "RETRY_ATTEMPTED", "RETRY_SUCCEEDED",
   "RETRY_DEAD_LETTERED", "EXCEPTION_DETECTED", "EXCEPTION_STATUS_CHANGED",
   "WEBHOOK_CONFLICT_DETECTED", "INVALID_TRANSITION_DETECTED",
   "RETRY_EXHAUSTED", "INVESTIGATION_RECORDED"}

Plan ==
  [of : SUBSET DOMAIN Story,             \* exceptions there are
   by : {"stub", "openai", "unavailable"},
   retry : [1..Len(Hooks) -> [status : RETRY_STATUSES \cup {"NONE"},
                              att : Nat]],
   past : Seq([type : AUDIT_EVENT_TYPES \ {"INVESTIGATION_RECORDED"},
               hook : 0..Len(Hooks), corr : Nat, pay : BOOLEAN]),
   moves : SUBSET ((Receipts \cup Ends) \X (1..Len(Hooks)) \X {0, 1}),
   pages : SUBSET {"exception", "incident"},
   asks : Nat, echoes : Nat, opens : Nat, ticks : Nat, faults : Nat,
   calm : {TRUE}]                         \* nothing has failed so far

EXCEPTION_CODES ==
  {"INVALID_SIGNATURE", "MALFORMED_WEBHOOK", "UNSUPPORTED_EVENT",
   "CONFLICTING_EVENT", "INVALID_STATE_TRANSITION", "PROCESSING_FAILURE",
   "RETRY_EXHAUSTED", "OUT_OF_ORDER_EVENT", "MISSING_EVENT", "DUPLICATE_EVENT"}

ASSUME ConsoleAssumption ==
  /\ {MaxWebhooks, MaxRetries, MaxAudit, TimelineLimit} \subseteq Nat \ {0}
  /\ Tab \subseteq Nat \ {0}
  /\ Hooks \in Seq([id : DOMAIN Hooks, received : Nat])
  /\ {Hooks[h].id : h \in DOMAIN Hooks} = DOMAIN Hooks
  /\ Story \in Seq([code : EXCEPTION_CODES, pay : BOOLEAN, hook : 0..Len(Hooks),
                   corr : Nat])
  /\ Plans \subseteq Plan
  \* what is over at the start has been told
  /\ \A p \in Plans : \A h \in DOMAIN Hooks :
       p.retry[h].status \in Over =>
         \E i \in DOMAIN p.past :
           /\ p.past[i].hook = h /\ p.past[i].pay
           /\ p.past[i].type \in Telling(p.retry[h].status)

VARIABLES
  plan,       \* of this behaviour; its counters are what is left of each
  clock,
  retry,      \* each webhook's retry row: status, "NONE" without one, and
              \* attempts
  attempts,   \* attempts under way
  audit,      \* audit_events, in the order of insertion
  records,    \* investigations, each with the evidence it was made from
  pc, hand,   \* next await of each request, and what it works on
  tabs,       \* the page of each tab and its state
  mounts,     \* components mounted so far
  echoed      \* correlation ids a caller has sent (not in the code)

store == <<retry, attempts, audit, records>>
pages == <<tabs, mounts>>
server == <<pc, hand, echoed>>
vars == <<plan, clock, store, pages, server>>

-----------------------------------------------------------------------------
(* The tables *)

Row(type, hook, pay, corr, at, about) ==
  [type |-> type, hook |-> hook, pay |-> pay, corr |-> corr, at |-> at,
   about |-> about, reason |-> "none"]

Numbered(rows, from) ==
  [i \in DOMAIN rows |->
     [id |-> from + i, type |-> rows[i].type, hook |-> rows[i].hook,
      pay |-> rows[i].pay, corr |-> rows[i].corr, at |-> rows[i].at,
      about |-> rows[i].about, reason |-> rows[i].reason]]

Appended(rows) == audit \o Numbered(rows, Len(audit))

\* The order of list queries: within an instant the trail is in the order of
\* insertion, investigations are by an id that is random and here in order too.
Before(x, y) == x.at < y.at \/ (x.at = y.at /\ x.id < y.id)

ofPayment(e, row) == Story[e].pay /\ row.pay

ofWebhook(e, row) == Story[e].hook # 0 /\ row.hook = Story[e].hook

ofCorrelation(e, row) == row.corr # 0 /\ row.corr = Story[e].corr

Ids == {x.id : x \in records}

InvestigationOf(id) == CHOOSE x \in records : x.id = id

About(e) == {x \in records : x.exc = e}

NoInvestigation == [id |-> 0, at |-> 0]

listByException(e) ==
  [k \in 1..Cardinality(About(e)) |->
     CHOOSE x \in About(e) : Cardinality({y \in About(e) : Before(y, x)}) = k - 1]

findLatestByExceptionId(e) ==
  IF About(e) = {} THEN NoInvestigation ELSE Last(listByException(e))

-----------------------------------------------------------------------------
(* The evidence handed to an investigator *)

PlaceOf(rows, hook) == CHOOSE i \in DOMAIN rows : rows[i].id = hook

capWebhooks(rows, hook) ==
  IF Len(rows) <= MaxWebhooks THEN rows
  ELSE LET i == PlaceOf(rows, hook)
       IN  SubSeq(IF hook = 0 THEN rows ELSE <<rows[i]>> \o RemoveAt(rows, i),
                  1, MaxWebhooks)

LoadedWebhooks(e) ==
  IF Story[e].pay THEN Hooks
  ELSE IF Story[e].hook # 0 THEN <<Hooks[PlaceOf(Hooks, Story[e].hook)]>>
  ELSE << >>

AUDIT_PRIORITY ==
  {"PAYMENT_STATE_CHANGED", "WEBHOOK_CONFLICT", "WEBHOOK_CONFLICT_DETECTED",
   "EXCEPTION_DETECTED", "INVALID_TRANSITION_DETECTED", "RETRY_EXHAUSTED"}

\* The list of the payment's rows comes first, then the webhook's, then that of
\* the correlation id; of those that matter more all come before the others.
Standing(e, row) ==
  (IF row.type \in AUDIT_PRIORITY THEN 0 ELSE 3)
    + (IF ofPayment(e, row) THEN 1 ELSE IF ofWebhook(e, row) THEN 2 ELSE 3)

Ahead(e, x, y) ==
  \/ Standing(e, x) < Standing(e, y)
  \/ Standing(e, x) = Standing(e, y) /\ Before(x, y)

OwnRow(e, row) ==
  ofPayment(e, row) \/ ofWebhook(e, row) \/ ofCorrelation(e, row)

LoadedAudit(e) == {row \in ToSet(audit) : OwnRow(e, row)}

capAudit(e, rows) ==
  IF Cardinality(rows) <= MaxAudit THEN rows
  ELSE {x \in rows : Cardinality({y \in rows : Ahead(e, y, x)}) < MaxAudit}

\* Evidence as it is before the retries and the audit trail are read.
EvidenceOf(e) ==
  [exc |-> e, code |-> Story[e].code, hook |-> Story[e].hook,
   webhooks |-> capWebhooks(LoadedWebhooks(e), Story[e].hook),
   projected |-> Story[e].pay, retries |-> << >>, audit |-> {}]

\* Mutant: the audit trail is read before the retry rows.
ReadsAuditFirst == <<"audit", "retries", "investigate">>

\* What is read when.
Reads == <<"retries", "audit", "investigate">>

After(step) ==
  Reads[1 + CHOOSE i \in DOMAIN Reads : Reads[i] = step]

-----------------------------------------------------------------------------
(* Pages *)

\* step is the next answer a page waits for; shown is the investigation it
\* displays, with those of the incident page's history behind it; held is what
\* a load has read and not yet displayed: the latest investigation, or how much
\* of the audit trail there was; timeline is that and the investigation next
\* to it. known is whether there was an investigation when the page was opened
\* (not in the code).
NoTimeline == [rows |-> 0, latest |-> 0]

Page(kind, e, mount) ==
  [kind |-> kind, exc |-> e, mount |-> mount, step |-> "record",
   locked |-> FALSE, busy |-> FALSE, shown |-> << >>, held |-> 0,
   timeline |-> NoTimeline, known |-> About(e) # {}]

Blank ==
  [kind |-> "none", exc |-> 0, mount |-> 0, step |-> "done", locked |-> FALSE,
   busy |-> FALSE, shown |-> << >>, held |-> 0, timeline |-> NoTimeline,
   known |-> FALSE]

\* Mutant: a route to another id re-renders the component it finds.
MountedInPlace(t, kind, e) ==
  IF tabs[t].kind = kind
  THEN [tabs[t] EXCEPT !.exc = e, !.step = "record", !.known = About(e) # {}]
  ELSE Page(kind, e, mounts + 1)

\* Pages are keyed by what they are about.
Mounted(t, kind, e) == Page(kind, e, mounts + 1)

timelineAudit(e, rows) ==
  LET Wanted(row) == IF Story[e].pay THEN ofPayment(e, row)
                     ELSE IF Story[e].hook # 0 THEN ofWebhook(e, row)
                     ELSE ofCorrelation(e, row)
  IN  SortSeq(SelectSeq(rows, Wanted), Before)

\* The chronology a page has loaded.
loadIncidentTimeline(t) ==
  composeIncidentTimeline(
    timelineAudit(tabs[t].exc, SubSeq(audit, 1, tabs[t].timeline.rows)),
    IF tabs[t].timeline.latest = 0 THEN NoInvestigation
    ELSE InvestigationOf(tabs[t].timeline.latest),
    TimelineLimit)

-----------------------------------------------------------------------------
NoPlea ==
  [exc |-> 0, tab |-> 0, mount |-> 0, at |-> 0, corr |-> 0, package |-> << >>,
   answer |-> << >>, by |-> "none", reason |-> {}, id |-> 0]

Past(rows) ==
  [i \in DOMAIN rows |->
     Row(rows[i].type, rows[i].hook, rows[i].pay, rows[i].corr, 0, 0)]

Init ==
  /\ plan \in Plans
  /\ clock = 1
  /\ retry = plan.retry
  /\ attempts = {}
  /\ audit = Numbered(Past(plan.past), 0)
  /\ records = {}
  /\ pc = [r \in Request |-> "idle"]
  /\ hand = [r \in Request |-> NoPlea]
  /\ tabs = [t \in Tab |-> Blank]
  /\ mounts = 0
  /\ echoed = {}

Spend(what) == plan[what] > 0 /\ plan' = [plan EXCEPT ![what] = @ - 1]

Fault == plan.faults > 0 /\ plan' = [plan EXCEPT !.faults = @ - 1, !.calm = FALSE]

-----------------------------------------------------------------------------
(* The world around: deliveries and attempts go on (RetryProtocol and Ingest *)
(* say when), time passes                                                    *)

\* One of the moves of the plan, each of them made once.
Move(kind, h, lag) ==
  /\ <<kind, h, lag>> \in plan.moves
  /\ plan' = [plan EXCEPT !.moves = @ \ {<<kind, h, lag>>}]

Tell(types, h, at) ==
  audit' = Appended([i \in DOMAIN types |-> Row(types[i], h, TRUE, h, at, 0)])

\* A repeated delivery, with its clock read at the commit or some time before it.
Deliver(kind, h, lag) ==
  /\ kind \in Receipts
  /\ Move(kind, h, lag)
  /\ Tell(<<IF kind = "duplicate" THEN "WEBHOOK_DUPLICATE"
            ELSE "WEBHOOK_CONFLICT">>, h, clock - lag)
  /\ UNCHANGED <<clock, retry, attempts, records, pages, server>>

ensurePending(h) ==
  /\ retry[h].status = "NONE"
  /\ \E move \in plan.moves : move[1] \in Ends /\ move[2] = h
  /\ retry' = [retry EXCEPT ![h].status = "PENDING"]
  /\ UNCHANGED <<plan, clock, attempts, audit, records, pages, server>>

\* An attempt is announced on the trail if it is not the first. One that ends
\* for good is told there before the row says so, one that is to be repeated
\* after.
AfterAnnounce(kind) == IF kind = "postponed" THEN "settle" ELSE "tell"

AfterTell(kind) == IF kind = "postponed" THEN "done" ELSE "settle"

AfterSettle(kind) == IF kind = "postponed" THEN "tell" ELSE "done"

\* beginAttempt and claimDue. A row that is PROCESSING is claimed when its lease
\* is over, whether or not whoever held it is still at work: leases are left out
\* here, so at any time.
Claim(kind, h, lag) ==
  /\ kind \in Ends
  /\ Move(kind, h, lag)
  /\ retry[h].status \in {"PENDING", "RETRY_SCHEDULED", "PROCESSING"}
  /\ retry' = [retry EXCEPT ![h] = [status |-> "PROCESSING", att |-> @.att + 1]]
  /\ attempts' = attempts \cup
       {[kind |-> kind, hook |-> h, at |-> clock - lag, att |-> retry[h].att + 1,
         step |-> IF retry[h].att = 0 THEN AfterAnnounce(kind) ELSE "announce"]}
  /\ UNCHANGED <<clock, audit, records, pages, server>>

\* An attempt takes its next step, or never takes one again.
Advance(a, step) ==
  attempts' = (attempts \ {a})
                \cup (IF step = "done" THEN {} ELSE {[a EXCEPT !.step = step]})

Announce(a) ==
  /\ a.step = "announce"
  /\ Tell(<<"RETRY_ATTEMPTED">>, a.hook, a.at)
  /\ Advance(a, AfterAnnounce(a.kind))
  /\ UNCHANGED <<plan, clock, retry, records, pages, server>>

OnTrail(h, types) ==
  \E row \in ToSet(audit) : row.hook = h /\ row.pay /\ row.type \in types

\* The status an attempt leaves, and the audit rows it adds.
Ending(kind) ==
  CASE kind = "postponed" -> "RETRY_SCHEDULED"
    [] kind = "exhausted" -> "DEAD_LETTERED"
    [] OTHER              -> "SUCCEEDED"

Outcome(a) ==
  (CASE a.kind = "applied"   -> <<"PAYMENT_STATE_CHANGED">>
     [] a.kind = "delayed"   -> <<"WEBHOOK_DELAYED">>
     [] a.kind = "found"     -> << >>
     [] a.kind = "postponed" -> <<"RETRY_SCHEDULED">>
     [] a.kind = "exhausted" -> <<"RETRY_DEAD_LETTERED">>)
  \o (IF a.att > 1 /\ Ending(a.kind) = "SUCCEEDED"
      THEN <<"RETRY_SUCCEEDED">> ELSE << >>)

\* The rows of a decision and the one of the retry commit together.
TellOutcome(a) ==
  /\ a.step = "tell"
  /\ a.kind = "found" =>
       OnTrail(a.hook, {"PAYMENT_STATE_CHANGED", "WEBHOOK_DELAYED"})
  /\ Tell(Outcome(a), a.hook, a.at)
  /\ Advance(a, AfterTell(a.kind))
  /\ UNCHANGED <<plan, clock, retry, records, pages, server>>

\* markSucceeded, deadLetter or scheduleRetry, of whatever is in the row.
Settle(a) ==
  /\ a.step = "settle"
  /\ retry' = [retry EXCEPT ![a.hook].status = Ending(a.kind)]
  /\ Advance(a, AfterSettle(a.kind))
  /\ UNCHANGED <<plan, clock, audit, records, pages, server>>

Tick ==
  /\ Spend("ticks")
  /\ clock' = clock + 1
  /\ UNCHANGED <<store, pages, server>>

-----------------------------------------------------------------------------
(* POST /exceptions/:id/investigate, and /incidents/:id/investigate *)

Goto(r, step) == pc' = [pc EXCEPT ![r] = step]

Begin(r, e, t, mount, corr) ==
  /\ pc[r] = "idle"
  /\ Goto(r, Reads[1])
  /\ hand' = [hand EXCEPT ![r] =
       [NoPlea EXCEPT !.exc = e, !.tab = t, !.mount = mount, !.at = clock,
                      !.corr = corr, !.package = EvidenceOf(e)]]
  /\ UNCHANGED <<clock, store, mounts>>

\* The button, there once the exception's own record or, on the incident page,
\* everything has loaded. The page names its request anew each time.
Click(t, r) ==
  /\ \/ tabs[t].kind = "exception" /\ tabs[t].step \in {"latest", "show", "done"}
     \/ tabs[t].kind = "incident" /\ tabs[t].step = "done"
  /\ ~tabs[t].busy
  /\ Spend("asks")
  /\ tabs' = [tabs EXCEPT ![t].locked = TRUE, ![t].busy = TRUE]
  /\ Begin(r, tabs[t].exc, t, tabs[t].mount, 0)
  /\ UNCHANGED echoed

\* A caller of the API who passes on the correlation id of what is looked into.
PostEchoing(r, e) ==
  /\ Spend("echoes")
  /\ echoed' = echoed \cup {Story[e].corr}
  /\ Begin(r, e, 0, 0, Story[e].corr)
  /\ UNCHANGED tabs

\* One row, of the next webhook that may have one.
ReadRetries(r) ==
  LET p    == hand[r].package
      left == {i \in DOMAIN p.webhooks :
                 /\ retry[p.webhooks[i].id].status # "NONE"
                 /\ \A row \in ToSet(p.retries) : row.hook # p.webhooks[i].id}
      next == p.webhooks[Min(left)].id
  IN  /\ pc[r] = "retries"
      /\ IF left = {} \/ Len(p.retries) >= MaxRetries
         THEN Goto(r, After("retries")) /\ UNCHANGED hand
         ELSE /\ hand' = [hand EXCEPT ![r].package.retries =
                             Append(@, [hook   |-> next,
                                        status |-> retry[next].status])]
              /\ UNCHANGED pc
      /\ UNCHANGED <<plan, clock, store, pages, echoed>>

ReadAudit(r) ==
  /\ pc[r] = "audit"
  /\ Goto(r, After("audit"))
  /\ hand' = [hand EXCEPT ![r].package.audit =
                             capAudit(hand[r].exc, LoadedAudit(hand[r].exc))]
  /\ UNCHANGED <<plan, clock, store, pages, echoed>>

\* What a model behind the provider may come up with: an honest answer with any
\* verdict, one that names what it was not shown, or none of any form.
Malformed == Answer("MALFORMED", "LOW", {}, {}, {})

Stray == Len(Hooks) + 1

Honest(p, type, confidence) ==
  Answer(type, confidence, gatherEvidence(p), contextIdentifierCatalog(p), {})

Astray(p) ==
  LET plain == Honest(p, "UNKNOWN", "LOW")
  IN  {[plain EXCEPT !.cites = {<<"WEBHOOK_EVENT", Stray>>}],
       [plain EXCEPT !.mentions = @ \cup {<<"hook", Stray>>}],
       [plain EXCEPT !.mentions = @ \cup {<<"long", Stray>>}],
       [plain EXCEPT !.limits = {<<"hook", Stray>>}]}

ModelAnswers(p) ==
  {Honest(p, type, confidence) :
     type \in INVESTIGATION_INCIDENT_TYPES, confidence \in CONFIDENCES}
    \cup Astray(p) \cup {Malformed}

Replies(p) ==
  CASE plan.by = "stub"        -> {StubInvestigator(p)}
    [] plan.by = "unavailable" -> {UnavailableInvestigator(p, {})}
    [] plan.by = "openai"      -> ModelAnswers(p)

Settled(r, answer, by) ==
  hand' = [hand EXCEPT ![r].answer = answer, ![r].by = by]

\* The investigator's answer, kept if it passes, or the error of the validation.
Investigate(r) ==
  /\ pc[r] = "investigate"
  /\ \E answer \in Replies(hand[r].package) :
       \/ /\ validateInvestigationResult(hand[r].package, answer)
          /\ Settled(r, answer, plan.by)
          /\ Goto(r, "create")
       \/ /\ ~validateInvestigationResult(hand[r].package, answer)
          /\ \E names \in ErrorNames(hand[r].package, answer) :
               hand' = [hand EXCEPT ![r].reason = names]
          /\ Goto(r, "fallback")
  /\ UNCHANGED <<plan, clock, store, pages, echoed>>

\* AbortSignal.timeout, or any other failure of the call to the provider.
\* Mutant: none. The provider is waited for.
AbortNever(r) == FALSE /\ UNCHANGED vars

Abort(r) ==
  /\ plan.by = "openai" /\ pc[r] = "investigate"
  /\ Goto(r, "fallback")
  /\ UNCHANGED <<plan, clock, store, pages, hand, echoed>>

\* The record of what the request has come to so far.
InvestigationRecord(r, id, answer, by) ==
  [id |-> id, exc |-> hand[r].exc, by |-> by, type |-> answer.type,
   confidence |-> answer.confidence, cites |-> answer.cites,
   mentions |-> answer.mentions, limits |-> answer.limits, at |-> hand[r].at,
   package |-> hand[r].package]

\* persistUnavailable gives the reason of the error to what stands in.
StandIn(r) == UnavailableInvestigator(hand[r].package, hand[r].reason)

AnswerAt(r) ==
  IF pc[r] = "create"
  THEN [answer |-> hand[r].answer, by |-> hand[r].by]
  ELSE [answer |-> StandIn(r), by |-> "unavailable"]

\* The stand-in's answer is validated too, and fails on a reason that is too long.
Creatable(r) ==
  pc[r] = "fallback" => validateInvestigationResult(hand[r].package, StandIn(r))

NewId == 1 + Cardinality(records)

Insert(r) ==
  records' = records \cup
    {InvestigationRecord(r, NewId, AnswerAt(r).answer, AnswerAt(r).by)}

\* Mutant: what stands in for an investigation is not logged.
ThenLogUnlessFallback(r) == IF pc[r] = "create" THEN "append" ELSE "answer"

ThenLog(r) == "append"

Create(r) ==
  /\ pc[r] \in {"create", "fallback"}
  /\ Creatable(r)
  /\ Insert(r)
  /\ hand' = [hand EXCEPT ![r].id = NewId]
  /\ Goto(r, ThenLog(r))
  /\ UNCHANGED <<plan, clock, retry, attempts, audit, pages, echoed>>

StandInFails(r) ==
  /\ pc[r] = "fallback"
  /\ ~Creatable(r)
  /\ Goto(r, "answer")
  /\ UNCHANGED <<plan, clock, store, pages, hand, echoed>>

\* The insert throws, with or without the row: the stand-in's record is tried
\* next, and after it nothing.
CreateFails(r) ==
  /\ pc[r] \in {"create", "fallback"}
  /\ Creatable(r)
  /\ Fault
  /\ UNCHANGED records \/ Insert(r)
  /\ Goto(r, IF pc[r] = "create" THEN "fallback" ELSE "answer")
  /\ UNCHANGED <<clock, retry, attempts, audit, pages, hand, echoed>>

\* Mutant: the row is filed with the request that detected the exception.
recordCorrelationOfException(r) == Story[hand[r].exc].corr

recordCorrelation(r) == hand[r].corr

Logged(r) ==
  LET e == hand[r].exc
  IN  Appended(<<Row("INVESTIGATION_RECORDED", Story[e].hook, Story[e].pay,
                     recordCorrelation(r), hand[r].at, hand[r].id)>>)

recordInvestigationAudit(r) ==
  /\ pc[r] = "append"
  /\ audit' = Logged(r)
  /\ Goto(r, "answer")
  /\ UNCHANGED <<plan, clock, retry, attempts, records, pages, hand, echoed>>

\* A read throws and the answer is a 500, or the append does, with or without
\* its row, and it is a 503 although the record stays.
Fails(r) ==
  /\ pc[r] \in {"retries", "audit", "append"}
  /\ Fault
  /\ UNCHANGED audit \/ (pc[r] = "append" /\ audit' = Logged(r))
  /\ hand' = [hand EXCEPT ![r].id = 0]
  /\ Goto(r, "answer")
  /\ UNCHANGED <<clock, retry, attempts, records, pages, echoed>>

\* What becomes of a page when the answer comes: nothing if it is gone. id is
\* the new investigation, or 0 for a failure.
Received(r, id) ==
  LET t == hand[r].tab
  IN  IF t = 0 THEN tabs
      ELSE IF tabs[t].mount # hand[r].mount THEN tabs
      ELSE [tabs EXCEPT
              ![t].busy = FALSE,
              ![t].shown = IF id = 0 THEN @
                           ELSE IF tabs[t].kind = "exception" THEN <<id>>
                           ELSE <<id>> \o @]

Respond(r) ==
  /\ pc[r] = "answer"
  /\ tabs' = Received(r, hand[r].id)
  /\ Goto(r, "idle")
  /\ hand' = [hand EXCEPT ![r] = NoPlea]
  /\ UNCHANGED <<plan, clock, store, mounts, echoed>>

\* The API process ends: its requests break off, all at once.
Broken(t) ==
  \E r \in Request : pc[r] # "idle" /\ hand[r].tab = t
                      /\ hand[r].mount = tabs[t].mount

Crash ==
  /\ Fault
  /\ \E r \in Request : pc[r] # "idle"
  /\ tabs' = [t \in Tab |->
               IF Broken(t) THEN [tabs[t] EXCEPT !.busy = FALSE] ELSE tabs[t]]
  /\ pc' = [r \in Request |-> "idle"]
  /\ hand' = [r \in Request |-> NoPlea]
  /\ UNCHANGED <<clock, store, mounts, echoed>>

-----------------------------------------------------------------------------
(* The pages *)

Open(t, kind, e) ==
  /\ kind \in plan.pages
  /\ e \in plan.of
  /\ Spend("opens")
  /\ tabs' = [tabs EXCEPT ![t] = Mounted(t, kind, e)]
  /\ mounts' = mounts + 1
  /\ UNCHANGED <<clock, store, server>>

Loaded(t, page) ==
  /\ tabs' = [tabs EXCEPT ![t] = page]
  /\ UNCHANGED <<plan, clock, store, mounts, server>>

LoadRecord(t) ==
  /\ tabs[t].step = "record"
  /\ Loaded(t, [tabs[t] EXCEPT
                  !.step = IF tabs[t].kind = "incident" THEN "trail" ELSE "latest"])

\* GET /incidents/:id/timeline reads the trail first, the investigation last.
LoadTrail(t) ==
  /\ tabs[t].step = "trail"
  /\ Loaded(t, [tabs[t] EXCEPT !.step = "latest", !.timeline.rows = Len(audit)])

LoadLatest(t) ==
  LET id == findLatestByExceptionId(tabs[t].exc).id
  IN  /\ tabs[t].step = "latest"
      /\ Loaded(t, IF tabs[t].kind = "incident"
                   THEN [tabs[t] EXCEPT !.step = "list", !.timeline.latest = id]
                   ELSE [tabs[t] EXCEPT !.step = "show", !.held = id])

\* Mutant: what was loaded is displayed, whatever happened meanwhile.
displayAlways(t, loaded) == loaded

\* Once the button was used, what the page loads is not displayed.
display(t, loaded) == IF tabs[t].locked THEN tabs[t].shown ELSE loaded

\* The exception page shows what it has read before.
ShowLatest(t) ==
  /\ tabs[t].step = "show"
  /\ Loaded(t, [tabs[t] EXCEPT
                  !.step = "done", !.held = 0,
                  !.shown = display(t, IF tabs[t].held = 0 THEN << >>
                                       ELSE <<tabs[t].held>>)])

\* The incident page lists all, the oldest first.
ShowList(t) ==
  /\ tabs[t].step = "list"
  /\ Loaded(t, [tabs[t] EXCEPT
                  !.step = "done",
                  !.shown = display(t, [k \in 1..Cardinality(About(tabs[t].exc)) |->
                                          listByException(tabs[t].exc)[k].id])])

LoadFails(t) ==
  /\ tabs[t].step \notin {"done", "failed"}
  /\ Fault
  /\ tabs' = [tabs EXCEPT ![t].step = "failed"]
  /\ UNCHANGED <<clock, store, mounts, server>>

-----------------------------------------------------------------------------
\* The server's side of a request: all but a model's answer, which may not come.
Handle(r) ==
  \/ ReadRetries(r) \/ ReadAudit(r)
  \/ (plan.by # "openai" /\ Investigate(r))
  \/ Abort(r)
  \/ Create(r) \/ CreateFails(r) \/ StandInFails(r)
  \/ recordInvestigationAudit(r) \/ Fails(r)
  \/ Respond(r)

Next ==
  \/ \E move \in plan.moves :
       Deliver(move[1], move[2], move[3]) \/ Claim(move[1], move[2], move[3])
  \/ \E h \in DOMAIN Hooks : ensurePending(h)
  \/ \E a \in attempts : Announce(a) \/ TellOutcome(a) \/ Settle(a)
  \/ Tick
  \/ \E r \in Request :
       \/ Handle(r) \/ Investigate(r)
       \/ \E t \in Tab : Click(t, r)
       \/ \E e \in plan.of : PostEchoing(r, e)
  \/ Crash
  \/ \E t \in Tab :
       \/ \E kind \in plan.pages, e \in plan.of : Open(t, kind, e)
       \/ LoadRecord(t) \/ LoadTrail(t) \/ LoadLatest(t)
       \/ ShowLatest(t) \/ ShowList(t) \/ LoadFails(t)

\* A request at work is worked on; a provider need not answer, an operator need
\* not click and a page need not load.
Fairness == \A r \in Request : WF_vars(Handle(r))

Spec == Init /\ [][Next]_vars /\ Fairness

-----------------------------------------------------------------------------
(* Type invariant. What is on a page is in the table, and a verdict is one   *)
(* of those the investigations table admits.                                 *)

TypeOK ==
  /\ clock \in Nat
  /\ retry \in [DOMAIN Hooks -> [status : RETRY_STATUSES \cup {"NONE"}, att : Nat]]
  /\ attempts \subseteq [kind : Ends, hook : DOMAIN Hooks, at : Int,
                         att : Nat \ {0}, step : {"announce", "tell", "settle"}]
  /\ \A i \in DOMAIN audit :
       /\ audit[i].id = i
       /\ audit[i].hook \in 0..Len(Hooks) /\ audit[i].pay \in BOOLEAN
  /\ Ids = 1..Cardinality(records)
  /\ \A x \in records :
       /\ x.exc \in plan.of /\ x.at \in 1..clock
       /\ x.type \in INVESTIGATION_INCIDENT_TYPES
       /\ x.confidence \in CONFIDENCES
  /\ pc \in [Request -> ToSet(Reads) \cup {"idle", "create", "fallback", "append",
                                         "answer"}]
  /\ \A r \in Request : hand[r].tab \in Tab \cup {0} /\ hand[r].mount \in 0..mounts
  /\ \A t \in Tab :
       /\ tabs[t].step \in {"record", "trail", "latest", "show", "list", "done",
                           "failed"}
       /\ tabs[t].held \in Ids \cup {0}
       /\ ToSet(tabs[t].shown) \subseteq Ids
       /\ tabs[t].timeline \in [rows : 0..Len(audit), latest : Ids \cup {0}]

-----------------------------------------------------------------------------
(* Safety *)

\* Whatever a model comes up with and whichever way an investigation goes, the
\* record kept cites rows of its own exception, payment and webhooks only, and
\* its prose names no others, the limitations excepted, which nobody scans: there
\* the stand-in repeats the identifier it was called in for. Over evidence that
\* contradicts itself nobody but a model goes above LOW, and a model not up to
\* HIGH (validate.ts, build-context.ts and the fallback).
OwnHooks(e) == {w.id : w \in ToSet(LoadedWebhooks(e))}

OwnCite(e, cite) ==
  \/ cite[1] \in {"EXCEPTION", "INCIDENT"} /\ cite[2] = e
  \/ cite[1] = "WEBHOOK_EVENT" /\ cite[2] \in OwnHooks(e)
  \/ /\ cite[1] \in {"AUDIT_EVENT", "STATE_TRANSITION"}
     /\ OwnRow(e, audit[cite[2]])
  \/ /\ cite[1] = "RETRY_ATTEMPT" /\ cite[2] \in OwnHooks(e)
     /\ retry[cite[2]].status # "NONE"

OwnName(e, m) ==
  \/ m = <<"exception", e>>
  \/ m[1] = "hook" /\ m[2] \in OwnHooks(e)
  \/ m[1] = "audit" /\ OwnRow(e, audit[m[2]])
  \/ m[1] = "retry" /\ m[2] \in OwnHooks(e) /\ retry[m[2]].status # "NONE"

AnswersGrounded ==
  \A x \in records :
    /\ \A cite \in x.cites : OwnCite(x.exc, cite)
    /\ \A m \in x.mentions : OwnName(x.exc, m)
    /\ evidenceConflictNote(x.package) =>
         x.confidence = "LOW" \/ (x.by = "openai" /\ x.confidence = "MEDIUM")

\* Looking into an exception does not become evidence about it: one that came
\* with nothing else stays without a cause however often it is investigated,
\* unless a caller files his request under the exception's own correlation id
\* (http/investigation.ts, recordInvestigationAudit).
Bare(e) ==
  ~Story[e].pay /\ Story[e].hook = 0 /\ Story[e].corr \notin DOMAIN Hooks

NoEvidenceOfItsOwn ==
  \A x \in records :
    /\ Bare(x.exc) /\ Story[x.exc].corr \notin echoed
    /\ \A row \in ToSet(audit) : row.at = 0 => ~ofCorrelation(x.exc, row)
    => x.type = "INSUFFICIENT_EVIDENCE"

\* The trail names only investigations that are stored, and while nothing has
\* failed the only ones it lacks are those about to be logged, the stand-in's
\* included (http/investigation.ts, handlePostInvestigate).
RecordsAudited ==
  LET logged == {row.about : row \in {x \in ToSet(audit) :
                                       x.type = "INVESTIGATION_RECORDED"}}
      about  == {hand[r].id : r \in {q \in Request : pc[q] = "append"}}
  IN  /\ logged \subseteq Ids
      /\ plan.calm => Ids \subseteq logged \cup about

\* The evidence of an investigation misses nothing it must have. However many
\* webhooks the payment has, the one the exception is about is among them
\* (build-context.ts, capWebhooks). And although the evidence is read in parts
\* while attempts go on, fall silent and overlap, no retry row in it is over
\* without an audit row that tells how, be it the decision of a first attempt or
\* the end of a retry, unless those were too many (build-context.ts reads retry
\* rows before the trail; worker.ts, finishAttempt, writes the row after it).
EvidenceSound ==
  \A x \in records :
    /\ Story[x.exc].hook # 0 =>
         \E w \in ToSet(x.package.webhooks) : w.id = Story[x.exc].hook
    /\ Cardinality(x.package.audit) < MaxAudit /\ Story[x.exc].pay =>
         \A row \in {y \in ToSet(x.package.retries) : y.status \in Over} :
           \E told \in x.package.audit :
             told.hook = row.hook /\ told.type \in Telling(row.status)

\* Whatever late answer comes in after the operator has moved on, and whichever
\* load it overtakes, the investigations a page shows are of the exception it
\* is about (App.tsx).
PagesShowTheirOwn ==
  \A t \in Tab : \A i \in DOMAIN tabs[t].shown :
    InvestigationOf(tabs[t].shown[i]).exc = tabs[t].exc

\* A timeline tells a sound story: a replay that is completed was started
\* before, although rows are dated before they are committed (timeline.ts,
\* delayedSeen), and an incident that had been investigated when the page was
\* opened shows an investigation, logged or not (timeline.ts,
\* investigationAlreadyOnAudit).
TimelinesTell ==
  \A t \in Tab : tabs[t].kind = "incident" /\ tabs[t].step = "done" =>
    LET items == loadIncidentTimeline(t)
    IN  /\ \A i \in DOMAIN items : items[i].lifecycle = "REPLAY_COMPLETED" =>
             \E j \in 1..(i - 1) : items[j].lifecycle = "REPLAY_STARTED"
        /\ tabs[t].known =>
             \E i \in DOMAIN items : items[i].lifecycle = "INVESTIGATION_AVAILABLE"

\* docs/observability.md:41 "A later operator investigation is a separate HTTP
\* request and may have its own correlation id. The incident timeline still
\* joins it by `exceptionId`." So that what a timeline tells of an investigation
\* is of one of its own incident (timeline.ts, expandAudit).
TimelineJoinsByException ==
  \A t \in Tab : tabs[t].kind = "incident" /\ tabs[t].step = "done" =>
    \A i \in DOMAIN loadIncidentTimeline(t) :
      loadIncidentTimeline(t)[i].lifecycle = "INVESTIGATION_AVAILABLE" =>
        InvestigationOf(loadIncidentTimeline(t)[i].about).exc = tabs[t].exc

-----------------------------------------------------------------------------
(* Action and temporal properties *)

\* While a page stays, the investigation it shows first is never replaced by
\* an older one: a load that was overtaken by the button must not undo its
\* answer (ExceptionDetail.tsx, investigationLocked).
ShownAt(t) == InvestigationOf(Head(tabs[t].shown)).at

NeverOlder ==
  [][\A t \in Tab :
       /\ tabs'[t].mount = tabs[t].mount
       /\ tabs[t].shown # << >>
       => tabs'[t].shown # << >> /\ ShownAt(t) <= ShownAt(t)']_vars

\* A click is answered one way or the other, whatever the provider does: the
\* button comes back (openai-provider.ts, the timeout).
ClicksSettle ==
  \A t \in Tab : tabs[t].busy ~> ~tabs[t].busy
=============================================================================
