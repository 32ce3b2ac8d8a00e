------------------------------ MODULE Detection ------------------------------
(***************************************************************************)
(* The deterministic classification of packages/exceptions: which facts an *)
(* ingest step or a finished attempt hands over, and which exceptions      *)
(* detectException makes of them.                                          *)
(*                                                                         *)
(* What happened is a cause, a record                                      *)
(*    by    who speaks: "verifier", "adapter", "store" or "attempt";       *)
(*    code  its status, error, store outcome or failure code, or "none";   *)
(*    met   for an attempt with a decision on its event, the machine       *)
(*          outcome that decided, the payment's state and the event's type;*)
(*    last  whether the attempt used up the budget.                        *)
(***************************************************************************)
EXTENDS Replay

\* In the order the drafts of one detection are saved.
EXCEPTION_PRECEDENCE ==
  << "INVALID_SIGNATURE", "MALFORMED_WEBHOOK", "UNSUPPORTED_EVENT",
     "CONFLICTING_EVENT", "INVALID_STATE_TRANSITION", "PROCESSING_FAILURE",
     "RETRY_EXHAUSTED", "OUT_OF_ORDER_EVENT", "MISSING_EVENT",
     "DUPLICATE_EVENT" >>

ExceptionCodes == {EXCEPTION_PRECEDENCE[i] : i \in 1..10}

exceptionPrecedenceRank(code) ==
  CHOOSE i \in 1..10 : EXCEPTION_PRECEDENCE[i] = code

severityForExceptionCode(code) ==
  CASE code = "DUPLICATE_EVENT" -> "INFO"
    [] code \in {"OUT_OF_ORDER_EVENT", "MISSING_EVENT", "UNSUPPORTED_EVENT"}
         -> "WARNING"
    [] code = "RETRY_EXHAUSTED" -> "CRITICAL"
    [] OTHER -> "ERROR"

-----------------------------------------------------------------------------
(* Facts *)

NoMeeting == [outcome |-> "none", from |-> "NONE", type |-> "none"]

fact(kind) == [kind |-> kind, from |-> "NONE", type |-> "none"]

SIGNATURE_CODES == {"INVALID_SIGNATURE", "MISSING_SIGNATURE", "EXPIRED_SIGNATURE"}

MALFORMED_CODES ==
  {"MALFORMED_SIGNATURE", "INVALID_PAYLOAD", "INVALID_AMOUNT",
   "INVALID_CURRENCY", "INVALID_TIMESTAMP", "MISSING_EXTERNAL_ID",
   "MISSING_PAYMENT_ID", "INVALID_NORMALIZED_EVENT", "MALFORMED_PAYLOAD"}

factsFromVerificationStatus(status) ==
  IF status \in SIGNATURE_CODES THEN {fact("INVALID_SIGNATURE")}
  ELSE IF status = "MALFORMED_SIGNATURE" THEN {fact("MALFORMED_WEBHOOK")}
  ELSE IF status = "UNSUPPORTED_PROVIDER" THEN {fact("UNSUPPORTED_EVENT")}
  ELSE {}

factsFromWebhookErrorCode(code) ==
  IF code \in {"UNSUPPORTED_EVENT", "UNSUPPORTED_PROVIDER"}
  THEN {fact("UNSUPPORTED_EVENT")}
  ELSE IF code \in MALFORMED_CODES THEN {fact("MALFORMED_WEBHOOK")}
  ELSE IF code \in SIGNATURE_CODES THEN {fact("INVALID_SIGNATURE")}
  ELSE {}

factsFromStoreOutcome(outcome) ==
  IF outcome = "DUPLICATE" THEN {fact("DUPLICATE_EVENT")}
  ELSE IF outcome = "CONFLICT" THEN {fact("CONFLICTING_EVENT")}
  ELSE {}

\* The decision of the replay on the event that was met.
Decision(met) == classifyAttempt(met.outcome, met.from, met.type)

\* How the replay met an event it decided on with d. Within a scope ids are
\* unique and payments agree: only the two refusals of the machine are left.
MeetingOf(d, type) ==
  [outcome |-> IF d.decision = "ACCEPTED" THEN "ACCEPTED"
               ELSE IF classifyAttempt("INVALID_TRANSITION", d.from, type)
                         = d.decision
               THEN "INVALID_TRANSITION" ELSE "OUT_OF_ORDER",
   from |-> d.from,
   type |-> type]

factsFromReplayDecision(met) ==
  CASE Decision(met) = "DELAYED" ->
         {[kind |-> "OUT_OF_ORDER_EVENT", from |-> met.from, type |-> met.type]}
    [] Decision(met) = "REJECTED" -> {fact("INVALID_STATE_TRANSITION")}
    [] Decision(met) = "CONFLICT" ->
         {fact(IF met.outcome = "CONFLICT" THEN "CONFLICTING_EVENT"
                                           ELSE "INVALID_STATE_TRANSITION")}
    [] OTHER -> {}

factsFromFailureCode(code) ==
  LET ingest == IF factsFromVerificationStatus(code) # {}
                THEN factsFromVerificationStatus(code)
                ELSE factsFromWebhookErrorCode(code)
  IN  IF code \in {"INVALID_TRANSITION", "IMPOSSIBLE_AFTER_ORDERING",
                   "PAYMENT_ID_MISMATCH"}
      THEN {fact("INVALID_STATE_TRANSITION")}
      ELSE IF code \in {"PERMANENT_CONFLICT", "MATERIAL_CONFLICT", "CONFLICT"}
      THEN {fact("CONFLICTING_EVENT")}
      ELSE IF ingest # {} THEN ingest
      ELSE {fact("PROCESSING_FAILURE")}

-----------------------------------------------------------------------------
(* A finished attempt *)

NON_RETRYABLE_CODES ==
  {"INVALID_SIGNATURE", "MALFORMED_PAYLOAD", "INVALID_NORMALIZED_EVENT",
   "UNSUPPORTED_EVENT", "INVALID_TRANSITION", "PERMANENT_CONFLICT",
   "INVALID_PAYLOAD", "MISSING_EXTERNAL_ID", "MISSING_PAYMENT_ID",
   "INVALID_AMOUNT", "INVALID_CURRENCY", "INVALID_TIMESTAMP",
   "UNSUPPORTED_PROVIDER", "EXPIRED_SIGNATURE", "MISSING_SIGNATURE",
   "MALFORMED_SIGNATURE", "EVENT_NOT_FOUND", "INVALID_ROW",
   "INCONSISTENT_IDENTITY", "UNSAFE_DATABASE_NAME", "MISSING_DATABASE_URL",
   "PAYMENT_ID_MISMATCH", "IMPOSSIBLE_AFTER_ORDERING", "MATERIAL_CONFLICT"}

\* The failure code processWebhookAttempt gives to a decision on its event.
DecisionCode(met) ==
  CASE Decision(met) = "CONFLICT" -> "PERMANENT_CONFLICT"
    [] Decision(met) = "REJECTED" -> "INVALID_TRANSITION"
    [] OTHER -> "none"

\* finishAttempt: the status the retry row ends in.
AttemptStatus(cause) ==
  IF cause.code = "none" THEN "SUCCEEDED"
  ELSE IF cause.code \in NON_RETRYABLE_CODES \/ cause.last
  THEN "DEAD_LETTERED"
  ELSE "RETRY_SCHEDULED"

\* Mutant: a permanent failure within the budget goes unmentioned.
factsFromRetryOutcomeExhaustedOnly(cause) ==
  CASE AttemptStatus(cause) = "RETRY_SCHEDULED" -> {fact("PROCESSING_FAILURE")}
    [] AttemptStatus(cause) = "DEAD_LETTERED" /\ cause.last ->
         {fact("RETRY_EXHAUSTED")}
    [] OTHER -> {}

factsFromRetryOutcome(cause) ==
  CASE AttemptStatus(cause) = "RETRY_SCHEDULED" -> {fact("PROCESSING_FAILURE")}
    [] AttemptStatus(cause) = "DEAD_LETTERED" ->
         IF cause.last THEN {fact("RETRY_EXHAUSTED")}
                       ELSE factsFromFailureCode(cause.code)
    [] OTHER -> {}

\* The facts recordAttemptExceptions or recordIngestExceptions is called with.
Facts(cause) ==
  CASE cause.by = "verifier" -> factsFromVerificationStatus(cause.code)
    [] cause.by = "adapter"  -> factsFromWebhookErrorCode(cause.code)
    [] cause.by = "store"    -> factsFromStoreOutcome(cause.code)
    [] cause.by = "attempt"  ->
         (IF cause.met = NoMeeting THEN {} ELSE factsFromReplayDecision(cause.met))
           \cup factsFromRetryOutcome(cause)

-----------------------------------------------------------------------------
(* Detection *)

\* Mutant: the test that the delayed event has its own turn is forgotten.
uniqueMissingPrerequisiteAlways(from, delayed) ==
  LET enabling == {row.type : row \in {r \in TransitionTable :
                                         /\ r.from = from
                                         /\ isEventuallyPossible(r.to, delayed)}}
  IN  IF isEventuallyPossible(from, delayed) /\ Cardinality(enabling) = 1
      THEN enabling ELSE {}

\* The event type that must come first, as a set of at most one.
uniqueMissingPrerequisite(from, delayed) ==
  LET enabling == {row.type : row \in {r \in TransitionTable :
                                         /\ r.from = from
                                         /\ isEventuallyPossible(r.to, delayed)}}
  IN  IF /\ ~Allowed(from, delayed)
         /\ isEventuallyPossible(from, delayed)
         /\ Cardinality(enabling) = 1
      THEN enabling ELSE {}

\* Every delay comes with the gap in front of it, where the table names one.
expandFacts(facts) ==
  facts \cup
    UNION {{[kind |-> "MISSING_EVENT", from |-> f.from, type |-> missing] :
              missing \in uniqueMissingPrerequisite(f.from, f.type)} :
             f \in {g \in facts : g.kind = "OUT_OF_ORDER_EVENT"}}

\* One draft for every kind of fact.
detectException(facts) == {f.kind : f \in expandFacts(facts)}
=============================================================================
