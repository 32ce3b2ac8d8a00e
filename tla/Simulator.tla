------------------------------ MODULE Simulator ------------------------------
(***************************************************************************)
(* The synthetic scenarios of packages/simulator, the deliveries generated *)
(* for them and what each says will come of it, and the Failure Lab's      *)
(* catalog, which runs some of them under its own names. Data and pure     *)
(* functions; FailureLab carries the scenarios out.                        *)
(*                                                                         *)
(* Events are in the form Replay works on: id is the position in the       *)
(* scenario, pay the payment's, at the seconds since T0, body the amount.  *)
(***************************************************************************)
EXTENDS Replay

T0 == 0
T1 == 1
T2 == 2
AMOUNT == 10000

event(id, pay, type, at) ==
  [id |-> id, pay |-> pay, type |-> type, at |-> at, body |-> AMOUNT]

send(key)     == [kind |-> "SEND", key |-> key]
resend(key)   == [kind |-> "RESEND_IDENTICAL", key |-> key]
conflict(key) == [kind |-> "SEND_CONFLICTING", key |-> key]

\* The attempts a failure plan makes throw: none, the first upTo, or all.
NoFailure            == [kind |-> "NONE", upTo |-> 0]
FailThenSucceed(n)   == [kind |-> "FAIL_THEN_SUCCEED", upTo |-> n]
ExhaustRetries       == [kind |-> "EXHAUST_RETRIES", upTo |-> 0]

DEFAULT_RETRY_DEMO == [max |-> 5, base |-> 1, cap |-> 8, ticks |-> 0]

accepted  == <<200, "accepted">>
duplicate == <<200, "duplicate">>
refused   == <<409, "conflict">>
failed    == <<500, "error">>

Expect(http, stored, transitions, payments, audit, delayed, retry) ==
  [http |-> http, stored |-> stored, transitions |-> transitions,
   payments |-> payments, audit |-> audit, delayed |-> delayed,
   retry |-> retry]

-----------------------------------------------------------------------------
NORMAL_FLOW ==
  [events   |-> << event(1, 1, "payment.created", T0),
                   event(2, 1, "payment.authorized", T1),
                   event(3, 1, "payment.captured", T2) >>,
   delivery |-> << send(1), send(2), send(3) >>,
   failure  |-> NoFailure,
   retry    |-> DEFAULT_RETRY_DEMO,
   expected |-> Expect(<<accepted, accepted, accepted>>, 3, 3, <<"CAPTURED">>,
                       {"WEBHOOK_RECEIVED", "PAYMENT_STATE_CHANGED"}, 0,
                       "unsaid")]

DUPLICATE_DELIVERY ==
  [events   |-> << event(1, 1, "payment.created", T0) >>,
   delivery |-> << send(1), resend(1) >>,
   failure  |-> NoFailure,
   retry    |-> DEFAULT_RETRY_DEMO,
   expected |-> Expect(<<accepted, duplicate>>, 1, 1, <<"CREATED">>,
                       {"WEBHOOK_RECEIVED", "PAYMENT_STATE_CHANGED",
                        "WEBHOOK_DUPLICATE"}, 0, "unsaid")]

\* The capture is delayed when it comes; the authorization is the second
\* transition on record, and the replay it sets off captures the payment.
OUT_OF_ORDER ==
  [events   |-> << event(1, 1, "payment.created", T0),
                   event(2, 1, "payment.captured", T2),
                   event(3, 1, "payment.authorized", T1) >>,
   delivery |-> << send(1), send(2), send(3) >>,
   failure  |-> NoFailure,
   retry    |-> DEFAULT_RETRY_DEMO,
   expected |-> Expect(<<accepted, accepted, accepted>>, 3, 2, <<"CAPTURED">>,
                       {"WEBHOOK_RECEIVED", "PAYMENT_STATE_CHANGED",
                        "WEBHOOK_DELAYED"}, 1, "unsaid")]

CONFLICT ==
  [events   |-> << event(1, 1, "payment.created", T0) >>,
   delivery |-> << send(1), conflict(1) >>,
   failure  |-> NoFailure,
   retry    |-> DEFAULT_RETRY_DEMO,
   expected |-> Expect(<<accepted, refused>>, 1, 1, <<"CREATED">>,
                       {"WEBHOOK_RECEIVED", "PAYMENT_STATE_CHANGED",
                        "WEBHOOK_CONFLICT"}, 0, "unsaid")]

RETRY_FAILURE ==
  [events   |-> << event(1, 1, "payment.created", T0) >>,
   delivery |-> << send(1) >>,
   failure  |-> FailThenSucceed(1),
   retry    |-> [DEFAULT_RETRY_DEMO EXCEPT !.ticks = 1],
   expected |-> Expect(<<failed>>, 1, 1, <<"CREATED">>,
                       {"WEBHOOK_RECEIVED", "RETRY_SCHEDULED",
                        "RETRY_ATTEMPTED", "PAYMENT_STATE_CHANGED",
                        "RETRY_SUCCEEDED"}, 0, "SUCCEEDED")]

PERMANENT_FAILURE ==
  [events   |-> << event(1, 1, "payment.created", T0) >>,
   delivery |-> << send(1) >>,
   failure  |-> ExhaustRetries,
   retry    |-> [DEFAULT_RETRY_DEMO EXCEPT !.max = 2, !.ticks = 1],
   expected |-> Expect(<<failed>>, 1, 0, <<"NONE">>,
                       {"WEBHOOK_RECEIVED", "RETRY_SCHEDULED",
                        "RETRY_ATTEMPTED", "RETRY_DEAD_LETTERED"}, 0,
                       "DEAD_LETTERED")]

MULTI_PAYMENT ==
  [events   |-> << event(1, 1, "payment.created", T0),
                   event(2, 2, "payment.created", T0),
                   event(3, 1, "payment.authorized", T1),
                   event(4, 2, "payment.authorized", T1),
                   event(5, 1, "payment.captured", T2),
                   event(6, 2, "payment.captured", T2) >>,
   delivery |-> << send(1), send(2), send(3), send(4), send(5), send(6) >>,
   failure  |-> NoFailure,
   retry    |-> DEFAULT_RETRY_DEMO,
   expected |-> Expect(<<accepted, accepted, accepted, accepted, accepted,
                         accepted>>, 6, 6, <<"CAPTURED", "CAPTURED">>,
                       {"WEBHOOK_RECEIVED", "PAYMENT_STATE_CHANGED"}, 0,
                       "unsaid")]

SCENARIOS ==
  [NORMAL_FLOW |-> NORMAL_FLOW, DUPLICATE_DELIVERY |-> DUPLICATE_DELIVERY,
   OUT_OF_ORDER |-> OUT_OF_ORDER, CONFLICT |-> CONFLICT,
   RETRY_FAILURE |-> RETRY_FAILURE, PERMANENT_FAILURE |-> PERMANENT_FAILURE,
   MULTI_PAYMENT |-> MULTI_PAYMENT]

\* Mutant: a second copy is built and signed for what is sent again, amount and
\* all, as if it were a new event.
generateDeliveriesAnew(s) ==
  [i \in DOMAIN s.delivery |->
     LET step == s.delivery[i]
     IN  IF step.kind = "SEND" THEN s.events[step.key]
         ELSE [s.events[step.key] EXCEPT !.body = 25000]]

\* A conflicting delivery is the event with another amount under the same id;
\* one sent again is the first one, byte for byte.
generateDeliveries(s) ==
  [i \in DOMAIN s.delivery |->
     LET step == s.delivery[i]
     IN  IF step.kind = "SEND_CONFLICTING"
         THEN [s.events[step.key] EXCEPT !.body = 25000]
         ELSE s.events[step.key]]

-----------------------------------------------------------------------------
(* The Failure Lab *)

FAILURE_LAB_SCENARIO ==
  {"DUPLICATE_DELIVERY", "OUT_OF_ORDER", "CONFLICTING_EVENT",
   "TRANSIENT_FAILURE", "RETRY_EXHAUSTION", "REPLAY_RECOVERY",
   "RAZORPAY_SHAPED_DUPLICATE", "GOLDEN_DEMO"}

failureModeForLab(id) ==
  CASE id \in {"TRANSIENT_FAILURE", "GOLDEN_DEMO"} -> "FAIL_ONCE"
    [] id = "RETRY_EXHAUSTION"                     -> "ALWAYS_FAIL"
    [] OTHER                                       -> "NONE"

\* One authorization, posted twice through the Razorpay adapter: without a
\* creation it stays delayed and projects nothing.
RAZORPAY_SHAPED_DUPLICATE ==
  [events   |-> << event(1, 1, "payment.authorized", T0) >>,
   delivery |-> << send(1), resend(1) >>,
   failure  |-> NoFailure,
   retry    |-> DEFAULT_RETRY_DEMO,
   expected |-> Expect(<<accepted, duplicate>>, 1, 0, <<"NONE">>,
                       {"WEBHOOK_RECEIVED", "WEBHOOK_DELAYED",
                        "WEBHOOK_DUPLICATE"}, 1, "unsaid")]

simulatorScenarioForLab(id) ==
  CASE id = "DUPLICATE_DELIVERY"                    -> DUPLICATE_DELIVERY
    [] id \in {"OUT_OF_ORDER", "REPLAY_RECOVERY"}   -> OUT_OF_ORDER
    [] id = "CONFLICTING_EVENT"                     -> CONFLICT
    [] id \in {"TRANSIENT_FAILURE", "GOLDEN_DEMO"}  -> RETRY_FAILURE
    [] id = "RAZORPAY_SHAPED_DUPLICATE"             -> RAZORPAY_SHAPED_DUPLICATE
    [] OTHER                                        -> PERMANENT_FAILURE

\* The golden demo posts its first delivery again once the retries are drained.
labDeliveries(id) ==
  LET generated == generateDeliveries(simulatorScenarioForLab(id))
  IN  IF id = "GOLDEN_DEMO" THEN Append(generated, generated[1]) ELSE generated

\* What the catalog promises, in the terms of the scenarios.
labExpected(id) ==
  LET base == simulatorScenarioForLab(id).expected
  IN  IF id = "GOLDEN_DEMO"
      THEN [base EXCEPT !.http = Append(@, duplicate),
                        !.audit = @ \cup {"WEBHOOK_DUPLICATE"}]
      ELSE base
=============================================================================
