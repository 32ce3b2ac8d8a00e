------------------------- MODULE PaymentStateMachine -------------------------
(***************************************************************************)
(* The deterministic payment state machine of packages/state-machine: the  *)
(* published transition table, the reachability test that tells "wait"     *)
(* from "investigate", and processEvent, the pure function that says what  *)
(* one webhook event means for one payment.                                *)
(*                                                                         *)
(* A normalized webhook event is a record                                  *)
(*    id    webhook identity (provider + externalEventId), a number whose  *)
(*          order is the order of the identity keys;                       *)
(*    pay   provider payment the event belongs to;                         *)
(*    type  one of EventTypes;                                             *)
(*    at    occurredAt, in units of the sort key of compareInstant;        *)
(*    body  amountMinor, currency and payloadHash, which the machine only  *)
(*          compares and copies.                                           *)
(***************************************************************************)
EXTENDS Naturals, Sequences

PaymentStates == {"CREATED", "AUTHORIZED", "CAPTURED", "FAILED", "REFUNDED"}

\* PaymentRecordState: "NONE" stands for null, the payment that does not exist.
RecordStates == PaymentStates \cup {"NONE"}

EventTypes ==
  {"payment.created", "payment.authorized", "payment.captured",
   "payment.failed", "refund.created"}

\* A transition to "NONE" stands for lookupTransition's null.
TransitionTable ==
  { [from |-> "NONE",       type |-> "payment.created",    to |-> "CREATED"],
    [from |-> "CREATED",    type |-> "payment.authorized", to |-> "AUTHORIZED"],
    [from |-> "CREATED",    type |-> "payment.failed",     to |-> "FAILED"],
    [from |-> "AUTHORIZED", type |-> "payment.captured",   to |-> "CAPTURED"],
    [from |-> "AUTHORIZED", type |-> "payment.failed",     to |-> "FAILED"],
    [from |-> "CAPTURED",   type |-> "refund.created",     to |-> "REFUNDED"] }

Allowed(from, type) ==
  \E row \in TransitionTable : row.from = from /\ row.type = type

lookupTransition(from, type) ==
  IF Allowed(from, type)
  THEN (CHOOSE row \in TransitionTable :
          row.from = from /\ row.type = type).to
  ELSE "NONE"

Successors(states) ==
  {row.to : row \in {r \in TransitionTable : r.from \in states}}

\* The breadth-first search: the longest path of the table has five rows, so
\* five rounds from a state see every state it leads to.
Reachable ==
  [from \in RecordStates |->
     LET within[n \in 0..5] ==
           IF n = 0 THEN {from}
           ELSE LET seen == within[n - 1] IN seen \cup Successors(seen)
     IN  within[5]]

reachableStates(from) == Reachable[from]

isEventuallyPossible(from, type) ==
  \E state \in reachableStates(from) : lookupTransition(state, type) # "NONE"

-----------------------------------------------------------------------------
\* currentPayment = null.
NoPayment == [pay |-> "none", state |-> "NONE", body |-> "none", last |-> 0]

\* The history holds the accepted events, oldest first.
Known(history, id) == \E i \in DOMAIN history : history[i].id = id

findProcessedEvent(history, id) ==
  history[CHOOSE i \in DOMAIN history :
            /\ history[i].id = id
            /\ \A j \in DOMAIN history : history[j].id = id => i <= j]

\* Identity aside, an event is its material: receivedAt is not modelled.
eventsMateriallyEqual(left, right) ==
  /\ left.pay = right.pay
  /\ left.type = right.type
  /\ left.at = right.at
  /\ left.body = right.body

\* Mutant: every accepted event brings its own money.
createPaymentFreshMoney(payment, event) ==
  [pay   |-> event.pay,
   state |-> lookupTransition(payment.state, event.type),
   body  |-> event.body,
   last  |-> event.at]

\* The snapshot an ACCEPTED event leads to: money is the creating event's.
createPayment(payment, event) ==
  [pay   |-> event.pay,
   state |-> lookupTransition(payment.state, event.type),
   body  |-> IF payment.state = "NONE" THEN event.body ELSE payment.body,
   last  |-> event.at]

\* The status, or for REJECTED and DELAYED the reason, of a TransitionResult.
Outcomes ==
  {"ACCEPTED", "IGNORED_DUPLICATE", "CONFLICT", "OUT_OF_ORDER",
   "INVALID_TRANSITION", "PAYMENT_ID_MISMATCH"}

processEvent(payment, event, history) ==
  IF Known(history, event.id)
  THEN IF eventsMateriallyEqual(findProcessedEvent(history, event.id), event)
       THEN "IGNORED_DUPLICATE" ELSE "CONFLICT"
  ELSE IF payment.state # "NONE" /\ payment.pay # event.pay
  THEN "PAYMENT_ID_MISMATCH"
  ELSE IF payment.state # "NONE" /\ event.at < payment.last
  THEN "OUT_OF_ORDER"
  ELSE IF lookupTransition(payment.state, event.type) = "NONE"
  THEN "INVALID_TRANSITION"
  ELSE "ACCEPTED"
=============================================================================
