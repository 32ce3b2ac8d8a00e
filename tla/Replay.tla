------------------------------- MODULE Replay -------------------------------
(***************************************************************************)
(* The ordering and replay coordinator above the payment state machine:    *)
(* replayEvents as a function of the stored events of one payment.         *)
(* ReplayLoop walks the same loop one iteration at a time; the services    *)
(* that replay a log inside a larger step use the function.                *)
(***************************************************************************)
EXTENDS PaymentStateMachine, SequencesExt

\* Mutant: no tie-break on identity.
PrecedesByTime(left, right) == left.at < right.at

\* compareWebhookEvents(left, right) < 0; input position breaks a full tie.
Precedes(left, right) ==
  \/ left.at < right.at
  \/ left.at = right.at /\ left.id < right.id

Before(events, i, j) ==
  \/ Precedes(events[i], events[j])
  \/ /\ ~Precedes(events[j], events[i])
     /\ i < j

\* Positions of the events of the payment asked for.
InScope(events, scope) == {i \in DOMAIN events : events[i].pay = scope}

\* The arrangements of the scoped events in replay order. Before is a strict
\* total order on positions, so there is exactly one.
Orderings(events, scope) ==
  LET S == InScope(events, scope)
      D == 1..Cardinality(S)
  IN  { [k \in D |-> events[place[k]]] :
          place \in {p \in [D -> S] :
                       \A i, j \in D : i < j => Before(events, p[i], p[j])} }

orderWebhookEvents(events, scope) ==
  CHOOSE s \in Orderings(events, scope) : TRUE

-----------------------------------------------------------------------------
DecisionKinds == {"ACCEPTED", "DUPLICATE", "DELAYED", "CONFLICT", "REJECTED"}

decisionRecord(from, to, decision) ==
  [from |-> from, to |-> to, decision |-> decision]

\* An event no pass has settled yet.
Open == decisionRecord("NONE", "NONE", "OPEN")

\* What the coordinator makes of a machine outcome met in `state`. Every
\* decision but DELAYED settles the event: no later pass offers it again.
classifyAttempt(outcome, state, type) ==
  IF outcome = "ACCEPTED" THEN "ACCEPTED"
  ELSE IF outcome = "IGNORED_DUPLICATE" THEN "DUPLICATE"
  ELSE IF outcome = "CONFLICT" THEN "CONFLICT"
  ELSE IF outcome = "PAYMENT_ID_MISMATCH" THEN "REJECTED"
  ELSE IF outcome = "OUT_OF_ORDER" THEN "DELAYED"
  ELSE IF isEventuallyPossible(state, type) THEN "DELAYED"
  ELSE "CONFLICT"

\* The decision for event `e` offered to a payment with a processing history.
Attempt(payment, e, history) ==
  LET outcome == processEvent(payment, e, history)
  IN  decisionRecord(payment.state,
        IF outcome = "ACCEPTED" THEN createPayment(payment, e).state
                                ELSE payment.state,
        classifyAttempt(outcome, payment.state, e.type))

\* One iteration of the pass: settled events are skipped, an accepted event
\* moves the payment and joins the history.
Offer(run, e, k) ==
  LET d == Attempt(run.payment, e, run.history)
  IN  IF run.verdict[k] # Open \/ d.decision = "DELAYED"
      THEN run
      ELSE IF d.decision = "ACCEPTED"
      THEN [payment  |-> createPayment(run.payment, e),
            history  |-> Append(run.history, e),
            verdict  |-> [run.verdict EXCEPT ![k] = d],
            progress |-> TRUE]
      ELSE [run EXCEPT !.verdict[k] = d]

Pass(run, ordered) ==
  FoldLeft(LAMBDA acc, k : Offer(acc, ordered[k], k),
           [run EXCEPT !.progress = FALSE], [k \in DOMAIN ordered |-> k])

\* The decision reported for an event: leftovers are DELAYED in the final state.
Reported(verdict, payment) ==
  [k \in DOMAIN verdict |->
     IF verdict[k] = Open
     THEN decisionRecord(payment.state, payment.state, "DELAYED")
     ELSE verdict[k]]

\* Every pass that makes progress settles an event, so the loop has stopped
\* after one pass more than there are events.
replayEvents(events, scope) ==
  LET ordered == orderWebhookEvents(events, scope)
      start == [payment  |-> NoPayment,
                history  |-> << >>,
                verdict  |-> [k \in DOMAIN ordered |-> Open],
                progress |-> TRUE]
      final == FoldLeft(LAMBDA run, n : IF run.progress THEN Pass(run, ordered)
                                                        ELSE run,
                        start, [n \in 1..Len(ordered) + 1 |-> n])
  IN  [payment   |-> final.payment,
       ordered   |-> ordered,
       decisions |-> Reported(final.verdict, final.payment)]
=============================================================================
