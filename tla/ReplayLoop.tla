----------------------------- MODULE ReplayLoop -----------------------------
(***************************************************************************)
(* The loop of replayEvents as a state machine: one step per iteration of  *)
(* the inner for, so that what holds between iterations can be stated,     *)
(* checked and proved. `input` is the stored log in the order the store    *)
(* returned it; it may hold copies of one identity and events of other     *)
(* payments.                                                               *)
(***************************************************************************)
EXTENDS Replay

CONSTANTS
  Event,    \* the normalized webhook events an input list is made of
  Inputs,   \* the lists replayEvents may be called with
  Scope     \* the payment the caller asks for

ASSUME EventAssumption ==
  /\ \A e \in Event : /\ e.id \in Nat
                      /\ e.at \in Nat
                      /\ e.type \in EventTypes
  /\ Inputs \subseteq Seq(Event)

VARIABLES
  input,     \* events, the argument
  ordered,   \* the scoped events in replay order
  index,     \* loop index of the current pass
  payment,   \* snapshot reached so far
  history,   \* accepted events, oldest first
  verdict,   \* settledDecisions, Open where an index is not settled
  progress,  \* whether the current pass accepted an event
  pc         \* "start", "pass" or "done"

vars == <<input, ordered, index, payment, history, verdict, progress, pc>>

Init ==
  /\ input \in Inputs
  /\ ordered = << >>
  /\ index = 1
  /\ payment = NoPayment
  /\ history = << >>
  /\ verdict = << >>
  /\ progress = FALSE
  /\ pc = "start"

\* Early return: no event, or none of the payment asked for.
ReturnEmpty ==
  /\ pc = "start"
  /\ InScope(input, Scope) = {}
  /\ pc' = "done"
  /\ UNCHANGED <<input, ordered, index, payment, history, verdict, progress>>

Sort ==
  /\ pc = "start"
  /\ InScope(input, Scope) # {}
  /\ ordered' \in Orderings(input, Scope)
  /\ verdict' = [k \in DOMAIN ordered' |-> Open]
  /\ pc' = "pass"
  /\ UNCHANGED <<input, index, payment, history, progress>>

-----------------------------------------------------------------------------
InPass == pc = "pass" /\ index \in DOMAIN ordered

Current == Attempt(payment, ordered[index], history)

SkipSettled ==
  /\ InPass
  /\ verdict[index] # Open
  /\ index' = index + 1
  /\ UNCHANGED <<input, ordered, payment, history, verdict, progress, pc>>

Accept ==
  /\ InPass
  /\ verdict[index] = Open
  /\ Current.decision = "ACCEPTED"
  /\ payment' = createPayment(payment, ordered[index])
  /\ history' = Append(history, ordered[index])
  /\ verdict' = [verdict EXCEPT ![index] = Current]
  /\ progress' = TRUE
  /\ index' = index + 1
  /\ UNCHANGED <<input, ordered, pc>>

\* Mutant: an event that is settled without being accepted moves the clock of
\* the payment.
SettleMovingClock ==
  /\ InPass
  /\ verdict[index] = Open
  /\ Current.decision \notin {"ACCEPTED", "DELAYED"}
  /\ payment' = [payment EXCEPT !.last = ordered[index].at]
  /\ verdict' = [verdict EXCEPT ![index] = Current]
  /\ index' = index + 1
  /\ UNCHANGED <<input, ordered, history, progress, pc>>

\* Mutant: settled events are offered again.
SettleAgain ==
  /\ InPass
  /\ Current.decision \notin {"ACCEPTED", "DELAYED"}
  /\ verdict' = [verdict EXCEPT ![index] = Current]
  /\ index' = index + 1
  /\ UNCHANGED <<input, ordered, payment, history, progress, pc>>

\* DUPLICATE, CONFLICT or REJECTED.
Settle ==
  /\ InPass
  /\ verdict[index] = Open
  /\ Current.decision \notin {"ACCEPTED", "DELAYED"}
  /\ verdict' = [verdict EXCEPT ![index] = Current]
  /\ index' = index + 1
  /\ UNCHANGED <<input, ordered, payment, history, progress, pc>>

LeaveDelayed ==
  /\ InPass
  /\ verdict[index] = Open
  /\ Current.decision = "DELAYED"
  /\ index' = index + 1
  /\ UNCHANGED <<input, ordered, payment, history, verdict, progress, pc>>

\* Mutant: another pass also when the last one made no progress.
NextPassAlways ==
  /\ pc = "pass"
  /\ index = Len(ordered) + 1
  /\ progress' = FALSE
  /\ index' = 1
  /\ UNCHANGED <<input, ordered, payment, history, verdict, pc>>

NextPass ==
  /\ pc = "pass"
  /\ index = Len(ordered) + 1
  /\ progress
  /\ progress' = FALSE
  /\ index' = 1
  /\ UNCHANGED <<input, ordered, payment, history, verdict, pc>>

\* Mutant: the loop may stop after a pass that made progress.
ReturnEarly ==
  /\ pc = "pass"
  /\ index = Len(ordered) + 1
  /\ pc' = "done"
  /\ UNCHANGED <<input, ordered, index, payment, history, verdict, progress>>

Return ==
  /\ pc = "pass"
  /\ index = Len(ordered) + 1
  /\ ~progress
  /\ pc' = "done"
  /\ UNCHANGED <<input, ordered, index, payment, history, verdict, progress>>

Next ==
  \/ ReturnEmpty \/ Sort
  \/ SkipSettled \/ Accept \/ Settle \/ LeaveDelayed
  \/ NextPass \/ Return

Spec == Init /\ [][Next]_vars

\* The loop is synchronous code: once called it runs until it returns.
FairSpec == Spec /\ WF_vars(Next)

-----------------------------------------------------------------------------
(* Properties *)

\* The variables range over what the declarations in replay.ts say.
TypeOK ==
  /\ input \in Seq(Event)
  /\ ordered \in Seq(Event)
  /\ index \in 1..Len(ordered) + 1
  /\ payment.state \in RecordStates
  /\ payment.last \in Nat
  /\ history \in Seq(Event)
  /\ verdict \in [DOMAIN ordered ->
                    [from : RecordStates, to : RecordStates,
                     decision : DecisionKinds \cup {"OPEN"}]]
  /\ progress \in BOOLEAN
  /\ pc \in {"start", "pass", "done"}

\* The one state events of this type lead to, wherever the table allows them.
Target(type) == (CHOOSE row \in TransitionTable : row.type = type).to

\* The state after the first n accepted events.
StateAfter(h, n) == IF n = 0 THEN "NONE" ELSE Target(h[n].type)

\* The accepted events are one legal history of the payment: they follow the
\* transition table from "no payment" to the snapshot's state, never step back
\* in provider time, no identity counts twice, and the money is the creating
\* event's (README of the package, "No second economic transition is
\* described" and "Money on an existing payment is copied through unchanged").
LegalHistory ==
  /\ \A n \in DOMAIN history :
       lookupTransition(StateAfter(history, n - 1), history[n].type)
         = StateAfter(history, n)
  /\ payment.state = StateAfter(history, Len(history))
  /\ \A m, n \in DOMAIN history :
       m < n => /\ history[m].at <= history[n].at
                /\ history[m].id # history[n].id
  /\ history # << >> =>
       /\ payment.last = history[Len(history)].at
       /\ payment.body = history[1].body

\* At the end no event left waiting is one the machine would accept: the loop
\* stopped at a fixed point, not one pass early.
FixedPoint ==
  pc = "done" =>
    \A k \in DOMAIN ordered :
      verdict[k] = Open =>
        processEvent(payment, ordered[k], history) # "ACCEPTED"

\* Within a scope the payment id of every event is the payment's own: the
\* decision REJECTED, which parks a webhook for good, never comes of a replay.
NeverRejected ==
  \A k \in DOMAIN verdict : verdict[k].decision # "REJECTED"

\* Input with positions i and i + 1 exchanged.
Swapped(s, i) == [s EXCEPT ![i] = s[i + 1], ![i + 1] = s[i]]

\* The loop's result is what the function says of its input and of the input in
\* any other order of arrival: exchanging two neighbours that are not two
\* versions of one identity leaves it as it is. Checked on every input list,
\* this reaches every permutation.
ArrivalOrderIrrelevant ==
  pc = "done" =>
    \A arrived \in {input} \cup {Swapped(input, i) : i \in
                      {j \in 1..Len(input) - 1 : input[j].id # input[j + 1].id}} :
      LET r == replayEvents(arrived, Scope)
      IN  /\ r.payment = payment
          /\ r.decisions = Reported(verdict, payment)

\* An event that is not accepted has no part in the snapshot: replaying the
\* log without it leads to the same payment. This is what allows the outcome
\* writer to leave the payments row alone unless its own event was ACCEPTED.
UnacceptedEventsInert ==
  pc = "done" =>
    \A k \in DOMAIN ordered :
      verdict[k].decision # "ACCEPTED" =>
        replayEvents(RemoveAt(ordered, k), Scope).payment = payment

\* README of the package: "Leftover events that are not eventually possible
\* become `CONFLICT`."
ImpossibleLeftoversConflict ==
  pc = "done" =>
    \A k \in DOMAIN ordered :
      Reported(verdict, payment)[k].decision = "DELAYED" =>
        isEventuallyPossible(payment.state, ordered[k].type)

\* A settled decision is final: no later pass revises it.
DecisionsAreFinal ==
  [][\A k \in DOMAIN verdict : verdict[k] # Open => verdict'[k] = verdict[k]]_vars

\* The loop returns on every input.
Terminates == <>(pc = "done")
=============================================================================
