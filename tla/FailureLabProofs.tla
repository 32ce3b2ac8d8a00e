--------------------------- MODULE FailureLabProofs ---------------------------
(***************************************************************************)
(* Theorems of FailureLab: what a reset leaves behind, whatever else goes  *)
(* on, and that an event takes effect once as long as leases outlast the   *)
(* attempts they are for.                                                  *)
(***************************************************************************)
EXTENDS FailureLab, TLAPS

HandFields == {"step", "replies", "outcome", "now", "since", "ticking", "ticks",
               "thrown", "batch", "id", "att", "again", "result", "state"}

RowFields == {"status", "att", "next", "lease", "failed"}

LabIds == {id \in Identity : isFailureLabPaymentId(id)}

\* The tables have a row for every id.
TableShapes ==
  /\ DOMAIN stored = Identity /\ DOMAIN status = Identity
  /\ DOMAIN row = Identity /\ DOMAIN payment = Account
  /\ \A id \in Identity : DOMAIN row[id] = RowFields
  /\ audit \in [Identity -> [AuditTypes -> Nat]]

\* A hand holds what hands hold, and the ids in it are ids.
Graspable(h) ==
  /\ DOMAIN h = HandFields
  /\ h.id \in Identity
  /\ \A c \in h.batch : c.id \in Identity /\ DOMAIN c = {"id", "att", "again"}

HandShapes ==
  /\ DOMAIN pc = Proc /\ DOMAIN hand = Proc
  /\ \A p \in Proc : Graspable(hand[p])

\* An event is stored exactly if it has a status, and none under no id.
Existing ==
  /\ \A id \in Identity : stored[id] = NoEvent <=> status[id] = "ABSENT"
  /\ stored[Nowhere] = NoEvent

\* Retry and audit rows refer to an event.
Attached ==
  \A id \in Identity :
    stored[id] = NoEvent => row[id] = NoRow /\ audit[id] = NoAudit

\* A payment has an event.
Projected ==
  \A a \in Account :
    payment[a] # "NONE" =>
      \E id \in EventsOf(a[1]) : stored[id] # NoEvent /\ PayOf(id) = a[2]

\* The purge has deleted rows of the lab's, retry rows of the events it has
\* selected, and no more audit rows than there are.
PurgeHolds ==
  /\ reset \in {"idle", "children", "parents", "done", "failed"}
  /\ reset # "idle" => scope \subseteq LabIds
  /\ DOMAIN gone = IF reset = "parents" THEN LabIds ELSE {}
  /\ \A id \in DOMAIN gone :
       /\ gone[id].row # NoRow => id \in scope
       /\ gone[id].audit \in [AuditTypes -> Nat]
       /\ \A t \in AuditTypes : gone[id].audit[t] <= audit[id][t]

RowsInv ==
  /\ TableShapes
  /\ Existing
  /\ Attached
  /\ Projected
  /\ PurgeHolds

TablesInv ==
  /\ plan \in Plans
  /\ HandShapes
  /\ RowsInv

\* The row of a claimed event says so.
HeldRows ==
  \A p \in Proc : \A id \in Identity \ {Nowhere} :
    Holds(p, id) => row[id].status = "PROCESSING"

\* Nobody else has claimed it, nor has its holder twice.
OneHolder ==
  \A p, q \in Proc : \A id \in Identity \ {Nowhere} :
    Holds(p, id) /\ Holds(q, id) => p = q

HeldOnce ==
  \A p \in Proc :
    /\ \A c, d \in hand[p].batch : c.id = d.id => c = d \/ c.id = Nowhere
    /\ pc[p] \in Attempting =>
         \A c \in hand[p].batch : c.id = hand[p].id => c.id = Nowhere

\* A decision waits to be written for an event that still awaits it.
DecidedOpen ==
  \A p \in Proc :
    /\ pc[p] = "commit" /\ hand[p].result \in DecisionKinds
    /\ hand[p].id # Nowhere
    => status[hand[p].id] = "PROCESSING"

\* What is not processed has had no effect.
Unapplied ==
  \A id \in Identity :
    status[id] # "PROCESSED" =>
      audit[id]["PAYMENT_STATE_CHANGED"] = 0 /\ audit[id]["WEBHOOK_DELAYED"] = 0

ClaimsInv ==
  /\ HeldRows
  /\ OneHolder
  /\ HeldOnce
  /\ DecidedOpen
  /\ Unapplied
  /\ OneEffect

-----------------------------------------------------------------------------
(* What is posted is an event *)

Posted(s) == \A d \in ToSet(generateDeliveries(s)) : d # NoEvent

LEMMA PostedNormal == Posted(NORMAL_FLOW)
BY DEF Posted, ToSet, generateDeliveries, NORMAL_FLOW, event, send, NoEvent,
       AMOUNT, T0, T1, T2

LEMMA PostedDuplicate == Posted(DUPLICATE_DELIVERY)
BY DEF Posted, ToSet, generateDeliveries, DUPLICATE_DELIVERY, event, send,
       resend, NoEvent, AMOUNT, T0, T1, T2

LEMMA PostedOutOfOrder == Posted(OUT_OF_ORDER)
BY DEF Posted, ToSet, generateDeliveries, OUT_OF_ORDER, event, send, NoEvent,
       AMOUNT, T0, T1, T2

LEMMA PostedConflict == Posted(CONFLICT)
BY DEF Posted, ToSet, generateDeliveries, CONFLICT, event, send, conflict,
       NoEvent, AMOUNT, T0, T1, T2

LEMMA PostedRetry == Posted(RETRY_FAILURE)
BY DEF Posted, ToSet, generateDeliveries, RETRY_FAILURE, event, send, NoEvent,
       AMOUNT, T0, T1, T2

LEMMA PostedPermanent == Posted(PERMANENT_FAILURE)
BY DEF Posted, ToSet, generateDeliveries, PERMANENT_FAILURE, event, send,
       NoEvent, AMOUNT, T0, T1, T2

LEMMA PostedMulti == Posted(MULTI_PAYMENT)
BY DEF Posted, ToSet, generateDeliveries, MULTI_PAYMENT, event, send, NoEvent,
       AMOUNT, T0, T1, T2

LEMMA PostedRazorpay == Posted(RAZORPAY_SHAPED_DUPLICATE)
BY DEF Posted, ToSet, generateDeliveries, RAZORPAY_SHAPED_DUPLICATE, event, send,
       resend, NoEvent, AMOUNT, T0, T1, T2

LEMMA PostedAgain ==
  LET generated == generateDeliveries(RETRY_FAILURE)
  IN  \A d \in ToSet(Append(generated, generated[1])) : d # NoEvent
<1> DEFINE generated == generateDeliveries(RETRY_FAILURE)
<1>1. generated = <<RETRY_FAILURE.events[1]>>
  BY DEF generateDeliveries, RETRY_FAILURE, event, send
<1>2. ASSUME NEW x
      PROVE  ToSet(Append(<<x>>, x)) = {x}
  <2>1. <<x>> \in Seq({x}) /\ Len(<<x>>) = 1
    OBVIOUS
  <2>2. Append(<<x>>, x) \in Seq({x}) /\ Len(Append(<<x>>, x)) = 2
    BY <2>1
  <2>. QED
    BY <2>1, <2>2 DEF ToSet
<1>3. generated[1] = RETRY_FAILURE.events[1] /\ generated[1] # NoEvent
  BY <1>1 DEF RETRY_FAILURE, event, send, NoEvent, AMOUNT, T0
<1>. QED
  BY <1>1, <1>2, <1>3

LEMMA PostedByLab ==
  ASSUME NEW n \in FAILURE_LAB_SCENARIO
  PROVE  \A d \in ToSet(labDeliveries(n)) : d # NoEvent
<1>1. CASE n = "GOLDEN_DEMO"
  <2>1. simulatorScenarioForLab(n) = RETRY_FAILURE
    BY <1>1 DEF simulatorScenarioForLab
  <2>. QED
    BY <1>1, <2>1, PostedAgain DEF labDeliveries
<1>2. CASE n # "GOLDEN_DEMO"
  <2>1. labDeliveries(n) = generateDeliveries(simulatorScenarioForLab(n))
    BY <1>2 DEF labDeliveries
  <2>2. simulatorScenarioForLab(n) \in
          {DUPLICATE_DELIVERY, OUT_OF_ORDER, CONFLICT, RETRY_FAILURE,
           RAZORPAY_SHAPED_DUPLICATE, PERMANENT_FAILURE}
    BY DEF simulatorScenarioForLab
  <2>3. Posted(simulatorScenarioForLab(n))
    BY <2>2, PostedDuplicate, PostedOutOfOrder, PostedConflict, PostedRetry,
       PostedRazorpay, PostedPermanent
  <2>. QED
    BY <2>1, <2>3 DEF Posted
<1>. QED
  BY <1>1, <1>2

LEMMA PostedByCommand ==
  ASSUME NEW n \in DOMAIN SCENARIOS
  PROVE  Posted(SCENARIOS[n])
<1>1. DOMAIN SCENARIOS = {"NORMAL_FLOW", "DUPLICATE_DELIVERY", "OUT_OF_ORDER",
                          "CONFLICT", "RETRY_FAILURE", "PERMANENT_FAILURE",
                          "MULTI_PAYMENT"}
  BY DEF SCENARIOS
<1>2. SCENARIOS[n] \in {NORMAL_FLOW, DUPLICATE_DELIVERY, OUT_OF_ORDER, CONFLICT,
                        RETRY_FAILURE, PERMANENT_FAILURE, MULTI_PAYMENT}
  BY <1>1 DEF SCENARIOS
<1>. QED
  BY <1>2, PostedNormal, PostedDuplicate, PostedOutOfOrder, PostedConflict,
     PostedRetry, PostedPermanent, PostedMulti

\* Nobody posts the absence of an event.
LEMMA EventsArePosted ==
  ASSUME plan \in Plans, NEW p \in Proc, NEW d \in ToSet(Deliveries(p))
  PROVE  d # NoEvent
<1>0. /\ Lab \subseteq Run /\ Simulated \subseteq Run
      /\ \A r \in Run : plan.of[r] \in
           [kind : {"lab"}, id : FAILURE_LAB_SCENARIO]
             \cup [kind : {"simulate"}, id : DOMAIN SCENARIOS] \cup {NoRun}
  BY FailureLabAssumption DEF Lab, Simulated
<1>. Lab \cap Simulated = {} /\ "live" \notin Lab \cup Simulated
  BY FailureLabAssumption DEF Lab, Simulated
<1>1. CASE p \in Lab
  <2>1. plan.of[p].id \in FAILURE_LAB_SCENARIO
    BY <1>0, <1>1 DEF Lab, NoRun
  <2>2. Deliveries(p) = labDeliveries(plan.of[p].id)
    BY <1>1 DEF Deliveries
  <2>. QED
    BY <2>1, <2>2, PostedByLab
<1>2. CASE p \notin Lab /\ p \in Simulated
  <2>1. plan.of[p].id \in DOMAIN SCENARIOS
    BY <1>0, <1>2 DEF Simulated, NoRun
  <2>2. Deliveries(p) = generateDeliveries(SCENARIOS[plan.of[p].id])
    BY <1>2 DEF Deliveries
  <2>. QED
    BY <2>1, <2>2, PostedByCommand DEF Posted
<1>3. CASE p \notin Lab /\ p \notin Simulated /\ p = "live"
  <2>1. Deliveries(p) = generateDeliveries(RETRY_FAILURE)
    BY <1>3 DEF Deliveries
  <2>. QED
    BY <2>1, PostedRetry DEF Posted
<1>4. CASE p \notin Lab /\ p \notin Simulated /\ p # "live"
  <2>1. Deliveries(p) = << >>
    BY <1>4 DEF Deliveries
  <2>. QED
    BY <2>1 DEF ToSet
<1>. QED
  BY <1>1, <1>2, <1>3, <1>4

\* An identity is of some process's event, or of none.
LEMMA Identities ==
  ASSUME plan \in Plans
  PROVE  /\ \A p \in Proc : \A x : <<p, x>> # Nowhere
         /\ Nowhere \in Identity
         /\ \A p \in Proc : EventsOf(p) \subseteq Identity
         /\ \A id \in Identity \ {Nowhere} : id[1] \in Proc /\ id \in EventsOf(id[1])
         /\ Nowhere \notin LabIds
         /\ \A id \in Identity \ {Nowhere} : <<id[1], PayOf(id)>> \in Account
<1>1. "none" \notin Proc
  BY FailureLabAssumption DEF Proc
<1>2. \A p \in Proc : \A x : <<p, x>> # Nowhere
  BY <1>1 DEF Nowhere
<1>3. \A p \in Proc : \A id \in EventsOf(p) :
        id[1] = p /\ id[2] \in {d.id : d \in ToSet(Deliveries(p))}
  BY DEF EventsOf
<1>4. \A id \in Identity \ {Nowhere} : id[1] \in Proc /\ id \in EventsOf(id[1])
  <2>. SUFFICES ASSUME NEW id \in Identity, id # Nowhere
                PROVE  id[1] \in Proc /\ id \in EventsOf(id[1])
    OBVIOUS
  <2>1. PICK p \in Proc : id \in EventsOf(p)
    BY DEF Identity
  <2>. QED
    BY <1>3, <2>1
<1>5. Nowhere \notin LabIds
  BY <1>1 DEF LabIds, isFailureLabPaymentId, Lab, Proc, Nowhere
<1>6. ASSUME NEW id \in Identity \ {Nowhere}
      PROVE  <<id[1], PayOf(id)>> \in Account
  <2>1. \E d \in ToSet(Deliveries(id[1])) : d.id = id[2]
    BY <1>3, <1>4
  <2>2. \E d \in ToSet(Deliveries(id[1])) : d.pay = PayOf(id)
    BY <2>1 DEF PayOf
  <2>3. \A p \in Proc : \A d \in ToSet(Deliveries(p)) : <<p, d.pay>> \in Account
    BY DEF Account
  <2>. QED
    BY <1>4, <2>2, <2>3
<1>7. Nowhere \in Identity
  BY DEF Identity
<1>8. \A p \in Proc : EventsOf(p) \subseteq Identity
  BY DEF Identity
<1>. QED
  BY <1>2, <1>4, <1>5, <1>6, <1>7, <1>8

-----------------------------------------------------------------------------
(* Hands *)

\* What a plan fixes stays as it is.
LEMMA PlanFixed ==
  ASSUME plan' = plan
  PROVE  /\ Lab' = Lab /\ Simulated' = Simulated
         /\ Identity' = Identity /\ Account' = Account /\ LabIds' = LabIds
         /\ \A p : Deliveries(p)' = Deliveries(p)
         /\ \A p : EventsOf(p)' = EventsOf(p)
         /\ \A id : PayOf(id)' = PayOf(id)
         /\ \A id : isFailureLabPaymentId(id)' = isFailureLabPaymentId(id)
<1>1. Lab' = Lab /\ Simulated' = Simulated
  BY DEF Lab, Simulated
<1>2. \A p : Deliveries(p)' = Deliveries(p)
  BY <1>1 DEF Deliveries
<1>3. \A p : EventsOf(p)' = EventsOf(p)
  BY <1>2 DEF EventsOf
<1>4. Identity' = Identity
  BY <1>3 DEF Identity
<1>5. Account' = Account
  BY <1>2 DEF Account
<1>6. \A id : PayOf(id)' = PayOf(id)
  BY <1>2 DEF PayOf
<1>7. \A id : isFailureLabPaymentId(id)' = isFailureLabPaymentId(id)
  BY <1>1 DEF isFailureLabPaymentId
<1>8. LabIds' = LabIds
  BY <1>4, <1>7 DEF LabIds
<1>. QED
  BY <1>1, <1>2, <1>3, <1>4, <1>5, <1>6, <1>7, <1>8

LEMMA IdleGraspable ==
  ASSUME plan \in Plans
  PROVE  Graspable(Idle) /\ Idle.id = Nowhere /\ Idle.batch = {}
BY Identities DEF Graspable, Idle, HandFields

\* One process takes something else in hand.
LEMMA OneHandMoves ==
  ASSUME HandShapes, plan' = plan, NEW p \in Proc, NEW h, NEW to,
         Graspable(h), hand' = [hand EXCEPT ![p] = h],
         pc' = [pc EXCEPT ![p] = to]
  PROVE  HandShapes'
<1>1. DOMAIN pc' = Proc /\ DOMAIN hand' = Proc
  BY DEF HandShapes
<1>2. \A q \in Proc : Graspable(hand'[q])
  BY DEF HandShapes
<1>3. \A g : Graspable(g)' <=> Graspable(g)
  BY PlanFixed DEF Graspable
<1>. QED
  BY <1>1, <1>2, <1>3, PlanFixed DEF HandShapes

LEMMA HandsStay ==
  ASSUME HandShapes, plan' = plan, hand' = hand, DOMAIN pc' = DOMAIN pc
  PROVE  HandShapes'
BY PlanFixed DEF HandShapes, Graspable

LEMMA RepliedHands ==
  ASSUME HandShapes, plan' = plan, NEW p \in Proc, NEW http, Reply(p, http)
  PROVE  HandShapes'
<1>. DEFINE h == [hand[p] EXCEPT !.replies = Append(@, http)]
<1>1. Graspable(h)
  BY DEF HandShapes, Graspable, HandFields
<1>2. hand' = [hand EXCEPT ![p] = h]
  BY DEF Reply
<1>. HIDE DEF h
<1>. QED
  BY <1>1, <1>2, OneHandMoves DEF Reply

LEMMA ThrownHands ==
  ASSUME plan \in Plans, HandShapes, plan' = plan, NEW p \in Proc, Thrown(p)
  PROVE  HandShapes'
<1>1. CASE Reply(p, failed)
  BY <1>1, RepliedHands
<1>2. CASE hand' = [hand EXCEPT ![p] = Idle]
           /\ pc' = [pc EXCEPT ![p] = IF p = "worker" THEN "idle" ELSE "done"]
  BY <1>2, IdleGraspable, OneHandMoves
<1>. QED
  BY <1>1, <1>2 DEF Thrown

LEMMA PlanStays ==
  ASSUME [Next]_vars
  PROVE  plan' = plan
<1>1. ASSUME NEW p \in Proc, Act(p) PROVE plan' = plan
  <2>1. CASE Start(p) \/ Post(p) \/ Ensure(p) \/ Observe(p)
    BY <2>1, ZenonT(60) DEF Start, Post, Ensure, Observe
  <2>2. CASE ClaimDue(p) \/ TakeRecord(p) \/ EndTick(p)
    BY <2>2, ZenonT(60) DEF ClaimDue, TakeRecord, EndTick
  <2>3. CASE Work(p) \/ Commit(p) \/ Settle(p)
    BY <2>3, SMTT(40) DEF Work, Commit, Settle
  <2>. QED
    BY <1>1, <2>1, <2>2, <2>3 DEF Act, ProcessAttempt
<1>2. ASSUME NEW r \in Run, Drain(r) \/ DrainSimulated(r) \/ Report(r)
      PROVE  plan' = plan
  BY <1>2 DEF Drain, DrainSimulated, Report
<1>3. CASE StartTick \/ PurgeSelect \/ PurgeChildren \/ Crash \/ Tick
  BY <1>3 DEF StartTick, PurgeSelect, PurgeChildren, Crash, Tick
<1>4. CASE PurgeParents \/ UNCHANGED vars
  BY <1>4 DEF PurgeParents, vars
<1>. QED
  BY <1>1, <1>2, <1>3, <1>4 DEF Next

\* Whatever a process does, it takes something graspable in hand.
LEMMA HandsKeepShape ==
  ASSUME TablesInv, [Next]_vars
  PROVE  HandShapes'
<1>0. plan' = plan
  BY PlanStays
<1>. USE <1>0
<1>. HandShapes /\ plan \in Plans
  BY DEF TablesInv
<1>1. ASSUME NEW p \in Proc, Start(p) PROVE HandShapes'
  BY <1>1, HandsStay DEF Start, Goto
<1>2. ASSUME NEW p \in Proc, Post(p) PROVE HandShapes'
  <2>. DEFINE d == Deliveries(p)[hand[p].step + 1]
              id == <<p, d.id>>
              outcome == IF stored[id] = NoEvent THEN "STORED"
                         ELSE IF stored[id] = d THEN "DUPLICATE" ELSE "CONFLICT"
              h == [hand[p] EXCEPT !.step = @ + 1, !.id = id,
                                   !.outcome = outcome, !.now = Sampled(p),
                                   !.since = clock]
  <2>1. hand' = [hand EXCEPT ![p] = h]
    BY <1>2, ZenonT(60) DEF Post
  <2>2. id \in Identity
    <3>1. d \in ToSet(Deliveries(p))
      BY <1>2 DEF Post, ToSet
    <3>. QED
      BY <3>1, Identities DEF EventsOf
  <2>3. Graspable(h)
    BY <2>2, SMTT(40) DEF HandShapes, Graspable, HandFields
  <2>4. \E to : pc' = [pc EXCEPT ![p] = to]
    BY <1>2 DEF Post, Goto
  <2>. HIDE DEF h
  <2>. QED
    BY <2>1, <2>3, <2>4, OneHandMoves
<1>3. ASSUME NEW p \in Proc, Ensure(p) PROVE HandShapes'
  <2>1. CASE Thrown(p)
    BY <2>1, ThrownHands
  <2>2. CASE hand' = hand /\ pc' = [pc EXCEPT ![p] = "observe"]
    BY <2>2, HandsStay
  <2>3. CASE /\ hand' = [hand EXCEPT ![p].att = 1, ![p].again = FALSE]
             /\ pc' = [pc EXCEPT ![p] = "work"]
    <3>. DEFINE h == [hand[p] EXCEPT !.att = 1, !.again = FALSE]
    <3>1. hand' = [hand EXCEPT ![p] = h]
      BY <2>3
    <3>2. Graspable(h)
      BY DEF HandShapes, Graspable, HandFields
    <3>. HIDE DEF h
    <3>. QED
      BY <2>3, <3>1, <3>2, OneHandMoves
  <2>. QED
    BY <1>3, <2>1, <2>2, <2>3 DEF Ensure
<1>4. ASSUME NEW p \in Proc, Observe(p) PROVE HandShapes'
  <2>1. \E http : Reply(p, http)
    BY <1>4 DEF Observe
  <2>. QED
    BY <2>1, RepliedHands
<1>5. ASSUME NEW p \in Proc, ClaimDue(p) PROVE HandShapes'
  <2>1. PICK S \in SUBSET Identity :
          hand' = [hand EXCEPT ![p].batch =
                     {[id |-> id, att |-> row[id].att + 1,
                       again |-> row[id].att > 0 \/ row[id].failed] : id \in S}]
    BY <1>5 DEF ClaimDue
  <2>. DEFINE h == [hand[p] EXCEPT !.batch =
                      {[id |-> id, att |-> row[id].att + 1,
                        again |-> row[id].att > 0 \/ row[id].failed] : id \in S}]
  <2>2. hand' = [hand EXCEPT ![p] = h]
    BY <2>1
  <2>3. Graspable(h)
    BY DEF HandShapes, Graspable, HandFields
  <2>. HIDE DEF h
  <2>. QED
    BY <1>5, <2>2, <2>3, OneHandMoves DEF ClaimDue, Goto
<1>6. ASSUME NEW p \in Proc, TakeRecord(p) PROVE HandShapes'
  <2>1. PICK c \in hand[p].batch :
          hand' = [hand EXCEPT ![p].batch = @ \ {c}, ![p].id = c.id,
                               ![p].att = c.att, ![p].again = c.again]
    BY <1>6 DEF TakeRecord
  <2>. DEFINE h == [hand[p] EXCEPT !.batch = @ \ {c}, !.id = c.id,
                                   !.att = c.att, !.again = c.again]
  <2>2. hand' = [hand EXCEPT ![p] = h]
    BY <2>1
  <2>3. Graspable(h)
    BY DEF HandShapes, Graspable, HandFields
  <2>. HIDE DEF h
  <2>. QED
    BY <1>6, <2>2, <2>3, OneHandMoves DEF TakeRecord, Goto
<1>7. ASSUME NEW p \in Proc, EndTick(p) PROVE HandShapes'
  <2>. DEFINE h == IF p = "worker" THEN Idle
                   ELSE [hand[p] EXCEPT !.ticking = FALSE]
  <2>1. hand' = [hand EXCEPT ![p] = h]
    BY <1>7 DEF EndTick
  <2>2. Graspable(h)
    BY IdleGraspable DEF HandShapes, Graspable, HandFields
  <2>3. \E to : pc' = [pc EXCEPT ![p] = to]
    BY <1>7 DEF EndTick, Goto
  <2>. HIDE DEF h
  <2>. QED
    BY <2>1, <2>2, <2>3, OneHandMoves
<1>8. ASSUME NEW p \in Proc, Work(p) PROVE HandShapes'
  <2>1. CASE \E result : hand' = [hand EXCEPT ![p].result = result]
    <3>1. PICK result : hand' = [hand EXCEPT ![p].result = result]
      BY <2>1
    <3>. DEFINE h == [hand[p] EXCEPT !.result = result]
    <3>2. Graspable(h)
      BY DEF HandShapes, Graspable, HandFields
    <3>3. hand' = [hand EXCEPT ![p] = h]
      BY <3>1
    <3>. HIDE DEF h
    <3>. QED
      BY <1>8, <3>2, <3>3, OneHandMoves DEF Work, Goto
  <2>2. CASE \E result, state : Attempted(p, result, state)
    <3>1. PICK result, state : Attempted(p, result, state)
      BY <2>2
    <3>. DEFINE thrown == IF Injects(p, hand[p].id) THEN hand[p].thrown + 1
                          ELSE hand[p].thrown
                h == [hand[p] EXCEPT !.result = result, !.state = state,
                                     !.thrown = thrown]
    <3>2. Graspable(h)
      BY DEF HandShapes, Graspable, HandFields
    <3>3. hand' = [hand EXCEPT ![p] = h]
      BY <3>1 DEF Attempted
    <3>. HIDE DEF h
    <3>. QED
      BY <1>8, <3>2, <3>3, OneHandMoves DEF Work, Goto
  <2>. QED
    BY <1>8, <2>1, <2>2 DEF Work
<1>9. ASSUME NEW p \in Proc, Commit(p) PROVE HandShapes'
  <2>1. Thrown(p) \/ (hand' = hand /\ pc' = [pc EXCEPT ![p] = "settle"])
    BY <1>9 DEF Commit
  <2>. QED
    BY <2>1, ThrownHands, HandsStay
<1>10. ASSUME NEW p \in Proc, Settle(p) PROVE HandShapes'
  <2>1. Thrown(p) \/ (hand' = hand /\ \E to : pc' = [pc EXCEPT ![p] = to])
    BY <1>10 DEF Settle
  <2>. QED
    BY <2>1, ThrownHands, HandsStay
<1>11. ASSUME StartTick PROVE HandShapes'
  <2>. DEFINE h == [Idle EXCEPT !.ticking = TRUE, !.now = clock, !.since = clock]
  <2>1. Graspable(h)
    BY IdleGraspable DEF Graspable, HandFields
  <2>2. hand' = [hand EXCEPT !["worker"] = h] /\ "worker" \in Proc
    BY <1>11 DEF StartTick, Proc
  <2>. HIDE DEF h
  <2>. QED
    BY <1>11, <2>1, <2>2, OneHandMoves DEF StartTick, Goto
<1>12. ASSUME NEW p \in Run, Drain(p) PROVE HandShapes'
  <2>. p \in Proc
    BY DEF Proc
  <2>1. CASE hand' = [hand EXCEPT ![p].ticks = 0]
    <3>. DEFINE h == [hand[p] EXCEPT !.ticks = 0]
    <3>1. Graspable(h)
      BY DEF HandShapes, Graspable, HandFields
    <3>2. hand' = [hand EXCEPT ![p] = h]
      BY <2>1
    <3>3. \E to : pc' = [pc EXCEPT ![p] = to]
      BY <1>12 DEF Drain, Goto
    <3>. HIDE DEF h
    <3>. QED
      BY <3>1, <3>2, <3>3, OneHandMoves
  <2>2. CASE \E now : hand' = [hand EXCEPT ![p].ticking = TRUE,
                                 ![p].ticks = @ + 1, ![p].now = now,
                                 ![p].since = clock]
    <3>1. PICK now : hand' = [hand EXCEPT ![p].ticking = TRUE,
                                ![p].ticks = @ + 1, ![p].now = now,
                                ![p].since = clock]
      BY <2>2
    <3>. DEFINE h == [hand[p] EXCEPT !.ticking = TRUE, !.ticks = @ + 1,
                                     !.now = now, !.since = clock]
    <3>2. Graspable(h)
      BY DEF HandShapes, Graspable, HandFields
    <3>3. hand' = [hand EXCEPT ![p] = h]
      BY <3>1
    <3>4. \E to : pc' = [pc EXCEPT ![p] = to]
      BY <1>12 DEF Drain, Goto
    <3>. HIDE DEF h
    <3>. QED
      BY <3>2, <3>3, <3>4, OneHandMoves
  <2>. QED
    BY <1>12, <2>1, <2>2 DEF Drain
<1>13. ASSUME NEW p \in Run, DrainSimulated(p) PROVE HandShapes'
  <2>1. CASE hand' = hand
    BY <1>13, <2>1, HandsStay DEF DrainSimulated, Goto
  <2>2. CASE \E now : hand' = [hand EXCEPT ![p].ticking = TRUE,
                                 ![p].ticks = @ + 1, ![p].now = now,
                                 ![p].since = clock]
    <3>1. PICK now : hand' = [hand EXCEPT ![p].ticking = TRUE,
                                ![p].ticks = @ + 1, ![p].now = now,
                                ![p].since = clock]
      BY <2>2
    <3>. DEFINE h == [hand[p] EXCEPT !.ticking = TRUE, !.ticks = @ + 1,
                                     !.now = now, !.since = clock]
    <3>2. Graspable(h) /\ p \in Proc
      BY DEF HandShapes, Graspable, HandFields, Proc
    <3>3. hand' = [hand EXCEPT ![p] = h]
      BY <3>1
    <3>4. \E to : pc' = [pc EXCEPT ![p] = to]
      BY <1>13 DEF DrainSimulated, Goto
    <3>. HIDE DEF h
    <3>. QED
      BY <3>2, <3>3, <3>4, OneHandMoves
  <2>. QED
    BY <1>13, <2>1, <2>2 DEF DrainSimulated
<1>14. ASSUME NEW p \in Run, Report(p) PROVE HandShapes'
  <2>. p \in Proc
    BY DEF Proc
  <2>. QED
    BY <1>14, IdleGraspable, OneHandMoves DEF Report, Goto
<1>15. ASSUME PurgeSelect \/ PurgeChildren \/ Tick \/ UNCHANGED vars
       PROVE  HandShapes'
  BY <1>15, HandsStay DEF PurgeSelect, PurgeChildren, Tick, vars
<1>16. ASSUME PurgeParents PROVE HandShapes'
  <2>1. CASE hand' = hand
    BY <1>16, <2>1, HandsStay DEF PurgeParents
  <2>2. CASE Purged
    <3>1. \A id \in Identity : Forgotten(id) \in Identity
      BY Identities DEF Forgotten
    <3>2. DOMAIN hand' = Proc /\ DOMAIN pc' = Proc
      BY <1>16, <2>2 DEF Purged, PurgeParents, HandShapes
    <3>3. ASSUME NEW q \in Proc PROVE Graspable(hand'[q])
      <4>1. hand'[q] = [hand[q] EXCEPT !.id = Forgotten(@),
               !.batch = {[c EXCEPT !.id = Forgotten(@)] : c \in @}]
        BY <2>2 DEF Purged
      <4>. QED
        BY <3>1, <4>1 DEF HandShapes, Graspable, HandFields
    <3>4. \A g : Graspable(g)' <=> Graspable(g)
      BY PlanFixed DEF Graspable
    <3>. QED
      BY <3>2, <3>3, <3>4 DEF HandShapes
  <2>. QED
    BY <1>16, <2>1, <2>2 DEF PurgeParents
<1>17. ASSUME Crash PROVE HandShapes'
  <2>1. DOMAIN hand' = Proc /\ DOMAIN pc' = Proc
    BY <1>17 DEF Crash
  <2>2. \A q \in Proc : Graspable(hand'[q])
    BY <1>17, IdleGraspable DEF Crash, HandShapes
  <2>3. \A g : Graspable(g)' <=> Graspable(g)
    BY PlanFixed DEF Graspable
  <2>. QED
    BY <2>1, <2>2, <2>3 DEF HandShapes
<1>. QED
  BY <1>1, <1>2, <1>3, <1>4, <1>5, <1>6, <1>7, <1>8, <1>9, <1>10, <1>11, <1>12,
     <1>13, <1>14, <1>15, <1>16, <1>17 DEF Next, Act, ProcessAttempt

-----------------------------------------------------------------------------
(* Tables *)

LEMMA RowsStay ==
  ASSUME RowsInv, plan' = plan, UNCHANGED <<tables, purge>>
  PROVE  RowsInv'
<1>. USE PlanFixed DEF tables, purge
<1>1. TableShapes'
  BY DEF RowsInv, TableShapes
<1>2. Existing' /\ Attached'
  BY DEF RowsInv, Existing, Attached
<1>3. Projected'
  BY DEF RowsInv, Projected
<1>4. PurgeHolds'
  BY DEF RowsInv, PurgeHolds
<1>. QED
  BY <1>1, <1>2, <1>3, <1>4 DEF RowsInv

LEMMA AuditGrows ==
  ASSUME RowsInv, NEW id \in Identity, NEW types, audit' = Appended(id, types)
  PROVE  /\ audit' \in [Identity -> [AuditTypes -> Nat]]
         /\ \A j \in Identity : \A t \in AuditTypes :
              audit[j][t] \in Nat /\ audit'[j][t] \in Nat
                /\ audit[j][t] <= audit'[j][t]
         /\ \A j \in Identity : j # id => audit'[j] = audit[j]
         /\ \A t \in AuditTypes :
              audit'[id][t] = IF t \in types THEN audit[id][t] + 1 ELSE audit[id][t]
<1>. audit \in [Identity -> [AuditTypes -> Nat]]
  BY DEF RowsInv, TableShapes
<1>1. [t \in AuditTypes |-> IF t \in types THEN audit[id][t] + 1 ELSE audit[id][t]]
        \in [AuditTypes -> Nat]
  OBVIOUS
<1>2. audit' = [audit EXCEPT ![id] =
        [t \in AuditTypes |-> IF t \in types THEN audit[id][t] + 1 ELSE audit[id][t]]]
  BY DEF Appended
<1>. QED
  BY <1>1, <1>2

\* What keeps the tables in order outside the purge: nothing is deleted, and
\* what is added refers to an event.
LEMMA RowsKeep ==
  ASSUME RowsInv, plan' = plan, UNCHANGED purge,
         DOMAIN stored' = Identity, DOMAIN status' = Identity,
         DOMAIN row' = Identity, DOMAIN payment' = Account,
         \A id \in Identity : DOMAIN row'[id] = RowFields,
         audit' \in [Identity -> [AuditTypes -> Nat]],
         \A id \in Identity : \A t \in AuditTypes : audit[id][t] <= audit'[id][t],
         \A id \in Identity : stored'[id] = NoEvent <=> status'[id] = "ABSENT",
         stored'[Nowhere] = NoEvent,
         \A id \in Identity : stored'[id] = NoEvent =>
           stored[id] = NoEvent /\ row'[id] = NoRow /\ audit'[id] = NoAudit,
         \A a \in Account : payment'[a] # "NONE" =>
           \/ payment[a] # "NONE"
           \/ \E id \in EventsOf(a[1]) : stored'[id] # NoEvent /\ PayOf(id) = a[2]
  PROVE  RowsInv'
<1>. USE PlanFixed
<1>1. TableShapes'
  BY DEF TableShapes
<1>2. Existing' /\ Attached'
  BY DEF Existing, Attached
<1>3. Projected'
  <2>1. \A a \in Account : a[1] \in Proc
    BY DEF Account
  <2>2. \A a \in Account : EventsOf(a[1]) \subseteq Identity
    BY <2>1 DEF Identity
  <2>. QED
    BY <2>2 DEF RowsInv, Projected
<1>4. PurgeHolds'
  <2>1. reset' = reset /\ scope' = scope /\ gone' = gone
    BY DEF purge
  <2>2. DOMAIN gone \subseteq Identity
    BY DEF RowsInv, PurgeHolds, LabIds
  <2>3. audit \in [Identity -> [AuditTypes -> Nat]]
    BY DEF RowsInv, TableShapes
  <2>4. ASSUME NEW id \in DOMAIN gone, NEW t \in AuditTypes
        PROVE  gone[id].audit[t] <= audit'[id][t]
    <3>1. /\ gone[id].audit \in [AuditTypes -> Nat]
          /\ gone[id].audit[t] <= audit[id][t]
      BY DEF RowsInv, PurgeHolds
    <3>2. gone[id].audit[t] \in Nat /\ audit[id][t] \in Nat /\ audit'[id][t] \in Nat
      BY <2>2, <2>3, <3>1
    <3>3. audit[id][t] <= audit'[id][t]
      BY <2>2
    <3>. QED
      BY <3>1, <3>2, <3>3
  <2>. QED
    BY <2>1, <2>4 DEF RowsInv, PurgeHolds
<1>. QED
  BY <1>1, <1>2, <1>3, <1>4 DEF RowsInv

LEMMA PostKeepsRows ==
  ASSUME TablesInv, NEW p \in Proc, Post(p)
  PROVE  RowsInv'
<1>. DEFINE d == Deliveries(p)[hand[p].step + 1]
            id == <<p, d.id>>
<1>. plan \in Plans /\ RowsInv
  BY DEF TablesInv
<1>1. d # NoEvent /\ id \in Identity /\ id # Nowhere
  <2>1. d \in ToSet(Deliveries(p))
    BY SMTT(40) DEF Post, ToSet
  <2>. QED
    BY <2>1, EventsArePosted, Identities, SMTT(40) DEF EventsOf
<1>2. PICK types : audit' = Appended(id, types)
  BY SMTT(40) DEF Post
<1>3. /\ stored' = [stored EXCEPT ![id] = IF @ = NoEvent THEN d ELSE @]
      /\ status' = [status EXCEPT ![id] = IF @ = "ABSENT" THEN "RECEIVED" ELSE @]
      /\ UNCHANGED <<plan, row, payment, purge>>
  BY DEF Post
<1>. HIDE DEF d, id
<1>4. TableShapes /\ Existing /\ Attached
  BY DEF RowsInv
<1>5. \A j \in Identity : j # id => stored'[j] = stored[j] /\ status'[j] = status[j]
  BY <1>1, <1>3, <1>4 DEF TableShapes
<1>6. stored'[id] # NoEvent /\ status'[id] # "ABSENT"
  BY <1>1, <1>3, <1>4 DEF TableShapes
<1>7. DOMAIN stored' = Identity /\ DOMAIN status' = Identity
  BY <1>3, <1>4 DEF TableShapes
<1>8. \A j \in Identity : stored'[j] = NoEvent <=> status'[j] = "ABSENT"
  BY <1>4, <1>5, <1>6 DEF Existing
<1>9. stored'[Nowhere] = NoEvent
  BY <1>1, <1>4, <1>5, Identities DEF Existing
<1>10. \A j \in Identity : stored'[j] = NoEvent =>
         stored[j] = NoEvent /\ row'[j] = NoRow /\ audit'[j] = NoAudit
  BY <1>1, <1>2, <1>3, <1>4, <1>5, <1>6, AuditGrows DEF Attached
<1>. QED
  BY <1>1, <1>2, <1>3, <1>4, <1>7, <1>8, <1>9, <1>10, AuditGrows, RowsKeep
     DEF TableShapes

\* Steps that change retry rows only, of events.
LEMMA RetryRowsChange ==
  ASSUME TablesInv, plan' = plan, UNCHANGED <<stored, status, audit, payment, purge>>,
         DOMAIN row' = Identity,
         \A id \in Identity : DOMAIN row'[id] = RowFields,
         \A id \in Identity : stored[id] = NoEvent => row'[id] = NoRow
  PROVE  RowsInv'
<1>. RowsInv /\ TableShapes /\ Existing /\ Attached
  BY DEF TablesInv, RowsInv
<1>1. \A id \in Identity : \A t \in AuditTypes : audit[id][t] <= audit'[id][t]
  <2>1. \A id \in Identity : \A t \in AuditTypes : audit[id][t] \in Nat
    BY DEF TableShapes
  <2>. QED
    BY <2>1
<1>. QED
  BY <1>1, RowsKeep DEF TableShapes, Existing, Attached

LEMMA NoRowShape == DOMAIN NoRow = RowFields /\ NoRow.status = "NONE"
BY DEF NoRow, RowFields

LEMMA ClaimedShape ==
  ASSUME NEW r, NEW t, DOMAIN r = RowFields
  PROVE  /\ DOMAIN Claimed(r, t) = RowFields
         /\ Claimed(r, t).status = "PROCESSING"
         /\ Claimed(r, t) # NoRow
BY DEF Claimed, RowFields, NoRow

LEMMA EnsureKeepsRows ==
  ASSUME TablesInv, NEW p \in Proc, Ensure(p)
  PROVE  RowsInv'
<1>. DEFINE id == hand[p].id
<1>. id \in Identity
  BY DEF TablesInv, HandShapes, Graspable
<1>1. CASE row' = row
  BY <1>1, RowsStay DEF Ensure, TablesInv, tables
<1>2. CASE /\ stored[id] # NoEvent
           /\ row' = [row EXCEPT ![id] =
                        Claimed([@ EXCEPT !.next = hand[p].now], hand[p].now)]
  <2>. DEFINE r == [row[id] EXCEPT !.next = hand[p].now]
  <2>1. DOMAIN r = RowFields
    BY DEF TablesInv, RowsInv, TableShapes
  <2>2. row' = [row EXCEPT ![id] = Claimed(r, hand[p].now)]
    BY <1>2
  <2>3. DOMAIN Claimed(r, hand[p].now) = RowFields
    BY <2>1, ClaimedShape
  <2>. HIDE DEF r
  <2>. QED
    BY <1>2, <2>2, <2>3, RetryRowsChange
       DEF Ensure, TablesInv, RowsInv, TableShapes, Attached
<1>. QED
  BY <1>1, <1>2 DEF Ensure

LEMMA ClaimDueKeepsRows ==
  ASSUME TablesInv, NEW p \in Proc, ClaimDue(p)
  PROVE  RowsInv'
<1>1. PICK S \in SUBSET {id \in Identity : Due(row[id], hand[p].now) /\ ~Locked(id)} :
        row' = [id \in Identity |-> IF id \in S THEN Claimed(row[id], hand[p].now)
                                                ELSE row[id]]
  BY DEF ClaimDue
<1>2. \A id \in Identity : DOMAIN row'[id] = RowFields
  BY <1>1, ClaimedShape DEF TablesInv, RowsInv, TableShapes
<1>3. \A id \in Identity : stored[id] = NoEvent => row'[id] = NoRow
  <2>1. ASSUME NEW id \in Identity, stored[id] = NoEvent
        PROVE  id \notin S /\ row[id] = NoRow
    BY <1>1, <2>1, NoRowShape DEF TablesInv, RowsInv, Attached, Due, Lapsed
  <2>. QED
    BY <1>1, <2>1
<1>. QED
  BY <1>1, <1>2, <1>3, RetryRowsChange DEF ClaimDue

\* Steps that append audit rows of an event, if any, and change the status of
\* what is stored.
LEMMA EventRowsChange ==
  ASSUME TablesInv, plan' = plan, UNCHANGED <<stored, row, purge>>,
         NEW id \in Identity, NEW types,
         audit' = audit \/ (stored[id] # NoEvent /\ audit' = Appended(id, types)),
         DOMAIN status' = Identity,
         \A j \in Identity : status'[j] = "ABSENT" <=> status[j] = "ABSENT",
         DOMAIN payment' = Account,
         \A a \in Account : payment'[a] # "NONE" =>
           \/ payment[a] # "NONE"
           \/ \E j \in EventsOf(a[1]) : stored[j] # NoEvent /\ PayOf(j) = a[2]
  PROVE  RowsInv'
<1>. RowsInv /\ TableShapes /\ Existing /\ Attached
  BY DEF TablesInv, RowsInv
<1>1. /\ audit' \in [Identity -> [AuditTypes -> Nat]]
      /\ \A j \in Identity : \A t \in AuditTypes : audit[j][t] <= audit'[j][t]
      /\ \A j \in Identity : stored[j] = NoEvent => audit'[j] = audit[j]
  <2>1. CASE audit' = audit
    <3>1. \A j \in Identity : \A t \in AuditTypes : audit[j][t] \in Nat
      BY DEF TableShapes
    <3>. QED
      BY <2>1, <3>1 DEF TableShapes
  <2>2. CASE stored[id] # NoEvent /\ audit' = Appended(id, types)
    BY <2>2, AuditGrows
  <2>. QED
    BY <2>1, <2>2
<1>. QED
  BY <1>1, RowsKeep DEF TableShapes, Existing, Attached

LEMMA WorkKeepsRows ==
  ASSUME TablesInv, NEW p \in Proc, Work(p)
  PROVE  RowsInv'
<1>. DEFINE id == hand[p].id
<1>. id \in Identity
  BY DEF TablesInv, HandShapes, Graspable
<1>. TableShapes /\ Existing /\ Projected
  BY DEF TablesInv, RowsInv
<1>1. audit' = audit
        \/ (stored[id] # NoEvent /\ audit' = Appended(id, {"RETRY_ATTEMPTED"}))
  BY DEF Work, Existing
<1>2. DOMAIN status' = Identity
      /\ \A j \in Identity : status'[j] = "ABSENT" <=> status[j] = "ABSENT"
  BY DEF Work, TableShapes
<1>3. UNCHANGED <<plan, stored, row, payment, purge>>
  BY DEF Work
<1>. HIDE DEF id
<1>. QED
  BY <1>1, <1>2, <1>3, EventRowsChange DEF TableShapes, Projected

LEMMA CommitKeepsRows ==
  ASSUME TablesInv, NEW p \in Proc, Commit(p)
  PROVE  RowsInv'
<1>. DEFINE id == hand[p].id
            to == TerminalStatus(p)
<1>. id \in Identity
  BY DEF TablesInv, HandShapes, Graspable
<1>. TableShapes /\ Existing /\ Attached /\ Projected /\ plan \in Plans
  BY DEF TablesInv, RowsInv
<1>1. CASE UNCHANGED <<status, payment, audit>>
  BY <1>1, RowsStay DEF Commit, TablesInv, tables
<1>2. CASE /\ hand[p].result \in DecisionKinds
           /\ status[id] \in FROM_STATUS(to) \cup {to}
           /\ status' = [status EXCEPT ![id] = to]
           /\ payment' = IF hand[p].result = "ACCEPTED"
                         THEN [payment EXCEPT ![<<id[1], PayOf(id)>>] = hand[p].state]
                         ELSE payment
           /\ audit' = Appended(id, AllDrafts(p))
  <2>1. to \in {"PROCESSED", "CONFLICT", "REJECTED"}
    BY <1>2 DEF TerminalStatus, DecisionKinds
  <2>2. status[id] # "ABSENT" /\ stored[id] # NoEvent
    BY <1>2, <2>1 DEF FROM_STATUS, Existing
  <2>3. id # Nowhere
    BY <2>2 DEF Existing
  <2>4. id[1] \in Proc /\ id \in EventsOf(id[1]) /\ <<id[1], PayOf(id)>> \in Account
    BY <2>3, Identities
  <2>5. DOMAIN payment' = Account
    BY <1>2 DEF TableShapes
  <2>6. ASSUME NEW a \in Account, payment'[a] # "NONE"
        PROVE  \/ payment[a] # "NONE"
               \/ \E j \in EventsOf(a[1]) : stored[j] # NoEvent /\ PayOf(j) = a[2]
    <3>1. CASE a = <<id[1], PayOf(id)>>
      BY <2>2, <2>4, <3>1
    <3>2. CASE a # <<id[1], PayOf(id)>>
      BY <1>2, <2>6, <3>2 DEF TableShapes
    <3>. QED
      BY <3>1, <3>2
  <2>7. UNCHANGED <<plan, stored, row, purge>>
    BY DEF Commit
  <2>8. DOMAIN status' = Identity
        /\ \A j \in Identity : status'[j] = "ABSENT" <=> status[j] = "ABSENT"
    BY <1>2, <2>1, <2>2 DEF TableShapes
  <2>. HIDE DEF id, to
  <2>. QED
    BY <1>2, <2>2, <2>5, <2>6, <2>7, <2>8, EventRowsChange
<1>3. CASE /\ hand[p].result \notin DecisionKinds
           /\ AllDrafts(p) = {} \/ status[id] # "ABSENT"
           /\ status' = [status EXCEPT ![id] = to]
           /\ payment' = payment
           /\ audit' = Appended(id, AllDrafts(p))
  <2>1. DOMAIN status' = Identity
        /\ \A j \in Identity : status'[j] = "ABSENT" <=> status[j] = "ABSENT"
    <3>1. to = status[id]
      BY <1>3 DEF TerminalStatus, DecisionKinds
    <3>. QED
      BY <1>3, <3>1 DEF TableShapes
  <2>2. audit' = audit \/ (stored[id] # NoEvent /\ audit' = Appended(id, AllDrafts(p)))
    <3>1. CASE AllDrafts(p) = {}
      <4>1. audit \in [Identity -> [AuditTypes -> Nat]]
        BY DEF TableShapes
      <4>2. [t \in AuditTypes |-> IF t \in {} THEN audit[id][t] + 1
                                  ELSE audit[id][t]] = audit[id]
        BY <4>1
      <4>3. Appended(id, {}) = [audit EXCEPT ![id] = audit[id]]
        BY <4>2 DEF Appended
      <4>4. [audit EXCEPT ![id] = audit[id]] = audit
        BY <4>1
      <4>. QED
        BY <1>3, <3>1, <4>3, <4>4
    <3>. QED
      BY <1>3, <3>1 DEF Existing
  <2>3. UNCHANGED <<plan, stored, row, purge>>
    BY DEF Commit
  <2>. HIDE DEF id, to
  <2>. QED
    BY <1>3, <2>1, <2>2, <2>3, EventRowsChange DEF TableShapes
<1>4. hand[p].result \notin DecisionKinds => hand[p].result # "ACCEPTED"
  BY DEF DecisionKinds
<1>. QED
  BY <1>1, <1>2, <1>3, <1>4 DEF Commit

LEMMA SettleKeepsRows ==
  ASSUME TablesInv, NEW p \in Proc, Settle(p)
  PROVE  RowsInv'
<1>. DEFINE id == hand[p].id
<1>. id \in Identity
  BY DEF TablesInv, HandShapes, Graspable
<1>. RowsInv /\ TableShapes /\ Existing /\ Attached
  BY DEF TablesInv, RowsInv
<1>1. CASE row' = row /\ audit' = audit
  BY <1>1, RowsStay DEF Settle, TablesInv, tables
<1>2. ASSUME row[id] # NoRow,
             NEW to, NEW next, NEW bad,
             row' = [row EXCEPT ![id].status = to, ![id].lease = 0,
                                ![id].next = next, ![id].failed = bad]
      PROVE  /\ DOMAIN row' = Identity
             /\ \A j \in Identity : DOMAIN row'[j] = RowFields
             /\ stored[id] # NoEvent
             /\ \A j \in Identity : stored[j] = NoEvent => row'[j] = NoRow
  <2>1. stored[id] # NoEvent
    BY <1>2 DEF Attached
  <2>2. row'[id] = [row[id] EXCEPT !.status = to, !.lease = 0, !.next = next,
                                   !.failed = bad]
        /\ \A j \in Identity : j # id => row'[j] = row[j]
    BY <1>2 DEF TableShapes
  <2>3. DOMAIN row' = Identity
    BY <1>2 DEF TableShapes
  <2>. QED
    BY <2>1, <2>2, <2>3 DEF TableShapes, Attached
<1>3. CASE /\ row[id] # NoRow
           /\ row' = [row EXCEPT
                ![id].status = AttemptStatus(p),
                ![id].lease = 0,
                ![id].next = IF AttemptStatus(p) = "RETRY_SCHEDULED"
                             THEN hand[p].now
                                    + calculateRetryDelay(Policy(p), hand[p].att)
                             ELSE 0,
                ![id].failed = @ \/ AttemptStatus(p) # "SUCCEEDED"]
           /\ audit' = audit \/ audit' = Appended(id, {"RETRY_SCHEDULED"})
  <2>1. /\ DOMAIN row' = Identity
        /\ \A j \in Identity : DOMAIN row'[j] = RowFields
        /\ stored[id] # NoEvent
        /\ \A j \in Identity : stored[j] = NoEvent => row'[j] = NoRow
    BY <1>2, <1>3
  <2>2. /\ audit' \in [Identity -> [AuditTypes -> Nat]]
        /\ \A j \in Identity : \A t \in AuditTypes : audit[j][t] <= audit'[j][t]
        /\ \A j \in Identity : j # id => audit'[j] = audit[j]
    <3>1. CASE audit' = audit
      <4>1. \A j \in Identity : \A t \in AuditTypes : audit[j][t] \in Nat
        BY DEF TableShapes
      <4>. QED
        BY <3>1, <4>1 DEF TableShapes
    <3>2. CASE audit' = Appended(id, {"RETRY_SCHEDULED"})
      BY <3>2, AuditGrows
    <3>. QED
      BY <1>3, <3>1, <3>2
  <2>3. UNCHANGED <<plan, stored, status, payment, purge>>
    BY DEF Settle
  <2>. HIDE DEF id
  <2>. QED
    BY <2>1, <2>2, <2>3, RowsKeep, SMTT(40) DEF TableShapes, Existing, Attached
<1>. QED
  BY <1>1, <1>3 DEF Settle

LEMMA PurgeSelectKeepsRows ==
  ASSUME TablesInv, PurgeSelect
  PROVE  RowsInv'
<1>1. UNCHANGED <<plan, stored, status, row, audit, payment, gone>>
      /\ reset' = "children" /\ scope' \subseteq LabIds /\ reset = "idle"
  BY DEF PurgeSelect, tables, LabIds
<1>. USE <1>1, PlanFixed
<1>2. TableShapes' /\ Existing' /\ Attached' /\ Projected'
  BY DEF TablesInv, RowsInv, TableShapes, Existing, Attached, Projected
<1>3. PurgeHolds'
  BY DEF TablesInv, RowsInv, PurgeHolds
<1>. QED
  BY <1>2, <1>3 DEF RowsInv

LEMMA PurgeChildrenKeepsRows ==
  ASSUME TablesInv, PurgeChildren
  PROVE  RowsInv'
<1>1. /\ UNCHANGED <<plan, stored, status, row, audit, payment, scope>>
      /\ reset = "children" /\ reset' = "parents"
      /\ gone' = [id \in LabIds |->
                   [row |-> IF id \in scope THEN row[id] ELSE NoRow,
                    audit |-> audit[id]]]
  BY DEF PurgeChildren, tables, LabIds
<1>. USE <1>1, PlanFixed
<1>2. TableShapes' /\ Existing' /\ Attached' /\ Projected'
  BY DEF TablesInv, RowsInv, TableShapes, Existing, Attached, Projected
<1>3. PurgeHolds'
  <2>1. DOMAIN gone' = LabIds' /\ reset' = "parents"
    OBVIOUS
  <2>2. scope' \subseteq LabIds'
    BY DEF TablesInv, RowsInv, PurgeHolds
  <2>3. ASSUME NEW id \in DOMAIN gone'
        PROVE  /\ gone'[id].row # NoRow => id \in scope'
               /\ gone'[id].audit \in [AuditTypes -> Nat]
               /\ \A t \in AuditTypes : gone'[id].audit[t] <= audit'[id][t]
    <3>1. id \in Identity /\ gone'[id].audit = audit[id]
          /\ (gone'[id].row # NoRow => id \in scope)
      BY DEF LabIds
    <3>2. audit[id] \in [AuditTypes -> Nat]
      BY <3>1 DEF TablesInv, RowsInv, TableShapes
    <3>. QED
      BY <3>1, <3>2
  <2>. QED
    BY <2>1, <2>2, <2>3 DEF PurgeHolds
<1>. QED
  BY <1>2, <1>3 DEF RowsInv

\* The rows a purge leaves.
LEMMA Leftovers ==
  ASSUME TablesInv, Purged, reset = "parents", plan' = plan,
         \A id \in scope : ~LaterRow(id) /\ LaterAudit(id) = NoAudit
  PROVE  /\ TableShapes'
         /\ \A id \in scope : /\ stored'[id] = NoEvent /\ status'[id] = "ABSENT"
                              /\ row'[id] = NoRow /\ audit'[id] = NoAudit
         /\ \A id \in Identity \ scope :
              stored'[id] = stored[id] /\ status'[id] = status[id]
                /\ row'[id] = row[id]
         /\ \A id \in Identity : \A t \in AuditTypes : audit'[id][t] <= audit[id][t]
<1>. /\ plan \in Plans /\ TableShapes /\ Existing /\ PurgeHolds
     /\ scope \subseteq LabIds /\ DOMAIN gone = LabIds /\ LabIds \subseteq Identity
  BY DEF TablesInv, RowsInv, PurgeHolds, LabIds
<1>. audit \in [Identity -> [AuditTypes -> Nat]]
  BY DEF TableShapes
<1>1. ASSUME NEW id \in LabIds
      PROVE  /\ LaterAudit(id) \in [AuditTypes -> Nat]
             /\ \A t \in AuditTypes : LaterAudit(id)[t] <= audit[id][t]
  <2>1. /\ gone[id].audit \in [AuditTypes -> Nat]
        /\ \A t \in AuditTypes : gone[id].audit[t] <= audit[id][t]
    BY DEF PurgeHolds
  <2>2. audit[id] \in [AuditTypes -> Nat]
    OBVIOUS
  <2>3. \A t \in AuditTypes : /\ audit[id][t] - gone[id].audit[t] \in Nat
                              /\ audit[id][t] - gone[id].audit[t] <= audit[id][t]
    BY <2>1, <2>2
  <2>. QED
    BY <2>3 DEF LaterAudit
<1>2. \A id \in LabIds : audit'[id] = LaterAudit(id)
  BY DEF Purged
<1>3. \A id \in Identity \ LabIds : audit'[id] = audit[id]
  BY DEF Purged
<1>4. audit' \in [Identity -> [AuditTypes -> Nat]]
  BY <1>1 DEF Purged
<1>5. \A id \in Identity : \A t \in AuditTypes : audit'[id][t] <= audit[id][t]
  <2>1. ASSUME NEW id \in Identity \ LabIds, NEW t \in AuditTypes
        PROVE  audit'[id][t] <= audit[id][t]
    <3>1. audit[id][t] \in Nat
      OBVIOUS
    <3>. QED
      BY <1>3, <3>1
  <2>. QED
    BY <1>1, <1>2, <2>1
<1>6. \A id \in Identity : row'[id] = IF Locked(id) THEN NoRow ELSE row[id]
  BY DEF Purged
<1>7. \A id \in Identity \ scope : ~Locked(id)
  BY DEF Locked, PurgeHolds
<1>8. \A id \in scope : row'[id] = NoRow
  BY <1>6 DEF Locked, LaterRow
<1>9. \A id \in Identity : DOMAIN row'[id] = RowFields
  BY <1>6, NoRowShape DEF TableShapes
<1>10. TableShapes'
  <2>1. /\ DOMAIN stored' = Identity /\ DOMAIN status' = Identity
        /\ DOMAIN row' = Identity /\ DOMAIN payment' = Account
    BY DEF Purged
  <2>. QED
    BY <1>4, <1>9, <2>1, PlanFixed DEF TableShapes
<1>11. \A id \in scope : stored'[id] = NoEvent /\ status'[id] = "ABSENT"
  BY DEF Purged
<1>12. \A id \in Identity \ scope :
         stored'[id] = stored[id] /\ status'[id] = status[id] /\ row'[id] = row[id]
  BY <1>6, <1>7 DEF Purged
<1>13. \A id \in scope : audit'[id] = NoAudit
  BY <1>2
<1>. QED
  BY <1>5, <1>8, <1>10, <1>11, <1>12, <1>13

\* Rows of what was not stored stay away when audit rows are deleted.
LEMMA NoFewerAudit ==
  ASSUME NEW a \in [AuditTypes -> Nat],
         \A t \in AuditTypes : a[t] <= NoAudit[t]
  PROVE  a = NoAudit
<1>1. \A t \in AuditTypes : a[t] = NoAudit[t]
  BY DEF NoAudit
<1>2. NoAudit \in [AuditTypes -> Nat]
  BY DEF NoAudit
<1>. QED
  BY <1>1, <1>2

LEMMA PurgeParentsKeepsRows ==
  ASSUME TablesInv, PurgeParents
  PROVE  RowsInv'
<1>. DEFINE fails == \E id \in scope : LaterRow(id) \/ LaterAudit(id) # NoAudit
<1>. /\ plan \in Plans /\ TableShapes /\ Existing /\ Attached /\ Projected
     /\ PurgeHolds
  BY DEF TablesInv, RowsInv
<1>0. /\ plan' = plan /\ scope' = scope /\ gone' = NothingGone
      /\ reset = "parents" /\ reset' \in {"failed", "done"}
  BY DEF PurgeParents
<1>. USE <1>0, PlanFixed
<1>1. PurgeHolds'
  <2>1. DOMAIN gone' = {}
    BY DEF NothingGone
  <2>. QED
    BY <2>1 DEF PurgeHolds
<1>2. CASE fails
  <2>1. UNCHANGED tables
    BY <1>2 DEF PurgeParents
  <2>2. TableShapes' /\ Existing' /\ Attached' /\ Projected'
    BY <2>1 DEF tables, TableShapes, Existing, Attached, Projected
  <2>. QED
    BY <1>1, <2>2 DEF RowsInv
<1>3. CASE ~fails
  <2>1. Purged
    BY <1>3 DEF PurgeParents
  <2>2. /\ TableShapes'
        /\ \A id \in scope : /\ stored'[id] = NoEvent /\ status'[id] = "ABSENT"
                             /\ row'[id] = NoRow /\ audit'[id] = NoAudit
        /\ \A id \in Identity \ scope :
             stored'[id] = stored[id] /\ status'[id] = status[id]
               /\ row'[id] = row[id]
        /\ \A id \in Identity : \A t \in AuditTypes : audit'[id][t] <= audit[id][t]
    BY <1>3, <2>1, Leftovers
  <2>3. scope \subseteq LabIds /\ LabIds \subseteq Identity /\ Nowhere \in Identity \ scope
    BY Identities DEF PurgeHolds, LabIds
  <2>4. Existing'
    BY <2>2, <2>3 DEF Existing
  <2>5. Attached'
    <3>1. ASSUME NEW id \in Identity \ scope, stored'[id] = NoEvent
          PROVE  row'[id] = NoRow /\ audit'[id] = NoAudit
      <4>1. row'[id] = NoRow /\ audit[id] = NoAudit
        BY <2>2, <3>1 DEF Attached
      <4>2. audit'[id] \in [AuditTypes -> Nat]
        BY <2>2 DEF TableShapes
      <4>. QED
        BY <2>2, <4>1, <4>2, NoFewerAudit
    <3>. QED
      BY <2>2, <2>3, <3>1 DEF Attached
  <2>6. Projected'
    <3>1. ASSUME NEW a \in Account, payment'[a] # "NONE"
          PROVE  \E id \in EventsOf(a[1]) : stored'[id] # NoEvent /\ PayOf(id) = a[2]
      <4>1. payment[a] # "NONE" /\ ~isFailureLabPaymentId(a)
        BY <2>1, <3>1 DEF Purged
      <4>2. PICK id \in EventsOf(a[1]) : stored[id] # NoEvent /\ PayOf(id) = a[2]
        BY <4>1 DEF Projected
      <4>3. a[1] \in Proc
        BY DEF Account
      <4>4. id \in Identity /\ id[1] = a[1]
        BY <4>3, Identities DEF EventsOf
      <4>5. id \notin scope
        BY <2>3, <4>1, <4>4 DEF LabIds, isFailureLabPaymentId
      <4>. QED
        BY <2>2, <4>2, <4>4, <4>5
    <3>. QED
      BY <3>1 DEF Projected
  <2>. QED
    BY <1>1, <2>2, <2>4, <2>5, <2>6 DEF RowsInv
<1>. QED
  BY <1>2, <1>3

LEMMA CrashKeepsRows ==
  ASSUME TablesInv, Crash
  PROVE  RowsInv'
<1>. USE PlanFixed DEF Crash, tables
<1>1. TableShapes' /\ Existing' /\ Attached' /\ Projected'
  BY ZenonT(60) DEF TablesInv, RowsInv, TableShapes, Existing, Attached, Projected
<1>2. PurgeHolds'
  <2>1. DOMAIN gone' = {} /\ reset' # "parents" /\ scope' = scope
    BY DEF NothingGone
  <2>2. reset' \in {"idle", "children", "parents", "done", "failed"}
        /\ (reset' # "idle" => reset # "idle")
    BY DEF TablesInv, RowsInv, PurgeHolds
  <2>. QED
    BY <2>1, <2>2 DEF TablesInv, RowsInv, PurgeHolds
<1>. QED
  BY <1>1, <1>2 DEF RowsInv

LEMMA TablesInvInit ==
  ASSUME Init
  PROVE  TablesInv
<1>1. plan \in Plans
  BY DEF Init
<1>2. HandShapes
  BY <1>1, IdleGraspable DEF Init, HandShapes
<1>3. NoAudit \in [AuditTypes -> Nat]
  BY DEF NoAudit
<1>4. TableShapes
  BY <1>3, NoRowShape DEF Init, TableShapes
<1>5. Existing /\ Attached /\ Projected
  BY <1>1, Identities DEF Init, Existing, Attached, Projected
<1>6. PurgeHolds
  BY DEF Init, PurgeHolds, NothingGone
<1>. QED
  BY <1>1, <1>2, <1>4, <1>5, <1>6 DEF TablesInv, RowsInv

LEMMA TablesInvStep ==
  ASSUME TablesInv, [Next]_vars
  PROVE  TablesInv'
<1>0. plan' = plan /\ HandShapes'
  BY PlanStays, HandsKeepShape
<1>1. ASSUME UNCHANGED <<tables, purge>> PROVE RowsInv'
  BY <1>0, <1>1, RowsStay DEF TablesInv
<1>2. ASSUME NEW p \in Proc, Act(p) PROVE RowsInv'
  <2>1. CASE Start(p) \/ Observe(p) \/ TakeRecord(p) \/ EndTick(p)
    BY <1>1, <2>1, ZenonT(60) DEF Start, Observe, TakeRecord, EndTick
  <2>. QED
    BY <1>2, <2>1, PostKeepsRows, EnsureKeepsRows, ClaimDueKeepsRows,
       WorkKeepsRows, CommitKeepsRows, SettleKeepsRows, SMTT(40) DEF Act, ProcessAttempt
<1>3. ASSUME NEW r \in Run, Drain(r) \/ DrainSimulated(r) \/ Report(r)
      PROVE  RowsInv'
  BY <1>1, <1>3 DEF Drain, DrainSimulated, Report
<1>4. ASSUME StartTick \/ Tick PROVE RowsInv'
  BY <1>1, <1>4 DEF StartTick, Tick
<1>5. ASSUME UNCHANGED vars PROVE RowsInv'
  BY <1>1, <1>5 DEF vars
<1>6. ASSUME PurgeSelect \/ PurgeChildren \/ PurgeParents \/ Crash
      PROVE  RowsInv'
  BY <1>6, PurgeSelectKeepsRows, PurgeChildrenKeepsRows, PurgeParentsKeepsRows,
     CrashKeepsRows
<1>7. RowsInv'
  BY <1>2, <1>3, <1>4, <1>5, <1>6 DEF Next
<1>. QED
  BY <1>0, <1>7 DEF TablesInv

\* The shape of the tables, and what they have to do with each other, through
\* every delivery, retry, reset and crash.
THEOREM TablesInvariant == Spec => []TablesInv
BY TablesInvInit, TablesInvStep, PTL DEF Spec

\* A reset in the middle of a run leaves nothing behind that refers to an event
\* that is gone: neither retry or audit rows nor payments
\* (purgeSyntheticFailureLab beside the ingest route and the ticks).
THEOREM ResetLeavesNothing == Spec => []NothingStray
<1>1. TablesInv => NothingStray
  BY DEF TablesInv, RowsInv, Attached, Projected, NothingStray
<1>. QED
  BY <1>1, TablesInvariant, PTL

-----------------------------------------------------------------------------
(* Claims *)

\* A process goes on with what it has claimed, or lets go of it.
Keeps(q) ==
  /\ hand'[q].batch \in {hand[q].batch, {}}
  /\ pc'[q] \in Attempting =>
       /\ pc'[q] = pc[q]
       /\ hand'[q].id = hand[q].id /\ hand'[q].result = hand[q].result

LEMMA KeptWasHeld ==
  ASSUME NEW q, Keeps(q), NEW id, Holds(q, id)'
  PROVE  Holds(q, id)
BY DEF Keeps, Holds

LEMMA QuietStep ==
  ASSUME TablesInv, ClaimsInv, plan' = plan, Unapplied', OneEffect',
         \A q \in Proc : Keeps(q),
         \A q \in Proc : \A id \in Identity \ {Nowhere} :
           Holds(q, id)' => row'[id].status = row[id].status
                              /\ status'[id] = status[id]
  PROVE  ClaimsInv'
<1>. USE PlanFixed
<1>0. \A q \in Proc : \A id : Holds(q, id)' => Holds(q, id)
  BY KeptWasHeld
<1>1. HeldRows'
  BY <1>0 DEF ClaimsInv, HeldRows
<1>2. OneHolder'
  BY <1>0 DEF ClaimsInv, OneHolder
<1>3. HeldOnce'
  BY DEF ClaimsInv, HeldOnce, Keeps
<1>4. DecidedOpen'
  <2>1. ASSUME NEW q \in Proc, pc'[q] = "commit", hand'[q].result \in DecisionKinds,
               hand'[q].id # Nowhere
        PROVE  status'[hand'[q].id] = "PROCESSING"
    <3>1. /\ pc[q] = "commit" /\ hand'[q].id = hand[q].id
          /\ hand[q].result \in DecisionKinds
      BY <2>1 DEF Keeps, Attempting
    <3>2. status[hand[q].id] = "PROCESSING"
      BY <2>1, <3>1 DEF ClaimsInv, DecidedOpen
    <3>3. Holds(q, hand[q].id)'
      BY <2>1, <3>1 DEF Holds, Attempting
    <3>4. hand[q].id \in Identity
      BY DEF TablesInv, HandShapes, Graspable
    <3>. QED
      BY <2>1, <3>1, <3>2, <3>3, <3>4
  <2>. QED
    BY <2>1 DEF DecidedOpen
<1>. QED
  BY <1>1, <1>2, <1>3, <1>4 DEF ClaimsInv

\* Steps that leave alone what an event has led to.
LEMMA EffectsStay ==
  ASSUME ClaimsInv, plan' = plan,
         \A id \in Identity :
           /\ audit'[id]["PAYMENT_STATE_CHANGED"] = audit[id]["PAYMENT_STATE_CHANGED"]
           /\ audit'[id]["WEBHOOK_DELAYED"] = audit[id]["WEBHOOK_DELAYED"]
           /\ status'[id] # "PROCESSED" => status[id] # "PROCESSED"
  PROVE  Unapplied' /\ OneEffect'
BY PlanFixed DEF ClaimsInv, Unapplied, OneEffect

LEMMA EffectsUnlogged ==
  ASSUME TablesInv, NEW id \in Identity, NEW types,
         audit' = audit \/ audit' = Appended(id, types),
         "PAYMENT_STATE_CHANGED" \notin types, "WEBHOOK_DELAYED" \notin types
  PROVE  \A j \in Identity :
           /\ audit'[j]["PAYMENT_STATE_CHANGED"] = audit[j]["PAYMENT_STATE_CHANGED"]
           /\ audit'[j]["WEBHOOK_DELAYED"] = audit[j]["WEBHOOK_DELAYED"]
BY AuditGrows DEF TablesInv, AuditTypes

\* Steps that change nothing but where processes are, and make no claim.
LEMMA TablesQuiet ==
  ASSUME TablesInv, ClaimsInv, plan' = plan,
         UNCHANGED <<status, row, audit>>, \A q \in Proc : Keeps(q)
  PROVE  ClaimsInv'
BY EffectsStay, QuietStep

LEMMA OthersKeep ==
  ASSUME TablesInv, NEW p \in Proc,
         \A q \in Proc : q # p => hand'[q] = hand[q] /\ pc'[q] = pc[q],
         Keeps(p)
  PROVE  \A q \in Proc : Keeps(q)
BY DEF Keeps

LEMMA ThrownKeeps ==
  ASSUME TablesInv, NEW p \in Proc, Thrown(p)
  PROVE  /\ \A q \in Proc : Keeps(q)
         /\ pc'[p] \notin Attempting
<1>. HandShapes
  BY DEF TablesInv
<1>1. \A q \in Proc : q # p => hand'[q] = hand[q] /\ pc'[q] = pc[q]
  BY DEF Thrown, Reply, HandShapes
<1>2. pc'[p] \notin Attempting
  BY DEF Thrown, Reply, HandShapes, AfterReply, Attempting
<1>3. hand'[p].batch \in {hand[p].batch, {}}
  BY IdleGraspable, ZenonT(60)
     DEF Thrown, Reply, HandShapes, Graspable, HandFields, TablesInv
<1>. QED
  BY <1>1, <1>2, <1>3, OthersKeep DEF Keeps

LEMMA QuietSteps ==
  ASSUME TablesInv, ClaimsInv, plan' = plan, NEW p \in Proc,
         \/ Start(p) \/ Observe(p) \/ EndTick(p)
         \/ p = "worker" /\ StartTick
         \/ Drain(p) \/ DrainSimulated(p) \/ Report(p)
  PROVE  ClaimsInv'
<1>. HandShapes
  BY DEF TablesInv
<1>1. UNCHANGED <<status, row, audit>>
  BY DEF Start, Observe, EndTick, StartTick, Drain, DrainSimulated, Report, tables
<1>2. \A q \in Proc : q # p => hand'[q] = hand[q] /\ pc'[q] = pc[q]
  <2>1. CASE Start(p) \/ Observe(p) \/ EndTick(p)
    BY <2>1 DEF Start, Observe, Reply, EndTick, Goto, HandShapes
  <2>2. CASE p = "worker" /\ StartTick
    BY <2>2 DEF StartTick, Goto, HandShapes
  <2>3. CASE Drain(p) \/ DrainSimulated(p) \/ Report(p)
    BY <2>3 DEF Drain, DrainSimulated, Report, Goto, HandShapes
  <2>. QED
    BY <2>1, <2>2, <2>3
<1>3. Keeps(p)
  <2>1. CASE Start(p) \/ Observe(p) \/ EndTick(p)
    <3>1. pc'[p] \notin Attempting
      BY <2>1 DEF Start, Observe, Reply, AfterReply, EndTick, Goto, HandShapes,
                  Attempting
    <3>2. hand'[p].batch \in {hand[p].batch, {}}
      BY <2>1, IdleGraspable
         DEF Start, Observe, Reply, EndTick, HandShapes, Graspable, HandFields,
             TablesInv
    <3>. QED
      BY <3>1, <3>2 DEF Keeps
  <2>2. CASE p = "worker" /\ StartTick
    <3>1. pc'[p] = "tick"
      BY <2>2 DEF StartTick, Goto, HandShapes
    <3>2. hand'[p].batch = {}
      BY <2>2 DEF StartTick, HandShapes, Idle
    <3>. QED
      BY <3>1, <3>2 DEF Keeps, Attempting
  <2>3. CASE Drain(p) \/ DrainSimulated(p) \/ Report(p)
    <3>1. pc'[p] \notin Attempting
      BY <2>3, ZenonT(60)
         DEF Drain, DrainSimulated, Report, Goto, HandShapes, Attempting
    <3>2. CASE Drain(p) \/ DrainSimulated(p)
      <4>1. \/ hand' = hand \/ hand' = [hand EXCEPT ![p].ticks = 0]
            \/ \E now : hand' = [hand EXCEPT ![p].ticking = TRUE,
                                    ![p].ticks = @ + 1, ![p].now = now,
                                    ![p].since = clock]
        BY <3>2 DEF Drain, DrainSimulated
      <4>2. hand'[p].batch = hand[p].batch
        <5>1. ASSUME NEW now, hand' = [hand EXCEPT ![p].ticking = TRUE,
                                         ![p].ticks = @ + 1, ![p].now = now,
                                         ![p].since = clock]
              PROVE  hand'[p].batch = hand[p].batch
          <6>. DEFINE h == [hand[p] EXCEPT !.ticking = TRUE, !.ticks = @ + 1,
                                           !.now = now, !.since = clock]
          <6>1. hand' = [hand EXCEPT ![p] = h]
            BY <5>1
          <6>2. h.batch = hand[p].batch
            BY DEF HandShapes, Graspable, HandFields
          <6>. HIDE DEF h
          <6>. QED
            BY <6>1, <6>2 DEF HandShapes
        <5>2. CASE hand' = hand \/ hand' = [hand EXCEPT ![p].ticks = 0]
          BY <5>2 DEF HandShapes, Graspable, HandFields
        <5>. QED
          BY <4>1, <5>1, <5>2
      <4>. QED
        BY <3>1, <4>2 DEF Keeps
    <3>3. CASE Report(p)
      BY <3>1, <3>3, IdleGraspable DEF Report, HandShapes, Keeps, TablesInv
    <3>. QED
      BY <2>3, <3>2, <3>3, SMTT(40)
  <2>. QED
    BY <2>1, <2>2, <2>3
<1>. QED
  BY <1>1, <1>2, <1>3, OthersKeep, TablesQuiet

LEMMA OtherSteps ==
  ASSUME TablesInv, ClaimsInv, plan' = plan,
         PurgeSelect \/ PurgeChildren \/ Crash \/ Tick \/ UNCHANGED vars
  PROVE  ClaimsInv'
<1>1. UNCHANGED <<status, row, audit>>
  BY DEF PurgeSelect, PurgeChildren, Crash, Tick, vars, tables
<1>2. ASSUME NEW q \in Proc PROVE Keeps(q)
  <2>1. CASE hand' = hand /\ pc' = pc
    BY <2>1 DEF Keeps
  <2>2. CASE Crash
    <3>1. hand'[q].batch \in {hand[q].batch, {}}
      BY <2>2, IdleGraspable DEF Crash, TablesInv
    <3>2. pc'[q] \in Attempting => pc'[q] = pc[q] /\ hand'[q] = hand[q]
      BY <2>2 DEF Crash, Attempting
    <3>. QED
      BY <3>1, <3>2 DEF Keeps
  <2>. QED
    BY <2>1, <2>2 DEF PurgeSelect, PurgeChildren, Tick, vars
<1>. QED
  BY <1>1, <1>2, TablesQuiet

\* What is claimed has a row that says so, and hence an event.
LEMMA HeldIsStored ==
  ASSUME TablesInv, ClaimsInv, NEW q \in Proc, NEW id \in Identity, id # Nowhere,
         Holds(q, id)
  PROVE  row[id].status = "PROCESSING" /\ stored[id] # NoEvent
                                       /\ status[id] # "ABSENT"
<1>1. row[id].status = "PROCESSING"
  BY DEF ClaimsInv, HeldRows
<1>2. row[id] # NoRow
  BY <1>1, NoRowShape
<1>. QED
  BY <1>1, <1>2 DEF TablesInv, RowsInv, Attached, Existing

LEMMA PostKeepsClaims ==
  ASSUME TablesInv, ClaimsInv, plan' = plan, NEW p \in Proc, Post(p)
  PROVE  ClaimsInv'
<1>. DEFINE id == <<p, Deliveries(p)[hand[p].step + 1].id>>
<1>. HandShapes
  BY SMTT(40) DEF TablesInv
<1>1. id \in Identity
  BY Identities, SMTT(40) DEF Post, ToSet, EventsOf, TablesInv
<1>2. \A q \in Proc : q # p => hand'[q] = hand[q] /\ pc'[q] = pc[q]
  BY SMTT(40) DEF Post, Goto, HandShapes
<1>3. pc'[p] \notin Attempting
  BY SMTT(40) DEF Post, Goto, HandShapes, Attempting
<1>4. hand'[p].batch = hand[p].batch
  BY DEF Post, HandShapes, Graspable, HandFields
<1>5. \A q \in Proc : Keeps(q)
  BY <1>2, <1>3, <1>4, OthersKeep, SMTT(40) DEF Keeps
<1>6. /\ row' = row
      /\ status' = [status EXCEPT ![id] = IF @ = "ABSENT" THEN "RECEIVED" ELSE @]
  BY DEF Post
<1>7. PICK type : audit' = Appended(id, {type})
                  /\ type # "PAYMENT_STATE_CHANGED" /\ type # "WEBHOOK_DELAYED"
  <2>. DEFINE outcome == IF stored[id] = NoEvent THEN "STORED"
                         ELSE IF stored[id] = Deliveries(p)[hand[p].step + 1]
                         THEN "DUPLICATE" ELSE "CONFLICT"
              type == CASE outcome = "STORED"    -> "WEBHOOK_RECEIVED"
                        [] outcome = "DUPLICATE" -> "WEBHOOK_DUPLICATE"
                        [] OTHER                 -> "WEBHOOK_CONFLICT"
  <2>1. audit' = Appended(id, {type})
    BY DEF Post
  <2>2. type # "PAYMENT_STATE_CHANGED" /\ type # "WEBHOOK_DELAYED"
    OBVIOUS
  <2>. HIDE DEF type
  <2>. QED
    BY <2>1, <2>2, SMTT(40)
<1>. HIDE DEF id
<1>8. \A j \in Identity : status'[j] # status[j] =>
        status[j] = "ABSENT" /\ status'[j] = "RECEIVED"
  BY <1>1, <1>6 DEF TablesInv, RowsInv, TableShapes
<1>9. Unapplied' /\ OneEffect'
  <2>1. \A j \in Identity :
          /\ audit'[j]["PAYMENT_STATE_CHANGED"] = audit[j]["PAYMENT_STATE_CHANGED"]
          /\ audit'[j]["WEBHOOK_DELAYED"] = audit[j]["WEBHOOK_DELAYED"]
    BY <1>1, <1>7, EffectsUnlogged
  <2>. QED
    BY <1>8, <2>1, EffectsStay
<1>10. ASSUME NEW q \in Proc, NEW j \in Identity \ {Nowhere}, Holds(q, j)'
       PROVE  row'[j].status = row[j].status /\ status'[j] = status[j]
  <2>1. Holds(q, j)
    BY <1>5, <1>10, KeptWasHeld
  <2>. QED
    BY <1>6, <1>8, <2>1, HeldIsStored
<1>. QED
  BY <1>5, <1>9, <1>10, QuietStep

\* A process makes claims nobody holds.
LEMMA ClaimStep ==
  ASSUME TablesInv, ClaimsInv, plan' = plan, NEW p \in Proc, NEW New,
         UNCHANGED <<status, audit>>,
         \A q \in Proc : q # p => hand'[q] = hand[q] /\ pc'[q] = pc[q],
         \A j \in Identity \ {Nowhere} :
           Holds(p, j)' => Holds(p, j) \/ j \in New,
         \A q \in Proc : \A j \in New : ~Holds(q, j),
         \A j \in Identity : IF j \in New THEN row'[j].status = "PROCESSING"
                                          ELSE row'[j] = row[j],
         pc'[p] # "commit",
         \A c, d \in hand'[p].batch : c.id = d.id => c = d \/ c.id = Nowhere,
         pc'[p] \in Attempting =>
           \A c \in hand'[p].batch : c.id = hand'[p].id => c.id = Nowhere
  PROVE  ClaimsInv'
<1>. USE PlanFixed
<1>1. \A q \in Proc : q # p => \A j : Holds(q, j)' <=> Holds(q, j)
  BY DEF Holds
<1>2. HeldRows'
  BY <1>1 DEF ClaimsInv, HeldRows
<1>3. OneHolder'
  BY <1>1 DEF ClaimsInv, OneHolder
<1>4. HeldOnce'
  BY DEF ClaimsInv, HeldOnce
<1>5. DecidedOpen'
  BY DEF ClaimsInv, DecidedOpen
<1>6. Unapplied' /\ OneEffect'
  BY EffectsStay
<1>. QED
  BY <1>2, <1>3, <1>4, <1>5, <1>6 DEF ClaimsInv

LEMMA EnsureKeepsClaims ==
  ASSUME TablesInv, ClaimsInv, plan' = plan, NEW p \in Proc, Ensure(p)
  PROVE  ClaimsInv'
<1>. DEFINE id == hand[p].id
<1>. HandShapes /\ TableShapes
  BY DEF TablesInv, RowsInv
<1>. id \in Identity
  BY DEF HandShapes, Graspable
<1>1. UNCHANGED <<status, audit>>
  BY DEF Ensure
<1>2. CASE row' = row /\ Thrown(p)
  BY <1>1, <1>2, ThrownKeeps, TablesQuiet
<1>3. CASE row' = row /\ hand' = hand /\ pc' = [pc EXCEPT ![p] = "observe"]
  BY <1>1, <1>3, TablesQuiet DEF Keeps, HandShapes, Attempting
<1>4. CASE /\ stored[id] # NoEvent
           /\ row[id] = NoRow
           /\ row' = [row EXCEPT ![id] =
                        Claimed([@ EXCEPT !.next = hand[p].now], hand[p].now)]
           /\ pc' = [pc EXCEPT ![p] = "work"]
           /\ hand' = [hand EXCEPT ![p].att = 1, ![p].again = FALSE]
  <2>. DEFINE r == [row[id] EXCEPT !.next = hand[p].now]
  <2>1. DOMAIN r = RowFields
    BY DEF TableShapes
  <2>2. row' = [row EXCEPT ![id] = Claimed(r, hand[p].now)]
    BY <1>4
  <2>3. Claimed(r, hand[p].now).status = "PROCESSING"
    BY <2>1, ClaimedShape
  <2>. HIDE DEF r
  <2>4. \A j \in Identity : IF j \in {id} THEN row'[j].status = "PROCESSING"
                                          ELSE row'[j] = row[j]
    BY <2>2, <2>3 DEF TableShapes
  <2>5. \A q \in Proc : ~Holds(q, id)
    <3>1. id # Nowhere
      BY <1>4 DEF TablesInv, RowsInv, Existing
    <3>. QED
      BY <1>4, <3>1, HeldIsStored, NoRowShape
  <2>6. \A q \in Proc : q # p => hand'[q] = hand[q] /\ pc'[q] = pc[q]
    BY <1>4 DEF HandShapes
  <2>7. hand'[p].id = id /\ hand'[p].batch = hand[p].batch /\ pc'[p] = "work"
    BY <1>4 DEF HandShapes, Graspable, HandFields
  <2>8. \A j \in Identity \ {Nowhere} : Holds(p, j)' => Holds(p, j) \/ j \in {id}
    BY <2>7 DEF Holds
  <2>9. \A c, d \in hand'[p].batch : c.id = d.id => c = d \/ c.id = Nowhere
    BY <2>7 DEF ClaimsInv, HeldOnce
  <2>10. \A c \in hand'[p].batch : c.id # hand'[p].id
    BY <2>5, <2>7 DEF Holds
  <2>. DEFINE New == {id}
  <2>11. /\ \A q \in Proc : \A j \in New : ~Holds(q, j)
         /\ \A j \in Identity : IF j \in New THEN row'[j].status = "PROCESSING"
                                             ELSE row'[j] = row[j]
         /\ \A j \in Identity \ {Nowhere} : Holds(p, j)' => Holds(p, j) \/ j \in New
    BY <2>4, <2>5, <2>8
  <2>12. pc'[p] # "commit"
    BY <2>7
  <2>. HIDE DEF id, New
  <2>. QED
    BY <1>1, <2>6, <2>9, <2>10, <2>11, <2>12, ClaimStep
<1>. QED
  BY <1>2, <1>3, <1>4 DEF Ensure

LEMMA ClaimDueKeepsClaims ==
  ASSUME TablesInv, ClaimsInv, LeasesOutlast, plan' = plan, NEW p \in Proc,
         ClaimDue(p)
  PROVE  ClaimsInv'
<1>. HandShapes /\ TableShapes
  BY DEF TablesInv, RowsInv
<1>1. PICK S \in SUBSET {id \in Identity : Due(row[id], hand[p].now) /\ ~Locked(id)} :
        /\ row' = [id \in Identity |->
                     IF id \in S THEN Claimed(row[id], hand[p].now) ELSE row[id]]
        /\ hand' = [hand EXCEPT ![p].batch =
                      {[id |-> id, att |-> row[id].att + 1,
                        again |-> row[id].att > 0 \/ row[id].failed] : id \in S}]
  BY DEF ClaimDue
<1>2. pc[p] = "tick" /\ pc' = [pc EXCEPT ![p] = "next"] /\ UNCHANGED <<status, audit>>
  BY DEF ClaimDue, Goto
<1>3. \A j \in Identity : IF j \in S THEN row'[j].status = "PROCESSING"
                                     ELSE row'[j] = row[j]
  BY <1>1, ClaimedShape DEF TableShapes
<1>4. ASSUME NEW q \in Proc, NEW j \in S PROVE ~Holds(q, j)
  <2>1. j \in Identity /\ Due(row[j], hand[p].now)
    BY <1>1
  <2>2. j # Nowhere
    BY <2>1, NoRowShape DEF Due, Lapsed, TablesInv, RowsInv, Existing, Attached
  <2>3. CASE Holds(q, j)
    <3>1. row[j].status = "PROCESSING"
      BY <2>1, <2>2, <2>3, HeldIsStored
    <3>2. ~Lapsed(row[j], hand[p].now)
      BY <1>2, <2>1, <2>3 DEF LeasesOutlast
    <3>. QED
      BY <2>1, <3>1, <3>2 DEF Due
  <2>. QED
    BY <2>3
<1>5. hand'[p].batch = {[id |-> id, att |-> row[id].att + 1,
                         again |-> row[id].att > 0 \/ row[id].failed] : id \in S}
  BY <1>1 DEF HandShapes, Graspable, HandFields
<1>6. /\ \A q \in Proc : q # p => hand'[q] = hand[q] /\ pc'[q] = pc[q]
      /\ pc'[p] = "next"
  BY <1>1, <1>2 DEF HandShapes
<1>7. \A j \in Identity \ {Nowhere} : Holds(p, j)' => j \in S
  BY <1>5, <1>6 DEF Holds, Attempting
<1>8. \A c, d \in hand'[p].batch : c.id = d.id => c = d
  BY <1>5
<1>. QED
  BY <1>2, <1>3, <1>4, <1>6, <1>7, <1>8, ClaimStep DEF Attempting

LEMMA TakeRecordKeepsClaims ==
  ASSUME TablesInv, ClaimsInv, plan' = plan, NEW p \in Proc, TakeRecord(p)
  PROVE  ClaimsInv'
<1>. HandShapes
  BY DEF TablesInv
<1>1. PICK c \in hand[p].batch :
        hand' = [hand EXCEPT ![p].batch = @ \ {c}, ![p].id = c.id,
                             ![p].att = c.att, ![p].again = c.again]
  BY DEF TakeRecord
<1>2. pc' = [pc EXCEPT ![p] = "work"] /\ UNCHANGED <<status, row, audit>>
  BY DEF TakeRecord, Goto, tables
<1>3. hand'[p].batch = hand[p].batch \ {c} /\ hand'[p].id = c.id
  BY <1>1 DEF HandShapes, Graspable, HandFields
<1>4. /\ \A q \in Proc : q # p => hand'[q] = hand[q] /\ pc'[q] = pc[q]
      /\ pc'[p] = "work"
  BY <1>1, <1>2 DEF HandShapes
<1>5. \A j \in Identity \ {Nowhere} : Holds(p, j)' => Holds(p, j)
  BY <1>3 DEF Holds
<1>6. /\ \A b, d \in hand'[p].batch : b.id = d.id => b = d \/ b.id = Nowhere
      /\ \A b \in hand'[p].batch : b.id = hand'[p].id => b.id = Nowhere
  BY <1>3 DEF ClaimsInv, HeldOnce
<1>. DEFINE New == {}
<1>7. /\ \A q \in Proc : \A j \in New : ~Holds(q, j)
      /\ \A j \in Identity : IF j \in New THEN row'[j].status = "PROCESSING"
                                          ELSE row'[j] = row[j]
      /\ \A j \in Identity \ {Nowhere} : Holds(p, j)' => Holds(p, j) \/ j \in New
  BY <1>2, <1>5
<1>8. pc'[p] # "commit" /\ UNCHANGED <<status, audit>>
  BY <1>2, <1>4
<1>. HIDE DEF New
<1>. QED
  BY <1>4, <1>6, <1>7, <1>8, ClaimStep

\* An attempt goes on to its next step.
LEMMA AttemptGoesOn ==
  ASSUME TablesInv, ClaimsInv, plan' = plan, NEW p \in Proc, row' = row,
         \A q \in Proc : q # p => hand'[q] = hand[q] /\ pc'[q] = pc[q],
         pc[p] \in Attempting, pc'[p] \in Attempting,
         hand'[p].id = hand[p].id, hand'[p].batch = hand[p].batch
  PROVE  HeldRows' /\ OneHolder' /\ HeldOnce'
<1>. USE PlanFixed
<1>1. \A q \in Proc : \A j : Holds(q, j)' <=> Holds(q, j)
  BY DEF Holds
<1>2. HeldRows' /\ OneHolder'
  BY <1>1 DEF ClaimsInv, HeldRows, OneHolder
<1>3. HeldOnce'
  BY DEF ClaimsInv, HeldOnce
<1>. QED
  BY <1>2, <1>3

LEMMA WorkKeepsClaims ==
  ASSUME TablesInv, ClaimsInv, plan' = plan, NEW p \in Proc, Work(p)
  PROVE  ClaimsInv'
<1>. DEFINE id == hand[p].id
            open == status[id] \in {"RECEIVED", "PROCESSING"}
<1>. HandShapes /\ TableShapes
  BY DEF TablesInv, RowsInv
<1>. id \in Identity
  BY DEF HandShapes, Graspable
<1>1. row' = row /\ pc[p] = "work" /\ pc' = [pc EXCEPT ![p] = "commit"]
  BY DEF Work, Goto
<1>2. /\ hand'[p].id = id /\ hand'[p].batch = hand[p].batch
      /\ \A q \in Proc : q # p => hand'[q] = hand[q]
      /\ ~open => hand'[p].result \in {"already", "lost", "permanent"}
  <2>1. CASE ~open /\ hand' = [hand EXCEPT ![p].result =
                          CASE status[id] = "PROCESSED" -> "already"
                            [] status[id] = "ABSENT"    -> "lost"
                            [] OTHER                    -> "permanent"]
    BY <2>1 DEF HandShapes, Graspable, HandFields
  <2>2. CASE open /\ \E result, state : Attempted(p, result, state)
    BY <2>2 DEF Attempted, HandShapes, Graspable, HandFields
  <2>. QED
    BY <2>1, <2>2 DEF Work
<1>3. /\ \A j \in Identity : j # id => status'[j] = status[j]
      /\ status'[id] = IF open THEN "PROCESSING" ELSE status[id]
  BY DEF Work, TableShapes
<1>4. audit' = audit \/ audit' = Appended(id, {"RETRY_ATTEMPTED"})
  BY DEF Work
<1>5. /\ \A q \in Proc : q # p => hand'[q] = hand[q] /\ pc'[q] = pc[q]
      /\ pc'[p] = "commit" /\ pc[p] \in Attempting /\ pc'[p] \in Attempting
  BY <1>1, <1>2 DEF HandShapes, Attempting
<1>. HIDE DEF id
<1>6. HeldRows' /\ OneHolder' /\ HeldOnce'
  BY <1>1, <1>2, <1>5, AttemptGoesOn DEF id
<1>7. DecidedOpen'
  <2>1. \A j \in Identity : status[j] = "PROCESSING" => status'[j] = "PROCESSING"
    BY <1>3
  <2>2. \A q \in Proc : hand[q].id \in Identity
    BY DEF HandShapes, Graspable
  <2>3. hand'[p].result \in DecisionKinds => status'[id] = "PROCESSING"
    BY <1>2, <1>3 DEF DecisionKinds
  <2>. QED
    BY <1>2, <1>5, <2>1, <2>2, <2>3, PlanFixed DEF ClaimsInv, DecidedOpen
<1>8. Unapplied' /\ OneEffect'
  <2>1. \A j \in Identity :
          /\ audit'[j]["PAYMENT_STATE_CHANGED"] = audit[j]["PAYMENT_STATE_CHANGED"]
          /\ audit'[j]["WEBHOOK_DELAYED"] = audit[j]["WEBHOOK_DELAYED"]
    BY <1>4, EffectsUnlogged
  <2>2. \A j \in Identity : status'[j] # "PROCESSED" => status[j] # "PROCESSED"
    BY <1>3
  <2>. QED
    BY <2>1, <2>2, EffectsStay
<1>. QED
  BY <1>6, <1>7, <1>8 DEF ClaimsInv

\* What a decision leads to, at most.
LEMMA DraftsOnce ==
  ASSUME NEW p
  PROVE  /\ ~("PAYMENT_STATE_CHANGED" \in AllDrafts(p)
                /\ "WEBHOOK_DELAYED" \in AllDrafts(p))
         /\ "PAYMENT_STATE_CHANGED" \in AllDrafts(p) \/ "WEBHOOK_DELAYED" \in AllDrafts(p)
              => hand[p].result \in DecisionKinds /\ TerminalStatus(p) = "PROCESSED"
BY DEF AllDrafts, Drafts, TerminalStatus, DecisionKinds

LEMMA CommitKeepsClaims ==
  ASSUME TablesInv, ClaimsInv, plan' = plan, NEW p \in Proc, Commit(p)
  PROVE  ClaimsInv'
<1>. DEFINE id == hand[p].id
            to == TerminalStatus(p)
<1>. HandShapes /\ TableShapes /\ Existing
  BY DEF TablesInv, RowsInv
<1>. id \in Identity
  BY DEF HandShapes, Graspable
<1>1. row' = row /\ pc[p] = "commit"
  BY DEF Commit
<1>2. CASE Thrown(p) /\ UNCHANGED <<status, audit>>
  BY <1>1, <1>2, ThrownKeeps, TablesQuiet
<1>3. CASE /\ hand[p].result \in DecisionKinds =>
                status[id] \in FROM_STATUS(to) \cup {to}
           /\ pc' = [pc EXCEPT ![p] = "settle"]
           /\ status' = [status EXCEPT ![id] = to]
           /\ audit' = Appended(id, AllDrafts(p))
           /\ hand' = hand
  <2>1. /\ \A q \in Proc : q # p => hand'[q] = hand[q] /\ pc'[q] = pc[q]
        /\ pc'[p] = "settle" /\ pc[p] \in Attempting /\ pc'[p] \in Attempting
    BY <1>1, <1>3 DEF HandShapes, Attempting
  <2>2. HeldRows' /\ OneHolder' /\ HeldOnce'
    BY <1>1, <1>3, <2>1, AttemptGoesOn
  <2>3. /\ \A j \in Identity : j # id => status'[j] = status[j]
        /\ status'[id] = to
    BY <1>3 DEF TableShapes
  <2>4. hand[p].result \notin DecisionKinds => to = status[id]
    BY DEF TerminalStatus, DecisionKinds
  <2>5. hand[p].result \in DecisionKinds =>
          id # Nowhere /\ status[id] = "PROCESSING"
    <3>1. to \in {"PROCESSED", "CONFLICT", "REJECTED"}
            \/ hand[p].result \notin DecisionKinds
      BY DEF TerminalStatus, DecisionKinds
    <3>2. hand[p].result \in DecisionKinds => id # Nowhere
      BY <1>3, <3>1 DEF FROM_STATUS, Existing
    <3>. QED
      BY <1>1, <3>2 DEF ClaimsInv, DecidedOpen
  <2>6. DecidedOpen'
    <3>1. ASSUME NEW q \in Proc, pc'[q] = "commit",
                 hand'[q].result \in DecisionKinds, hand'[q].id # Nowhere
          PROVE  status'[hand'[q].id] = "PROCESSING"
      <4>1. q # p /\ hand'[q] = hand[q] /\ pc[q] = "commit"
        BY <2>1, <3>1
      <4>2. status[hand[q].id] = "PROCESSING"
        BY <3>1, <4>1 DEF ClaimsInv, DecidedOpen
      <4>3. hand[q].id # id
        <5>1. hand[q].id \in Identity \ {Nowhere}
          BY <3>1, <4>1 DEF HandShapes, Graspable
        <5>2. Holds(q, hand[q].id) /\ Holds(p, id)
          BY <1>1, <4>1 DEF Holds, Attempting
        <5>. QED
          BY <4>1, <5>1, <5>2 DEF ClaimsInv, OneHolder
      <4>4. hand[q].id \in Identity
        BY DEF HandShapes, Graspable
      <4>. QED
        BY <2>3, <4>1, <4>2, <4>3, <4>4
    <3>. QED
      BY <3>1 DEF DecidedOpen
  <2>7. /\ \A j \in Identity : j # id => audit'[j] = audit[j]
        /\ \A t \in AuditTypes :
             /\ audit[id][t] \in Nat
             /\ audit'[id][t] = IF t \in AllDrafts(p) THEN audit[id][t] + 1
                                                     ELSE audit[id][t]
    <3>1. RowsInv
      BY DEF TablesInv
    <3>. QED
      BY <1>3, <3>1, AuditGrows
  <2>. HIDE DEF id, to
  <2>8. CASE hand[p].result \in DecisionKinds
    <3>1. /\ audit[id]["PAYMENT_STATE_CHANGED"] = 0
          /\ audit[id]["WEBHOOK_DELAYED"] = 0
      BY <2>5, <2>8 DEF ClaimsInv, Unapplied
    <3>2. /\ audit'[id]["PAYMENT_STATE_CHANGED"] =
               IF "PAYMENT_STATE_CHANGED" \in AllDrafts(p) THEN 1 ELSE 0
          /\ audit'[id]["WEBHOOK_DELAYED"] =
               IF "WEBHOOK_DELAYED" \in AllDrafts(p) THEN 1 ELSE 0
      BY <2>7, <3>1 DEF AuditTypes
    <3>3. audit'[id]["PAYMENT_STATE_CHANGED"] + audit'[id]["WEBHOOK_DELAYED"] <= 1
      BY <3>2, DraftsOnce
    <3>4. to # "PROCESSED" => /\ audit'[id]["PAYMENT_STATE_CHANGED"] = 0
                              /\ audit'[id]["WEBHOOK_DELAYED"] = 0
      BY <3>2, DraftsOnce DEF to
    <3>5. Unapplied'
      BY <2>3, <2>7, <3>4, PlanFixed DEF ClaimsInv, Unapplied
    <3>6. OneEffect'
      BY <2>7, <3>3, PlanFixed DEF ClaimsInv, OneEffect
    <3>. QED
      BY <2>2, <2>6, <3>5, <3>6 DEF ClaimsInv
  <2>9. CASE hand[p].result \notin DecisionKinds
    <3>1. \A j \in Identity :
            /\ audit'[j]["PAYMENT_STATE_CHANGED"] = audit[j]["PAYMENT_STATE_CHANGED"]
            /\ audit'[j]["WEBHOOK_DELAYED"] = audit[j]["WEBHOOK_DELAYED"]
      BY <2>7, <2>9, DraftsOnce DEF AuditTypes
    <3>2. \A j \in Identity : status'[j] = status[j]
      BY <2>3, <2>4, <2>9
    <3>3. Unapplied' /\ OneEffect'
      BY <3>1, <3>2, EffectsStay
    <3>. QED
      BY <2>2, <2>6, <3>3 DEF ClaimsInv
  <2>. QED
    BY <2>8, <2>9
<1>. QED
  BY <1>2, <1>3 DEF Commit

LEMMA SettleKeepsClaims ==
  ASSUME TablesInv, ClaimsInv, plan' = plan, NEW p \in Proc, Settle(p)
  PROVE  ClaimsInv'
<1>. DEFINE id == hand[p].id
<1>. HandShapes /\ TableShapes
  BY DEF TablesInv, RowsInv
<1>. id \in Identity
  BY DEF HandShapes, Graspable
<1>1. status' = status /\ pc[p] = "settle"
  BY DEF Settle
<1>2. CASE Thrown(p) /\ UNCHANGED <<row, audit>>
  BY <1>1, <1>2, ThrownKeeps, TablesQuiet
<1>3. CASE /\ pc' = [pc EXCEPT ![p] = IF hand[p].ticking THEN "next" ELSE "observe"]
           /\ hand' = hand
           /\ \A j \in Identity : j # id => row'[j] = row[j]
           /\ audit' = audit \/ audit' = Appended(id, {"RETRY_SCHEDULED"})
  <2>1. \A q \in Proc : Keeps(q)
    BY <1>3 DEF Keeps, HandShapes, Attempting
  <2>2. Unapplied' /\ OneEffect'
    <3>1. \A j \in Identity :
            /\ audit'[j]["PAYMENT_STATE_CHANGED"] = audit[j]["PAYMENT_STATE_CHANGED"]
            /\ audit'[j]["WEBHOOK_DELAYED"] = audit[j]["WEBHOOK_DELAYED"]
      BY <1>3, EffectsUnlogged
    <3>. QED
      BY <1>1, <3>1, EffectsStay
  <2>3. ASSUME NEW q \in Proc, NEW j \in Identity \ {Nowhere}, Holds(q, j)'
        PROVE  row'[j].status = row[j].status /\ status'[j] = status[j]
    <3>1. Holds(q, j)
      BY <2>1, <2>3, KeptWasHeld
    <3>2. Holds(p, id)
      BY <1>1 DEF Holds, Attempting
    <3>3. j # id
      <4>1. CASE q # p
        BY <3>1, <3>2, <4>1 DEF ClaimsInv, OneHolder
      <4>2. CASE q = p
        <5>1. \E c \in hand[p].batch : c.id = j
          BY <1>3, <2>3, <4>2, SMTT(40) DEF Holds, HandShapes, Attempting
        <5>. QED
          BY <1>1, <5>1 DEF ClaimsInv, HeldOnce, Attempting
      <4>. QED
        BY <4>1, <4>2
    <3>. QED
      BY <1>1, <1>3, <3>3
  <2>. QED
    BY <2>1, <2>2, <2>3, QuietStep
<1>4. CASE /\ pc' = [pc EXCEPT ![p] = IF hand[p].ticking THEN "next" ELSE "observe"]
           /\ hand' = hand
           /\ row' = [row EXCEPT
                ![id].status = AttemptStatus(p),
                ![id].lease = 0,
                ![id].next = IF AttemptStatus(p) = "RETRY_SCHEDULED"
                             THEN hand[p].now
                                    + calculateRetryDelay(Policy(p), hand[p].att)
                             ELSE 0,
                ![id].failed = @ \/ AttemptStatus(p) # "SUCCEEDED"]
           /\ audit' = audit \/ audit' = Appended(id, {"RETRY_SCHEDULED"})
  <2>1. \A j \in Identity : j # id => row'[j] = row[j]
    BY <1>4 DEF TableShapes
  <2>. QED
    BY <1>3, <1>4, <2>1
<1>. QED
  BY <1>2, <1>4 DEF Settle

LEMMA PurgeParentsKeepsClaims ==
  ASSUME TablesInv, ClaimsInv, plan' = plan, PurgeParents
  PROVE  ClaimsInv'
<1>. HandShapes /\ TableShapes /\ PurgeHolds /\ plan \in Plans
  BY DEF TablesInv, RowsInv
<1>. USE PlanFixed
<1>1. CASE UNCHANGED <<tables, hand>>
  <2>1. UNCHANGED <<status, row, audit>> /\ \A q \in Proc : Keeps(q)
    BY <1>1 DEF PurgeParents, tables, Keeps
  <2>. QED
    BY <2>1, TablesQuiet
<1>2. CASE /\ Purged
           /\ \A id \in scope : ~LaterRow(id) /\ LaterAudit(id) = NoAudit
  <2>0. reset = "parents" /\ pc' = pc
    BY DEF PurgeParents
  <2>1. /\ TableShapes'
        /\ \A id \in scope : /\ stored'[id] = NoEvent /\ status'[id] = "ABSENT"
                             /\ row'[id] = NoRow /\ audit'[id] = NoAudit
        /\ \A id \in Identity \ scope :
             stored'[id] = stored[id] /\ status'[id] = status[id]
               /\ row'[id] = row[id]
        /\ \A id \in Identity : \A t \in AuditTypes : audit'[id][t] <= audit[id][t]
    BY <1>2, <2>0, Leftovers, SMTT(40)
  <2>2. \A q \in Proc :
          /\ hand'[q].id = Forgotten(hand[q].id)
          /\ hand'[q].batch = {[c EXCEPT !.id = Forgotten(@)] : c \in hand[q].batch}
          /\ hand'[q].result = hand[q].result
    BY <1>2 DEF Purged, HandShapes, Graspable, HandFields
  <2>3. \A id : Forgotten(id) = Nowhere \/ (Forgotten(id) = id /\ id \notin scope)
    BY DEF Forgotten
  <2>4. \A q \in Proc : \A c \in hand[q].batch :
          [c EXCEPT !.id = Forgotten(@)].id = Forgotten(c.id)
    BY DEF HandShapes, Graspable
  <2>5. ASSUME NEW q \in Proc, NEW id \in Identity \ {Nowhere}, Holds(q, id)'
        PROVE  Holds(q, id) /\ id \notin scope
    <3>1. CASE pc'[q] \in Attempting /\ hand'[q].id = id
      BY <2>0, <2>2, <2>3, <3>1 DEF Holds
    <3>2. CASE \E c \in hand'[q].batch : c.id = id
      <4>0. PICK b \in hand'[q].batch : b.id = id
        BY <3>2
      <4>1. PICK c \in hand[q].batch : b = [c EXCEPT !.id = Forgotten(@)]
        BY <2>2
      <4>2. c.id = id /\ id \notin scope
        BY <2>3, <2>4, <4>0, <4>1
      <4>. QED
        BY <4>2 DEF Holds
    <3>. QED
      BY <2>5, <3>1, <3>2 DEF Holds
  <2>6. HeldRows'
    <3>1. ASSUME NEW q \in Proc, NEW id \in Identity \ {Nowhere}, Holds(q, id)'
          PROVE  row'[id].status = "PROCESSING"
      <4>1. Holds(q, id) /\ id \notin scope
        BY <2>5, <3>1
      <4>2. row'[id] = row[id]
        BY <2>1, <4>1
      <4>. QED
        BY <4>1, <4>2 DEF ClaimsInv, HeldRows
    <3>. QED
      BY <3>1 DEF HeldRows
  <2>7. OneHolder'
    BY <2>5 DEF ClaimsInv, OneHolder
  <2>8. HeldOnce'
    <3>1. ASSUME NEW q \in Proc, NEW b \in hand'[q].batch, NEW d \in hand'[q].batch,
                 b.id = d.id, b.id # Nowhere
          PROVE  b = d
      <4>1. PICK b0 \in hand[q].batch : b = [b0 EXCEPT !.id = Forgotten(@)]
        BY <2>2
      <4>2. PICK d0 \in hand[q].batch : d = [d0 EXCEPT !.id = Forgotten(@)]
        BY <2>2
      <4>3. b.id = Forgotten(b0.id) /\ d.id = Forgotten(d0.id)
        BY <2>4, <4>1, <4>2
      <4>4. b0.id = d0.id /\ b0.id # Nowhere
        BY <2>3, <3>1, <4>3
      <4>5. b0 = d0
        BY <4>4 DEF ClaimsInv, HeldOnce
      <4>. QED
        BY <4>1, <4>2, <4>5
    <3>2. ASSUME NEW q \in Proc, pc'[q] \in Attempting, NEW c \in hand'[q].batch,
                 c.id = hand'[q].id, c.id # Nowhere
          PROVE  FALSE
      <4>1. PICK c0 \in hand[q].batch : c = [c0 EXCEPT !.id = Forgotten(@)]
        BY <2>2
      <4>2. c0.id = hand[q].id /\ c0.id # Nowhere
        BY <2>2, <2>3, <2>4, <3>2, <4>1
      <4>. QED
        BY <2>0, <3>2, <4>2 DEF ClaimsInv, HeldOnce
    <3>. QED
      BY <3>1, <3>2 DEF HeldOnce
  <2>9. DecidedOpen'
    <3>1. ASSUME NEW q \in Proc, pc'[q] = "commit",
                 hand'[q].result \in DecisionKinds, hand'[q].id # Nowhere
          PROVE  status'[hand'[q].id] = "PROCESSING"
      <4>1. hand'[q].id = hand[q].id /\ hand[q].id \notin scope
            /\ hand[q].result \in DecisionKinds /\ pc[q] = "commit"
        BY <2>0, <2>2, <2>3, <3>1
      <4>2. status[hand[q].id] = "PROCESSING" /\ hand[q].id \in Identity
        BY <3>1, <4>1 DEF ClaimsInv, DecidedOpen, HandShapes, Graspable
      <4>. QED
        BY <2>1, <4>1, <4>2
    <3>. QED
      BY <3>1 DEF DecidedOpen
  <2>10. \A id \in Identity :
           /\ audit[id]["PAYMENT_STATE_CHANGED"] \in Nat
           /\ audit[id]["WEBHOOK_DELAYED"] \in Nat
           /\ audit'[id]["PAYMENT_STATE_CHANGED"] \in Nat
           /\ audit'[id]["WEBHOOK_DELAYED"] \in Nat
           /\ audit'[id]["PAYMENT_STATE_CHANGED"] <= audit[id]["PAYMENT_STATE_CHANGED"]
           /\ audit'[id]["WEBHOOK_DELAYED"] <= audit[id]["WEBHOOK_DELAYED"]
    <3>1. audit \in [Identity -> [AuditTypes -> Nat]]
          /\ audit' \in [Identity -> [AuditTypes -> Nat]]
      BY <2>1 DEF TableShapes
    <3>2. "PAYMENT_STATE_CHANGED" \in AuditTypes /\ "WEBHOOK_DELAYED" \in AuditTypes
      BY DEF AuditTypes
    <3>. QED
      BY <2>1, <3>1, <3>2
  <2>11. Unapplied'
    <3>1. ASSUME NEW id \in Identity, status'[id] # "PROCESSED"
          PROVE  /\ audit'[id]["PAYMENT_STATE_CHANGED"] = 0
                 /\ audit'[id]["WEBHOOK_DELAYED"] = 0
      <4>1. CASE id \in scope
        BY <2>1, <4>1 DEF NoAudit, AuditTypes
      <4>2. CASE id \notin scope
        <5>1. status[id] # "PROCESSED"
          BY <2>1, <3>1, <4>2
        <5>. QED
          BY <2>10, <5>1 DEF ClaimsInv, Unapplied
      <4>. QED
        BY <4>1, <4>2
    <3>. QED
      BY <3>1 DEF Unapplied
  <2>12. OneEffect'
    BY <2>10 DEF ClaimsInv, OneEffect
  <2>. QED
    BY <2>6, <2>7, <2>8, <2>9, <2>11, <2>12 DEF ClaimsInv
<1>. QED
  BY <1>1, <1>2 DEF PurgeParents

LEMMA ClaimsInvInit ==
  ASSUME Init
  PROVE  ClaimsInv
<1>. plan \in Plans
  BY DEF Init
<1>1. \A p \in Proc : \A id : ~Holds(p, id)
  BY IdleGraspable DEF Init, Holds, Attempting
<1>2. HeldRows /\ OneHolder
  BY <1>1 DEF HeldRows, OneHolder
<1>3. HeldOnce /\ DecidedOpen
  BY IdleGraspable DEF Init, HeldOnce, DecidedOpen, Attempting
<1>4. \A id \in Identity : /\ audit[id]["PAYMENT_STATE_CHANGED"] = 0
                           /\ audit[id]["WEBHOOK_DELAYED"] = 0
  BY DEF Init, NoAudit, AuditTypes
<1>5. Unapplied /\ OneEffect
  BY <1>4 DEF Unapplied, OneEffect
<1>. QED
  BY <1>2, <1>3, <1>5 DEF ClaimsInv

LEMMA ClaimsInvStep ==
  ASSUME TablesInv, ClaimsInv, LeasesOutlast, [Next]_vars
  PROVE  ClaimsInv'
<1>0. plan' = plan
  BY PlanStays
<1>1. ASSUME NEW p \in Proc, Act(p) PROVE ClaimsInv'
  <2>1. CASE Start(p) \/ Observe(p) \/ EndTick(p)
    BY <1>0, <2>1, QuietSteps
  <2>2. CASE Post(p) \/ Ensure(p) \/ TakeRecord(p)
    BY <1>0, <2>2, PostKeepsClaims, EnsureKeepsClaims, TakeRecordKeepsClaims
  <2>3. CASE ClaimDue(p)
    BY <1>0, <2>3, ClaimDueKeepsClaims
  <2>4. CASE Work(p) \/ Commit(p) \/ Settle(p)
    BY <1>0, <2>4, WorkKeepsClaims, CommitKeepsClaims, SettleKeepsClaims
  <2>. QED
    BY <1>1, <2>1, <2>2, <2>3, <2>4 DEF Act, ProcessAttempt
<1>2. ASSUME StartTick PROVE ClaimsInv'
  <2>1. "worker" \in Proc
    BY DEF Proc
  <2>. QED
    BY <1>0, <1>2, <2>1, QuietSteps
<1>3. ASSUME NEW r \in Run, Drain(r) \/ DrainSimulated(r) \/ Report(r)
      PROVE  ClaimsInv'
  <2>1. r \in Proc
    BY DEF Proc
  <2>. QED
    BY <1>0, <1>3, <2>1, QuietSteps
<1>4. ASSUME PurgeParents PROVE ClaimsInv'
  BY <1>0, <1>4, PurgeParentsKeepsClaims
<1>5. ASSUME PurgeSelect \/ PurgeChildren \/ Crash \/ Tick \/ UNCHANGED vars
      PROVE  ClaimsInv'
  BY <1>0, <1>5, OtherSteps
<1>. QED
  BY <1>1, <1>2, <1>3, <1>4, <1>5 DEF Next

\* As long as leases outlast the attempts they are for, nobody attempts what
\* somebody else has claimed, and a decision finds the event as it was when it
\* was made.
THEOREM ClaimsInvariant == Spec /\ []LeasesOutlast => []ClaimsInv
<1>1. TablesInv /\ ClaimsInv /\ LeasesOutlast /\ [Next]_vars => ClaimsInv'
  BY ClaimsInvStep
<1>2. Init => ClaimsInv
  BY ClaimsInvInit
<1>. QED
  BY <1>1, <1>2, TablesInvariant, PTL DEF Spec

\* An event takes effect once, whoever processes it and whatever is reset
\* meanwhile, as long as leases outlast the attempts they are for.
THEOREM OneEffectUnderLeases == Spec /\ []LeasesOutlast => []OneEffect
<1>1. ClaimsInv => OneEffect
  BY DEF ClaimsInv
<1>. QED
  BY <1>1, ClaimsInvariant, PTL

-----------------------------------------------------------------------------
(* Types *)

Statuses == {"ABSENT", "RECEIVED", "PROCESSING", "PROCESSED", "CONFLICT",
             "REJECTED"}

RetryStatuses == {"NONE", "PROCESSING", "RETRY_SCHEDULED", "SUCCEEDED",
                  "DEAD_LETTERED"}

RetryTypes ==
  \A id \in Identity : row[id].status \in RetryStatuses /\ row[id].att \in Nat

\* A process is at one of its awaits, and in a tick only if it ticks.
PlaceTypes ==
  /\ pc \in [Proc -> Points]
  /\ \A p \in Proc : pc[p] \in {"tick", "next"} => hand[p].ticking

RunTypes == runs \in Seq(Lab) /\ Len(runs) <= Retention

LEMMA StatusTypesStep ==
  ASSUME TablesInv, status \in [Identity -> Statuses], [Next]_vars
  PROVE  status' \in [Identity' -> Statuses]
<1>0. plan' = plan
  BY PlanStays
<1>. USE <1>0, PlanFixed
<1>1. CASE status' = status
  BY <1>1
<1>2. ASSUME NEW p \in Proc, Act(p) PROVE status' \in [Identity' -> Statuses]
  <2>1. CASE Post(p)
    BY <2>1 DEF Post, Statuses
  <2>2. CASE Work(p)
    BY <2>2 DEF Work, Statuses
  <2>3. CASE Commit(p)
    <3>1. hand[p].id \in Identity
      BY DEF TablesInv, HandShapes, Graspable
    <3>2. TerminalStatus(p) \in Statuses
      BY <3>1 DEF TerminalStatus, Statuses
    <3>3. status' = status \/ status' = [status EXCEPT ![hand[p].id] = TerminalStatus(p)]
      BY <2>3, SMTT(40) DEF Commit
    <3>. QED
      BY <3>2, <3>3
  <2>4. CASE ~(Post(p) \/ Work(p) \/ Commit(p))
    BY <1>1, <1>2, <2>4
       DEF Act, ProcessAttempt, Start, Ensure, Observe, ClaimDue, TakeRecord,
           EndTick, Settle, tables
  <2>. QED
    BY <2>1, <2>2, <2>3, <2>4, SMTT(40)
<1>3. CASE PurgeParents
  <2>1. CASE Purged
    BY <2>1 DEF Purged, Statuses
  <2>. QED
    BY <1>1, <1>3, <2>1 DEF PurgeParents, tables
<1>4. CASE StartTick \/ PurgeSelect \/ PurgeChildren \/ Crash \/ Tick \/ UNCHANGED vars
  BY <1>1, <1>4, SMTT(40)
     DEF StartTick, PurgeSelect, PurgeChildren, Crash, Tick, vars, tables
<1>5. ASSUME NEW r \in Run, Drain(r) \/ DrainSimulated(r) \/ Report(r)
      PROVE  status' \in [Identity' -> Statuses]
  BY <1>1, <1>5 DEF Drain, DrainSimulated, Report, tables
<1>. QED
  BY <1>2, <1>3, <1>4, <1>5 DEF Next

LEMMA NoRowTypes == NoRow.status \in RetryStatuses /\ NoRow.att \in Nat
BY DEF NoRow, RetryStatuses

LEMMA ClaimedTypes ==
  ASSUME NEW r, NEW t, DOMAIN r = RowFields, r.att \in Nat
  PROVE  Claimed(r, t).status \in RetryStatuses /\ Claimed(r, t).att \in Nat
BY DEF Claimed, RowFields, RetryStatuses

LEMMA RetryTypesStep ==
  ASSUME TablesInv, RetryTypes, [Next]_vars
  PROVE  RetryTypes'
<1>0. plan' = plan
  BY PlanStays
<1>. USE <1>0, PlanFixed
<1>. TableShapes /\ HandShapes
  BY DEF TablesInv, RowsInv
<1>1. CASE row' = row
  BY <1>1 DEF RetryTypes
<1>2. ASSUME NEW p \in Proc, Act(p) PROVE RetryTypes'
  <2>. hand[p].id \in Identity
    BY DEF HandShapes, Graspable
  <2>1. CASE Ensure(p)
    <3>. DEFINE id == hand[p].id
                r == [row[id] EXCEPT !.next = hand[p].now]
    <3>1. row' = row \/ row' = [row EXCEPT ![id] = Claimed(r, hand[p].now)]
      BY <2>1 DEF Ensure
    <3>2. DOMAIN r = RowFields /\ r.att \in Nat
      BY DEF TableShapes, RetryTypes, RowFields
    <3>. HIDE DEF r
    <3>. QED
      BY <3>1, <3>2, ClaimedTypes DEF RetryTypes, TableShapes
  <2>2. CASE ClaimDue(p)
    <3>1. PICK S : row' = [id \in Identity |->
                     IF id \in S THEN Claimed(row[id], hand[p].now) ELSE row[id]]
      BY <2>2 DEF ClaimDue
    <3>2. \A id \in Identity : /\ Claimed(row[id], hand[p].now).status \in RetryStatuses
                               /\ Claimed(row[id], hand[p].now).att \in Nat
      BY ClaimedTypes DEF RetryTypes, TableShapes
    <3>. QED
      BY <3>1, <3>2 DEF RetryTypes
  <2>3. CASE Settle(p)
    <3>. DEFINE id == hand[p].id
                next == IF AttemptStatus(p) = "RETRY_SCHEDULED"
                        THEN hand[p].now
                               + calculateRetryDelay(Policy(p), hand[p].att)
                        ELSE 0
                bad == row[id].failed \/ AttemptStatus(p) # "SUCCEEDED"
                r == [row[id] EXCEPT !.status = AttemptStatus(p), !.lease = 0,
                                     !.next = next, !.failed = bad]
    <3>1. row' = row \/ row' = [row EXCEPT ![id] = r]
      BY <2>3 DEF Settle
    <3>2. AttemptStatus(p) \in RetryStatuses
      BY DEF AttemptStatus, RetryStatuses
    <3>3. r.status \in RetryStatuses /\ r.att \in Nat
      BY <3>2 DEF TableShapes, RetryTypes, RowFields
    <3>. HIDE DEF r
    <3>. QED
      BY <3>1, <3>3 DEF RetryTypes, TableShapes
  <2>4. CASE ~(Ensure(p) \/ ClaimDue(p) \/ Settle(p))
    BY <1>1, <1>2, <2>4
       DEF Act, ProcessAttempt, Start, Post, Observe, TakeRecord, EndTick, Work,
           Commit, tables
  <2>. QED
    BY <2>1, <2>2, <2>3, <2>4
<1>3. CASE PurgeParents
  <2>1. CASE Purged
    BY <2>1, NoRowTypes DEF Purged, RetryTypes
  <2>. QED
    BY <1>1, <1>3, <2>1 DEF PurgeParents, tables
<1>4. CASE StartTick \/ PurgeSelect \/ PurgeChildren \/ Crash \/ Tick \/ UNCHANGED vars
  BY <1>1, <1>4, SMTT(40)
     DEF StartTick, PurgeSelect, PurgeChildren, Crash, Tick, vars, tables
<1>5. ASSUME NEW r \in Run, Drain(r) \/ DrainSimulated(r) \/ Report(r)
      PROVE  RetryTypes'
  BY <1>1, <1>5 DEF Drain, DrainSimulated, Report, tables
<1>. QED
  BY <1>2, <1>3, <1>4, <1>5 DEF Next

LEMMA OnePlaceChanges ==
  ASSUME HandShapes, PlaceTypes, NEW p \in Proc, NEW to \in Points,
         pc' = [pc EXCEPT ![p] = to],
         \A q \in Proc : q # p => hand'[q].ticking = hand[q].ticking,
         to \in {"tick", "next"} => hand'[p].ticking
  PROVE  PlaceTypes'
BY DEF PlaceTypes

LEMMA RepliedPlaces ==
  ASSUME HandShapes, PlaceTypes, NEW p \in Proc, NEW http, Reply(p, http)
  PROVE  PlaceTypes'
<1>1. AfterReply(p) \in Points /\ AfterReply(p) \notin {"tick", "next"}
  BY DEF AfterReply, Points, Idling
<1>2. pc' = [pc EXCEPT ![p] = AfterReply(p)]
  BY DEF Reply
<1>3. \A q \in Proc : q # p => hand'[q] = hand[q]
  BY DEF Reply, HandShapes
<1>. QED
  BY <1>1, <1>2, <1>3, OnePlaceChanges

LEMMA ThrownPlaces ==
  ASSUME HandShapes, PlaceTypes, NEW p \in Proc, Thrown(p)
  PROVE  PlaceTypes'
<1>1. CASE hand' = [hand EXCEPT ![p] = Idle]
           /\ pc' = [pc EXCEPT ![p] = IF p = "worker" THEN "idle" ELSE "done"]
  <2>1. \A q \in Proc : q # p => hand'[q] = hand[q]
    BY <1>1 DEF HandShapes
  <2>2. (IF p = "worker" THEN "idle" ELSE "done") \in Points \ {"tick", "next"}
    BY DEF Points, Idling
  <2>. QED
    BY <1>1, <2>1, <2>2, OnePlaceChanges
<1>. QED
  BY <1>1, RepliedPlaces DEF Thrown

LEMMA PlaceTypesStep ==
  ASSUME TablesInv, PlaceTypes, [Next]_vars
  PROVE  PlaceTypes'
<1>. HandShapes
  BY DEF TablesInv
<1>1. CASE pc' = pc /\ \A q \in Proc : hand'[q].ticking = hand[q].ticking
  BY <1>1 DEF PlaceTypes
<1>2. ASSUME NEW p \in Proc, Act(p) PROVE PlaceTypes'
  <2>1. CASE Start(p)
    BY <2>1, OnePlaceChanges DEF Start, Goto, Points
  <2>2. CASE Post(p)
    <3>1. PICK to \in {"observe", "ensure"} : pc' = [pc EXCEPT ![p] = to]
      BY <2>2 DEF Post, Goto
    <3>2. \A q \in Proc : q # p => hand'[q] = hand[q]
      BY <2>2 DEF Post, HandShapes
    <3>. QED
      BY <3>1, <3>2, OnePlaceChanges DEF Points
  <2>3. CASE Ensure(p)
    <3>1. CASE /\ pc' = [pc EXCEPT ![p] = "work"]
               /\ hand' = [hand EXCEPT ![p].att = 1, ![p].again = FALSE]
      <4>1. \A q \in Proc : q # p => hand'[q] = hand[q]
        BY <3>1 DEF HandShapes
      <4>. QED
        BY <3>1, <4>1, OnePlaceChanges DEF Points
    <3>2. CASE pc' = [pc EXCEPT ![p] = "observe"] /\ hand' = hand
      BY <3>2, OnePlaceChanges DEF Points
    <3>. QED
      BY <2>3, <3>1, <3>2, ThrownPlaces DEF Ensure
  <2>4. CASE Observe(p)
    <3>1. \E http : Reply(p, http)
      BY <2>4 DEF Observe
    <3>. QED
      BY <3>1, RepliedPlaces
  <2>5. CASE ClaimDue(p)
    <3>1. pc[p] = "tick" /\ pc' = [pc EXCEPT ![p] = "next"]
      BY <2>5 DEF ClaimDue, Goto
    <3>2. \A q \in Proc : hand'[q].ticking = hand[q].ticking
      BY <2>5 DEF ClaimDue, HandShapes, Graspable, HandFields
    <3>. QED
      BY <3>1, <3>2, OnePlaceChanges DEF Points, PlaceTypes
  <2>6. CASE TakeRecord(p)
    <3>1. pc' = [pc EXCEPT ![p] = "work"]
      BY <2>6 DEF TakeRecord, Goto
    <3>2. \A q \in Proc : q # p => hand'[q] = hand[q]
      BY <2>6 DEF TakeRecord, HandShapes
    <3>. QED
      BY <3>1, <3>2, OnePlaceChanges DEF Points
  <2>7. CASE EndTick(p)
    <3>1. PICK to \in {"idle", "drain"} : pc' = [pc EXCEPT ![p] = to]
      BY <2>7 DEF EndTick, Goto
    <3>2. \A q \in Proc : q # p => hand'[q] = hand[q]
      BY <2>7 DEF EndTick, HandShapes
    <3>. QED
      BY <3>1, <3>2, OnePlaceChanges DEF Points, Idling
  <2>8. CASE Work(p)
    <3>1. pc' = [pc EXCEPT ![p] = "commit"]
      BY <2>8 DEF Work, Goto
    <3>2. \A q \in Proc : q # p => hand'[q] = hand[q]
      BY <2>8 DEF Work, Attempted, HandShapes
    <3>. QED
      BY <3>1, <3>2, OnePlaceChanges DEF Points
  <2>9. CASE Commit(p)
    <3>1. CASE pc' = [pc EXCEPT ![p] = "settle"] /\ hand' = hand
      BY <3>1, OnePlaceChanges DEF Points
    <3>. QED
      BY <2>9, <3>1, ThrownPlaces DEF Commit
  <2>10. CASE Settle(p)
    <3>1. CASE /\ pc' = [pc EXCEPT ![p] = IF hand[p].ticking THEN "next" ELSE "observe"]
               /\ hand' = hand
      BY <3>1, OnePlaceChanges DEF Points
    <3>. QED
      BY <2>10, <3>1, ThrownPlaces DEF Settle
  <2>. QED
    BY <1>2, <2>1, <2>2, <2>3, <2>4, <2>5, <2>6, <2>7, <2>8, <2>9, <2>10
       DEF Act, ProcessAttempt
<1>3. ASSUME StartTick PROVE PlaceTypes'
  <2>1. "worker" \in Proc
    BY DEF Proc
  <2>2. hand'["worker"].ticking /\ \A q \in Proc : q # "worker" => hand'[q] = hand[q]
    BY <1>3, <2>1 DEF StartTick, HandShapes, Idle
  <2>. QED
    BY <1>3, <2>1, <2>2, OnePlaceChanges DEF StartTick, Goto, Points
<1>4. ASSUME NEW r \in Run, Drain(r) \/ DrainSimulated(r) PROVE PlaceTypes'
  <2>. r \in Proc
    BY DEF Proc
  <2>1. ASSUME NEW now, hand' = [hand EXCEPT ![r].ticking = TRUE,
                                   ![r].ticks = @ + 1, ![r].now = now,
                                   ![r].since = clock],
               pc' = [pc EXCEPT ![r] = "tick"]
        PROVE  PlaceTypes'
    <3>. DEFINE h == [hand[r] EXCEPT !.ticking = TRUE, !.ticks = @ + 1,
                                     !.now = now, !.since = clock]
    <3>1. hand' = [hand EXCEPT ![r] = h]
      BY <2>1
    <3>2. h.ticking
      BY DEF HandShapes, Graspable, HandFields
    <3>. HIDE DEF h
    <3>3. hand'[r].ticking /\ \A q \in Proc : q # r => hand'[q] = hand[q]
      BY <3>1, <3>2 DEF HandShapes
    <3>. QED
      BY <2>1, <3>3, OnePlaceChanges DEF Points
  <2>2. ASSUME NEW to \in {"post", "report"}, pc' = [pc EXCEPT ![r] = to],
               hand' = hand \/ hand' = [hand EXCEPT ![r].ticks = 0]
        PROVE  PlaceTypes'
    <3>1. \A q \in Proc : q # r => hand'[q] = hand[q]
      BY <2>2 DEF HandShapes
    <3>. QED
      BY <2>2, <3>1, OnePlaceChanges DEF Points
  <2>3. CASE Drain(r)
    <3>1. \/ \E now : /\ pc' = [pc EXCEPT ![r] = "tick"]
                      /\ hand' = [hand EXCEPT ![r].ticking = TRUE,
                                    ![r].ticks = @ + 1, ![r].now = now,
                                    ![r].since = clock]
          \/ /\ \E to \in {"post", "report"} : pc' = [pc EXCEPT ![r] = to]
             /\ hand' = [hand EXCEPT ![r].ticks = 0]
      BY <2>3 DEF Drain, Goto
    <3>. QED
      BY <2>1, <2>2, <3>1
  <2>4. CASE DrainSimulated(r)
    <3>1. \/ \E now : /\ pc' = [pc EXCEPT ![r] = "tick"]
                      /\ hand' = [hand EXCEPT ![r].ticking = TRUE,
                                    ![r].ticks = @ + 1, ![r].now = now,
                                    ![r].since = clock]
          \/ pc' = [pc EXCEPT ![r] = "report"] /\ hand' = hand
      BY <2>4 DEF DrainSimulated, Goto
    <3>. QED
      BY <2>1, <2>2, <3>1, ZenonT(60)
  <2>. QED
    BY <1>4, <2>3, <2>4
<1>5. ASSUME NEW r \in Run, Report(r) PROVE PlaceTypes'
  <2>1. r \in Proc /\ \A q \in Proc : q # r => hand'[q] = hand[q]
    BY <1>5 DEF Proc, Report, HandShapes
  <2>. QED
    BY <1>5, <2>1, OnePlaceChanges DEF Report, Goto, Points, Idling
<1>6. ASSUME PurgeParents PROVE PlaceTypes'
  <2>1. CASE Purged
    <3>1. \A q \in Proc : hand'[q].ticking = hand[q].ticking
      BY <2>1 DEF Purged, HandShapes, Graspable, HandFields
    <3>. QED
      BY <1>1, <1>6, <3>1 DEF PurgeParents
  <2>. QED
    BY <1>1, <1>6, <2>1 DEF PurgeParents
<1>7. ASSUME Crash PROVE PlaceTypes'
  <2>1. pc' \in [Proc -> Points]
    BY <1>7 DEF Crash, PlaceTypes, Points, Idling
  <2>2. ASSUME NEW q \in Proc, pc'[q] \in {"tick", "next"} PROVE hand'[q].ticking
    BY <1>7, <2>2 DEF Crash, PlaceTypes
  <2>. QED
    BY <2>1, <2>2 DEF PlaceTypes
<1>8. CASE PurgeSelect \/ PurgeChildren \/ Tick \/ UNCHANGED vars
  BY <1>1, <1>8 DEF PurgeSelect, PurgeChildren, Tick, vars
<1>. QED
  BY <1>2, <1>3, <1>4, <1>5, <1>6, <1>7, <1>8 DEF Next

\* retainLabRuns keeps no more than it may.
LEMMA RetainedFits ==
  ASSUME NEW s \in Seq(Lab)
  PROVE  Retained(s) \in Seq(Lab) /\ Len(Retained(s)) <= Retention
<1>. Retention \in Nat /\ Len(s) \in Nat
  BY FailureLabAssumption
<1>1. CASE Len(s) > Retention
  <2>1. Retained(s) = SubSeq(s, Len(s) - Retention + 1, Len(s))
    BY <1>1 DEF Retained
  <2>2. Len(s) - Retention + 1 \in 1..Len(s) + 1
    BY <1>1
  <2>3. SubSeq(s, Len(s) - Retention + 1, Len(s)) \in Seq(Lab)
        /\ Len(SubSeq(s, Len(s) - Retention + 1, Len(s))) = Retention
    BY <2>2
  <2>. QED
    BY <2>1, <2>3
<1>2. CASE ~(Len(s) > Retention)
  BY <1>2 DEF Retained
<1>. QED
  BY <1>1, <1>2

LEMMA RunTypesStep ==
  ASSUME RunTypes, [Next]_vars
  PROVE  RunTypes'
<1>0. plan' = plan
  BY PlanStays
<1>. USE <1>0, PlanFixed
<1>. Retention \in Nat
  BY FailureLabAssumption
<1>1. CASE runs' = runs
  BY <1>1 DEF RunTypes
<1>2. CASE runs' = << >>
  BY <1>2 DEF RunTypes
<1>3. ASSUME NEW p \in Lab, runs' = Retained(Append(runs, p)) PROVE RunTypes'
  <2>1. Append(runs, p) \in Seq(Lab)
    BY DEF RunTypes
  <2>. QED
    BY <1>3, <2>1, RetainedFits DEF RunTypes
<1>4. ASSUME NEW p \in Proc, Act(p) PROVE RunTypes'
  <2>1. runs' = runs
    BY <1>4, ZenonT(60)
       DEF Act, ProcessAttempt, Start, Post, Ensure, Observe, ClaimDue,
                TakeRecord, EndTick, Work, Commit, Settle
  <2>. QED
    BY <1>1, <2>1
<1>5. ASSUME NEW r \in Run, Drain(r) \/ DrainSimulated(r) \/ Report(r)
      PROVE  RunTypes'
  BY <1>1, <1>3, <1>5 DEF Drain, DrainSimulated, Report
<1>6. CASE PurgeParents \/ Crash
  BY <1>1, <1>2, <1>6 DEF PurgeParents, Crash
<1>7. CASE StartTick \/ PurgeSelect \/ PurgeChildren \/ Tick \/ UNCHANGED vars
  BY <1>1, <1>7 DEF StartTick, PurgeSelect, PurgeChildren, Tick, vars
<1>. QED
  BY <1>4, <1>5, <1>6, <1>7 DEF Next

LEMMA ClockStep ==
  ASSUME clock \in 0..Horizon, [Next]_vars
  PROVE  clock' \in 0..Horizon
<1>. Horizon \in Nat
  BY FailureLabAssumption
<1>1. CASE Tick
  BY <1>1, SMTT(40) DEF Tick
<1>2. ASSUME NEW p \in Proc, Act(p) PROVE clock' = clock
  BY <1>2, ZenonT(60)
     DEF Act, ProcessAttempt, Start, Post, Ensure, Observe, ClaimDue,
              TakeRecord, EndTick, Work, Commit, Settle
<1>3. ASSUME NEW r \in Run, Drain(r) \/ DrainSimulated(r) \/ Report(r)
      PROVE  clock' = clock
  BY <1>3 DEF Drain, DrainSimulated, Report
<1>4. CASE StartTick \/ PurgeSelect \/ PurgeChildren \/ PurgeParents \/ Crash
             \/ UNCHANGED vars
  BY <1>4 DEF StartTick, PurgeSelect, PurgeChildren, PurgeParents, Crash, vars
<1>. QED
  BY <1>1, <1>2, <1>3, <1>4 DEF Next

TypesInv ==
  /\ status \in [Identity -> Statuses]
  /\ RetryTypes
  /\ PlaceTypes
  /\ RunTypes
  /\ clock \in 0..Horizon
  /\ scope \subseteq Identity

LEMMA TypesInvInit ==
  ASSUME Init
  PROVE  TypesInv
<1>1. status \in [Identity -> Statuses] /\ scope \subseteq Identity
  BY DEF Init, Statuses
<1>2. RetryTypes
  BY NoRowTypes DEF Init, RetryTypes
<1>3. PlaceTypes
  BY DEF Init, PlaceTypes, Points, Idling
<1>4. RunTypes /\ clock \in 0..Horizon
  BY FailureLabAssumption DEF Init, RunTypes
<1>. QED
  BY <1>1, <1>2, <1>3, <1>4 DEF TypesInv

LEMMA TypesInvStep ==
  ASSUME TablesInv, TypesInv, [Next]_vars
  PROVE  TypesInv'
<1>1. scope' \subseteq Identity'
  <2>1. TablesInv' /\ plan' = plan
    BY TablesInvStep, PlanStays
  <2>2. reset' # "idle" => scope' \subseteq Identity'
    BY <2>1 DEF TablesInv, RowsInv, PurgeHolds, LabIds
  <2>3. scope' = scope \/ reset' # "idle"
    <3>1. CASE PurgeSelect
      BY <3>1 DEF PurgeSelect
    <3>2. CASE PurgeChildren \/ PurgeParents \/ Crash
      BY <3>2 DEF PurgeChildren, PurgeParents, Crash
    <3>3. CASE StartTick \/ Tick \/ UNCHANGED vars
      BY <3>3, SMTT(40) DEF StartTick, Tick, vars, purge
    <3>4. ASSUME NEW p \in Proc, Act(p) PROVE scope' = scope
      BY <3>4, ZenonT(60)
         DEF Act, ProcessAttempt, Start, Post, Ensure, Observe, ClaimDue,
                  TakeRecord, EndTick, Work, Commit, Settle, purge
    <3>5. ASSUME NEW r \in Run, Drain(r) \/ DrainSimulated(r) \/ Report(r)
          PROVE  scope' = scope
      BY <3>5 DEF Drain, DrainSimulated, Report, purge
    <3>. QED
      BY <3>1, <3>2, <3>3, <3>4, <3>5 DEF Next
  <2>. QED
    BY <2>1, <2>2, <2>3, PlanFixed DEF TypesInv
<1>. QED
  BY <1>1, StatusTypesStep, RetryTypesStep, PlaceTypesStep, RunTypesStep, ClockStep
     DEF TypesInv

\* Every row, process and report is of its type, and no more reports are kept
\* than retainLabRuns allows.
THEOREM TypesAreRight == Spec => []TypeOK
<1>1. TablesInv /\ TypesInv /\ [Next]_vars => TypesInv'
  BY TypesInvStep
<1>2. Init => TypesInv
  BY TypesInvInit
<1>3. TablesInv /\ TypesInv => TypeOK
  <2>. SUFFICES ASSUME TablesInv, TypesInv PROVE TypeOK
    OBVIOUS
  <2>1. DOMAIN gone \subseteq Identity
    BY DEF TablesInv, RowsInv, PurgeHolds, LabIds
  <2>. QED
    BY <2>1 DEF TablesInv, RowsInv, TableShapes, TypesInv, RetryTypes, PlaceTypes,
                RunTypes, Statuses, RetryStatuses, TypeOK
<1>. QED
  BY <1>1, <1>2, <1>3, TablesInvariant, PTL DEF Spec
=============================================================================
