----------------------------- MODULE MCFailureLab -----------------------------
(***************************************************************************)
(* Each scenario alone, and the ones that retry beside what they may meet. *)
(***************************************************************************)
EXTENDS FailureLab

Labs(of) == [r \in Run |-> IF r \in DOMAIN of
                           THEN [kind |-> "lab", id |-> of[r]] ELSE NoRun]

Beside(of, live, worker, resets) ==
  [of |-> of, live |-> live, worker |-> worker, reset |-> resets]

Alone(id) == Beside(Labs([r1 |-> id]), FALSE, FALSE, FALSE)

Command(id) ==
  Beside([r \in Run |-> IF r = "r1" THEN [kind |-> "simulate", id |-> id]
                                    ELSE NoRun], FALSE, FALSE, FALSE)

MCPlans ==
  {Alone(id) : id \in FAILURE_LAB_SCENARIO}
    \cup {Command(id) : id \in DOMAIN SCENARIOS}
    \cup {Beside(Labs([r1 |-> "TRANSIENT_FAILURE"]), TRUE, TRUE, FALSE),
          Beside(Labs([r1 |-> "GOLDEN_DEMO"]), FALSE, TRUE, FALSE),
          Beside(Labs([r1 |-> "RETRY_EXHAUSTION"]), TRUE, FALSE, FALSE),
          Beside(Labs([r1 |-> "RETRY_EXHAUSTION"]), FALSE, TRUE, FALSE),
          Beside(Labs([r1 |-> "RETRY_EXHAUSTION", r2 |-> "TRANSIENT_FAILURE"]),
                 FALSE, FALSE, FALSE),
          Beside(Labs([r1 |-> "TRANSIENT_FAILURE"]), TRUE, FALSE, TRUE),
          Beside(Labs([r1 |-> "GOLDEN_DEMO"]), FALSE, TRUE, TRUE),
          Beside(Labs([r1 |-> "OUT_OF_ORDER"]), FALSE, FALSE, TRUE)}
=============================================================================
