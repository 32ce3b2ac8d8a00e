--------------------------- MODULE MCRetryProtocol ---------------------------
(***************************************************************************)
(* The retry protocol over real logs: verdicts and snapshots are those of  *)
(* replayEvents for the events of one payment. Each .cfg picks the events, *)
(* the deliveries and the bounds.                                          *)
(***************************************************************************)
EXTENDS RetryProtocol, TLC

R == INSTANCE Replay

Detail(id, type, at) ==
  [id |-> id, pay |-> "pay", type |-> type, at |-> at, body |-> "money"]

\* Whether `failed`, dated after the capture, and `recreated`, a second creation
\* with other money, are accepted or a conflict depends on what else is stored.
Details ==
  [created    |-> Detail(1, "payment.created", 1),
   authorized |-> Detail(2, "payment.authorized", 2),
   captured   |-> Detail(3, "payment.captured", 3),
   failed     |-> Detail(4, "payment.failed", 4),
   recreated  |-> [Detail(5, "payment.created", 1) EXCEPT !.body = "other"]]

MCPaymentOf == [e \in Event |-> "pay"]

Arrival(log) == R!SetToSeq({Details[e] : e \in log})

Result(log) == R!replayEvents(Arrival(log), "pay")

MCVerdict ==
  [log \in SUBSET Event |->
     LET r == Result(log)
     IN  [e \in log |->
            r.decisions[CHOOSE k \in DOMAIN r.ordered :
                          r.ordered[k] = Details[e]].decision]]

MCSnapshot == [log \in SUBSET Event |-> Result(log).payment]

MCNoSnapshot == R!NoPayment

\* First and second deliveries of the events.
Deliveries ==
  [c1 |-> "created", c2 |-> "created", a1 |-> "authorized",
   p1 |-> "captured", f1 |-> "failed", n1 |-> "recreated"]

MCEventOf == [r \in Request |-> Deliveries[r]]

\* For liveness the verdicts need not be a replay's: one event is accepted, one
\* is a conflict.
PlainVerdict ==
  [log \in SUBSET Event |->
     [e \in log |-> IF e = "failed" THEN "CONFLICT" ELSE "ACCEPTED"]]

PlainSnapshot == [log \in SUBSET Event |-> log]

\* States are told apart without the instant of a process that is at rest: it
\* samples a new one before it uses it.
View ==
  <<clock, tables, pc, [p \in Proc |-> IF Busy(p) THEN now[p] ELSE 0], batch,
    job, faults>>

Workers == Permutations(Worker)
=============================================================================
