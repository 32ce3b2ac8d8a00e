---------------------------- MODULE MCReplayLoop ----------------------------
(***************************************************************************)
(* Every input list of at most MaxLen events drawn from a pool with late   *)
(* and early copies of each step, steps that share a timestamp and sort    *)
(* against the order they must be taken in, an exact duplicate delivery (a *)
(* list may repeat an event), a conflicting version of one identity and an *)
(* event of another payment.                                               *)
(***************************************************************************)
EXTENDS Classification

CONSTANT MaxLen

Ev(id, type, at) ==
  [id |-> id, pay |-> "p1", type |-> type, at |-> at, body |-> "b1"]

MCEvent ==
  { Ev(1, "payment.created", 1),
    Ev(2, "payment.authorized", 2),
    Ev(3, "payment.captured", 3),
    Ev(4, "payment.failed", 1),
    Ev(5, "payment.failed", 4),
    Ev(6, "refund.created", 4),
    [Ev(2, "payment.authorized", 2) EXCEPT !.body = "b2"],
    [Ev(7, "payment.created", 2) EXCEPT !.body = "b2"],
    [Ev(8, "payment.created", 1) EXCEPT !.pay = "p2"] }

MCInputs == UNION {[1..n -> MCEvent] : n \in 0..MaxLen}
=============================================================================
