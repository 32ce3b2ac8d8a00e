------------------------------- MODULE MCIngest -------------------------------
(***************************************************************************)
(* A handful of deliveries, sent together in the groups that make trouble  *)
(* for each other: an event and another version, another spelling or a     *)
(* successor of it, and what must not get in next to what must.            *)
(***************************************************************************)
EXTENDS Ingest

Genuine(name, ext, sec) ==
  [provider |-> "SYNTHETIC", rid |-> TRUE, json |-> TRUE, declared |-> 1,
   size |-> 1, sig |-> "genuine", age |-> 0, flaws |-> {}, name |-> name,
   ext |-> ext, pay |-> "pay", at |-> [sec |-> sec, frac |-> << >>],
   amount |-> 5, ccy |-> "USD"]

created == Genuine("syn.payment.opened", 1, 1)

MCContent ==
  [created   |-> created,
   \* other versions of the same identity
   repriced  |-> [created EXCEPT !.amount = 6],
   respelled |-> [created EXCEPT !.ccy = "usd", !.at.frac = <<0, 0, 0>>],
   coarse    |-> [created EXCEPT !.at.frac = <<0>>],
   \* other events of the payment
   held      |-> Genuine("syn.payment.hold", 2, 2),
   reopened  |-> [Genuine("syn.payment.opened", 3, 2) EXCEPT !.amount = 6],
   rzpHeld   |-> [Genuine("payment.authorized", 4, 2) EXCEPT
                    !.provider = "razorpay"],
   \* a request id the audit refuses, an amount and a date nobody can keep
   unfit     |-> [created EXCEPT !.rid = FALSE],
   huge      |-> [created EXCEPT !.amount = 9],
   thirtieth |-> [created EXCEPT !.flaws = {"calendar"}],
   farAway   |-> [Genuine("payment.failed", 4, 2) EXCEPT
                    !.provider = "razorpay", !.flaws = {"era"}],
   \* not to be let in
   forged    |-> [created EXCEPT !.sig = "forged", !.amount = 6],
   stale     |-> [created EXCEPT !.age = 2, !.amount = 6],
   unsigned  |-> [created EXCEPT !.sig = "absent"],
   misshapen |-> [created EXCEPT !.sig = "misshapen"],
   stranger  |-> [created EXCEPT !.provider = "other"],
   text      |-> [created EXCEPT !.json = FALSE],
   long      |-> [created EXCEPT !.size = 3],
   garbled   |-> [created EXCEPT !.flaws = {"syntax"}],
   unnamed   |-> [created EXCEPT !.flaws = {"payment_ref", "amount"}],
   unmapped  |-> [created EXCEPT !.name = "syn.payment.other"]]

Together(of, times, failures) ==
  [of |-> of, sends |-> times, faults |-> failures]

MCTraffics ==
  { Together({"created", "repriced"}, 2, 1),
    Together({"held"}, 3, 1),
    Together({"unfit"}, 3, 1),
    Together({"created", "reopened"}, 1, 1),
    Together({"created", "forged"}, 1, 1),
    Together({"created", "respelled"}, 1, 0),
    Together({"created", "coarse"}, 1, 0),
    Together({"created", "held"}, 1, 0),
    Together({"created", "rzpHeld"}, 1, 0),
    Together({"unfit", "repriced"}, 1, 0),
    Together({"stale", "unnamed"}, 1, 1),
    Together({"unsigned", "misshapen"}, 1, 0),
    Together({"stranger", "text", "long"}, 1, 0),
    Together({"garbled", "unmapped"}, 1, 0),
    Together({"huge", "thirtieth", "farAway"}, 1, 0) }
=============================================================================
