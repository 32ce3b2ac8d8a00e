----------------------------- MODULE MCExceptions -----------------------------
(***************************************************************************)
(* One stored event, to which two things happen that come to the same      *)
(* condition; what else attempts and deliveries detect is classified in    *)
(* Classification and Ingest.                                              *)
(***************************************************************************)
EXTENDS Exceptions, TLC

CONSTANT MaxRows \* bound on the rows of the exceptions table

Met(outcome, from, type) == [outcome |-> outcome, from |-> from, type |-> type]

Happened(by, code, met, last) ==
  [by |-> by, code |-> code, met |-> met, last |-> last]

\* Two ways to the same condition: a permanent failure that is classified as
\* two conditions, and a redelivery with other material that is one of them.
FewCauses ==
  [s \in Subject |->
     {Happened("attempt", "PERMANENT_CONFLICT",
               Met("INVALID_TRANSITION", "FAILED", "refund.created"), FALSE),
      Happened("store", "CONFLICT", NoMeeting, FALSE)}]

FewRows == Cardinality({id \in Identity : status[id] # "NONE"}) <= MaxRows

Symmetry == Permutations(Recorder) \cup Permutations(Operator)
=============================================================================
