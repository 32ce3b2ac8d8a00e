---------------------------- MODULE EventLifecycle ----------------------------
(***************************************************************************)
(* What the retry protocol promises for a stored webhook event: it is      *)
(* applied once or parked for an operator, never both, and neither is ever *)
(* taken back. Requests, ticks, leases, attempts and crashes do not show.  *)
(***************************************************************************)
EXTENDS Naturals

CONSTANT Event

VARIABLES
  phase,    \* "absent", "open", "applied" or "parked", for each event
  effects   \* payment transitions the event has caused

vars == <<phase, effects>>

Phases == {"absent", "open", "applied", "parked"}

Init ==
  /\ phase = [e \in Event |-> "absent"]
  /\ effects = [e \in Event |-> 0]

Move(e, from, to) ==
  /\ phase[e] = from
  /\ phase' = [phase EXCEPT ![e] = to]

Store(e) == Move(e, "absent", "open") /\ UNCHANGED effects

\* A delayed event is applied without an effect of its own.
Apply(e) ==
  /\ Move(e, "open", "applied")
  /\ \E moved \in {0, 1} : effects' = [effects EXCEPT ![e] = @ + moved]

Park(e) == Move(e, "open", "parked") /\ UNCHANGED effects

Next == \E e \in Event : Store(e) \/ Apply(e) \/ Park(e)

Spec == Init /\ [][Next]_vars

-----------------------------------------------------------------------------
TypeOK ==
  /\ phase \in [Event -> Phases]
  /\ effects \in [Event -> Nat]

\* An event causes one payment transition at most, and only once applied: what
\* storage/README.md calls "Retry must not mean a second payment transition."
AtMostOneEffect ==
  \A e \in Event : /\ effects[e] <= 1
                   /\ effects[e] = 1 => phase[e] = "applied"
=============================================================================
