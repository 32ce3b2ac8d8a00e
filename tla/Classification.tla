---------------------------- MODULE Classification ----------------------------
(***************************************************************************)
(* What the exceptions package says of a replay: every event of a finished *)
(* loop may be the one an attempt was about, and recordAttemptExceptions   *)
(* is then called with the replay's decision on it. An attempt that throws *)
(* has no decision. The last attempt of the budget or not, each time.      *)
(***************************************************************************)
EXTENDS ReplayLoop, Detection

\* What the statements of an attempt throw.
ThrownCodes ==
  {"TEMPORARY_DATABASE_FAILURE", "TRANSIENT_INTERNAL_ERROR",
   "INVALID_STATUS_TRANSITION", "INVALID_ROW", "INVALID_CURRENCY"}

AttemptCause(code, met, last) ==
  [by |-> "attempt", code |-> code, met |-> met, last |-> last]

Meetings ==
  {MeetingOf(Reported(verdict, payment)[k], ordered[k].type) :
     k \in DOMAIN ordered}

AttemptCauses ==
  {AttemptCause(DecisionCode(m), m, last) : m \in Meetings, last \in BOOLEAN}
    \cup {AttemptCause(code, NoMeeting, last) :
            code \in ThrownCodes, last \in BOOLEAN}

\* An attempt that leaves its event unapplied raises an exception, one that
\* dead-letters it at least an ERROR; an applied event raises none
\* (packages/exceptions, detect.ts and from-retry.ts).
UnappliedRaises ==
  pc = "done" =>
    \A c \in AttemptCauses :
      LET detected == detectException(Facts(c))
      IN  /\ detected = {} <=> c.code = "none" /\ Decision(c.met) = "ACCEPTED"
          /\ AttemptStatus(c) = "DEAD_LETTERED" =>
               \E code \in detected :
                 severityForExceptionCode(code) \in {"ERROR", "CRITICAL"}

\* The types that can come first on the way from a state to an event of a type,
\* read off every walk through the table.
Walks ==
  {h \in UNION {[1..n -> TransitionTable] : n \in 1..5} :
     \A i \in 1..Len(h) - 1 : h[i].to = h[i + 1].from}

FirstSteps ==
  [from \in RecordStates |-> [type \in EventTypes |->
     {h[1].type : h \in {w \in Walks : w[1].from = from
                                      /\ w[Len(w)].type = type}}]]

\* MISSING_EVENT is raised exactly for a delayed event that every legal course
\* of the payment reaches through one and the same other event type
\* (packages/exceptions/README.md, "Missing events").
MissingIsForced ==
  pc = "done" =>
    \A c \in {x \in AttemptCauses : x.met # NoMeeting} :
      "MISSING_EVENT" \in detectException(Facts(c)) <=>
        /\ Decision(c.met) = "DELAYED"
        /\ \E t \in EventTypes \ {c.met.type} :
             FirstSteps[c.met.from][c.met.type] = {t}
=============================================================================
