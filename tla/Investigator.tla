----------------------------- MODULE Investigator -----------------------------
(***************************************************************************)
(* packages/investigation: what an investigator may say of an exception,   *)
(* given the evidence it is handed. Three implementations (the stub, the   *)
(* model behind an HTTP provider, and the one that stands in when there is *)
(* none) go through one validation, which binds every citation and every   *)
(* identifier to the evidence.                                             *)
(*                                                                         *)
(* The evidence is a record                                                *)
(*    exc, code, hook   the exception, and its webhook or 0;               *)
(*    webhooks          rows [id, received], in provider time;             *)
(*    projected         whether the payment has a row;                     *)
(*    retries           rows [hook, status], in the order they were read;  *)
(*    audit             a set of rows [id, type, at, ...], whose order is   *)
(*                      that of at and, within one instant, of id.          *)
(* An identifier is <<kind, number>>, of kind "long" if it is longer than  *)
(* MAX_FACT; a citation is <<source, number>>. An answer has its incident  *)
(* type, confidence, citations, the identifiers its prose mentions and     *)
(* those in its limitations, a list apart that is not scanned. Wording,    *)
(* rules, recommended actions and the hash of the evidence are left out.   *)
(***************************************************************************)
EXTENDS Integers, Sequences, SequencesExt

INVESTIGATION_INCIDENT_TYPES ==
  {"DUPLICATE_DELIVERY", "OUT_OF_ORDER_EVENT", "CONFLICTING_EVENT",
   "TRANSIENT_FAILURE", "RETRY_EXHAUSTION", "PERMANENT_FAILURE",
   "INVALID_SIGNATURE", "UNSUPPORTED_EVENT", "UNKNOWN", "INSUFFICIENT_EVIDENCE"}

CONFIDENCES == {"LOW", "MEDIUM", "HIGH"}

explanatoryIncidentTypeFor(code) ==
  CASE code = "DUPLICATE_EVENT"                         -> "DUPLICATE_DELIVERY"
    [] code \in {"OUT_OF_ORDER_EVENT", "MISSING_EVENT"} -> "OUT_OF_ORDER_EVENT"
    [] code = "PROCESSING_FAILURE"                      -> "TRANSIENT_FAILURE"
    [] code = "RETRY_EXHAUSTED"                         -> "RETRY_EXHAUSTION"
    [] code = "INVALID_STATE_TRANSITION"                -> "PERMANENT_FAILURE"
    [] code = "MALFORMED_WEBHOOK"                       -> "UNKNOWN"
    [] OTHER                                            -> code

Told(p, types) == \E row \in p.audit : row.type \in types

CONFLICT_AUDIT == {"WEBHOOK_CONFLICT", "WEBHOOK_CONFLICT_DETECTED"}

\* The exception record alone is not enough to name a cause.
isInsufficientEvidence(p) ==
  p.webhooks = << >> /\ ~p.projected /\ p.retries = << >> /\ p.audit = {}

\* Whether the evidence contradicts itself.
evidenceConflictNote(p) ==
  \/ {"SUCCEEDED", "DEAD_LETTERED"} \subseteq {row.status : row \in ToSet(p.retries)}
  \/ Told(p, {"WEBHOOK_DUPLICATE"}) /\ Told(p, CONFLICT_AUDIT)

\* Delivery order against provider time, or a delay on record.
orderingMismatch(p) ==
  \/ Told(p, {"WEBHOOK_DELAYED"})
  \/ \E i, j \in DOMAIN p.webhooks :
       i < j /\ p.webhooks[i].received > p.webhooks[j].received

Corroborated(p) ==
  \/ /\ p.code = "DUPLICATE_EVENT"
     /\ Told(p, {"WEBHOOK_DUPLICATE"}) /\ p.webhooks # << >>
  \/ /\ p.code = "CONFLICTING_EVENT"
     /\ Told(p, CONFLICT_AUDIT) /\ p.webhooks # << >>
  \/ /\ p.code = "RETRY_EXHAUSTED"
     /\ Told(p, {"RETRY_EXHAUSTED", "RETRY_DEAD_LETTERED"})
  \/ p.code = "OUT_OF_ORDER_EVENT" /\ orderingMismatch(p)

confidenceFor(p) ==
  IF evidenceConflictNote(p) THEN "LOW"
  ELSE IF Corroborated(p) THEN "HIGH" ELSE "MEDIUM"

-----------------------------------------------------------------------------
(* Answers *)

Answer(type, confidence, cites, mentions, limits) ==
  [type |-> type, confidence |-> confidence, cites |-> cites,
   mentions |-> mentions, limits |-> limits]

\* The first row of one of these types, as a citation.
FirstOf(p, source, types) ==
  LET told == {row \in p.audit : row.type \in types}
  IN  {<<source, x.id>> : x \in
         {y \in told : \A z \in told : y.at < z.at \/ (y.at = z.at /\ y.id <= z.id)}}

\* The webhook the exception names, or else the first one there is.
Relevant(p) ==
  LET i == SelectInSeq(p.webhooks, LAMBDA row : row.id = p.hook)
  IN  IF i # 0 THEN {p.webhooks[i].id}
      ELSE IF p.webhooks # << >> THEN {p.webhooks[1].id} ELSE {}

gatherEvidence(p) ==
  {<<"INCIDENT", p.exc>>, <<"EXCEPTION", p.exc>>}
    \cup ({"WEBHOOK_EVENT"} \X Relevant(p))
    \cup FirstOf(p, "STATE_TRANSITION", {"PAYMENT_STATE_CHANGED"})
    \cup FirstOf(p, "AUDIT_EVENT", {"WEBHOOK_DUPLICATE"})
    \cup FirstOf(p, "AUDIT_EVENT", CONFLICT_AUDIT)
    \cup FirstOf(p, "AUDIT_EVENT", {"WEBHOOK_DELAYED"})
    \cup (IF p.retries = << >> THEN {}
          ELSE {<<"RETRY_ATTEMPT", p.retries[1].hook>>})

StubInvestigator(p) ==
  IF isInsufficientEvidence(p)
  THEN Answer("INSUFFICIENT_EVIDENCE", "LOW", {<<"EXCEPTION", p.exc>>},
              {<<"exception", p.exc>>}, {})
  ELSE Answer(explanatoryIncidentTypeFor(p.code), confidenceFor(p),
              gatherEvidence(p),
              {<<"exception", p.exc>>} \cup {<<"hook", h>> : h \in Relevant(p)}, {})

\* Its limitations say why there is no explanation, in the words of the error:
\* reason is the identifier in them, if any.
UnavailableInvestigator(p, reason) ==
  Answer(IF isInsufficientEvidence(p) THEN "INSUFFICIENT_EVIDENCE" ELSE "UNKNOWN",
         "LOW", {<<"EXCEPTION", p.exc>>}, {<<"exception", p.exc>>}, reason)

-----------------------------------------------------------------------------
(* Validation *)

evidenceAllowed(p, cite) ==
  CASE cite[1] \in {"EXCEPTION", "INCIDENT"} -> cite[2] = p.exc
    [] cite[1] = "WEBHOOK_EVENT" ->
         \E row \in ToSet(p.webhooks) : row.id = cite[2]
    [] cite[1] \in {"AUDIT_EVENT", "STATE_TRANSITION"} ->
         \E row \in p.audit : row.id = cite[2]
    [] cite[1] = "RETRY_ATTEMPT" ->
         \E row \in ToSet(p.retries) : row.hook = cite[2]
    [] OTHER -> FALSE

contextIdentifierCatalog(p) ==
  {<<"exception", p.exc>>}
    \cup (IF p.hook = 0 THEN {} ELSE {<<"hook", p.hook>>})
    \cup {<<"hook", row.id>> : row \in ToSet(p.webhooks)}
    \cup {<<"audit", row.id>> : row \in p.audit}
    \cup {<<"retry", row.hook>> : row \in ToSet(p.retries)}

Invented(p, answer) == answer.mentions \ contextIdentifierCatalog(p)

\* The form of an answer: its verdict is one there is, and an entry of the
\* limitations has at most MAX_FACT characters.
createInvestigationResult(answer) ==
  /\ answer.type \in INVESTIGATION_INCIDENT_TYPES
  /\ \A m \in answer.limits : m[1] # "long"

\* Mutant: an answer is believed once it has the form of one.
validateInvestigationResultByForm(p, answer) ==
  /\ createInvestigationResult(answer)
  /\ isInsufficientEvidence(p) =>
       answer.type = "INSUFFICIENT_EVIDENCE" /\ answer.confidence = "LOW"

\* Whether an answer is let through.
validateInvestigationResult(p, answer) ==
  /\ createInvestigationResult(answer)
  /\ \A cite \in answer.cites : evidenceAllowed(p, cite)
  /\ Invented(p, answer) = {}
  /\ isInsufficientEvidence(p) =>
       answer.type = "INSUFFICIENT_EVIDENCE" /\ answer.confidence = "LOW"
  /\ ~(evidenceConflictNote(p) /\ answer.confidence = "HIGH")

\* What the error over an answer that is not may name: the identifier found to
\* be invented, unless a citation was refused before it was come to.
ErrorNames(p, answer) ==
  IF ~createInvestigationResult(answer) \/ Invented(p, answer) = {} THEN {{}}
  ELSE {{m} : m \in Invented(p, answer)}
         \cup (IF \E cite \in answer.cites : ~evidenceAllowed(p, cite)
               THEN {{}} ELSE {})
=============================================================================
