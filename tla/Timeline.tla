------------------------------- MODULE Timeline -------------------------------
(***************************************************************************)
(* packages/observability/timeline.ts: an incident's chronology, composed  *)
(* of the audit rows of its payment and of the latest investigation. An    *)
(* audit row becomes one item or several; the items an audit row only      *)
(* implies (a stored webhook was verified) carry its time. Items here have *)
(* their lifecycle name, clock and order, and the investigation they are   *)
(* about; details of retries and what is copied from the row are left out. *)
(***************************************************************************)
EXTENDS Integers, Sequences, SequencesExt

SIGNATURE_REJECT_REASONS ==
  {"INVALID_SIGNATURE", "MISSING_SIGNATURE", "MALFORMED_SIGNATURE",
   "EXPIRED_SIGNATURE"}

\* Mutant: a delay counts wherever on the trail it is.
delayedSeenAnywhere(audit, i) ==
  \E j \in DOMAIN audit : audit[j].type = "WEBHOOK_DELAYED" /\ audit[j].hook # 0

\* A state change counts as a replay once any webhook was delayed, its own or
\* another.
delayedSeen(audit, i) ==
  \E j \in 1..(i - 1) : audit[j].type = "WEBHOOK_DELAYED" /\ audit[j].hook # 0

expandAudit(audit, i) ==
  LET type == audit[i].type
  IN  CASE type = "WEBHOOK_RECEIVED" ->
             <<"WEBHOOK_RECEIVED", "SIGNATURE_VERIFIED", "WEBHOOK_NORMALIZED",
               "EVENT_PERSISTED", "PROCESSING_STARTED">>
        [] type = "WEBHOOK_DUPLICATE" ->
             <<"WEBHOOK_RECEIVED", "SIGNATURE_VERIFIED", "DUPLICATE_DETECTED">>
        [] type = "WEBHOOK_CONFLICT" ->
             <<"WEBHOOK_RECEIVED", "SIGNATURE_VERIFIED", "CONFLICT_DETECTED">>
        [] type = "WEBHOOK_REJECTED" ->
             <<"WEBHOOK_RECEIVED",
               IF audit[i].reason \in SIGNATURE_REJECT_REASONS
               THEN "SIGNATURE_REJECTED" ELSE "PROCESSING_FAILED">>
        [] type = "PAYMENT_STATE_CHANGED" ->
             <<"STATE_TRANSITION">>
               \o (IF delayedSeen(audit, i) THEN <<"REPLAY_COMPLETED">> ELSE << >>)
        [] type = "WEBHOOK_DELAYED" -> <<"REPLAY_STARTED">>
        [] type \in {"RETRY_SCHEDULED", "RETRY_ATTEMPTED", "RETRY_SUCCEEDED"} ->
             <<type>>
        [] type = "RETRY_DEAD_LETTERED" -> <<"RETRY_EXHAUSTED">>
        [] type = "WEBHOOK_CONFLICT_DETECTED" ->
             <<"CONFLICT_DETECTED", "EXCEPTION_CREATED">>
        [] type \in {"EXCEPTION_DETECTED", "INVALID_TRANSITION_DETECTED",
                     "RETRY_EXHAUSTED"} -> <<"EXCEPTION_CREATED">>
        [] type = "INVESTIGATION_RECORDED" -> <<"INVESTIGATION_AVAILABLE">>
        [] OTHER -> << >>

item(lifecycle, at, about) == [lifecycle |-> lifecycle, at |-> at, about |-> about]

fromAudit(audit) ==
  FlattenSeq([i \in DOMAIN audit |->
                [k \in DOMAIN expandAudit(audit, i) |->
                   item(expandAudit(audit, i)[k], audit[i].at, audit[i].about)]])

\* The stored investigation speaks for itself only where no audit row tells of
\* one, whichever it is about.
fromTable(audit, investigation) ==
  IF investigation.id = 0
     \/ \E row \in ToSet(audit) : row.type = "INVESTIGATION_RECORDED"
  THEN << >>
  ELSE <<item("INVESTIGATION_AVAILABLE", investigation.at, investigation.id)>>

\* Sorted by clock; items of one clock stay in the order they were drafted.
compareDraft(drafts) ==
  SortSeq([i \in DOMAIN drafts |-> <<drafts[i].at, i>>],
          LAMBDA a, b : a[1] < b[1] \/ (a[1] = b[1] /\ a[2] < b[2]))

\* The first page of the timeline: a caller that gives no offset sees no other.
composeIncidentTimeline(audit, investigation, limit) ==
  LET drafts == fromAudit(audit) \o fromTable(audit, investigation)
      order  == compareDraft(drafts)
      items  == [i \in DOMAIN drafts |-> drafts[order[i][2]]]
  IN  SubSeq(items, 1, IF Len(items) < limit THEN Len(items) ELSE limit)
=============================================================================
